------------------------------ MODULE Spointer ------------------------------
(***************************************************************************)
(* The spointers of one enclave thread as pointers: class Aptr keeps an    *)
(* address as a base page, a page relative to it and an offset that may    *)
(* have run out of the page, and deref takes a fast path when the offset   *)
(* lies inside it.  Module Suvm takes the page of an access as given; here *)
(* it is computed the way the code does, through construction, movement,   *)
(* assignment, reset, comparison and the memory functions on spointers.    *)
(*                                                                         *)
(* prm is the page whose frame prm_ptr leads to, or Dummy for &DUMMY; a    *)
(* page fault always ends linked.  A page's reference count is exact here  *)
(* (its width is in Suvm).  addr is a history variable: where the pointer  *)
(* would point if it were an ordinary one.                                 *)
(***************************************************************************)
EXTENDS Integers, FiniteSets

CONSTANTS
  Aptrs,      \* the caller's spointers
  Tmp,        \* the local spointer of a memory function
  PageSize,   \* PAGE_SIZE
  NumPages,   \* pages of the pool
  ElemSize,   \* sizeof(T)
  Moves,      \* distances by which spointers are moved
  Lengths,    \* lengths of the memory functions
  MaxOffset,  \* bound on an offset that is copied: each copy adds a page to it
  Dummy, Null, None

ASSUME SizeAssumption == /\ PageSize \in Nat \ {0} /\ NumPages \in Nat \ {0} /\ ElemSize \in Nat \ {0}
                         /\ Moves \subseteq Int /\ Lengths \subseteq Nat \ {0}
                         /\ MaxOffset \in Nat
ASSUME NameAssumption == /\ Tmp \notin Aptrs /\ IsFiniteSet(Aptrs)
                         /\ Dummy \notin Int /\ Null \notin Int

VARIABLES
  base,     \* m_base_page_index, -1 for a null spointer
  page,     \* m_aptr.page
  offset,   \* m_aptr.offset
  prm,      \* m_aptr.prm_ptr
  ref,      \* m_ref_count of each page
  addr,     \* history
  xfer,     \* the memory function that is running
  last      \* history: the last access (where it went, its length, where it
            \* was due) or assignment

ptrVars == <<base, page, offset, prm>>
vars == <<ptrVars, ref, addr, xfer, last>>

Objects == Aptrs \cup {Tmp}
Pool    == 0 .. PageSize * NumPages - 1
PoolPages == 0 .. NumPages - 1
InPool(x, n) == x + n <= PageSize * NumPages
Xfers   == [fn : {"chunks", "bytes"}, aptr : Objects, ctr : Nat, n : Nat]

ASSUME NoneAssumption == None \notin Xfers

-----------------------------------------------------------------------------
Init ==
  /\ base   = [a \in Objects |-> -1]
  /\ page   = [a \in Objects |-> 0]
  /\ offset = [a \in Objects |-> 0]
  /\ prm    = [a \in Objects |-> Dummy]
  /\ ref    = [p \in PoolPages |-> 0]
  /\ addr   = [a \in Objects |-> Null]
  /\ xfer   = None
  /\ last   = None

\* ISVALID: deref's condition for the fast path.
IsValid(x) == x < PageSize /\ x >= 0

\* The constructor from an address: the offset starts one page too high and
\* the page one too low, so that the first dereference faults.
Construct(a, x) ==
  /\ base'   = [base EXCEPT ![a] = x \div PageSize]
  /\ page'   = [page EXCEPT ![a] = -1]
  /\ offset' = [offset EXCEPT ![a] = (x % PageSize) + PageSize]
  /\ prm'    = [prm EXCEPT ![a] = Dummy]
  /\ addr'   = [addr EXCEPT ![a] = x]

\* do_copy, with the same device.
BugDoCopy(a, b) ==
  /\ base'   = [base EXCEPT ![a] = base[b]]
  /\ page'   = [page EXCEPT ![a] = page[b]]
  /\ offset' = [offset EXCEPT ![a] = offset[b] + PageSize]
  /\ prm'    = [prm EXCEPT ![a] = Dummy]
  /\ addr'   = [addr EXCEPT ![a] = addr[b]]
DoCopy(a, b) ==
  /\ base'   = [base EXCEPT ![a] = base[b]]
  /\ page'   = [page EXCEPT ![a] = page[b] - 1]
  /\ offset' = [offset EXCEPT ![a] = offset[b] + PageSize]
  /\ prm'    = [prm EXCEPT ![a] = Dummy]
  /\ addr'   = [addr EXCEPT ![a] = addr[b]]

\* reset's effect on the counts: a linked spointer gives up its page.
BugUnpin(a) == ref' = ref
Unpin(a) ==
  ref' = IF base[a] >= 0 /\ prm[a] # Dummy
         THEN [ref EXCEPT ![base[a] + page[a]] = @ - 1] ELSE ref

\* reset, to a null spointer; nothing reads the page and offset of one.
Clear(a) ==
  /\ Unpin(a)
  /\ base'   = [base EXCEPT ![a] = -1]
  /\ prm'    = [prm EXCEPT ![a] = Dummy]
  /\ page'   = [page EXCEPT ![a] = 0]
  /\ offset' = [offset EXCEPT ![a] = 0]
  /\ addr'   = [addr EXCEPT ![a] = Null]

\* page_fault brings the offset back into a page and links the spointer to it.
FaultPage(a) == page[a] + (offset[a] \div PageSize)

PageFault(a) ==
  LET new == base[a] + FaultPage(a)  old == base[a] + page[a] IN
  /\ page'   = [page EXCEPT ![a] = FaultPage(a)]
  /\ offset' = [offset EXCEPT ![a] = @ % PageSize]
  /\ prm'    = [prm EXCEPT ![a] = new]
  /\ ref'    = [p \in PoolPages |-> ref[p] + (IF p = new THEN 1 ELSE 0)
                                     - (IF p = old /\ prm[a] # Dummy THEN 1 ELSE 0)]

\* deref followed by an access of n bytes; through &DUMMY it goes astray.
Access(a, n) ==
  /\ \/ IsValid(offset[a]) /\ UNCHANGED <<page, offset, prm, ref>>
     \/ ~IsValid(offset[a]) /\ PageFault(a)
  /\ last' = [at  |-> IF prm'[a] = Dummy THEN Null ELSE prm'[a] * PageSize + offset'[a],
              n   |-> n,
              due |-> addr[a]]
  /\ UNCHANGED base

-----------------------------------------------------------------------------
New(a, x) ==
  /\ xfer = None /\ base[a] = -1
  /\ Construct(a, x)
  /\ last' = None
  /\ UNCHANGED <<ref, xfer>>

\* operator=, between two objects.
Assign(a, b) ==
  /\ xfer = None /\ a # b /\ base[b] >= 0 /\ offset[b] <= MaxOffset
  /\ Unpin(a)
  /\ DoCopy(a, b)
  /\ last' = [to |-> a, from |-> b]
  /\ UNCHANGED xfer

\* reset, and the destructor.
Reset(a) ==
  /\ xfer = None /\ base[a] >= 0
  /\ Clear(a)
  /\ last' = None
  /\ UNCHANGED xfer

\* ++, --, += and -=, within the pool or to its end.
Move(a, d) ==
  /\ xfer = None /\ base[a] >= 0
  /\ addr[a] + d \in 0 .. PageSize * NumPages
  /\ offset' = [offset EXCEPT ![a] = @ + d]
  /\ addr'   = [addr EXCEPT ![a] = @ + d]
  /\ last' = None
  /\ UNCHANGED <<base, page, prm, ref, xfer>>

\* operator*, and the use of the T it refers to: the bytes from the offset on, in
\* the frame or beyond its end.
Deref(a) ==
  /\ xfer = None /\ addr[a] \in Pool /\ InPool(addr[a], ElemSize)
  /\ Access(a, ElemSize)
  /\ UNCHANGED <<addr, xfer>>

\* operator==, as it parses: a shift binds tighter than a comparison, but
\* weaker than an addition.
Eq(a, b) ==
  /\ base[b] = base[a]
  /\ offset[b] + (page[b] \div PageSize) = (offset[a] + page[a]) \div PageSize

(***************************************************************************)
(* The memory functions.  memmove_reg_aptr reads through the caller's own  *)
(* spointer and moves it; memmove_aptr_reg writes through a copy; both go  *)
(* a chunk at a time, to the end of the page.  memset_aptr, memcpy_aptr,   *)
(* memcmp_*_aptr and strncmp_aptr go byte by byte through spointers of     *)
(* their own, and the comparisons may end early.                           *)
(***************************************************************************)
Begin(f, a, n) == xfer' = [fn |-> f, aptr |-> a, ctr |-> n, n |-> 0]

MemmoveRegAptr(a, n) ==
  /\ xfer = None /\ base[a] >= 0 /\ InPool(addr[a], n)
  /\ Begin("chunks", a, n)
  /\ last' = None
  /\ UNCHANGED <<ptrVars, ref, addr>>

MemmoveAptrReg(a, n) ==
  /\ xfer = None /\ base[a] >= 0 /\ InPool(addr[a], n)
  /\ offset[a] <= MaxOffset
  /\ DoCopy(Tmp, a)
  /\ Begin("chunks", Tmp, n)
  /\ last' = None
  /\ UNCHANGED ref

ByteLoop(x, n) ==
  /\ xfer = None /\ InPool(x, n)
  /\ Construct(Tmp, x)
  /\ Begin("bytes", Tmp, n)
  /\ last' = None
  /\ UNCHANGED ref

\* The length of the next piece, given the offset after deref.
BugPiece(x) == IF xfer.fn = "bytes" THEN 1 ELSE IF xfer.ctr > PageSize THEN PageSize ELSE xfer.ctr
Piece(x) ==
  IF xfer.fn = "bytes" THEN 1
  ELSE IF xfer.ctr > PageSize - x THEN PageSize - x ELSE xfer.ctr

Copy ==
  /\ xfer # None /\ xfer.ctr > 0 /\ xfer.n = 0
  /\ Access(xfer.aptr, Piece(offset'[xfer.aptr]))
  /\ xfer' = [xfer EXCEPT !.n = last'.n]
  /\ UNCHANGED addr

\* The last chunk of a memmove does not move the spointer; the byte loops
\* always do.
Advance ==
  LET d == IF xfer.fn = "bytes" \/ xfer.ctr > xfer.n THEN xfer.n ELSE 0 IN
  /\ xfer # None /\ xfer.n > 0
  /\ offset' = [offset EXCEPT ![xfer.aptr] = @ + d]
  /\ addr'   = [addr EXCEPT ![xfer.aptr] = @ + d]
  /\ xfer'   = [xfer EXCEPT !.ctr = @ - xfer.n, !.n = 0]
  /\ last'   = None
  /\ UNCHANGED <<base, page, prm, ref>>

\* The function returns; a spointer of its own is destroyed.  A comparison may
\* return from within its loop.
End ==
  /\ xfer # None
  /\ xfer.ctr = 0 \/ (xfer.fn = "bytes" /\ xfer.n > 0)
  /\ xfer' = None
  /\ last' = None
  /\ IF xfer.aptr = Tmp
     THEN Clear(Tmp) ELSE UNCHANGED <<ptrVars, ref, addr>>

-----------------------------------------------------------------------------
Next ==
  \/ \E a \in Aptrs :
       \/ \E x \in Pool : New(a, x)
       \/ \E b \in Aptrs : Assign(a, b)
       \/ \E d \in Moves : Move(a, d)
       \/ Reset(a) \/ Deref(a)
       \/ \E n \in Lengths : MemmoveRegAptr(a, n) \/ MemmoveAptrReg(a, n)
  \/ \E x \in Pool, n \in Lengths : ByteLoop(x, n)
  \/ Copy \/ Advance \/ End

Spec == Init /\ [][Next]_vars

-----------------------------------------------------------------------------
\* Type invariant.
TypeOK ==
  /\ base \in [Objects -> PoolPages \cup {-1}]
  /\ page \in [Objects -> Int] /\ offset \in [Objects -> Int]
  /\ prm \in [Objects -> PoolPages \cup {Dummy}]
  /\ ref \in [PoolPages -> Nat]
  /\ addr \in [Objects -> 0 .. PageSize * NumPages \cup {Null}]

\* Every access of a spointer, and every piece that a memory function handles,
\* is at the address that the pointer arithmetic of the program means.  Every
\* piece of a memory function is within one page, and so is an object of type T
\* at a multiple of its size, if that divides the page; a T that straddles two
\* pages leaves the frame, as deref looks at its first byte only.
Aligned(x) == x % ElemSize = 0 /\ PageSize % ElemSize = 0
InOnePage(x, n) == x \div PageSize = (x + n - 1) \div PageSize
AccessesRight ==
  last # None /\ "at" \in DOMAIN last =>
    /\ last.at = last.due
    /\ (xfer # None \/ Aligned(last.due)) => InOnePage(last.due, last.n)

\* However spointers are moved, copied, reset and destroyed, each page is
\* counted once for every spointer linked to it.
PinsExact ==
  \A p \in PoolPages : ref[p] = Cardinality({a \in Objects : prm[a] = p})

\* do_copy's comment on the value DUMMY, "not valid by def": a spointer that is
\* not linked never takes the fast path of deref.  It fails, see the README, for
\* one that is moved back.
DummyNotValid ==
  \A a \in Objects : base[a] >= 0 /\ prm[a] = Dummy => ~IsValid(offset[a])

\* test_assignment_operation of Aptr_tester.cpp: after ptr2 = ptr1, operator==
\* tells that ptr2 and ptr1 are equal.  It fails, see the README.
AssignedEqual == last # None /\ "to" \in DOMAIN last => Eq(last.to, last.from)
=============================================================================
