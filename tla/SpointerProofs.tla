---------------------------- MODULE SpointerProofs ----------------------------
(***************************************************************************)
(* Spointers for every page size, pool and number of spointers: their      *)
(* arithmetic is that of ordinary pointers, and the pages they pin are     *)
(* counted exactly.                                                        *)
(***************************************************************************)
EXTENDS Spointer, FiniteSetTheorems, TLAPS

\* The state that the memory functions leave between calls: no local spointer.
XferInv ==
  /\ xfer = None \/ xfer.aptr # Tmp => base[Tmp] = -1
  /\ xfer # None =>
       /\ xfer \in Xfers /\ base[xfer.aptr] >= 0
       /\ addr[xfer.aptr] + xfer.ctr <= PageSize * NumPages
       /\ xfer.n <= xfer.ctr
       /\ xfer.fn = "bytes" => xfer.aptr = Tmp

\* The base page, the relative page and the offset of a spointer always add up to
\* the address it stands for, wherever the offset has run to; a linked spointer is
\* linked to its own page.
PtrInv ==
  \A a \in Objects :
    /\ base[a] = -1 => prm[a] = Dummy /\ addr[a] = Null
    /\ base[a] >= 0 => /\ addr[a] \in 0 .. PageSize * NumPages
                       /\ addr[a] = (base[a] + page[a]) * PageSize + offset[a]
    /\ prm[a] # Dummy => prm[a] = base[a] + page[a]

SInv == TypeOK /\ PtrInv /\ XferInv /\ PinsExact

\* While spointers only move forward, one that is not linked has its offset beyond
\* the page, and so never takes the fast path of deref.
ForwardOnly == Moves \subseteq Nat
ForwardInv ==
  \A a \in Objects : base[a] >= 0 => /\ offset[a] >= 0
                                     /\ prm[a] = Dummy => offset[a] >= PageSize

-----------------------------------------------------------------------------
\* Division by the page size.
LEMMA DivMod ==
  ASSUME NEW S \in Nat \ {0}, NEW x \in Int
  PROVE  /\ x \div S \in Int /\ x % S \in 0 .. S - 1
         /\ x = (x \div S) * S + (x % S)
<1>1. x \div S \in Int /\ x % S \in 0 .. S - 1
  OBVIOUS
<1>2. x = (x \div S) * S + (x % S)
  OBVIOUS
<1> QED BY <1>1, <1>2

\* The quotient of a multiple and a remainder.
LEMMA Quotient ==
  ASSUME NEW S \in Nat \ {0}, NEW q \in Int, NEW r \in 0 .. S - 1
  PROVE  (q * S + r) \div S = q
OBVIOUS

\* An aligned element of a size that divides the page ends in the page.
LEMMA AlignedEnds ==
  ASSUME NEW S \in Nat \ {0}, NEW E \in Nat \ {0}, NEW q \in Int, NEW r \in 0 .. S - 1,
         S % E = 0, (q * S + r) % E = 0
  PROVE  r + E <= S
<1> DEFINE k == S \div E
           j == (q * S + r) \div E
<1>1. k \in Int /\ S = k * E
  BY DivMod
<1>2. j \in Int /\ q * S + r = j * E
  <2>1. q * S + r \in Int
    OBVIOUS
  <2> QED BY <2>1, DivMod
<1> HIDE DEF k, j
<1> DEFINE m == q * k
<1>3. m \in Int /\ q * S = m * E
  <2>1. m \in Int
    BY <1>1
  <2>2. q * (k * E) = (q * k) * E
    BY <1>1
  <2> QED BY <1>1, <2>1, <2>2
<1> HIDE DEF m
<1>4. r = (j - m) * E
  <2>1. (j - m) * E = j * E - m * E
    BY <1>2, <1>3
  <2>2. j * E \in Int /\ m * E \in Int /\ r \in Int
    BY <1>2, <1>3
  <2> QED BY <1>2, <1>3, <2>1, <2>2
<1> DEFINE i == j - m
<1>5. i \in Int /\ r = i * E
  BY <1>2, <1>3, <1>4
<1> HIDE DEF i
<1>6. i < k
  <2> SUFFICES ASSUME i >= k PROVE FALSE
    BY <1>1, <1>5
  <2>1. (i - k) * E >= 0 /\ (i - k) * E = i * E - k * E
    BY <1>1, <1>5
  <2>2. i * E = r /\ k * E = S
    BY <1>1, <1>5
  <2>3. r - S >= 0
    BY <2>1, <2>2
  <2> QED BY <2>3
<1>7. (k - i - 1) * E >= 0 /\ (k - i - 1) * E = k * E - i * E - E
  BY <1>1, <1>5, <1>6
<1>8. k * E = S /\ i * E = r
  BY <1>1, <1>5
<1>9. S - r - E >= 0
  BY <1>7, <1>8
<1> QED BY <1>9

\* The page of an address in the pool is a page of the pool.
LEMMA PoolPage ==
  ASSUME NEW S \in Nat \ {0}, NEW M \in Nat \ {0}, NEW x \in 0 .. S * M - 1
  PROVE  x \div S \in 0 .. M - 1
<1> DEFINE q == x \div S
           r == x % S
<1>1. q \in Int /\ r \in 0 .. S - 1 /\ x = q * S + r
  BY DivMod
<1> HIDE DEF q, r
<1>2. ASSUME q < 0 PROVE FALSE
  <2>1. (-q) * S >= S
    BY <1>1, <1>2
  <2> QED BY <1>1, <2>1
<1>3. ASSUME q >= M PROVE FALSE
  <2>1. (q - M) * S >= 0
    BY <1>1, <1>3
  <2>2. q * S >= S * M
    BY <1>1, <2>1
  <2> QED BY <1>1, <2>2
<1>4. q \in 0 .. M - 1
  BY <1>1, <1>2, <1>3
<1> QED BY <1>4 DEF q

\* The spointers linked to a page, when one of them is linked anew.
Linked(f, p) == {a \in Objects : f[a] = p}
One(x, p) == IF x = p THEN 1 ELSE 0

\* Linking one spointer elsewhere changes the number of those linked to a page by one
\* or not at all.
LEMMA LinkedMoves ==
  ASSUME NEW f, f \in [Objects -> PoolPages \cup {Dummy}], NEW a \in Objects, NEW v, NEW p
  PROVE  /\ Cardinality(Linked([f EXCEPT ![a] = v], p)) \in Nat
         /\ Cardinality(Linked([f EXCEPT ![a] = v], p))
              = Cardinality(Linked(f, p)) + One(v, p) - One(f[a], p)
<1> DEFINE g == [f EXCEPT ![a] = v]
           A == Linked(f, p) \ {a}
<1>1. IsFiniteSet(Objects)
  BY NameAssumption, FS_AddElement DEF Objects
<1>2. /\ Linked(f, p) = IF f[a] = p THEN A \cup {a} ELSE A
      /\ Linked(g, p) = IF v = p THEN A \cup {a} ELSE A
      /\ a \notin A /\ A \subseteq Objects
  BY DEF Linked
<1> HIDE DEF A, g
<1>3. IsFiniteSet(A) /\ Cardinality(A) \in Nat
  BY <1>1, <1>2, FS_Subset, FS_CardinalityType
<1>4. Cardinality(A \cup {a}) = Cardinality(A) + 1
  BY <1>2, <1>3, FS_AddElement
<1>5. /\ Cardinality(Linked(f, p)) = Cardinality(A) + One(f[a], p)
      /\ Cardinality(Linked(g, p)) = Cardinality(A) + One(v, p)
  BY <1>2, <1>3, <1>4 DEF One
<1>6. One(f[a], p) \in Nat /\ One(v, p) \in Nat
  BY DEF One
<1>7. /\ Cardinality(Linked(g, p)) \in Nat
      /\ Cardinality(Linked(g, p)) = Cardinality(Linked(f, p)) + One(v, p) - One(f[a], p)
  BY <1>3, <1>5, <1>6
<1> QED BY <1>7 DEF g

-----------------------------------------------------------------------------
\* What PtrInv says of one spointer.
PtrAt(b, pg, o, pr, ad) ==
  /\ b \in PoolPages \cup {-1} /\ pg \in Int /\ o \in Int /\ pr \in PoolPages \cup {Dummy}
  /\ ad \in 0 .. PageSize * NumPages \cup {Null}
  /\ b = -1 => pr = Dummy /\ ad = Null
  /\ b >= 0 => ad \in 0 .. PageSize * NumPages /\ ad = (b + pg) * PageSize + o
  /\ pr # Dummy => pr = b + pg

\* One spointer changes, and the counts of the page it leaves and of the page it
\* is linked to with it.
Changes(a, b, pg, o, pr, ad) ==
  /\ base' = [base EXCEPT ![a] = b] /\ page' = [page EXCEPT ![a] = pg]
  /\ offset' = [offset EXCEPT ![a] = o] /\ prm' = [prm EXCEPT ![a] = pr]
  /\ addr' = [addr EXCEPT ![a] = ad]
  /\ ref' = [p \in PoolPages |-> ref[p] + One(pr, p) - One(prm[a], p)]

\* What the invariant says of one spointer.
LEMMA PtrOf ==
  ASSUME SInv, NEW a \in Objects
  PROVE  PtrAt(base[a], page[a], offset[a], prm[a], addr[a])
BY DEF SInv, TypeOK, PtrInv, PtrAt

\* A change of one spointer that keeps its address right and its pin counted keeps
\* the invariant.
LEMMA ChangeKeeps ==
  ASSUME SInv, NEW a \in Objects, NEW b, NEW pg, NEW o, NEW pr, NEW ad,
         Changes(a, b, pg, o, pr, ad), PtrAt(b, pg, o, pr, ad)
  PROVE  (TypeOK /\ PtrInv /\ PinsExact)'
<1>1. TypeOK /\ PtrInv /\ PinsExact
  BY DEF SInv
<1>2. PinsExact' /\ ref' \in [PoolPages -> Nat]
  <2>1. ASSUME NEW p \in PoolPages
        PROVE  ref'[p] = Cardinality(Linked(prm', p)) /\ Cardinality(Linked(prm', p)) \in Nat
    <3>1. prm \in [Objects -> PoolPages \cup {Dummy}] /\ prm' = [prm EXCEPT ![a] = pr]
      BY <1>1 DEF TypeOK, Changes
    <3>2. /\ Cardinality(Linked(prm', p)) \in Nat
          /\ Cardinality(Linked(prm', p))
               = Cardinality(Linked(prm, p)) + One(pr, p) - One(prm[a], p)
      BY <3>1, LinkedMoves
    <3>3. ref[p] = Cardinality(Linked(prm, p))
      BY <1>1 DEF PinsExact, Linked
    <3>4. ref'[p] = ref[p] + One(pr, p) - One(prm[a], p)
      BY DEF Changes
    <3> QED BY <3>2, <3>3, <3>4
  <2>2. ref' = [p \in PoolPages |-> ref'[p]]
    BY DEF Changes
  <2>3. PinsExact'
    BY <2>1 DEF PinsExact, Linked
  <2> QED BY <2>1, <2>2, <2>3
<1>3. TypeOK'
  BY <1>1, <1>2 DEF TypeOK, Changes, PtrAt
<1>4. PtrInv'
  <2> SUFFICES ASSUME NEW x \in Objects
               PROVE  (/\ base[x] = -1 => prm[x] = Dummy /\ addr[x] = Null
                       /\ base[x] >= 0 => /\ addr[x] \in 0 .. PageSize * NumPages
                                          /\ addr[x] = (base[x] + page[x]) * PageSize + offset[x]
                       /\ prm[x] # Dummy => prm[x] = base[x] + page[x])'
    BY DEF PtrInv
  <2>1. CASE x = a
    <3>1. base'[x] = b /\ page'[x] = pg /\ offset'[x] = o /\ prm'[x] = pr /\ addr'[x] = ad
      BY <1>1, <2>1 DEF Changes, TypeOK
    <3> QED BY <3>1 DEF PtrAt
  <2>2. CASE x # a
    <3>1. /\ base'[x] = base[x] /\ page'[x] = page[x] /\ offset'[x] = offset[x]
          /\ prm'[x] = prm[x] /\ addr'[x] = addr[x]
      BY <1>1, <2>2 DEF Changes, TypeOK
    <3> QED BY <1>1, <3>1 DEF PtrInv
  <2> QED BY <2>1, <2>2
<1> QED BY <1>2, <1>3, <1>4

\* The same for the offsets of spointers that move forwards.
LEMMA ForwardKeeps ==
  ASSUME SInv, ForwardInv, NEW a \in Objects, NEW b, NEW pg, NEW o, NEW pr, NEW ad,
         Changes(a, b, pg, o, pr, ad), b >= 0 => o >= 0 /\ (pr = Dummy => o >= PageSize)
  PROVE  ForwardInv'
<1> SUFFICES ASSUME NEW x \in Objects
             PROVE  (base[x] >= 0 => /\ offset[x] >= 0
                                     /\ prm[x] = Dummy => offset[x] >= PageSize)'
  BY DEF ForwardInv
<1>1. TypeOK
  BY DEF SInv
<1>2. CASE x = a
  <2>1. base'[x] = b /\ offset'[x] = o /\ prm'[x] = pr
    BY <1>1, <1>2 DEF Changes, TypeOK
  <2> QED BY <2>1
<1>3. CASE x # a
  <2>1. base'[x] = base[x] /\ offset'[x] = offset[x] /\ prm'[x] = prm[x]
    BY <1>1, <1>3 DEF Changes, TypeOK
  <2> QED BY <2>1 DEF ForwardInv
<1> QED BY <1>2, <1>3

\* Between the memory functions, the caller's operations leave Tmp alone.
LEMMA IdleKeeps ==
  ASSUME SInv, NEW a \in Aptrs, NEW b, NEW pg, NEW o, NEW pr, NEW ad,
         Changes(a, b, pg, o, pr, ad), xfer = None, xfer' = None
  PROVE  XferInv'
<1>1. base'[Tmp] = base[Tmp]
  BY NameAssumption DEF Changes, SInv, TypeOK, Objects
<1> QED BY <1>1 DEF SInv, XferInv

\* No count changes when a spointer stays linked to its page.
LEMMA SamePin ==
  ASSUME SInv, NEW v
  PROVE  ref = [p \in PoolPages |-> ref[p] + One(v, p) - One(v, p)]
<1>1. ref \in [PoolPages -> Nat]
  BY DEF SInv, TypeOK
<1>2. ASSUME NEW p \in PoolPages PROVE ref[p] + One(v, p) - One(v, p) = ref[p]
  BY <1>1 DEF One
<1> QED BY <1>1, <1>2

\* A spointer that is not linked pins nothing.
LEMMA DummyApart ==
  ASSUME NEW p \in PoolPages
  PROVE  One(Dummy, p) = 0
BY NameAssumption, SizeAssumption DEF One, PoolPages

\* Unpin takes one off the count of the page a spointer was linked to.
LEMMA UnpinCounts ==
  ASSUME SInv, NEW a \in Objects, Unpin(a)
  PROVE  ref' = [p \in PoolPages |-> ref[p] + One(Dummy, p) - One(prm[a], p)]
<1>1. ref \in [PoolPages -> Nat] /\ PtrAt(base[a], page[a], offset[a], prm[a], addr[a])
  BY PtrOf DEF SInv, TypeOK
<1>2. CASE prm[a] = Dummy
  <2>1. ref' = ref
    BY <1>2 DEF Unpin
  <2> QED BY <1>2, <2>1, SamePin
<1>3. CASE prm[a] # Dummy
  <2>1. base[a] >= 0 /\ prm[a] = base[a] + page[a] /\ prm[a] \in PoolPages
    BY <1>1, <1>3, SizeAssumption DEF PtrAt, PoolPages
  <2>2. ref' = [ref EXCEPT ![prm[a]] = @ - 1]
    BY <1>3, <2>1 DEF Unpin
  <2>3. ASSUME NEW p \in PoolPages
        PROVE  ref'[p] = ref[p] + One(Dummy, p) - One(prm[a], p)
    <3>1. ref[p] \in Nat /\ One(Dummy, p) = 0
      BY <1>1, DummyApart
    <3>2. CASE p = prm[a]
      <4>1. ref'[p] = ref[p] - 1 /\ One(prm[a], p) = 1
        BY <1>1, <2>2, <3>2 DEF One
      <4> QED BY <3>1, <4>1
    <3>3. CASE p # prm[a]
      <4>1. ref'[p] = ref[p] /\ One(prm[a], p) = 0
        BY <1>1, <2>2, <3>3 DEF One
      <4> QED BY <3>1, <4>1
    <3> QED BY <3>2, <3>3
  <2>4. ref' = [p \in PoolPages |-> ref'[p]]
    BY <1>1, <2>2
  <2> QED BY <2>3, <2>4
<1> QED BY <1>2, <1>3

-----------------------------------------------------------------------------
\* The actions.  Each one changes a single spointer.
NewChanges(a, x) == Changes(a, x \div PageSize, -1, (x % PageSize) + PageSize, Dummy, x)

\* A constructed spointer stands one page too low, with its offset one page too high.
LEMMA ConstructFacts ==
  ASSUME SInv, NEW a \in Objects, NEW x \in Pool, base[a] = -1, Construct(a, x), ref' = ref
  PROVE  /\ NewChanges(a, x)
         /\ PtrAt(x \div PageSize, -1, (x % PageSize) + PageSize, Dummy, x)
         /\ (x % PageSize) + PageSize >= PageSize /\ PageSize >= 0
<1>1. prm[a] = Dummy
  BY DEF SInv, PtrInv
<1>2. NewChanges(a, x)
  BY <1>1, SamePin DEF Construct, NewChanges, Changes
<1>3. /\ x \div PageSize \in 0 .. NumPages - 1 /\ x \in Int
      /\ x % PageSize \in 0 .. PageSize - 1
      /\ x = (x \div PageSize) * PageSize + (x % PageSize)
  <2>1. x \in 0 .. PageSize * NumPages - 1 /\ x \in Int
    BY SizeAssumption DEF Pool
  <2>2. x \div PageSize \in 0 .. NumPages - 1
    BY <2>1, PoolPage, SizeAssumption
  <2> QED BY <2>1, <2>2, DivMod, SizeAssumption
<1> DEFINE q == x \div PageSize
           r == x % PageSize
<1> HIDE DEF q, r
<1>4. x = (q + -1) * PageSize + (r + PageSize)
  BY <1>3, SizeAssumption DEF q, r
<1>5. x \in 0 .. PageSize * NumPages
  BY SizeAssumption DEF Pool
<1>6. PtrAt(q, -1, r + PageSize, Dummy, x)
  BY <1>3, <1>4, <1>5, SizeAssumption DEF PtrAt, PoolPages, q, r
<1>7. r + PageSize >= PageSize /\ PageSize >= 0
  BY <1>3, SizeAssumption DEF r
<1> QED BY <1>2, <1>6, <1>7 DEF q, r

\* So does a copy: it means the same address as the original.
LEMMA CopyFacts ==
  ASSUME SInv, NEW a \in Objects, NEW b \in Objects, base[b] >= 0
  PROVE  PtrAt(base[b], page[b] - 1, offset[b] + PageSize, Dummy, addr[b])
<1>1. PtrAt(base[b], page[b], offset[b], prm[b], addr[b])
  BY PtrOf
<1>2. (base[b] + page[b]) * PageSize + offset[b]
        = (base[b] + (page[b] - 1)) * PageSize + (offset[b] + PageSize)
  BY <1>1, SizeAssumption DEF PtrAt, PoolPages
<1> QED BY <1>1, <1>2, SizeAssumption DEF PtrAt, PoolPages

\* deref, at an address of the pool: the spointer is linked to the page of its
\* address, unless it took the fast path unlinked.
AccessDone(a) ==
  /\ Changes(a, base[a], page'[a], offset'[a], prm'[a], addr[a])
  /\ PtrAt(base[a], page'[a], offset'[a], prm'[a], addr[a])
  /\ offset'[a] \in 0 .. PageSize - 1
  /\ prm'[a] = Dummy => prm[a] = Dummy /\ IsValid(offset[a])

\* An access links the spointer to the page of its address, and moves its pin there.
LEMMA AccessFacts ==
  ASSUME SInv, NEW a \in Objects, base[a] >= 0, addr[a] \in Pool, NEW n, Access(a, n),
         addr' = addr
  PROVE  AccessDone(a)
<1>1. /\ PtrAt(base[a], page[a], offset[a], prm[a], addr[a]) /\ TypeOK
      /\ page[a] \in Int /\ offset[a] \in Int /\ base[a] \in Int
      /\ addr[a] = (base[a] + page[a]) * PageSize + offset[a]
  BY PtrOf, SizeAssumption DEF PtrAt, SInv, PoolPages
<1>2. base' = [base EXCEPT ![a] = base[a]] /\ addr' = [addr EXCEPT ![a] = addr[a]]
  BY <1>1 DEF TypeOK, Access
<1>3. CASE IsValid(offset[a]) /\ UNCHANGED <<page, offset, prm, ref>>
  <2>1. /\ page' = [page EXCEPT ![a] = page'[a]] /\ offset' = [offset EXCEPT ![a] = offset'[a]]
        /\ prm' = [prm EXCEPT ![a] = prm'[a]]
        /\ ref' = [p \in PoolPages |-> ref[p] + One(prm'[a], p) - One(prm[a], p)]
    BY <1>1, <1>3, SamePin DEF TypeOK
  <2>2. offset[a] \in 0 .. PageSize - 1
    BY <1>1, <1>3, SizeAssumption DEF IsValid
  <2> QED BY <1>1, <1>2, <1>3, <2>1, <2>2 DEF AccessDone, Changes
<1>4. CASE PageFault(a)
  <2> DEFINE q == offset[a] \div PageSize
             r == offset[a] % PageSize
             new == base[a] + (page[a] + q)
  <2>1. q \in Int /\ r \in 0 .. PageSize - 1 /\ offset[a] = q * PageSize + r
    BY <1>1, DivMod, SizeAssumption
  <2>2. /\ page' = [page EXCEPT ![a] = page[a] + q] /\ offset' = [offset EXCEPT ![a] = r]
        /\ prm' = [prm EXCEPT ![a] = new]
        /\ ref' = [p \in PoolPages |-> ref[p] + (IF p = new THEN 1 ELSE 0)
                      - (IF p = base[a] + page[a] /\ prm[a] # Dummy THEN 1 ELSE 0)]
    BY <1>4 DEF PageFault, FaultPage
  <2> HIDE DEF q, r
  <2>3. page'[a] = page[a] + q /\ offset'[a] = r /\ prm'[a] = new
    BY <1>1, <2>2 DEF TypeOK
  <2>4. addr[a] = new * PageSize + r /\ new \in Int
    BY <1>1, <2>1, SizeAssumption
  <2>5. new \in PoolPages
    <3>1. addr[a] \div PageSize = new
      BY <2>1, <2>4, Quotient, SizeAssumption
    <3>2. addr[a] \div PageSize \in 0 .. NumPages - 1
      BY PoolPage, SizeAssumption DEF Pool
    <3> QED BY <3>1, <3>2 DEF PoolPages
  <2>6. PtrAt(base[a], page[a] + q, r, new, addr[a])
    <3>1. new \in PoolPages \cup {Dummy} /\ page[a] + q \in Int /\ r \in Int
      BY <1>1, <2>1, <2>5
    <3>2. addr[a] = (base[a] + (page[a] + q)) * PageSize + r /\ base[a] # -1
      BY <1>1, <2>4, SizeAssumption
    <3> QED BY <1>1, <3>1, <3>2 DEF PtrAt
  <2>7. ASSUME NEW p \in PoolPages
        PROVE  /\ (IF p = base[a] + page[a] /\ prm[a] # Dummy THEN 1 ELSE 0) = One(prm[a], p)
               /\ (IF p = new THEN 1 ELSE 0) = One(new, p)
    <3>1. CASE prm[a] = Dummy
      BY <3>1, DummyApart DEF One
    <3>2. CASE prm[a] # Dummy
      BY <1>1, <3>2 DEF One, PtrAt
    <3> QED BY <3>1, <3>2 DEF One
  <2>8. ref' = [p \in PoolPages |-> ref[p] + One(new, p) - One(prm[a], p)]
    BY <2>2, <2>7
  <2>9. new # Dummy
    BY <2>4, NameAssumption
  <2> HIDE DEF new
  <2> QED BY <1>2, <2>1, <2>2, <2>3, <2>6, <2>8, <2>9 DEF AccessDone, Changes
<1> QED BY <1>3, <1>4 DEF Access

Keeps == SInv' /\ (ForwardOnly /\ ForwardInv => ForwardInv')

\* The constructor.
LEMMA NewKeeps ==
  ASSUME SInv, NEW a \in Aptrs, NEW x \in Pool, New(a, x)
  PROVE  Keeps /\ last' = None
<1> DEFINE b == x \div PageSize
           o == (x % PageSize) + PageSize
<1>1. a \in Objects
  BY DEF Objects
<1>2. /\ Changes(a, b, -1, o, Dummy, x) /\ PtrAt(b, -1, o, Dummy, x)
      /\ o >= PageSize /\ PageSize >= 0
  BY <1>1, ConstructFacts DEF New, NewChanges
<1>3. o \in Int /\ o >= 0
  BY <1>2, SizeAssumption DEF PtrAt
<1> HIDE DEF b, o
<1>4. (TypeOK /\ PtrInv /\ PinsExact)'
  BY <1>1, <1>2, ChangeKeeps
<1>5. XferInv'
  BY <1>2, IdleKeeps DEF New
<1>6. ForwardInv => ForwardInv'
  BY <1>1, <1>2, <1>3, ForwardKeeps
<1> QED BY <1>4, <1>5, <1>6 DEF Keeps, SInv, New

\* Assignment drops the pin of the left side.
LEMMA AssignKeeps ==
  ASSUME SInv, NEW a \in Aptrs, NEW b \in Aptrs, Assign(a, b)
  PROVE  Keeps /\ last' = [to |-> a, from |-> b]
<1>1. a \in Objects /\ b \in Objects /\ base[b] >= 0
  BY DEF Objects, Assign
<1> DEFINE bs == base[b]
           pg == page[b] - 1
           o == offset[b] + PageSize
           ad == addr[b]
<1>2. Changes(a, bs, pg, o, Dummy, ad)
  BY <1>1, UnpinCounts DEF Assign, DoCopy, Changes
<1>3. PtrAt(bs, pg, o, Dummy, ad)
  BY <1>1, CopyFacts
<1>4. ForwardInv => o >= 0 /\ o >= PageSize
  <2>1. offset[b] \in Int
    BY <1>1 DEF SInv, TypeOK
  <2> QED BY <1>1, <2>1, SizeAssumption DEF ForwardInv
<1> HIDE DEF bs, pg, o, ad
<1>5. (TypeOK /\ PtrInv /\ PinsExact)'
  BY <1>1, <1>2, <1>3, ChangeKeeps
<1>6. XferInv'
  BY <1>2, IdleKeeps DEF Assign
<1>7. ForwardInv => ForwardInv'
  BY <1>1, <1>2, <1>4, ForwardKeeps
<1> QED BY <1>5, <1>6, <1>7 DEF Keeps, SInv, Assign

\* A spointer that is reset pins nothing and has no address.
LEMMA ClearFacts ==
  ASSUME SInv, NEW a \in Objects, Clear(a)
  PROVE  /\ Changes(a, -1, 0, 0, Dummy, Null) /\ (TypeOK /\ PtrInv /\ PinsExact)'
         /\ ForwardInv => ForwardInv'
<1>1. Changes(a, -1, 0, 0, Dummy, Null)
  BY UnpinCounts DEF Clear, Changes
<1>2. PtrAt(-1, 0, 0, Dummy, Null)
  BY DEF PtrAt
<1>3. (TypeOK /\ PtrInv /\ PinsExact)'
  BY <1>1, <1>2, ChangeKeeps
<1>4. ForwardInv => ForwardInv'
  BY <1>1, ForwardKeeps
<1> QED BY <1>1, <1>3, <1>4

\* reset and the destructor.
LEMMA ResetKeeps ==
  ASSUME SInv, NEW a \in Aptrs, Reset(a)
  PROVE  Keeps /\ last' = None
<1>1. a \in Objects
  BY DEF Objects
<1>2. /\ Changes(a, -1, 0, 0, Dummy, Null) /\ (TypeOK /\ PtrInv /\ PinsExact)'
      /\ ForwardInv => ForwardInv'
  BY <1>1, ClearFacts DEF Reset
<1>3. XferInv'
  BY <1>2, IdleKeeps DEF Reset
<1> QED BY <1>2, <1>3 DEF Keeps, SInv, Reset

\* A spointer is moved within the pool or to its end.
LEMMA MoveFacts ==
  ASSUME SInv, NEW a \in Objects, base[a] >= 0, NEW d \in Int,
         addr[a] + d \in 0 .. PageSize * NumPages,
         offset' = [offset EXCEPT ![a] = @ + d], addr' = [addr EXCEPT ![a] = @ + d],
         UNCHANGED <<base, page, prm, ref>>
  PROVE  /\ Changes(a, base[a], page[a], offset[a] + d, prm[a], addr[a] + d)
         /\ (TypeOK /\ PtrInv /\ PinsExact)'
         /\ d >= 0 /\ ForwardInv => ForwardInv'
<1>1. /\ PtrAt(base[a], page[a], offset[a], prm[a], addr[a]) /\ TypeOK
      /\ page[a] \in Int /\ offset[a] \in Int /\ base[a] \in Int
      /\ addr[a] = (base[a] + page[a]) * PageSize + offset[a]
  BY PtrOf, SizeAssumption DEF PtrAt, SInv, PoolPages
<1>2. Changes(a, base[a], page[a], offset[a] + d, prm[a], addr[a] + d)
  BY <1>1, SamePin DEF Changes, TypeOK
<1>3. PtrAt(base[a], page[a], offset[a] + d, prm[a], addr[a] + d)
  <2>1. /\ addr[a] + d = (base[a] + page[a]) * PageSize + (offset[a] + d)
        /\ base[a] # -1 /\ offset[a] + d \in Int
    BY <1>1, SizeAssumption
  <2> QED BY <1>1, <2>1 DEF PtrAt
<1>4. (TypeOK /\ PtrInv /\ PinsExact)'
  BY <1>2, <1>3, ChangeKeeps
<1>5. ASSUME d >= 0, ForwardInv PROVE ForwardInv'
  <2>1. offset[a] + d >= 0 /\ (prm[a] = Dummy => offset[a] + d >= PageSize)
    BY <1>1, <1>5, SizeAssumption DEF ForwardInv
  <2> QED BY <1>2, <1>5, <2>1, ForwardKeeps
<1> QED BY <1>2, <1>4, <1>5

\* Arithmetic moves the offset and the address together.
LEMMA MoveKeeps ==
  ASSUME SInv, NEW a \in Aptrs, NEW d \in Moves, Move(a, d)
  PROVE  Keeps /\ last' = None
<1>1. a \in Objects /\ d \in Int /\ (ForwardOnly => d >= 0)
  BY SizeAssumption DEF Objects, ForwardOnly
<1>2. /\ Changes(a, base[a], page[a], offset[a] + d, prm[a], addr[a] + d)
      /\ (TypeOK /\ PtrInv /\ PinsExact)'
      /\ d >= 0 /\ ForwardInv => ForwardInv'
  BY <1>1, MoveFacts DEF Move
<1>3. XferInv'
  BY <1>2, IdleKeeps DEF Move
<1> QED BY <1>1, <1>2, <1>3 DEF Keeps, SInv, Move

\* An access, on the fast path or by a fault.
LEMMA AccessKeeps ==
  ASSUME SInv, NEW a \in Objects, base[a] >= 0, addr[a] \in Pool, NEW n, Access(a, n),
         addr' = addr
  PROVE  (TypeOK /\ PtrInv /\ PinsExact)' /\ (ForwardInv => ForwardInv')
<1>1. /\ Changes(a, base[a], page'[a], offset'[a], prm'[a], addr[a])
      /\ PtrAt(base[a], page'[a], offset'[a], prm'[a], addr[a])
      /\ offset'[a] \in 0 .. PageSize - 1
      /\ prm'[a] = Dummy => prm[a] = Dummy /\ IsValid(offset[a])
  BY AccessFacts DEF AccessDone
<1>2. ForwardInv => offset'[a] >= 0 /\ (prm'[a] = Dummy => offset'[a] >= PageSize)
  <2>1. offset[a] \in Int
    BY DEF SInv, TypeOK
  <2> QED BY <1>1, <2>1, SizeAssumption DEF ForwardInv, IsValid
<1> DEFINE pg == page'[a]
           o == offset'[a]
           pr == prm'[a]
<1>3. /\ Changes(a, base[a], pg, o, pr, addr[a]) /\ PtrAt(base[a], pg, o, pr, addr[a])
      /\ ForwardInv => o >= 0 /\ (pr = Dummy => o >= PageSize)
  BY <1>1, <1>2
<1> HIDE DEF pg, o, pr
<1>4. (TypeOK /\ PtrInv /\ PinsExact)'
  BY <1>3, ChangeKeeps
<1>5. ForwardInv => ForwardInv'
  BY <1>3, ForwardKeeps
<1> QED BY <1>4, <1>5

\* An access of n bytes is where it is due, and in one page if it ends in the one it
\* begins in.
LEMMA AccessRight ==
  ASSUME SInv, ForwardInv, NEW a \in Objects, base[a] >= 0, addr[a] \in Pool,
         NEW n \in Nat \ {0}, Access(a, n), addr' = addr,
         (xfer' # None \/ Aligned(addr[a])) => offset'[a] + n <= PageSize
  PROVE  AccessesRight'
<1>1. /\ PtrAt(base[a], page'[a], offset'[a], prm'[a], addr[a])
      /\ offset'[a] \in 0 .. PageSize - 1
      /\ prm'[a] = Dummy => prm[a] = Dummy /\ IsValid(offset[a])
  BY AccessFacts DEF AccessDone
<1>2. prm'[a] # Dummy
  <2>1. offset[a] \in Int
    BY DEF SInv, TypeOK
  <2> QED BY <1>1, <2>1, SizeAssumption DEF ForwardInv, IsValid
<1> DEFINE q == prm'[a]
           r == offset'[a]
<1>3. addr[a] = q * PageSize + r /\ q \in Int /\ r \in 0 .. PageSize - 1
  BY <1>1, <1>2, SizeAssumption DEF PtrAt, PoolPages
<1>4. last' = [at |-> q * PageSize + r, n |-> n, due |-> addr[a]]
  BY <1>2 DEF Access
<1> HIDE DEF q, r
<1>5. last'.at = last'.due /\ last'.due = addr[a] /\ last'.n = n
  BY <1>3, <1>4
<1>6. ASSUME r + n <= PageSize
      PROVE  InOnePage(addr[a], n)
  <2>1. r + n - 1 \in 0 .. PageSize - 1
    BY <1>3, <1>6, SizeAssumption
  <2>2. addr[a] \div PageSize = q
    BY <1>3, Quotient, SizeAssumption
  <2>3. addr[a] + n - 1 = q * PageSize + (r + n - 1)
    BY <1>3, SizeAssumption
  <2>4. (addr[a] + n - 1) \div PageSize = q
    BY <1>3, <2>1, <2>3, Quotient, SizeAssumption
  <2> QED BY <2>2, <2>4 DEF InOnePage
<1>7. (xfer' # None \/ Aligned(addr[a])) => InOnePage(addr[a], n)
  BY <1>6 DEF r
<1> QED BY <1>5, <1>7 DEF AccessesRight, Aligned, InOnePage

\* A dereference is at the address meant, if the spointer has moved forwards only,
\* and an aligned element does not leave the page.
LEMMA DerefKeeps ==
  ASSUME SInv, NEW a \in Aptrs, Deref(a)
  PROVE  Keeps /\ (ForwardInv => AccessesRight')
<1>1. /\ a \in Objects /\ addr[a] \in Pool /\ Access(a, ElemSize) /\ addr' = addr
      /\ xfer' = None /\ ElemSize \in Nat \ {0}
  BY SizeAssumption DEF Objects, Deref
<1>2. base[a] >= 0
  <2>1. addr[a] # Null
    BY <1>1, NameAssumption, SizeAssumption DEF Pool
  <2>2. base[a] # -1 /\ base[a] \in PoolPages \cup {-1}
    BY <1>1, <2>1 DEF SInv, TypeOK, PtrInv
  <2> QED BY <2>2 DEF PoolPages
<1>3. (TypeOK /\ PtrInv /\ PinsExact)' /\ (ForwardInv => ForwardInv')
  BY <1>1, <1>2, AccessKeeps
<1>4. /\ PtrAt(base[a], page'[a], offset'[a], prm'[a], addr[a])
      /\ offset'[a] \in 0 .. PageSize - 1
  BY <1>1, <1>2, AccessFacts DEF AccessDone
<1>5. ASSUME Aligned(addr[a])
      PROVE  offset'[a] + ElemSize <= PageSize
  <2> DEFINE q == base[a] + page'[a]
             r == offset'[a]
  <2>1. addr[a] = q * PageSize + r /\ q \in Int /\ r \in 0 .. PageSize - 1
    BY <1>2, <1>4, SizeAssumption DEF PtrAt, PoolPages
  <2> HIDE DEF q, r
  <2>2. PageSize % ElemSize = 0 /\ (q * PageSize + r) % ElemSize = 0
    BY <1>5, <2>1 DEF Aligned
  <2>3. r + ElemSize <= PageSize
    BY <1>1, <2>1, <2>2, AlignedEnds, SizeAssumption
  <2> QED BY <2>3 DEF r
<1>6. ForwardInv => AccessesRight'
  BY <1>1, <1>2, <1>5, AccessRight
<1>7. XferInv'
  BY DEF SInv, XferInv, Deref, Access
<1> QED BY <1>3, <1>6, <1>7 DEF Keeps, SInv

\* While a memory function runs, its spointer is not null.
LEMMA Running ==
  ASSUME SInv, xfer # None
  PROVE  /\ xfer.fn \in {"chunks", "bytes"} /\ xfer.aptr \in Objects
         /\ xfer.ctr \in Nat /\ xfer.n \in Nat /\ xfer.n <= xfer.ctr
         /\ xfer = [fn |-> xfer.fn, aptr |-> xfer.aptr, ctr |-> xfer.ctr, n |-> xfer.n]
         /\ base[xfer.aptr] >= 0 /\ addr[xfer.aptr] \in 0 .. PageSize * NumPages
         /\ addr[xfer.aptr] + xfer.ctr <= PageSize * NumPages
         /\ xfer.fn = "bytes" => xfer.aptr = Tmp
         /\ xfer.aptr # Tmp => base[Tmp] = -1
<1>1. /\ xfer \in Xfers /\ base[xfer.aptr] >= 0
      /\ addr[xfer.aptr] + xfer.ctr <= PageSize * NumPages
      /\ xfer.n <= xfer.ctr /\ (xfer.fn = "bytes" => xfer.aptr = Tmp)
      /\ xfer.aptr # Tmp => base[Tmp] = -1
  BY DEF SInv, XferInv
<1>2. /\ xfer.fn \in {"chunks", "bytes"} /\ xfer.aptr \in Objects
      /\ xfer.ctr \in Nat /\ xfer.n \in Nat
      /\ xfer = [fn |-> xfer.fn, aptr |-> xfer.aptr, ctr |-> xfer.ctr, n |-> xfer.n]
  BY <1>1 DEF Xfers
<1>3. addr[xfer.aptr] \in 0 .. PageSize * NumPages
  BY <1>1, <1>2 DEF SInv, PtrInv
<1> QED BY <1>1, <1>2, <1>3

\* What a memory function leaves as it goes on.
LEMMA XferKeeps ==
  ASSUME NEW f \in {"chunks", "bytes"}, NEW a \in Objects, NEW c \in Nat, NEW m \in Nat,
         xfer' = [fn |-> f, aptr |-> a, ctr |-> c, n |-> m],
         base'[a] >= 0, addr'[a] + c <= PageSize * NumPages, m <= c,
         f = "bytes" => a = Tmp, a # Tmp => base'[Tmp] = -1
  PROVE  XferInv'
<1>1. xfer' \in Xfers /\ xfer' # None
  BY NoneAssumption DEF Xfers
<1>2. xfer'.fn = f /\ xfer'.aptr = a /\ xfer'.ctr = c /\ xfer'.n = m
  OBVIOUS
<1> QED BY <1>1, <1>2 DEF XferInv

\* A piece of a memory function is at the address meant and inside its page.
LEMMA CopyKeeps ==
  ASSUME SInv, Copy
  PROVE  Keeps /\ (ForwardInv => AccessesRight')
<1> DEFINE a == xfer.aptr
           f == xfer.fn
           c == xfer.ctr
           o == offset'[xfer.aptr]
           n == Piece(offset'[xfer.aptr])
<1>1. /\ xfer # None /\ c > 0 /\ Access(a, n) /\ addr' = addr /\ base' = base
      /\ xfer' = [xfer EXCEPT !.n = last'.n] /\ last'.n = n
  BY DEF Copy, Access
<1>2. /\ f \in {"chunks", "bytes"} /\ a \in Objects /\ c \in Nat
      /\ xfer = [fn |-> f, aptr |-> a, ctr |-> c, n |-> xfer.n]
      /\ base[a] >= 0 /\ addr[a] \in 0 .. PageSize * NumPages
      /\ addr[a] + c <= PageSize * NumPages
      /\ f = "bytes" => a = Tmp
      /\ a # Tmp => base[Tmp] = -1
  BY <1>1, Running
<1>3. addr[a] \in Pool
  BY <1>1, <1>2, SizeAssumption DEF Pool
<1>4. o \in 0 .. PageSize - 1
  <2> HIDE DEF a, n
  <2>1. AccessDone(a)
    BY <1>1, <1>2, <1>3, AccessFacts
  <2> QED BY <2>1 DEF AccessDone, a
<1>5. n \in Nat \ {0} /\ n <= c /\ o + n <= PageSize
  <2>1. n = IF f = "bytes" THEN 1 ELSE IF c > PageSize - o THEN PageSize - o ELSE c
    BY DEF Piece
  <2> HIDE DEF n, o, c, f
  <2> QED BY <1>1, <1>2, <1>4, <2>1, SizeAssumption
<1>6. xfer' = [fn |-> f, aptr |-> a, ctr |-> c, n |-> n]
  <2> HIDE DEF n, c, f, a
  <2> QED BY <1>1, <1>2
<1>7. o = offset'[a]
  OBVIOUS
<1> HIDE DEF n, o, c, f, a
<1>8. XferInv'
  BY <1>1, <1>2, <1>5, <1>6, XferKeeps
<1>9. (TypeOK /\ PtrInv /\ PinsExact)' /\ (ForwardInv => ForwardInv')
  BY <1>1, <1>2, <1>3, AccessKeeps
<1>10. ForwardInv => AccessesRight'
  BY <1>1, <1>2, <1>3, <1>5, <1>7, AccessRight
<1> QED BY <1>8, <1>9, <1>10 DEF Keeps, SInv

\* The spointer of a memory function moves to the next piece.
LEMMA AdvanceKeeps ==
  ASSUME SInv, Advance
  PROVE  Keeps /\ last' = None
<1> DEFINE a == xfer.aptr
           f == xfer.fn
           c == xfer.ctr
           m == xfer.n
           d == IF f = "bytes" \/ c > m THEN m ELSE 0
<1>1. /\ xfer # None /\ m > 0
      /\ offset' = [offset EXCEPT ![a] = @ + d] /\ addr' = [addr EXCEPT ![a] = @ + d]
      /\ xfer' = [xfer EXCEPT !.ctr = @ - m, !.n = 0]
      /\ UNCHANGED <<base, page, prm, ref>>
  BY DEF Advance
<1>2. /\ f \in {"chunks", "bytes"} /\ a \in Objects /\ c \in Nat /\ m \in Nat /\ m <= c
      /\ xfer = [fn |-> f, aptr |-> a, ctr |-> c, n |-> m]
      /\ base[a] >= 0 /\ addr[a] \in 0 .. PageSize * NumPages
      /\ addr[a] + c <= PageSize * NumPages
      /\ f = "bytes" => a = Tmp
      /\ a # Tmp => base[Tmp] = -1
  BY <1>1, Running
<1> HIDE DEF c, f, a, m
<1>3. /\ d \in Nat /\ addr[a] + d \in 0 .. PageSize * NumPages
      /\ addr[a] + d + (c - m) <= PageSize * NumPages
  BY <1>2, SizeAssumption
<1>4. xfer' = [fn |-> f, aptr |-> a, ctr |-> c - m, n |-> 0]
  BY <1>1, <1>2
<1>5. addr'[a] = addr[a] + d
  BY <1>1, <1>2 DEF SInv, TypeOK
<1> HIDE DEF d
<1>6. (TypeOK /\ PtrInv /\ PinsExact)' /\ (ForwardInv => ForwardInv')
  <2>1. d \in Int /\ d >= 0 /\ addr[a] + d \in 0 .. PageSize * NumPages
    BY <1>3
  <2>2. /\ (TypeOK /\ PtrInv /\ PinsExact)'
        /\ d >= 0 /\ ForwardInv => ForwardInv'
    BY <1>1, <1>2, <2>1, MoveFacts
  <2> QED BY <2>1, <2>2
<1>7. XferInv'
  <2>1. c - m \in Nat /\ 0 <= c - m
    BY <1>2
  <2>2. base'[a] >= 0 /\ (a # Tmp => base'[Tmp] = -1)
    BY <1>1, <1>2
  <2>3. addr'[a] + (c - m) <= PageSize * NumPages
    BY <1>3, <1>5
  <2> QED BY <1>2, <1>4, <2>1, <2>2, <2>3, XferKeeps
<1> QED BY <1>6, <1>7 DEF Keeps, SInv, Advance

\* The end of a memory function drops the pin of its local spointer.
LEMMA EndKeeps ==
  ASSUME SInv, End
  PROVE  Keeps /\ last' = None
<1>1. xfer # None /\ xfer' = None /\ last' = None
  BY DEF End
<1>2. CASE xfer.aptr = Tmp
  <2>1. Tmp \in Objects /\ Clear(Tmp)
    BY <1>2 DEF Objects, End
  <2>2. /\ Changes(Tmp, -1, 0, 0, Dummy, Null) /\ (TypeOK /\ PtrInv /\ PinsExact)'
        /\ ForwardInv => ForwardInv'
    BY <2>1, ClearFacts
  <2>3. base'[Tmp] = -1
    BY <2>1, <2>2 DEF Changes, SInv, TypeOK
  <2>4. XferInv'
    BY <1>1, <2>3 DEF XferInv
  <2> QED BY <1>1, <2>2, <2>4 DEF Keeps, SInv
<1>3. CASE xfer.aptr # Tmp
  <2>1. UNCHANGED <<base, page, offset, prm, ref, addr>>
    BY <1>3 DEF End, ptrVars
  <2>2. base[Tmp] = -1
    BY <1>1, <1>3, Running
  <2>3. XferInv'
    BY <1>1, <2>1, <2>2 DEF XferInv
  <2>4. (TypeOK /\ PtrInv /\ PinsExact)' /\ (ForwardInv => ForwardInv')
    BY <2>1 DEF SInv, TypeOK, PtrInv, PinsExact, ForwardInv
  <2> QED BY <1>1, <2>3, <2>4 DEF Keeps, SInv
<1> QED BY <1>2, <1>3

\* The start of memmove_reg_aptr, which moves the caller's spointer.
LEMMA MemmoveRegAptrKeeps ==
  ASSUME SInv, NEW a \in Aptrs, NEW n \in Lengths, MemmoveRegAptr(a, n)
  PROVE  Keeps /\ last' = None
<1>1. /\ a \in Objects /\ a # Tmp /\ n \in Nat /\ base[Tmp] = -1
      /\ base[a] >= 0 /\ addr[a] + n <= PageSize * NumPages
      /\ xfer' = [fn |-> "chunks", aptr |-> a, ctr |-> n, n |-> 0]
      /\ UNCHANGED <<base, page, offset, prm, ref, addr>>
  BY NameAssumption, SizeAssumption
     DEF Objects, MemmoveRegAptr, Begin, InPool, ptrVars, SInv, XferInv
<1>2. XferInv'
  BY <1>1, XferKeeps
<1>3. (TypeOK /\ PtrInv /\ PinsExact)' /\ (ForwardInv => ForwardInv')
  BY <1>1 DEF SInv, TypeOK, PtrInv, PinsExact, ForwardInv
<1> QED BY <1>2, <1>3 DEF Keeps, SInv, MemmoveRegAptr

\* The start of memmove_aptr_reg, on a copy.
LEMMA MemmoveAptrRegKeeps ==
  ASSUME SInv, NEW a \in Aptrs, NEW n \in Lengths, MemmoveAptrReg(a, n)
  PROVE  Keeps /\ last' = None
<1>1. /\ a \in Objects /\ Tmp \in Objects /\ a # Tmp /\ n \in Nat /\ base[Tmp] = -1
      /\ base[a] >= 0 /\ addr[a] + n <= PageSize * NumPages
      /\ xfer' = [fn |-> "chunks", aptr |-> Tmp, ctr |-> n, n |-> 0]
      /\ DoCopy(Tmp, a) /\ ref' = ref
  BY NameAssumption, SizeAssumption
     DEF Objects, MemmoveAptrReg, Begin, InPool, ptrVars, SInv, XferInv
<1> DEFINE bs == base[a]
           pg == page[a] - 1
           o == offset[a] + PageSize
           ad == addr[a]
<1>2. prm[Tmp] = Dummy
  BY <1>1 DEF SInv, PtrInv
<1>3. Changes(Tmp, bs, pg, o, Dummy, ad)
  BY <1>1, <1>2, SamePin DEF DoCopy, Changes
<1>4. PtrAt(bs, pg, o, Dummy, ad)
  BY <1>1, CopyFacts
<1>5. ForwardInv => o >= 0 /\ o >= PageSize
  <2>1. offset[a] \in Int
    BY <1>1 DEF SInv, TypeOK
  <2> QED BY <1>1, <2>1, SizeAssumption DEF ForwardInv
<1>6. base'[Tmp] = bs /\ addr'[Tmp] = ad /\ bs >= 0 /\ ad + n <= PageSize * NumPages
  BY <1>1, <1>3 DEF Changes, SInv, TypeOK
<1> HIDE DEF bs, pg, o, ad
<1>7. (TypeOK /\ PtrInv /\ PinsExact)'
  BY <1>1, <1>3, <1>4, ChangeKeeps
<1>8. ForwardInv => ForwardInv'
  BY <1>1, <1>3, <1>5, ForwardKeeps
<1>9. XferInv'
  BY <1>1, <1>6, XferKeeps
<1> QED BY <1>7, <1>8, <1>9 DEF Keeps, SInv, MemmoveAptrReg

\* The start of a loop over bytes, on a spointer of its own.
LEMMA ByteLoopKeeps ==
  ASSUME SInv, NEW x \in Pool, NEW n \in Lengths, ByteLoop(x, n)
  PROVE  Keeps /\ last' = None
<1>1. /\ Tmp \in Objects /\ n \in Nat /\ base[Tmp] = -1 /\ x + n <= PageSize * NumPages
      /\ xfer' = [fn |-> "bytes", aptr |-> Tmp, ctr |-> n, n |-> 0]
      /\ Construct(Tmp, x) /\ ref' = ref
  BY SizeAssumption DEF Objects, ByteLoop, Begin, InPool, SInv, XferInv
<1> DEFINE b == x \div PageSize
           o == (x % PageSize) + PageSize
<1>2. /\ Changes(Tmp, b, -1, o, Dummy, x) /\ PtrAt(b, -1, o, Dummy, x)
      /\ o >= PageSize /\ PageSize >= 0
  BY <1>1, ConstructFacts DEF NewChanges
<1>3. o \in Int /\ o >= 0
  BY <1>2, SizeAssumption DEF PtrAt
<1>4. b >= 0
  <2>1. x \in 0 .. PageSize * NumPages - 1
    BY DEF Pool
  <2> QED BY <2>1, PoolPage, SizeAssumption
<1> HIDE DEF b, o
<1>5. base'[Tmp] = b /\ addr'[Tmp] = x
  BY <1>1, <1>2 DEF Changes, SInv, TypeOK
<1>6. (TypeOK /\ PtrInv /\ PinsExact)'
  BY <1>1, <1>2, ChangeKeeps
<1>7. XferInv'
  BY <1>1, <1>4, <1>5, XferKeeps
<1>8. ForwardInv => ForwardInv'
  BY <1>1, <1>2, <1>3, ForwardKeeps
<1> QED BY <1>6, <1>7, <1>8 DEF Keeps, SInv, ByteLoop

-----------------------------------------------------------------------------
\* Initially there are no spointers.
LEMMA InitHolds == Init => SInv /\ ForwardInv /\ AccessesRight
<1> SUFFICES ASSUME Init PROVE SInv /\ ForwardInv /\ AccessesRight
  OBVIOUS
<1>1. TypeOK
  BY SizeAssumption DEF Init, TypeOK, PoolPages
<1>2. PtrInv /\ ForwardInv
  BY DEF Init, PtrInv, ForwardInv
<1>3. XferInv
  BY DEF Init, XferInv, Objects
<1>4. PinsExact
  <2>1. ASSUME NEW p \in PoolPages
        PROVE  ref[p] = 0 /\ {a \in Objects : prm[a] = p} = {}
    BY NameAssumption, SizeAssumption DEF Init, PoolPages
  <2> QED BY <2>1, FS_EmptySet DEF PinsExact
<1>5. AccessesRight
  BY DEF Init, AccessesRight
<1> QED BY <1>1, <1>2, <1>3, <1>4, <1>5 DEF SInv

\* Every step keeps the invariant.
LEMMA StepKeeps ==
  ASSUME SInv, [Next]_vars
  PROVE  Keeps /\ (ForwardInv /\ AccessesRight => AccessesRight')
<1> DEFINE Goal == Keeps /\ (ForwardInv /\ AccessesRight => AccessesRight')
<1> SUFFICES Goal
  OBVIOUS
<1>1. ASSUME Keeps, last' = None PROVE Goal
  BY <1>1 DEF AccessesRight
<1>2. ASSUME NEW a \in Aptrs, NEW b \in Aptrs, Assign(a, b) PROVE Goal
  <2>1. Keeps /\ last' = [to |-> a, from |-> b]
    BY <1>2, AssignKeeps
  <2>2. "at" \notin DOMAIN last'
    BY <2>1
  <2>3. AccessesRight'
    BY <2>2 DEF AccessesRight
  <2> QED BY <2>1, <2>3
<1>3. ASSUME NEW a \in Aptrs, Deref(a) PROVE Goal
  BY <1>3, DerefKeeps
<1>4. CASE Copy
  BY <1>4, CopyKeeps
<1>5. CASE UNCHANGED vars
  <2>1. UNCHANGED <<base, page, offset, prm, ref, addr, xfer, last>>
    BY <1>5 DEF vars, ptrVars
  <2>2. SInv' /\ (ForwardInv => ForwardInv') /\ (AccessesRight => AccessesRight')
    BY <2>1 DEF SInv, TypeOK, PtrInv, XferInv, PinsExact, ForwardInv, AccessesRight
  <2> QED BY <2>2 DEF Keeps
<1>6. CASE \E a \in Aptrs, x \in Pool : New(a, x)
  BY <1>1, <1>6, NewKeeps
<1>7. CASE \E a \in Aptrs, d \in Moves : Move(a, d)
  BY <1>1, <1>7, MoveKeeps
<1>8. CASE \E a \in Aptrs : Reset(a)
  BY <1>1, <1>8, ResetKeeps
<1>9. CASE \E a \in Aptrs, n \in Lengths : MemmoveRegAptr(a, n)
  BY <1>1, <1>9, MemmoveRegAptrKeeps
<1>10. CASE \E a \in Aptrs, n \in Lengths : MemmoveAptrReg(a, n)
  BY <1>1, <1>10, MemmoveAptrRegKeeps
<1>11. CASE \E x \in Pool, n \in Lengths : ByteLoop(x, n)
  BY <1>1, <1>11, ByteLoopKeeps
<1>12. CASE Advance
  BY <1>1, <1>12, AdvanceKeeps
<1>13. CASE End
  BY <1>1, <1>13, EndKeeps
<1> HIDE DEF Goal
<1>14. CASE Next
  <2>1. \/ \E a \in Aptrs, x \in Pool : New(a, x)
        \/ \E a \in Aptrs, b \in Aptrs : Assign(a, b)
        \/ \E a \in Aptrs, d \in Moves : Move(a, d)
        \/ \E a \in Aptrs : Reset(a)
        \/ \E a \in Aptrs : Deref(a)
        \/ \E a \in Aptrs, n \in Lengths : MemmoveRegAptr(a, n)
        \/ \E a \in Aptrs, n \in Lengths : MemmoveAptrReg(a, n)
        \/ \E x \in Pool, n \in Lengths : ByteLoop(x, n)
        \/ Copy \/ Advance \/ End
    BY <1>14, Zenon DEF Next
  <2> QED
    BY <2>1, <1>2, <1>3, <1>4, <1>6, <1>7, <1>8, <1>9, <1>10, <1>11, <1>12, <1>13
<1> QED BY <1>5, <1>14

\* The invariant holds always.
LEMMA Inductive == Spec => []SInv
<1>1. Init => SInv
  BY InitHolds
<1>2. SInv /\ [Next]_vars => SInv'
  BY StepKeeps DEF Keeps
<1> QED BY <1>1, <1>2, PTL DEF Spec

\* However spointers are moved, in both directions, each component of a spointer
\* keeps its type, the frame it leads to is one of the pool, and its address stays
\* in the pool or at its end.
THEOREM SpointersTyped == Spec => []TypeOK
<1>1. SInv => TypeOK
  BY DEF SInv
<1> QED BY <1>1, Inductive, PTL

\* However spointers are constructed, moved, copied, dereferenced, reset and
\* destroyed, the reference count of each page is the number of spointers linked
\* to it: none is pinned for ever, none is released under a spointer.
THEOREM PinsCounted == Spec => []PinsExact
<1>1. SInv => PinsExact
  BY DEF SInv
<1> QED BY <1>1, Inductive, PTL

\* While spointers only move forward, every access and every piece of a memory
\* function is at the address that an ordinary pointer would have, and does not
\* leave its page, for every page size and pool.  The assumption is needed:
\* a spointer moved back before its first dereference takes the fast path unlinked
\* (DummyNotValid fails).
THEOREM AccessesGoRight ==
  ASSUME ForwardOnly
  PROVE  Spec => []AccessesRight
<1>1. Init => SInv /\ ForwardInv /\ AccessesRight
  BY InitHolds
<1>2. SInv /\ ForwardInv /\ AccessesRight /\ [Next]_vars
        => (SInv /\ ForwardInv /\ AccessesRight)'
  BY StepKeeps DEF Keeps
<1> QED BY <1>1, <1>2, PTL DEF Spec

===============================================================================
