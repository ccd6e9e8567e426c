-------------------------------- MODULE Mem5 --------------------------------
(***************************************************************************)
(* memsys5, the buddy allocator of the untrusted pool.  The pool is an     *)
(* array of NBlock atoms; a block is 2^k atoms, named by its first one.    *)
(* aCtrl, a byte per atom, is split into its two fields: free is           *)
(* CTRL_FREE and logsize CTRL_LOGSIZE.  They and the links next and prev   *)
(* mean something only at the first atom of a block, and no other entry    *)
(* may be relied on: next and prev live in the pool itself, so those of a  *)
(* chunk that is not on a free list belong to the caller (Garbage).        *)
(*                                                                         *)
(* mem_lock covers a whole call: its holder runs the loop that splits or   *)
(* coalesces one iteration per step, and only memsys5Size, which takes no  *)
(* lock, runs beside it.  held is a history variable: what the callers     *)
(* have been given and not freed.                                          *)
(***************************************************************************)
EXTENDS Integers, FiniteSets, FiniteSetsExt

CONSTANTS
  Threads,
  NBlock,     \* mem5.nBlock
  SzAtom,     \* mem5.szAtom
  LogMax,     \* LOGMAX, 30 in the code
  MaxRequest, \* 0x40000000
  Requests,   \* the values of nByte that callers use
  MaxOut,     \* bound on the atoms outstanding at one time
  Stale,      \* what aCtrl's memory may hold before memsys5Init
  NoThread, Null, Garbage

\* memsys5Init asserts that nothing as large as its largest block remains.
ASSUME PoolAssumption    == /\ NBlock \in Nat \ {0} /\ LogMax \in Nat
                            /\ NBlock < 2^(LogMax + 1)
ASSUME RequestAssumption == /\ SzAtom \in Nat \ {0} /\ Requests \subseteq Nat
                            /\ MaxRequest \in Nat /\ MaxRequest <= SzAtom * 2^LogMax
ASSUME OtherAssumption   == /\ NoThread \notin Threads /\ Stale \subseteq BOOLEAN
                            /\ MaxOut \in Nat /\ Null \notin 0 .. NBlock - 1
                            /\ Garbage \notin -1 .. NBlock - 1

VARIABLES
  free, logsize,    \* the two fields of mem5.aCtrl[]
  next, prev,       \* MEM5LINK(i)->next and prev
  aiFreelist,
  mem_lock,
  pc,
  blk, bin,         \* i or iBlock, and iBin or iLogsize, of the loops
  ask,              \* nByte
  prior,            \* memsys5Realloc's pPrior, or Null
  result,           \* what the last call that ended asked for and returned
  held

ctrlVars   == <<free, logsize>>
listVars   == <<next, prev, aiFreelist>>
threadVars == <<pc, blk, bin, ask, prior>>
vars == <<ctrlVars, listVars, mem_lock, threadVars, result, held>>

Atoms == 0 .. NBlock - 1
Logs  == 0 .. LogMax

-----------------------------------------------------------------------------
\* iLogsize: nByte bytes rounded up to szAtom times a power of two.
BugRoundup(nByte) ==
  CHOOSE l \in Logs : SzAtom * 2^l > nByte \div 2 /\ \A k \in 0 .. l - 1 : SzAtom * 2^k <= nByte \div 2
Roundup(nByte) ==
  CHOOSE l \in Logs : SzAtom * 2^l >= nByte /\ \A k \in 0 .. l - 1 : SzAtom * 2^k < nByte

\* memsys5Size, in atoms; unlocked.
Size(i) == 2^logsize[i]

\* memsys5Unlink applied to the lists; the links of i are then nobody's.
BugUnlink(i, l) ==
  /\ aiFreelist' = [aiFreelist EXCEPT ![l] = IF prev[i] < 0 THEN next[i] ELSE @]
  /\ next' = [j \in Atoms |-> IF j = i THEN Garbage ELSE IF j = prev[i] THEN next[i] ELSE next[j]]
  /\ prev' = [prev EXCEPT ![i] = Garbage]
Unlink(i, l) ==
  /\ aiFreelist' = [aiFreelist EXCEPT ![l] = IF prev[i] < 0 THEN next[i] ELSE @]
  /\ next' = [j \in Atoms |-> IF j = i THEN Garbage ELSE IF j = prev[i] THEN next[i] ELSE next[j]]
  /\ prev' = [j \in Atoms |-> IF j = i THEN Garbage ELSE IF j = next[i] THEN prev[i] ELSE prev[j]]

\* memsys5Link: i becomes the head of list l.
Link(i, l) ==
  /\ aiFreelist' = [aiFreelist EXCEPT ![l] = i]
  /\ next' = [next EXCEPT ![i] = aiFreelist[l]]
  /\ prev' = [j \in Atoms |-> IF j = i THEN -1 ELSE IF j = aiFreelist[l] THEN i ELSE prev[j]]

SetCtrl(i, f, l) ==
  /\ free'    = [free EXCEPT ![i] = f]
  /\ logsize' = [logsize EXCEPT ![i] = l]

-----------------------------------------------------------------------------
\* memsys5Init carves the pool into one block for each bit of nBlock, the
\* largest first.
Bit(l)    == (NBlock \div 2^l) % 2 = 1
Offset(l) == (NBlock \div 2^(l + 1)) * 2^(l + 1)
Carved    == {l \in Logs : Bit(l)}

Init ==
  /\ \E f \in Stale :
       free = [i \in Atoms |-> f \/ \E l \in Carved : i = Offset(l)]
  /\ logsize = [i \in Atoms |-> IF \E l \in Carved : i = Offset(l)
                                THEN CHOOSE l \in Carved : i = Offset(l) ELSE 0]
  /\ next = [i \in Atoms |-> IF \E l \in Carved : i = Offset(l) THEN -1 ELSE Garbage]
  /\ prev = [i \in Atoms |-> IF \E l \in Carved : i = Offset(l) THEN -1 ELSE Garbage]
  /\ aiFreelist = [l \in Logs |-> IF Bit(l) THEN Offset(l) ELSE -1]
  /\ mem_lock = NoThread
  /\ pc     = [t \in Threads |-> "idle"]
  /\ blk    = [t \in Threads |-> 0]
  /\ bin    = [t \in Threads |-> 0]
  /\ ask    = [t \in Threads |-> 0]
  /\ prior  = [t \in Threads |-> Null]
  /\ result = [asked |-> 0, block |-> Null]
  /\ held   = << >>

\* The atoms that callers hold.
Outstanding == MapThenSumSet(LAMBDA i : 2^held[i], DOMAIN held)

\* The locals of a call that has ended.
Forget(t) ==
  /\ blk' = [blk EXCEPT ![t] = 0]
  /\ bin' = [bin EXCEPT ![t] = 0]
  /\ ask' = [ask EXCEPT ![t] = 0]

Answer(nByte, p) == result' = [asked |-> nByte, block |-> p]

(***************************************************************************)
(* memsys5Malloc: find the smallest bin with a chunk, unlink it and split  *)
(* it down to size.                                                        *)
(***************************************************************************)
Bins(l) == {b \in l .. LogMax : aiFreelist[b] >= 0}

MallocUnsafe(t, nByte) ==
  /\ mem_lock = NoThread
  /\ \/ /\ nByte > MaxRequest \/ Bins(Roundup(nByte)) = {}
        /\ Answer(nByte, Null)
        /\ pc'    = [pc EXCEPT ![t] = "idle"]
        /\ prior' = [prior EXCEPT ![t] = Null]
        /\ Forget(t)
        /\ UNCHANGED <<listVars, mem_lock>>
     \/ /\ nByte <= MaxRequest
        /\ \E b \in Bins(Roundup(nByte)) :
             /\ \A c \in Bins(Roundup(nByte)) : b <= c
             /\ Unlink(aiFreelist[b], b)
             /\ blk' = [blk EXCEPT ![t] = aiFreelist[b]]
             /\ bin' = [bin EXCEPT ![t] = b]
        /\ ask' = [ask EXCEPT ![t] = nByte]
        /\ pc'  = [pc EXCEPT ![t] = "split"]
        /\ mem_lock' = t
        /\ UNCHANGED <<result, prior>>
  /\ UNCHANGED <<ctrlVars, held>>

\* Callers keep to MaxOut atoms between them.
Affordable(nByte) ==
  Outstanding + (IF nByte > MaxRequest THEN 0 ELSE 2^Roundup(nByte)) <= MaxOut

Malloc(t, nByte) ==
  /\ pc[t] = "idle"
  /\ Affordable(nByte)
  /\ \/ /\ nByte = 0
        /\ Answer(0, Null)
        /\ UNCHANGED <<ctrlVars, listVars, mem_lock, threadVars, held>>
     \/ nByte > 0 /\ MallocUnsafe(t, nByte)

\* newSize, half of the chunk of bin l.
BugHalf(l) == 2^l
Half(l) == 2^(l - 1)

Split(t) ==
  LET i == blk[t]  b == bin[t] IN
  /\ pc[t] = "split"
  /\ b > Roundup(ask[t])
  /\ SetCtrl(i + Half(b), TRUE, b - 1)
  /\ Link(i + Half(b), b - 1)
  /\ bin' = [bin EXCEPT ![t] = b - 1]
  /\ UNCHANGED <<mem_lock, pc, blk, ask, prior, result, held>>

\* The block is the caller's; memsys5Realloc goes on to free the prior one.
MallocDone(t) ==
  LET i == blk[t]  l == Roundup(ask[t]) IN
  /\ pc[t] = "split"
  /\ bin[t] = l
  /\ SetCtrl(i, FALSE, l)
  /\ held' = [j \in DOMAIN held \cup {i} |-> IF j = i THEN l ELSE held[j]]
  /\ pc'   = [pc EXCEPT ![t] = IF prior[t] = Null THEN "idle" ELSE "refree"]
  /\ Answer(ask[t], i)
  /\ mem_lock' = NoThread
  /\ Forget(t)
  /\ UNCHANGED <<listVars, prior>>

(***************************************************************************)
(* memsys5Free: mark the block free, coalesce it with its buddy as long as *)
(* that is free and of the same size, and link what has come of it.        *)
(***************************************************************************)
FreeUnsafe(t, p) ==
  LET last == p + Size(p) - 1 IN
  /\ mem_lock = NoThread
  /\ mem_lock' = t
  /\ free' = [free EXCEPT ![p] = TRUE, ![last] = TRUE]
  /\ blk'  = [blk EXCEPT ![t] = p]
  /\ bin'  = [bin EXCEPT ![t] = logsize[p]]
  /\ pc'   = [pc EXCEPT ![t] = "merge"]
  /\ held' = [j \in DOMAIN held \ {p} |-> held[j]]
  /\ prior' = [prior EXCEPT ![t] = Null]
  /\ UNCHANGED <<logsize, listVars, ask, result>>

\* Whoever holds a block frees it; a block under reallocation is in use.
Free(t, p) ==
  /\ pc[t] = "idle"
  /\ p \notin {prior[u] : u \in Threads}
  /\ FreeUnsafe(t, p)

BugBuddy(i, l) == i + 2^l
Buddy(i, l) == IF (i \div 2^l) % 2 = 1 THEN i - 2^l ELSE i + 2^l

BugMerges(i, l) ==
  LET j == Buddy(i, l) IN l < LogMax /\ j < NBlock /\ free[j]
Merges(i, l) ==
  LET j == Buddy(i, l) IN l < LogMax /\ j < NBlock /\ free[j] /\ logsize[j] = l

Merge(t) ==
  LET i  == blk[t]
      l  == bin[t]
      j  == Buddy(i, l)
      lo == Min({i, j})
      hi == Max({i, j}) IN
  /\ pc[t] = "merge"
  /\ Merges(i, l)
  /\ Unlink(j, l)
  /\ free'    = [free EXCEPT ![lo] = TRUE, ![hi] = FALSE]
  /\ logsize' = [logsize EXCEPT ![lo] = l + 1, ![hi] = 0]
  /\ blk' = [blk EXCEPT ![t] = lo]
  /\ bin' = [bin EXCEPT ![t] = l + 1]
  /\ UNCHANGED <<mem_lock, pc, ask, prior, result, held>>

FreeDone(t) ==
  /\ pc[t] = "merge"
  /\ ~Merges(blk[t], bin[t])
  /\ Link(blk[t], bin[t])
  /\ pc' = [pc EXCEPT ![t] = "idle"]
  /\ mem_lock' = NoThread
  /\ Forget(t)
  /\ UNCHANGED <<ctrlVars, prior, result, held>>

(***************************************************************************)
(* memsys5Realloc: keep the block if it is large enough, else allocate,    *)
(* copy and free, each of the two under a lock of its own.  nByte is a     *)
(* power of two, or 0 for an oversize request.                             *)
(***************************************************************************)
Realloc(t, p, nByte) ==
  /\ pc[t] = "idle"
  /\ p \notin {prior[u] : u \in Threads}
  /\ \/ /\ nByte = 0
        /\ Answer(0, Null)
        /\ UNCHANGED <<pc, ask, prior>>
     \/ /\ nByte > 0 /\ nByte <= SzAtom * Size(p)
        /\ Answer(nByte, p)
        /\ UNCHANGED <<pc, ask, prior>>
     \/ /\ nByte > SzAtom * Size(p) /\ Affordable(nByte)
        /\ pc'    = [pc EXCEPT ![t] = "remalloc"]
        /\ ask'   = [ask EXCEPT ![t] = nByte]
        /\ prior' = [prior EXCEPT ![t] = p]
        /\ UNCHANGED result
  /\ UNCHANGED <<ctrlVars, listVars, mem_lock, blk, bin, held>>

ReallocMalloc(t) ==
  /\ pc[t] = "remalloc"
  /\ MallocUnsafe(t, ask[t])

ReallocFree(t) ==
  /\ pc[t] = "refree"
  /\ FreeUnsafe(t, prior[t])

-----------------------------------------------------------------------------
\* What memsys5Roundup returns.
Rounded == {0} \cup {n \in {SzAtom * 2^l : l \in Logs} : n <= MaxRequest}

Next == \E t \in Threads :
  \/ \E nByte \in Requests : Malloc(t, nByte)
  \/ Split(t) \/ MallocDone(t) \/ Merge(t) \/ FreeDone(t)
  \/ \E p \in DOMAIN held : Free(t, p) \/ \E nByte \in Rounded : Realloc(t, p, nByte)
  \/ ReallocMalloc(t) \/ ReallocFree(t)

Spec == Init /\ [][Next]_vars

-----------------------------------------------------------------------------
\* Type invariant.
TypeOK ==
  /\ free \in [Atoms -> BOOLEAN] /\ logsize \in [Atoms -> Logs]
  /\ next \in [Atoms -> Atoms \cup {-1, Garbage}]
  /\ prev \in [Atoms -> Atoms \cup {-1, Garbage}]
  /\ aiFreelist \in [Logs -> Atoms \cup {-1}]
  /\ mem_lock \in Threads \cup {NoThread}
  /\ pc \in [Threads -> {"idle", "split", "merge", "remalloc", "refree"}]
  /\ blk \in [Threads -> Atoms] /\ bin \in [Threads -> Logs] /\ ask \in [Threads -> Nat]
  /\ prior \in [Threads -> Atoms \cup {Null}] 
  /\ result \in [asked : Nat, block : Atoms \cup {Null}]
  /\ DOMAIN held \subseteq Atoms /\ \A i \in DOMAIN held : held[i] \in Logs

\* The chunks on list l: its head and what next leads to from there.
Listed(l) ==
  LET reach[n \in 0 .. NBlock] ==
        IF n = 0 THEN {aiFreelist[l]} \ {-1}
        ELSE LET r == reach[n - 1] IN r \cup ({next[i] : i \in r \cap Atoms} \ {-1})
  IN  reach[NBlock]

\* Every block there is: on a list, held, or in the hands of the lock's holder.
Blocks ==
  (UNION {{<<i, l>> : i \in Listed(l)} : l \in Logs})
    \cup {<<i, held[i]>> : i \in DOMAIN held}
    \cup {<<blk[t], bin[t]>> : t \in {u \in Threads : pc[u] \in {"split", "merge"}}}

\* No atom of the pool is lost or handed out twice: at every point of a call,
\* the blocks on the lists, the callers' and the one in hand partition it.
PoolPartitioned ==
  /\ \A x, y \in Blocks : x # y => x[1] .. x[1] + 2^x[2] - 1 \cap y[1] .. y[1] + 2^y[2] - 1 = {}
  /\ UNION {x[1] .. x[1] + 2^x[2] - 1 : x \in Blocks} = Atoms

\* aCtrl tells the truth at the first atom of every block, whatever stale
\* entries it has elsewhere, and the lists are properly doubly linked.
ControlExact ==
  /\ \A i \in DOMAIN held : ~free[i] /\ logsize[i] = held[i]
  /\ \A l \in Logs : \A i \in Listed(l) :
       /\ free[i] /\ logsize[i] = l
       /\ IF prev[i] = -1 THEN aiFreelist[l] = i ELSE next[prev[i]] = i

\* Between calls no free block has a free buddy of its own size.
Coalesced ==
  mem_lock = NoThread =>
    \A l \in 0 .. LogMax - 1 : \A i \in Listed(l) :
      i % 2^(l + 1) = 0 => i + 2^l \notin Listed(l)

\* The allocator implements the abstract one: blocks never overlap, keep their
\* size until they are freed, and malloc fails only when no aligned run is free.
Promise == INSTANCE Allocator WITH Sizes <- Requests \cup Rounded
ImplementsAllocator == Promise!Spec

\* The header comment of mem.cpp: as long as N >= M*(1 + log2(n)/2) - n + 1 the
\* allocator never breaks down due to fragmentation.  It fails, see the README,
\* for a pool that is not a power of two.
LargestLog == Roundup(Max(Requests))
RobsonBound ==
  2 * NBlock >= MaxOut * (2 + LargestLog) - 2 * 2^LargestLog + 2 =>
    \A nByte \in Requests :
      mem_lock = NoThread /\ Affordable(nByte) => Bins(Roundup(nByte)) # {}
=============================================================================
