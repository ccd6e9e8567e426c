----------------------------- MODULE SuvmProofs -----------------------------
(***************************************************************************)
(* Machine-checked proofs about Suvm, for any number of threads,           *)
(* spointers, pages, frames and buckets, in three parts:                   *)
(*   1. the counts, locks and dirty bits, on which the pinning of pages    *)
(*      rests;                                                             *)
(*   2. where the frames and the pages are: no frame is lost or shared,    *)
(*      the queue of eviction candidates holds every cached page exactly   *)
(*      once, only cached frames are dirty, and a page is only decrypted   *)
(*      with the nonce and MAC it was sealed with;                         *)
(*   3. what SUVM promises its users: no ASSERT of the paging path fails   *)
(*      when there are no more threads than the frames kept back for them, *)
(*      and Suvm implements the flat memory of SecureMemory.               *)
(***************************************************************************)
EXTENDS Suvm, FiniteSetTheorems, TLAPS

-----------------------------------------------------------------------------
(***************************************************************************)
(* Part 1.  The inductive invariant                                        *)
(***************************************************************************)

\* The stages of page_fault between inc_ref_count and the link.
Faulting == {"get", "minor", "check", "dequeue", "probe", "requeue", "swap",
             "encrypt", "remove", "release", "pop", "llcget", "decrypt", "add",
             "publish", "found", "putback"}

\* The stages in which a thread has a page off the queue to evict it, and those
\* in which it holds the bucket lock of that page.
HasVictim == {"probe", "requeue", "swap", "encrypt", "remove"}
Evicting  == {"swap", "encrypt", "remove"}

\* An access in progress uses a spointer of its thread.
OpInv == \A t \in Threads : pc[t] \notin {"idle", "abort"} =>
  op[t] \in Ops /\ Owner[op[t].aptr] = t

\* The frame and the victim in a thread's hands, and the lock it holds.
HeldInv == \A t \in Threads :
  /\ pc[t] \in {"release", "llcget", "decrypt", "add", "found", "putback"} =>
       held[t] \in Frames
  /\ pc[t] \in HasVictim => victim[t] \in Pages
  /\ pc[t] \in Evicting =>
       /\ lock[Bucket(victim[t])] = t
       /\ cache[victim[t]] = held[t]
       /\ held[t] \in Frames
       /\ ref[victim[t]] = 0
  /\ pc[t] = "publish" =>
       /\ lock[Bucket(op[t].page)] = t
       /\ cache[op[t].page] = held[t]
       /\ held[t] \in Frames

\* A page whose crypto cache entry matches has been sealed.
SealedInv == \A p \in Pages : mac[p] = "valid" => ram[p] \in Values

\* Where the spointer of an access is, stage by stage.
StageInv == \A t \in Threads :
  /\ pc[t] = "dec" => prm[op[t].aptr] # NoFrame
  /\ pc[t] = "inc" => page[op[t].aptr] = NoPage /\ prm[op[t].aptr] = NoFrame
  /\ pc[t] \in Faulting =>
       page[op[t].aptr] = op[t].page /\ prm[op[t].aptr] = NoFrame
  /\ pc[t] \in {"mark", "access"} =>
       page[op[t].aptr] = op[t].page /\ prm[op[t].aptr] # NoFrame
  /\ pc[t] \in {"minor", "found", "putback"} => cache[op[t].page] # NoFrame

\* A spointer that is not linked stands on no page, except in a page fault.
UnlinkedInv == \A a \in Aptrs : prm[a] = NoFrame /\ page[a] # NoPage =>
  \/ pc[Owner[a]] = "abort"
  \/ pc[Owner[a]] \in Faulting /\ op[Owner[a]].aptr = a

\* The page of a linked spointer is cached in the spointer's frame.
LinkedInv == \A a \in Aptrs : prm[a] # NoFrame =>
  page[a] \in Pages /\ cache[page[a]] = prm[a]

\* The count of a page is the number of spointers that stand on it.
Refs(p) == {a \in Aptrs : page[a] = p}
RefInv  == \A p \in Pages : ref[p] = Cardinality(Refs(p))

IInv == TypeOK /\ OpInv /\ HeldInv /\ SealedInv
        /\ StageInv /\ UnlinkedInv /\ LinkedInv /\ RefInv

\* There are fewer spointers than values of a count.
CountsFit == IsFiniteSet(Aptrs) /\ Cardinality(Aptrs) < RefMod

-----------------------------------------------------------------------------
\* A remainder is in its range.
LEMMA ModRange ==
  ASSUME NEW x \in Int, NEW m \in Nat \ {0}
  PROVE  x % m \in 0 .. m - 1
  OBVIOUS

\* A number in the range is its own remainder, also after a wrap.
LEMMA ModIdentity ==
  ASSUME NEW m \in Nat \ {0}, NEW x \in 0 .. m - 1
  PROVE  x % m = x /\ (x + m) % m = x
  OBVIOUS

\* The bucket of a page is one of the buckets.
LEMMA BucketType == \A p \in Pages : Bucket(p) \in Buckets
  BY ModRange, PagesAssumption, SizesAssumption DEF Bucket, Buckets

\* A count that is incremented or decremented modulo RefMod is a count.
LEMMA CountType ==
  ASSUME NEW r \in [Pages -> 0 .. RefMod - 1], NEW p
  PROVE  /\ [r EXCEPT ![p] = (@ + 1) % RefMod] \in [Pages -> 0 .. RefMod - 1]
         /\ [r EXCEPT ![p] = (@ + RefMod - 1) % RefMod] \in [Pages -> 0 .. RefMod - 1]
<1>1. ASSUME NEW x \in 0 .. RefMod - 1
      PROVE  (x + 1) % RefMod \in 0 .. RefMod - 1 /\ (x + RefMod - 1) % RefMod \in 0 .. RefMod - 1
  <2>1. x + 1 \in Int /\ x + RefMod - 1 \in Int
    BY SizesAssumption
  <2> QED BY <2>1, ModRange, SizesAssumption
<1> QED BY <1>1

\* The queue of pages remains one.
LEMMA QueueType ==
  ASSUME NEW s \in Seq(Pages)
  PROVE  /\ \A p \in Pages : Append(s, p) \in Seq(Pages)
         /\ s # << >> => Head(s) \in Pages /\ Tail(s) \in Seq(Pages)
  OBVIOUS

\* A thread outside idle has an access.
LEMMA OpFacts ==
  ASSUME OpInv, NEW t \in Threads, pc[t] \notin {"idle", "abort"}
  PROVE  op[t] \in Ops /\ op[t].aptr \in Aptrs /\ op[t].page \in Pages
  BY DEF OpInv, Ops

\* A thread that holds a frame or a victim holds a real one.
LEMMA HeldFacts ==
  ASSUME HeldInv, NEW t \in Threads
  PROVE  /\ pc[t] \in {"release", "llcget", "decrypt", "add", "found", "putback",
                       "swap", "encrypt", "remove", "publish"} => held[t] \in Frames
         /\ pc[t] \in HasVictim => victim[t] \in Pages
  BY DEF HeldInv, HasVictim, Evicting

\* Two threads use different spointers.
LEMMA OtherAptr ==
  ASSUME OpInv, NEW t \in Threads, NEW u \in Threads, t # u,
         pc[t] \notin {"idle", "abort"}, pc[u] \notin {"idle", "abort"}
  PROVE  op[t].aptr # op[u].aptr
  BY DEF OpInv

\* The spointers that stand on a page are finitely many.
LEMMA RefsFinite ==
  ASSUME CountsFit, NEW p \in Pages
  PROVE  /\ IsFiniteSet(Refs(p))
         /\ Cardinality(Refs(p)) \in Nat
         /\ Cardinality(Refs(p)) <= Cardinality(Aptrs)
<1>1. Refs(p) \subseteq Aptrs
  BY DEF Refs
<1> QED BY <1>1, FS_Subset, FS_CardinalityType DEF CountsFit

\* No spointer stands on a page whose count is 0: the count has not wrapped.
LEMMA NoRefs ==
  ASSUME CountsFit, RefInv, NEW p \in Pages, ref[p] = 0
  PROVE  \A a \in Aptrs : page[a] # p
<1>1. Refs(p) = {}
  BY RefsFinite, FS_EmptySet DEF RefInv
<1> QED BY <1>1 DEF Refs

\* Every step keeps the types.
LEMMA TypeNext == IInv /\ Next => TypeOK'
<1> SUFFICES ASSUME IInv, Next PROVE TypeOK'
  OBVIOUS
<1> USE DEF IInv, Goto, aptrVars, l1Vars, epcVars, llcVars, userVars
<1>1. ASSUME NEW t \in Threads, MarkDirty(t)
      PROVE  TypeOK'
  <2>1. op[t] \in Ops /\ op[t].aptr \in Aptrs /\ op[t].page \in Pages
    BY <1>1, OpFacts DEF MarkDirty
  <2> QED BY <1>1, <2>1 DEF MarkDirty, SetDirty, TypeOK, PCs
<1>2. ASSUME NEW t \in Threads, Load(t)
      PROVE  TypeOK'
  <2>1. op[t] \in Ops /\ op[t].aptr \in Aptrs /\ op[t].page \in Pages
    BY <1>2, OpFacts DEF Load
  <2>2. data[prm[op[t].aptr]] \in Values
    BY <1>2, <2>1 DEF Load, TypeOK, StageInv, Ops
  <2> QED BY <1>2, <2>1, <2>2 DEF Load, TypeOK, PCs
<1>3. ASSUME NEW t \in Threads, NEW v \in Values, Store(t, v)
      PROVE  TypeOK'
  <2>1. op[t] \in Ops /\ op[t].aptr \in Aptrs /\ op[t].page \in Pages
    BY <1>3, OpFacts DEF Store
  <2> QED BY <1>3, <2>1 DEF Store, TypeOK, PCs
<1>4. ASSUME NEW t \in Threads, DecPrevPage(t)
      PROVE  TypeOK'
  <2>1. op[t] \in Ops /\ op[t].aptr \in Aptrs /\ op[t].page \in Pages
    BY <1>4, OpFacts DEF DecPrevPage
  <2>2. ref' \in [Pages -> 0 .. RefMod - 1]
    BY <1>4, CountType DEF DecPrevPage, DecRef, TypeOK
  <2> QED BY <1>4, <2>1, <2>2 DEF DecPrevPage, DecRef, TypeOK, PCs
<1>5. ASSUME NEW t \in Threads, IncNewPage(t)
      PROVE  TypeOK'
  <2>1. op[t] \in Ops /\ op[t].aptr \in Aptrs /\ op[t].page \in Pages
    BY <1>5, OpFacts DEF IncNewPage
  <2>2. ref' \in [Pages -> 0 .. RefMod - 1]
    BY <1>5, CountType DEF IncNewPage, IncRef, TypeOK
  <2> QED BY <1>5, <2>1, <2>2 DEF IncNewPage, IncRef, TypeOK, PCs
<1>6. ASSUME NEW t \in Threads, Get(t)
      PROVE  TypeOK'
  <2>1. op[t] \in Ops /\ op[t].aptr \in Aptrs /\ op[t].page \in Pages
    BY <1>6, OpFacts DEF Get
  <2> QED BY <1>6, <2>1 DEF Get, TypeOK, PCs
<1>7. ASSUME NEW t \in Threads, LinkMinor(t)
      PROVE  TypeOK'
  <2>1. op[t] \in Ops /\ op[t].aptr \in Aptrs /\ op[t].page \in Pages
    BY <1>7, OpFacts DEF LinkMinor
  <2> QED BY <1>7, <2>1 DEF LinkMinor, Linked, TypeOK, PCs
<1>8. ASSUME NEW t \in Threads, CheckSize(t)
      PROVE  TypeOK'
  <2>1. op[t] \in Ops /\ op[t].aptr \in Aptrs /\ op[t].page \in Pages
    BY <1>8, OpFacts DEF CheckSize
  <2> QED BY <1>8, <2>1 DEF CheckSize, TypeOK, PCs
<1>9. ASSUME NEW t \in Threads, PopFree(t)
      PROVE  TypeOK'
  <2>1. op[t] \in Ops /\ op[t].aptr \in Aptrs /\ op[t].page \in Pages
    BY <1>9, OpFacts DEF PopFree
  <2>2. free' \in SUBSET Frames /\ held' \in [Threads -> Frames \cup {NoFrame}]
    BY <1>9 DEF PopFree, TypeOK
  <2> QED BY <1>9, <2>1, <2>2 DEF PopFree, TypeOK, PCs
<1>10. ASSUME NEW t \in Threads, LlcGet(t)
      PROVE  TypeOK'
  <2>1. op[t] \in Ops /\ op[t].aptr \in Aptrs /\ op[t].page \in Pages
    BY <1>10, OpFacts DEF LlcGet
  <2>3. held[t] \in Frames
    BY <1>10, HeldFacts DEF LlcGet, HasVictim
  <2> QED BY <1>10, <2>1, <2>3 DEF LlcGet, TypeOK, PCs
<1>11. ASSUME NEW t \in Threads, Decrypt(t)
      PROVE  TypeOK'
  <2>1. op[t] \in Ops /\ op[t].aptr \in Aptrs /\ op[t].page \in Pages
    BY <1>11, OpFacts DEF Decrypt
  <2>2. data' \in [Frames -> Values]
    BY <1>11, <2>1, HeldFacts DEF Decrypt, TypeOK, SealedInv
  <2>3. held[t] \in Frames
    BY <1>11, HeldFacts DEF Decrypt, HasVictim
  <2> QED BY <1>11, <2>1, <2>2, <2>3 DEF Decrypt, TypeOK, PCs
<1>12. ASSUME NEW t \in Threads, TryAdd(t)
      PROVE  TypeOK'
  <2>1. op[t].page \in Pages /\ held[t] \in Frames
    BY <1>12, OpFacts, HeldFacts DEF TryAdd
  <2>2. lock' \in [Buckets -> Threads \cup {NoThread}]
    BY <1>12 DEF TryAdd, Acquire, TypeOK
  <2>3. cache' \in [Pages -> Frames \cup {NoFrame}]
    <3>1. [cache EXCEPT ![op[t].page] = held[t]] \in [Pages -> Frames \cup {NoFrame}]
      BY <2>1 DEF TypeOK
    <3>2. cache' = cache \/ cache' = [cache EXCEPT ![op[t].page] = held[t]]
      BY <1>12 DEF TryAdd
    <3> QED BY <3>1, <3>2 DEF TypeOK
  <2>5. size' \in Int
    BY <1>12 DEF TryAdd, TypeOK
  <2>4. pc' \in [Threads -> PCs]
    BY <1>12, ZenonT(60) DEF TryAdd, TypeOK, PCs
  <2> QED BY <1>12, <2>2, <2>3, <2>4, <2>5 DEF TryAdd, TypeOK
<1>13. ASSUME NEW t \in Threads, Publish(t)
      PROVE  TypeOK'
  <2>1. op[t].page \in Pages /\ held[t] \in Frames
    BY <1>13, OpFacts, HeldFacts DEF Publish
  <2>2. Append(used, op[t].page) \in Seq(Pages)
    BY <2>1, QueueType DEF TypeOK
  <2>3. used' \in Seq(Pages)
    BY <1>13, <2>2 DEF Publish, Enqueue, TypeOK
  <2> QED BY <1>13, <2>1, <2>3 DEF Publish, Release, Linked, TypeOK, PCs
<1>14. ASSUME NEW t \in Threads, GetFound(t)
      PROVE  TypeOK'
  <2>1. op[t] \in Ops /\ op[t].aptr \in Aptrs /\ op[t].page \in Pages
    BY <1>14, OpFacts DEF GetFound
  <2> QED BY <1>14, <2>1 DEF GetFound, TypeOK, PCs
<1>15. ASSUME NEW t \in Threads, PutBack(t)
      PROVE  TypeOK'
  <2>1. op[t] \in Ops /\ op[t].aptr \in Aptrs /\ op[t].page \in Pages
    BY <1>15, OpFacts DEF PutBack
  <2>3. held[t] \in Frames
    BY <1>15, HeldFacts DEF PutBack, HasVictim
  <2> QED BY <1>15, <2>1, <2>3 DEF PutBack, GiveBack, Linked, TypeOK, PCs
<1>16. ASSUME NEW t \in Threads, Dequeue(t)
      PROVE  TypeOK'
  <2>1. op[t] \in Ops /\ op[t].aptr \in Aptrs /\ op[t].page \in Pages
    BY <1>16, OpFacts DEF Dequeue
  <2>2. used' \in Seq(Pages) /\ victim' \in [Threads -> Pages \cup {NoPage}]
    BY <1>16, QueueType DEF Dequeue, TypeOK
  <2> QED BY <1>16, <2>1, <2>2 DEF Dequeue, TypeOK, PCs
<1>17. ASSUME NEW t \in Threads, Probe(t)
      PROVE  TypeOK'
  <2>1. victim[t] \in Pages
    BY <1>17, HeldFacts DEF Probe, HasVictim
  <2>2. lock' \in [Buckets -> Threads \cup {NoThread}]
    BY <1>17 DEF Probe, Acquire, TypeOK
  <2>3. held' \in [Threads -> Frames \cup {NoFrame}]
    BY <1>17, <2>1 DEF Probe, TypeOK
  <2>4. pc' \in [Threads -> PCs]
    BY <1>17 DEF Probe, TypeOK, PCs
  <2> QED BY <1>17, <2>2, <2>3, <2>4 DEF Probe, TypeOK
<1>18. ASSUME NEW t \in Threads, Requeue(t)
      PROVE  TypeOK'
  <2>1. victim[t] \in Pages
    BY <1>18, HeldFacts DEF Requeue, HasVictim
  <2>2. Append(used, victim[t]) \in Seq(Pages)
    BY <2>1, QueueType DEF TypeOK
  <2>3. used' \in Seq(Pages)
    BY <1>18, <2>2 DEF Requeue, Enqueue, TypeOK
  <2> QED BY <1>18, <2>3 DEF Requeue, TypeOK, PCs
<1>19. ASSUME NEW t \in Threads, SwapOut(t)
      PROVE  TypeOK'
  <2>1. op[t] \in Ops /\ op[t].aptr \in Aptrs /\ op[t].page \in Pages
    BY <1>19, OpFacts DEF SwapOut
  <2>3. held[t] \in Frames /\ victim[t] \in Pages
    BY <1>19, HeldFacts DEF SwapOut, HasVictim
  <2> QED BY <1>19, <2>1, <2>3 DEF SwapOut, ClearDirty, TypeOK, PCs
<1>20. ASSUME NEW t \in Threads, Encrypt(t)
      PROVE  TypeOK'
  <2>1. op[t] \in Ops /\ op[t].aptr \in Aptrs /\ op[t].page \in Pages
    BY <1>20, OpFacts DEF Encrypt
  <2>3. held[t] \in Frames /\ victim[t] \in Pages
    BY <1>20, HeldFacts DEF Encrypt, HasVictim
  <2> QED BY <1>20, <2>1, <2>3 DEF Encrypt, Seal, TypeOK, PCs
<1>21. ASSUME NEW t \in Threads, Remove(t)
      PROVE  TypeOK'
  <2>1. op[t] \in Ops /\ op[t].aptr \in Aptrs /\ op[t].page \in Pages
    BY <1>21, OpFacts DEF Remove
  <2>2. lock' \in [Buckets -> Threads \cup {NoThread}] /\ cache' \in [Pages -> Frames \cup {NoFrame}]
    BY <1>21 DEF Remove, Release, TypeOK
  <2>3. held[t] \in Frames /\ victim[t] \in Pages
    BY <1>21, HeldFacts DEF Remove, HasVictim
  <2> QED BY <1>21, <2>1, <2>2, <2>3 DEF Remove, Release, TypeOK, PCs
<1>22. ASSUME NEW t \in Threads, PushFree(t)
      PROVE  TypeOK'
  <2>1. op[t] \in Ops /\ op[t].aptr \in Aptrs /\ op[t].page \in Pages
    BY <1>22, OpFacts DEF PushFree
  <2>3. held[t] \in Frames
    BY <1>22, HeldFacts DEF PushFree, HasVictim
  <2> QED BY <1>22, <2>1, <2>3 DEF PushFree, GiveBack, TypeOK, PCs
<1>23. ASSUME NEW t \in Threads, NEW a \in Aptrs, NEW p \in Pages, NEW w \in BOOLEAN,
             Deref(t, a, p, w)
      PROVE  TypeOK'
  <2>2. op' \in [Threads -> Ops \cup {NoOp}] /\ pc' \in [Threads -> PCs]
    BY <1>23 DEF Deref, TypeOK, Ops, PCs
  <2> QED BY <1>23, <2>2 DEF Deref, TypeOK, PCs
<1>24. ASSUME NEW t \in Threads, NEW a \in Aptrs, Reset(t, a)
      PROVE  TypeOK'
  <2>2. ref' \in [Pages -> 0 .. RefMod - 1]
    BY <1>24, CountType DEF Reset, DecRef, TypeOK
  <2> QED BY <1>24, <2>2 DEF Reset, DecRef, TypeOK, PCs
<1> QED
  BY <1>1, <1>2, <1>3, <1>4, <1>5, <1>6, <1>7, <1>8, <1>9, <1>10, <1>11, <1>12, <1>13, <1>14, <1>15, <1>16, <1>17, <1>18, <1>19, <1>20, <1>21, <1>22, <1>23, <1>24, UsesAssumption DEF Next, Step, Start

\* Every step keeps accesses and spointers to their threads.
LEMMA OpNext == IInv /\ Next => OpInv'
<1> SUFFICES ASSUME IInv, Next PROVE OpInv'
  OBVIOUS
<1> USE DEF IInv, Goto, aptrVars, l1Vars, epcVars, llcVars, userVars
<1>1. ASSUME NEW t \in Threads, MarkDirty(t)
      PROVE  OpInv'
  BY <1>1, OpFacts DEF MarkDirty, SetDirty, TypeOK, OpInv, Ops
<1>2. ASSUME NEW t \in Threads, Load(t)
      PROVE  OpInv'
  BY <1>2, OpFacts DEF Load, TypeOK, OpInv, Ops
<1>3. ASSUME NEW t \in Threads, NEW v \in Values, Store(t, v)
      PROVE  OpInv'
  BY <1>3, OpFacts DEF Store, TypeOK, OpInv, Ops
<1>4. ASSUME NEW t \in Threads, DecPrevPage(t)
      PROVE  OpInv'
  BY <1>4, OpFacts DEF DecPrevPage, DecRef, LockFree, TypeOK, OpInv, Ops
<1>5. ASSUME NEW t \in Threads, IncNewPage(t)
      PROVE  OpInv'
  BY <1>5, OpFacts DEF IncNewPage, IncRef, LockFree, TypeOK, OpInv, Ops
<1>6. ASSUME NEW t \in Threads, Get(t)
      PROVE  OpInv'
  BY <1>6, OpFacts DEF Get, LockFree, TypeOK, OpInv, Ops
<1>7. ASSUME NEW t \in Threads, LinkMinor(t)
      PROVE  OpInv'
  BY <1>7, OpFacts DEF LinkMinor, Linked, TypeOK, OpInv, Ops
<1>8. ASSUME NEW t \in Threads, CheckSize(t)
      PROVE  OpInv'
  BY <1>8, OpFacts DEF CheckSize, TypeOK, OpInv, Ops
<1>9. ASSUME NEW t \in Threads, PopFree(t)
      PROVE  OpInv'
  BY <1>9, OpFacts DEF PopFree, TypeOK, OpInv, Ops
<1>10. ASSUME NEW t \in Threads, LlcGet(t)
      PROVE  OpInv'
  BY <1>10, OpFacts DEF LlcGet, TypeOK, OpInv, Ops
<1>11. ASSUME NEW t \in Threads, Decrypt(t)
      PROVE  OpInv'
  BY <1>11, OpFacts DEF Decrypt, TypeOK, OpInv, Ops
<1>12. ASSUME NEW t \in Threads, TryAdd(t)
      PROVE  OpInv'
  BY <1>12, OpFacts DEF TryAdd, LockFree, Acquire, TypeOK, OpInv, Ops
<1>13. ASSUME NEW t \in Threads, Publish(t)
      PROVE  OpInv'
  BY <1>13, OpFacts DEF Publish, Enqueue, Release, Linked, TypeOK, OpInv, Ops
<1>14. ASSUME NEW t \in Threads, GetFound(t)
      PROVE  OpInv'
  BY <1>14, OpFacts DEF GetFound, LockFree, TypeOK, OpInv, Ops
<1>15. ASSUME NEW t \in Threads, PutBack(t)
      PROVE  OpInv'
  BY <1>15, OpFacts DEF PutBack, GiveBack, Linked, TypeOK, OpInv, Ops
<1>16. ASSUME NEW t \in Threads, Dequeue(t)
      PROVE  OpInv'
  BY <1>16, OpFacts DEF Dequeue, TypeOK, OpInv, Ops
<1>17. ASSUME NEW t \in Threads, Probe(t)
      PROVE  OpInv'
  BY <1>17, OpFacts DEF Probe, LockFree, Pinned, Acquire, TypeOK, OpInv, Ops
<1>18. ASSUME NEW t \in Threads, Requeue(t)
      PROVE  OpInv'
  BY <1>18, OpFacts DEF Requeue, Enqueue, TypeOK, OpInv, Ops
<1>19. ASSUME NEW t \in Threads, SwapOut(t)
      PROVE  OpInv'
  BY <1>19, OpFacts, ZenonT(60) DEF SwapOut, ClearDirty, TypeOK, OpInv, Ops
<1>20. ASSUME NEW t \in Threads, Encrypt(t)
      PROVE  OpInv'
  BY <1>20, OpFacts DEF Encrypt, Seal, TypeOK, OpInv, Ops
<1>21. ASSUME NEW t \in Threads, Remove(t)
      PROVE  OpInv'
  BY <1>21, OpFacts DEF Remove, Release, TypeOK, OpInv, Ops
<1>22. ASSUME NEW t \in Threads, PushFree(t)
      PROVE  OpInv'
  BY <1>22, OpFacts DEF PushFree, GiveBack, TypeOK, OpInv, Ops
<1>23. ASSUME NEW t \in Threads, NEW a \in Aptrs, NEW p \in Pages, NEW w \in BOOLEAN,
             Deref(t, a, p, w)
      PROVE  OpInv'
  BY <1>23, OpFacts DEF Deref, TypeOK, OpInv, Ops
<1>24. ASSUME NEW t \in Threads, NEW a \in Aptrs, Reset(t, a)
      PROVE  OpInv'
  BY <1>24, OpFacts DEF Reset, DecRef, LockFree, TypeOK, OpInv, Ops
<1> QED
  BY <1>1, <1>2, <1>3, <1>4, <1>5, <1>6, <1>7, <1>8, <1>9, <1>10, <1>11, <1>12, <1>13, <1>14, <1>15, <1>16, <1>17, <1>18, <1>19, <1>20, <1>21, <1>22, <1>23, <1>24, UsesAssumption DEF Next, Step, Start

\* Every step keeps the locks, victims and frames that evicting threads hold.
LEMMA HeldNext == IInv /\ Next => HeldInv'
<1> SUFFICES ASSUME IInv, Next PROVE HeldInv'
  OBVIOUS
<1> USE DEF IInv, Goto, aptrVars, l1Vars, epcVars, llcVars, userVars
<1>1. ASSUME NEW t \in Threads, MarkDirty(t)
      PROVE  HeldInv'
  BY <1>1, BucketType, OpFacts, HeldFacts, ThreadsAssumption DEF MarkDirty, SetDirty, TypeOK, HeldInv, HasVictim, Evicting
<1>2. ASSUME NEW t \in Threads, Load(t)
      PROVE  HeldInv'
  BY <1>2, BucketType, OpFacts, HeldFacts, ThreadsAssumption DEF Load, TypeOK, HeldInv, HasVictim, Evicting
<1>3. ASSUME NEW t \in Threads, NEW v \in Values, Store(t, v)
      PROVE  HeldInv'
  BY <1>3, BucketType, OpFacts, HeldFacts, ThreadsAssumption DEF Store, TypeOK, HeldInv, HasVictim, Evicting
<1>4. ASSUME NEW t \in Threads, DecPrevPage(t)
      PROVE  HeldInv'
  BY <1>4, BucketType, OpFacts, HeldFacts, ThreadsAssumption DEF DecPrevPage, DecRef, LockFree, TypeOK, HeldInv, HasVictim, Evicting
<1>5. ASSUME NEW t \in Threads, IncNewPage(t)
      PROVE  HeldInv'
  BY <1>5, BucketType, OpFacts, HeldFacts, ThreadsAssumption DEF IncNewPage, IncRef, LockFree, TypeOK, HeldInv, HasVictim, Evicting
<1>6. ASSUME NEW t \in Threads, Get(t)
      PROVE  HeldInv'
  BY <1>6, BucketType, OpFacts, HeldFacts, ThreadsAssumption DEF Get, LockFree, TypeOK, HeldInv, HasVictim, Evicting
<1>7. ASSUME NEW t \in Threads, LinkMinor(t)
      PROVE  HeldInv'
  BY <1>7, BucketType, OpFacts, HeldFacts, ThreadsAssumption DEF LinkMinor, Linked, TypeOK, HeldInv, HasVictim, Evicting
<1>8. ASSUME NEW t \in Threads, CheckSize(t)
      PROVE  HeldInv'
  BY <1>8, BucketType, OpFacts, HeldFacts, ThreadsAssumption DEF CheckSize, TypeOK, HeldInv, HasVictim, Evicting
<1>9. ASSUME NEW t \in Threads, PopFree(t)
      PROVE  HeldInv'
  BY <1>9, BucketType, OpFacts, HeldFacts, ThreadsAssumption DEF PopFree, TypeOK, HeldInv, HasVictim, Evicting
<1>10. ASSUME NEW t \in Threads, LlcGet(t)
      PROVE  HeldInv'
  BY <1>10, BucketType, OpFacts, HeldFacts, ThreadsAssumption DEF LlcGet, TypeOK, HeldInv, HasVictim, Evicting
<1>11. ASSUME NEW t \in Threads, Decrypt(t)
      PROVE  HeldInv'
  BY <1>11, BucketType, OpFacts, HeldFacts, ThreadsAssumption DEF Decrypt, TypeOK, HeldInv, HasVictim, Evicting
<1>12. ASSUME NEW t \in Threads, TryAdd(t)
      PROVE  HeldInv'
  <2>1. op[t].page \in Pages /\ held[t] \in Frames
    BY <1>12, OpFacts, HeldFacts DEF TryAdd
  <2>2. Bucket(op[t].page) \in Buckets /\ lock[Bucket(op[t].page)] # t
    BY <1>12, <2>1, BucketType, ThreadsAssumption DEF TryAdd, LockFree
  <2> SUFFICES ASSUME NEW u \in Threads PROVE HeldInv!(u)'
    BY DEF HeldInv
  <2>3. CASE u = t
    BY <1>12, <2>1, <2>2, <2>3 DEF TryAdd, Acquire, TypeOK, HasVictim, Evicting
  <2>4. CASE u # t
    <3>1. /\ pc'[u] = pc[u] /\ op'[u] = op[u] /\ held'[u] = held[u]
          /\ victim'[u] = victim[u] /\ ref' = ref
      BY <1>12, <2>4 DEF TryAdd, TypeOK
    <3>2. pc[u] \in Evicting => Bucket(victim[u]) # Bucket(op[t].page)
      BY <1>12, ThreadsAssumption DEF TryAdd, LockFree, HeldInv
    <3>3. pc[u] = "publish" => Bucket(op[u].page) # Bucket(op[t].page)
      BY <1>12, ThreadsAssumption DEF TryAdd, LockFree, HeldInv
    <3>4. \A p \in Pages : Bucket(p) # Bucket(op[t].page) =>
            cache'[p] = cache[p] /\ lock'[Bucket(p)] = lock[Bucket(p)]
      BY <1>12, <2>1, BucketType DEF TryAdd, Acquire, TypeOK
    <3>5. /\ pc[u] \in Evicting => victim[u] \in Pages
          /\ pc[u] = "publish" => op[u].page \in Pages
      BY HeldFacts, OpFacts DEF Evicting, HasVictim
    <3> QED BY <3>1, <3>2, <3>3, <3>4, <3>5 DEF HeldInv
  <2> QED BY <2>3, <2>4
<1>13. ASSUME NEW t \in Threads, Publish(t)
      PROVE  HeldInv'
  BY <1>13, BucketType, OpFacts, HeldFacts, ThreadsAssumption DEF Publish, Enqueue, Release, Linked, TypeOK, HeldInv, HasVictim, Evicting
<1>14. ASSUME NEW t \in Threads, GetFound(t)
      PROVE  HeldInv'
  BY <1>14, BucketType, OpFacts, HeldFacts, ThreadsAssumption DEF GetFound, LockFree, TypeOK, HeldInv, HasVictim, Evicting
<1>15. ASSUME NEW t \in Threads, PutBack(t)
      PROVE  HeldInv'
  BY <1>15, BucketType, OpFacts, HeldFacts, ThreadsAssumption DEF PutBack, GiveBack, Linked, TypeOK, HeldInv, HasVictim, Evicting
<1>16. ASSUME NEW t \in Threads, Dequeue(t)
      PROVE  HeldInv'
  BY <1>16, BucketType, OpFacts, HeldFacts, ThreadsAssumption DEF Dequeue, TypeOK, HeldInv, HasVictim, Evicting
<1>17. ASSUME NEW t \in Threads, Probe(t)
      PROVE  HeldInv'
  <2>1. victim[t] \in Pages
    BY <1>17, HeldFacts DEF Probe, HasVictim
  <2>2. Bucket(victim[t]) \in Buckets /\ lock[Bucket(victim[t])] # t
    BY <1>17, <2>1, BucketType, ThreadsAssumption DEF Probe, LockFree
  <2>3. ref[victim[t]] \in Nat
    BY <2>1, SizesAssumption DEF TypeOK
  <2> SUFFICES ASSUME NEW u \in Threads PROVE HeldInv!(u)'
    BY DEF HeldInv
  <2>4. CASE u = t
    BY <1>17, <2>1, <2>2, <2>3, <2>4 DEF Probe, Acquire, Pinned, TypeOK, HasVictim, Evicting
  <2>5. CASE u # t
    <3>1. /\ pc'[u] = pc[u] /\ op'[u] = op[u] /\ held'[u] = held[u]
          /\ victim'[u] = victim[u] /\ ref' = ref /\ cache' = cache
      BY <1>17, <2>5 DEF Probe, TypeOK
    <3>2. pc[u] \in Evicting => Bucket(victim[u]) # Bucket(victim[t])
      BY <1>17, ThreadsAssumption DEF Probe, LockFree, HeldInv
    <3>3. pc[u] = "publish" => Bucket(op[u].page) # Bucket(victim[t])
      BY <1>17, ThreadsAssumption DEF Probe, LockFree, HeldInv
    <3>4. \A p \in Pages : Bucket(p) # Bucket(victim[t]) =>
            lock'[Bucket(p)] = lock[Bucket(p)]
      BY <1>17, <2>1, BucketType DEF Probe, Acquire, TypeOK
    <3>5. /\ pc[u] \in Evicting => victim[u] \in Pages
          /\ pc[u] = "publish" => op[u].page \in Pages
      BY HeldFacts, OpFacts DEF Evicting, HasVictim
    <3> QED BY <3>1, <3>2, <3>3, <3>4, <3>5 DEF HeldInv
  <2> QED BY <2>4, <2>5
<1>18. ASSUME NEW t \in Threads, Requeue(t)
      PROVE  HeldInv'
  BY <1>18, BucketType, OpFacts, HeldFacts, ThreadsAssumption DEF Requeue, Enqueue, TypeOK, HeldInv, HasVictim, Evicting
<1>19. ASSUME NEW t \in Threads, SwapOut(t)
      PROVE  HeldInv'
  BY <1>19, BucketType, OpFacts, HeldFacts, ThreadsAssumption DEF SwapOut, ClearDirty, TypeOK, HeldInv, HasVictim, Evicting
<1>20. ASSUME NEW t \in Threads, Encrypt(t)
      PROVE  HeldInv'
  BY <1>20, BucketType, OpFacts, HeldFacts, ThreadsAssumption DEF Encrypt, Seal, TypeOK, HeldInv, HasVictim, Evicting
<1>21. ASSUME NEW t \in Threads, Remove(t)
      PROVE  HeldInv'
  BY <1>21, BucketType, OpFacts, HeldFacts, ThreadsAssumption DEF Remove, Release, TypeOK, HeldInv, HasVictim, Evicting
<1>22. ASSUME NEW t \in Threads, PushFree(t)
      PROVE  HeldInv'
  BY <1>22, BucketType, OpFacts, HeldFacts, ThreadsAssumption DEF PushFree, GiveBack, TypeOK, HeldInv, HasVictim, Evicting
<1>23. ASSUME NEW t \in Threads, NEW a \in Aptrs, NEW p \in Pages, NEW w \in BOOLEAN,
             Deref(t, a, p, w)
      PROVE  HeldInv'
  BY <1>23, BucketType, OpFacts, HeldFacts, ThreadsAssumption DEF Deref, TypeOK, HeldInv, HasVictim, Evicting
<1>24. ASSUME NEW t \in Threads, NEW a \in Aptrs, Reset(t, a)
      PROVE  HeldInv'
  BY <1>24, BucketType, OpFacts, HeldFacts, ThreadsAssumption DEF Reset, DecRef, LockFree, TypeOK, HeldInv, HasVictim, Evicting
<1> QED
  BY <1>1, <1>2, <1>3, <1>4, <1>5, <1>6, <1>7, <1>8, <1>9, <1>10, <1>11, <1>12, <1>13, <1>14, <1>15, <1>16, <1>17, <1>18, <1>19, <1>20, <1>21, <1>22, <1>23, <1>24, UsesAssumption DEF Next, Step, Start

\* Every step keeps a value behind every valid MAC.
LEMMA SealedNext == IInv /\ Next => SealedInv'
<1> SUFFICES ASSUME IInv, Next PROVE SealedInv'
  OBVIOUS
<1> USE DEF IInv, Goto, aptrVars, l1Vars, epcVars, llcVars, userVars
<1>1. ASSUME NEW t \in Threads, MarkDirty(t)
      PROVE  SealedInv'
  BY <1>1, HeldFacts DEF MarkDirty, SetDirty, TypeOK, SealedInv, HasVictim
<1>2. ASSUME NEW t \in Threads, Load(t)
      PROVE  SealedInv'
  BY <1>2, HeldFacts DEF Load, TypeOK, SealedInv, HasVictim
<1>3. ASSUME NEW t \in Threads, NEW v \in Values, Store(t, v)
      PROVE  SealedInv'
  BY <1>3, HeldFacts DEF Store, TypeOK, SealedInv, HasVictim
<1>4. ASSUME NEW t \in Threads, DecPrevPage(t)
      PROVE  SealedInv'
  BY <1>4, HeldFacts DEF DecPrevPage, DecRef, LockFree, TypeOK, SealedInv, HasVictim
<1>5. ASSUME NEW t \in Threads, IncNewPage(t)
      PROVE  SealedInv'
  BY <1>5, HeldFacts DEF IncNewPage, IncRef, LockFree, TypeOK, SealedInv, HasVictim
<1>6. ASSUME NEW t \in Threads, Get(t)
      PROVE  SealedInv'
  BY <1>6, HeldFacts DEF Get, LockFree, TypeOK, SealedInv, HasVictim
<1>7. ASSUME NEW t \in Threads, LinkMinor(t)
      PROVE  SealedInv'
  BY <1>7, HeldFacts DEF LinkMinor, Linked, TypeOK, SealedInv, HasVictim
<1>8. ASSUME NEW t \in Threads, CheckSize(t)
      PROVE  SealedInv'
  BY <1>8, HeldFacts DEF CheckSize, TypeOK, SealedInv, HasVictim
<1>9. ASSUME NEW t \in Threads, PopFree(t)
      PROVE  SealedInv'
  BY <1>9, HeldFacts DEF PopFree, TypeOK, SealedInv, HasVictim
<1>10. ASSUME NEW t \in Threads, LlcGet(t)
      PROVE  SealedInv'
  BY <1>10, HeldFacts DEF LlcGet, TypeOK, SealedInv, HasVictim
<1>11. ASSUME NEW t \in Threads, Decrypt(t)
      PROVE  SealedInv'
  BY <1>11, HeldFacts DEF Decrypt, TypeOK, SealedInv, HasVictim
<1>12. ASSUME NEW t \in Threads, TryAdd(t)
      PROVE  SealedInv'
  BY <1>12, HeldFacts DEF TryAdd, LockFree, Acquire, TypeOK, SealedInv, HasVictim
<1>13. ASSUME NEW t \in Threads, Publish(t)
      PROVE  SealedInv'
  BY <1>13, HeldFacts DEF Publish, Enqueue, Release, Linked, TypeOK, SealedInv, HasVictim
<1>14. ASSUME NEW t \in Threads, GetFound(t)
      PROVE  SealedInv'
  BY <1>14, HeldFacts DEF GetFound, LockFree, TypeOK, SealedInv, HasVictim
<1>15. ASSUME NEW t \in Threads, PutBack(t)
      PROVE  SealedInv'
  BY <1>15, HeldFacts DEF PutBack, GiveBack, Linked, TypeOK, SealedInv, HasVictim
<1>16. ASSUME NEW t \in Threads, Dequeue(t)
      PROVE  SealedInv'
  BY <1>16, HeldFacts DEF Dequeue, TypeOK, SealedInv, HasVictim
<1>17. ASSUME NEW t \in Threads, Probe(t)
      PROVE  SealedInv'
  BY <1>17, HeldFacts DEF Probe, LockFree, Pinned, Acquire, TypeOK, SealedInv, HasVictim
<1>18. ASSUME NEW t \in Threads, Requeue(t)
      PROVE  SealedInv'
  BY <1>18, HeldFacts DEF Requeue, Enqueue, TypeOK, SealedInv, HasVictim
<1>19. ASSUME NEW t \in Threads, SwapOut(t)
      PROVE  SealedInv'
  BY <1>19, HeldFacts DEF SwapOut, ClearDirty, TypeOK, SealedInv, HasVictim
<1>20. ASSUME NEW t \in Threads, Encrypt(t)
      PROVE  SealedInv'
  BY <1>20, HeldFacts DEF Encrypt, Seal, TypeOK, SealedInv, HasVictim
<1>21. ASSUME NEW t \in Threads, Remove(t)
      PROVE  SealedInv'
  BY <1>21, HeldFacts DEF Remove, Release, TypeOK, SealedInv, HasVictim
<1>22. ASSUME NEW t \in Threads, PushFree(t)
      PROVE  SealedInv'
  BY <1>22, HeldFacts DEF PushFree, GiveBack, TypeOK, SealedInv, HasVictim
<1>23. ASSUME NEW t \in Threads, NEW a \in Aptrs, NEW p \in Pages, NEW w \in BOOLEAN,
             Deref(t, a, p, w)
      PROVE  SealedInv'
  BY <1>23, HeldFacts DEF Deref, TypeOK, SealedInv, HasVictim
<1>24. ASSUME NEW t \in Threads, NEW a \in Aptrs, Reset(t, a)
      PROVE  SealedInv'
  BY <1>24, HeldFacts DEF Reset, DecRef, LockFree, TypeOK, SealedInv, HasVictim
<1> QED
  BY <1>1, <1>2, <1>3, <1>4, <1>5, <1>6, <1>7, <1>8, <1>9, <1>10, <1>11, <1>12, <1>13, <1>14, <1>15, <1>16, <1>17, <1>18, <1>19, <1>20, <1>21, <1>22, <1>23, <1>24, UsesAssumption DEF Next, Step, Start

\* Every step keeps the spointer of an access where its stage says.
LEMMA StageNext ==
  ASSUME CountsFit, IInv, Next
  PROVE  StageInv'
<1> USE DEF IInv, Goto, aptrVars, l1Vars, epcVars, llcVars, userVars
<1>1. ASSUME NEW t \in Threads, MarkDirty(t)
      PROVE  StageInv'
  BY <1>1, OpFacts, OwnerAssumption, FramesAssumption DEF MarkDirty, SetDirty, TypeOK, OpInv, StageInv, Faulting
<1>2. ASSUME NEW t \in Threads, Load(t)
      PROVE  StageInv'
  BY <1>2, OpFacts, OwnerAssumption, FramesAssumption DEF Load, TypeOK, OpInv, StageInv, Faulting
<1>3. ASSUME NEW t \in Threads, NEW v \in Values, Store(t, v)
      PROVE  StageInv'
  BY <1>3, OpFacts, OwnerAssumption, FramesAssumption DEF Store, TypeOK, OpInv, StageInv, Faulting
<1>4. ASSUME NEW t \in Threads, DecPrevPage(t)
      PROVE  StageInv'
  <2>1. op[t].aptr \in Aptrs /\ op[t].page \in Pages
    BY <1>4, OpFacts DEF DecPrevPage
  <2> SUFFICES ASSUME NEW u \in Threads PROVE StageInv!(u)'
    BY DEF StageInv
  <2>2. CASE u = t
    BY <1>4, <2>1, <2>2 DEF DecPrevPage, DecRef, TypeOK, StageInv, HeldInv, Evicting, Faulting
  <2>3. CASE u # t
    BY <1>4, <2>1, <2>3, OtherAptr, OpFacts, ZenonT(60) DEF DecPrevPage, DecRef, TypeOK, StageInv, Faulting
  <2> QED BY <2>2, <2>3
<1>5. ASSUME NEW t \in Threads, IncNewPage(t)
      PROVE  StageInv'
  <2>1. op[t].aptr \in Aptrs /\ op[t].page \in Pages
    BY <1>5, OpFacts DEF IncNewPage
  <2> SUFFICES ASSUME NEW u \in Threads PROVE StageInv!(u)'
    BY DEF StageInv
  <2>2. CASE u = t
    BY <1>5, <2>1, <2>2 DEF IncNewPage, IncRef, TypeOK, StageInv, HeldInv, Evicting, Faulting
  <2>3. CASE u # t
    BY <1>5, <2>1, <2>3, OtherAptr, OpFacts, ZenonT(60) DEF IncNewPage, IncRef, TypeOK, StageInv, Faulting
  <2> QED BY <2>2, <2>3
<1>6. ASSUME NEW t \in Threads, Get(t)
      PROVE  StageInv'
  BY <1>6, OpFacts, OwnerAssumption, FramesAssumption DEF Get, LockFree, TypeOK, OpInv, StageInv, Faulting
<1>7. ASSUME NEW t \in Threads, LinkMinor(t)
      PROVE  StageInv'
  <2>1. op[t].aptr \in Aptrs /\ op[t].page \in Pages
    BY <1>7, OpFacts DEF LinkMinor
  <2> SUFFICES ASSUME NEW u \in Threads PROVE StageInv!(u)'
    BY DEF StageInv
  <2>2. CASE u = t
    BY <1>7, <2>1, <2>2, FramesAssumption DEF LinkMinor, Linked, TypeOK, StageInv, HeldInv, Evicting, Faulting
  <2>3. CASE u # t
    BY <1>7, <2>1, <2>3, OtherAptr, OpFacts, ZenonT(60) DEF LinkMinor, Linked, TypeOK, StageInv, Faulting
  <2> QED BY <2>2, <2>3
<1>8. ASSUME NEW t \in Threads, CheckSize(t)
      PROVE  StageInv'
  BY <1>8, OpFacts, OwnerAssumption, FramesAssumption DEF CheckSize, TypeOK, OpInv, StageInv, Faulting
<1>9. ASSUME NEW t \in Threads, PopFree(t)
      PROVE  StageInv'
  BY <1>9, OpFacts, OwnerAssumption, FramesAssumption DEF PopFree, TypeOK, OpInv, StageInv, Faulting
<1>10. ASSUME NEW t \in Threads, LlcGet(t)
      PROVE  StageInv'
  BY <1>10, OpFacts, OwnerAssumption, FramesAssumption DEF LlcGet, TypeOK, OpInv, StageInv, Faulting
<1>11. ASSUME NEW t \in Threads, Decrypt(t)
      PROVE  StageInv'
  BY <1>11, OpFacts, OwnerAssumption, FramesAssumption DEF Decrypt, TypeOK, OpInv, StageInv, Faulting
<1>12. ASSUME NEW t \in Threads, TryAdd(t)
      PROVE  StageInv'
  <2>1. op[t].aptr \in Aptrs /\ op[t].page \in Pages
    BY <1>12, OpFacts DEF TryAdd
  <2> SUFFICES ASSUME NEW u \in Threads PROVE StageInv!(u)'
    BY DEF StageInv
  <2>2. CASE u = t
    BY <1>12, <2>1, <2>2 DEF TryAdd, Acquire, TypeOK, StageInv, HeldInv, Evicting, Faulting
  <2>3. CASE u # t
    BY <1>12, <2>1, <2>3, OtherAptr, OpFacts, HeldFacts, FramesAssumption DEF TryAdd, Acquire, TypeOK, StageInv, Faulting
  <2> QED BY <2>2, <2>3
<1>13. ASSUME NEW t \in Threads, Publish(t)
      PROVE  StageInv'
  <2>1. op[t].aptr \in Aptrs /\ op[t].page \in Pages
    BY <1>13, OpFacts DEF Publish
  <2> SUFFICES ASSUME NEW u \in Threads PROVE StageInv!(u)'
    BY DEF StageInv
  <2>2. CASE u = t
    BY <1>13, <2>1, <2>2, FramesAssumption DEF Publish, Linked, TypeOK, StageInv, HeldInv, Evicting, Faulting
  <2>3. CASE u # t
    BY <1>13, <2>1, <2>3, OtherAptr, OpFacts DEF Publish, Linked, TypeOK, StageInv, Faulting
  <2> QED BY <2>2, <2>3
<1>14. ASSUME NEW t \in Threads, GetFound(t)
      PROVE  StageInv'
  BY <1>14, OpFacts, OwnerAssumption, FramesAssumption DEF GetFound, LockFree, TypeOK, OpInv, StageInv, Faulting
<1>15. ASSUME NEW t \in Threads, PutBack(t)
      PROVE  StageInv'
  <2>1. op[t].aptr \in Aptrs /\ op[t].page \in Pages
    BY <1>15, OpFacts DEF PutBack
  <2> SUFFICES ASSUME NEW u \in Threads PROVE StageInv!(u)'
    BY DEF StageInv
  <2>2. CASE u = t
    BY <1>15, <2>1, <2>2, FramesAssumption DEF PutBack, Linked, TypeOK, StageInv, HeldInv, Evicting, Faulting
  <2>3. CASE u # t
    BY <1>15, <2>1, <2>3, OtherAptr, OpFacts, ZenonT(60) DEF PutBack, Linked, TypeOK, StageInv, Faulting
  <2> QED BY <2>2, <2>3
<1>16. ASSUME NEW t \in Threads, Dequeue(t)
      PROVE  StageInv'
  BY <1>16, OpFacts, OwnerAssumption, FramesAssumption DEF Dequeue, TypeOK, OpInv, StageInv, Faulting
<1>17. ASSUME NEW t \in Threads, Probe(t)
      PROVE  StageInv'
  BY <1>17, OpFacts, OwnerAssumption, FramesAssumption DEF Probe, LockFree, Pinned, Acquire, TypeOK, OpInv, StageInv, Faulting
<1>18. ASSUME NEW t \in Threads, Requeue(t)
      PROVE  StageInv'
  BY <1>18, OpFacts, OwnerAssumption, FramesAssumption DEF Requeue, Enqueue, TypeOK, OpInv, StageInv, Faulting
<1>19. ASSUME NEW t \in Threads, SwapOut(t)
      PROVE  StageInv'
  BY <1>19, OpFacts, OwnerAssumption, FramesAssumption DEF SwapOut, ClearDirty, TypeOK, OpInv, StageInv, Faulting
<1>20. ASSUME NEW t \in Threads, Encrypt(t)
      PROVE  StageInv'
  BY <1>20, OpFacts, OwnerAssumption, FramesAssumption DEF Encrypt, Seal, TypeOK, OpInv, StageInv, Faulting
<1>21. ASSUME NEW t \in Threads, Remove(t)
      PROVE  StageInv'
  <2>1. victim[t] \in Pages /\ ref[victim[t]] = 0
    BY <1>21, HeldFacts DEF Remove, HeldInv, HasVictim, Evicting
  <2>2. \A a \in Aptrs : page[a] # victim[t]
    BY <2>1, NoRefs
  <2> SUFFICES ASSUME NEW u \in Threads PROVE StageInv!(u)'
    BY DEF StageInv
  <2>3. CASE u = t
    BY <1>21, <2>3 DEF Remove, TypeOK, StageInv, Faulting
  <2>4. CASE u # t
    BY <1>21, <2>1, <2>2, <2>4, OpFacts, ZenonT(60) DEF Remove, TypeOK, StageInv, Faulting
  <2> QED BY <2>3, <2>4
<1>22. ASSUME NEW t \in Threads, PushFree(t)
      PROVE  StageInv'
  BY <1>22, OpFacts, OwnerAssumption, FramesAssumption DEF PushFree, GiveBack, TypeOK, OpInv, StageInv, Faulting
<1>23. ASSUME NEW t \in Threads, NEW a \in Aptrs, NEW p \in Pages, NEW w \in BOOLEAN,
             Deref(t, a, p, w)
      PROVE  StageInv'
  <2> SUFFICES ASSUME NEW u \in Threads PROVE StageInv!(u)'
    BY DEF StageInv
  <2>1. CASE u = t
    BY <1>23, <2>1, OwnerAssumption DEF Deref, TypeOK, StageInv, UnlinkedInv, Faulting
  <2>2. CASE u # t
    BY <1>23, <2>2, OpFacts DEF Deref, TypeOK, OpInv, StageInv, Faulting
  <2> QED BY <2>1, <2>2
<1>24. ASSUME NEW t \in Threads, NEW a \in Aptrs, Reset(t, a)
      PROVE  StageInv'
  <2> SUFFICES ASSUME NEW u \in Threads PROVE StageInv!(u)'
    BY DEF StageInv
  <2>1. CASE u = t
    BY <1>24, <2>1, OwnerAssumption DEF Reset, DecRef, TypeOK, StageInv, UnlinkedInv, Faulting
  <2>2. CASE u # t
    <3>1. pc[u] \notin {"idle", "abort"} => op[u].aptr \in Aptrs /\ op[u].aptr # a
      BY <1>24, <2>2, OpFacts DEF Reset, OpInv
    <3> QED BY <1>24, <2>2, <3>1 DEF Reset, TypeOK, StageInv, Faulting
  <2> QED BY <2>1, <2>2
<1> QED
  BY <1>1, <1>2, <1>3, <1>4, <1>5, <1>6, <1>7, <1>8, <1>9, <1>10, <1>11, <1>12, <1>13, <1>14, <1>15, <1>16, <1>17, <1>18, <1>19, <1>20, <1>21, <1>22, <1>23, <1>24, UsesAssumption DEF Next, Step, Start

\* Every step keeps spointers that are not linked to the faults in progress.
LEMMA UnlinkedNext == IInv /\ Next => UnlinkedInv'
<1> SUFFICES ASSUME IInv, Next PROVE UnlinkedInv'
  OBVIOUS
<1> USE DEF IInv, Goto, aptrVars, l1Vars, epcVars, llcVars, userVars
<1>1. ASSUME NEW t \in Threads, MarkDirty(t)
      PROVE  UnlinkedInv'
  BY <1>1, OpFacts, OwnerAssumption DEF MarkDirty, SetDirty, TypeOK, OpInv, UnlinkedInv, Faulting
<1>2. ASSUME NEW t \in Threads, Load(t)
      PROVE  UnlinkedInv'
  BY <1>2, OpFacts, OwnerAssumption DEF Load, TypeOK, OpInv, UnlinkedInv, Faulting
<1>3. ASSUME NEW t \in Threads, NEW v \in Values, Store(t, v)
      PROVE  UnlinkedInv'
  BY <1>3, OpFacts, OwnerAssumption DEF Store, TypeOK, OpInv, UnlinkedInv, Faulting
<1>4. ASSUME NEW t \in Threads, DecPrevPage(t)
      PROVE  UnlinkedInv'
  BY <1>4, OpFacts, OwnerAssumption DEF DecPrevPage, DecRef, LockFree, TypeOK, OpInv, UnlinkedInv, Faulting
<1>5. ASSUME NEW t \in Threads, IncNewPage(t)
      PROVE  UnlinkedInv'
  BY <1>5, OpFacts, OwnerAssumption DEF IncNewPage, IncRef, LockFree, TypeOK, OpInv, UnlinkedInv, Faulting
<1>6. ASSUME NEW t \in Threads, Get(t)
      PROVE  UnlinkedInv'
  BY <1>6, OpFacts, OwnerAssumption DEF Get, LockFree, TypeOK, OpInv, UnlinkedInv, Faulting
<1>7. ASSUME NEW t \in Threads, LinkMinor(t)
      PROVE  UnlinkedInv'
  <2>1. op[t].aptr \in Aptrs /\ op[t].page \in Pages
    BY <1>7, OpFacts DEF LinkMinor
  <2>2. pc'[t] = "abort" \/ prm'[op[t].aptr] # NoFrame
    BY <1>7, <2>1, FramesAssumption DEF LinkMinor, TypeOK, StageInv
  <2> SUFFICES ASSUME NEW a \in Aptrs PROVE UnlinkedInv!(a)'
    BY DEF UnlinkedInv
  <2>3. CASE Owner[a] = t
    BY <1>7, <2>1, <2>2, <2>3 DEF LinkMinor, Linked, TypeOK, UnlinkedInv, Faulting
  <2>4. CASE Owner[a] # t
    BY <1>7, <2>1, <2>4, OwnerAssumption, ZenonT(60) DEF LinkMinor, Linked, TypeOK, OpInv, UnlinkedInv, Faulting
  <2> QED BY <2>3, <2>4
<1>8. ASSUME NEW t \in Threads, CheckSize(t)
      PROVE  UnlinkedInv'
  BY <1>8, OpFacts, OwnerAssumption DEF CheckSize, TypeOK, OpInv, UnlinkedInv, Faulting
<1>9. ASSUME NEW t \in Threads, PopFree(t)
      PROVE  UnlinkedInv'
  BY <1>9, OpFacts, OwnerAssumption DEF PopFree, TypeOK, OpInv, UnlinkedInv, Faulting
<1>10. ASSUME NEW t \in Threads, LlcGet(t)
      PROVE  UnlinkedInv'
  BY <1>10, OpFacts, OwnerAssumption DEF LlcGet, TypeOK, OpInv, UnlinkedInv, Faulting
<1>11. ASSUME NEW t \in Threads, Decrypt(t)
      PROVE  UnlinkedInv'
  BY <1>11, OpFacts, OwnerAssumption DEF Decrypt, TypeOK, OpInv, UnlinkedInv, Faulting
<1>12. ASSUME NEW t \in Threads, TryAdd(t)
      PROVE  UnlinkedInv'
  BY <1>12, OpFacts, OwnerAssumption DEF TryAdd, LockFree, Acquire, TypeOK, OpInv, UnlinkedInv, Faulting
<1>13. ASSUME NEW t \in Threads, Publish(t)
      PROVE  UnlinkedInv'
  <2>1. op[t].aptr \in Aptrs /\ op[t].page \in Pages
    BY <1>13, OpFacts DEF Publish
  <2>2. pc'[t] = "abort" \/ prm'[op[t].aptr] # NoFrame
    BY <1>13, <2>1, FramesAssumption, HeldFacts DEF Publish, TypeOK, StageInv
  <2> SUFFICES ASSUME NEW a \in Aptrs PROVE UnlinkedInv!(a)'
    BY DEF UnlinkedInv
  <2>3. CASE Owner[a] = t
    BY <1>13, <2>1, <2>2, <2>3 DEF Publish, Linked, TypeOK, UnlinkedInv, Faulting
  <2>4. CASE Owner[a] # t
    <3>1. a # op[t].aptr /\ Owner[a] \in Threads
      BY <1>13, <2>4, OwnerAssumption DEF Publish, OpInv
    <3>2. /\ prm'[a] = prm[a] /\ page' = page /\ op' = op
          /\ pc'[Owner[a]] = pc[Owner[a]]
      BY <1>13, <2>1, <2>4, <3>1 DEF Publish, TypeOK
    <3> QED BY <3>2 DEF UnlinkedInv
  <2> QED BY <2>3, <2>4
<1>14. ASSUME NEW t \in Threads, GetFound(t)
      PROVE  UnlinkedInv'
  BY <1>14, OpFacts, OwnerAssumption DEF GetFound, LockFree, TypeOK, OpInv, UnlinkedInv, Faulting
<1>15. ASSUME NEW t \in Threads, PutBack(t)
      PROVE  UnlinkedInv'
  <2>1. op[t].aptr \in Aptrs /\ op[t].page \in Pages
    BY <1>15, OpFacts DEF PutBack
  <2>2. pc'[t] = "abort" \/ prm'[op[t].aptr] # NoFrame
    BY <1>15, <2>1, FramesAssumption DEF PutBack, TypeOK, StageInv
  <2> SUFFICES ASSUME NEW a \in Aptrs PROVE UnlinkedInv!(a)'
    BY DEF UnlinkedInv
  <2>3. CASE Owner[a] = t
    BY <1>15, <2>1, <2>2, <2>3 DEF PutBack, Linked, TypeOK, UnlinkedInv, Faulting
  <2>4. CASE Owner[a] # t
    BY <1>15, <2>1, <2>4, OwnerAssumption, ZenonT(60) DEF PutBack, Linked, TypeOK, OpInv, UnlinkedInv, Faulting
  <2> QED BY <2>3, <2>4
<1>16. ASSUME NEW t \in Threads, Dequeue(t)
      PROVE  UnlinkedInv'
  BY <1>16, OpFacts, OwnerAssumption DEF Dequeue, TypeOK, OpInv, UnlinkedInv, Faulting
<1>17. ASSUME NEW t \in Threads, Probe(t)
      PROVE  UnlinkedInv'
  BY <1>17, OpFacts, OwnerAssumption DEF Probe, LockFree, Pinned, Acquire, TypeOK, OpInv, UnlinkedInv, Faulting
<1>18. ASSUME NEW t \in Threads, Requeue(t)
      PROVE  UnlinkedInv'
  BY <1>18, OpFacts, OwnerAssumption DEF Requeue, Enqueue, TypeOK, OpInv, UnlinkedInv, Faulting
<1>19. ASSUME NEW t \in Threads, SwapOut(t)
      PROVE  UnlinkedInv'
  BY <1>19, OpFacts, OwnerAssumption DEF SwapOut, ClearDirty, TypeOK, OpInv, UnlinkedInv, Faulting
<1>20. ASSUME NEW t \in Threads, Encrypt(t)
      PROVE  UnlinkedInv'
  BY <1>20, OpFacts, OwnerAssumption DEF Encrypt, Seal, TypeOK, OpInv, UnlinkedInv, Faulting
<1>21. ASSUME NEW t \in Threads, Remove(t)
      PROVE  UnlinkedInv'
  BY <1>21, OpFacts, OwnerAssumption DEF Remove, Release, TypeOK, OpInv, UnlinkedInv, Faulting
<1>22. ASSUME NEW t \in Threads, PushFree(t)
      PROVE  UnlinkedInv'
  BY <1>22, OpFacts, OwnerAssumption DEF PushFree, GiveBack, TypeOK, OpInv, UnlinkedInv, Faulting
<1>23. ASSUME NEW t \in Threads, NEW a \in Aptrs, NEW p \in Pages, NEW w \in BOOLEAN,
             Deref(t, a, p, w)
      PROVE  UnlinkedInv'
  BY <1>23, OpFacts, OwnerAssumption DEF Deref, TypeOK, OpInv, UnlinkedInv, Faulting
<1>24. ASSUME NEW t \in Threads, NEW a \in Aptrs, Reset(t, a)
      PROVE  UnlinkedInv'
  BY <1>24, OpFacts, OwnerAssumption DEF Reset, DecRef, LockFree, TypeOK, OpInv, UnlinkedInv, Faulting
<1> QED
  BY <1>1, <1>2, <1>3, <1>4, <1>5, <1>6, <1>7, <1>8, <1>9, <1>10, <1>11, <1>12, <1>13, <1>14, <1>15, <1>16, <1>17, <1>18, <1>19, <1>20, <1>21, <1>22, <1>23, <1>24, UsesAssumption DEF Next, Step, Start

\* Every step keeps the frame of a linked spointer its page's.
LEMMA LinkedNext ==
  ASSUME CountsFit, IInv, Next
  PROVE  LinkedInv'
<1> USE DEF IInv, Goto, aptrVars, l1Vars, epcVars, llcVars, userVars
<1>1. ASSUME NEW t \in Threads, MarkDirty(t)
      PROVE  LinkedInv'
  BY <1>1, OpFacts, HeldFacts, PagesAssumption DEF MarkDirty, SetDirty, TypeOK, OpInv, StageInv, LinkedInv, Faulting
<1>2. ASSUME NEW t \in Threads, Load(t)
      PROVE  LinkedInv'
  BY <1>2, OpFacts, HeldFacts, PagesAssumption DEF Load, TypeOK, OpInv, StageInv, LinkedInv, Faulting
<1>3. ASSUME NEW t \in Threads, NEW v \in Values, Store(t, v)
      PROVE  LinkedInv'
  BY <1>3, OpFacts, HeldFacts, PagesAssumption DEF Store, TypeOK, OpInv, StageInv, LinkedInv, Faulting
<1>4. ASSUME NEW t \in Threads, DecPrevPage(t)
      PROVE  LinkedInv'
  BY <1>4, OpFacts, HeldFacts, PagesAssumption DEF DecPrevPage, DecRef, LockFree, TypeOK, OpInv, StageInv, LinkedInv, Faulting
<1>5. ASSUME NEW t \in Threads, IncNewPage(t)
      PROVE  LinkedInv'
  BY <1>5, OpFacts, HeldFacts, PagesAssumption DEF IncNewPage, IncRef, LockFree, TypeOK, OpInv, StageInv, LinkedInv, Faulting
<1>6. ASSUME NEW t \in Threads, Get(t)
      PROVE  LinkedInv'
  BY <1>6, OpFacts, HeldFacts, PagesAssumption DEF Get, LockFree, TypeOK, OpInv, StageInv, LinkedInv, Faulting
<1>7. ASSUME NEW t \in Threads, LinkMinor(t)
      PROVE  LinkedInv'
  BY <1>7, OpFacts, HeldFacts, PagesAssumption DEF LinkMinor, Linked, TypeOK, OpInv, StageInv, LinkedInv, Faulting
<1>8. ASSUME NEW t \in Threads, CheckSize(t)
      PROVE  LinkedInv'
  BY <1>8, OpFacts, HeldFacts, PagesAssumption DEF CheckSize, TypeOK, OpInv, StageInv, LinkedInv, Faulting
<1>9. ASSUME NEW t \in Threads, PopFree(t)
      PROVE  LinkedInv'
  BY <1>9, OpFacts, HeldFacts, PagesAssumption DEF PopFree, TypeOK, OpInv, StageInv, LinkedInv, Faulting
<1>10. ASSUME NEW t \in Threads, LlcGet(t)
      PROVE  LinkedInv'
  BY <1>10, OpFacts, HeldFacts, PagesAssumption DEF LlcGet, TypeOK, OpInv, StageInv, LinkedInv, Faulting
<1>11. ASSUME NEW t \in Threads, Decrypt(t)
      PROVE  LinkedInv'
  BY <1>11, OpFacts, HeldFacts, PagesAssumption DEF Decrypt, TypeOK, OpInv, StageInv, LinkedInv, Faulting
<1>12. ASSUME NEW t \in Threads, TryAdd(t)
      PROVE  LinkedInv'
  BY <1>12, OpFacts, HeldFacts, PagesAssumption DEF TryAdd, LockFree, Acquire, TypeOK, OpInv, StageInv, LinkedInv, Faulting
<1>13. ASSUME NEW t \in Threads, Publish(t)
      PROVE  LinkedInv'
  <2>1. op[t].aptr \in Aptrs /\ op[t].page \in Pages
    BY <1>13, OpFacts DEF Publish
  <2>2. page[op[t].aptr] = op[t].page /\ cache[op[t].page] = held[t]
    BY <1>13 DEF Publish, StageInv, HeldInv, Faulting
  <2> QED BY <1>13, <2>1, <2>2 DEF Publish, TypeOK, LinkedInv
<1>14. ASSUME NEW t \in Threads, GetFound(t)
      PROVE  LinkedInv'
  BY <1>14, OpFacts, HeldFacts, PagesAssumption DEF GetFound, LockFree, TypeOK, OpInv, StageInv, LinkedInv, Faulting
<1>15. ASSUME NEW t \in Threads, PutBack(t)
      PROVE  LinkedInv'
  <2>1. op[t].aptr \in Aptrs /\ op[t].page \in Pages
    BY <1>15, OpFacts DEF PutBack
  <2>2. page[op[t].aptr] = op[t].page
    BY <1>15 DEF PutBack, StageInv, Faulting
  <2> QED BY <1>15, <2>1, <2>2 DEF PutBack, TypeOK, LinkedInv
<1>16. ASSUME NEW t \in Threads, Dequeue(t)
      PROVE  LinkedInv'
  BY <1>16, OpFacts, HeldFacts, PagesAssumption DEF Dequeue, TypeOK, OpInv, StageInv, LinkedInv, Faulting
<1>17. ASSUME NEW t \in Threads, Probe(t)
      PROVE  LinkedInv'
  BY <1>17, OpFacts, HeldFacts, PagesAssumption DEF Probe, LockFree, Pinned, Acquire, TypeOK, OpInv, StageInv, LinkedInv, Faulting
<1>18. ASSUME NEW t \in Threads, Requeue(t)
      PROVE  LinkedInv'
  BY <1>18, OpFacts, HeldFacts, PagesAssumption DEF Requeue, Enqueue, TypeOK, OpInv, StageInv, LinkedInv, Faulting
<1>19. ASSUME NEW t \in Threads, SwapOut(t)
      PROVE  LinkedInv'
  BY <1>19, OpFacts, HeldFacts, PagesAssumption DEF SwapOut, ClearDirty, TypeOK, OpInv, StageInv, LinkedInv, Faulting
<1>20. ASSUME NEW t \in Threads, Encrypt(t)
      PROVE  LinkedInv'
  BY <1>20, OpFacts, HeldFacts, PagesAssumption DEF Encrypt, Seal, TypeOK, OpInv, StageInv, LinkedInv, Faulting
<1>21. ASSUME NEW t \in Threads, Remove(t)
      PROVE  LinkedInv'
  <2>1. victim[t] \in Pages /\ ref[victim[t]] = 0
    BY <1>21, HeldFacts DEF Remove, HeldInv, HasVictim, Evicting
  <2>2. \A a \in Aptrs : page[a] # victim[t]
    BY <2>1, NoRefs
  <2> QED BY <1>21, <2>1, <2>2 DEF Remove, TypeOK, LinkedInv
<1>22. ASSUME NEW t \in Threads, PushFree(t)
      PROVE  LinkedInv'
  BY <1>22, OpFacts, HeldFacts, PagesAssumption DEF PushFree, GiveBack, TypeOK, OpInv, StageInv, LinkedInv, Faulting
<1>23. ASSUME NEW t \in Threads, NEW a \in Aptrs, NEW p \in Pages, NEW w \in BOOLEAN,
             Deref(t, a, p, w)
      PROVE  LinkedInv'
  BY <1>23, OpFacts, HeldFacts, PagesAssumption DEF Deref, TypeOK, OpInv, StageInv, LinkedInv, Faulting
<1>24. ASSUME NEW t \in Threads, NEW a \in Aptrs, Reset(t, a)
      PROVE  LinkedInv'
  BY <1>24, OpFacts, HeldFacts, PagesAssumption DEF Reset, DecRef, LockFree, TypeOK, OpInv, StageInv, LinkedInv, Faulting
<1> QED
  BY <1>1, <1>2, <1>3, <1>4, <1>5, <1>6, <1>7, <1>8, <1>9, <1>10, <1>11, <1>12, <1>13, <1>14, <1>15, <1>16, <1>17, <1>18, <1>19, <1>20, <1>21, <1>22, <1>23, <1>24, UsesAssumption DEF Next, Step, Start

\* A spointer that moves onto page p and counts itself in keeps counts exact.
LEMMA RefTaken ==
  ASSUME CountsFit, TypeOK, RefInv, NEW a \in Aptrs, NEW p \in Pages,
         page[a] = NoPage, IncRef(p), page' = [page EXCEPT ![a] = p]
  PROVE  RefInv'
<1>1. Refs(p)' = Refs(p) \cup {a} /\ a \notin Refs(p)
  BY PagesAssumption DEF Refs, TypeOK
<1>2. Cardinality(Refs(p)') = Cardinality(Refs(p)) + 1
  BY <1>1, RefsFinite, FS_AddElement
<1>3. Cardinality(Refs(p)) + 1 <= Cardinality(Aptrs)
  <2>1. Refs(p)' \subseteq Aptrs
    BY DEF Refs
  <2> QED BY <1>2, <2>1, FS_Subset DEF CountsFit
<1>4. ref'[p] = Cardinality(Refs(p)) + 1
  <2>1. Cardinality(Refs(p)) + 1 \in 0 .. RefMod - 1
    BY <1>3, RefsFinite, SizesAssumption, FS_CardinalityType DEF CountsFit
  <2>2. (Cardinality(Refs(p)) + 1) % RefMod = Cardinality(Refs(p)) + 1
    BY <2>1, ModIdentity, SizesAssumption
  <2> QED BY <2>2 DEF IncRef, RefInv, TypeOK
<1>5. ASSUME NEW q \in Pages, q # p
      PROVE  ref'[q] = Cardinality(Refs(q)')
  <2>1. Refs(q)' = Refs(q)
    BY <1>5, PagesAssumption DEF Refs, TypeOK
  <2> QED BY <1>5, <2>1 DEF IncRef, RefInv, TypeOK
<1> QED BY <1>2, <1>4, <1>5 DEF RefInv

\* So does one that leaves page p and counts itself out.
LEMMA RefDropped ==
  ASSUME CountsFit, TypeOK, RefInv, NEW a \in Aptrs, NEW p \in Pages,
         page[a] = p, DecRef(p), page' = [page EXCEPT ![a] = NoPage]
  PROVE  RefInv'
<1>1. Refs(p)' = Refs(p) \ {a} /\ a \in Refs(p)
  BY PagesAssumption DEF Refs, TypeOK
<1>2. Cardinality(Refs(p)') = Cardinality(Refs(p)) - 1
  BY <1>1, RefsFinite, FS_RemoveElement
<1>3. Cardinality(Refs(p)) - 1 \in 0 .. RefMod - 1
  <2>1. Cardinality(Refs(p)) # 0
    BY <1>1, RefsFinite, FS_EmptySet
  <2> QED BY <2>1, RefsFinite, SizesAssumption, FS_CardinalityType DEF CountsFit
<1>4. ref'[p] = Cardinality(Refs(p)) - 1
  <2>1. ((Cardinality(Refs(p)) - 1) + RefMod) % RefMod = Cardinality(Refs(p)) - 1
    BY <1>3, ModIdentity, SizesAssumption
  <2>2. (Cardinality(Refs(p)) - 1) + RefMod = Cardinality(Refs(p)) + RefMod - 1
    BY RefsFinite, SizesAssumption
  <2> QED BY <2>1, <2>2 DEF DecRef, RefInv, TypeOK
<1>5. ASSUME NEW q \in Pages, q # p
      PROVE  ref'[q] = Cardinality(Refs(q)')
  <2>1. Refs(q)' = Refs(q)
    BY <1>5, PagesAssumption DEF Refs, TypeOK
  <2> QED BY <1>5, <2>1 DEF DecRef, RefInv, TypeOK
<1> QED BY <1>2, <1>4, <1>5 DEF RefInv

\* Every step keeps the counts exact.
LEMMA RefNext ==
  ASSUME CountsFit, IInv, Next
  PROVE  RefInv'
<1> USE DEF IInv
<1>1. ASSUME NEW t \in Threads, DecPrevPage(t)
      PROVE  RefInv'
  <2>1. op[t].aptr \in Aptrs /\ page[op[t].aptr] \in Pages
    BY <1>1, OpFacts DEF DecPrevPage, StageInv, LinkedInv
  <2> QED BY <1>1, <2>1, RefDropped DEF DecPrevPage
<1>2. ASSUME NEW t \in Threads, IncNewPage(t)
      PROVE  RefInv'
  <2>1. op[t].aptr \in Aptrs /\ op[t].page \in Pages /\ page[op[t].aptr] = NoPage
    BY <1>2, OpFacts DEF IncNewPage, StageInv
  <2> QED BY <1>2, <2>1, RefTaken DEF IncNewPage
<1>3. ASSUME NEW t \in Threads, NEW a \in Aptrs, Reset(t, a)
      PROVE  RefInv'
  <2>1. page[a] \in Pages
    BY <1>3 DEF Reset, LinkedInv
  <2> QED BY <1>3, <2>1, RefDropped DEF Reset
<1>4. CASE UNCHANGED <<page, ref>>
  BY <1>4 DEF RefInv, Refs
<1>5. ASSUME NEW t \in Threads, Step(t), ~DecPrevPage(t), ~IncNewPage(t)
      PROVE  UNCHANGED <<page, ref>>
  BY <1>5 DEF Step, aptrVars, l1Vars, MarkDirty, Load, Store, Get, LinkMinor, CheckSize, PopFree, LlcGet, Decrypt, TryAdd, Publish, GetFound, PutBack, Dequeue, Probe, Requeue, SwapOut, Encrypt, Remove, PushFree
<1>6. ASSUME NEW t \in Threads, Start(t), ~\E a \in Aptrs : Reset(t, a)
      PROVE  UNCHANGED <<page, ref>>
  BY <1>6 DEF Start, Deref, aptrVars, l1Vars
<1> QED BY <1>1, <1>2, <1>3, <1>4, <1>5, <1>6 DEF Next

-----------------------------------------------------------------------------
\* The invariant holds initially.
LEMMA InitInv == Init => IInv
<1> SUFFICES ASSUME Init PROVE IInv
  OBVIOUS
<1>1. TypeOK
  BY SizesAssumption, PagesAssumption DEF Init, TypeOK, PCs
<1>2. RefInv
  <2>1. \A p \in Pages : Refs(p) = {}
    BY PagesAssumption DEF Init, Refs
  <2> QED BY <2>1, FS_EmptySet DEF Init, RefInv
<1> QED
  BY <1>1, <1>2 DEF Init, IInv, OpInv, HeldInv, SealedInv, StageInv, UnlinkedInv,
     LinkedInv, HasVictim, Evicting, Faulting

\* The invariant is inductive.
LEMMA NextInv ==
  ASSUME CountsFit, IInv, [Next]_vars
  PROVE  IInv'
<1>1. CASE Next
  BY <1>1, TypeNext, OpNext, HeldNext, SealedNext, StageNext, UnlinkedNext, LinkedNext,
     RefNext DEF IInv
<1>2. CASE UNCHANGED vars
  BY <1>2 DEF vars, aptrVars, l1Vars, epcVars, llcVars, userVars, IInv, TypeOK, OpInv, HeldInv,
     SealedInv, StageInv, UnlinkedInv, LinkedInv, RefInv, Refs
<1> QED BY <1>1, <1>2

\* The invariant holds always.
LEMMA Invariance ==
  ASSUME CountsFit
  PROVE  Spec => []IInv
  BY InitInv, NextInv, PTL DEF Spec

\* As long as no count can wrap, every variable of the paging state keeps its
\* type; in particular no load goes through a frame that a spointer lost.
THEOREM Typing ==
  ASSUME CountsFit
  PROVE  Spec => []TypeOK
  BY Invariance, PTL DEF IInv

\* As long as no count can wrap, a page is never evicted, nor its frame given to
\* another page, while a spointer is linked to it: the claim of the comment at
\* inc_ref_count in page_fault, for any number of threads.
THEOREM Pinning ==
  ASSUME CountsFit
  PROVE  Spec => []PinnedStaysCached
<1>1. IInv => PinnedStaysCached
  BY DEF IInv, StageInv, LinkedInv, PinnedStaysCached
<1> QED BY <1>1, Invariance, PTL

\* As long as no count can wrap, counts are exact: no path through page_fault,
\* operator= or the destructor leaks a reference or drops one twice.
THEOREM ExactCounts ==
  ASSUME CountsFit
  PROVE  Spec => []RefCountExact
<1>1. IInv => RefCountExact
  <2> SUFFICES ASSUME IInv, NEW p \in Pages
               PROVE  ref[p] = Cardinality({a \in Aptrs : page[a] = p}) % RefMod
    BY DEF RefCountExact
  <2>1. ref[p] \in 0 .. RefMod - 1 /\ ref[p] = Cardinality({a \in Aptrs : page[a] = p})
    BY DEF IInv, TypeOK, RefInv, Refs
  <2> QED BY <2>1, ModIdentity, SizesAssumption
<1> QED BY <1>1, Invariance, PTL

-----------------------------------------------------------------------------
(***************************************************************************)
(* Part 2.  Frames and pages: the inductive invariant                      *)
(***************************************************************************)

\* Two pages never share a frame, nor do two threads, nor a page and a thread,
\* and none of them has a free frame; and no frame is in none of these places.
FrameInv ==
  /\ \A p, q \in Pages : cache[p] # NoFrame /\ cache[p] = cache[q] => p = q
  /\ \A t, u \in Threads : InTransit(t) /\ InTransit(u) /\ held[t] = held[u] => t = u
  /\ \A t \in Threads, p \in Pages : InTransit(t) => cache[p] # held[t]
  /\ \A t \in Threads : InTransit(t) => held[t] \notin free
  /\ \A p \in Pages : cache[p] \notin free
  /\ \A f \in Frames : \/ f \in free
                       \/ \E p \in Pages : cache[p] = f
                       \/ \E t \in Threads : InTransit(t) /\ held[t] = f

\* A crypto cache entry is out of step with the backing store only while a
\* thread encrypts its page, and a thread decrypts only pages that have one.
MacInv ==
  /\ \A p \in Pages : mac[p] = "pending" =>
       \E t \in Threads : pc[t] = "encrypt" /\ victim[t] = p
  /\ \A t \in Threads : pc[t] = "decrypt" => mac[op[t].page] # "none"

\* A page is in at most one entry of the queue or in the hands of one thread,
\* never both; it is in one of them if it is cached and in none if it is not.
QueueInv ==
  /\ \A i, j \in DOMAIN used : used[i] = used[j] => i = j
  /\ \A t, u \in Threads, p \in Pages : InHand(t, p) /\ InHand(u, p) => t = u
  /\ \A i \in DOMAIN used, t \in Threads : ~InHand(t, used[i])
  /\ \A i \in DOMAIN used : cache[used[i]] # NoFrame
  /\ \A t \in Threads, p \in Pages : InHand(t, p) => cache[p] # NoFrame
  /\ \A p \in Pages : cache[p] # NoFrame =>
       \/ \E i \in DOMAIN used : used[i] = p
       \/ \E t \in Threads : InHand(t, p)

\* A frame is cleaned before its page leaves the cache.
DirtyInv ==
  /\ \A f \in Frames : dirty[f] => \E p \in Pages : cache[p] = f
  /\ \A t \in Threads : pc[t] \in {"encrypt", "remove"} => ~dirty[held[t]]

FInv == FrameInv /\ MacInv /\ QueueInv /\ DirtyInv

-----------------------------------------------------------------------------
\* A page that a spointer stands on is not the one that a thread evicts.
LEMMA NotEvicted ==
  ASSUME CountsFit, IInv, NEW a \in Aptrs, NEW u \in Threads, pc[u] \in Evicting
  PROVE  page[a] # victim[u]
<1>1. victim[u] \in Pages /\ ref[victim[u]] = 0
  BY HeldFacts DEF IInv, HeldInv, Evicting, HasVictim
<1> QED BY <1>1, NoRefs DEF IInv

\* Neither is the page that a thread faults in.
LEMMA FaultNotEvicted ==
  ASSUME CountsFit, IInv, NEW t \in Threads, NEW u \in Threads,
         pc[t] \in Faulting, pc[u] \in Evicting
  PROVE  op[t].page # victim[u]
<1>1. op[t].aptr \in Aptrs /\ page[op[t].aptr] = op[t].page
  BY OpFacts DEF IInv, StageInv, Faulting
<1> QED BY <1>1, NotEvicted

\* A step of a thread leaves what the others hold to them.
LEMMA OneMoves ==
  ASSUME TypeOK, NEW t \in Threads, Step(t) \/ Start(t), NEW u \in Threads, u # t
  PROVE  pc'[u] = pc[u] /\ op'[u] = op[u] /\ victim'[u] = victim[u] /\ held'[u] = held[u]
<1> USE DEF Goto, TypeOK
<1>1. CASE Start(t)
  BY <1>1 DEF Start, Deref, Reset
<1>2. CASE MarkDirty(t) \/ Load(t) \/ (\E v \in Values : Store(t, v)) \/ DecPrevPage(t)
            \/ IncNewPage(t) \/ Get(t) \/ LinkMinor(t) \/ CheckSize(t)
  BY <1>2 DEF MarkDirty, Load, Store, DecPrevPage, IncNewPage, Get, LinkMinor, CheckSize
<1>3. CASE PopFree(t) \/ LlcGet(t) \/ Decrypt(t) \/ TryAdd(t) \/ Publish(t) \/ GetFound(t)
            \/ PutBack(t)
  BY <1>3 DEF PopFree, LlcGet, Decrypt, TryAdd, Publish, GetFound, PutBack
<1>4. CASE Dequeue(t) \/ Probe(t) \/ Requeue(t) \/ SwapOut(t) \/ Encrypt(t) \/ Remove(t)
            \/ PushFree(t)
  BY <1>4 DEF Dequeue, Probe, Requeue, SwapOut, Encrypt, Remove, PushFree
<1> QED BY <1>1, <1>2, <1>3, <1>4 DEF Step

\* A page that is decrypted matches its crypto cache entry.
LEMMA Authentic ==
  ASSUME CountsFit, IInv, MacInv, NEW t \in Threads, pc[t] = "decrypt"
  PROVE  mac[op[t].page] = "valid"
<1>1. op[t].page \in Pages
  BY OpFacts DEF IInv
<1>2. mac[op[t].page] # "pending"
  <2>1. ASSUME NEW u \in Threads, pc[u] = "encrypt", victim[u] = op[t].page
        PROVE  FALSE
    BY <2>1, FaultNotEvicted DEF Faulting, Evicting
  <2> QED BY <1>1, <2>1 DEF MacInv
<1> QED BY <1>1, <1>2 DEF MacInv, IInv, TypeOK

-----------------------------------------------------------------------------
(***************************************************************************)
(* Frames                                                                  *)
(***************************************************************************)

\* A step that moves no frame.
LEMMA FramesQuiet ==
  ASSUME FrameInv, UNCHANGED <<cache, free>>,
         \A u \in Threads : InTransit(u)' <=> InTransit(u),
         \A u \in Threads : InTransit(u) => held'[u] = held[u]
  PROVE  FrameInv'
  BY DEF FrameInv

\* The steps that move one.
MovesFrame(t) == \/ PopFree(t) \/ TryAdd(t) \/ PutBack(t) \/ Remove(t) \/ PushFree(t)

\* Steps that are not among those that move a frame leave all frames where they are.
LEMMA OtherStepsQuiet ==
  ASSUME CountsFit, IInv, FInv, NEW t \in Threads, Step(t), ~MovesFrame(t)
  PROVE  /\ UNCHANGED <<cache, free>>
         /\ \A u \in Threads : InTransit(u)' <=> InTransit(u)
         /\ \A u \in Threads : InTransit(u) => held'[u] = held[u]
<1> USE DEF InTransit, Goto, aptrVars, l1Vars, epcVars, IInv, TypeOK
<1>1. CASE MarkDirty(t) \/ Load(t) \/ (\E v \in Values : Store(t, v)) \/ DecPrevPage(t)
            \/ IncNewPage(t) \/ Get(t) \/ LinkMinor(t) \/ CheckSize(t)
  BY <1>1 DEF MarkDirty, Load, Store, DecPrevPage, IncNewPage, Get, LinkMinor, CheckSize, Linked
<1>2. CASE LlcGet(t) \/ Dequeue(t) \/ Requeue(t) \/ SwapOut(t) \/ Encrypt(t)
  BY <1>2 DEF LlcGet, Dequeue, Requeue, SwapOut, Encrypt
<1>3. CASE Decrypt(t)
  BY <1>3, Authentic DEF Decrypt, FInv
<1>4. CASE GetFound(t)
  BY <1>4 DEF GetFound, StageInv
<1>5. CASE Publish(t)
  BY <1>5 DEF Publish, Linked
<1>6. CASE Probe(t)
  BY <1>6 DEF Probe
<1> QED BY <1>1, <1>2, <1>3, <1>4, <1>5, <1>6 DEF Step, MovesFrame

\* Every step keeps the frames apart.
LEMMA FrameNext ==
  ASSUME CountsFit, IInv, FInv, Next
  PROVE  FrameInv'
<1> USE DEF FInv, IInv
<1>1. ASSUME NEW t \in Threads, PopFree(t)
      PROVE  FrameInv'
  <2>1. CASE free = {}
    BY <1>1, <2>1, FramesQuiet DEF PopFree, InTransit, Goto, TypeOK, l1Vars
  <2>2. CASE free # {}
    <3>1. PICK f \in free : /\ free' = free \ {f} /\ held' = [held EXCEPT ![t] = f]
                            /\ pc' = [pc EXCEPT ![t] = "llcget"]
      BY <1>1, <2>2 DEF PopFree, Goto
    <3>2. cache' = cache /\ ~InTransit(t) /\ f \in Frames
      BY <1>1 DEF PopFree, InTransit, TypeOK, l1Vars
    <3>3. /\ InTransit(t)' /\ held'[t] = f
          /\ \A u \in Threads : u # t => (InTransit(u)' <=> InTransit(u)) /\ held'[u] = held[u]
      BY <3>1 DEF InTransit, TypeOK
    <3> QED BY <3>1, <3>2, <3>3 DEF FrameInv
  <2> QED BY <2>1, <2>2
<1>2. ASSUME NEW t \in Threads, TryAdd(t)
      PROVE  FrameInv'
  <2>1. op[t].page \in Pages /\ held[t] \in Frames /\ InTransit(t)
    BY <1>2, OpFacts, HeldFacts DEF TryAdd, InTransit
  <2>2. CASE cache[op[t].page] = NoFrame
    <3>1. free' = free /\ held' = held /\ ~InTransit(t)'
          /\ \A u \in Threads : u # t => (InTransit(u)' <=> InTransit(u))
      BY <1>2, <2>2 DEF TryAdd, InTransit, Goto, TypeOK, epcVars
    <3>2. cache'[op[t].page] = held[t] /\ \A q \in Pages : q # op[t].page => cache'[q] = cache[q]
      BY <1>2, <2>1, <2>2 DEF TryAdd, TypeOK
    <3>3. ASSUME NEW f \in Frames
          PROVE  \/ f \in free'
                 \/ \E p \in Pages : cache'[p] = f
                 \/ \E u \in Threads : InTransit(u)' /\ held'[u] = f
      <4>1. CASE \E u \in Threads : InTransit(u) /\ held[u] = f
        BY <4>1, <3>1, <3>2, <2>1
      <4>2. CASE \E p \in Pages : cache[p] = f
        BY <4>2, <3>2, <2>2, FramesAssumption
      <4> QED BY <4>1, <4>2, <3>1 DEF FrameInv
    <3> QED BY <2>1, <3>1, <3>2, <3>3 DEF FrameInv
  <2>3. CASE cache[op[t].page] # NoFrame
    BY <1>2, <2>3, FramesQuiet DEF TryAdd, InTransit, Goto, TypeOK, epcVars
  <2> QED BY <2>2, <2>3
<1>3. ASSUME NEW t \in Threads, PutBack(t) \/ PushFree(t)
      PROVE  FrameInv'
  <2>1. held[t] \in Frames /\ InTransit(t)
    BY <1>3, HeldFacts DEF PutBack, PushFree, InTransit
  <2>2. /\ cache' = cache /\ free' = free \cup {held[t]} /\ ~InTransit(t)'
        /\ \A u \in Threads : u # t => (InTransit(u)' <=> InTransit(u)) /\ held'[u] = held[u]
    BY <1>3 DEF PutBack, PushFree, GiveBack, InTransit, Goto, Linked, TypeOK, l1Vars
  <2>3. ASSUME NEW f \in Frames
        PROVE  \/ f \in free'
               \/ \E p \in Pages : cache'[p] = f
               \/ \E u \in Threads : InTransit(u)' /\ held'[u] = f
    <3>1. CASE f = held[t]
      BY <2>2, <3>1
    <3>2. CASE f \in free \/ \E p \in Pages : cache[p] = f
      BY <2>2, <3>2
    <3>3. CASE f # held[t] /\ \E u \in Threads : InTransit(u) /\ held[u] = f
      BY <2>2, <3>3
    <3> QED BY <3>1, <3>2, <3>3 DEF FrameInv
  <2> QED BY <2>1, <2>2, <2>3 DEF FrameInv
<1>4. ASSUME NEW t \in Threads, Remove(t)
      PROVE  FrameInv'
  <2>1. victim[t] \in Pages /\ held[t] \in Frames /\ cache[victim[t]] = held[t] /\ ~InTransit(t)
    BY <1>4 DEF Remove, HeldInv, HasVictim, Evicting, InTransit
  <2>2. /\ free' = free /\ held' = held /\ InTransit(t)'
        /\ \A u \in Threads : u # t => (InTransit(u)' <=> InTransit(u))
    BY <1>4 DEF Remove, InTransit, Goto, TypeOK, epcVars
  <2>3. cache'[victim[t]] = NoFrame /\ \A q \in Pages : q # victim[t] => cache'[q] = cache[q]
    BY <1>4, <2>1 DEF Remove, TypeOK
  <2>4. \A f \in Frames : \/ f \in free'
                           \/ \E p \in Pages : cache'[p] = f
                           \/ \E u \in Threads : InTransit(u)' /\ held'[u] = f
    BY <2>1, <2>2, <2>3 DEF FrameInv
  <2>5. NoFrame \notin free
    BY FramesAssumption DEF TypeOK
  <2>6. \A p, q \in Pages : cache'[p] # NoFrame /\ cache'[p] = cache'[q] => p = q
    BY <2>3 DEF FrameInv
  <2>7. \A u \in Threads : InTransit(u)' => held[u] \in Frames
    BY <2>1, <2>2 DEF HeldInv, InTransit
  <2>8. \A u \in Threads, p \in Pages : InTransit(u)' => cache'[p] # held[u]
    BY <2>1, <2>2, <2>3, <2>7, FramesAssumption DEF FrameInv
  <2>9. \A u, w \in Threads : InTransit(u)' /\ InTransit(w)' /\ held[u] = held[w] => u = w
    BY <2>1, <2>2 DEF FrameInv
  <2> QED BY <2>1, <2>2, <2>3, <2>4, <2>5, <2>6, <2>8, <2>9 DEF FrameInv
<1>6. ASSUME NEW t \in Threads, Step(t), ~MovesFrame(t)
      PROVE  FrameInv'
  BY <1>6, OtherStepsQuiet, FramesQuiet
<1>7. ASSUME NEW t \in Threads, Start(t)
      PROVE  FrameInv'
  <2>1. /\ UNCHANGED <<cache, free>>
        /\ \A u \in Threads : InTransit(u)' <=> InTransit(u)
        /\ \A u \in Threads : InTransit(u) => held'[u] = held[u]
    BY <1>7 DEF Start, Deref, Reset, Goto, InTransit, l1Vars, epcVars, TypeOK
  <2> QED BY <2>1, FramesQuiet
<1> QED BY <1>1, <1>2, <1>3, <1>4, <1>6, <1>7 DEF Next, MovesFrame

-----------------------------------------------------------------------------
(***************************************************************************)
(* The queue of eviction candidates                                        *)
(***************************************************************************)

\* There is room in the queue for a page that a thread has in hand: the pages
\* in the queue and this one have different frames.
LEMMA QueueRoom ==
  ASSUME TypeOK, FrameInv, QueueInv, NEW t \in Threads, NEW p \in Pages, InHand(t, p)
  PROVE  Len(used) < Capacity
<1> DEFINE f == [i \in 1 .. Len(used) |-> cache[used[i]]]
           rest == Frames \ {cache[p]}
<1>1. cache[p] \in Frames
  BY DEF TypeOK, QueueInv
<1>2. used \in Seq(Pages) /\ DOMAIN used = 1 .. Len(used) /\ Len(used) \in Nat
  BY DEF TypeOK
<1>3. ASSUME NEW i \in 1 .. Len(used)
      PROVE  used[i] \in Pages /\ cache[used[i]] \in Frames \ {cache[p]}
  <2>1. used[i] \in Pages /\ cache[used[i]] # NoFrame /\ used[i] # p
    BY <1>2 DEF QueueInv
  <2> QED BY <2>1, <1>1 DEF TypeOK, FrameInv
<1>4. f \in Injection(1 .. Len(used), rest)
  <2>1. f \in [1 .. Len(used) -> rest]
    BY <1>3
  <2>2. ASSUME NEW i \in 1 .. Len(used), NEW j \in 1 .. Len(used), f[i] = f[j]
        PROVE  i = j
    <3>1. cache[used[i]] = cache[used[j]] /\ cache[used[i]] # NoFrame
      BY <2>2, <1>2 DEF QueueInv
    <3>2. used[i] = used[j]
      BY <3>1, <1>3 DEF FrameInv
    <3> QED BY <3>2, <1>2 DEF QueueInv
  <2> QED BY <2>1, <2>2 DEF Injection, IsInjective
<1>5. IsFiniteSet(rest) /\ Cardinality(rest) = Capacity - 1 /\ Capacity \in Nat
  BY <1>1, FramesAssumption, FS_RemoveElement, FS_CardinalityType DEF Capacity
<1>6. Cardinality(1 .. Len(used)) = Len(used)
  BY <1>2, FS_Interval
<1>7. Cardinality(1 .. Len(used)) <= Cardinality(rest)
  <2> HIDE DEF f, rest
  <2> QED BY <1>4, <1>5, FS_Injection
<1> QED BY <1>2, <1>5, <1>6, <1>7

\* A step that changes neither the queue nor who has which page in hand.
LEMMA QueueQuiet ==
  ASSUME QueueInv, UNCHANGED <<used, cache>>,
         \A u \in Threads, p \in Pages : InHand(u, p)' <=> InHand(u, p),
         used \in Seq(Pages)
  PROVE  QueueInv'
  BY DEF QueueInv

\* A thread puts the page it has in hand at the end of the queue.
LEMMA QueueJoined ==
  ASSUME QueueInv, used \in Seq(Pages), NEW t \in Threads, NEW p \in Pages, InHand(t, p),
         used' = Append(used, p), cache' = cache,
         \A q \in Pages : ~InHand(t, q)', \A q \in Pages : InHand(t, q) => q = p,
         \A u \in Threads, q \in Pages : u # t => (InHand(u, q)' <=> InHand(u, q))
  PROVE  QueueInv'
<1>1. /\ DOMAIN used = 1 .. Len(used) /\ DOMAIN used' = 1 .. Len(used) + 1
      /\ used'[Len(used) + 1] = p /\ Len(used) \in Nat
      /\ \A i \in DOMAIN used : used'[i] = used[i] /\ used[i] \in Pages
  OBVIOUS
<1>2. \A i \in DOMAIN used : used[i] # p
  BY DEF QueueInv
<1>3. \A i, j \in DOMAIN used' : used'[i] = used'[j] => i = j
  BY <1>1, <1>2 DEF QueueInv
<1>4. \A u \in Threads : ~InHand(u, p)'
  BY DEF QueueInv
<1>5. ASSUME NEW i \in DOMAIN used', NEW u \in Threads
      PROVE  (~InHand(u, used[i]))'
  <2>1. \A q \in Pages : q = used'[i] => ~InHand(u, q)'
    BY <1>1, <1>4 DEF QueueInv
  <2>2. used'[i] \in Pages
    BY <1>1
  <2> QED BY <2>1, <2>2
<1>6. \A i \in DOMAIN used' : cache'[used'[i]] # NoFrame
  BY <1>1 DEF QueueInv
<1>7. ASSUME NEW q \in Pages, cache'[q] # NoFrame
      PROVE  (\E i \in DOMAIN used' : used'[i] = q) \/ (\E u \in Threads : InHand(u, q)')
  <2>1. CASE q = p
    BY <1>1, <2>1
  <2>2. CASE \E i \in DOMAIN used : used[i] = q
    BY <1>1, <2>2
  <2>3. CASE q # p /\ \E u \in Threads : InHand(u, q)
    BY <2>3
  <2> QED BY <1>7, <2>1, <2>2, <2>3 DEF QueueInv
<1>8. \A u, w \in Threads, q \in Pages : InHand(u, q)' /\ InHand(w, q)' => u = w
  BY DEF QueueInv
<1>9. \A u \in Threads, q \in Pages : InHand(u, q)' => cache'[q] # NoFrame
  BY DEF QueueInv
<1> QED BY <1>3, <1>5, <1>6, <1>7, <1>8, <1>9 DEF QueueInv

\* A thread takes the page at the head of the queue in hand.
LEMMA QueueLeft ==
  ASSUME QueueInv, used \in Seq(Pages), used # << >>, NEW t \in Threads,
         used' = Tail(used), cache' = cache,
         \A q \in Pages : InHand(t, q)' <=> q = Head(used), \A q \in Pages : ~InHand(t, q),
         \A u \in Threads, q \in Pages : u # t => (InHand(u, q)' <=> InHand(u, q))
  PROVE  QueueInv'
<1>1. /\ DOMAIN used = 1 .. Len(used) /\ DOMAIN used' = 1 .. Len(used) - 1
      /\ Len(used) \in Nat /\ Len(used) # 0 /\ Head(used) = used[1]
      /\ \A i \in DOMAIN used' : used'[i] = used[i + 1]
      /\ \A i \in DOMAIN used : used[i] \in Pages
  OBVIOUS
<1>2. \A i \in DOMAIN used' : i + 1 \in DOMAIN used /\ i + 1 # 1 /\ used'[i] \in Pages
  BY <1>1
<1>3. \A i, j \in DOMAIN used' : used'[i] = used'[j] => i = j
  BY <1>1, <1>2 DEF QueueInv
<1>4. ASSUME NEW i \in DOMAIN used'
      PROVE  used'[i] # Head(used) /\ cache'[used'[i]] # NoFrame
  BY <1>1, <1>2 DEF QueueInv
<1>5. ASSUME NEW i \in DOMAIN used', NEW u \in Threads
      PROVE  (~InHand(u, used[i]))'
  <2>1. \A q \in Pages : q = used'[i] => ~InHand(u, q)'
    BY <1>1, <1>2, <1>4 DEF QueueInv
  <2> QED BY <2>1, <1>2
<1>6. ASSUME NEW q \in Pages, cache'[q] # NoFrame
      PROVE  (\E i \in DOMAIN used' : used'[i] = q) \/ (\E u \in Threads : InHand(u, q)')
  <2>1. CASE q = Head(used)
    BY <2>1
  <2>2. CASE q # Head(used) /\ \E i \in DOMAIN used : used[i] = q
    <3>1. PICK i \in DOMAIN used : used[i] = q
      BY <2>2
    <3>2. i - 1 \in DOMAIN used' /\ used'[i - 1] = q
      BY <1>1, <2>2, <3>1
    <3> QED BY <3>2
  <2>3. CASE \E u \in Threads : InHand(u, q)
    BY <2>3
  <2> QED BY <1>6, <2>1, <2>2, <2>3 DEF QueueInv
<1>7. Head(used) \in Pages /\ \A u \in Threads : ~InHand(u, Head(used))
  BY <1>1 DEF QueueInv
<1>8. \A u, w \in Threads, q \in Pages : InHand(u, q)' /\ InHand(w, q)' => u = w
  BY <1>7 DEF QueueInv
<1>9. \A u \in Threads, q \in Pages : InHand(u, q)' => cache'[q] # NoFrame
  BY <1>1 DEF QueueInv
<1> QED BY <1>3, <1>4, <1>5, <1>6, <1>8, <1>9 DEF QueueInv

\* The steps that enter a page into the queue or take it out.
MovesPage(t) == TryAdd(t) \/ Publish(t) \/ Dequeue(t) \/ Requeue(t) \/ Remove(t)

\* Steps that are not among those that move a page leave the queue and all hands alone.
LEMMA OthersKeepQueue ==
  ASSUME CountsFit, IInv, FInv, NEW t \in Threads, Step(t), ~MovesPage(t)
  PROVE  /\ UNCHANGED <<used, cache>>
         /\ \A u \in Threads, p \in Pages : InHand(u, p)' <=> InHand(u, p)
<1> USE DEF InHand, Goto, aptrVars, l1Vars, epcVars, IInv, TypeOK
<1>1. CASE MarkDirty(t) \/ Load(t) \/ (\E v \in Values : Store(t, v)) \/ DecPrevPage(t)
            \/ IncNewPage(t) \/ Get(t) \/ LinkMinor(t) \/ CheckSize(t)
  BY <1>1 DEF MarkDirty, Load, Store, DecPrevPage, IncNewPage, Get, LinkMinor, CheckSize, Linked
<1>2. CASE LlcGet(t) \/ SwapOut(t) \/ Encrypt(t) \/ PopFree(t) \/ PutBack(t) \/ PushFree(t)
  BY <1>2 DEF LlcGet, SwapOut, Encrypt, PopFree, PutBack, PushFree, Linked
<1>3. CASE Decrypt(t) \/ GetFound(t)
  BY <1>3 DEF Decrypt, GetFound
<1>4. CASE Probe(t)
  <2>1. InHand(t, victim[t]) /\ victim[t] \in Pages
    BY <1>4, HeldFacts DEF Probe, HasVictim
  <2>2. cache[victim[t]] # NoFrame
    BY <2>1 DEF FInv, QueueInv
  <2> QED BY <1>4, <2>2 DEF Probe
<1> QED BY <1>1, <1>2, <1>3, <1>4 DEF Step, MovesPage

\* Every step keeps each cached page in one place.
LEMMA QueueNext ==
  ASSUME CountsFit, IInv, FInv, Next
  PROVE  QueueInv'
<1> USE DEF FInv, IInv
<1>0. used \in Seq(Pages)
  BY DEF TypeOK
<1>1. ASSUME NEW t \in Threads, NEW u \in Threads, u # t, Step(t) \/ Start(t), NEW p \in Pages
      PROVE  InHand(u, p)' <=> InHand(u, p)
  BY <1>1, OneMoves DEF InHand
<1>2. ASSUME NEW t \in Threads, TryAdd(t)
      PROVE  QueueInv'
  <2>1. op[t].page \in Pages /\ held[t] \in Frames /\ used' = used
    BY <1>2, OpFacts, HeldFacts DEF TryAdd
  <2>2. CASE cache[op[t].page] = NoFrame
    <3>1. /\ \A q \in Pages : ~InHand(t, q)
          /\ \A q \in Pages : InHand(t, q)' <=> q = op[t].page
      BY <1>2, <2>2, <2>1, FramesAssumption DEF TryAdd, InHand, Goto, TypeOK
    <3>2. cache'[op[t].page] = held[t] /\ \A q \in Pages : q # op[t].page => cache'[q] = cache[q]
      BY <1>2, <2>1, <2>2 DEF TryAdd, TypeOK
    <3>3. \A u \in Threads, q \in Pages : u # t => (InHand(u, q)' <=> InHand(u, q))
      BY <1>1, <1>2 DEF Step
    <3>4. ASSUME NEW q \in Pages, cache'[q] # NoFrame
          PROVE  (\E i \in DOMAIN used : used[i] = q) \/ (\E u \in Threads : InHand(u, q)')
      <4>1. CASE q = op[t].page
        BY <3>1, <4>1
      <4>2. CASE q # op[t].page
        BY <3>1, <3>2, <3>3, <3>4, <4>2 DEF QueueInv
      <4> QED BY <4>1, <4>2
    <3>5. \A i \in DOMAIN used : used[i] \in Pages /\ used[i] # op[t].page
      BY <1>0, <2>2 DEF QueueInv
    <3>6. \A u \in Threads : ~InHand(u, op[t].page)
      BY <2>1, <2>2 DEF QueueInv
    <3>7. ASSUME NEW i \in DOMAIN used, NEW u \in Threads
          PROVE  ~InHand(u, used[i])'
      BY <2>1, <3>1, <3>3, <3>5 DEF QueueInv
    <3>8. \A u, w \in Threads, q \in Pages : InHand(u, q)' /\ InHand(w, q)' => u = w
      BY <3>1, <3>3, <3>6 DEF QueueInv
    <3>9. \A u \in Threads, q \in Pages : InHand(u, q)' => cache'[q] # NoFrame
      BY <2>1, <3>1, <3>2, <3>3, FramesAssumption DEF QueueInv
    <3>10. \A i \in DOMAIN used : cache'[used[i]] # NoFrame
      BY <3>2, <3>5 DEF QueueInv
    <3> QED BY <2>1, <3>4, <3>7, <3>8, <3>9, <3>10 DEF QueueInv
  <2>3. CASE cache[op[t].page] # NoFrame
    BY <1>0, <1>2, <2>3, QueueQuiet DEF TryAdd, InHand, Goto, TypeOK
  <2> QED BY <2>2, <2>3
<1>3. ASSUME NEW t \in Threads, Publish(t)
      PROVE  QueueInv'
  <2>1. op[t].page \in Pages /\ InHand(t, op[t].page)
    BY <1>3, OpFacts DEF Publish, InHand
  <2>2. used' = Append(used, op[t].page) /\ cache' = cache /\ Goto(t, Linked(t))
    BY <1>0, <1>3, <2>1, QueueRoom DEF Publish, Enqueue
  <2>3. (\A q \in Pages : ~InHand(t, q)') /\ (\A q \in Pages : InHand(t, q) => q = op[t].page)
    BY <1>3, <2>2 DEF Publish, InHand, Goto, Linked, TypeOK
  <2> QED BY <1>0, <1>1, <1>3, <2>1, <2>2, <2>3, QueueJoined DEF Step
<1>4. ASSUME NEW t \in Threads, Requeue(t)
      PROVE  QueueInv'
  <2>1. victim[t] \in Pages /\ InHand(t, victim[t])
    BY <1>4, HeldFacts DEF Requeue, InHand, HasVictim
  <2>2. used' = Append(used, victim[t]) /\ cache' = cache /\ Goto(t, "dequeue")
    BY <1>0, <1>4, <2>1, QueueRoom DEF Requeue, Enqueue
  <2>3. (\A q \in Pages : ~InHand(t, q)') /\ (\A q \in Pages : InHand(t, q) => q = victim[t])
    BY <1>4, <2>2 DEF Requeue, InHand, Goto, TypeOK
  <2> QED BY <1>0, <1>1, <1>4, <2>1, <2>2, <2>3, QueueJoined DEF Step
<1>5. ASSUME NEW t \in Threads, Dequeue(t)
      PROVE  QueueInv'
  <2>1. CASE used = << >>
    BY <1>0, <1>5, <2>1, QueueQuiet DEF Dequeue, InHand, Goto, TypeOK
  <2>2. CASE used # << >>
    <3>1. used' = Tail(used) /\ cache' = cache
      BY <1>5, <2>2 DEF Dequeue
    <3>2. (\A q \in Pages : InHand(t, q)' <=> q = Head(used)) /\ (\A q \in Pages : ~InHand(t, q))
      BY <1>5, <2>2 DEF Dequeue, InHand, Goto, TypeOK
    <3> QED BY <1>0, <1>1, <1>5, <2>2, <3>1, <3>2, QueueLeft DEF Step
  <2> QED BY <2>1, <2>2
<1>6. ASSUME NEW t \in Threads, Remove(t)
      PROVE  QueueInv'
  <2>1. victim[t] \in Pages /\ InHand(t, victim[t]) /\ used' = used
    BY <1>6, HeldFacts DEF Remove, InHand, HasVictim
  <2>2. (\A q \in Pages : ~InHand(t, q)') /\ (\A q \in Pages : InHand(t, q) => q = victim[t])
    BY <1>6 DEF Remove, InHand, Goto, TypeOK
  <2>3. cache'[victim[t]] = NoFrame /\ \A q \in Pages : q # victim[t] => cache'[q] = cache[q]
    BY <1>6, <2>1 DEF Remove, TypeOK
  <2>4. \A u \in Threads, q \in Pages : u # t => (InHand(u, q)' <=> InHand(u, q))
    BY <1>1, <1>6 DEF Step
  <2>5. \A i \in DOMAIN used : used[i] \in Pages /\ used[i] # victim[t]
    BY <1>0, <2>1 DEF QueueInv
  <2>6. ASSUME NEW i \in DOMAIN used, NEW u \in Threads
        PROVE  ~InHand(u, used[i])'
    BY <2>1, <2>2, <2>4, <2>5 DEF QueueInv
  <2>7. \A u \in Threads, q \in Pages : InHand(u, q)' => u # t /\ InHand(u, q) /\ q # victim[t]
    BY <2>1, <2>2, <2>4 DEF QueueInv
  <2>8. ASSUME NEW q \in Pages, cache'[q] # NoFrame
        PROVE  (\E i \in DOMAIN used : used[i] = q) \/ (\E u \in Threads : InHand(u, q)')
    <3>1. q # victim[t] /\ cache[q] # NoFrame
      BY <2>3, <2>8
    <3> QED BY <2>2, <2>4, <3>1 DEF QueueInv
  <2>9. \A u, w \in Threads, q \in Pages : InHand(u, q)' /\ InHand(w, q)' => u = w
    BY <2>7 DEF QueueInv
  <2>10. \A u \in Threads, q \in Pages : InHand(u, q)' => cache'[q] # NoFrame
    BY <2>3, <2>7 DEF QueueInv
  <2>11. \A i \in DOMAIN used : cache'[used[i]] # NoFrame
    BY <2>3, <2>5 DEF QueueInv
  <2> QED BY <2>1, <2>6, <2>8, <2>9, <2>10, <2>11 DEF QueueInv
<1>7. ASSUME NEW t \in Threads, Step(t), ~MovesPage(t)
      PROVE  QueueInv'
  BY <1>0, <1>7, OthersKeepQueue, QueueQuiet
<1>8. ASSUME NEW t \in Threads, Start(t)
      PROVE  QueueInv'
  <2>1. /\ UNCHANGED <<used, cache>>
        /\ \A p \in Pages : InHand(t, p)' <=> InHand(t, p)
    BY <1>8 DEF Start, Deref, Reset, Goto, InHand, l1Vars, TypeOK
  <2> QED BY <1>0, <1>1, <1>8, <2>1, QueueQuiet
<1> QED BY <1>2, <1>3, <1>4, <1>5, <1>6, <1>7, <1>8 DEF Next, MovesPage

-----------------------------------------------------------------------------
(***************************************************************************)
(* The crypto cache and the dirty bits                                     *)
(***************************************************************************)

\* A MAC is replaced only by the thread that then encrypts the page.
LEMMA MacNext ==
  ASSUME CountsFit, IInv, FInv, Next
  PROVE  MacInv'
<1> USE DEF FInv, IInv
<1>1. ASSUME NEW t \in Threads, SwapOut(t)
      PROVE  MacInv'
  <2>1. victim[t] \in Pages
    BY <1>1, HeldFacts DEF SwapOut, HasVictim
  <2>2. CASE dirty[held[t]]
    <3>1. mac' = [mac EXCEPT ![victim[t]] = "pending"] /\ pc'[t] = "encrypt" /\ victim' = victim /\ op' = op
      BY <1>1, <2>2 DEF SwapOut, Goto, TypeOK
    <3>2. \A u \in Threads : u # t => pc'[u] = pc[u]
      BY <1>1, OneMoves DEF Step
    <3>3. \A p \in Pages : mac'[p] = "pending" => p = victim[t] \/ mac[p] = "pending"
      BY <3>1 DEF TypeOK
    <3>4. pc[t] = "swap" /\ \A p \in Pages : mac'[p] # mac[p] => mac'[p] = "pending"
      BY <1>1, <3>1 DEF SwapOut, TypeOK
    <3>5. \A u \in Threads : pc'[u] = "decrypt" => pc[u] = "decrypt" /\ op[u].page \in Pages
      BY <3>1, <3>2, OpFacts
    <3>6. ASSUME NEW p \in Pages, mac'[p] = "pending"
          PROVE  \E u \in Threads : pc'[u] = "encrypt" /\ victim'[u] = p
      <4>1. CASE p = victim[t]
        BY <3>1, <4>1
      <4>2. CASE mac[p] = "pending"
        BY <3>1, <3>2, <3>4, <4>2 DEF MacInv
      <4> QED BY <3>3, <3>6, <4>1, <4>2
    <3> QED BY <3>1, <3>4, <3>5, <3>6 DEF MacInv
  <2>3. CASE ~dirty[held[t]]
    BY <1>1, <2>3 DEF SwapOut, MacInv, Goto, TypeOK
  <2> QED BY <2>2, <2>3
<1>2. ASSUME NEW t \in Threads, Encrypt(t)
      PROVE  MacInv'
  BY <1>2, HeldFacts DEF Encrypt, MacInv, Goto, TypeOK, HasVictim
<1>3. ASSUME NEW t \in Threads, Step(t) \/ Start(t), ~SwapOut(t), ~Encrypt(t)
      PROVE  MacInv'
  <2>1. /\ mac' = mac /\ pc[t] # "encrypt"
        /\ pc'[t] = "decrypt" => mac[op'[t].page] # "none"
    <3> USE DEF Goto, llcVars, TypeOK
    <3>1. CASE Start(t)
      BY <1>3, <3>1 DEF Start, Deref, Reset
    <3>2. CASE MarkDirty(t) \/ Load(t) \/ (\E v \in Values : Store(t, v)) \/ DecPrevPage(t)
                \/ IncNewPage(t) \/ Get(t) \/ LinkMinor(t) \/ CheckSize(t)
      BY <3>2 DEF MarkDirty, Load, Store, DecPrevPage, IncNewPage, Get, LinkMinor, CheckSize, Linked
    <3>3. CASE PopFree(t) \/ LlcGet(t) \/ Decrypt(t) \/ TryAdd(t) \/ Publish(t) \/ GetFound(t)
                \/ PutBack(t)
      BY <3>3 DEF PopFree, LlcGet, Decrypt, TryAdd, Publish, GetFound, PutBack, Linked
    <3>4. CASE Dequeue(t) \/ Probe(t) \/ Requeue(t) \/ Remove(t) \/ PushFree(t)
      BY <3>4 DEF Dequeue, Probe, Requeue, Remove, PushFree
    <3> QED BY <1>3, <3>1, <3>2, <3>3, <3>4 DEF Step
  <2>2. \A u \in Threads : u # t => pc'[u] = pc[u] /\ op'[u] = op[u] /\ victim'[u] = victim[u]
    BY <1>3, OneMoves
  <2> QED BY <2>1, <2>2 DEF MacInv
<1> QED BY <1>1, <1>2, <1>3 DEF Next

\* The frame of a page with references is not the one being evicted.
LEMMA OtherFrame ==
  ASSUME CountsFit, IInv, FrameInv, NEW a \in Aptrs, prm[a] # NoFrame,
         NEW u \in Threads, pc[u] \in Evicting
  PROVE  prm[a] # held[u]
<1>1. page[a] \in Pages /\ cache[page[a]] = prm[a] /\ page[a] # victim[u]
  BY NotEvicted DEF IInv, LinkedInv
<1>2. victim[u] \in Pages /\ cache[victim[u]] = held[u]
  BY HeldFacts DEF IInv, HeldInv, Evicting, HasVictim
<1> QED BY <1>1, <1>2 DEF FrameInv

\* The dirty bit is cleared before the page leaves the cache.
LEMMA DirtyNext ==
  ASSUME CountsFit, IInv, FInv, Next
  PROVE  DirtyInv'
<1> USE DEF FInv, IInv
<1>1. ASSUME NEW t \in Threads, MarkDirty(t)
      PROVE  DirtyInv'
  <2>1. op[t].aptr \in Aptrs /\ prm[op[t].aptr] # NoFrame
    BY <1>1, OpFacts DEF MarkDirty, StageInv
  <2>2. page[op[t].aptr] \in Pages /\ cache[page[op[t].aptr]] = prm[op[t].aptr]
    BY <2>1 DEF LinkedInv
  <2>3. \A u \in Threads : pc[u] \in {"encrypt", "remove"} => prm[op[t].aptr] # held[u] /\ held[u] \in Frames
    BY <2>1, OtherFrame, HeldFacts DEF Evicting
  <2>4. cache' = cache /\ held' = held /\ dirty' = [dirty EXCEPT ![prm[op[t].aptr]] = TRUE]
    BY <1>1 DEF MarkDirty, SetDirty, l1Vars
  <2>5. \A u \in Threads : pc'[u] \in {"encrypt", "remove"} => pc[u] \in {"encrypt", "remove"}
    BY <1>1 DEF MarkDirty, Goto, TypeOK
  <2> QED BY <2>1, <2>2, <2>3, <2>4, <2>5 DEF DirtyInv, TypeOK
<1>2. ASSUME NEW t \in Threads, SwapOut(t)
      PROVE  DirtyInv'
  <2>1. held[t] \in Frames
    BY <1>2, HeldFacts DEF SwapOut
  <2>2. cache' = cache /\ held' = held
    BY <1>2 DEF SwapOut, l1Vars
  <2>3. dirty'[held[t]] = FALSE /\ \A f \in Frames : dirty'[f] => dirty[f]
    BY <1>2, <2>1 DEF SwapOut, ClearDirty, TypeOK
  <2>4. \A u \in Threads : u # t => pc'[u] = pc[u]
    BY <1>2, OneMoves DEF Step
  <2>5. \A u \in Threads : pc[u] \in {"encrypt", "remove"} => held[u] \in Frames
    BY HeldFacts
  <2> QED BY <2>1, <2>2, <2>3, <2>4, <2>5 DEF DirtyInv
<1>3. ASSUME NEW t \in Threads, TryAdd(t)
      PROVE  DirtyInv'
  <2>1. op[t].page \in Pages /\ held[t] \in Frames
    BY <1>3, OpFacts, HeldFacts DEF TryAdd
  <2>2. \A q \in Pages : cache[q] # NoFrame => cache'[q] = cache[q]
    BY <1>3, <2>1 DEF TryAdd, TypeOK
  <2>3. dirty' = dirty /\ held' = held
    BY <1>3 DEF TryAdd, epcVars
  <2>4. \A u \in Threads : pc'[u] \in {"encrypt", "remove"} => pc[u] \in {"encrypt", "remove"}
    BY <1>3 DEF TryAdd, Goto, TypeOK
  <2> QED BY <2>2, <2>3, <2>4, FramesAssumption DEF DirtyInv
<1>4. ASSUME NEW t \in Threads, Remove(t)
      PROVE  DirtyInv'
  <2>1. victim[t] \in Pages /\ held[t] \in Frames /\ cache[victim[t]] = held[t] /\ ~dirty[held[t]]
    BY <1>4 DEF Remove, HeldInv, HasVictim, Evicting, DirtyInv
  <2>2. \A q \in Pages : q # victim[t] => cache'[q] = cache[q]
    BY <1>4, <2>1 DEF Remove, TypeOK
  <2>3. dirty' = dirty /\ held' = held
    BY <1>4 DEF Remove, epcVars
  <2>4. \A u \in Threads : pc'[u] \in {"encrypt", "remove"} => pc[u] \in {"encrypt", "remove"}
    BY <1>4 DEF Remove, Goto, TypeOK
  <2> QED BY <2>1, <2>2, <2>3, <2>4 DEF DirtyInv
<1>5. ASSUME NEW t \in Threads, Step(t) \/ Start(t), ~MarkDirty(t), ~SwapOut(t), ~TryAdd(t), ~Remove(t)
      PROVE  DirtyInv'
  <2>1. /\ UNCHANGED <<cache, dirty>>
        /\ pc'[t] \in {"encrypt", "remove"} => pc[t] \in {"encrypt", "remove"} /\ held'[t] = held[t]
    <3> USE DEF Goto, l1Vars, epcVars, TypeOK
    <3>1. CASE Start(t)
      BY <1>5, <3>1 DEF Start, Deref, Reset
    <3>2. CASE Load(t) \/ (\E v \in Values : Store(t, v)) \/ DecPrevPage(t)
                \/ IncNewPage(t) \/ Get(t) \/ LinkMinor(t) \/ CheckSize(t)
      BY <3>2 DEF Load, Store, DecPrevPage, IncNewPage, Get, LinkMinor, CheckSize, Linked
    <3>3. CASE PopFree(t) \/ LlcGet(t) \/ Decrypt(t) \/ Publish(t) \/ GetFound(t) \/ PutBack(t)
      BY <3>3 DEF PopFree, LlcGet, Decrypt, Publish, GetFound, PutBack, Linked
    <3>4. CASE Dequeue(t) \/ Probe(t) \/ Requeue(t) \/ Encrypt(t) \/ PushFree(t)
      BY <3>4 DEF Dequeue, Probe, Requeue, Encrypt, PushFree
    <3> QED BY <1>5, <3>1, <3>2, <3>3, <3>4 DEF Step
  <2>2. \A u \in Threads : u # t => pc'[u] = pc[u] /\ held'[u] = held[u]
    BY <1>5, OneMoves
  <2> QED BY <2>1, <2>2 DEF DirtyInv
<1> QED BY <1>1, <1>2, <1>3, <1>4, <1>5 DEF Next

-----------------------------------------------------------------------------
\* Initially all frames are free and nothing is cached.
LEMMA FInit == Init => FInv
  BY PagesAssumption, FramesAssumption
  DEF Init, FInv, FrameInv, MacInv, QueueInv, DirtyInv, InTransit, InHand

\* The invariant is inductive, together with that of SuvmProofs.
LEMMA FNext ==
  ASSUME CountsFit, IInv, FInv, [Next]_vars
  PROVE  FInv'
<1>1. CASE Next
  BY <1>1, FrameNext, MacNext, QueueNext, DirtyNext DEF FInv
<1>2. CASE UNCHANGED vars
  BY <1>2 DEF vars, aptrVars, l1Vars, epcVars, llcVars, userVars, FInv, FrameInv, MacInv, QueueInv,
     DirtyInv, InTransit, InHand
<1> QED BY <1>1, <1>2

\* Both invariants hold always.
LEMMA FInvariance ==
  ASSUME CountsFit
  PROVE  Spec => [](IInv /\ FInv)
  BY InitInv, NextInv, FInit, FNext, PTL DEF Spec

-----------------------------------------------------------------------------
\* As long as no count can wrap, no frame is lost or shared, however faults,
\* lost races and evictions interleave: each is free, or caches one page, or is
\* in the hands of one thread.
THEOREM FramesKept ==
  ASSUME CountsFit
  PROVE  Spec => []FramesPartitioned
<1>1. IInv /\ FInv => FramesPartitioned
  <2> SUFFICES ASSUME IInv, FrameInv, NEW f \in Frames
               PROVE  Cardinality({p \in Pages : cache[p] = f})
                      + Cardinality({t \in Threads : InTransit(t) /\ held[t] = f})
                      + (IF f \in free THEN 1 ELSE 0) = 1
    BY DEF FInv, FramesPartitioned
  <2> DEFINE P == {p \in Pages : cache[p] = f}
             T == {t \in Threads : InTransit(t) /\ held[t] = f}
  <2>1. CASE f \in free
    <3>1. P = {} /\ T = {}
      BY <2>1 DEF FrameInv
    <3>2. Cardinality(P) = 0 /\ Cardinality(T) = 0
      BY <3>1, FS_EmptySet
    <3> QED BY <2>1, <3>2
  <2>2. CASE \E p \in Pages : cache[p] = f
    <3>1. PICK p \in Pages : cache[p] = f
      BY <2>2
    <3>2. P = {p} /\ T = {} /\ f \notin free
      BY <3>1, FramesAssumption DEF FrameInv
    <3>3. Cardinality(P) = 1 /\ Cardinality(T) = 0
      BY <3>2, FS_EmptySet, FS_Singleton
    <3> QED BY <3>2, <3>3
  <2>3. CASE \E t \in Threads : InTransit(t) /\ held[t] = f
    <3>1. PICK t \in Threads : InTransit(t) /\ held[t] = f
      BY <2>3
    <3>2. P = {} /\ T = {t} /\ f \notin free
      BY <3>1 DEF FrameInv
    <3>3. Cardinality(P) = 0 /\ Cardinality(T) = 1
      BY <3>2, FS_EmptySet, FS_Singleton
    <3> QED BY <3>2, <3>3
  <2> QED BY <2>1, <2>2, <2>3 DEF FrameInv
<1> QED BY <1>1, FInvariance, PTL

\* As long as no count can wrap, every cached page is in the queue exactly once
\* or in the hands of the one thread that evicts, requeues or enters it, and no
\* other page is: no page becomes unevictable, none is evicted twice.
THEOREM QueueExact ==
  ASSUME CountsFit
  PROVE  Spec => []UsedQueueExact
<1>1. IInv /\ FInv => UsedQueueExact
  <2> SUFFICES ASSUME IInv, QueueInv, NEW p \in Pages
               PROVE  Cardinality({i \in DOMAIN used : used[i] = p})
                      + Cardinality({t \in Threads : InHand(t, p)})
                      = (IF cache[p] # NoFrame THEN 1 ELSE 0)
    BY DEF FInv, UsedQueueExact
  <2> DEFINE I == {i \in DOMAIN used : used[i] = p}
             T == {t \in Threads : InHand(t, p)}
  <2>1. CASE cache[p] = NoFrame
    <3>1. I = {} /\ T = {}
      BY <2>1 DEF QueueInv
    <3>2. Cardinality(I) = 0 /\ Cardinality(T) = 0
      BY <3>1, FS_EmptySet
    <3> QED BY <2>1, <3>2
  <2>2. CASE cache[p] # NoFrame /\ \E i \in DOMAIN used : used[i] = p
    <3>1. PICK i \in DOMAIN used : used[i] = p
      BY <2>2
    <3>2. I = {i} /\ T = {}
      BY <3>1 DEF QueueInv
    <3>3. Cardinality(I) = 1 /\ Cardinality(T) = 0
      BY <3>2, FS_EmptySet, FS_Singleton
    <3> QED BY <2>2, <3>3
  <2>3. CASE cache[p] # NoFrame /\ \E t \in Threads : InHand(t, p)
    <3>1. PICK t \in Threads : InHand(t, p)
      BY <2>3
    <3>2. I = {} /\ T = {t}
      BY <3>1 DEF QueueInv
    <3>3. Cardinality(I) = 0 /\ Cardinality(T) = 1
      BY <3>2, FS_EmptySet, FS_Singleton
    <3> QED BY <2>3, <3>3
  <2> QED BY <2>1, <2>2, <2>3 DEF QueueInv
<1> QED BY <1>1, FInvariance, PTL

\* As long as no count can wrap, a dirty frame is one that caches a page,
\* although the bit is set without any lock.
THEOREM DirtyCached ==
  ASSUME CountsFit
  PROVE  Spec => []OnlyCachedDirty
<1>1. FInv => OnlyCachedDirty
  BY DEF FInv, DirtyInv, OnlyCachedDirty
<1> QED BY <1>1, FInvariance, PTL

-----------------------------------------------------------------------------
(***************************************************************************)
(* Part 3.  No ASSERT, and the flat memory: the inductive invariants       *)
(***************************************************************************)

\* The threads at one of the stages S.
At(S) == {t \in Threads : pc[t] \in S}

\* The threads that have a frame in hand or were promised one by the size check
\* or by their own eviction; those that were sent to evict a page; and the one
\* stage in which a page is cached and not yet in the queue.
Claiming == {"release", "pop", "llcget", "decrypt", "add", "found", "putback"}
Sent     == {"dequeue", "probe", "requeue", "swap", "encrypt", "remove"}
Entering == {"publish"}
Cached   == {p \in Pages : cache[p] # NoFrame}

\* m_page_cache_size is the number of cached pages; cached pages and claims
\* together never exceed the frames; and the pages that the threads sent to
\* evict have not yet taken are no fewer than those threads, but for the pages
\* that earlier evictors have removed.
CountInv ==
  /\ size = Cardinality(Cached)
  /\ Cardinality(Cached) + Cardinality(At(Claiming)) <= Capacity
  /\ At(Sent) # {} =>
       Cardinality(Cached) - Cardinality(At(Sent)) - Cardinality(At(Entering))
         >= EvictLimit - Cardinality(Threads)

\* The frames kept back are enough for all threads but one, and the others for
\* all of them.  The code has 16384 frames and keeps back 10: up to 11 threads.
ThreadsFit ==
  /\ IsFiniteSet(Threads)
  /\ Cardinality(Threads) <= Slack + 1
  /\ Cardinality(Threads) <= EvictLimit

\* The word last stored to a page is in its frame while the page is cached.
CachedRight == \A p \in Pages :
  cache[p] # NoFrame /\ stored[p] # Undef => data[cache[p]] = stored[p]

\* It is in the backing store, sealed, when the page is not cached, and also
\* when its frame is clean, except while it is being encrypted.
Encrypting(p) == \E t \in Threads : pc[t] = "encrypt" /\ victim[t] = p
Settled(p)    == cache[p] # NoFrame => ~dirty[cache[p]] /\ ~Encrypting(p)
SealedRight   == \A p \in Pages :
  stored[p] # Undef /\ Settled(p) => mac[p] = "valid" /\ ram[p] = stored[p]

\* A thread about to enter a page that nobody has entered meanwhile has it.
AddRight == \A t \in Threads :
  pc[t] = "add" /\ cache[op[t].page] = NoFrame /\ stored[op[t].page] # Undef
    => data[held[t]] = stored[op[t].page]

\* A hinted access finds its frame dirty.
HintRight == \A t \in Threads : pc[t] = "access" /\ op[t].write => dirty[prm[op[t].aptr]]

MemInv == CachedRight /\ SealedRight /\ AddRight /\ HintRight

-----------------------------------------------------------------------------
(***************************************************************************)
(* Counting threads and pages                                              *)
(***************************************************************************)

\* The threads at some stages are finitely many.
LEMMA AtFinite ==
  ASSUME ThreadsFit, NEW S
  PROVE  /\ IsFiniteSet(At(S)) /\ Cardinality(At(S)) \in Nat
         /\ Cardinality(At(S)) <= Cardinality(Threads) /\ Cardinality(Threads) \in Nat
<1>1. At(S) \in SUBSET Threads
  BY DEF At
<1> QED BY <1>1, FS_Subset, FS_CardinalityType DEF ThreadsFit

\* A thread enters S, leaves it, or neither.
LEMMA Entered ==
  ASSUME ThreadsFit, TypeOK, NEW S, NEW t \in Threads, NEW l, Goto(t, l),
         l \in S, pc[t] \notin S
  PROVE  Cardinality(At(S)') = Cardinality(At(S)) + 1
<1>1. At(S)' = At(S) \cup {t} /\ t \notin At(S)
  BY DEF At, Goto, TypeOK
<1> QED BY <1>1, AtFinite, FS_AddElement

\* A thread leaves the stages S.
LEMMA Gone ==
  ASSUME ThreadsFit, TypeOK, NEW S, NEW t \in Threads, NEW l, Goto(t, l),
         l \notin S, pc[t] \in S
  PROVE  Cardinality(At(S)') = Cardinality(At(S)) - 1
<1>1. At(S)' = At(S) \ {t} /\ t \in At(S)
  BY DEF At, Goto, TypeOK
<1> QED BY <1>1, AtFinite, FS_RemoveElement

\* A thread stays inside the stages S, or outside.
LEMMA Stayed ==
  ASSUME TypeOK, NEW S, NEW t \in Threads, NEW l, Goto(t, l), l \in S <=> pc[t] \in S
  PROVE  At(S)' = At(S)
  BY DEF At, Goto, TypeOK

\* A thread that does not enter the stages S does not add to them.
LEMMA NoneEntered ==
  ASSUME ThreadsFit, TypeOK, NEW S, NEW t \in Threads, NEW l, Goto(t, l),
         l \in S => pc[t] \in S
  PROVE  /\ Cardinality(At(S)') <= Cardinality(At(S)) /\ Cardinality(At(S)') \in Nat
         /\ At(S)' # {} => At(S) # {}
<1>1. At(S)' \in SUBSET At(S)
  BY DEF At, Goto, TypeOK
<1> QED BY <1>1, AtFinite, FS_Subset, FS_CardinalityType

\* Pages have frames of their own, so that there are no more of them.
LEMMA CachedFinite ==
  ASSUME TypeOK, FrameInv
  PROVE  /\ IsFiniteSet(Cached) /\ Cardinality(Cached) \in Nat
         /\ Capacity \in Nat /\ EvictLimit \in Int
<1> DEFINE f == [p \in Cached |-> cache[p]]
<1>1. f \in Injection(Cached, Frames)
  <2>1. f \in [Cached -> Frames]
    BY DEF Cached, TypeOK
  <2>2. \A p, q \in Cached : f[p] = f[q] => p = q
    BY DEF Cached, FrameInv
  <2> QED BY <2>1, <2>2 DEF Injection, IsInjective
<1>2. IsFiniteSet(Cached)
  <2> HIDE DEF f
  <2> QED BY <1>1, FramesAssumption, FS_Injection
<1> QED BY <1>2, FramesAssumption, FS_CardinalityType, SizesAssumption DEF Capacity, EvictLimit

\* A thread that is promised a frame finds one.
LEMMA FreeFrame ==
  ASSUME ThreadsFit, IInv, FrameInv, CountInv, NEW t \in Threads, pc[t] = "pop"
  PROVE  free # {}
<1> SUFFICES ASSUME free = {} PROVE FALSE
  OBVIOUS
<1> DEFINE Moving == At({"release", "llcget", "decrypt", "add", "found", "putback"})
           A == {cache[p] : p \in Cached}
           B == {held[u] : u \in Moving}
           f == [p \in Cached |-> cache[p]]
           g == [u \in Moving |-> held[u]]
<1>1. ASSUME NEW x \in Frames
      PROVE  x \in A \cup B
  <2>1. CASE \E p \in Pages : cache[p] = x
    <3>1. PICK p \in Pages : cache[p] = x
      BY <2>1
    <3>2. p \in Cached
      BY <3>1, FramesAssumption DEF Cached
    <3> QED BY <3>1, <3>2
  <2>2. CASE \E u \in Threads : InTransit(u) /\ held[u] = x
    BY <2>2 DEF At, InTransit
  <2> QED BY <2>1, <2>2 DEF FrameInv
<1>2. f \in Surjection(Cached, A) /\ g \in Surjection(Moving, B)
  BY DEF Surjection
<1>3. IsFiniteSet(Cached) /\ Cardinality(Cached) \in Nat /\ Capacity \in Nat
  BY CachedFinite DEF IInv
<1>4. IsFiniteSet(Moving) /\ Cardinality(Moving) \in Nat
  BY AtFinite
<1>5. Cardinality(Moving) <= Cardinality(At(Claiming)) - 1
  <2>1. Moving \in SUBSET (At(Claiming) \ {t}) /\ t \in At(Claiming)
    BY DEF At, Claiming
  <2>2. IsFiniteSet(At(Claiming) \ {t})
        /\ Cardinality(At(Claiming) \ {t}) = Cardinality(At(Claiming)) - 1
    BY <2>1, AtFinite, FS_RemoveElement
  <2> QED BY <2>1, <2>2, FS_Subset
<1> HIDE DEF Moving, A, B, f, g
<1>6. IsFiniteSet(A) /\ Cardinality(A) <= Cardinality(Cached)
  BY <1>2, <1>3, FS_Surjection
<1>7. IsFiniteSet(B) /\ Cardinality(B) <= Cardinality(Moving)
  BY <1>2, <1>4, FS_Surjection
<1>8. Cardinality(A) \in Nat /\ Cardinality(B) \in Nat /\ Cardinality(A \cap B) \in Nat
  BY <1>6, <1>7, FS_Intersection, FS_CardinalityType
<1>9. IsFiniteSet(A \cup B) /\ Cardinality(A \cup B) = Cardinality(A) + Cardinality(B) - Cardinality(A \cap B)
  BY <1>6, <1>7, FS_Union
<1>10. Capacity <= Cardinality(A \cup B)
  <2>1. Frames \in SUBSET (A \cup B)
    BY <1>1
  <2> QED BY <2>1, <1>9, FS_Subset DEF Capacity
<1>11. Cardinality(Cached) + Cardinality(At(Claiming)) <= Capacity /\ Cardinality(At(Claiming)) \in Nat
  BY AtFinite DEF CountInv
<1> QED BY <1>3, <1>4, <1>5, <1>6, <1>7, <1>8, <1>9, <1>10, <1>11

\* A thread that is sent to evict a page finds one in the queue.
LEMMA CandidateLeft ==
  ASSUME ThreadsFit, IInv, FrameInv, QueueInv, CountInv, NEW t \in Threads, pc[t] = "dequeue"
  PROVE  used # << >>
<1> SUFFICES ASSUME used = << >> PROVE FALSE
  OBVIOUS
<1> DEFINE Hand == At(HasVictim \cup Entering)
           f == [u \in Hand |-> IF pc[u] = "publish" THEN op[u].page ELSE victim[u]]
           C == {f[u] : u \in Hand}
           Rest == At(Sent) \ {t}
<1>1. ASSUME NEW p \in Cached
      PROVE  \E u \in Hand : f[u] = p
  <2>1. PICK u \in Threads : InHand(u, p)
    BY DEF Cached, QueueInv
  <2>2. u \in Hand /\ f[u] = p
    BY <2>1 DEF InHand, At, HasVictim, Entering
  <2> QED BY <2>2
<1>2. Cached \subseteq C
  BY <1>1
<1>3. f \in Surjection(Hand, C)
  BY DEF Surjection
<1>4. IsFiniteSet(Hand)
  BY AtFinite
<1>5. Hand \subseteq Rest \cup At(Entering) /\ t \in At(Sent)
  BY DEF At, HasVictim, Entering, Sent
<1>6. IsFiniteSet(Rest) /\ Cardinality(Rest) = Cardinality(At(Sent)) - 1
  BY <1>5, AtFinite, FS_RemoveElement
<1> HIDE DEF Hand, f, C, Rest
<1>7. IsFiniteSet(C) /\ Cardinality(C) <= Cardinality(Hand)
  BY <1>3, <1>4, FS_Surjection
<1>8. Cardinality(Cached) <= Cardinality(C)
  BY <1>2, <1>7, FS_Subset
<1>9. /\ IsFiniteSet(At(Entering)) /\ Cardinality(At(Entering)) \in Nat
      /\ Cardinality(At(Sent)) \in Nat /\ Cardinality(Threads) \in Nat
  BY AtFinite
<1>10. IsFiniteSet(Rest \cup At(Entering))
       /\ Cardinality(Rest \cup At(Entering)) <= Cardinality(Rest) + Cardinality(At(Entering))
  <2>1. Cardinality(Rest \cap At(Entering)) \in Nat
    BY <1>6, FS_Intersection, FS_CardinalityType
  <2>2. Cardinality(Rest) \in Nat
    BY <1>6, FS_CardinalityType
  <2>3. /\ IsFiniteSet(Rest \cup At(Entering))
        /\ Cardinality(Rest \cup At(Entering))
             = Cardinality(Rest) + Cardinality(At(Entering)) - Cardinality(Rest \cap At(Entering))
    BY <1>6, <1>9, FS_Union
  <2> QED BY <1>9, <2>1, <2>2, <2>3
<1>11. Cardinality(Hand) <= Cardinality(Rest \cup At(Entering))
  BY <1>5, <1>10, FS_Subset
<1>12. /\ Cardinality(Cached) \in Nat /\ EvictLimit \in Int /\ Cardinality(C) \in Nat
       /\ Cardinality(Hand) \in Nat /\ Cardinality(Rest) \in Nat
       /\ Cardinality(Rest \cup At(Entering)) \in Nat
  BY CachedFinite, <1>4, <1>6, <1>7, <1>10, FS_CardinalityType DEF IInv
<1>13. Cardinality(Cached) - Cardinality(At(Sent)) - Cardinality(At(Entering)) >= 0
  <2>1. At(Sent) # {}
    BY <1>5
  <2> QED BY <2>1, <1>9, <1>12 DEF CountInv, ThreadsFit
<1> QED BY <1>6, <1>7, <1>8, <1>9, <1>10, <1>11, <1>12, <1>13

\* Every step keeps the claims on frames and pages within what there is.
LEMMA CountNext ==
  ASSUME CountsFit, ThreadsFit, IInv, FInv, CountInv, Next
  PROVE  CountInv'
<1> USE DEF IInv, FInv
<1>0. /\ IsFiniteSet(Cached) /\ Cardinality(Cached) \in Nat /\ Capacity \in Nat /\ EvictLimit \in Int
      /\ \A S : IsFiniteSet(At(S)) /\ Cardinality(At(S)) \in Nat
      /\ Cardinality(Threads) \in Nat /\ EvictLimit = Capacity - Slack /\ Slack \in Nat
  BY CachedFinite, AtFinite, SizesAssumption DEF EvictLimit
<1>1. ASSUME NEW t \in Threads, CheckSize(t), size >= EvictLimit
      PROVE  CountInv'
  <2>1. Goto(t, "dequeue") /\ pc[t] = "check" /\ size' = size /\ cache' = cache /\ Cached' = Cached
    BY <1>1 DEF CheckSize, l1Vars, Cached
  <2>2. At(Claiming)' = At(Claiming)
    BY <2>1, Stayed DEF Claiming
  <2>3. Cardinality(At(Sent)') + Cardinality(At(Entering)') <= Cardinality(Threads)
    <3>1. (At(Sent) \cup At(Entering))' \in SUBSET Threads /\ (At(Sent) \cap At(Entering))' = {}
      BY DEF At, Sent, Entering
    <3>2. At(Sent)' \in SUBSET Threads /\ At(Entering)' \in SUBSET Threads
      BY DEF At
    <3>3. IsFiniteSet(At(Sent)') /\ IsFiniteSet(At(Entering)')
      BY <3>2, FS_Subset DEF ThreadsFit
    <3>4. /\ IsFiniteSet((At(Sent) \cup At(Entering))')
          /\ Cardinality((At(Sent) \cup At(Entering))')
               = Cardinality(At(Sent)') + Cardinality(At(Entering)') - Cardinality((At(Sent) \cap At(Entering))')
      BY <3>3, FS_Union
    <3>5. Cardinality((At(Sent) \cup At(Entering))') <= Cardinality(Threads)
      BY <3>1, FS_Subset DEF ThreadsFit
    <3>6. Cardinality(At(Sent)') \in Nat /\ Cardinality(At(Entering)') \in Nat
      BY <3>3, FS_CardinalityType
    <3> QED BY <3>1, <3>4, <3>5, <3>6, FS_EmptySet
  <2>4. Cardinality(At(Sent)') \in Nat /\ Cardinality(At(Entering)') \in Nat
    <3>1. At(Sent)' \in SUBSET Threads /\ At(Entering)' \in SUBSET Threads
      BY DEF At
    <3> QED BY <3>1, FS_Subset, FS_CardinalityType DEF ThreadsFit
  <2> QED BY <1>0, <1>1, <2>1, <2>2, <2>3, <2>4 DEF CountInv
<1>2. ASSUME NEW t \in Threads, CheckSize(t), ~(size >= EvictLimit)
      PROVE  CountInv'
  <2>1. Goto(t, "pop") /\ pc[t] = "check" /\ size' = size /\ cache' = cache /\ Cached' = Cached
    BY <1>2 DEF CheckSize, l1Vars, Cached
  <2>2. At(Sent)' = At(Sent) /\ At(Entering)' = At(Entering)
    BY <2>1, Stayed DEF Sent, Entering
  <2>3. Cardinality(At(Claiming)') <= Cardinality(Threads) /\ Cardinality(At(Claiming)') \in Nat
    <3>1. At(Claiming)' \in SUBSET Threads
      BY DEF At
    <3> QED BY <3>1, FS_Subset, FS_CardinalityType DEF ThreadsFit
  <2>4. Cardinality(Cached) < Capacity - Slack
    BY <1>0, <1>2 DEF CountInv
  <2> QED BY <1>0, <2>1, <2>2, <2>3, <2>4 DEF CountInv, ThreadsFit
<1>3. ASSUME NEW t \in Threads, Remove(t)
      PROVE  CountInv'
  <2>1. victim[t] \in Pages /\ victim[t] \in Cached
    BY <1>3, FramesAssumption DEF Remove, HeldInv, HasVictim, Evicting, Cached
  <2>2. Goto(t, "release") /\ pc[t] = "remove" /\ size' = size - 1
    BY <1>3 DEF Remove
  <2>3. Cached' = Cached \ {victim[t]}
    BY <1>3, <2>1 DEF Remove, Cached, TypeOK
  <2>4. Cardinality(Cached') = Cardinality(Cached) - 1
    BY <1>0, <2>1, <2>3, FS_RemoveElement
  <2>5. Cardinality(At(Claiming)') = Cardinality(At(Claiming)) + 1
    BY <2>2, Entered DEF Claiming
  <2>6. Cardinality(At(Sent)') = Cardinality(At(Sent)) - 1 /\ At(Sent) # {}
    <3>1. t \in At(Sent)
      BY <2>2 DEF At, Sent
    <3> QED BY <2>2, <3>1, Gone DEF Sent
  <2>7. At(Entering)' = At(Entering)
    BY <2>2, Stayed DEF Entering
  <2> QED BY <1>0, <2>2, <2>4, <2>5, <2>6, <2>7 DEF CountInv
<1>4. ASSUME NEW t \in Threads, TryAdd(t), cache[op[t].page] = NoFrame
      PROVE  CountInv'
  <2>1. op[t].page \in Pages /\ held[t] \in Frames /\ op[t].page \notin Cached
    BY <1>4, OpFacts, HeldFacts DEF TryAdd, Cached
  <2>2. Goto(t, "publish") /\ pc[t] = "add" /\ size' = size + 1
    BY <1>4 DEF TryAdd
  <2>3. Cached' = Cached \cup {op[t].page}
    BY <1>4, <2>1, FramesAssumption DEF TryAdd, Cached, TypeOK
  <2>4. Cardinality(Cached') = Cardinality(Cached) + 1
    BY <1>0, <2>1, <2>3, FS_AddElement
  <2>5. Cardinality(At(Claiming)') = Cardinality(At(Claiming)) - 1
    BY <2>2, Gone DEF Claiming
  <2>6. Cardinality(At(Entering)') = Cardinality(At(Entering)) + 1
    BY <2>2, Entered DEF Entering
  <2>7. At(Sent)' = At(Sent)
    BY <2>2, Stayed DEF Sent
  <2> QED BY <1>0, <2>2, <2>4, <2>5, <2>6, <2>7 DEF CountInv
<1>5. ASSUME NEW t \in Threads, NEW l, Goto(t, l), UNCHANGED <<cache, size>>,
             \A S \in {Claiming, Sent, Entering} : l \in S => pc[t] \in S
      PROVE  CountInv'
  <2>1. \A S \in {Claiming, Sent, Entering} :
          /\ Cardinality(At(S)') <= Cardinality(At(S)) /\ Cardinality(At(S)') \in Nat
          /\ At(S)' # {} => At(S) # {}
    BY <1>5, NoneEntered
  <2>2. Cached' = Cached
    BY <1>5 DEF Cached
  <2>3. /\ Cardinality(At(Claiming)') <= Cardinality(At(Claiming)) /\ Cardinality(At(Claiming)') \in Nat
        /\ Cardinality(At(Sent)') <= Cardinality(At(Sent)) /\ Cardinality(At(Sent)') \in Nat
        /\ Cardinality(At(Entering)') <= Cardinality(At(Entering)) /\ Cardinality(At(Entering)') \in Nat
        /\ At(Sent)' # {} => At(Sent) # {}
    BY <2>1
  <2> QED BY <1>0, <1>5, <2>2, <2>3 DEF CountInv
<1>6. ASSUME NEW t \in Threads, Step(t), ~CheckSize(t), ~Remove(t), ~TryAdd(t)
      PROVE  /\ UNCHANGED <<cache, size>>
             /\ \E l \in PCs : Goto(t, l) /\ \A S \in {Claiming, Sent, Entering} : l \in S => pc[t] \in S
  <2> USE DEF l1Vars, Claiming, Sent, Entering, PCs
  <2>1. CASE MarkDirty(t) \/ Load(t) \/ (\E v \in Values : Store(t, v)) \/ DecPrevPage(t)
              \/ IncNewPage(t)
    BY <2>1 DEF MarkDirty, Load, Store, DecPrevPage, IncNewPage
  <2>2. CASE Get(t) \/ LinkMinor(t)
    BY <2>2 DEF Get, LinkMinor, Linked
  <2>3. CASE PopFree(t) \/ LlcGet(t) \/ Decrypt(t)
    BY <2>3 DEF PopFree, LlcGet, Decrypt
  <2>4. CASE Publish(t)
    BY <2>4 DEF Publish, Linked
  <2>5. CASE GetFound(t) \/ PutBack(t)
    BY <2>5 DEF GetFound, PutBack, Linked
  <2>6. CASE Dequeue(t) \/ Probe(t) \/ Requeue(t)
    BY <2>6 DEF Dequeue, Probe, Requeue
  <2>7. CASE SwapOut(t) \/ Encrypt(t) \/ PushFree(t)
    BY <2>7 DEF SwapOut, Encrypt, PushFree
  <2> QED BY <1>6, <2>1, <2>2, <2>3, <2>4, <2>5, <2>6, <2>7 DEF Step
<1>7. ASSUME NEW t \in Threads, TryAdd(t), cache[op[t].page] # NoFrame
      PROVE  CountInv'
  <2>1. Goto(t, "found") /\ pc[t] = "add" /\ UNCHANGED <<cache, size>>
    BY <1>7 DEF TryAdd
  <2> QED BY <1>5, <2>1 DEF Claiming, Sent, Entering
<1>8. ASSUME NEW t \in Threads, Start(t)
      PROVE  CountInv'
  <2>1. CASE \E a \in Aptrs : Reset(t, a)
    <3>1. UNCHANGED <<pc, cache, size>>
      BY <2>1 DEF Reset
    <3> QED BY <3>1 DEF CountInv, At, Cached
  <2>2. CASE \E a \in Aptrs : \E u \in Uses[a] : Deref(t, a, u[1], u[2])
    <3>1. PICK l \in PCs : Goto(t, l) /\ l \in {"dec", "mark", "access", "inc"}
      BY <2>2 DEF Deref, PCs
    <3>2. UNCHANGED <<cache, size>>
      BY <2>2 DEF Deref, l1Vars
    <3> QED BY <1>5, <3>1, <3>2 DEF Claiming, Sent, Entering
  <2> QED BY <1>8, <2>1, <2>2 DEF Start
<1>9. ASSUME NEW t \in Threads, Step(t), ~CheckSize(t), ~Remove(t), ~TryAdd(t)
      PROVE  CountInv'
  BY <1>5, <1>6, <1>9
<1> QED BY <1>1, <1>2, <1>3, <1>4, <1>7, <1>8, <1>9 DEF Next

\* No ASSERT fails in the next step either.
LEMMA AliveNext ==
  ASSUME CountsFit, ThreadsFit, IInv, FInv, CountInv, Alive, Next
  PROVE  Alive'
<1> USE DEF IInv, FInv
<1>1. ASSUME NEW t \in Threads, Step(t)
      PROVE  pc'[t] # "abort"
  <2> USE DEF Goto, TypeOK
  <2>1. CASE MarkDirty(t) \/ Load(t) \/ (\E v \in Values : Store(t, v)) \/ DecPrevPage(t)
              \/ IncNewPage(t) \/ Get(t) \/ LinkMinor(t) \/ CheckSize(t)
    BY <2>1 DEF MarkDirty, Load, Store, DecPrevPage, IncNewPage, Get, LinkMinor, CheckSize, Linked
  <2>2. CASE LlcGet(t) \/ TryAdd(t) \/ PutBack(t) \/ SwapOut(t) \/ Encrypt(t) \/ Remove(t) \/ PushFree(t)
    BY <2>2 DEF LlcGet, TryAdd, PutBack, SwapOut, Encrypt, Remove, PushFree, Linked
  <2>3. CASE PopFree(t)
    BY <2>3, FreeFrame DEF PopFree
  <2>4. CASE Decrypt(t)
    BY <2>4, Authentic DEF Decrypt
  <2>5. CASE Publish(t)
    <3>1. op[t].page \in Pages /\ InHand(t, op[t].page)
      BY <2>5, OpFacts DEF Publish, InHand
    <3>2. Len(used) # Capacity
      BY <3>1, QueueRoom, CachedFinite
    <3> QED BY <2>5, <3>2 DEF Publish, Linked
  <2>6. CASE GetFound(t)
    BY <2>6 DEF GetFound, StageInv
  <2>7. CASE Dequeue(t)
    BY <2>7, CandidateLeft DEF Dequeue
  <2>8. CASE Probe(t)
    <3>1. victim[t] \in Pages /\ InHand(t, victim[t])
      BY <2>8, HeldFacts DEF Probe, InHand, HasVictim
    <3>2. cache[victim[t]] # NoFrame
      BY <3>1 DEF QueueInv
    <3> QED BY <2>8, <3>2 DEF Probe
  <2>9. CASE Requeue(t)
    <3>1. victim[t] \in Pages /\ InHand(t, victim[t])
      BY <2>9, HeldFacts DEF Requeue, InHand, HasVictim
    <3>2. Len(used) # Capacity
      BY <3>1, QueueRoom, CachedFinite
    <3> QED BY <2>9, <3>2 DEF Requeue
  <2> QED BY <1>1, <2>1, <2>2, <2>3, <2>4, <2>5, <2>6, <2>7, <2>8, <2>9 DEF Step
<1>2. ASSUME NEW t \in Threads, Start(t)
      PROVE  pc'[t] # "abort"
  BY <1>2 DEF Start, Deref, Reset, Goto, TypeOK
<1> QED BY <1>1, <1>2, OneMoves DEF Next, Alive

\* As long as no count can wrap and there are no more threads than the frames
\* kept back for them, no ASSERT of the paging path fails: the unlocked check
\* of the size leaves a free frame, or a candidate for eviction, for every
\* thread that passes it, in whatever order they go on.
THEOREM NoAssertFails ==
  ASSUME CountsFit, ThreadsFit
  PROVE  Spec => []NeverAborts
<1>1. Init => CountInv /\ Alive
  <2> SUFFICES ASSUME Init PROVE CountInv /\ Alive
    OBVIOUS
  <2>1. Cached = {} /\ At(Claiming) = {} /\ At(Sent) = {} /\ Alive
    BY DEF Init, Cached, At, Claiming, Sent, Alive
  <2>2. Capacity \in Nat
    BY FramesAssumption, FS_CardinalityType DEF Capacity
  <2> QED BY <2>1, <2>2, FS_EmptySet DEF Init, CountInv
<1>2. IInv /\ FInv /\ CountInv /\ Alive /\ [Next]_vars => CountInv' /\ Alive'
  <2>1. CASE UNCHANGED vars
    BY <2>1 DEF vars, l1Vars, CountInv, At, Cached, Alive
  <2> QED BY <2>1, CountNext, AliveNext
<1> QED BY <1>1, <1>2, FInvariance, PTL DEF Spec, NeverAborts

-----------------------------------------------------------------------------
(***************************************************************************)
(* The flat memory                                                         *)
(***************************************************************************)

\* The spointer of an access that has reached its frame is linked to its page.
LEMMA AccessFacts ==
  ASSUME IInv, NEW t \in Threads, pc[t] \in {"mark", "access"}
  PROVE  /\ op[t].aptr \in Aptrs /\ op[t].page \in Pages
         /\ prm[op[t].aptr] \in Frames /\ prm[op[t].aptr] # NoFrame
         /\ page[op[t].aptr] = op[t].page /\ cache[op[t].page] = prm[op[t].aptr]
<1>1. op[t].aptr \in Aptrs /\ op[t].page \in Pages
  BY OpFacts DEF IInv
<1> QED BY <1>1 DEF IInv, StageInv, LinkedInv, TypeOK

\* Every step keeps the last word stored in the frame of a cached page.
LEMMA CachedNext ==
  ASSUME CountsFit, IInv, FInv, CachedRight, AddRight, Next
  PROVE  CachedRight'
<1> USE DEF IInv, FInv, CachedRight
<1>1. ASSUME NEW t \in Threads, NEW v \in Values, Store(t, v)
      PROVE  CachedRight'
  <2>1. /\ op[t].page \in Pages /\ prm[op[t].aptr] \in Frames
        /\ cache[op[t].page] = prm[op[t].aptr]
    BY <1>1, AccessFacts DEF Store
  <2>2. /\ cache' = cache /\ data' = [data EXCEPT ![prm[op[t].aptr]] = v]
        /\ stored' = [stored EXCEPT ![op[t].page] = v]
    BY <1>1 DEF Store, l1Vars
  <2>3. ASSUME NEW p \in Pages, cache[p] # NoFrame, p # op[t].page
        PROVE  cache[p] # prm[op[t].aptr] /\ cache[p] \in Frames
    BY <2>1, <2>3 DEF FrameInv, TypeOK
  <2> QED BY <2>1, <2>2, <2>3 DEF TypeOK
<1>2. ASSUME NEW t \in Threads, Decrypt(t)
      PROVE  CachedRight'
  <2>1. held[t] \in Frames /\ InTransit(t)
    BY <1>2, HeldFacts DEF Decrypt, InTransit
  <2>2. cache' = cache /\ stored' = stored
    BY <1>2 DEF Decrypt, l1Vars, userVars
  <2>3. \A f \in Frames : f # held[t] => data'[f] = data[f]
    BY <1>2 DEF Decrypt, TypeOK
  <2>4. \A p \in Pages : cache[p] # NoFrame => cache[p] \in Frames /\ cache[p] # held[t]
    BY <2>1 DEF FrameInv, TypeOK
  <2> QED BY <2>2, <2>3, <2>4
<1>3. ASSUME NEW t \in Threads, TryAdd(t)
      PROVE  CachedRight'
  <2>1. op[t].page \in Pages /\ held[t] \in Frames /\ pc[t] = "add" /\ UNCHANGED <<data, stored>>
    BY <1>3, OpFacts, HeldFacts DEF TryAdd, epcVars, userVars
  <2>2. CASE cache[op[t].page] = NoFrame
    BY <1>3, <2>1, <2>2 DEF TryAdd, AddRight, TypeOK
  <2>3. CASE cache[op[t].page] # NoFrame
    BY <1>3, <2>1, <2>3 DEF TryAdd
  <2> QED BY <2>2, <2>3
<1>4. ASSUME NEW t \in Threads, Remove(t)
      PROVE  CachedRight'
  <2>1. UNCHANGED <<data, stored>> /\ \A p \in Pages : cache'[p] # NoFrame => cache'[p] = cache[p]
    BY <1>4 DEF Remove, epcVars, userVars, TypeOK
  <2> QED BY <2>1
<1>5. ASSUME NEW t \in Threads, Step(t) \/ Start(t), ~(\E v \in Values : Store(t, v)), ~Decrypt(t),
             ~TryAdd(t), ~Remove(t)
      PROVE  UNCHANGED <<cache, data, stored>>
  BY <1>5 DEF Step, Start, l1Vars, epcVars, userVars, MarkDirty, Load, DecPrevPage, IncNewPage, Get, LinkMinor,
     CheckSize, PopFree, LlcGet, Publish, GetFound, PutBack, Dequeue, Probe, Requeue, SwapOut, Encrypt,
     PushFree, Deref, Reset
<1>6. CASE UNCHANGED <<cache, data, stored>>
  BY <1>6
<1> QED BY <1>1, <1>2, <1>3, <1>4, <1>5, <1>6 DEF Next

\* Every step keeps it in the backing store while the page is clean or not cached.
LEMMA SealedRightNext ==
  ASSUME CountsFit, IInv, FInv, CachedRight, SealedRight, HintRight, Next
  PROVE  SealedRight'
<1> USE DEF IInv, FInv
<1>0. ASSUME NEW t \in Threads, NEW p \in Pages, Step(t) \/ Start(t), Encrypting(p), ~Encrypt(t)
      PROVE  Encrypting(p)'
  <2>1. PICK u \in Threads : pc[u] = "encrypt" /\ victim[u] = p
    BY <1>0 DEF Encrypting
  <2>2. CASE u # t
    <3>1. pc'[u] = "encrypt" /\ victim'[u] = p
      BY <1>0, <2>1, <2>2, OneMoves
    <3> QED BY <3>1 DEF Encrypting
  <2>3. CASE u = t
    <3>1. pc[t] = "encrypt"
      BY <2>1, <2>3
    <3> QED BY <1>0, <3>1 DEF Step, Start, MarkDirty, Load, Store, DecPrevPage, IncNewPage, Get, LinkMinor,
          CheckSize, PopFree, LlcGet, Decrypt, TryAdd, Publish, GetFound, PutBack, Dequeue, Probe, Requeue,
          SwapOut, Remove, PushFree, Deref, Reset
  <2> QED BY <2>2, <2>3
<1>1. ASSUME NEW t \in Threads, NEW v \in Values, Store(t, v)
      PROVE  SealedRight'
  <2>1. /\ op[t].page \in Pages /\ prm[op[t].aptr] \in Frames /\ prm[op[t].aptr] # NoFrame
        /\ cache[op[t].page] = prm[op[t].aptr] /\ dirty[prm[op[t].aptr]]
    BY <1>1, AccessFacts DEF Store, HintRight
  <2>2. UNCHANGED <<cache, dirty, mac, ram>> /\ stored' = [stored EXCEPT ![op[t].page] = v]
    BY <1>1 DEF Store, l1Vars, llcVars
  <2>3. ASSUME NEW p \in Pages, Settled(p)'
        PROVE  Settled(p) /\ p # op[t].page
    BY <1>0, <1>1, <2>1, <2>2, <2>3 DEF Settled, Step, Store, Encrypt
  <2> QED BY <2>2, <2>3 DEF SealedRight, TypeOK
<1>2. ASSUME NEW t \in Threads, MarkDirty(t)
      PROVE  SealedRight'
  <2>1. UNCHANGED <<cache, mac, ram, stored>> /\ \A f \in Frames : dirty[f] => dirty'[f]
    BY <1>2 DEF MarkDirty, SetDirty, l1Vars, llcVars, userVars, TypeOK
  <2>2. ASSUME NEW p \in Pages, Settled(p)'
        PROVE  Settled(p)
    <3>1. Encrypting(p) => Encrypting(p)'
      BY <1>0, <1>2 DEF Step, MarkDirty, Encrypt
    <3>2. cache[p] # NoFrame => cache[p] \in Frames
      BY DEF TypeOK
    <3> QED BY <2>1, <2>2, <3>1, <3>2 DEF Settled
  <2> QED BY <2>1, <2>2 DEF SealedRight
<1>3. ASSUME NEW t \in Threads, SwapOut(t)
      PROVE  SealedRight'
  <2>1. /\ victim[t] \in Pages /\ held[t] \in Frames /\ cache[victim[t]] = held[t] /\ held[t] # NoFrame
    BY <1>3, FramesAssumption DEF SwapOut, HeldInv, HasVictim, Evicting
  <2>2. UNCHANGED <<cache, ram, stored, victim>>
    BY <1>3 DEF SwapOut, l1Vars, userVars
  <2>3. ASSUME NEW p \in Pages
        PROVE  Encrypting(p) => Encrypting(p)'
    BY <1>0, <1>3 DEF Step, SwapOut, Encrypt
  <2>4. CASE dirty[held[t]]
    <3>1. /\ mac' = [mac EXCEPT ![victim[t]] = "pending"] /\ dirty' = [dirty EXCEPT ![held[t]] = FALSE]
          /\ pc'[t] = "encrypt"
      BY <1>3, <2>4 DEF SwapOut, ClearDirty, Goto, TypeOK
    <3>2. Encrypting(victim[t])'
      BY <2>2, <3>1 DEF Encrypting
    <3>3. ASSUME NEW p \in Pages, Settled(p)'
          PROVE  p # victim[t] /\ Settled(p)
      <4>1. p # victim[t]
        <5>1. \A q \in Pages : Encrypting(q)' /\ cache[q] # NoFrame => ~Settled(q)'
          BY <2>2 DEF Settled
        <5>2. ~Settled(victim[t])'
          <6>1. \A q \in Pages : q = victim[t] => Encrypting(q)'
            BY <2>2, <3>1 DEF Encrypting
          <6> QED BY <6>1, <5>1, <2>1, <2>2
        <5> QED BY <5>2, <3>3, <2>2
      <4>2. cache[p] # NoFrame => cache[p] \in Frames /\ cache[p] # held[t]
        BY <2>1, <4>1 DEF FrameInv, TypeOK
      <4> QED BY <2>2, <2>3, <3>1, <3>3, <4>1, <4>2 DEF Settled, TypeOK
    <3> QED BY <2>1, <2>2, <3>1, <3>3 DEF SealedRight, TypeOK
  <2>5. CASE ~dirty[held[t]]
    <3>1. UNCHANGED <<mac, dirty>>
      BY <1>3, <2>5 DEF SwapOut
    <3>2. \A p \in Pages : Settled(p)' => Settled(p)
      BY <2>2, <2>3, <3>1 DEF Settled
    <3> QED BY <2>2, <3>1, <3>2 DEF SealedRight
  <2> QED BY <2>4, <2>5
<1>4. ASSUME NEW t \in Threads, Encrypt(t)
      PROVE  SealedRight'
  <2>1. /\ victim[t] \in Pages /\ held[t] \in Frames /\ cache[victim[t]] = held[t] /\ held[t] # NoFrame
    BY <1>4, FramesAssumption DEF Encrypt, HeldInv, HasVictim, Evicting
  <2>2. /\ UNCHANGED <<cache, dirty, stored, victim>>
        /\ ram' = [ram EXCEPT ![victim[t]] = data[held[t]]] /\ mac' = [mac EXCEPT ![victim[t]] = "valid"]
    BY <1>4 DEF Encrypt, Seal, l1Vars, epcVars, userVars
  <2>3. ASSUME NEW p \in Pages, p # victim[t]
        PROVE  Encrypting(p) => Encrypting(p)'
    <3>1. \A u \in Threads : u # t => pc'[u] = pc[u]
      BY <1>4, OneMoves DEF Step
    <3> QED BY <2>2, <2>3, <3>1 DEF Encrypting
  <2>4. \A p \in Pages : p # victim[t] /\ Settled(p)' => Settled(p)
    BY <2>2, <2>3 DEF Settled
  <2>5. stored[victim[t]] # Undef => data[held[t]] = stored[victim[t]]
    BY <2>1 DEF CachedRight
  <2> QED BY <2>1, <2>2, <2>4, <2>5 DEF SealedRight, TypeOK
<1>5. ASSUME NEW t \in Threads, TryAdd(t)
      PROVE  SealedRight'
  <2>1. op[t].page \in Pages /\ UNCHANGED <<dirty, mac, ram, stored>>
    BY <1>5, OpFacts DEF TryAdd, epcVars, llcVars, userVars
  <2>2. \A p \in Pages : cache[p] # NoFrame => cache'[p] = cache[p]
    BY <1>5, <2>1 DEF TryAdd, TypeOK
  <2>3. \A p \in Pages : Encrypting(p) => Encrypting(p)'
    BY <1>0, <1>5 DEF Step, TryAdd, Encrypt
  <2>4. \A p \in Pages : Settled(p)' => Settled(p)
    BY <2>1, <2>2, <2>3 DEF Settled
  <2> QED BY <2>1, <2>4 DEF SealedRight
<1>6. ASSUME NEW t \in Threads, Remove(t)
      PROVE  SealedRight'
  <2>1. /\ victim[t] \in Pages /\ cache[victim[t]] = held[t] /\ ~dirty[held[t]]
    BY <1>6 DEF Remove, HeldInv, HasVictim, Evicting, DirtyInv
  <2>2. UNCHANGED <<dirty, mac, ram, stored>>
    BY <1>6 DEF Remove, epcVars, llcVars, userVars
  <2>3. \A p \in Pages : p # victim[t] => cache'[p] = cache[p]
    BY <1>6 DEF Remove, TypeOK
  <2>4. Settled(victim[t])
    <3>1. ASSUME NEW u \in Threads, pc[u] = "encrypt", victim[u] = victim[t]
          PROVE  FALSE
      <4>1. InHand(u, victim[t]) /\ InHand(t, victim[t]) /\ u # t
        BY <1>6, <3>1 DEF Remove, InHand
      <4> QED BY <2>1, <4>1 DEF QueueInv
    <3> QED BY <2>1, <3>1 DEF Settled, Encrypting
  <2>5. \A p \in Pages : Encrypting(p) => Encrypting(p)'
    BY <1>0, <1>6 DEF Step, Remove, Encrypt
  <2>6. \A p \in Pages : Settled(p)' => Settled(p)
    BY <2>2, <2>3, <2>4, <2>5 DEF Settled
  <2> QED BY <2>2, <2>6 DEF SealedRight
<1>7. ASSUME NEW t \in Threads, Step(t) \/ Start(t), ~(\E v \in Values : Store(t, v)), ~MarkDirty(t),
             ~SwapOut(t), ~Encrypt(t), ~TryAdd(t), ~Remove(t)
      PROVE  SealedRight'
  <2>1. UNCHANGED <<cache, dirty, mac, ram, stored>>
    BY <1>7 DEF Step, Start, l1Vars, epcVars, llcVars, userVars, Load, DecPrevPage, IncNewPage, Get, LinkMinor,
       CheckSize, PopFree, LlcGet, Decrypt, Publish, GetFound, PutBack, Dequeue, Probe, Requeue, PushFree,
       Deref, Reset
  <2>2. \A p \in Pages : Settled(p)' => Settled(p)
    BY <1>0, <1>7, <2>1 DEF Settled
  <2> QED BY <2>1, <2>2 DEF SealedRight
<1> QED BY <1>1, <1>2, <1>3, <1>4, <1>5, <1>6, <1>7 DEF Next

\* What a thread has decrypted is not stored to by others before it enters the page.
LEMMA AddNext ==
  ASSUME CountsFit, IInv, FInv, MemInv, Next
  PROVE  AddRight'
<1> USE DEF IInv, FInv, MemInv
<1>1. ASSUME NEW t \in Threads, LlcGet(t)
      PROVE  AddRight'
  <2>1. op[t].page \in Pages /\ UNCHANGED <<cache, stored, data, held, op>>
    BY <1>1, OpFacts DEF LlcGet, l1Vars, epcVars, userVars
  <2>2. \A u \in Threads : u # t => pc'[u] = pc[u]
    BY <1>1, OneMoves DEF Step
  <2>3. pc'[t] = "add" => mac[op[t].page] = "none"
    BY <1>1 DEF LlcGet, Goto, TypeOK
  <2>4. cache[op[t].page] = NoFrame /\ stored[op[t].page] # Undef => mac[op[t].page] = "valid"
    BY <2>1 DEF SealedRight, Settled
  <2> QED BY <2>1, <2>2, <2>3, <2>4 DEF AddRight
<1>2. ASSUME NEW t \in Threads, Decrypt(t)
      PROVE  AddRight'
  <2>1. op[t].page \in Pages /\ held[t] \in Frames /\ InTransit(t) /\ UNCHANGED <<cache, stored, held, op>>
    BY <1>2, OpFacts, HeldFacts DEF Decrypt, InTransit, l1Vars, userVars
  <2>2. \A u \in Threads : u # t => pc'[u] = pc[u]
    BY <1>2, OneMoves DEF Step
  <2>3. data' = [data EXCEPT ![held[t]] = ram[op[t].page]]
    BY <1>2, Authentic DEF Decrypt
  <2>4. cache[op[t].page] = NoFrame /\ stored[op[t].page] # Undef => ram[op[t].page] = stored[op[t].page]
    BY <2>1 DEF SealedRight, Settled
  <2>5. \A u \in Threads : u # t /\ pc[u] = "add" => held[u] # held[t] /\ held[u] \in Frames
    BY <2>1, HeldFacts DEF FrameInv, InTransit
  <2> QED BY <2>1, <2>2, <2>3, <2>4, <2>5, ZenonT(60) DEF AddRight, TypeOK
<1>3. ASSUME NEW t \in Threads, NEW v \in Values, Store(t, v)
      PROVE  AddRight'
  <2>1. /\ op[t].page \in Pages /\ prm[op[t].aptr] # NoFrame
        /\ cache[op[t].page] = prm[op[t].aptr]
    BY <1>3, AccessFacts DEF Store
  <2>2. /\ UNCHANGED <<cache, held>> /\ data' = [data EXCEPT ![prm[op[t].aptr]] = v]
        /\ stored' = [stored EXCEPT ![op[t].page] = v]
    BY <1>3 DEF Store, l1Vars
  <2>3. \A u \in Threads : pc'[u] = "add" => pc[u] = "add" /\ op'[u] = op[u]
    BY <1>3, OneMoves DEF Step, Store, Goto, TypeOK
  <2>4. ASSUME NEW u \in Threads, pc[u] = "add"
        PROVE  held[u] \in Frames /\ held[u] # prm[op[t].aptr] /\ op[u].page \in Pages
    BY <2>1, <2>4, HeldFacts, OpFacts DEF FrameInv, InTransit
  <2>5. ASSUME NEW u \in Threads, pc'[u] = "add", cache'[op'[u].page] = NoFrame,
               stored'[op'[u].page] # Undef
        PROVE  data'[held'[u]] = stored'[op'[u].page]
    <3>1. pc[u] = "add" /\ op'[u] = op[u] /\ op[u].page # op[t].page
      BY <2>1, <2>2, <2>3, <2>5
    <3>2. data'[held[u]] = data[held[u]] /\ stored'[op[u].page] = stored[op[u].page]
      BY <2>2, <2>4, <3>1 DEF TypeOK
    <3> QED BY <2>2, <2>5, <3>1, <3>2 DEF AddRight
  <2> QED BY <2>5 DEF AddRight
<1>4. ASSUME NEW t \in Threads, TryAdd(t)
      PROVE  AddRight'
  <2>1. op[t].page \in Pages /\ held[t] \in Frames /\ UNCHANGED <<stored, data, held, op>>
    BY <1>4, OpFacts, HeldFacts DEF TryAdd, epcVars, userVars
  <2>2. \A p \in Pages : cache'[p] = NoFrame => cache[p] = NoFrame
    BY <1>4, <2>1, FramesAssumption DEF TryAdd, TypeOK
  <2>3. \A u \in Threads : pc'[u] = "add" => pc[u] = "add" /\ op[u].page \in Pages
    BY <1>4, OpFacts DEF TryAdd, Goto, TypeOK
  <2> QED BY <2>1, <2>2, <2>3 DEF AddRight
<1>5. ASSUME NEW t \in Threads, Remove(t)
      PROVE  AddRight'
  <2>1. victim[t] \in Pages /\ UNCHANGED <<stored, data, held, op>>
    BY <1>5, HeldFacts DEF Remove, HasVictim, epcVars, userVars
  <2>2. \A p \in Pages : p # victim[t] => cache'[p] = cache[p]
    BY <1>5 DEF Remove, TypeOK
  <2>3. \A u \in Threads : pc'[u] = "add" => pc[u] = "add" /\ op[u].page \in Pages
    BY <1>5, OpFacts DEF Remove, Goto, TypeOK
  <2>4. \A u \in Threads : pc[u] = "add" => op[u].page # victim[t]
    BY <1>5, FaultNotEvicted DEF Remove, Faulting, Evicting
  <2> QED BY <2>1, <2>2, <2>3, <2>4 DEF AddRight
<1>6. ASSUME NEW t \in Threads, Step(t) \/ Start(t), ~(\E v \in Values : Store(t, v)), ~LlcGet(t), ~Decrypt(t),
             ~TryAdd(t), ~Remove(t)
      PROVE  AddRight'
  <2>1. UNCHANGED <<cache, stored, data>> /\ pc'[t] # "add"
    <3> USE DEF Goto, l1Vars, epcVars, userVars, TypeOK
    <3>1. CASE Start(t)
      BY <3>1 DEF Start, Deref, Reset
    <3>2. CASE MarkDirty(t) \/ Load(t) \/ DecPrevPage(t)
                \/ IncNewPage(t) \/ Get(t) \/ LinkMinor(t) \/ CheckSize(t)
      BY <3>2 DEF MarkDirty, Load, DecPrevPage, IncNewPage, Get, LinkMinor, CheckSize, Linked
    <3>3. CASE PopFree(t) \/ Publish(t) \/ GetFound(t) \/ PutBack(t)
      BY <3>3 DEF PopFree, Publish, GetFound, PutBack, Linked
    <3>4. CASE Dequeue(t) \/ Probe(t) \/ Requeue(t) \/ SwapOut(t) \/ Encrypt(t) \/ PushFree(t)
      BY <3>4 DEF Dequeue, Probe, Requeue, SwapOut, Encrypt, PushFree
    <3> QED BY <1>6, <3>1, <3>2, <3>3, <3>4 DEF Step
  <2>2. \A u \in Threads : u # t => pc'[u] = pc[u] /\ op'[u] = op[u] /\ held'[u] = held[u]
    BY <1>6, OneMoves
  <2> QED BY <2>1, <2>2 DEF AddRight
<1> QED BY <1>1, <1>2, <1>3, <1>4, <1>5, <1>6 DEF Next

\* A frame marked for writing is not cleaned while its page is pinned.
LEMMA HintNext ==
  ASSUME CountsFit, IInv, FInv, MemInv, Next
  PROVE  HintRight'
<1> USE DEF IInv, FInv, MemInv
<1>1. ASSUME NEW t \in Threads, NEW u \in Threads, u # t, Step(t) \/ Start(t), pc[u] = "access"
      PROVE  prm'[op[u].aptr] = prm[op[u].aptr]
  <2>1. op[u].aptr \in Aptrs /\ Owner[op[u].aptr] = u
    BY <1>1, OpFacts DEF OpInv
  <2>2. CASE Start(t)
    BY <1>1, <2>1, <2>2 DEF Start, Deref, Reset, aptrVars, TypeOK
  <2>3. CASE DecPrevPage(t) \/ LinkMinor(t) \/ Publish(t) \/ PutBack(t)
    <3>1. op[t].aptr # op[u].aptr
      BY <1>1, <2>3, OtherAptr DEF DecPrevPage, LinkMinor, Publish, PutBack
    <3> QED BY <2>1, <2>3, <3>1 DEF DecPrevPage, LinkMinor, Publish, PutBack, TypeOK
  <2>4. CASE Step(t) /\ ~(DecPrevPage(t) \/ LinkMinor(t) \/ Publish(t) \/ PutBack(t))
    BY <2>4 DEF Step, aptrVars, MarkDirty, Load, Store, IncNewPage, Get, CheckSize, PopFree, LlcGet, Decrypt,
       TryAdd, GetFound, Dequeue, Probe, Requeue, SwapOut, Encrypt, Remove, PushFree
  <2> QED BY <1>1, <2>2, <2>3, <2>4
<1>2. ASSUME NEW t \in Threads, NEW u \in Threads, u # t, Step(t) \/ Start(t), pc[u] = "access", op[u].write
      PROVE  dirty'[prm[op[u].aptr]]
  <2>1. prm[op[u].aptr] \in Frames /\ op[u].aptr \in Aptrs /\ prm[op[u].aptr] # NoFrame /\ dirty[prm[op[u].aptr]]
    BY <1>2, AccessFacts DEF HintRight
  <2>2. CASE MarkDirty(t)
    BY <2>1, <2>2 DEF MarkDirty, SetDirty, TypeOK
  <2>3. CASE SwapOut(t)
    <3>1. prm[op[u].aptr] # held[t]
      BY <2>1, <2>3, OtherFrame DEF SwapOut, Evicting
    <3> QED BY <2>1, <2>3, <3>1 DEF SwapOut, ClearDirty, TypeOK
  <2>4. CASE (Step(t) \/ Start(t)) /\ ~MarkDirty(t) /\ ~SwapOut(t)
    <3>1. dirty' = dirty
      BY <2>4 DEF Step, Start, epcVars, Load, Store, DecPrevPage, IncNewPage, Get, LinkMinor, CheckSize, PopFree,
         LlcGet, Decrypt, TryAdd, Publish, GetFound, PutBack, Dequeue, Probe, Requeue, Encrypt, Remove,
         PushFree, Deref, Reset
    <3> QED BY <2>1, <3>1
  <2> QED BY <1>2, <2>2, <2>3, <2>4
<1>3. ASSUME NEW t \in Threads, Step(t) \/ Start(t), pc'[t] = "access", op'[t].write
      PROVE  dirty'[prm'[op'[t].aptr]]
  <2> USE DEF Goto, TypeOK
  <2>1. CASE MarkDirty(t)
    BY <2>1, AccessFacts DEF MarkDirty, SetDirty, aptrVars
  <2>2. CASE Start(t)
    <3>1. CASE \E a \in Aptrs : Reset(t, a)
      BY <1>3, <3>1 DEF Reset
    <3>2. CASE \E a \in Aptrs : \E u \in Uses[a] : Deref(t, a, u[1], u[2])
      <4>0. PICK a \in Aptrs : \E u \in Uses[a] : Deref(t, a, u[1], u[2])
        BY <3>2
      <4>1. PICK u \in Uses[a] : Deref(t, a, u[1], u[2])
        BY <4>0
      <4>2. op'[t].write = u[2]
        BY <4>1 DEF Deref
      <4> QED BY <1>3, <4>1, <4>2 DEF Deref
    <3> QED BY <2>2, <3>1, <3>2 DEF Start
  <2>3. CASE Load(t) \/ (\E v \in Values : Store(t, v)) \/ DecPrevPage(t)
              \/ IncNewPage(t) \/ Get(t) \/ LinkMinor(t) \/ CheckSize(t)
    BY <1>3, <2>3 DEF Load, Store, DecPrevPage, IncNewPage, Get, LinkMinor, CheckSize, Linked
  <2>4. CASE PopFree(t) \/ LlcGet(t) \/ Decrypt(t) \/ TryAdd(t) \/ Publish(t) \/ GetFound(t)
              \/ PutBack(t)
    BY <1>3, <2>4 DEF PopFree, LlcGet, Decrypt, TryAdd, Publish, GetFound, PutBack, Linked
  <2>5. CASE Dequeue(t) \/ Probe(t) \/ Requeue(t) \/ SwapOut(t) \/ Encrypt(t) \/ Remove(t)
              \/ PushFree(t)
    BY <1>3, <2>5 DEF Dequeue, Probe, Requeue, SwapOut, Encrypt, Remove, PushFree
  <2> QED BY <1>3, <2>1, <2>2, <2>3, <2>4, <2>5 DEF Step
<1>4. ASSUME NEW t \in Threads, Step(t) \/ Start(t)
      PROVE  HintRight'
  <2> SUFFICES ASSUME NEW u \in Threads, pc'[u] = "access", op'[u].write
               PROVE  dirty'[prm'[op'[u].aptr]]
    BY DEF HintRight
  <2>1. CASE u = t
    BY <1>3, <1>4, <2>1
  <2>2. CASE u # t
    <3>1. pc[u] = "access" /\ op'[u] = op[u]
      BY <1>4, <2>2, OneMoves
    <3> QED BY <1>1, <1>2, <1>4, <2>2, <3>1
  <2> QED BY <2>1, <2>2
<1> QED BY <1>4 DEF Next

\* The words are always where MemInv says.
LEMMA MemInvariance ==
  ASSUME CountsFit
  PROVE  Spec => [](IInv /\ MemInv)
<1>1. Init => MemInv
  BY DEF Init, MemInv, CachedRight, SealedRight, AddRight, HintRight
<1>2. IInv /\ FInv /\ MemInv /\ [Next]_vars => MemInv'
  <2>1. CASE UNCHANGED vars
    BY <2>1 DEF vars, aptrVars, l1Vars, epcVars, llcVars, userVars, MemInv, CachedRight, SealedRight, Settled,
       Encrypting, AddRight, HintRight
  <2> QED BY <2>1, CachedNext, SealedRightNext, AddNext, HintNext DEF MemInv
<1> QED BY <1>1, <1>2, FInvariance, PTL DEF Spec

\* As long as no count can wrap, SUVM is a flat memory: through any number of
\* faults, lost races, evictions and sealings, by any number of threads, the load
\* a thread started on a page returns the word last stored to that page, and no
\* other step of paging is visible.
THEOREM RefinesFlatMemory ==
  ASSUME CountsFit
  PROVE  Spec => ImplementsSecureMemory
<1>1. Init => FlatMemory!Init
  BY DEF Init, FlatMemory!Init, Wanted
<1>2. ASSUME IInv, MemInv, [Next]_vars
      PROVE  [FlatMemory!Next]_<<stored, Wanted, ret>>
  <2>1. ASSUME NEW t \in Threads, NEW v \in Values, Store(t, v)
        PROVE  FlatMemory!Next
    <3>1. op[t].page \in Pages
      BY <1>2, <2>1, AccessFacts DEF Store
    <3>2. /\ Wanted[t] = <<op[t].page, TRUE>>
          /\ Wanted' = [Wanted EXCEPT ![t] = NoOp]
      <4>1. pc[t] = "access" /\ op[t].write = TRUE
        BY <1>2, <2>1, OpFacts DEF Store, Ops
      <4>2. Wanted'[t] = NoOp
        BY <1>2, <2>1 DEF Store, Goto, Wanted, IInv, TypeOK
      <4>3. \A u \in Threads \ {t} : Wanted'[u] = Wanted[u]
        BY <1>2, <2>1 DEF Store, Goto, Wanted, IInv, TypeOK
      <4> QED BY <4>1, <4>2, <4>3 DEF Wanted
    <3>3. FlatMemory!Write(t, op[t].page, v)
      BY <2>1, <3>2 DEF Store, FlatMemory!Write
    <3> QED BY <3>1, <3>3 DEF FlatMemory!Next
  <2>2. ASSUME NEW t \in Threads, Load(t)
        PROVE  FlatMemory!Next
    <3>1. /\ op[t].page \in Pages /\ prm[op[t].aptr] \in Frames /\ prm[op[t].aptr] # NoFrame
          /\ cache[op[t].page] = prm[op[t].aptr]
      BY <1>2, <2>2, AccessFacts DEF Load
    <3>2. /\ data[prm[op[t].aptr]] \in Values
          /\ stored[op[t].page] \in {data[prm[op[t].aptr]], Undef}
      BY <1>2, <3>1 DEF IInv, TypeOK, MemInv, CachedRight
    <3>3. /\ Wanted[t] = <<op[t].page, FALSE>>
          /\ Wanted' = [Wanted EXCEPT ![t] = NoOp]
      <4>1. pc[t] = "access" /\ op[t].write = FALSE
        BY <1>2, <2>2, OpFacts DEF Load, Ops
      <4>2. Wanted'[t] = NoOp
        BY <1>2, <2>2 DEF Load, Goto, Wanted, IInv, TypeOK
      <4>3. \A u \in Threads \ {t} : Wanted'[u] = Wanted[u]
        BY <1>2, <2>2 DEF Load, Goto, Wanted, IInv, TypeOK
      <4> QED BY <4>1, <4>2, <4>3 DEF Wanted
    <3>4. FlatMemory!Read(t, op[t].page)
      BY <2>2, <3>2, <3>3 DEF Load, FlatMemory!Read
    <3> QED BY <3>1, <3>4 DEF FlatMemory!Next
  <2>3. ASSUME NEW t \in Threads, NEW a \in Aptrs, NEW p \in Pages, NEW w \in BOOLEAN, Deref(t, a, p, w)
        PROVE  FlatMemory!Next
    <3>1. Wanted[t] = NoOp
      BY <2>3 DEF Deref, Wanted
    <3>2. Wanted' = [Wanted EXCEPT ![t] = <<p, w>>]
      <4>1. pc'[t] # "idle" /\ op'[t] = [aptr |-> a, page |-> p, write |-> w]
        BY <1>2, <2>3 DEF Deref, Goto, IInv, TypeOK
      <4>2. \A u \in Threads \ {t} : Wanted'[u] = Wanted[u]
        BY <1>2, <2>3 DEF Deref, Goto, Wanted, IInv, TypeOK
      <4>3. op'[t].page = p /\ op'[t].write = w
        BY <4>1
      <4>4. Wanted'[t] = <<p, w>>
        BY <4>1, <4>3 DEF Wanted
      <4>5. Wanted = [u \in Threads |-> Wanted[u]] /\ Wanted' = [u \in Threads |-> Wanted'[u]]
        BY DEF Wanted
      <4> QED BY <4>2, <4>4, <4>5
    <3>3. FlatMemory!Begin(t, p, w)
      BY <2>3, <3>1, <3>2 DEF Deref, FlatMemory!Begin
    <3> QED BY <3>3 DEF FlatMemory!Next
  <2>4. ASSUME NEW t \in Threads, Step(t), ~Load(t), ~(\E v \in Values : Store(t, v))
        PROVE  UNCHANGED <<stored, Wanted, ret>>
    <3>1. UNCHANGED <<stored, ret, op>>
      BY <2>4 DEF Step, userVars, MarkDirty, DecPrevPage, IncNewPage, Get, LinkMinor, CheckSize, PopFree,
         LlcGet, Decrypt, TryAdd, Publish, GetFound, PutBack, Dequeue, Probe, Requeue, SwapOut, Encrypt, Remove,
         PushFree
    <3>2. pc[t] # "idle" /\ pc'[t] # "idle"
      <4> USE DEF Goto, IInv, TypeOK
      <4>1. CASE MarkDirty(t) \/ DecPrevPage(t) \/ IncNewPage(t) \/ Get(t) \/ LinkMinor(t) \/ CheckSize(t)
        BY <1>2, <4>1 DEF MarkDirty, DecPrevPage, IncNewPage, Get, LinkMinor, CheckSize, Linked
      <4>2. CASE PopFree(t) \/ LlcGet(t) \/ Decrypt(t) \/ TryAdd(t) \/ Publish(t) \/ GetFound(t) \/ PutBack(t)
        BY <1>2, <4>2 DEF PopFree, LlcGet, Decrypt, TryAdd, Publish, GetFound, PutBack, Linked
      <4>3. CASE Dequeue(t) \/ Probe(t) \/ Requeue(t) \/ SwapOut(t) \/ Encrypt(t) \/ Remove(t) \/ PushFree(t)
        BY <1>2, <4>3 DEF Dequeue, Probe, Requeue, SwapOut, Encrypt, Remove, PushFree
      <4> QED BY <2>4, <4>1, <4>2, <4>3 DEF Step
    <3>3. \A u \in Threads \ {t} : pc'[u] = pc[u]
      BY <1>2, <2>4, OneMoves DEF IInv
    <3>4. \A u \in Threads : Wanted'[u] = Wanted[u]
      BY <3>1, <3>2, <3>3 DEF Wanted
    <3> QED BY <3>1, <3>4 DEF Wanted
  <2>5. ASSUME NEW t \in Threads, NEW a \in Aptrs, Reset(t, a)
        PROVE  UNCHANGED <<stored, Wanted, ret>>
    BY <2>5 DEF Reset, userVars, Wanted
  <2>6. CASE UNCHANGED vars
    BY <2>6 DEF vars, userVars, Wanted
  <2>7. ASSUME NEW t \in Threads, Start(t)
        PROVE  [FlatMemory!Next]_<<stored, Wanted, ret>>
    BY <2>3, <2>5, <2>7, UsesAssumption DEF Start
  <2> QED BY <1>2, <2>1, <2>2, <2>4, <2>6, <2>7 DEF Next
<1> QED BY <1>1, <1>2, MemInvariance, PTL DEF Spec, ImplementsSecureMemory, FlatMemory!Spec


=============================================================================
