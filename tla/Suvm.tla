-------------------------------- MODULE Suvm --------------------------------
(***************************************************************************)
(* SUVM, the user-level paging of Eleos: enclave threads read and write a  *)
(* large backing store in untrusted memory through spointers (class Aptr), *)
(* which map its pages into a small set of EPC frames (EPC++).  The module *)
(* models one page fault as the sequence of critical sections and          *)
(* unprotected accesses of page_fault, try_evict_page, PageCache,          *)
(* UsedPagesQueue, CryptoCache and deref, for any number of threads:       *)
(*                                                                         *)
(*  - a bucket lock that is taken and released around one access is one    *)
(*    step; the two critical sections that reach further (an eviction,     *)
(*    which locks in get_page_index_to_evict and unlocks in remove, and    *)
(*    try_add, which enqueues while it holds the bucket) hold it in lock;  *)
(*  - the chained list of a bucket is the part of the function cache that  *)
(*    Bucket maps to it: it is only ever walked under the bucket's lock;   *)
(*  - a page holds one word, and an encrypted page is its word together    *)
(*    with whether the nonce and MAC in the crypto cache match it;         *)
(*  - the vector of free frames is a set: which free frame is taken is not *)
(*    visible in any property;                                             *)
(*  - a failed ASSERT is abort(), which stops every thread.                *)
(*                                                                         *)
(* The build modelled is the one of the repository: DataStructures.h       *)
(* undefines APTR_RANDOM_ACCESS, so there are no sub-pages.                *)
(***************************************************************************)
EXTENDS Integers, Sequences, FiniteSets

CONSTANTS
  Threads,      \* enclave threads
  Aptrs,        \* spointer objects; an Aptr is not thread-safe
  Owner,        \* the thread that uses each spointer
  Uses,         \* the accesses made through it: pages, with and without hint_write
  Pages,        \* page indices of the backing store
  NumBuckets,   \* m_hashmap_size, CACHE_CAPACITY * 10 in the code
  Frames,       \* EPC frames; their number is CACHE_CAPACITY
  Slack,        \* MAX_NUM_OF_THREADS_OPTIMIZATION
  RefMod,       \* number of values of a reference count (unsigned char)
  Values,       \* what a word of memory can hold
  NoThread, NoPage, NoFrame, NoOp, Undef

ASSUME OwnerAssumption  == Owner \in [Aptrs -> Threads]
ASSUME UsesAssumption   == Uses \in [Aptrs -> SUBSET (Pages \X BOOLEAN)]
ASSUME PagesAssumption  == Pages \subseteq Nat /\ NoPage \notin Pages
ASSUME FramesAssumption == IsFiniteSet(Frames) /\ NoFrame \notin Frames
ASSUME ThreadsAssumption == NoThread \notin Threads
ASSUME SizesAssumption  == /\ NumBuckets \in Nat \ {0}
                           /\ Slack \in Nat
                           /\ RefMod \in Nat \ {0}
ASSUME ValuesAssumption == Undef \notin Values /\ Values # {}
ASSUME NoOpAssumption   == NoOp \notin [aptr : Aptrs, page : Pages, write : BOOLEAN]

VARIABLES
  pc,       \* where each thread is
  op,       \* the access it is performing: spointer, page, hint_write
  victim,   \* the page it is evicting
  held,     \* the frame in its local variable prm_ptr (prm_addr when evicting)
  page,     \* aptr_t::page of each spointer once it holds a reference to it
  prm,      \* aptr_t::prm_ptr: a frame, or NoFrame for &DUMMY
  lock,     \* owner of each bucket lock
  cache,    \* the frame of each page in the page cache
  ref,      \* m_ref_count
  size,     \* m_page_cache_size
  used,     \* m_used_pages
  free,     \* g_free_epc_pages
  dirty,    \* the low bit of a frame's address, set for a written frame
  data,     \* the content of each frame
  mac,      \* the crypto cache entry of each page
  ram,      \* the backing store (ciphertext, by the word it decrypts to)
  ret,      \* what a load returned to each thread, until its next access
  stored    \* history: the last word stored to each page

aptrVars == <<page, prm>>
l1Vars   == <<lock, cache, ref, size, used>>
epcVars  == <<free, dirty, data>>
llcVars  == <<mac, ram>>
userVars == <<ret, stored>>
vars == <<pc, op, victim, held, aptrVars, l1Vars, epcVars, llcVars, userVars>>

-----------------------------------------------------------------------------
Bucket(p)  == p % NumBuckets
Buckets    == 0 .. NumBuckets - 1
Ops        == [aptr : Aptrs, page : Pages, write : BOOLEAN]
Capacity   == Cardinality(Frames)
PCs == {"idle", "dec", "inc", "get", "minor", "check", "dequeue", "probe",
        "requeue", "swap", "encrypt", "remove", "release", "pop", "llcget",
        "decrypt", "add", "publish", "found", "putback", "mark", "access",
        "abort"}

\* abort() ends the enclave: no thread moves once one has failed an ASSERT.
Alive == \A t \in Threads : pc[t] # "abort"

Goto(t, l)    == pc' = [pc EXCEPT ![t] = l]
LockFree(p)   == lock[Bucket(p)] = NoThread
Acquire(t, p) == lock' = [lock EXCEPT ![Bucket(p)] = t]
Release(p)    == lock' = [lock EXCEPT ![Bucket(p)] = NoThread]

\* m_ref_count, an array of unsigned char.
IncRef(p) == ref' = [ref EXCEPT ![p] = (@ + 1) % RefMod]
BugDecRef(p) == ref' = ref
DecRef(p) == ref' = [ref EXCEPT ![p] = (@ + RefMod - 1) % RefMod]
BugPinned(p) == ref[p] > 1
Pinned(p) == ref[p] > 0

\* The size at which a major fault starts to evict.
BugEvictLimit == Capacity
EvictLimit == Capacity - Slack

\* UsedPagesQueue: a FIFO with room for one entry per frame.
BugLost(p) == used' = used
BugFront(p) == used' = <<p>> \o used
Enqueue(p) == used' = Append(used, p)

\* The dirty bit of a frame, and the vector of free frames.
BugSetDirty(f) == dirty' = dirty
SetDirty(f)   == dirty' = [dirty EXCEPT ![f] = TRUE]
BugClearDirty(f) == dirty' = dirty
ClearDirty(f) == dirty' = [dirty EXCEPT ![f] = FALSE]
BugGiveBack(f) == free' = free
GiveBack(f)   == free' = free \cup {f}

\* sgx_rijndael128GCM_encrypt of frame f into the backing store of page p.
BugSeal(p, f) == ram' = ram
Seal(p, f) == ram' = [ram EXCEPT ![p] = data[f]]

\* Where deref continues once the spointer is linked: a hinted access first
\* marks the frame dirty.
Linked(t) == IF op[t].write THEN "mark" ELSE "access"

-----------------------------------------------------------------------------
Init ==
  /\ pc     = [t \in Threads |-> "idle"]
  /\ op     = [t \in Threads |-> NoOp]
  /\ victim = [t \in Threads |-> NoPage]
  /\ held   = [t \in Threads |-> NoFrame]
  /\ page   = [a \in Aptrs |-> NoPage]
  /\ prm    = [a \in Aptrs |-> NoFrame]
  /\ lock   = [b \in Buckets |-> NoThread]
  /\ cache  = [p \in Pages |-> NoFrame]
  /\ ref    = [p \in Pages |-> 0]
  /\ size   = 0
  /\ used   = << >>
  /\ free   = Frames
  /\ dirty  = [f \in Frames |-> FALSE]
  /\ data   \in [Frames -> Values]
  /\ mac    = [p \in Pages |-> "none"]
  /\ ram    = [p \in Pages |-> Undef]
  /\ ret    = [t \in Threads |-> Undef]
  /\ stored = [p \in Pages |-> Undef]

(***************************************************************************)
(* The user of a spointer.                                                 *)
(***************************************************************************)

\* operator* on a spointer that stands on page p: the fast path of deref when
\* the spointer is linked to that page, page_fault otherwise.
Deref(t, a, p, w) ==
  /\ pc[t] = "idle"
  /\ Owner[a] = t
  /\ op' = [op EXCEPT ![t] = [aptr |-> a, page |-> p, write |-> w]]
  /\ Goto(t, IF prm[a] # NoFrame
             THEN IF page[a] # p THEN "dec" ELSE IF w THEN "mark" ELSE "access"
             ELSE "inc")
  /\ ret' = [ret EXCEPT ![t] = Undef]
  /\ UNCHANGED <<victim, held, aptrVars, l1Vars, epcVars, llcVars, stored>>

\* reset (the destructor and operator= call it) drops the reference of a
\* linked spointer.
Reset(t, a) ==
  /\ pc[t] = "idle"
  /\ Owner[a] = t
  /\ prm[a] # NoFrame
  /\ LockFree(page[a])
  /\ DecRef(page[a])
  /\ page' = [page EXCEPT ![a] = NoPage]
  /\ prm'  = [prm EXCEPT ![a] = NoFrame]
  /\ UNCHANGED <<pc, op, victim, held, lock, cache, size, used, epcVars,
                 llcVars, userVars>>

\* The end of deref with hint_write: set the dirty bit, without any lock.
MarkDirty(t) ==
  /\ pc[t] = "mark"
  /\ SetDirty(prm[op[t].aptr])
  /\ Goto(t, "access")
  /\ UNCHANGED <<op, victim, held, aptrVars, l1Vars, free, data, llcVars, userVars>>

\* The caller writes through the reference that operator* returned.
Store(t, v) ==
  /\ pc[t] = "access"
  /\ op[t].write
  /\ data' = [data EXCEPT ![prm[op[t].aptr]] = v]
  /\ stored' = [stored EXCEPT ![op[t].page] = v]
  /\ op' = [op EXCEPT ![t] = NoOp]
  /\ Goto(t, "idle")
  /\ UNCHANGED <<victim, held, aptrVars, l1Vars, free, dirty, llcVars, ret>>

\* The caller reads through it.
Load(t) ==
  /\ pc[t] = "access"
  /\ ~op[t].write
  /\ ret' = [ret EXCEPT ![t] = data[prm[op[t].aptr]]]
  /\ op' = [op EXCEPT ![t] = NoOp]
  /\ Goto(t, "idle")
  /\ UNCHANGED <<victim, held, aptrVars, l1Vars, epcVars, llcVars, stored>>

(***************************************************************************)
(* page_fault                                                              *)
(***************************************************************************)

\* Drop the reference to the page the spointer was linked to.
DecPrevPage(t) ==
  LET a == op[t].aptr IN
  /\ pc[t] = "dec"
  /\ LockFree(page[a])
  /\ DecRef(page[a])
  /\ page' = [page EXCEPT ![a] = NoPage]
  /\ prm'  = [prm EXCEPT ![a] = NoFrame]
  /\ Goto(t, "inc")
  /\ UNCHANGED <<op, victim, held, lock, cache, size, used, epcVars, llcVars,
                 userVars>>

\* Move the spointer to its new page and pin that page, cached or not.
IncNewPage(t) ==
  LET p == op[t].page IN
  /\ pc[t] = "inc"
  /\ LockFree(p)
  /\ IncRef(p)
  /\ page' = [page EXCEPT ![op[t].aptr] = p]
  /\ Goto(t, "get")
  /\ UNCHANGED <<op, victim, held, prm, lock, cache, size, used, epcVars,
                 llcVars, userVars>>

\* PageCache::get: minor fault or major fault.
Get(t) ==
  LET p == op[t].page IN
  /\ pc[t] = "get"
  /\ LockFree(p)
  /\ Goto(t, IF cache[p] # NoFrame THEN "minor" ELSE "check")
  /\ UNCHANGED <<op, victim, held, aptrVars, l1Vars, epcVars, llcVars, userVars>>

\* A minor fault reads it->epc after the bucket was unlocked.
LinkMinor(t) ==
  /\ pc[t] = "minor"
  /\ prm' = [prm EXCEPT ![op[t].aptr] = cache[op[t].page]]
  /\ Goto(t, Linked(t))
  /\ UNCHANGED <<op, victim, held, page, l1Vars, epcVars, llcVars, userVars>>

\* The unlocked read of m_page_cache_size decides whether to evict a page.
CheckSize(t) ==
  /\ pc[t] = "check"
  /\ Goto(t, IF size >= EvictLimit THEN "dequeue" ELSE "pop")
  /\ UNCHANGED <<op, victim, held, aptrVars, l1Vars, epcVars, llcVars, userVars>>

\* Take a frame off the free list; ASSERT that there is one.
PopFree(t) ==
  /\ pc[t] = "pop"
  /\ \/ /\ free = {}
        /\ Goto(t, "abort")
        /\ UNCHANGED <<held, free>>
     \/ \E f \in free :
          /\ free' = free \ {f}
          /\ held' = [held EXCEPT ![t] = f]
          /\ Goto(t, "llcget")
  /\ UNCHANGED <<op, victim, aptrVars, l1Vars, dirty, data, llcVars, userVars>>

\* CryptoCache::get: a page that was never sealed has nothing to decrypt, and
\* the frame keeps what it held before.
LlcGet(t) ==
  /\ pc[t] = "llcget"
  /\ Goto(t, IF mac[op[t].page] = "none" THEN "add" ELSE "decrypt")
  /\ UNCHANGED <<op, victim, held, aptrVars, l1Vars, epcVars, llcVars, userVars>>

\* Decrypt the page into the frame; ASSERT that it is authentic.
Decrypt(t) ==
  LET p == op[t].page IN
  /\ pc[t] = "decrypt"
  /\ \/ /\ mac[p] = "valid"
        /\ data' = [data EXCEPT ![held[t]] = ram[p]]
        /\ Goto(t, "add")
     \/ /\ mac[p] # "valid"
        /\ Goto(t, "abort")
        /\ UNCHANGED data
  /\ UNCHANGED <<op, victim, held, aptrVars, l1Vars, free, dirty, llcVars, userVars>>

\* try_add: unless another thread has added the page meanwhile, enter it into
\* the bucket and count it, keeping the bucket locked.
TryAdd(t) ==
  LET p == op[t].page IN
  /\ pc[t] = "add"
  /\ LockFree(p)
  /\ \/ /\ cache[p] = NoFrame
        /\ Acquire(t, p)
        /\ cache' = [cache EXCEPT ![p] = held[t]]
        /\ size' = size + 1
        /\ Goto(t, "publish")
     \/ /\ cache[p] # NoFrame
        /\ Goto(t, "found")
        /\ UNCHANGED <<lock, cache, size>>
  /\ UNCHANGED <<op, victim, held, aptrVars, ref, used, epcVars, llcVars, userVars>>

\* The rest of try_add, enqueue and unlock, and the final link; enqueue
\* ASSERTs that the queue is not full.
Publish(t) ==
  LET p == op[t].page IN
  /\ pc[t] = "publish"
  /\ \/ /\ Len(used) < Capacity
        /\ Enqueue(p)
        /\ Release(p)
        /\ prm' = [prm EXCEPT ![op[t].aptr] = held[t]]
        /\ held' = [held EXCEPT ![t] = NoFrame]
        /\ Goto(t, Linked(t))
     \/ /\ Len(used) = Capacity
        /\ Goto(t, "abort")
        /\ UNCHANGED <<used, lock, prm, held>>
  /\ UNCHANGED <<op, victim, page, cache, ref, size, epcVars, llcVars, userVars>>

\* The loser of try_add looks the page up; ASSERT that it is there.
GetFound(t) ==
  LET p == op[t].page IN
  /\ pc[t] = "found"
  /\ LockFree(p)
  /\ Goto(t, IF cache[p] # NoFrame THEN "putback" ELSE "abort")
  /\ UNCHANGED <<op, victim, held, aptrVars, l1Vars, epcVars, llcVars, userVars>>

\* It returns its own frame to the free list and links to the frame found.
PutBack(t) ==
  /\ pc[t] = "putback"
  /\ GiveBack(held[t])
  /\ held' = [held EXCEPT ![t] = NoFrame]
  /\ prm' = [prm EXCEPT ![op[t].aptr] = cache[op[t].page]]
  /\ Goto(t, Linked(t))
  /\ UNCHANGED <<op, victim, page, l1Vars, dirty, data, llcVars, userVars>>

(***************************************************************************)
(* get_page_index_to_evict and try_evict_page                              *)
(***************************************************************************)

\* Take the oldest page off the queue; dequeue ASSERTs that there is one.
Dequeue(t) ==
  /\ pc[t] = "dequeue"
  /\ \/ /\ used # << >>
        /\ victim' = [victim EXCEPT ![t] = Head(used)]
        /\ used' = Tail(used)
        /\ Goto(t, "probe")
     \/ /\ used = << >>
        /\ Goto(t, "abort")
        /\ UNCHANGED <<victim, used>>
  /\ UNCHANGED <<op, held, aptrVars, lock, cache, ref, size, epcVars, llcVars,
                 userVars>>

\* Lock the victim's bucket.  A pinned page goes back to the queue; one with no
\* reference stays locked (ASSERT that it is cached) until remove.
Probe(t) ==
  LET p == victim[t] IN
  /\ pc[t] = "probe"
  /\ LockFree(p)
  /\ \/ /\ Pinned(p)
        /\ Goto(t, "requeue")
        /\ UNCHANGED <<lock, held>>
     \/ /\ ~Pinned(p)
        /\ Acquire(t, p)
        /\ held' = [held EXCEPT ![t] = cache[p]]
        /\ Goto(t, IF cache[p] # NoFrame THEN "swap" ELSE "abort")
  /\ UNCHANGED <<op, victim, aptrVars, cache, ref, size, used, epcVars,
                 llcVars, userVars>>

Requeue(t) ==
  /\ pc[t] = "requeue"
  /\ \/ /\ Len(used) < Capacity
        /\ Enqueue(victim[t])
        /\ victim' = [victim EXCEPT ![t] = NoPage]
        /\ Goto(t, "dequeue")
     \/ /\ Len(used) = Capacity
        /\ Goto(t, "abort")
        /\ UNCHANGED <<used, victim>>
  /\ UNCHANGED <<op, held, aptrVars, lock, cache, ref, size, epcVars, llcVars,
                 userVars>>

\* A dirty frame is sealed: clear the bit, find or make the page's crypto cache
\* entry and draw a fresh nonce into it.  From here until the encryption ends
\* the entry does not match the ciphertext in the backing store.
SwapOut(t) ==
  /\ pc[t] = "swap"
  /\ \/ /\ dirty[held[t]]
        /\ ClearDirty(held[t])
        /\ mac' = [mac EXCEPT ![victim[t]] = "pending"]
        /\ Goto(t, "encrypt")
     \/ /\ ~dirty[held[t]]
        /\ Goto(t, "remove")
        /\ UNCHANGED <<dirty, mac>>
  /\ UNCHANGED <<op, victim, held, aptrVars, l1Vars, free, data, ram, userVars>>

Encrypt(t) ==
  LET p == victim[t] IN
  /\ pc[t] = "encrypt"
  /\ Seal(p, held[t])
  /\ mac' = [mac EXCEPT ![p] = "valid"]
  /\ Goto(t, "remove")
  /\ UNCHANGED <<op, victim, held, aptrVars, l1Vars, epcVars, userVars>>

\* PageCache::remove: count the page out, unlink it and unlock its bucket.
Remove(t) ==
  LET p == victim[t] IN
  /\ pc[t] = "remove"
  /\ size' = size - 1
  /\ cache' = [cache EXCEPT ![p] = NoFrame]
  /\ Release(p)
  /\ victim' = [victim EXCEPT ![t] = NoPage]
  /\ Goto(t, "release")
  /\ UNCHANGED <<op, held, aptrVars, ref, used, epcVars, llcVars, userVars>>

\* Return the frame to the free list.
PushFree(t) ==
  /\ pc[t] = "release"
  /\ GiveBack(held[t])
  /\ held' = [held EXCEPT ![t] = NoFrame]
  /\ Goto(t, "pop")
  /\ UNCHANGED <<op, victim, aptrVars, l1Vars, dirty, data, llcVars, userVars>>

-----------------------------------------------------------------------------
\* A step of the access that thread t has started.
Step(t) ==
  \/ MarkDirty(t) \/ Load(t) \/ (\E v \in Values : Store(t, v))
  \/ DecPrevPage(t) \/ IncNewPage(t) \/ Get(t) \/ LinkMinor(t)
  \/ CheckSize(t) \/ PopFree(t) \/ LlcGet(t) \/ Decrypt(t)
  \/ TryAdd(t) \/ Publish(t) \/ GetFound(t) \/ PutBack(t)
  \/ Dequeue(t) \/ Probe(t) \/ Requeue(t)
  \/ SwapOut(t) \/ Encrypt(t) \/ Remove(t) \/ PushFree(t)

\* Thread t, outside any access, uses or resets one of its spointers.
Start(t) ==
  \E a \in Aptrs :
    \/ \E u \in Uses[a] : Deref(t, a, u[1], u[2])
    \/ Reset(t, a)

Next == Alive /\ \E t \in Threads : Step(t) \/ Start(t)

Spec == Init /\ [][Next]_vars

\* A thread that has started an access keeps being scheduled.
FairSpec == Spec /\ \A t \in Threads : WF_vars(Alive /\ Step(t))
-----------------------------------------------------------------------------
(***************************************************************************)
(* Properties                                                              *)
(***************************************************************************)

\* Type invariant.  A reference count wraps at RefMod as an unsigned char does.
TypeOK ==
  /\ pc     \in [Threads -> PCs]
  /\ op     \in [Threads -> Ops \cup {NoOp}]
  /\ victim \in [Threads -> Pages \cup {NoPage}]
  /\ held   \in [Threads -> Frames \cup {NoFrame}]
  /\ page   \in [Aptrs -> Pages \cup {NoPage}]
  /\ prm    \in [Aptrs -> Frames \cup {NoFrame}]
  /\ lock   \in [Buckets -> Threads \cup {NoThread}]
  /\ cache  \in [Pages -> Frames \cup {NoFrame}]
  /\ ref    \in [Pages -> 0 .. RefMod - 1]
  /\ size   \in Int
  /\ used   \in Seq(Pages)
  /\ free   \in SUBSET Frames
  /\ dirty  \in [Frames -> BOOLEAN]
  /\ data   \in [Frames -> Values]
  /\ mac    \in [Pages -> {"none", "pending", "valid"}]
  /\ ram    \in [Pages -> Values \cup {Undef}]
  /\ ret    \in [Threads -> Values \cup {Undef}]
  /\ stored \in [Pages -> Values \cup {Undef}]

\* A spointer that is linked points at the frame that the page cache holds for
\* its page: the page it pins is never evicted under it, and the frame never
\* handed to another page, whatever other threads fault in and evict between
\* the deref and the use of the reference.  The same holds for the item found
\* by a minor fault or by the loser of try_add, which is read after its bucket
\* was unlocked.
PinnedStaysCached ==
  /\ \A a \in Aptrs : prm[a] # NoFrame =>
       page[a] \in Pages /\ cache[page[a]] = prm[a]
  /\ \A t \in Threads : pc[t] \in {"minor", "putback"} =>
       cache[op[t].page] # NoFrame

\* m_ref_count counts the spointers that stand on the page: no path through
\* page_fault, operator= or the destructor leaks a reference or drops one twice.
RefCountExact ==
  \A p \in Pages : ref[p] = Cardinality({a \in Aptrs : page[a] = p}) % RefMod

\* Frames are neither lost nor shared: each one is on the free list, or in the
\* page cache for one page, or in the hands of one thread, and never two of
\* these (a frame entered by try_add, or being evicted, is still cached).
InTransit(t) == pc[t] \in {"release", "llcget", "decrypt", "add", "found", "putback"}
FramesPartitioned ==
  \A f \in Frames :
    Cardinality({p \in Pages : cache[p] = f})
    + Cardinality({t \in Threads : InTransit(t) /\ held[t] = f})
    + (IF f \in free THEN 1 ELSE 0) = 1

\* A page is in the FIFO of eviction candidates exactly once while it is
\* cached, except while one thread has it in hand: between its dequeue and the
\* requeue or removal, or between its entry into the bucket and its enqueue.
InHand(t, p) ==
  \/ pc[t] \in {"probe", "requeue", "swap", "encrypt", "remove"} /\ victim[t] = p
  \/ pc[t] = "publish" /\ op[t].page = p
UsedQueueExact ==
  \A p \in Pages :
    Cardinality({i \in DOMAIN used : used[i] = p})
    + Cardinality({t \in Threads : InHand(t, p)})
    = (IF cache[p] # NoFrame THEN 1 ELSE 0)

\* A frame that is not cached carries no dirty bit, so a page that is faulted
\* in later is not sealed because of what the frame held before.
OnlyCachedDirty ==
  \A f \in Frames : dirty[f] => \E p \in Pages : cache[p] = f

\* No ASSERT on the paging path ever fails: the free list has a frame and the
\* queue a victim for every thread that passed the unlocked size check, the
\* queue never overflows, a victim and a lost race's page are cached, and every
\* page that is decrypted matches its nonce and MAC.
NeverAborts == Alive

\* SUVM implements a flat memory: paging, eviction, sealing and lost races are
\* invisible, and the load a thread started on a page returns the last value
\* stored to that page, by whichever thread and through whichever frame.
Wanted == [t \in Threads |-> IF pc[t] = "idle" THEN NoOp
                             ELSE <<op[t].page, op[t].write>>]
FlatMemory == INSTANCE SecureMemory WITH mem <- stored, want <- Wanted
ImplementsSecureMemory == FlatMemory!Spec

\* Either threads keep starting accesses for ever, or every access that was
\* started ends: locks, the eviction loop and lost races never leave a page
\* fault behind that cannot finish.
AccessesComplete ==
  \/ []<><<\E t \in Threads : Start(t)>>_vars
  \/ []<>(\A t \in Threads : pc[t] = "idle")
=============================================================================
