------------------------------ MODULE PageTable ------------------------------
(***************************************************************************)
(* The two tables of SUVM at the level of their lists: PageCache, whose    *)
(* items come and go, and CryptoCache, whose items stay.  Module Suvm has  *)
(* a set of cached pages where this module has buckets with a lock, a head *)
(* and items that are allocated, linked through next, unlinked and         *)
(* deleted.  The threads use them as page_fault and try_evict_page do: a   *)
(* page's count is raised, the item got, or the page added, perhaps after  *)
(* another was evicted; and the item that get returns is read after the    *)
(* bucket's lock is released.                                              *)
(*                                                                         *)
(* The code is there twice, for Linux and for Windows; the Windows copy    *)
(* keeps its size under a lock of its own.                                 *)
(***************************************************************************)
EXTENDS Integers, Sequences, FiniteSets, FiniteSetsExt, SequencesExt

CONSTANTS
  Threads,
  Pages,        \* page indices
  Written,      \* the pages that are written to, and so may be dirty
  NumBuckets,   \* num_of_buckets of both tables
  EvictAt,      \* the size from which a fault evicts, CACHE_CAPACITY - 10
  Cells,        \* addresses of items: naturals
  Ports,        \* a subset of {"linux", "windows"}
  Null

ASSUME ThreadsAssumption == IsFiniteSet(Threads) /\ Null \notin Threads
ASSUME PagesAssumption   == Pages \subseteq Nat /\ Null \notin Pages
ASSUME WrittenAssumption == Written \subseteq Pages /\ IsFiniteSet(Written)
ASSUME SizesAssumption   == /\ NumBuckets \in Nat \ {0} /\ EvictAt \in Nat \ {0}
                            /\ Cardinality(Threads) <= EvictAt
\* There is memory for an item of every page that can be in a table at a time.
ASSUME CellsAssumption   == /\ Cells \subseteq Nat /\ IsFiniteSet(Cells) /\ Null \notin Cells
                            /\ EvictAt - 1 + Cardinality(Threads) <= Cardinality(Cells)
                            /\ Cardinality(Written) <= Cardinality(Cells)
ASSUME NullAssumption    == Null \notin [page : Pages, next : Cells \cup {Null}]

Buckets == 0..(NumBuckets - 1)
Bucket(p) == p % NumBuckets

VARIABLES
  port,
  head, lock,   \* the page cache's buckets
  item,         \* its items: page_index and next, or Null where nothing is allocated
  size,         \* m_page_cache_size
  refCount,     \* m_ref_count
  used,         \* m_used_pages
  chead, citem, \* the crypto cache's buckets and items
  thr           \* the threads: the page each faults in, the pointer it holds, its victim

cacheVars  == <<head, lock, item, size>>
cryptoVars == <<chead, citem>>
vars == <<port, cacheVars, refCount, used, cryptoVars, thr>>

----------------------------------------------------------------------------
(* Lists: the addresses a walk from h along next gets to.                  *)
Nexts(heap, cs) == {heap[c].next : c \in {x \in cs : heap[x] # Null}} \ {Null}
Reach(heap, h) ==
  LET R[n \in 0..Cardinality(Cells)] ==
        IF n = 0 THEN {h} \ {Null} ELSE LET r == R[n - 1] IN r \cup Nexts(heap, r)
  IN R[Cardinality(Cells)]

(* get_internal: the item of page p in the list from h. *)
get_internal(heap, h, p) ==
  LET hits == {c \in Reach(heap, h) : heap[c].page = p}
  IN IF hits = {} THEN Null ELSE CHOOSE c \in hits : TRUE

New(heap) == Min({c \in Cells : heap[c] = Null})
LastOf(heap, h) == CHOOSE c \in Reach(heap, h) : heap[c].next = Null

(* new item_t at the end of the list, whose head is h. *)
Linked(heap, h, p) ==
  LET it == [page |-> p, next |-> Null]
  IN IF h = Null THEN [heap EXCEPT ![New(heap)] = it]
     ELSE [heap EXCEPT ![New(heap)] = it, ![LastOf(heap, h)].next = New(heap)]
LinkedHead(heap, h) == IF h = Null THEN New(heap) ELSE h

(* delete p: the item that points to it, if any, then points past it. *)
Prev(heap, h, c) == {x \in Reach(heap, h) : heap[x].next = c}
BugUnlinked(heap, h, c) == [heap EXCEPT ![c] = Null]
Unlinked(heap, h, c) ==
  [x \in Cells |-> CASE x = c -> Null
                     [] x \in Prev(heap, h, c) -> [heap[x] EXCEPT !.next = heap[c].next]
                     [] OTHER -> heap[x]]
UnlinkedHead(heap, h, c) == IF h = c THEN heap[c].next ELSE h

----------------------------------------------------------------------------
Idle == [pc |-> "idle", page |-> Null, ptr |-> Null, victim |-> Null]

(* init of both tables. *)
Init ==
  /\ port \in Ports
  /\ head = [b \in Buckets |-> Null] /\ lock = [b \in Buckets |-> Null]
  /\ item = [c \in Cells |-> Null] /\ size = 0
  /\ refCount = [p \in Pages |-> 0] /\ used = <<>>
  /\ chead = [b \in Buckets |-> Null] /\ citem = [c \in Cells |-> Null]
  /\ thr = [t \in Threads |-> Idle]

At(t, pc) == thr[t].pc = pc
Go(t, r) == thr' = [thr EXCEPT ![t] = [f \in DOMAIN @ |-> IF f \in DOMAIN r THEN r[f] ELSE @[f]]]
Free(p) == lock[Bucket(p)] = Null
Here(p) == get_internal(item, head[Bucket(p)], p)

(* A spinlock that is taken and released in one method: a step of its own. *)
IncRefCount(t) ==
  \E p \in Pages :
    /\ At(t, "idle") /\ Free(p)
    /\ refCount' = [refCount EXCEPT ![p] = @ + 1]
    /\ Go(t, [pc |-> "get", page |-> p])
    /\ UNCHANGED <<port, cacheVars, used, cryptoVars>>

DecRefCount(t) ==
  /\ At(t, "linked") /\ Free(thr[t].page)
  /\ refCount' = [refCount EXCEPT ![thr[t].page] = @ - 1]
  /\ thr' = [thr EXCEPT ![t] = Idle]
  /\ UNCHANGED <<port, cacheVars, used, cryptoVars>>

(* The pointer is returned after the unlock.  After a lost try_add it must  *)
(* not be NULL: ASSERT.                                                    *)
Get(t) ==
  /\ thr[t].pc \in {"get", "found"} /\ Free(thr[t].page)
  /\ LET c == Here(thr[t].page)
     IN Go(t, [ptr |-> c, pc |-> CASE c # Null -> "read"
                                   [] c = Null /\ At(t, "get") -> "check"
                                   [] OTHER -> "aborted"])
  /\ UNCHANGED <<port, cacheVars, refCount, used, cryptoVars>>

(* aptr->prm_ptr = it->epc, with no lock held. *)
ReadItem(t) ==
  /\ At(t, "read")
  /\ Go(t, [pc |-> IF item[thr[t].ptr] = Null THEN "aborted" ELSE "linked", ptr |-> Null])
  /\ UNCHANGED <<port, cacheVars, refCount, used, cryptoVars>>

(* m_page_cache_size is read with no lock held. *)
CheckSize(t) ==
  /\ At(t, "check")
  /\ Go(t, [pc |-> IF size >= EvictAt THEN "dequeue" ELSE "decrypt"])
  /\ UNCHANGED <<port, cacheVars, refCount, used, cryptoVars>>

----------------------------------------------------------------------------
(* get_page_index_to_evict returns with the bucket locked; remove unlocks.  *)
Dequeue(t) ==
  /\ At(t, "dequeue")
  /\ IF used = <<>> THEN Go(t, [pc |-> "aborted"]) /\ UNCHANGED used
     ELSE Go(t, [pc |-> "probe", victim |-> Head(used)]) /\ used' = Tail(used)
  /\ UNCHANGED <<port, cacheVars, refCount, cryptoVars>>

Probe(t) ==
  LET v == thr[t].victim
  IN /\ At(t, "probe") /\ Free(v)
     /\ IF refCount[v] > 0 THEN Go(t, [pc |-> "requeue"]) /\ UNCHANGED lock
        ELSE /\ lock' = [lock EXCEPT ![Bucket(v)] = t]
             /\ Go(t, [pc |-> IF Here(v) = Null THEN "aborted" ELSE "evict", ptr |-> Here(v)])
     /\ UNCHANGED <<port, head, item, size, refCount, used, cryptoVars>>

Requeue(t) ==
  /\ At(t, "requeue")
  /\ used' = Append(used, thr[t].victim)
  /\ Go(t, [pc |-> "dequeue", victim |-> Null])
  /\ UNCHANGED <<port, cacheVars, refCount, cryptoVars>>

ToEvict(t) == Dequeue(t) \/ Probe(t) \/ Requeue(t)

(* A dirty page is written back first: CryptoCache::add finds its item or   *)
(* makes one, under the lock of the crypto bucket.                         *)
CryptoAdd(t) ==
  LET v == thr[t].victim
      b == Bucket(v)
  IN /\ At(t, "evict") /\ v \in Written
     /\ IF get_internal(citem, chead[b], v) # Null THEN UNCHANGED cryptoVars
        ELSE /\ citem' = Linked(citem, chead[b], v)
             /\ chead' = [chead EXCEPT ![b] = LinkedHead(citem, @)]
     /\ Go(t, [pc |-> "remove"])
     /\ UNCHANGED <<port, cacheVars, refCount, used>>
CleanVictim(t) ==
  /\ At(t, "evict") /\ Go(t, [pc |-> "remove"])
  /\ UNCHANGED <<port, cacheVars, refCount, used, cryptoVars>>

RemoveItem(t) ==
  LET v == thr[t].victim
      b == Bucket(v)
      c == Here(v)
  IN /\ At(t, "remove")
     /\ IF c = Null THEN Go(t, [pc |-> "aborted"]) /\ UNCHANGED cacheVars
        ELSE /\ size' = size - 1
             /\ head' = [head EXCEPT ![b] = UnlinkedHead(item, @, c)]
             /\ item' = Unlinked(item, head[b], c)
             /\ lock' = [lock EXCEPT ![b] = Null]
             /\ Go(t, [pc |-> "decrypt", ptr |-> Null, victim |-> Null])
     /\ UNCHANGED <<port, refCount, used, cryptoVars>>

----------------------------------------------------------------------------
(* The crypto item, if there is one, is read with no lock held. *)
CryptoGet(t) ==
  /\ At(t, "decrypt")
  /\ Go(t, [pc |-> "add", ptr |-> get_internal(citem, chead[Bucket(thr[t].page)], thr[t].page)])
  /\ UNCHANGED <<port, cacheVars, refCount, used, cryptoVars>>

(* The new item is linked and counted, then its page is enqueued for        *)
(* eviction and the bucket unlocked.                                       *)
TryAdd(t) ==
  LET p == thr[t].page
      b == Bucket(p)
  IN \/ /\ At(t, "add") /\ Free(p)
        /\ IF Here(p) # Null THEN Go(t, [pc |-> "found", ptr |-> Null]) /\ UNCHANGED cacheVars
           ELSE /\ item' = Linked(item, head[b], p)
                /\ head' = [head EXCEPT ![b] = LinkedHead(item, @)]
                /\ size' = size + 1
                /\ lock' = [lock EXCEPT ![b] = t]
                /\ Go(t, [pc |-> "publish", ptr |-> Null])
        /\ UNCHANGED <<port, refCount, used, cryptoVars>>
     \/ /\ At(t, "publish")
        /\ used' = Append(used, p)
        /\ lock' = [lock EXCEPT ![b] = Null]
        /\ Go(t, [pc |-> "linked"])
        /\ UNCHANGED <<port, head, item, size, refCount, cryptoVars>>

----------------------------------------------------------------------------
(* The two copies: of the classes, and of the functions that call them,     *)
(* where the frames and the encryption are left to module Suvm.  A count   *)
(* is lowered by reset, or by the page_fault that moves a spointer on.     *)
inc_ref_count(t) == port = "linux" /\ IncRefCount(t)
dec_ref_count(t) == port = "linux" /\ DecRefCount(t)
get(t) == port = "linux" /\ Get(t)
get_page_index_to_evict(t) == port = "linux" /\ ToEvict(t)
remove(t) == port = "linux" /\ RemoveItem(t)
try_add(t) == port = "linux" /\ TryAdd(t)
crypto_add(t) == port = "linux" /\ CryptoAdd(t)
crypto_get(t) == port = "linux" /\ CryptoGet(t)
try_evict_page(t) == crypto_add(t) \/ (port = "linux" /\ CleanVictim(t)) \/ remove(t)
page_fault(t) ==
  \/ inc_ref_count(t) \/ get(t) \/ (port = "linux" /\ (ReadItem(t) \/ CheckSize(t)))
  \/ get_page_index_to_evict(t) \/ try_evict_page(t) \/ crypto_get(t) \/ try_add(t)

win_inc_ref_count(t) == port = "windows" /\ IncRefCount(t)
win_dec_ref_count(t) == port = "windows" /\ DecRefCount(t)
win_get(t) == port = "windows" /\ Get(t)
win_get_page_index_to_evict(t) == port = "windows" /\ ToEvict(t)
win_remove(t) == port = "windows" /\ RemoveItem(t)
win_try_add(t) == port = "windows" /\ TryAdd(t)
win_crypto_add(t) == port = "windows" /\ CryptoAdd(t)
win_crypto_get(t) == port = "windows" /\ CryptoGet(t)
win_try_evict_page(t) == win_crypto_add(t) \/ (port = "windows" /\ CleanVictim(t)) \/ win_remove(t)
win_page_fault(t) ==
  \/ win_inc_ref_count(t) \/ win_get(t) \/ (port = "windows" /\ (ReadItem(t) \/ CheckSize(t)))
  \/ win_get_page_index_to_evict(t) \/ win_try_evict_page(t) \/ win_crypto_get(t) \/ win_try_add(t)

Next ==
  \E t \in Threads :
    page_fault(t) \/ dec_ref_count(t) \/ win_page_fault(t) \/ win_dec_ref_count(t)

Spec == Init /\ [][Next]_vars

----------------------------------------------------------------------------
(* What is allocated is what the buckets hold: no item is lost, deleted     *)
(* while it is linked, in a wrong bucket or twice in a list.               *)
ListsExact(heap, h) ==
  /\ UNION {Reach(heap, h[b]) : b \in Buckets} = {c \in Cells : heap[c] # Null}
  /\ \A b \in Buckets : \A c, d \in Reach(heap, h[b]) :
       Bucket(heap[c].page) = b /\ (heap[c].page = heap[d].page => c = d)

(* The lists are the map that module Suvm takes them for.  Both tables hold *)
(* what was added and not removed, the size counts it, and the pages queued *)
(* for eviction, with the ones a thread holds, are the pages that are      *)
(* there.  The pointer a thread has from get_page_index_to_evict, or from  *)
(* get after the unlock, is to the item of its page, although other        *)
(* threads delete and allocate items meanwhile; and no ASSERT fails.       *)
TableExact ==
  /\ ListsExact(item, head) /\ ListsExact(citem, chead)
  /\ size = Cardinality({c \in Cells : item[c] # Null})
  /\ LET held == {t \in Threads : thr[t].victim # Null \/ At(t, "publish")}
         pages == [t \in held |-> IF At(t, "publish") THEN thr[t].page ELSE thr[t].victim]
         there == {item[c].page : c \in {x \in Cells : item[x] # Null}}
     IN /\ ToSet(used) \cup {pages[t] : t \in held} = there
        /\ Len(used) + Cardinality(held) = Cardinality(there)
  /\ \A t \in Threads :
       /\ ~At(t, "aborted")
       /\ thr[t].pc \in {"evict", "remove"} => thr[t].ptr = Here(thr[t].victim) /\ lock[Bucket(thr[t].victim)] = t
       /\ At(t, "read") => thr[t].ptr = Here(thr[t].page) /\ item[thr[t].ptr].page = thr[t].page
       /\ At(t, "add") /\ thr[t].ptr # Null => citem[thr[t].ptr].page = thr[t].page
============================================================================
