-------------------------- MODULE PageTableProofs --------------------------
(***************************************************************************)
(* Machine-checked proof that the page cache and the crypto cache, lists   *)
(* of items that threads allocate, link, walk, unlink and delete, are the  *)
(* maps that module Suvm takes them for, for any number of threads, pages, *)
(* buckets and addresses and for both ports: the lists are exact, the size *)
(* and the queue of eviction candidates agree with them, no pointer that a *)
(* thread keeps after an unlock dangles, and no ASSERT fails.              *)
(***************************************************************************)
EXTENDS PageTable, FiniteSetTheorems, WellFoundedInduction, NaturalsInduction,
        SequenceTheorems, TLAPS

-----------------------------------------------------------------------------
(***************************************************************************)
(* The inductive invariant                                                 *)
(***************************************************************************)

\* The addresses at which an item is allocated, and the pages of the items.
Items(heap) == {c \in Cells : heap[c] # Null}
Present(heap) == {heap[c].page : c \in Items(heap)}
IsItem(heap, c, p) == c \in Items(heap) /\ heap[c].page = p

\* A table of singly linked lists: each list leads up in rank, so that it does
\* not run in a circle, through items of its own bucket; every item is the head
\* of its list or follows exactly one other; and no page has two items.
HeapType == [Cells -> [page : Pages, next : Cells \cup {Null}] \cup {Null}]
HeadType == [Buckets -> Cells \cup {Null}]
Chained(heap, h, rank) ==
  /\ \A c \in Items(heap) : heap[c].next # Null =>
       /\ heap[c].next \in Items(heap)
       /\ Bucket(heap[heap[c].next].page) = Bucket(heap[c].page)
       /\ rank[c] < rank[heap[c].next]
  /\ \A b \in Buckets : h[b] # Null => h[b] \in Items(heap) /\ Bucket(heap[h[b]].page) = b
  /\ \A c \in Items(heap) :
       h[Bucket(heap[c].page)] = c \/ \E d \in Items(heap) : heap[d].next = c
  /\ \A c, d \in Items(heap) : heap[c].next # Null /\ heap[c].next = heap[d].next => c = d
  /\ \A c \in Items(heap), b \in Buckets : heap[c].next # Null => heap[c].next # h[b]
  /\ \A c, d \in Items(heap) : heap[c].page = heap[d].page => c = d
Table(heap, h) ==
  /\ heap \in HeapType /\ h \in HeadType
  /\ \E rank \in [Cells -> Nat] : Chained(heap, h, rank)

\* The stages of page_fault; a thread that aborts is at none of them.
Stages == {"idle", "get", "found", "read", "linked", "check", "dequeue", "probe", "requeue",
           "evict", "remove", "decrypt", "add", "publish"}
Evicting == {"probe", "requeue", "evict", "remove"}
Types ==
  /\ lock \in [Buckets -> Threads \cup {Null}]
  /\ refCount \in [Pages -> Nat]
  /\ used \in Seq(Pages)
  /\ thr \in [Threads -> [pc : Stages, page : Pages \cup {Null}, ptr : Cells \cup {Null},
                          victim : Pages \cup {Null}]]
  /\ \A t \in Threads : thr[t].page = Null <=> thr[t].pc = "idle"
  /\ \A t \in Threads : thr[t].victim # Null <=> thr[t].pc \in Evicting

\* A bucket is locked by the thread that evicts a page of it or adds one to it.
Owns(t, b) ==
  \/ thr[t].pc \in {"evict", "remove"} /\ Bucket(thr[t].victim) = b
  \/ thr[t].pc = "publish" /\ Bucket(thr[t].page) = b
LockInv == \A b \in Buckets, t \in Threads : lock[b] = t <=> Owns(t, b)

\* A page's count is the threads that fault it in or use it, and a page that has
\* one is not evicted; nor is it absent once its thread has found or added it.
Pinning(p) == {t \in Threads : thr[t].page = p}
PinInv ==
  /\ \A p \in Pages : refCount[p] = Cardinality(Pinning(p))
  /\ \A t, u \in Threads : thr[t].pc \in {"evict", "remove"} => thr[u].page # thr[t].victim
  /\ \A t \in Threads : thr[t].pc \in {"found", "read", "linked", "publish"} => thr[t].page \in Present(item)

\* The pointers that threads keep.
PtrInv ==
  \A t \in Threads :
    /\ thr[t].pc = "read" => IsItem(item, thr[t].ptr, thr[t].page)
    /\ thr[t].pc \in {"evict", "remove"} => IsItem(item, thr[t].ptr, thr[t].victim)
    /\ thr[t].pc = "add" /\ thr[t].ptr # Null => IsItem(citem, thr[t].ptr, thr[t].page)

\* A page is once in the queue or in the hands of one thread if it is in the
\* cache, and not at all if it is not.
InHand(t, p) == (thr[t].pc \in Evicting /\ thr[t].victim = p) \/ (thr[t].pc = "publish" /\ thr[t].page = p)
QueueInv ==
  /\ \A i, j \in DOMAIN used : used[i] = used[j] => i = j
  /\ \A t, u \in Threads, p \in Pages : InHand(t, p) /\ InHand(u, p) => t = u
  /\ \A i \in DOMAIN used, t \in Threads : ~InHand(t, used[i])
  /\ \A p \in Pages : p \in Present(item) <=>
       (\E i \in DOMAIN used : used[i] = p) \/ (\E t \in Threads : InHand(t, p))

\* The size counts the items, and with them what is queued or held.  The items are
\* no fewer than the threads sent to evict or publishing, for those were sent when
\* there were EvictAt, and no more than EvictAt - 1 and one for every thread.
In(S) == {t \in Threads : thr[t].pc \in S}
Holding  == Evicting \cup {"publish"}
Sent     == Holding \cup {"dequeue"}
Claiming == {"decrypt", "add"}
SizeInv ==
  /\ size = Cardinality(Items(item))
  /\ Len(used) + Cardinality(In(Holding)) = size
  /\ Cardinality(In(Sent)) <= size
  /\ size + Cardinality(In(Claiming)) <= EvictAt - 1 + Cardinality(Threads)

TInv ==
  /\ Types /\ Table(item, head) /\ Table(citem, chead) /\ Present(citem) \subseteq Written
  /\ LockInv /\ PinInv /\ PtrInv /\ QueueInv /\ SizeInv

-----------------------------------------------------------------------------
(***************************************************************************)
(* Walks along a list                                                      *)
(***************************************************************************)

\* Every non-empty set of natural numbers has a least element.
LEMMA Least ==
  ASSUME NEW T, T \subseteq Nat, T # {}
  PROVE  \E x \in T : \A y \in T : x <= y
<1> DEFINE R == {ss \in Nat \X Nat : ss[1] < ss[2]}
<1>1. IsWellFoundedOn(R, Nat)
  BY NatLessThanWellFounded DEF OpToRel
<1>2. \A y, x \in T : <<y, x>> \in R <=> y < x
  OBVIOUS
<1> HIDE DEF R
<1>3. PICK x \in T : \A y \in T : ~(<<y, x>> \in R)
  BY <1>1, WFMin
<1>4. \A y \in T : x \in Nat /\ y \in Nat /\ ~(y < x)
  BY <1>2, <1>3
<1>5. \A y \in T : x <= y
  BY <1>4
<1> QED BY <1>5

\* A function defined by recursion exists: g[0] = a, and F leads from g[n - 1] to g[n].
LEMMA Iterates ==
  ASSUME NEW N \in Nat, NEW S, NEW a \in S, NEW F \in [S -> S]
  PROVE  \E g \in [0 .. N -> S] : g[0] = a /\ \A n \in 1 .. N : g[n] = F[g[n - 1]]
<1> DEFINE Good(n, g) == g \in [0 .. n -> S] /\ g[0] = a /\ \A m \in 1 .. n : g[m] = F[g[m - 1]]
           T == {n \in Nat : ~ \E g : Good(n, g)}
<1>1. ASSUME T # {} PROVE FALSE
  <2>1. PICK n \in T : \A m \in T : n <= m
    BY <1>1, Least
  <2>2. n \in Nat /\ ~ \E g : Good(n, g)
    OBVIOUS
  <2>3. n # 0
    <3>1. Good(0, [m \in 0 .. 0 |-> a])
      OBVIOUS
    <3> QED BY <2>2, <3>1
  <2>4. n - 1 \in Nat /\ n - 1 \notin T
    <3>1. n - 1 \in Nat /\ ~(n <= n - 1)
      BY <2>2, <2>3
    <3> HIDE DEF T
    <3> QED BY <2>1, <3>1
  <2>5. PICK g : Good(n - 1, g)
    BY <2>4
  <2> DEFINE h == [m \in 0 .. n |-> IF m = n THEN F[g[n - 1]] ELSE g[m]]
  <2>6. Good(n, h)
    <3>0. g \in [0 .. n - 1 -> S] /\ g[0] = a /\ \A m \in 1 .. n - 1 : g[m] = F[g[m - 1]]
      BY <2>5
    <3>1. n - 1 \in 0 .. n - 1 /\ \A m \in 0 .. n : m # n => m \in 0 .. n - 1
      BY <2>2, <2>3
    <3>2. h \in [0 .. n -> S]
      BY <3>0, <3>1
    <3>3. h[0] = a
      BY <2>2, <2>3, <3>0
    <3>4. ASSUME NEW m \in 1 .. n PROVE h[m] = F[h[m - 1]]
      <4>1. m \in 0 .. n /\ m - 1 \in 0 .. n /\ m - 1 # n /\ (m # n => m \in 1 .. n - 1)
        BY <2>2
      <4>2. h[m - 1] = g[m - 1]
        BY <4>1
      <4>3. CASE m = n
        BY <4>1, <4>2, <4>3
      <4>4. CASE m # n
        BY <3>0, <4>1, <4>2, <4>4
      <4> QED BY <4>3, <4>4
    <3> QED BY <3>2, <3>3, <3>4
  <2> QED BY <2>2, <2>6
<1>2. N \notin T
  BY <1>1
<1> QED BY <1>2

\* The number of addresses bounds a walk.
Steps == Cardinality(Cells)
\* The number of steps of a walk is a number.
LEMMA StepsNat == Steps \in Nat
BY CellsAssumption, FS_CardinalityType DEF Steps

\* The recursion that Reach unfolds.
Walk(heap, h) == CHOOSE f : f = [n \in 0 .. Cardinality(Cells) |->
        IF n = 0 THEN {h} \ {Null} ELSE LET r == f[n - 1] IN r \cup Nexts(heap, r)]

\* What a walk gets to is what it has after as many steps as there are addresses.
LEMMA ReachIsWalk ==
  ASSUME NEW heap, NEW h
  PROVE  Reach(heap, h) = Walk(heap, h)[Steps]
BY Zenon DEF Reach, Walk, Steps

\* How the walk begins and goes on.
LEMMA WalkStep ==
  ASSUME NEW heap \in HeapType, NEW h \in Cells \cup {Null}
  PROVE  /\ Walk(heap, h)[0] = {h} \ {Null}
         /\ \A n \in 1 .. Steps :
              Walk(heap, h)[n] = Walk(heap, h)[n - 1] \cup Nexts(heap, Walk(heap, h)[n - 1])
<1> DEFINE S == SUBSET Cells
           a == {h} \ {Null}
           F == [r \in S |-> r \cup Nexts(heap, r)]
           Body(f) == [n \in 0 .. Steps |->
                         IF n = 0 THEN {h} \ {Null} ELSE LET r == f[n - 1] IN r \cup Nexts(heap, r)]
<1>1. a \in S
  OBVIOUS
<1>2. F \in [S -> S]
  <2>1. ASSUME NEW r \in S PROVE r \cup Nexts(heap, r) \in S
    BY DEF HeapType, Nexts
  <2> QED BY <2>1
<1>3. Steps \in Nat
  BY StepsNat
<1>f. \A r \in S : F[r] = r \cup Nexts(heap, r)
  OBVIOUS
<1> HIDE DEF a, F
<1>4. PICK g \in [0 .. Steps -> S] : g[0] = a /\ \A n \in 1 .. Steps : g[n] = F[g[n - 1]]
  <2> HIDE DEF S
  <2> QED BY <1>1, <1>2, <1>3, Iterates
<1>5. g = Body(g)
  <2>1. ASSUME NEW n \in 0 .. Steps PROVE g[n] = Body(g)[n]
    <3>1. CASE n = 0
      BY <1>4, <3>1 DEF a
    <3>2. CASE n # 0
      <4>1. n \in 1 .. Steps /\ n - 1 \in 0 .. Steps
        BY <1>3, <3>2
      <4>2. g[n - 1] \in S /\ g[n] = F[g[n - 1]]
        BY <4>1, <1>4
      <4>3. g[n] = g[n - 1] \cup Nexts(heap, g[n - 1])
        BY <1>f, <4>2
      <4>4. Body(g)[n] = g[n - 1] \cup Nexts(heap, g[n - 1])
        BY <3>2
      <4> QED BY <4>3, <4>4
    <3> QED BY <3>1, <3>2
  <2>2. g = [n \in 0 .. Steps |-> g[n]] /\ Body(g) = [n \in 0 .. Steps |-> Body(g)[n]]
    BY <1>4
  <2> HIDE DEF Body
  <2> QED BY <2>1, <2>2
<1>6. Walk(heap, h) = CHOOSE f : f = Body(f)
  BY Zenon DEF Walk, Steps
<1> DEFINE W == Walk(heap, h)
<1> HIDE DEF Body
<1>7. W = Body(W)
  BY <1>5, <1>6, Zenon
<1> HIDE DEF W
<1>8. W[0] = {h} \ {Null}
  <2>1. 0 \in 0 .. Steps
    BY <1>3
  <2> QED BY <1>7, <2>1 DEF Body
<1>9. ASSUME NEW n \in 1 .. Steps
      PROVE  W[n] = W[n - 1] \cup Nexts(heap, W[n - 1])
  <2>1. n \in 0 .. Steps /\ n # 0
    BY <1>3
  <2>2. Body(W)[n] = W[n - 1] \cup Nexts(heap, W[n - 1])
    BY <2>1 DEF Body
  <2> QED BY <1>7, <2>2
<1> QED BY <1>8, <1>9 DEF W

\* A list whose items lead to items of greater rank, and each of which is the head
\* or follows another, is exactly its items: a step for each address reaches them all.
LEMMA ReachExact ==
  ASSUME NEW heap \in HeapType, NEW h \in Cells \cup {Null},
         NEW S, S \subseteq Items(heap), NEW rank \in [Cells -> Nat],
         h # Null => h \in S,
         \A c \in S : heap[c].next = Null \/ (heap[c].next \in S /\ rank[c] < rank[heap[c].next]),
         \A c \in S : h = c \/ \E d \in S : heap[d].next = c
  PROVE  Reach(heap, h) = S
<1> DEFINE W == Walk(heap, h)
           Before(i) == {j \in S : rank[j] < rank[i]}
<1>1. /\ W[0] = {h} \ {Null}
      /\ \A n \in 1 .. Steps : W[n] = W[n - 1] \cup Nexts(heap, W[n - 1])
  BY WalkStep
<1>2. Reach(heap, h) = W[Steps]
  BY ReachIsWalk
<1> HIDE DEF W
<1>3. Steps \in Nat /\ Null \notin S /\ S \subseteq Cells
  BY StepsNat, CellsAssumption DEF Items
<1>n. \A r : r \subseteq S => Nexts(heap, r) = {heap[c].next : c \in r} \ {Null}
  BY DEF Nexts, Items
<1>4. \A n \in 0 .. Steps : W[n] \subseteq S
  <2> DEFINE T == {n \in 0 .. Steps : ~(W[n] \subseteq S)}
  <2>1. ASSUME T # {} PROVE FALSE
    <3>0. T \subseteq Nat
      BY <1>3
    <3>1. PICK n \in T : \A m \in T : n <= m
      <4> HIDE DEF T
      <4> QED BY <2>1, <3>0, Least
    <3>2. n \in 0 .. Steps /\ ~(W[n] \subseteq S)
      OBVIOUS
    <3>3. n # 0
      BY <1>1, <3>2
    <3>4. n \in 1 .. Steps /\ n - 1 \in 0 .. Steps /\ ~(n <= n - 1)
      BY <1>3, <3>2, <3>3
    <3>5. W[n - 1] \subseteq S
      BY <3>1, <3>4
    <3>6. Nexts(heap, W[n - 1]) \subseteq S
      BY <1>n, <3>5
    <3> QED BY <1>1, <3>2, <3>4, <3>5, <3>6
  <2> QED BY <2>1
<1>5. \A i \in S : IsFiniteSet(Before(i)) /\ Cardinality(Before(i)) \in Nat /\ Cardinality(Before(i)) <= Steps
  <2> SUFFICES ASSUME NEW i \in S
               PROVE  IsFiniteSet(Before(i)) /\ Cardinality(Before(i)) \in Nat /\ Cardinality(Before(i)) <= Steps
    OBVIOUS
  <2>1. Before(i) \subseteq Cells
    BY <1>3
  <2> QED BY <2>1, CellsAssumption, FS_Subset, FS_CardinalityType DEF Steps
<1>6. \A i, p \in S : rank[p] < rank[i] => Cardinality(Before(p)) < Cardinality(Before(i))
  <2> SUFFICES ASSUME NEW i \in S, NEW p \in S, rank[p] < rank[i]
               PROVE  Cardinality(Before(p)) < Cardinality(Before(i))
    OBVIOUS
  <2>1. Before(p) \subseteq Before(i) /\ p \in Before(i) /\ p \notin Before(p)
    BY <1>3
  <2>2. Before(p) \subseteq Before(i) /\ Before(p) # Before(i)
    BY <2>1
  <2>3. IsFiniteSet(Before(i))
    BY <1>5
  <2>4. /\ Cardinality(Before(p)) <= Cardinality(Before(i))
        /\ Cardinality(Before(p)) # Cardinality(Before(i))
    BY <2>2, <2>3, FS_Subset
  <2>5. Cardinality(Before(p)) \in Nat /\ Cardinality(Before(i)) \in Nat
    BY <1>5
  <2> QED BY <2>4, <2>5
<1> HIDE DEF Before
<1>7. \A n \in 0 .. Steps :
        /\ h # Null => h \in W[n]
        /\ \A i \in S : Cardinality(Before(i)) <= n => i \in W[n]
  <2> DEFINE OK(n) == /\ h # Null => h \in W[n]
                      /\ \A i \in S : Cardinality(Before(i)) <= n => i \in W[n]
             T == {n \in 0 .. Steps : ~OK(n)}
  <2>1. ASSUME T # {} PROVE FALSE
    <3>0. T \subseteq Nat
      BY <1>3
    <3>1. PICK n \in T : \A m \in T : n <= m
      <4> HIDE DEF T
      <4> QED BY <2>1, <3>0, Least
    <3>2. n \in 0 .. Steps /\ ~OK(n)
      OBVIOUS
    <3>p. \A i \in S : i = h \/ \E p \in S : heap[p].next = i /\ Cardinality(Before(p)) < Cardinality(Before(i))
      <4> SUFFICES ASSUME NEW i \in S, i # h
                   PROVE  \E p \in S : heap[p].next = i /\ Cardinality(Before(p)) < Cardinality(Before(i))
        OBVIOUS
      <4>1. PICK p \in S : heap[p].next = i
        OBVIOUS
      <4>2. rank[p] < rank[i]
        BY <1>3, <4>1
      <4> QED BY <1>6, <4>1, <4>2
    <3>3. n # 0
      <4>1. ASSUME n = 0 PROVE OK(0)
        <5>1. \A i \in S : Cardinality(Before(i)) <= 0 => i = h
          BY <1>5, <3>p
        <5> QED BY <1>1, <1>3, <5>1
      <4> QED BY <3>2, <4>1
    <3>4. n \in 1 .. Steps /\ n - 1 \in 0 .. Steps /\ ~(n <= n - 1)
      BY <1>3, <3>2, <3>3
    <3>5. OK(n - 1)
      BY <3>1, <3>4
    <3>6. W[n - 1] \subseteq W[n]
      BY <1>1, <3>4
    <3>7. ASSUME NEW i \in S, Cardinality(Before(i)) <= n PROVE i \in W[n]
      <4>1. CASE i = h
        BY <1>3, <3>5, <3>6, <4>1
      <4>2. CASE i # h
        <5>1. PICK p \in S : heap[p].next = i /\ Cardinality(Before(p)) < Cardinality(Before(i))
          BY <3>p, <4>2
        <5>2. Cardinality(Before(p)) <= n - 1
          BY <1>3, <1>5, <3>2, <3>7, <5>1
        <5>3. p \in W[n - 1] /\ W[n - 1] \subseteq S
          BY <1>4, <3>4, <3>5, <5>2
        <5>4. i \in Nexts(heap, W[n - 1])
          BY <1>3, <1>n, <5>1, <5>3
        <5> QED BY <1>1, <3>4, <5>4
      <4> QED BY <4>1, <4>2
    <3>8. OK(n)
      BY <3>5, <3>6, <3>7
    <3> QED BY <3>2, <3>8
  <2> QED BY <2>1
<1>8. S \subseteq W[Steps]
  <2>1. Steps \in 0 .. Steps
    BY <1>3
  <2> QED BY <1>5, <1>7, <2>1
<1>9. W[Steps] \subseteq S
  BY <1>3, <1>4
<1> QED BY <1>2, <1>8, <1>9

-----------------------------------------------------------------------------
(***************************************************************************)
(* What a table holds, and how linking and unlinking change it             *)
(***************************************************************************)

\* Every page has a bucket.
LEMMA BucketIn ==
  ASSUME NEW p \in Pages
  PROVE  Bucket(p) \in Buckets
BY PagesAssumption, SizesAssumption DEF Bucket, Buckets

\* An item has a page and a next item or none.
LEMMA ItemType ==
  ASSUME NEW heap \in HeapType, NEW c \in Items(heap)
  PROVE  /\ c \in Cells /\ c # Null /\ heap[c] # Null
         /\ heap[c] \in [page : Pages, next : Cells \cup {Null}]
         /\ heap[c].page \in Pages /\ heap[c].next \in Cells \cup {Null}
         /\ Bucket(heap[c].page) \in Buckets
<1>1. c \in Cells /\ c # Null /\ heap[c] # Null
  BY CellsAssumption DEF Items
<1>2. heap[c] \in [page : Pages, next : Cells \cup {Null}]
  BY <1>1 DEF HeapType
<1> QED BY <1>1, <1>2, BucketIn

\* The list of a bucket is the items of its pages.
LEMMA BucketList ==
  ASSUME NEW heap, NEW h, Table(heap, h), NEW b \in Buckets
  PROVE  Reach(heap, h[b]) = {c \in Items(heap) : Bucket(heap[c].page) = b}
<1> DEFINE S == {c \in Items(heap) : Bucket(heap[c].page) = b}
<1>1. heap \in HeapType /\ h \in HeadType
  BY DEF Table
<1>2. PICK rank \in [Cells -> Nat] : Chained(heap, h, rank)
  BY DEF Table
<1>3. h[b] \in Cells \cup {Null} /\ S \subseteq Items(heap)
  BY <1>1 DEF HeadType
<1>4. h[b] # Null => h[b] \in S
  BY <1>2 DEF Chained
<1>5. \A c \in S : heap[c].next = Null \/ (heap[c].next \in S /\ rank[c] < rank[heap[c].next])
  BY <1>2 DEF Chained
<1>6. \A c \in S : h[b] = c \/ \E d \in S : heap[d].next = c
  <2> SUFFICES ASSUME NEW c \in S, h[b] # c PROVE \E d \in S : heap[d].next = c
    OBVIOUS
  <2>1. PICK d \in Items(heap) : heap[d].next = c
    BY <1>2 DEF Chained
  <2>2. c # Null
    BY <1>1, ItemType
  <2>3. Bucket(heap[d].page) = b
    BY <1>2, <2>1, <2>2 DEF Chained
  <2> QED BY <2>1, <2>3
<1> HIDE DEF S
<1>7. Reach(heap, h[b]) = S
  BY <1>1, <1>2, <1>3, <1>4, <1>5, <1>6, ReachExact
<1> QED BY <1>7 DEF S

\* get_internal finds the item of a page if there is one, and else nothing.
LEMMA GetExact ==
  ASSUME NEW heap, NEW h, Table(heap, h), NEW p \in Pages
  PROVE  LET c == get_internal(heap, h[Bucket(p)], p)
         IN  /\ c \in Cells \cup {Null}
             /\ c # Null <=> p \in Present(heap)
             /\ c # Null => IsItem(heap, c, p)
             /\ \A d : IsItem(heap, d, p) => d = c
<1> DEFINE hits == {c \in Reach(heap, h[Bucket(p)]) : heap[c].page = p}
           g == get_internal(heap, h[Bucket(p)], p)
<1>0. heap \in HeapType
  BY DEF Table
<1>1. hits = {c \in Items(heap) : heap[c].page = p}
  <2>1. Reach(heap, h[Bucket(p)]) = {c \in Items(heap) : Bucket(heap[c].page) = Bucket(p)}
    BY BucketIn, BucketList
  <2> QED BY <2>1
<1>2. g = IF hits = {} THEN Null ELSE CHOOSE c \in hits : TRUE
  BY DEF get_internal
<1>3. \A c, d \in Items(heap) : heap[c].page = heap[d].page => c = d
  <2>1. PICK rank : Chained(heap, h, rank)
    BY DEF Table
  <2> QED BY <2>1 DEF Chained
<1>4. \A c \in Items(heap) : c \in Cells /\ c # Null
  BY <1>0, ItemType
<1> HIDE DEF hits, g
<1>5. CASE hits = {}
  <2>1. p \notin Present(heap) /\ \A d : ~IsItem(heap, d, p)
    BY <1>1, <1>5 DEF Present, IsItem
  <2>2. g = Null
    BY <1>2, <1>5
  <2> QED BY <2>1, <2>2 DEF g
<1>6. CASE hits # {}
  <2>1. g \in hits
    BY <1>2, <1>6
  <2>2. IsItem(heap, g, p) /\ p \in Present(heap)
    BY <1>1, <2>1 DEF IsItem, Present
  <2>3. g \in Cells /\ g # Null
    BY <1>1, <1>4, <2>1
  <2>4. \A d : IsItem(heap, d, p) => d = g
    BY <1>3, <2>2 DEF IsItem
  <2> QED BY <2>2, <2>3, <2>4 DEF g
<1> QED BY <1>5, <1>6

\* Two tables agree on the items other than those at addresses C.
SameBut(old, new, C) ==
  \A c \in Cells \ C : (old[c] = Null <=> new[c] = Null) /\ (old[c] # Null => new[c].page = old[c].page)

\* The address of a new item is free.
LEMMA NewIsFree ==
  ASSUME NEW heap, Items(heap) # Cells
  PROVE  New(heap) \in Cells /\ heap[New(heap)] = Null
<1> DEFINE S == {c \in Cells : heap[c] = Null}
<1>1. S # {} /\ S \subseteq Nat
  BY CellsAssumption DEF Items
<1>2. PICK x \in S : \A y \in S : x <= y
  <2> HIDE DEF S
  <2> QED BY <1>1, Least
<1>3. New(heap) = CHOOSE y \in S : \A z \in S : y <= z
  BY DEF New, Min
<1>4. New(heap) \in S
  <2> HIDE DEF S
  <2> QED BY <1>2, <1>3
<1> QED BY <1>4

\* A list that is not empty has an end.
LEMMA LastIsLast ==
  ASSUME NEW heap, NEW h, Table(heap, h), NEW b \in Buckets, h[b] # Null
  PROVE  LET d == LastOf(heap, h[b])
         IN  d \in Items(heap) /\ Bucket(heap[d].page) = b /\ heap[d].next = Null
<1> DEFINE S == {c \in Items(heap) : Bucket(heap[c].page) = b}
<1>1. Reach(heap, h[b]) = S
  BY BucketList
<1>2. PICK rank \in [Cells -> Nat] : Chained(heap, h, rank)
  BY DEF Table
<1>3. h[b] \in S
  BY <1>2 DEF Chained
<1>4. \E d \in S : heap[d].next = Null
  <2> SUFFICES ASSUME \A d \in S : heap[d].next # Null PROVE FALSE
    OBVIOUS
  <2>1. \A d \in S : heap[d].next \in S /\ rank[d] < rank[heap[d].next]
    BY <1>2 DEF Chained
  <2> DEFINE After(d) == {c \in S : rank[c] > rank[d]}
             T == {Cardinality(After(d)) : d \in S}
  <2>2. S \subseteq Cells
    BY DEF Items
  <2>3. \A d \in S : IsFiniteSet(After(d)) /\ Cardinality(After(d)) \in Nat
    <3>1. \A d : After(d) \subseteq Cells
      BY <2>2
    <3> QED BY <3>1, CellsAssumption, FS_Subset, FS_CardinalityType
  <2>4. \A d \in S : Cardinality(After(heap[d].next)) < Cardinality(After(d))
    <3> SUFFICES ASSUME NEW d \in S PROVE Cardinality(After(heap[d].next)) < Cardinality(After(d))
      OBVIOUS
    <3> DEFINE e == heap[d].next
    <3>1. e \in S /\ rank[d] < rank[e]
      BY <2>1
    <3> HIDE DEF e, S
    <3>2. After(e) \subseteq After(d) /\ e \in After(d) /\ e \notin After(e)
      BY <2>2, <3>1
    <3>3. After(e) \subseteq After(d) /\ After(e) # After(d)
      BY <3>2
    <3> HIDE DEF After
    <3>4. Cardinality(After(e)) <= Cardinality(After(d)) /\ Cardinality(After(e)) # Cardinality(After(d))
      BY <2>3, <3>3, FS_Subset
    <3> QED BY <2>3, <3>1, <3>4 DEF e
  <2> HIDE DEF S, After
  <2>5. T \subseteq Nat /\ T # {}
    BY <1>3, <2>3
  <2>6. PICK x \in T : \A y \in T : x <= y
    <3> HIDE DEF T
    <3> QED BY <2>5, Least
  <2>7. PICK d \in S : x = Cardinality(After(d))
    OBVIOUS
  <2>8. Cardinality(After(heap[d].next)) \in T
    BY <2>1
  <2> HIDE DEF T
  <2>9. x <= Cardinality(After(heap[d].next))
    BY <2>6, <2>8
  <2>10. Cardinality(After(heap[d].next)) < x /\ x \in Nat /\ Cardinality(After(heap[d].next)) \in Nat
    BY <2>1, <2>3, <2>4, <2>7
  <2> QED BY <2>9, <2>10
<1>5. LastOf(heap, h[b]) = CHOOSE c \in S : heap[c].next = Null
  BY <1>1 DEF LastOf
<1>6. LastOf(heap, h[b]) \in S /\ heap[LastOf(heap, h[b])].next = Null
  <2> HIDE DEF S
  <2> QED BY <1>4, <1>5
<1> QED BY <1>6

\* What SameBut says of the items and pages when one item is added or deleted.
LEMMA AddedOne ==
  ASSUME NEW old \in HeapType, NEW new \in HeapType, NEW n \in Cells, NEW p,
         old[n] = Null, IsItem(new, n, p), SameBut(old, new, {n})
  PROVE  /\ Items(new) = Items(old) \cup {n} /\ n \notin Items(old)
         /\ Present(new) = Present(old) \cup {p}
         /\ \A c, q : IsItem(old, c, q) => IsItem(new, c, q)
<1>1. Items(new) = Items(old) \cup {n} /\ n \notin Items(old)
  BY DEF Items, SameBut, IsItem
<1>2. \A c \in Items(old) : new[c].page = old[c].page
  BY DEF Items, SameBut
<1>3. new[n].page = p
  BY DEF IsItem
<1> QED BY <1>1, <1>2, <1>3 DEF Present, IsItem

\* The same for an item deleted.
LEMMA DeletedOne ==
  ASSUME NEW old \in HeapType, NEW new \in HeapType, NEW n, NEW p,
         IsItem(old, n, p), \A c : IsItem(old, c, p) => c = n,
         new[n] = Null, SameBut(old, new, {n})
  PROVE  /\ Items(new) = Items(old) \ {n} /\ n \in Items(old)
         /\ Present(new) = Present(old) \ {p}
         /\ \A c, q : IsItem(old, c, q) /\ q # p => IsItem(new, c, q)
<1>1. Items(new) = Items(old) \ {n} /\ n \in Items(old)
  BY DEF Items, SameBut, IsItem
<1>2. \A c \in Items(new) : new[c].page = old[c].page
  BY <1>1 DEF Items, SameBut
<1>3. old[n].page = p /\ \A c \in Items(old) : c # n => old[c].page # p
  BY DEF IsItem
<1> QED BY <1>1, <1>2, <1>3 DEF Present, IsItem

\* A new item at the end of the list of its bucket leaves a table.
LEMMA LinkKeeps ==
  ASSUME NEW heap, NEW h, Table(heap, h), NEW p \in Pages, p \notin Present(heap), Items(heap) # Cells,
         NEW heap2, heap2 = Linked(heap, h[Bucket(p)], p),
         NEW h2, h2 = [h EXCEPT ![Bucket(p)] = LinkedHead(heap, @)]
  PROVE  /\ Table(heap2, h2) /\ New(heap) \in Cells /\ heap[New(heap)] = Null
         /\ IsItem(heap2, New(heap), p) /\ SameBut(heap, heap2, {New(heap)})
<1> DEFINE b == Bucket(p)
           n == New(heap)
           d == LastOf(heap, h[b])
           it == [page |-> p, next |-> Null]
<1>0. heap \in HeapType /\ h \in HeadType /\ b \in Buckets
  BY BucketIn DEF Table
<1>1. PICK rank \in [Cells -> Nat] : Chained(heap, h, rank)
  BY DEF Table
<1>2. n \in Cells /\ heap[n] = Null /\ n # Null /\ n \notin Items(heap)
  BY NewIsFree, CellsAssumption DEF Items
<1>3. h[b] # Null => d \in Items(heap) /\ Bucket(heap[d].page) = b /\ heap[d].next = Null
  BY <1>0, LastIsLast
<1>4. it \in [page : Pages, next : Cells \cup {Null}] /\ it # Null /\ it.page = p /\ it.next = Null
  BY NullAssumption
<1>5. heap2 = IF h[b] = Null THEN [heap EXCEPT ![n] = it]
              ELSE [heap EXCEPT ![n] = it, ![d].next = n]
  BY DEF Linked
<1>6. h2 = [h EXCEPT ![b] = IF h[b] = Null THEN n ELSE h[b]]
  BY <1>0 DEF LinkedHead, HeadType
<1>i. \A c \in Items(heap) : /\ c \in Cells /\ c # Null /\ heap[c] # Null /\ c # n
                             /\ heap[c] \in [page : Pages, next : Cells \cup {Null}]
                             /\ heap[c].page \in Pages /\ heap[c].next \in Cells \cup {Null}
                             /\ Bucket(heap[c].page) \in Buckets /\ heap[c].page # p
  <2>1. \A c \in Items(heap) : heap[c].page # p
    BY DEF Present
  <2> QED BY <1>0, <1>2, <2>1, ItemType
<1> HIDE DEF it, n, d, b
<1>7. CASE h[b] = Null
  <2>1. heap2 = [heap EXCEPT ![n] = it] /\ h2 = [h EXCEPT ![b] = n]
    BY <1>5, <1>6, <1>7
  <2>2. heap2 \in HeapType /\ h2 \in HeadType
    <3>1. heap2 \in HeapType
      BY <1>0, <1>2, <1>4, <2>1 DEF HeapType
    <3>2. h2 \in HeadType
      BY <1>0, <1>2, <2>1 DEF HeadType
    <3> QED BY <3>1, <3>2
  <2>3. heap2[n] = it /\ \A c \in Cells : c # n => heap2[c] = heap[c]
    BY <1>0, <1>2, <2>1 DEF HeapType
  <2>4. Items(heap2) = Items(heap) \cup {n}
    BY <1>2, <1>4, <2>3 DEF Items
  <2>5. h2[b] = n /\ \A a \in Buckets : a # b => h2[a] = h[a]
    BY <1>0, <2>1 DEF HeadType
  <2>6. \A c \in Items(heap) : heap2[c] = heap[c] /\ Bucket(heap[c].page) # b
    <3>1. \A c \in Items(heap) : heap2[c] = heap[c]
      BY <1>i, <2>3
    <3>2. \A c \in Items(heap) : Bucket(heap[c].page) # b
      <4>1. Reach(heap, h[b]) = {c \in Items(heap) : Bucket(heap[c].page) = b}
        BY <1>0, BucketList
      <4>2. Reach(heap, h[b]) = {}
        <5> DEFINE E == {}
        <5>1. h[b] \in Cells \cup {Null} /\ E \subseteq Items(heap) /\ (h[b] # Null => h[b] \in E)
          BY <1>7
        <5>2. /\ \A c \in E : heap[c].next = Null \/ (heap[c].next \in E /\ rank[c] < rank[heap[c].next])
              /\ \A c \in E : h[b] = c \/ \E e \in E : heap[e].next = c
          OBVIOUS
        <5> HIDE DEF E
        <5>3. Reach(heap, h[b]) = E
          BY <1>0, <1>1, <5>1, <5>2, ReachExact
        <5> QED BY <5>3 DEF E
      <4> QED BY <4>1, <4>2
    <3> QED BY <3>1, <3>2
  <2>7. Chained(heap2, h2, rank)
    <3>1. \A c \in Items(heap2) : heap2[c].next # Null =>
             /\ heap2[c].next \in Items(heap2)
             /\ Bucket(heap2[heap2[c].next].page) = Bucket(heap2[c].page)
             /\ rank[c] < rank[heap2[c].next]
      BY <1>1, <1>4, <2>3, <2>4, <2>6 DEF Chained
    <3>2. \A a \in Buckets : h2[a] # Null => h2[a] \in Items(heap2) /\ Bucket(heap2[h2[a]].page) = a
      BY <1>1, <1>4, <2>3, <2>4, <2>5, <2>6 DEF Chained, b
    <3>3. \A c \in Items(heap2) :
             h2[Bucket(heap2[c].page)] = c \/ \E e \in Items(heap2) : heap2[e].next = c
      <4>1. \A c \in Items(heap) : h2[Bucket(heap2[c].page)] = c \/ \E e \in Items(heap2) : heap2[e].next = c
        <5> SUFFICES ASSUME NEW c \in Items(heap), h2[Bucket(heap2[c].page)] # c
                     PROVE  \E e \in Items(heap2) : heap2[e].next = c
          OBVIOUS
        <5>1. h2[Bucket(heap2[c].page)] = h[Bucket(heap[c].page)]
          BY <1>i, <2>5, <2>6
        <5>2. PICK e \in Items(heap) : heap[e].next = c
          BY <1>1, <5>1 DEF Chained
        <5> QED BY <2>4, <2>6, <5>2
      <4> QED BY <1>4, <2>3, <2>4, <2>5, <4>1 DEF b
    <3>4. \A c, e \in Items(heap2) : heap2[c].next # Null /\ heap2[c].next = heap2[e].next => c = e
      BY <1>1, <1>4, <2>3, <2>4, <2>6 DEF Chained
    <3>5. \A c \in Items(heap2), a \in Buckets : heap2[c].next # Null => heap2[c].next # h2[a]
      <4> SUFFICES ASSUME NEW c \in Items(heap2), NEW a \in Buckets, heap2[c].next # Null
                   PROVE  heap2[c].next # h2[a]
        OBVIOUS
      <4>1. c \in Items(heap) /\ heap2[c].next = heap[c].next
        BY <1>4, <2>3, <2>4, <2>6
      <4>2. heap[c].next \in Items(heap) /\ heap[c].next # h[a]
        BY <1>1, <4>1 DEF Chained
      <4> QED BY <1>2, <2>5, <4>1, <4>2
    <3>6. \A c, e \in Items(heap2) : heap2[c].page = heap2[e].page => c = e
      BY <1>1, <1>4, <1>i, <2>3, <2>4, <2>6 DEF Chained
    <3> QED BY <3>1, <3>2, <3>3, <3>4, <3>5, <3>6 DEF Chained
  <2>8. IsItem(heap2, n, p) /\ SameBut(heap, heap2, {n})
    BY <1>2, <1>4, <2>3, <2>4 DEF IsItem, SameBut
  <2> QED BY <1>2, <2>2, <2>7, <2>8 DEF Table, n
<1>8. CASE h[b] # Null
  <2>0. d \in Items(heap) /\ Bucket(heap[d].page) = b /\ heap[d].next = Null /\ d \in Cells /\ d # n
    BY <1>3, <1>8, <1>i
  <2>1. heap2 = [heap EXCEPT ![n] = it, ![d].next = n] /\ h2 = h
    BY <1>0, <1>5, <1>6, <1>8 DEF HeadType
  <2>3. /\ heap2[n] = it /\ \A c \in Cells : c # n /\ c # d => heap2[c] = heap[c]
        /\ heap2[d] = [heap[d] EXCEPT !.next = n]
    BY <1>0, <1>2, <2>0, <2>1 DEF HeapType
  <2>d. /\ heap2[d] \in [page : Pages, next : Cells \cup {Null}] /\ heap2[d] # Null
        /\ heap2[d].next = n /\ heap2[d].page = heap[d].page
    BY <1>2, <1>i, <2>0, <2>3, NullAssumption
  <2>2. heap2 \in HeapType /\ h2 \in HeadType
    <3>1. \A c \in Cells : heap2[c] \in [page : Pages, next : Cells \cup {Null}] \cup {Null}
      BY <1>0, <1>4, <2>3, <2>d DEF HeapType
    <3>2. heap2 = [c \in Cells |-> heap2[c]]
      BY <1>0, <2>1 DEF HeapType
    <3> QED BY <1>0, <2>1, <3>1, <3>2 DEF HeapType
  <2>4. Items(heap2) = Items(heap) \cup {n}
    BY <1>2, <1>4, <2>0, <2>3, <2>d DEF Items
  <2>6. \A c \in Items(heap) : heap2[c].page = heap[c].page /\ (c # d => heap2[c].next = heap[c].next)
    BY <1>i, <2>3, <2>d
  <2> DEFINE up == [rank EXCEPT ![n] = rank[d] + 1]
  <2>r. /\ up \in [Cells -> Nat] /\ up[n] = rank[d] + 1 /\ rank[d] \in Nat
        /\ \A c \in Cells : c # n => up[c] = rank[c]
    BY <1>1, <1>2, <2>0
  <2> HIDE DEF up
  <2>u. rank[d] < up[n]
    BY <2>r
  <2>7. Chained(heap2, h2, up)
    <3>1. \A c \in Items(heap2) : heap2[c].next # Null =>
             /\ heap2[c].next \in Items(heap2)
             /\ Bucket(heap2[heap2[c].next].page) = Bucket(heap2[c].page)
             /\ up[c] < up[heap2[c].next]
      <4> SUFFICES ASSUME NEW c \in Items(heap2), heap2[c].next # Null
                   PROVE  /\ heap2[c].next \in Items(heap2)
                          /\ Bucket(heap2[heap2[c].next].page) = Bucket(heap2[c].page)
                          /\ up[c] < up[heap2[c].next]
        OBVIOUS
      <4>1. c \in Items(heap)
        BY <1>4, <2>3, <2>4
      <4>2. CASE c = d
        <5>1. up[c] = rank[d]
          BY <2>0, <2>r, <4>2
        <5> QED BY <1>4, <2>0, <2>3, <2>4, <2>d, <2>u, <4>2, <5>1 DEF b
      <4>3. CASE c # d
        <5>1. /\ heap2[c].next = heap[c].next /\ heap[c].next \in Items(heap)
              /\ Bucket(heap[heap[c].next].page) = Bucket(heap[c].page) /\ rank[c] < rank[heap[c].next]
          BY <1>1, <2>6, <4>1, <4>3 DEF Chained
        <5>2. up[c] = rank[c] /\ up[heap[c].next] = rank[heap[c].next]
          BY <1>i, <2>r, <4>1, <5>1
        <5> QED BY <2>4, <2>6, <4>1, <5>1, <5>2
      <4> QED BY <4>2, <4>3
    <3>2. \A a \in Buckets : h2[a] # Null => h2[a] \in Items(heap2) /\ Bucket(heap2[h2[a]].page) = a
      <4>1. \A a \in Buckets : h[a] # Null => h[a] \in Items(heap) /\ Bucket(heap[h[a]].page) = a
        BY <1>1 DEF Chained
      <4> QED BY <2>1, <2>4, <2>6, <4>1
    <3>3. \A c \in Items(heap2) :
             h2[Bucket(heap2[c].page)] = c \/ \E e \in Items(heap2) : heap2[e].next = c
      <4>1. \A c \in Items(heap) : h2[Bucket(heap2[c].page)] = c \/ \E e \in Items(heap2) : heap2[e].next = c
        <5> SUFFICES ASSUME NEW c \in Items(heap), h2[Bucket(heap2[c].page)] # c
                     PROVE  \E e \in Items(heap2) : heap2[e].next = c
          OBVIOUS
        <5>1. h2[Bucket(heap2[c].page)] = h[Bucket(heap[c].page)]
          BY <2>1, <2>6
        <5>2. PICK e \in Items(heap) : heap[e].next = c
          BY <1>1, <5>1 DEF Chained
        <5>3. e # d
          BY <1>i, <2>0, <5>2
        <5> QED BY <2>4, <2>6, <5>2, <5>3
      <4> QED BY <2>0, <2>4, <2>d, <4>1
    <3>n. \A c \in Items(heap2) : heap2[c].next # Null =>
             c \in Items(heap) /\ (heap2[c].next = n <=> c = d) /\ (c # d => heap2[c].next = heap[c].next)
                               /\ heap[c].next # n
      <4> SUFFICES ASSUME NEW c \in Items(heap2), heap2[c].next # Null
                   PROVE  c \in Items(heap) /\ (heap2[c].next = n <=> c = d)
                          /\ (c # d => heap2[c].next = heap[c].next) /\ heap[c].next # n
        OBVIOUS
      <4>1. c \in Items(heap)
        BY <1>4, <2>3, <2>4
      <4>2. heap[c].next # Null => heap[c].next \in Items(heap)
        BY <1>1, <4>1 DEF Chained
      <4> QED BY <1>2, <2>6, <2>d, <4>1, <4>2
    <3>4. \A c, e \in Items(heap2) : heap2[c].next # Null /\ heap2[c].next = heap2[e].next => c = e
      BY <1>1, <3>n DEF Chained
    <3>5. \A c \in Items(heap2), a \in Buckets : heap2[c].next # Null => heap2[c].next # h2[a]
      <4> SUFFICES ASSUME NEW c \in Items(heap2), NEW a \in Buckets, heap2[c].next # Null
                   PROVE  heap2[c].next # h2[a]
        OBVIOUS
      <4>1. h2[a] # n
        <5>1. h[a] = Null \/ h[a] \in Items(heap)
          BY <1>1 DEF Chained
        <5> QED BY <1>2, <2>1, <5>1
      <4>2. CASE c = d
        BY <2>d, <4>1, <4>2
      <4>3. CASE c # d
        <5>1. c \in Items(heap) /\ heap2[c].next = heap[c].next
          BY <3>n, <4>3
        <5>2. heap[c].next # Null => heap[c].next # h[a]
          BY <1>1, <5>1 DEF Chained
        <5> QED BY <2>1, <5>1, <5>2
      <4> QED BY <4>2, <4>3
    <3>6. \A c, e \in Items(heap2) : heap2[c].page = heap2[e].page => c = e
      BY <1>1, <1>4, <1>i, <2>3, <2>4, <2>6 DEF Chained
    <3> QED BY <3>1, <3>2, <3>3, <3>4, <3>5, <3>6 DEF Chained
  <2>8. IsItem(heap2, n, p) /\ SameBut(heap, heap2, {n})
    <3>1. IsItem(heap2, n, p)
      BY <1>4, <2>3, <2>4 DEF IsItem
    <3>2. SameBut(heap, heap2, {n})
      BY <1>i, <2>0, <2>3, <2>d DEF SameBut
    <3> QED BY <3>1, <3>2
  <2>9. \E rk \in [Cells -> Nat] : Chained(heap2, h2, rk)
    BY <2>7, <2>r
  <2> QED BY <1>2, <2>2, <2>9, <2>8 DEF Table, n
<1> QED BY <1>7, <1>8

\* The heads of the lists when the item at c is taken out of the list of bucket b.
HeadsUnlinked(heap, h, b, c) == [h EXCEPT ![b] = UnlinkedHead(heap, @, c)]

\* An item taken out of the list of its bucket and deleted leaves a table.
LEMMA UnlinkKeeps ==
  ASSUME NEW heap, NEW h, Table(heap, h), NEW c \in Items(heap),
         NEW b \in Buckets, b = Bucket(heap[c].page),
         NEW heap2, heap2 = Unlinked(heap, h[b], c),
         NEW h2, h2 = HeadsUnlinked(heap, h, b, c)
  PROVE  Table(heap2, h2) /\ heap2[c] = Null /\ SameBut(heap, heap2, {c})
<1> DEFINE P == {x \in Items(heap) : heap[x].next = c}
           m == heap[c].next
<1>0. heap \in HeapType /\ h \in HeadType /\ b \in Buckets
  BY ItemType DEF Table
<1>1. PICK rank \in [Cells -> Nat] : Chained(heap, h, rank)
  BY DEF Table
<1>i. \A x \in Items(heap) : /\ x \in Cells /\ x # Null /\ heap[x] # Null
                             /\ heap[x] \in [page : Pages, next : Cells \cup {Null}]
                             /\ heap[x].page \in Pages /\ heap[x].next \in Cells \cup {Null}
                             /\ Bucket(heap[x].page) \in Buckets
  BY <1>0, ItemType
<1>r. \A x \in Cells : rank[x] \in Nat
  BY <1>1
<1>2. Prev(heap, h[b], c) = P
  <2>1. Reach(heap, h[b]) = {x \in Items(heap) : Bucket(heap[x].page) = b}
    BY <1>0, BucketList
  <2>2. \A x \in P : Bucket(heap[x].page) = b
    BY <1>1, <1>i DEF Chained
  <2> QED BY <2>1, <2>2 DEF Prev
<1>3. c \notin P
  <2>1. ASSUME c \in P PROVE rank[c] < rank[c]
    BY <1>1, <1>i, <2>1 DEF Chained
  <2> QED BY <1>i, <1>r, <2>1
<1>4. heap2 = [x \in Cells |-> CASE x = c -> Null
                                 [] x \in P -> [heap[x] EXCEPT !.next = m]
                                 [] OTHER -> heap[x]]
  BY <1>2 DEF Unlinked
<1>5. h2 = [h EXCEPT ![b] = IF h[b] = c THEN m ELSE h[b]]
  BY <1>0 DEF HeadsUnlinked, UnlinkedHead, HeadType
<1>6. /\ heap2[c] = Null
      /\ \A x \in P : heap2[x] = [heap[x] EXCEPT !.next = m]
      /\ \A x \in Cells : x # c /\ x \notin P => heap2[x] = heap[x]
  BY <1>3, <1>4, <1>i
<1>m. m # Null => m \in Items(heap) /\ Bucket(heap[m].page) = b /\ rank[c] < rank[m] /\ m # c
  BY <1>1, <1>i, <1>r DEF Chained
<1>mm. m \in Cells \cup {Null}
  BY <1>i
<1> HIDE DEF m
<1>p. \A x \in P : /\ heap2[x] \in [page : Pages, next : Cells \cup {Null}] /\ heap2[x] # Null
                   /\ heap2[x].next = m /\ heap2[x].page = heap[x].page /\ Bucket(heap[x].page) = b
                   /\ rank[x] < rank[c] /\ x # c /\ x \in Items(heap)
  <2> SUFFICES ASSUME NEW x \in P
               PROVE  /\ heap2[x] \in [page : Pages, next : Cells \cup {Null}] /\ heap2[x] # Null
                      /\ heap2[x].next = m /\ heap2[x].page = heap[x].page /\ Bucket(heap[x].page) = b
                      /\ rank[x] < rank[c] /\ x # c /\ x \in Items(heap)
    OBVIOUS
  <2>1. heap2[x] = [heap[x] EXCEPT !.next = m] /\ x \in Items(heap) /\ heap[x].next = c
    BY <1>6
  <2>2. heap[x] \in [page : Pages, next : Cells \cup {Null}] /\ c # Null
    BY <1>i
  <2>3. Bucket(heap[x].page) = b /\ rank[x] < rank[c]
    BY <1>1, <2>1, <2>2 DEF Chained
  <2>4. heap2[x] \in [page : Pages, next : Cells \cup {Null}] /\ heap2[x].next = m /\ heap2[x].page = heap[x].page
    BY <1>mm, <2>1, <2>2
  <2> QED BY <1>3, <2>1, <2>3, <2>4, NullAssumption
<1> HIDE DEF P
<1>7. heap2 \in HeapType
  <2>1. \A x \in Cells : heap2[x] \in [page : Pages, next : Cells \cup {Null}] \cup {Null}
    BY <1>0, <1>6, <1>p DEF HeapType
  <2>2. heap2 = [x \in Cells |-> heap2[x]]
    BY <1>4
  <2> QED BY <2>1, <2>2 DEF HeapType
<1>8. h2 \in HeadType
  BY <1>0, <1>5, <1>mm DEF HeadType
<1>9. Items(heap2) = Items(heap) \ {c}
  <2>1. \A x \in Cells : heap2[x] # Null <=> (heap[x] # Null /\ x # c)
    <3> SUFFICES ASSUME NEW x \in Cells PROVE heap2[x] # Null <=> (heap[x] # Null /\ x # c)
      OBVIOUS
    <3>1. CASE x = c
      BY <1>6, <3>1
    <3>2. CASE x \in P
      BY <1>i, <1>p, <3>2
    <3>3. CASE x # c /\ x \notin P
      BY <1>6, <3>3
    <3> QED BY <3>1, <3>2, <3>3
  <2> QED BY <2>1 DEF Items
<1>10. \A x \in Items(heap2) :
          /\ x \in Items(heap) /\ x # c /\ heap2[x].page = heap[x].page
          /\ heap2[x].next = (IF heap[x].next = c THEN m ELSE heap[x].next)
  <2> SUFFICES ASSUME NEW x \in Items(heap2)
               PROVE  /\ x \in Items(heap) /\ x # c /\ heap2[x].page = heap[x].page
                      /\ heap2[x].next = (IF heap[x].next = c THEN m ELSE heap[x].next)
    OBVIOUS
  <2>1. x \in Items(heap) /\ x # c /\ x \in Cells
    BY <1>9, <1>i
  <2>2. CASE x \in P
    <3>1. heap[x].next = c
      BY <2>2 DEF P
    <3> QED BY <1>p, <2>1, <2>2, <3>1
  <2>3. CASE x \notin P
    <3>1. heap[x].next # c
      BY <2>1, <2>3 DEF P
    <3> QED BY <1>6, <2>1, <2>3, <3>1
  <2> QED BY <2>2, <2>3
<1>11. \A a \in Buckets : h2[a] = (IF h[a] = c THEN m ELSE h[a])
  <2> SUFFICES ASSUME NEW a \in Buckets PROVE h2[a] = (IF h[a] = c THEN m ELSE h[a])
    OBVIOUS
  <2>1. CASE a = b
    BY <1>0, <1>5, <2>1 DEF HeadType
  <2>2. CASE a # b
    <3>1. h[a] # c
      <4>1. ASSUME h[a] = c PROVE FALSE
        <5>1. h[a] # Null
          BY <1>i, <4>1
        <5>2. Bucket(heap[c].page) = a
          BY <1>1, <4>1, <5>1 DEF Chained
        <5> QED BY <2>2, <5>2
      <4> QED BY <4>1
    <3> QED BY <1>0, <1>5, <2>2, <3>1 DEF HeadType
  <2> QED BY <2>1, <2>2
<1>12. Chained(heap2, h2, rank)
  <2>1. \A x \in Items(heap2) : heap2[x].next # Null =>
           /\ heap2[x].next \in Items(heap2)
           /\ Bucket(heap2[heap2[x].next].page) = Bucket(heap2[x].page)
           /\ rank[x] < rank[heap2[x].next]
    <3> SUFFICES ASSUME NEW x \in Items(heap2), heap2[x].next # Null
                 PROVE  /\ heap2[x].next \in Items(heap2)
                        /\ Bucket(heap2[heap2[x].next].page) = Bucket(heap2[x].page)
                        /\ rank[x] < rank[heap2[x].next]
      OBVIOUS
    <3>0. x \in Items(heap) /\ x # c /\ heap2[x].page = heap[x].page
      BY <1>10
    <3>1. CASE heap[x].next = c
      <4>1. heap2[x].next = m /\ m # Null
        BY <1>10, <3>1
      <4>2. x \in P
        BY <3>0, <3>1 DEF P
      <4>3. m \in Items(heap2) /\ heap2[m].page = heap[m].page
        BY <1>9, <1>10, <1>m, <4>1
      <4>4. rank[x] < rank[m]
        <5>1. rank[x] \in Nat /\ rank[c] \in Nat /\ rank[m] \in Nat
          BY <1>i, <1>m, <1>r, <3>0, <4>1
        <5> QED BY <1>m, <1>p, <4>1, <4>2, <5>1
      <4> QED BY <1>m, <1>p, <3>0, <4>1, <4>2, <4>3, <4>4
    <3>2. CASE heap[x].next # c
      <4>1. heap2[x].next = heap[x].next
        BY <1>10, <3>2
      <4>2. /\ heap[x].next \in Items(heap) /\ Bucket(heap[heap[x].next].page) = Bucket(heap[x].page)
            /\ rank[x] < rank[heap[x].next]
        BY <1>1, <3>0, <4>1 DEF Chained
      <4>3. heap[x].next \in Items(heap2)
        BY <1>9, <3>2, <4>2
      <4>4. heap2[heap[x].next].page = heap[heap[x].next].page
        BY <1>10, <4>3
      <4> QED BY <3>0, <4>1, <4>2, <4>3, <4>4
    <3> QED BY <3>1, <3>2
  <2>2. \A a \in Buckets : h2[a] # Null => h2[a] \in Items(heap2) /\ Bucket(heap2[h2[a]].page) = a
    <3> SUFFICES ASSUME NEW a \in Buckets, h2[a] # Null
                 PROVE  h2[a] \in Items(heap2) /\ Bucket(heap2[h2[a]].page) = a
      OBVIOUS
    <3>1. CASE h[a] = c
      <4>1. h2[a] = m /\ h[a] # Null
        BY <1>11, <1>i, <3>1
      <4>2. b = a
        BY <1>1, <3>1, <4>1 DEF Chained
      <4> QED BY <1>9, <1>10, <1>m, <4>1, <4>2
    <3>2. CASE h[a] # c
      <4>1. h2[a] = h[a]
        BY <1>11, <3>2
      <4>2. h[a] \in Items(heap) /\ Bucket(heap[h[a]].page) = a
        BY <1>1, <4>1 DEF Chained
      <4> QED BY <1>9, <1>10, <3>2, <4>1, <4>2
    <3> QED BY <3>1, <3>2
  <2>3. \A x \in Items(heap2) :
           h2[Bucket(heap2[x].page)] = x \/ \E e \in Items(heap2) : heap2[e].next = x
    <3> SUFFICES ASSUME NEW x \in Items(heap2)
                 PROVE  h2[Bucket(heap2[x].page)] = x \/ \E e \in Items(heap2) : heap2[e].next = x
      OBVIOUS
    <3>0. x \in Items(heap) /\ x # c /\ heap2[x].page = heap[x].page /\ Bucket(heap[x].page) \in Buckets
      BY <1>10, <1>i
    <3>1. CASE h[Bucket(heap[x].page)] = x
      BY <1>11, <3>0, <3>1
    <3>2. CASE h[Bucket(heap[x].page)] # x
      <4>1. PICK e \in Items(heap) : heap[e].next = x
        BY <1>1, <3>0, <3>2 DEF Chained
      <4>2. CASE e # c
        <5>1. e \in Items(heap2)
          BY <1>9, <4>2
        <5>2. heap2[e].next = x
          BY <1>10, <3>0, <4>1, <5>1
        <5> QED BY <5>1, <5>2
      <4>3. CASE e = c
        <5>1. m = x
          BY <4>1, <4>3 DEF m
        <5>2. b = Bucket(heap[x].page)
          BY <1>i, <1>m, <3>0, <5>1
        <5>3. CASE h[b] = c
          BY <1>11, <3>0, <5>1, <5>2, <5>3
        <5>4. CASE h[b] # c
          <6>1. PICK y \in Items(heap) : heap[y].next = c
            BY <1>1, <5>4 DEF Chained
          <6>2. y \in P
            BY <6>1 DEF P
          <6>3. y \in Items(heap2) /\ heap2[y].next = m
            BY <1>9, <1>p, <6>2
          <6> QED BY <5>1, <6>3
        <5> QED BY <5>3, <5>4
      <4> QED BY <4>2, <4>3
    <3> QED BY <3>1, <3>2
  <2>n. \A x \in Items(heap) : heap[x].next # Null /\ heap[x].next = m => x = c
    BY <1>1 DEF Chained, m
  <2>4. \A x, e \in Items(heap2) : heap2[x].next # Null /\ heap2[x].next = heap2[e].next => x = e
    <3> SUFFICES ASSUME NEW x \in Items(heap2), NEW e \in Items(heap2),
                        heap2[x].next # Null, heap2[x].next = heap2[e].next
                 PROVE  x = e
      OBVIOUS
    <3>1. \A u, v \in Items(heap) : heap[u].next # Null /\ heap[u].next = heap[v].next => u = v
      BY <1>1 DEF Chained
    <3>2. c # Null
      BY <1>i
    <3> QED BY <1>10, <2>n, <3>1, <3>2
  <2>5. \A x \in Items(heap2), a \in Buckets : heap2[x].next # Null => heap2[x].next # h2[a]
    <3> SUFFICES ASSUME NEW x \in Items(heap2), NEW a \in Buckets, heap2[x].next # Null
                 PROVE  heap2[x].next # h2[a]
      OBVIOUS
    <3>1. \A u \in Items(heap) : heap[u].next # Null => heap[u].next # h[a]
      BY <1>1 DEF Chained
    <3>2. c # Null
      BY <1>i
    <3>3. m # Null => m # h[a]
      BY <3>1 DEF m
    <3> QED BY <1>10, <1>11, <2>n, <3>1, <3>2, <3>3
  <2>6. \A x, e \in Items(heap2) : heap2[x].page = heap2[e].page => x = e
    BY <1>1, <1>10 DEF Chained
  <2> QED BY <2>1, <2>2, <2>3, <2>4, <2>5, <2>6 DEF Chained
<1>13. SameBut(heap, heap2, {c})
  <2>1. \A x \in Cells \ {c} : heap[x] # Null => x \in Items(heap2)
    BY <1>9 DEF Items
  <2>2. \A x \in Cells \ {c} : heap2[x] # Null => x \in Items(heap)
    BY <1>9 DEF Items
  <2>3. \A x \in Items(heap) : heap[x] # Null
    BY <1>i
  <2>4. \A x \in Items(heap2) : heap2[x] # Null
    BY DEF Items
  <2>5. ASSUME NEW x \in Cells \ {c}
        PROVE  (heap[x] = Null <=> heap2[x] = Null) /\ (heap[x] # Null => heap2[x].page = heap[x].page)
    BY <1>10, <2>1, <2>2, <2>3, <2>4
  <2> QED BY <2>5 DEF SameBut
<1> QED BY <1>6, <1>7, <1>8, <1>12, <1>13 DEF Table

-----------------------------------------------------------------------------
(***************************************************************************)
(* Moves of one thread                                                     *)
(***************************************************************************)

\* Thread t comes to stage a with page p, pointer c and victim v.
Sets(t, a, p, c, v) == thr' = [thr EXCEPT ![t] = [pc |-> a, page |-> p, ptr |-> c, victim |-> v]]

\* What Go does to the four fields of a thread.
LEMMA GoSets ==
  ASSUME Types, NEW t \in Threads, NEW r, Go(t, r)
  PROVE  Sets(t, IF "pc" \in DOMAIN r THEN r["pc"] ELSE thr[t].pc,
                 IF "page" \in DOMAIN r THEN r["page"] ELSE thr[t].page,
                 IF "ptr" \in DOMAIN r THEN r["ptr"] ELSE thr[t].ptr,
                 IF "victim" \in DOMAIN r THEN r["victim"] ELSE thr[t].victim)
<1> DEFINE x == thr[t]
           y == [f \in DOMAIN x |-> IF f \in DOMAIN r THEN r[f] ELSE x[f]]
           z == [pc     |-> IF "pc" \in DOMAIN r THEN r["pc"] ELSE x.pc,
                 page   |-> IF "page" \in DOMAIN r THEN r["page"] ELSE x.page,
                 ptr    |-> IF "ptr" \in DOMAIN r THEN r["ptr"] ELSE x.ptr,
                 victim |-> IF "victim" \in DOMAIN r THEN r["victim"] ELSE x.victim]
<1>1. DOMAIN x = {"pc", "page", "ptr", "victim"} /\ t \in DOMAIN thr
  BY DEF Types
<1>2. thr' = [thr EXCEPT ![t] = y]
  BY <1>1 DEF Go
<1>3. y = z
  BY <1>1
<1> QED BY <1>2, <1>3 DEF Sets

\* What Go leaves alone, for each set of fields that the steps assign.
LEMMA GoPc ==
  ASSUME Types, NEW t \in Threads, NEW a, Go(t, [pc |-> a])
  PROVE  Sets(t, a, thr[t].page, thr[t].ptr, thr[t].victim)
<1> DEFINE r == [pc |-> a]
<1>1. DOMAIN r = {"pc"} /\ r["pc"] = a
  OBVIOUS
<1> HIDE DEF r
<1>2. Go(t, r)
  BY DEF r
<1> QED BY <1>1, <1>2, GoSets

\* The stage and the page.
LEMMA GoPcPage ==
  ASSUME Types, NEW t \in Threads, NEW a, NEW p, Go(t, [pc |-> a, page |-> p])
  PROVE  Sets(t, a, p, thr[t].ptr, thr[t].victim)
<1> DEFINE r == [pc |-> a, page |-> p]
<1>1. DOMAIN r = {"pc", "page"} /\ r["pc"] = a /\ r["page"] = p
  OBVIOUS
<1> HIDE DEF r
<1>2. Go(t, r)
  BY DEF r
<1> QED BY <1>1, <1>2, GoSets

\* The stage and the pointer.
LEMMA GoPcPtr ==
  ASSUME Types, NEW t \in Threads, NEW a, NEW c,
         Go(t, [pc |-> a, ptr |-> c]) \/ Go(t, [ptr |-> c, pc |-> a])
  PROVE  Sets(t, a, thr[t].page, c, thr[t].victim)
<1> DEFINE r == [pc |-> a, ptr |-> c]
           s == [ptr |-> c, pc |-> a]
<1>1. DOMAIN r = {"pc", "ptr"} /\ r["pc"] = a /\ r["ptr"] = c
  OBVIOUS
<1>2. DOMAIN s = {"pc", "ptr"} /\ s["pc"] = a /\ s["ptr"] = c
  OBVIOUS
<1>3. Go(t, r) \/ Go(t, s)
  OBVIOUS
<1> HIDE DEF r, s
<1>4. CASE Go(t, r)
  BY <1>1, <1>4, GoSets
<1>5. CASE Go(t, s)
  BY <1>2, <1>5, GoSets
<1> QED BY <1>3, <1>4, <1>5

\* The stage and the victim.
LEMMA GoPcVictim ==
  ASSUME Types, NEW t \in Threads, NEW a, NEW v, Go(t, [pc |-> a, victim |-> v])
  PROVE  Sets(t, a, thr[t].page, thr[t].ptr, v)
<1> DEFINE r == [pc |-> a, victim |-> v]
<1>1. DOMAIN r = {"pc", "victim"} /\ r["pc"] = a /\ r["victim"] = v
  OBVIOUS
<1> HIDE DEF r
<1>2. Go(t, r)
  BY DEF r
<1> QED BY <1>1, <1>2, GoSets

\* The stage, the pointer and the victim.
LEMMA GoPcPtrVictim ==
  ASSUME Types, NEW t \in Threads, NEW a, NEW c, NEW v, Go(t, [pc |-> a, ptr |-> c, victim |-> v])
  PROVE  Sets(t, a, thr[t].page, c, v)
<1> DEFINE r == [pc |-> a, ptr |-> c, victim |-> v]
<1>1. DOMAIN r = {"pc", "ptr", "victim"} /\ r["pc"] = a /\ r["ptr"] = c /\ r["victim"] = v
  OBVIOUS
<1> HIDE DEF r
<1>2. Go(t, r)
  BY DEF r
<1> QED BY <1>1, <1>2, GoSets

\* The other threads stay where they are.
LEMMA Moved ==
  ASSUME Types, NEW t \in Threads, NEW a, NEW p, NEW c, NEW v, Sets(t, a, p, c, v)
  PROVE  /\ thr'[t].pc = a /\ thr'[t].page = p /\ thr'[t].ptr = c /\ thr'[t].victim = v
         /\ \A u \in Threads : u # t => thr'[u] = thr[u]
<1>1. thr'[t] = [pc |-> a, page |-> p, ptr |-> c, victim |-> v] /\ \A u \in Threads : u # t => thr'[u] = thr[u]
  BY DEF Types, Sets
<1> QED BY <1>1

\* The fields of a thread.
LEMMA Fields ==
  ASSUME Types, NEW t \in Threads
  PROVE  /\ thr[t].pc \in Stages /\ thr[t].page \in Pages \cup {Null}
         /\ thr[t].ptr \in Cells \cup {Null} /\ thr[t].victim \in Pages \cup {Null}
         /\ thr[t].pc # "idle" => thr[t].page \in Pages /\ thr[t].page # Null
         /\ thr[t].pc \in Evicting => thr[t].victim \in Pages /\ thr[t].victim # Null
         /\ thr[t].pc \notin Evicting => thr[t].victim = Null
<1>1. thr[t] \in [pc : Stages, page : Pages \cup {Null}, ptr : Cells \cup {Null}, victim : Pages \cup {Null}]
  BY DEF Types
<1>2. /\ thr[t].pc \in Stages /\ thr[t].page \in Pages \cup {Null}
      /\ thr[t].ptr \in Cells \cup {Null} /\ thr[t].victim \in Pages \cup {Null}
  BY <1>1
<1> QED BY <1>2 DEF Types

\* The types after a move.
LEMMA TypesMoved ==
  ASSUME Types, NEW t \in Threads, NEW a \in Stages, NEW p \in Pages \cup {Null},
         NEW c \in Cells \cup {Null}, NEW v \in Pages \cup {Null}, Sets(t, a, p, c, v),
         p = Null <=> a = "idle", v # Null <=> a \in Evicting,
         lock' \in [Buckets -> Threads \cup {Null}], refCount' \in [Pages -> Nat], used' \in Seq(Pages)
  PROVE  Types'
<1> DEFINE X == [pc : Stages, page : Pages \cup {Null}, ptr : Cells \cup {Null}, victim : Pages \cup {Null}]
           x == [pc |-> a, page |-> p, ptr |-> c, victim |-> v]
<1>1. x \in X
  OBVIOUS
<1>2. thr \in [Threads -> X] /\ thr' = [thr EXCEPT ![t] = x]
  BY DEF Types, Sets
<1>3. thr' \in [Threads -> X]
  <2> HIDE DEF X, x
  <2> QED BY <1>1, <1>2
<1>x. thr'[t] = x /\ \A u \in Threads : u # t => thr'[u] = thr[u]
  <2> HIDE DEF X, x
  <2> QED BY <1>2
<1>m. /\ thr'[t].pc = a /\ thr'[t].page = p /\ thr'[t].victim = v
      /\ \A u \in Threads : u # t => thr'[u] = thr[u]
  BY <1>x
<1>4. \A u \in Threads : /\ thr'[u].page = Null <=> thr'[u].pc = "idle"
                         /\ thr'[u].victim # Null <=> thr'[u].pc \in Evicting
  <2>1. \A u \in Threads : u # t => /\ thr'[u].page = Null <=> thr'[u].pc = "idle"
                                    /\ thr'[u].victim # Null <=> thr'[u].pc \in Evicting
    BY <1>m DEF Types
  <2> QED BY <1>m, <2>1
<1> QED BY <1>3, <1>4 DEF Types

\* Sets of threads and of items are finite, and one move counts one thread more or less.
LEMMA InFinite ==
  ASSUME NEW S
  PROVE  /\ IsFiniteSet(In(S)) /\ Cardinality(In(S)) \in Nat
         /\ Cardinality(In(S)) <= Cardinality(Threads) /\ Cardinality(Threads) \in Nat
<1>1. In(S) \subseteq Threads
  BY DEF In
<1> QED BY <1>1, ThreadsAssumption, FS_Subset, FS_CardinalityType

\* A thread that moves enters or leaves a set of stages, and no other thread does.
LEMMA InMoved ==
  ASSUME Types, NEW t \in Threads, NEW a, NEW p, NEW c, NEW v, Sets(t, a, p, c, v), NEW S
  PROVE  /\ Cardinality(In(S)') \in Nat /\ Cardinality(In(S)) \in Nat
         /\ Cardinality(In(S)') <= Cardinality(Threads) /\ Cardinality(Threads) \in Nat
         /\ (a \in S <=> thr[t].pc \in S) => Cardinality(In(S)') = Cardinality(In(S))
         /\ a \in S /\ thr[t].pc \notin S => Cardinality(In(S)') = Cardinality(In(S)) + 1
         /\ a \notin S /\ thr[t].pc \in S => Cardinality(In(S)') = Cardinality(In(S)) - 1
<1>m. thr'[t].pc = a /\ \A u \in Threads : u # t => thr'[u] = thr[u]
  BY Moved
<1>0. In(S)' = {u \in Threads : thr'[u].pc \in S}
  BY DEF In
<1>1. In(S)' = IF a \in S THEN In(S) \cup {t} ELSE In(S) \ {t}
  <2>1. \A u \in Threads : u \in In(S)' <=> IF u = t THEN a \in S ELSE u \in In(S)
    BY <1>0, <1>m DEF In
  <2>2. In(S)' \subseteq Threads /\ In(S) \subseteq Threads
    BY <1>0 DEF In
  <2> QED BY <2>1, <2>2
<1>2. t \in In(S) <=> thr[t].pc \in S
  BY DEF In
<1>3. IsFiniteSet(In(S)) /\ Cardinality(In(S)) \in Nat /\ Cardinality(Threads) \in Nat
  BY InFinite
<1>4. Cardinality(In(S) \cup {t}) = IF t \in In(S) THEN Cardinality(In(S)) ELSE Cardinality(In(S)) + 1
  BY <1>3, FS_AddElement
<1>5. Cardinality(In(S) \ {t}) = IF t \in In(S) THEN Cardinality(In(S)) - 1 ELSE Cardinality(In(S))
  BY <1>3, FS_RemoveElement
<1>6. In(S)' \subseteq Threads
  BY <1>0
<1>7. Cardinality(In(S)') \in Nat /\ Cardinality(In(S)') <= Cardinality(Threads)
  BY <1>6, ThreadsAssumption, FS_Subset, FS_CardinalityType
<1> QED BY <1>1, <1>2, <1>3, <1>4, <1>5, <1>7

\* There are finitely many items.
LEMMA ItemsFinite ==
  ASSUME NEW heap
  PROVE  IsFiniteSet(Items(heap)) /\ Cardinality(Items(heap)) \in Nat
<1>1. Items(heap) \subseteq Cells
  BY DEF Items
<1> QED BY <1>1, CellsAssumption, FS_Subset, FS_CardinalityType

\* Finitely many threads pin a page.
LEMMA PinningFinite ==
  ASSUME NEW p
  PROVE  IsFiniteSet(Pinning(p)) /\ Cardinality(Pinning(p)) \in Nat
<1>1. Pinning(p) \subseteq Threads
  BY DEF Pinning
<1> QED BY <1>1, ThreadsAssumption, FS_Subset, FS_CardinalityType

\* A thread that moves and keeps its page pins what it pinned.
LEMMA PinsStay ==
  ASSUME Types, NEW t \in Threads, NEW a, NEW c, NEW v, Sets(t, a, thr[t].page, c, v),
         refCount' = refCount, \A p \in Pages : refCount[p] = Cardinality(Pinning(p))
  PROVE  \A p \in Pages : refCount'[p] = Cardinality(Pinning(p)')
<1>1. \A u \in Threads : thr'[u].page = thr[u].page
  <2>1. thr'[t].page = thr[t].page /\ \A u \in Threads : u # t => thr'[u] = thr[u]
    BY Moved
  <2> QED BY <2>1
<1>2. \A p \in Pages : Pinning(p)' = Pinning(p)
  BY <1>1 DEF Pinning
<1> QED BY <1>2

-----------------------------------------------------------------------------
(***************************************************************************)
(* One lemma for each step of page_fault                                   *)
(***************************************************************************)

\* The tables are what they were if their variables are.
LEMMA TablesStay ==
  ASSUME UNCHANGED <<item, head, citem, chead>>
  PROVE  /\ Table(item, head)' <=> Table(item, head)
         /\ Table(citem, chead)' <=> Table(citem, chead)
         /\ Present(item)' = Present(item) /\ Present(citem)' = Present(citem)
         /\ Items(item)' = Items(item) /\ Items(citem)' = Items(citem)
         /\ \A c, p : /\ IsItem(item, c, p)' <=> IsItem(item, c, p)
                      /\ IsItem(citem, c, p)' <=> IsItem(citem, c, p)
<1>1. Table(item, head)' <=> Table(item, head)
  BY DEF Table, Chained, Items
<1>2. Table(citem, chead)' <=> Table(citem, chead)
  BY DEF Table, Chained, Items
<1> QED BY <1>1, <1>2 DEF Present, Items, IsItem

\* A step in which a thread changes nothing but its stage and its pointer, and
\* neither takes nor gives up a page or a lock.
LEMMA QuietKeeps ==
  ASSUME TInv, NEW t \in Threads, NEW a \in Stages \ {"idle", "publish"}, NEW c \in Cells \cup {Null},
         Sets(t, a, thr[t].page, c, thr[t].victim),
         UNCHANGED <<head, lock, item, size, refCount, used, chead, citem>>,
         thr[t].pc \notin {"idle", "publish"},
         a \in Evicting <=> thr[t].pc \in Evicting,
         a \in {"evict", "remove"} <=> thr[t].pc \in {"evict", "remove"},
         a \in {"found", "read", "linked"} => thr[t].page \in Present(item),
         a = "read" => IsItem(item, c, thr[t].page),
         a \in {"evict", "remove"} => c = thr[t].ptr,
         a = "add" /\ c # Null => IsItem(citem, c, thr[t].page),
         a = "dequeue" => size >= EvictAt,
         a \in Claiming => thr[t].pc \in Claiming \/ size <= EvictAt - 1
  PROVE  TInv'
<1> DEFINE p == thr[t].page
           v == thr[t].victim
<1>0. /\ Types /\ Table(item, head) /\ Table(citem, chead) /\ Present(citem) \subseteq Written
      /\ LockInv /\ PinInv /\ PtrInv /\ QueueInv /\ SizeInv
  BY DEF TInv
<1>m. /\ thr'[t].pc = a /\ thr'[t].page = thr[t].page /\ thr'[t].ptr = c /\ thr'[t].victim = thr[t].victim
      /\ \A u \in Threads : u # t => thr'[u] = thr[u]
  BY <1>0, Moved
<1>f. /\ p \in Pages /\ p # Null /\ v \in Pages \cup {Null} /\ (v # Null <=> a \in Evicting)
  BY <1>0, Fields
<1>1. Types'
  <2>1. lock' \in [Buckets -> Threads \cup {Null}] /\ refCount' \in [Pages -> Nat] /\ used' \in Seq(Pages)
    BY <1>0 DEF Types
  <2>2. a \in Stages /\ (p = Null <=> a = "idle") /\ (v # Null <=> a \in Evicting)
    BY <1>f
  <2>3. Sets(t, a, p, c, v)
    OBVIOUS
  <2> HIDE DEF p, v
  <2> QED BY <1>0, <1>f, <2>1, <2>2, <2>3, TypesMoved
<1>2. /\ Table(item, head)' /\ Table(citem, chead)' /\ (Present(citem) \subseteq Written)'
      /\ Present(item)' = Present(item) /\ Items(item)' = Items(item)
      /\ \A d, q : (IsItem(item, d, q)' <=> IsItem(item, d, q)) /\ (IsItem(citem, d, q)' <=> IsItem(citem, d, q))
  BY <1>0, TablesStay
<1>3. LockInv'
  <2>1. \A u \in Threads, b \in Buckets : Owns(u, b)' <=> Owns(u, b)
    BY <1>m DEF Owns
  <2> QED BY <1>0, <2>1 DEF LockInv
<1>4. PinInv'
  <2>1. \A q \in Pages : refCount'[q] = Cardinality(Pinning(q)')
    BY <1>0, PinsStay DEF PinInv
  <2>2. \A u, w \in Threads : thr'[u].pc \in {"evict", "remove"} => thr'[w].page # thr'[u].victim
    BY <1>0, <1>m DEF PinInv
  <2>3. \A u \in Threads : thr'[u].pc \in {"found", "read", "linked", "publish"} => thr'[u].page \in Present(item)'
    BY <1>0, <1>2, <1>m DEF PinInv
  <2> QED BY <2>1, <2>2, <2>3 DEF PinInv
<1>5. PtrInv'
  BY <1>0, <1>2, <1>m DEF PtrInv
<1>6. QueueInv'
  <2>1. \A u \in Threads, q \in Pages : InHand(u, q)' <=> InHand(u, q)
    BY <1>m DEF InHand
  <2>2. used' = used /\ \A i \in DOMAIN used : used[i] \in Pages
    BY <1>0 DEF Types
  <2> QED BY <1>0, <1>2, <2>1, <2>2 DEF QueueInv
<1>7. SizeInv'
  <2>1. /\ Cardinality(In(Sent)') \in Nat /\ Cardinality(In(Sent)) \in Nat
        /\ Cardinality(In(Sent)') <= Cardinality(Threads) /\ Cardinality(Threads) \in Nat
        /\ (a \in Sent <=> thr[t].pc \in Sent) => Cardinality(In(Sent)') = Cardinality(In(Sent))
        /\ a \notin Sent /\ thr[t].pc \in Sent => Cardinality(In(Sent)') = Cardinality(In(Sent)) - 1
    BY <1>0, InMoved
  <2>2. /\ Cardinality(In(Claiming)') \in Nat /\ Cardinality(In(Claiming)) \in Nat
        /\ Cardinality(In(Claiming)') <= Cardinality(Threads)
        /\ (a \in Claiming <=> thr[t].pc \in Claiming) => Cardinality(In(Claiming)') = Cardinality(In(Claiming))
        /\ a \notin Claiming /\ thr[t].pc \in Claiming => Cardinality(In(Claiming)') = Cardinality(In(Claiming)) - 1
    BY <1>0, InMoved
  <2>3. Cardinality(In(Holding)') = Cardinality(In(Holding))
    <3>1. a \in Holding <=> thr[t].pc \in Holding
      BY DEF Holding
    <3> QED BY <1>0, <3>1, InMoved
  <2>4. size \in Nat /\ size' = size /\ EvictAt \in Nat /\ Cardinality(Threads) <= EvictAt
    BY <1>0, ItemsFinite, SizesAssumption DEF SizeInv
  <2>5. Cardinality(In(Sent)') <= size
    <3>1. CASE a \in Sent <=> thr[t].pc \in Sent
      BY <1>0, <2>1, <3>1 DEF SizeInv
    <3>2. CASE a \notin Sent /\ thr[t].pc \in Sent
      BY <1>0, <2>1, <2>4, <3>2 DEF SizeInv
    <3>3. CASE a \in Sent /\ thr[t].pc \notin Sent
      <4>1. a = "dequeue"
        BY <3>3 DEF Sent, Holding, Evicting
      <4> QED BY <2>1, <2>4, <4>1
    <3> QED BY <3>1, <3>2, <3>3
  <2>6. size + Cardinality(In(Claiming)') <= EvictAt - 1 + Cardinality(Threads)
    <3>1. CASE a \in Claiming <=> thr[t].pc \in Claiming
      BY <1>0, <2>2, <3>1 DEF SizeInv
    <3>2. CASE a \notin Claiming /\ thr[t].pc \in Claiming
      BY <1>0, <2>1, <2>2, <2>4, <3>2 DEF SizeInv
    <3>3. CASE a \in Claiming /\ thr[t].pc \notin Claiming
      BY <2>1, <2>2, <2>4, <3>3
    <3> QED BY <3>1, <3>2, <3>3
  <2>7. used' = used
    OBVIOUS
  <2> QED BY <1>0, <1>2, <2>3, <2>4, <2>5, <2>6, <2>7 DEF SizeInv
<1> QED BY <1>1, <1>2, <1>3, <1>4, <1>5, <1>6, <1>7 DEF TInv

\* What Here returns.
LEMMA HereExact ==
  ASSUME TInv, NEW p \in Pages
  PROVE  /\ Here(p) \in Cells \cup {Null}
         /\ Here(p) # Null <=> p \in Present(item)
         /\ Here(p) # Null => IsItem(item, Here(p), p)
         /\ \A d : IsItem(item, d, p) => d = Here(p)
<1>1. Table(item, head)
  BY DEF TInv
<1> QED BY <1>1, GetExact DEF Here

\* get: the pointer it returns is that of the page's item, which is there when a try_add was lost.
LEMMA GetKeeps ==
  ASSUME TInv, NEW t \in Threads, Get(t)
  PROVE  TInv'
<1> DEFINE c == Here(thr[t].page)
           a == CASE c # Null -> "read"
                  [] c = Null /\ At(t, "get") -> "check"
                  [] OTHER -> "aborted"
<1>0. Types /\ thr[t].pc \in {"get", "found"} /\ thr[t].page \in Pages /\ thr[t].pc \notin Evicting
  BY Fields DEF TInv, Get, Evicting
<1>1. Go(t, [ptr |-> c, pc |-> a])
  BY DEF Get
<1>2. /\ c \in Cells \cup {Null} /\ (c # Null <=> thr[t].page \in Present(item))
      /\ c # Null => IsItem(item, c, thr[t].page)
  BY <1>0, HereExact
<1>3. a \in {"read", "check"} /\ (a = "read" <=> c # Null)
  <2>1. thr[t].pc = "found" => thr[t].page \in Present(item)
    BY DEF TInv, PinInv
  <2> HIDE DEF c
  <2> QED BY <1>0, <1>2, <2>1 DEF At
<1> HIDE DEF a, c
<1>4. Sets(t, a, thr[t].page, c, thr[t].victim)
  BY <1>0, <1>1, GoPcPtr
<1>5. UNCHANGED <<head, lock, item, size, refCount, used, chead, citem>>
  BY DEF Get, cacheVars, cryptoVars
<1> QED BY <1>0, <1>2, <1>3, <1>4, <1>5, QuietKeeps DEF Evicting, Claiming, Stages

\* The item that get returned is still there when it is read without a lock.
LEMMA ReadItemKeeps ==
  ASSUME TInv, NEW t \in Threads, ReadItem(t)
  PROVE  TInv'
<1>0. Types /\ thr[t].pc = "read" /\ thr[t].page \in Pages
  BY Fields DEF TInv, ReadItem, At
<1>1. IsItem(item, thr[t].ptr, thr[t].page) /\ thr[t].page \in Present(item)
  BY <1>0 DEF TInv, PtrInv, PinInv
<1>2. item[thr[t].ptr] # Null
  BY <1>1 DEF IsItem, Items
<1>3. Sets(t, "linked", thr[t].page, Null, thr[t].victim)
  <2>1. Go(t, [pc |-> "linked", ptr |-> Null])
    BY <1>2 DEF ReadItem
  <2> QED BY <1>0, <2>1, GoPcPtr
<1>4. UNCHANGED <<head, lock, item, size, refCount, used, chead, citem>>
  BY DEF ReadItem, cacheVars, cryptoVars
<1> QED BY <1>0, <1>1, <1>3, <1>4, QuietKeeps DEF Evicting, Claiming, Stages

\* A thread is sent to evict when there are EvictAt items, no fewer than threads.
LEMMA CheckSizeKeeps ==
  ASSUME TInv, NEW t \in Threads, CheckSize(t)
  PROVE  TInv'
<1> DEFINE a == IF size >= EvictAt THEN "dequeue" ELSE "decrypt"
<1>0. Types /\ thr[t].pc = "check" /\ thr[t].ptr \in Cells \cup {Null}
  BY Fields DEF TInv, CheckSize, At
<1>1. size \in Nat /\ EvictAt \in Nat
  BY ItemsFinite, SizesAssumption DEF TInv, SizeInv
<1>2. /\ a \in {"dequeue", "decrypt"} /\ (a = "dequeue" => size >= EvictAt)
      /\ a = "decrypt" => size <= EvictAt - 1
  BY <1>1
<1>3. Go(t, [pc |-> a])
  BY DEF CheckSize
<1> HIDE DEF a
<1>4. Sets(t, a, thr[t].page, thr[t].ptr, thr[t].victim)
  BY <1>0, <1>3, GoPc
<1>5. UNCHANGED <<head, lock, item, size, refCount, used, chead, citem>>
  BY DEF CheckSize, cacheVars, cryptoVars
<1> QED BY <1>0, <1>2, <1>4, <1>5, QuietKeeps DEF Evicting, Claiming, Stages

\* A clean victim is not written back.
LEMMA CleanVictimKeeps ==
  ASSUME TInv, NEW t \in Threads, CleanVictim(t)
  PROVE  TInv'
<1>0. Types /\ thr[t].pc = "evict" /\ thr[t].ptr \in Cells \cup {Null}
  BY Fields DEF TInv, CleanVictim, At
<1>1. Sets(t, "remove", thr[t].page, thr[t].ptr, thr[t].victim)
  <2>1. Go(t, [pc |-> "remove"])
    BY DEF CleanVictim
  <2> QED BY <1>0, <2>1, GoPc
<1>2. UNCHANGED <<head, lock, item, size, refCount, used, chead, citem>>
  BY DEF CleanVictim, cacheVars, cryptoVars
<1> QED BY <1>0, <1>1, <1>2, QuietKeeps DEF Evicting, Claiming, Stages

\* The crypto item of the page to decrypt is looked up.
LEMMA CryptoGetKeeps ==
  ASSUME TInv, NEW t \in Threads, CryptoGet(t)
  PROVE  TInv'
<1> DEFINE c == get_internal(citem, chead[Bucket(thr[t].page)], thr[t].page)
<1>0. Types /\ thr[t].pc = "decrypt" /\ thr[t].page \in Pages
  BY Fields DEF TInv, CryptoGet, At
<1>1. c \in Cells \cup {Null} /\ (c # Null => IsItem(citem, c, thr[t].page))
  BY <1>0, GetExact DEF TInv
<1>2. Go(t, [pc |-> "add", ptr |-> c])
  BY DEF CryptoGet
<1> HIDE DEF c
<1>3. Sets(t, "add", thr[t].page, c, thr[t].victim)
  BY <1>0, <1>2, GoPcPtr
<1>4. UNCHANGED <<head, lock, item, size, refCount, used, chead, citem>>
  BY DEF CryptoGet, cacheVars, cryptoVars
<1> QED BY <1>0, <1>1, <1>3, <1>4, QuietKeeps DEF Evicting, Claiming, Stages

\* The page was added by another thread meanwhile.
LEMMA LostAddKeeps ==
  ASSUME TInv, NEW t \in Threads, At(t, "add"), Here(thr[t].page) # Null,
         Go(t, [pc |-> "found", ptr |-> Null]), UNCHANGED <<cacheVars, refCount, used, cryptoVars>>
  PROVE  TInv'
<1>0. Types /\ thr[t].pc = "add" /\ thr[t].page \in Pages
  BY Fields DEF TInv, At
<1>1. thr[t].page \in Present(item)
  BY <1>0, HereExact
<1>2. Sets(t, "found", thr[t].page, Null, thr[t].victim)
  BY <1>0, GoPcPtr
<1>3. UNCHANGED <<head, lock, item, size, refCount, used, chead, citem>>
  BY DEF cacheVars, cryptoVars
<1> QED BY <1>0, <1>1, <1>2, <1>3, QuietKeeps DEF Evicting, Claiming, Stages

\* A page that is pinned when its bucket is not locked is not being evicted.
LEMMA IncRefCountKeeps ==
  ASSUME TInv, NEW t \in Threads, IncRefCount(t)
  PROVE  TInv'
<1>0. /\ Types /\ Table(item, head) /\ Table(citem, chead) /\ Present(citem) \subseteq Written
      /\ LockInv /\ PinInv /\ PtrInv /\ QueueInv /\ SizeInv
  BY DEF TInv
<1>1. PICK p \in Pages : /\ At(t, "idle") /\ Free(p)
                         /\ refCount' = [refCount EXCEPT ![p] = @ + 1]
                         /\ Go(t, [pc |-> "get", page |-> p])
                         /\ UNCHANGED <<port, cacheVars, used, cryptoVars>>
  BY DEF IncRefCount
<1>s. Sets(t, "get", p, thr[t].ptr, thr[t].victim)
  BY <1>0, <1>1, GoPcPage
<1>m. /\ thr'[t].pc = "get" /\ thr'[t].page = p /\ thr'[t].ptr = thr[t].ptr /\ thr'[t].victim = thr[t].victim
      /\ \A u \in Threads : u # t => thr'[u] = thr[u]
  BY <1>0, <1>s, Moved
<1>u. UNCHANGED <<head, lock, item, size, used, chead, citem>>
  BY <1>1 DEF cacheVars, cryptoVars
<1>f. /\ thr[t].pc = "idle" /\ thr[t].page = Null /\ thr[t].ptr \in Cells \cup {Null} /\ thr[t].victim = Null
      /\ p # Null
  BY <1>0, <1>1, Fields, PagesAssumption DEF At, Types, Evicting
<1>2. Types'
  <2>1. lock' \in [Buckets -> Threads \cup {Null}] /\ refCount' \in [Pages -> Nat] /\ used' \in Seq(Pages)
    BY <1>0, <1>1, <1>u DEF Types
  <2>2. "get" \in Stages /\ "get" \notin Evicting /\ Null \in Pages \cup {Null} /\ p \in Pages \cup {Null}
    BY DEF Stages, Evicting
  <2> QED BY <1>0, <1>f, <1>s, <2>1, <2>2, TypesMoved
<1>3. /\ Table(item, head)' /\ Table(citem, chead)' /\ (Present(citem) \subseteq Written)'
      /\ Present(item)' = Present(item) /\ Items(item)' = Items(item)
      /\ \A d, q : (IsItem(item, d, q)' <=> IsItem(item, d, q)) /\ (IsItem(citem, d, q)' <=> IsItem(citem, d, q))
  BY <1>0, <1>u, TablesStay
<1>4. LockInv'
  <2>1. \A u \in Threads, b \in Buckets : Owns(u, b)' <=> Owns(u, b)
    BY <1>m, <1>f DEF Owns
  <2> QED BY <1>0, <1>u, <2>1 DEF LockInv
<1>5. PinInv'
  <2>1. \A q \in Pages : refCount'[q] = Cardinality(Pinning(q)')
    <3> SUFFICES ASSUME NEW q \in Pages PROVE refCount'[q] = Cardinality(Pinning(q)')
      OBVIOUS
    <3>1. CASE q # p
      <4>1. Pinning(q)' = Pinning(q)
        BY <1>f, <1>m, <3>1, PagesAssumption DEF Pinning
      <4> QED BY <1>0, <1>1, <3>1, <4>1 DEF PinInv, Types
    <3>2. CASE q = p
      <4>1. Pinning(p)' = Pinning(p) \cup {t} /\ t \notin Pinning(p)
        BY <1>f, <1>m DEF Pinning
      <4>2. Cardinality(Pinning(p)') = Cardinality(Pinning(p)) + 1
        BY <4>1, PinningFinite, FS_AddElement
      <4>3. refCount'[p] = refCount[p] + 1
        BY <1>0, <1>1 DEF Types
      <4> QED BY <1>0, <3>2, <4>2, <4>3 DEF PinInv
    <3> QED BY <3>1, <3>2
  <2>2. \A u, w \in Threads : thr'[u].pc \in {"evict", "remove"} => thr'[w].page # thr'[u].victim
    <3> SUFFICES ASSUME NEW u \in Threads, NEW w \in Threads, thr'[u].pc \in {"evict", "remove"}
                 PROVE  thr'[w].page # thr'[u].victim
      OBVIOUS
    <3>1. u # t /\ thr'[u] = thr[u]
      BY <1>m
    <3>2. CASE w # t
      BY <1>0, <1>m, <3>1, <3>2 DEF PinInv
    <3>3. CASE w = t
      <4>1. thr[u].victim \in Pages /\ Owns(u, Bucket(thr[u].victim))
        BY <1>0, <3>1, Fields DEF Owns, Evicting
      <4>2. lock[Bucket(thr[u].victim)] = u
        BY <1>0, <4>1, BucketIn DEF LockInv
      <4>3. lock[Bucket(p)] = Null
        BY <1>1 DEF Free
      <4> QED BY <1>m, <3>1, <3>3, <4>2, <4>3, ThreadsAssumption
    <3> QED BY <3>2, <3>3
  <2>3. \A u \in Threads : thr'[u].pc \in {"found", "read", "linked", "publish"} => thr'[u].page \in Present(item)'
    BY <1>0, <1>3, <1>m DEF PinInv
  <2> QED BY <2>1, <2>2, <2>3 DEF PinInv
<1>6. PtrInv'
  BY <1>0, <1>3, <1>m DEF PtrInv
<1>7. QueueInv'
  <2>1. \A u \in Threads, q \in Pages : InHand(u, q)' <=> InHand(u, q)
    BY <1>m, <1>f DEF InHand, Evicting
  <2>2. used' = used /\ \A i \in DOMAIN used : used[i] \in Pages
    BY <1>0, <1>u DEF Types
  <2> QED BY <1>0, <1>3, <2>1, <2>2 DEF QueueInv
<1>8. SizeInv'
  <2>1. "get" \notin Holding /\ "get" \notin Sent /\ "get" \notin Claiming /\ thr[t].pc \notin Holding
        /\ thr[t].pc \notin Sent /\ thr[t].pc \notin Claiming
    BY <1>f DEF Holding, Sent, Claiming, Evicting
  <2>2. /\ Cardinality(In(Holding)') = Cardinality(In(Holding)) /\ Cardinality(In(Sent)') = Cardinality(In(Sent))
        /\ Cardinality(In(Claiming)') = Cardinality(In(Claiming))
    BY <1>0, <1>s, <2>1, InMoved
  <2> QED BY <1>0, <1>3, <1>u, <2>2 DEF SizeInv
<1> QED BY <1>2, <1>3, <1>4, <1>5, <1>6, <1>7, <1>8 DEF TInv

\* A page is unpinned by the thread that pinned it, so that its count was not zero.
LEMMA DecRefCountKeeps ==
  ASSUME TInv, NEW t \in Threads, DecRefCount(t)
  PROVE  TInv'
<1>0. /\ Types /\ Table(item, head) /\ Table(citem, chead) /\ Present(citem) \subseteq Written
      /\ LockInv /\ PinInv /\ PtrInv /\ QueueInv /\ SizeInv
  BY DEF TInv
<1>l. thr[t].pc = "linked"
  BY DEF DecRefCount, At
<1>p. PICK p \in Pages : p = thr[t].page
  BY <1>0, <1>l, Fields
<1>1. /\ thr[t].pc = "linked" /\ refCount' = [refCount EXCEPT ![p] = @ - 1]
      /\ UNCHANGED <<head, lock, item, size, used, chead, citem>>
  BY <1>l, <1>p DEF DecRefCount, cacheVars, cryptoVars
<1>s. Sets(t, "idle", Null, Null, Null)
  BY DEF DecRefCount, Sets, Idle
<1>m. /\ thr'[t].pc = "idle" /\ thr'[t].page = Null /\ thr'[t].ptr = Null /\ thr'[t].victim = Null
      /\ \A u \in Threads : u # t => thr'[u] = thr[u]
  BY <1>0, <1>s, Moved
<1>f. p \in Pages /\ p # Null
  BY PagesAssumption
<1>c. t \in Pinning(p) /\ Cardinality(Pinning(p)) \in Nat \ {0}
  <2>1. t \in Pinning(p)
    BY <1>p DEF Pinning
  <2>2. IsFiniteSet(Pinning(p)) /\ Cardinality(Pinning(p)) \in Nat
    BY PinningFinite
  <2> QED BY <2>1, <2>2, FS_EmptySet
<1>2. Types'
  <2>1. lock' \in [Buckets -> Threads \cup {Null}] /\ used' \in Seq(Pages)
    BY <1>0, <1>1 DEF Types
  <2>2. "idle" \in Stages /\ "idle" \notin Evicting /\ Null \in Pages \cup {Null} /\ Null \in Cells \cup {Null}
    BY DEF Stages, Evicting
  <2>3. refCount' \in [Pages -> Nat]
    <3>1. refCount[p] \in Nat \ {0}
      BY <1>0, <1>c, <1>f DEF PinInv
    <3>2. refCount[p] - 1 \in Nat
      BY <3>1
    <3> QED BY <1>0, <1>1, <1>f, <3>2 DEF Types
  <2> QED BY <1>0, <1>s, <2>1, <2>2, <2>3, TypesMoved
<1>3. /\ Table(item, head)' /\ Table(citem, chead)' /\ (Present(citem) \subseteq Written)'
      /\ Present(item)' = Present(item) /\ Items(item)' = Items(item)
      /\ \A d, q : (IsItem(item, d, q)' <=> IsItem(item, d, q)) /\ (IsItem(citem, d, q)' <=> IsItem(citem, d, q))
  BY <1>0, <1>1, TablesStay
<1>4. LockInv'
  <2>1. \A u \in Threads, b \in Buckets : Owns(u, b)' <=> Owns(u, b)
    BY <1>m, <1>1 DEF Owns
  <2> QED BY <1>0, <1>1, <2>1 DEF LockInv
<1>5. PinInv'
  <2>1. \A q \in Pages : refCount'[q] = Cardinality(Pinning(q)')
    <3> SUFFICES ASSUME NEW q \in Pages PROVE refCount'[q] = Cardinality(Pinning(q)')
      OBVIOUS
    <3>1. CASE q # p
      <4>1. Pinning(q)' = Pinning(q)
        BY <1>f, <1>m, <1>p, <3>1, PagesAssumption DEF Pinning
      <4> QED BY <1>0, <1>1, <3>1, <4>1 DEF PinInv, Types
    <3>2. CASE q = p
      <4>1. Pinning(p)' = Pinning(p) \ {t}
        BY <1>f, <1>m DEF Pinning
      <4>2. Cardinality(Pinning(p)') = Cardinality(Pinning(p)) - 1
        <5>1. t \in Pinning(p) /\ IsFiniteSet(Pinning(p))
          BY <1>c, PinningFinite
        <5> QED BY <4>1, <5>1, FS_RemoveElement
      <4>3. refCount'[p] = refCount[p] - 1
        BY <1>0, <1>1, <1>f DEF Types
      <4> QED BY <1>0, <1>f, <3>2, <4>2, <4>3 DEF PinInv
    <3> QED BY <3>1, <3>2
  <2>2. \A u, w \in Threads : thr'[u].pc \in {"evict", "remove"} => thr'[w].page # thr'[u].victim
    <3> SUFFICES ASSUME NEW u \in Threads, NEW w \in Threads, thr'[u].pc \in {"evict", "remove"}
                 PROVE  thr'[w].page # thr'[u].victim
      OBVIOUS
    <3>1. u # t /\ thr'[u] = thr[u]
      BY <1>m
    <3>2. thr[u].victim # Null
      BY <1>0, <3>1, Fields DEF Evicting
    <3> QED BY <1>0, <1>m, <3>1, <3>2 DEF PinInv
  <2>3. \A u \in Threads : thr'[u].pc \in {"found", "read", "linked", "publish"} => thr'[u].page \in Present(item)'
    BY <1>0, <1>3, <1>m DEF PinInv
  <2> QED BY <2>1, <2>2, <2>3 DEF PinInv
<1>6. PtrInv'
  BY <1>0, <1>3, <1>m DEF PtrInv
<1>7. QueueInv'
  <2>1. \A u \in Threads, q \in Pages : InHand(u, q)' <=> InHand(u, q)
    BY <1>m, <1>1 DEF InHand, Evicting
  <2>2. used' = used /\ \A i \in DOMAIN used : used[i] \in Pages
    BY <1>0, <1>1 DEF Types
  <2> QED BY <1>0, <1>3, <2>1, <2>2 DEF QueueInv
<1>8. SizeInv'
  <2>1. "idle" \notin Holding /\ "idle" \notin Sent /\ "idle" \notin Claiming /\ thr[t].pc \notin Holding
        /\ thr[t].pc \notin Sent /\ thr[t].pc \notin Claiming
    BY <1>1 DEF Holding, Sent, Claiming, Evicting
  <2>2. /\ Cardinality(In(Holding)') = Cardinality(In(Holding)) /\ Cardinality(In(Sent)') = Cardinality(In(Sent))
        /\ Cardinality(In(Claiming)') = Cardinality(In(Claiming))
    BY <1>0, <1>s, <2>1, InMoved
  <2> QED BY <1>0, <1>1, <1>3, <2>2 DEF SizeInv
<1> QED BY <1>2, <1>3, <1>4, <1>5, <1>6, <1>7, <1>8 DEF TInv

\* Every item stays but that of page Lost; no thread uses that page and none but t evicts it.
KeepsAllBut(Lost) ==
  /\ \A d, q : IsItem(item, d, q) /\ q # Lost => IsItem(item, d, q)'
  /\ \A d, q : IsItem(citem, d, q) => IsItem(citem, d, q)'
Unwanted(t, Lost) ==
  /\ \A u \in Threads : thr[u].pc # "idle" => thr[u].page # Lost
  /\ \A u \in Threads : u # t /\ thr[u].pc \in {"evict", "remove"} => thr[u].victim # Lost

\* What a step of thread t keeps if it takes away no item but that of page Lost,
\* which no thread uses and no other thread evicts.
LEMMA CoreKeeps ==
  ASSUME Types, PinInv, PtrInv, NEW t \in Threads, NEW a \in Stages \ {"idle", "read", "add"},
         NEW c \in Cells \cup {Null}, NEW v \in Pages \cup {Null}, Sets(t, a, thr[t].page, c, v),
         thr[t].pc # "idle", v # Null <=> a \in Evicting,
         refCount' = refCount, lock' \in [Buckets -> Threads \cup {Null}], used' \in Seq(Pages),
         NEW Lost, KeepsAllBut(Lost), Unwanted(t, Lost),
         a \in {"evict", "remove"} => IsItem(item, c, v)' /\ \A u \in Threads : thr[u].page # v,
         a \in {"found", "linked", "publish"} => thr[t].page \in Present(item)'
  PROVE  Types' /\ PinInv' /\ PtrInv'
<1> DEFINE p == thr[t].page
<1>m. /\ thr'[t].pc = a /\ thr'[t].page = thr[t].page /\ thr'[t].ptr = c /\ thr'[t].victim = v
      /\ \A u \in Threads : u # t => thr'[u] = thr[u]
  BY Moved
<1>1. Types'
  <2>1. p \in Pages /\ p # Null
    BY Fields
  <2>2. Sets(t, a, p, c, v)
    OBVIOUS
  <2>3. a \in Stages /\ (p = Null <=> a = "idle") /\ p \in Pages \cup {Null}
    BY <2>1
  <2>4. refCount' \in [Pages -> Nat]
    BY DEF Types
  <2> HIDE DEF p
  <2> QED BY <2>2, <2>3, <2>4, TypesMoved
<1>p. \A u \in Threads : thr[u].pc # "idle" /\ thr[u].page \in Present(item) => thr[u].page \in Present(item')
  <2> SUFFICES ASSUME NEW u \in Threads, thr[u].pc # "idle", thr[u].page \in Present(item)
               PROVE  thr[u].page \in Present(item')
    OBVIOUS
  <2>1. PICK d \in Items(item) : item[d].page = thr[u].page
    BY DEF Present
  <2>2. PICK q : q = thr[u].page
    OBVIOUS
  <2>3. IsItem(item, d, q) /\ q # Lost
    BY <2>1, <2>2 DEF IsItem, Unwanted
  <2>4. IsItem(item, d, q)'
    BY <2>3 DEF KeepsAllBut
  <2>5. d \in Items(item') /\ item'[d].page = q
    BY <2>4 DEF IsItem, Items
  <2> QED BY <2>2, <2>5 DEF Present
<1>2. PinInv'
  <2>1. \A q \in Pages : refCount'[q] = Cardinality(Pinning(q)')
    BY PinsStay DEF PinInv
  <2>2. \A u, w \in Threads : thr'[u].pc \in {"evict", "remove"} => thr'[w].page # thr'[u].victim
    <3>1. \A w \in Threads : thr'[w].page = thr[w].page
      BY <1>m
    <3>2. \A u, w \in Threads : thr[u].pc \in {"evict", "remove"} => thr[w].page # thr[u].victim
      BY DEF PinInv
    <3> QED BY <1>m, <3>1, <3>2
  <2>3. \A u \in Threads : thr'[u].pc \in {"found", "read", "linked", "publish"} => thr'[u].page \in Present(item')
    <3>1. thr'[t].pc \in {"found", "read", "linked", "publish"} => thr'[t].page \in Present(item')
      <4>1. a \in {"found", "linked", "publish"} => thr[t].page \in Present(item')
        BY DEF Present, Items
      <4> QED BY <1>m, <4>1
    <3>2. \A u \in Threads : thr[u].pc \in {"found", "read", "linked", "publish"} => thr[u].page \in Present(item)
      BY DEF PinInv
    <3> QED BY <1>m, <1>p, <3>1, <3>2
  <2>4. \A u \in Threads : thr'[u].pc \in {"found", "read", "linked", "publish"} => thr'[u].page \in Present(item)'
    BY <2>3 DEF Present, Items
  <2> QED BY <2>1, <2>2, <2>4 DEF PinInv
<1>3. PtrInv'
  <2> SUFFICES ASSUME NEW u \in Threads
               PROVE  /\ thr'[u].pc = "read" => IsItem(item', thr'[u].ptr, thr'[u].page)
                      /\ thr'[u].pc \in {"evict", "remove"} => IsItem(item', thr'[u].ptr, thr'[u].victim)
                      /\ thr'[u].pc = "add" /\ thr'[u].ptr # Null => IsItem(citem', thr'[u].ptr, thr'[u].page)
    BY DEF PtrInv, IsItem, Items
  <2>1. CASE u = t
    <3>1. a \in {"evict", "remove"} => IsItem(item', c, v)
      BY DEF IsItem, Items
    <3> QED BY <1>m, <2>1, <3>1
  <2>2. CASE u # t
    <3>1. \A d, q : IsItem(item, d, q) /\ q # Lost => IsItem(item', d, q)
      BY DEF KeepsAllBut, IsItem, Items
    <3>2. \A d, q : IsItem(citem, d, q) => IsItem(citem', d, q)
      BY DEF KeepsAllBut, IsItem, Items
    <3>3. thr'[u] = thr[u]
      BY <1>m, <2>2
    <3>4. /\ thr[u].pc = "read" => IsItem(item, thr[u].ptr, thr[u].page)
          /\ thr[u].pc \in {"evict", "remove"} => IsItem(item, thr[u].ptr, thr[u].victim)
          /\ thr[u].pc = "add" /\ thr[u].ptr # Null => IsItem(citem, thr[u].ptr, thr[u].page)
      BY DEF PtrInv
    <3>5. thr[u].pc = "read" => IsItem(item', thr[u].ptr, thr[u].page)
      BY <3>1, <3>4 DEF Unwanted
    <3>6. thr[u].pc \in {"evict", "remove"} => IsItem(item', thr[u].ptr, thr[u].victim)
      BY <2>2, <3>1, <3>4 DEF Unwanted
    <3>7. thr[u].pc = "add" /\ thr[u].ptr # Null => IsItem(citem', thr[u].ptr, thr[u].page)
      BY <3>2, <3>4
    <3> QED BY <3>3, <3>5, <3>6, <3>7
  <2> QED BY <2>1, <2>2
<1> QED BY <1>1, <1>2, <1>3

\* The same for a step that takes away no item.
LEMMA CoreStays ==
  ASSUME Types, PinInv, PtrInv, NEW t \in Threads, NEW a \in Stages \ {"idle", "read", "add"},
         NEW c \in Cells \cup {Null}, NEW v \in Pages \cup {Null}, Sets(t, a, thr[t].page, c, v),
         thr[t].pc # "idle", v # Null <=> a \in Evicting,
         refCount' = refCount, lock' \in [Buckets -> Threads \cup {Null}], used' \in Seq(Pages),
         \A d, q : IsItem(item, d, q) => IsItem(item, d, q)',
         \A d, q : IsItem(citem, d, q) => IsItem(citem, d, q)',
         a \in {"evict", "remove"} => IsItem(item, c, v)' /\ \A u \in Threads : thr[u].page # v,
         a \in {"found", "linked", "publish"} => thr[t].page \in Present(item)'
  PROVE  Types' /\ PinInv' /\ PtrInv'
<1>1. KeepsAllBut(Null)
  BY DEF KeepsAllBut
<1>2. Unwanted(t, Null)
  BY Fields DEF Unwanted, Evicting
<1> QED BY <1>1, <1>2, CoreKeeps

\* A step of thread t that takes and gives up no lock.
LEMMA LocksStay ==
  ASSUME Types, LockInv, NEW t \in Threads, NEW a, NEW p, NEW c, NEW v, Sets(t, a, p, c, v), lock' = lock,
         a \notin {"evict", "remove", "publish"}, thr[t].pc \notin {"evict", "remove", "publish"}
  PROVE  LockInv'
<1>m. /\ thr'[t].pc = a /\ \A u \in Threads : u # t => thr'[u] = thr[u]
  BY Moved
<1>1. \A u \in Threads, b \in Buckets : Owns(u, b)' <=> Owns(u, b)
  BY <1>m DEF Owns
<1> QED BY <1>1 DEF LockInv

\* A step of thread t that takes the lock of bucket b, which is free.
LEMMA LockTaken ==
  ASSUME Types, LockInv, NEW t \in Threads, NEW b \in Buckets, lock[b] = Null,
         lock' = [lock EXCEPT ![b] = t],
         NEW a, NEW p, NEW c, NEW v, Sets(t, a, p, c, v),
         thr[t].pc \notin {"evict", "remove", "publish"},
         \/ a \in {"evict", "remove"} /\ b = Bucket(v)
         \/ a = "publish" /\ b = Bucket(p)
  PROVE  LockInv'
<1>m. /\ thr'[t].pc = a /\ thr'[t].page = p /\ thr'[t].victim = v
      /\ \A u \in Threads : u # t => thr'[u] = thr[u]
  BY Moved
<1>1. lock'[b] = t /\ \A d \in Buckets : d # b => lock'[d] = lock[d]
  BY DEF Types
<1>2. \A d \in Buckets : Owns(t, d)' <=> d = b
  BY <1>m DEF Owns
<1>3. \A u \in Threads, d \in Buckets : u # t => (Owns(u, d)' <=> Owns(u, d))
  BY <1>m DEF Owns
<1>4. \A d \in Buckets : ~Owns(t, d)
  BY DEF Owns
<1>5. \A u \in Threads : ~Owns(u, b)
  BY ThreadsAssumption DEF LockInv
<1>6. \A d \in Buckets, u \in Threads : lock'[d] = u <=> Owns(u, d)'
  <2> SUFFICES ASSUME NEW d \in Buckets, NEW u \in Threads PROVE lock'[d] = u <=> Owns(u, d)'
    OBVIOUS
  <2>1. CASE d = b
    BY <1>1, <1>2, <1>3, <1>5, <2>1
  <2>2. CASE d # b
    BY <1>1, <1>2, <1>3, <1>4, <2>2 DEF LockInv
  <2> QED BY <2>1, <2>2
<1> QED BY <1>6 DEF LockInv

\* A step of thread t that unlocks bucket b.
LEMMA LockReleased ==
  ASSUME Types, LockInv, NEW t \in Threads, NEW b \in Buckets, Owns(t, b),
         lock' = [lock EXCEPT ![b] = Null],
         NEW a, NEW p, NEW c, NEW v, Sets(t, a, p, c, v), a \notin {"evict", "remove", "publish"}
  PROVE  LockInv'
<1>m. /\ thr'[t].pc = a /\ \A u \in Threads : u # t => thr'[u] = thr[u]
  BY Moved
<1>1. lock'[b] = Null /\ lock[b] = t /\ \A d \in Buckets : d # b => lock'[d] = lock[d]
  BY DEF Types, LockInv
<1>2. \A d \in Buckets : ~Owns(t, d)'
  BY <1>m DEF Owns
<1>3. \A u \in Threads, d \in Buckets : u # t => (Owns(u, d)' <=> Owns(u, d))
  BY <1>m DEF Owns
<1>4. \A d \in Buckets : d # b => ~Owns(t, d)
  BY DEF Owns
<1>5. \A d \in Buckets, u \in Threads : lock'[d] = u <=> Owns(u, d)'
  <2> SUFFICES ASSUME NEW d \in Buckets, NEW u \in Threads PROVE lock'[d] = u <=> Owns(u, d)'
    OBVIOUS
  <2>1. CASE d = b
    <3>1. u # t => ~Owns(u, d)
      BY <1>1, <2>1 DEF LockInv
    <3> QED BY <1>1, <1>2, <1>3, <2>1, <3>1, ThreadsAssumption
  <2>2. CASE d # b
    BY <1>1, <1>2, <1>3, <1>4, <2>2 DEF LockInv
  <2> QED BY <2>1, <2>2
<1> QED BY <1>5 DEF LockInv

\* The pages in the hands of threads other than t stay there.
LEMMA OthersHold ==
  ASSUME Types, NEW t \in Threads, NEW a, NEW p, NEW c, NEW v, Sets(t, a, p, c, v)
  PROVE  /\ \A u \in Threads, q \in Pages : u # t => (InHand(u, q)' <=> InHand(u, q))
         /\ \A q \in Pages : InHand(t, q)' <=> (a \in Evicting /\ v = q) \/ (a = "publish" /\ p = q)
<1>m. /\ thr'[t].pc = a /\ thr'[t].page = p /\ thr'[t].victim = v
      /\ \A u \in Threads : u # t => thr'[u] = thr[u]
  BY Moved
<1> QED BY <1>m DEF InHand

\* A step that changes neither the queue nor who has which page in hand.
LEMMA QueueQuiet ==
  ASSUME Types, QueueInv, used' = used, Present(item)' = Present(item),
         \A u \in Threads, q \in Pages : InHand(u, q)' <=> InHand(u, q)
  PROVE  QueueInv'
<1>1. \A i \in DOMAIN used : used[i] \in Pages
  BY DEF Types
<1> QED BY <1>1 DEF QueueInv

\* A thread puts the page it has in hand at the end of the queue.
LEMMA QueueJoined ==
  ASSUME Types, QueueInv, NEW t \in Threads, NEW p \in Pages, InHand(t, p),
         used' = Append(used, p), Present(item)' = Present(item),
         \A q \in Pages : ~InHand(t, q)', \A q \in Pages : InHand(t, q) => q = p,
         \A u \in Threads, q \in Pages : u # t => (InHand(u, q)' <=> InHand(u, q))
  PROVE  QueueInv'
<1>0. used \in Seq(Pages)
  BY DEF Types
<1>1. /\ DOMAIN used = 1 .. Len(used) /\ DOMAIN used' = 1 .. Len(used) + 1
      /\ used'[Len(used) + 1] = p /\ Len(used) \in Nat
      /\ \A i \in DOMAIN used : used'[i] = used[i] /\ used[i] \in Pages
  BY <1>0
<1>2. \A i \in DOMAIN used : used[i] # p
  BY DEF QueueInv
<1>3. \A i, j \in DOMAIN used' : used'[i] = used'[j] => i = j
  BY <1>1, <1>2 DEF QueueInv
<1>4. \A u \in Threads : ~InHand(u, p)'
  BY DEF QueueInv
<1>5. ASSUME NEW i \in DOMAIN used', NEW u \in Threads
      PROVE  (~InHand(u, used[i]))'
  <2>1. \A q \in Pages : q = used'[i] => ~InHand(u, q)'
    BY <1>1, <1>4 DEF QueueInv
  <2>2. used'[i] \in Pages
    BY <1>1
  <2> QED BY <2>1, <2>2
<1>6. ASSUME NEW q \in Pages
      PROVE  q \in Present(item)' <=>
               (\E i \in DOMAIN used' : used'[i] = q) \/ (\E u \in Threads : InHand(u, q)')
  <2>1. CASE q = p
    BY <1>1, <2>1 DEF QueueInv
  <2>2. CASE q # p
    <3>1. (\E i \in DOMAIN used' : used'[i] = q) <=> (\E i \in DOMAIN used : used[i] = q)
      BY <1>1, <2>2
    <3>2. (\E u \in Threads : InHand(u, q)') <=> (\E u \in Threads : InHand(u, q))
      BY <2>2
    <3> QED BY <3>1, <3>2 DEF QueueInv
  <2> QED BY <2>1, <2>2
<1>7. \A u, w \in Threads, q \in Pages : InHand(u, q)' /\ InHand(w, q)' => u = w
  BY DEF QueueInv
<1> QED BY <1>3, <1>5, <1>6, <1>7 DEF QueueInv

\* A thread takes the page at the head of the queue in hand.
LEMMA QueueLeft ==
  ASSUME Types, QueueInv, used # << >>, NEW t \in Threads,
         used' = Tail(used), Present(item)' = Present(item),
         \A q \in Pages : InHand(t, q)' <=> q = Head(used), \A q \in Pages : ~InHand(t, q),
         \A u \in Threads, q \in Pages : u # t => (InHand(u, q)' <=> InHand(u, q))
  PROVE  QueueInv'
<1>0. used \in Seq(Pages)
  BY DEF Types
<1>1. /\ DOMAIN used = 1 .. Len(used) /\ DOMAIN used' = 1 .. Len(used) - 1
      /\ Len(used) \in Nat /\ Len(used) # 0 /\ Head(used) = used[1]
      /\ \A i \in DOMAIN used' : used'[i] = used[i + 1]
      /\ \A i \in DOMAIN used : used[i] \in Pages
  BY <1>0
<1>2. \A i \in DOMAIN used' : i + 1 \in DOMAIN used /\ i + 1 # 1 /\ used'[i] \in Pages
  BY <1>1
<1>3. \A i, j \in DOMAIN used' : used'[i] = used'[j] => i = j
  BY <1>1, <1>2 DEF QueueInv
<1>4. ASSUME NEW i \in DOMAIN used'
      PROVE  used'[i] # Head(used)
  BY <1>1, <1>2 DEF QueueInv
<1>5. ASSUME NEW i \in DOMAIN used', NEW u \in Threads
      PROVE  (~InHand(u, used[i]))'
  <2>1. \A q \in Pages : q = used'[i] => ~InHand(u, q)'
    BY <1>1, <1>2, <1>4 DEF QueueInv
  <2> QED BY <2>1, <1>2
<1>7. Head(used) \in Pages /\ \A u \in Threads : ~InHand(u, Head(used))
  BY <1>1 DEF QueueInv
<1>6. ASSUME NEW q \in Pages
      PROVE  q \in Present(item)' <=>
               (\E i \in DOMAIN used' : used'[i] = q) \/ (\E u \in Threads : InHand(u, q)')
  <2>1. CASE q = Head(used)
    BY <1>1, <2>1 DEF QueueInv
  <2>2. CASE q # Head(used)
    <3>1. (\E i \in DOMAIN used' : used'[i] = q) <=> (\E i \in DOMAIN used : used[i] = q)
      <4>1. ASSUME NEW i \in DOMAIN used, used[i] = q PROVE \E j \in DOMAIN used' : used'[j] = q
        <5>1. i - 1 \in DOMAIN used' /\ used'[i - 1] = q
          BY <1>1, <2>2, <4>1
        <5> QED BY <5>1
      <4> QED BY <1>1, <1>2, <4>1
    <3>2. (\E u \in Threads : InHand(u, q)') <=> (\E u \in Threads : InHand(u, q))
      BY <2>2
    <3> QED BY <3>1, <3>2 DEF QueueInv
  <2> QED BY <2>1, <2>2
<1>8. \A u, w \in Threads, q \in Pages : InHand(u, q)' /\ InHand(w, q)' => u = w
  BY <1>7 DEF QueueInv
<1> QED BY <1>3, <1>5, <1>6, <1>8 DEF QueueInv

\* A thread adds the item of a page and has the page in hand.
LEMMA QueueAdded ==
  ASSUME Types, QueueInv, NEW t \in Threads, NEW p \in Pages, p \notin Present(item),
         used' = used, Present(item)' = Present(item) \cup {p},
         \A q \in Pages : InHand(t, q)' <=> q = p, \A q \in Pages : ~InHand(t, q),
         \A u \in Threads, q \in Pages : u # t => (InHand(u, q)' <=> InHand(u, q))
  PROVE  QueueInv'
<1>1. \A i \in DOMAIN used : used[i] \in Pages /\ used[i] # p
  BY DEF Types, QueueInv
<1>2. \A u \in Threads : ~InHand(u, p)
  BY DEF QueueInv
<1>3. \A u, w \in Threads, q \in Pages : InHand(u, q)' /\ InHand(w, q)' => u = w
  BY <1>2 DEF QueueInv
<1>4. ASSUME NEW i \in DOMAIN used, NEW u \in Threads
      PROVE  (~InHand(u, used[i]))'
  <2>1. \A q \in Pages : q = used[i] => ~InHand(u, q)'
    BY <1>1 DEF QueueInv
  <2> QED BY <1>1, <2>1
<1>5. ASSUME NEW q \in Pages
      PROVE  q \in Present(item)' <=>
               (\E i \in DOMAIN used : used[i] = q) \/ (\E u \in Threads : InHand(u, q)')
  <2>1. CASE q = p
    BY <2>1
  <2>2. CASE q # p
    <3>1. (\E u \in Threads : InHand(u, q)') <=> (\E u \in Threads : InHand(u, q))
      BY <2>2
    <3> QED BY <2>2, <3>1 DEF QueueInv
  <2> QED BY <2>1, <2>2
<1> QED BY <1>3, <1>4, <1>5 DEF QueueInv

\* A thread deletes the item of the page it has in hand.
LEMMA QueueRemoved ==
  ASSUME Types, QueueInv, NEW t \in Threads, NEW p \in Pages, InHand(t, p),
         used' = used, Present(item)' = Present(item) \ {p},
         \A q \in Pages : ~InHand(t, q)', \A q \in Pages : InHand(t, q) => q = p,
         \A u \in Threads, q \in Pages : u # t => (InHand(u, q)' <=> InHand(u, q))
  PROVE  QueueInv'
<1>1. \A i \in DOMAIN used : used[i] \in Pages /\ used[i] # p
  BY DEF Types, QueueInv
<1>2. \A u \in Threads : ~InHand(u, p)'
  BY DEF QueueInv
<1>3. \A u, w \in Threads, q \in Pages : InHand(u, q)' /\ InHand(w, q)' => u = w
  BY DEF QueueInv
<1>4. ASSUME NEW i \in DOMAIN used, NEW u \in Threads
      PROVE  (~InHand(u, used[i]))'
  <2>1. \A q \in Pages : q = used[i] => ~InHand(u, q)'
    BY <1>1 DEF QueueInv
  <2> QED BY <1>1, <2>1
<1>5. ASSUME NEW q \in Pages
      PROVE  q \in Present(item)' <=>
               (\E i \in DOMAIN used : used[i] = q) \/ (\E u \in Threads : InHand(u, q)')
  <2>1. CASE q = p
    BY <1>1, <1>2, <2>1
  <2>2. CASE q # p
    <3>1. (\E u \in Threads : InHand(u, q)') <=> (\E u \in Threads : InHand(u, q))
      BY <2>2
    <3> QED BY <2>2, <3>1 DEF QueueInv
  <2> QED BY <2>1, <2>2
<1> QED BY <1>3, <1>4, <1>5 DEF QueueInv

\* The queue is not empty, and its head becomes the victim of one thread.
LEMMA DequeueKeeps ==
  ASSUME TInv, NEW t \in Threads, Dequeue(t)
  PROVE  TInv'
<1>0. /\ Types /\ Table(item, head) /\ Table(citem, chead) /\ Present(citem) \subseteq Written
      /\ LockInv /\ PinInv /\ PtrInv /\ QueueInv /\ SizeInv
  BY DEF TInv
<1>1. thr[t].pc = "dequeue" /\ UNCHANGED <<head, lock, item, size, refCount, chead, citem>>
  BY DEF Dequeue, At, cacheVars, cryptoVars
<1>q. used \in Seq(Pages) /\ Len(used) \in Nat /\ thr[t].ptr \in Cells \cup {Null}
  BY <1>0, Fields DEF Types
\* The queue is not empty: the thread is one of those sent, and does not hold a page.
<1>2. used # << >>
  <2>1. /\ Cardinality(In(Holding)) \in Nat /\ Cardinality(In(Sent)) \in Nat
        /\ Cardinality(In(Holding)) < Cardinality(In(Sent))
    <3>1. In(Holding) \subseteq In(Sent) /\ t \in In(Sent) /\ t \notin In(Holding)
      BY <1>1 DEF In, Sent, Holding, Evicting
    <3>2. IsFiniteSet(In(Sent)) /\ Cardinality(In(Holding)) \in Nat /\ Cardinality(In(Sent)) \in Nat
      BY InFinite
    <3>3. In(Holding) # In(Sent)
      BY <3>1
    <3>4. Cardinality(In(Holding)) <= Cardinality(In(Sent)) /\ Cardinality(In(Holding)) # Cardinality(In(Sent))
      BY <3>1, <3>2, <3>3, FS_Subset
    <3> QED BY <3>2, <3>4
  <2>2. /\ size \in Nat /\ Len(used) + Cardinality(In(Holding)) = size /\ Cardinality(In(Sent)) <= size
    BY <1>0, ItemsFinite DEF SizeInv
  <2>3. Len(used) # 0
    BY <1>q, <2>1, <2>2
  <2> QED BY <1>q, <2>3
<1>3. PICK v \in Pages : v = Head(used)
  BY <1>q, <1>2
<1>4. used' = Tail(used) /\ Go(t, [pc |-> "probe", victim |-> v])
  BY <1>2, <1>3 DEF Dequeue
<1>s. Sets(t, "probe", thr[t].page, thr[t].ptr, v)
  BY <1>0, <1>4, GoPcVictim
<1>5. /\ Table(item, head)' /\ Table(citem, chead)' /\ (Present(citem) \subseteq Written)'
      /\ Present(item)' = Present(item) /\ Items(item)' = Items(item)
      /\ \A d, q : (IsItem(item, d, q)' <=> IsItem(item, d, q)) /\ (IsItem(citem, d, q)' <=> IsItem(citem, d, q))
  BY <1>0, <1>1, TablesStay
<1>6. Types' /\ PinInv' /\ PtrInv'
  <2>1. lock' \in [Buckets -> Threads \cup {Null}] /\ used' \in Seq(Pages) /\ refCount' = refCount
    BY <1>0, <1>1, <1>2, <1>4, <1>q DEF Types
  <2>2. v # Null /\ "probe" \in Evicting /\ "probe" \in Stages \ {"idle", "read", "add"}
    BY PagesAssumption DEF Evicting, Stages
  <2> QED BY <1>0, <1>1, <1>5, <1>q, <1>s, <2>1, <2>2, CoreStays
<1>7. LockInv'
  BY <1>0, <1>1, <1>s, LocksStay
<1>8. QueueInv'
  <2>1. /\ \A u \in Threads, q \in Pages : u # t => (InHand(u, q)' <=> InHand(u, q))
        /\ \A q \in Pages : InHand(t, q)' <=> ("probe" \in Evicting /\ v = q) \/ ("probe" = "publish" /\ thr[t].page = q)
    BY <1>0, <1>s, OthersHold
  <2>2. \A q \in Pages : InHand(t, q)' <=> q = Head(used)
    BY <1>3, <2>1 DEF Evicting
  <2>3. \A q \in Pages : ~InHand(t, q)
    BY <1>1 DEF InHand, Evicting
  <2> QED BY <1>0, <1>2, <1>4, <1>5, <2>1, <2>2, <2>3, QueueLeft
<1>9. SizeInv'
  <2>1. /\ Cardinality(In(Holding)') = Cardinality(In(Holding)) + 1 /\ Cardinality(In(Holding)) \in Nat
        /\ Cardinality(In(Sent)') = Cardinality(In(Sent))
        /\ Cardinality(In(Claiming)') = Cardinality(In(Claiming))
    <3>1. /\ "probe" \in Holding /\ thr[t].pc \notin Holding /\ "probe" \in Sent /\ thr[t].pc \in Sent
          /\ "probe" \notin Claiming /\ thr[t].pc \notin Claiming
      BY <1>1 DEF Holding, Sent, Claiming, Evicting
    <3> QED BY <1>0, <1>s, <3>1, InMoved
  <2>2. Len(used') = Len(used) - 1
    BY <1>2, <1>4, <1>q
  <2> QED BY <1>0, <1>1, <1>5, <1>q, <2>1, <2>2 DEF SizeInv
<1> QED BY <1>5, <1>6, <1>7, <1>8, <1>9 DEF TInv

\* A pinned victim goes back to the end of the queue.
LEMMA RequeueKeeps ==
  ASSUME TInv, NEW t \in Threads, Requeue(t)
  PROVE  TInv'
<1>0. /\ Types /\ Table(item, head) /\ Table(citem, chead) /\ Present(citem) \subseteq Written
      /\ LockInv /\ PinInv /\ PtrInv /\ QueueInv /\ SizeInv
  BY DEF TInv
<1>1. thr[t].pc = "requeue" /\ UNCHANGED <<head, lock, item, size, refCount, chead, citem>>
  BY DEF Requeue, At, cacheVars, cryptoVars
<1>q. used \in Seq(Pages) /\ Len(used) \in Nat /\ thr[t].ptr \in Cells \cup {Null}
  BY <1>0, Fields DEF Types
<1>3. PICK v \in Pages : v = thr[t].victim
  BY <1>0, <1>1, Fields DEF Evicting
<1>4. used' = Append(used, v) /\ Go(t, [pc |-> "dequeue", victim |-> Null])
  BY <1>3 DEF Requeue
<1>s. Sets(t, "dequeue", thr[t].page, thr[t].ptr, Null)
  BY <1>0, <1>4, GoPcVictim
<1>5. /\ Table(item, head)' /\ Table(citem, chead)' /\ (Present(citem) \subseteq Written)'
      /\ Present(item)' = Present(item) /\ Items(item)' = Items(item)
      /\ \A d, q : (IsItem(item, d, q)' <=> IsItem(item, d, q)) /\ (IsItem(citem, d, q)' <=> IsItem(citem, d, q))
  BY <1>0, <1>1, TablesStay
<1>6. Types' /\ PinInv' /\ PtrInv'
  <2>l. lock' \in [Buckets -> Threads \cup {Null}]
    BY <1>0, <1>1 DEF Types
  <2>u. used' \in Seq(Pages)
    BY <1>4, <1>q, AppendProperties
  <2>1. lock' \in [Buckets -> Threads \cup {Null}] /\ used' \in Seq(Pages) /\ refCount' = refCount
    BY <1>1, <2>l, <2>u
  <2>2. "dequeue" \notin Evicting /\ "dequeue" \in Stages \ {"idle", "read", "add"} /\ Null \in Pages \cup {Null}
    BY DEF Evicting, Stages
  <2> QED BY <1>0, <1>1, <1>5, <1>q, <1>s, <2>1, <2>2, CoreStays
<1>7. LockInv'
  BY <1>0, <1>1, <1>s, LocksStay
<1>8. QueueInv'
  <2>1. /\ \A u \in Threads, q \in Pages : u # t => (InHand(u, q)' <=> InHand(u, q))
        /\ \A q \in Pages : InHand(t, q)' <=> ("dequeue" \in Evicting /\ Null = q) \/ ("dequeue" = "publish" /\ thr[t].page = q)
    BY <1>0, <1>s, OthersHold
  <2>2. \A q \in Pages : ~InHand(t, q)'
    BY <2>1 DEF Evicting
  <2>3. InHand(t, v) /\ \A q \in Pages : InHand(t, q) => q = v
    BY <1>1, <1>3 DEF InHand, Evicting
  <2> QED BY <1>0, <1>4, <1>5, <2>1, <2>2, <2>3, QueueJoined
<1>9. SizeInv'
  <2>1. /\ Cardinality(In(Holding)') = Cardinality(In(Holding)) - 1 /\ Cardinality(In(Holding)) \in Nat
        /\ Cardinality(In(Sent)') = Cardinality(In(Sent))
        /\ Cardinality(In(Claiming)') = Cardinality(In(Claiming))
    <3>1. /\ "dequeue" \notin Holding /\ thr[t].pc \in Holding /\ "dequeue" \in Sent /\ thr[t].pc \in Sent
          /\ "dequeue" \notin Claiming /\ thr[t].pc \notin Claiming
      BY <1>1 DEF Holding, Sent, Claiming, Evicting
    <3> QED BY <1>0, <1>s, <3>1, InMoved
  <2>2. Len(used') = Len(used) + 1
    BY <1>4, <1>q
  <2> QED BY <1>0, <1>1, <1>5, <1>q, <2>1, <2>2 DEF SizeInv
<1> QED BY <1>5, <1>6, <1>7, <1>8, <1>9 DEF TInv

\* A victim that nobody pins is in the cache, and its bucket is locked for the eviction.
LEMMA ProbeKeeps ==
  ASSUME TInv, NEW t \in Threads, Probe(t)
  PROVE  TInv'
<1>0. /\ Types /\ Table(item, head) /\ Table(citem, chead) /\ Present(citem) \subseteq Written
      /\ LockInv /\ PinInv /\ PtrInv /\ QueueInv /\ SizeInv
  BY DEF TInv
<1>1. thr[t].pc = "probe" /\ UNCHANGED <<head, item, size, refCount, used, chead, citem>>
  BY DEF Probe, At, cryptoVars
<1>q. used \in Seq(Pages) /\ thr[t].ptr \in Cells \cup {Null}
  BY <1>0, Fields DEF Types
<1>3. PICK v \in Pages : v = thr[t].victim
  BY <1>0, <1>1, Fields DEF Evicting
<1>4. CASE refCount[v] > 0
  <2>1. Sets(t, "requeue", thr[t].page, thr[t].ptr, thr[t].victim) /\ lock' = lock
    <3>1. Go(t, [pc |-> "requeue"]) /\ lock' = lock
      BY <1>3, <1>4 DEF Probe
    <3> QED BY <1>0, <3>1, GoPc
  <2>2. UNCHANGED <<head, lock, item, size, refCount, used, chead, citem>>
    BY <1>1, <2>1
  <2>3. /\ "requeue" \in Stages \ {"idle", "publish"} /\ ("requeue" \in Evicting <=> thr[t].pc \in Evicting)
        /\ "requeue" \notin Claiming /\ thr[t].pc \notin {"idle", "publish", "evict", "remove"}
    BY <1>1 DEF Evicting, Claiming, Stages
  <2> QED BY <1>q, <2>1, <2>2, <2>3, QuietKeeps
<1>5. CASE ~(refCount[v] > 0)
  <2>1. v \in Present(item)
    <3>1. InHand(t, v)
      BY <1>1, <1>3 DEF InHand, Evicting
    <3> QED BY <1>0, <3>1 DEF QueueInv
  <2>2. PICK c \in Cells \cup {Null} : c = Here(v)
    BY HereExact
  <2>3. c # Null /\ IsItem(item, c, v)
    BY <2>1, <2>2, HereExact
  <2>4. /\ lock' = [lock EXCEPT ![Bucket(v)] = t] /\ lock[Bucket(v)] = Null
        /\ Go(t, [pc |-> "evict", ptr |-> c])
    BY <1>3, <1>5, <2>2, <2>3 DEF Probe, Free
  <2>s. Sets(t, "evict", thr[t].page, c, v)
    BY <1>0, <1>3, <2>4, GoPcPtr
  \* The count is zero, so that no thread uses the page.
  <2>5. \A u \in Threads : thr[u].page # v
    <3>1. refCount[v] = Cardinality(Pinning(v)) /\ IsFiniteSet(Pinning(v)) /\ Cardinality(Pinning(v)) \in Nat
      BY <1>0, PinningFinite DEF PinInv
    <3>2. Cardinality(Pinning(v)) = 0
      BY <1>5, <3>1
    <3>3. Pinning(v) = {}
      BY <3>1, <3>2, FS_EmptySet
    <3> QED BY <3>3 DEF Pinning
  <2>6. /\ Table(item, head)' /\ Table(citem, chead)' /\ (Present(citem) \subseteq Written)'
        /\ Present(item)' = Present(item) /\ Items(item)' = Items(item)
        /\ \A d, q : (IsItem(item, d, q)' <=> IsItem(item, d, q)) /\ (IsItem(citem, d, q)' <=> IsItem(citem, d, q))
    BY <1>0, <1>1, TablesStay
  <2>7. Types' /\ PinInv' /\ PtrInv'
    <3>1. lock' \in [Buckets -> Threads \cup {Null}] /\ used' \in Seq(Pages) /\ refCount' = refCount
      BY <1>0, <1>1, <1>q, <2>4 DEF Types
    <3>2. v # Null /\ "evict" \in Evicting /\ "evict" \in Stages \ {"idle", "read", "add"}
      BY PagesAssumption DEF Evicting, Stages
    <3> QED BY <1>0, <1>1, <2>3, <2>5, <2>6, <2>s, <3>1, <3>2, CoreStays
  <2>8. LockInv'
    <3>1. Bucket(v) \in Buckets /\ thr[t].pc \notin {"evict", "remove", "publish"}
      BY <1>1, BucketIn
    <3> QED BY <1>0, <2>4, <2>s, <3>1, LockTaken
  <2>9. QueueInv'
    <3>1. /\ \A u \in Threads, q \in Pages : u # t => (InHand(u, q)' <=> InHand(u, q))
          /\ \A q \in Pages : InHand(t, q)' <=> ("evict" \in Evicting /\ v = q) \/ ("evict" = "publish" /\ thr[t].page = q)
      BY <1>0, <2>s, OthersHold
    <3>2. \A q \in Pages : InHand(t, q) <=> v = q
      BY <1>1, <1>3 DEF InHand, Evicting
    <3>3. \A u \in Threads, q \in Pages : InHand(u, q)' <=> InHand(u, q)
      BY <3>1, <3>2 DEF Evicting
    <3> QED BY <1>0, <1>1, <2>6, <3>3, QueueQuiet
  <2>10. SizeInv'
    <3>1. /\ Cardinality(In(Holding)') = Cardinality(In(Holding)) /\ Cardinality(In(Sent)') = Cardinality(In(Sent))
          /\ Cardinality(In(Claiming)') = Cardinality(In(Claiming))
      <4>1. /\ "evict" \in Holding /\ thr[t].pc \in Holding /\ "evict" \in Sent /\ thr[t].pc \in Sent
            /\ "evict" \notin Claiming /\ thr[t].pc \notin Claiming
        BY <1>1 DEF Holding, Sent, Claiming, Evicting
      <4> QED BY <1>0, <2>s, <4>1, InMoved
    <3> QED BY <1>0, <1>1, <2>6, <3>1 DEF SizeInv
  <2> QED BY <2>6, <2>7, <2>8, <2>9, <2>10 DEF TInv
<1> QED BY <1>4, <1>5

\* A primed table is the table of the primed variables.
LEMMA TablesNext ==
  /\ Table(item, head)' <=> Table(item', head') 
  /\ Table(citem, chead)' <=> Table(citem', chead')
  /\ Present(item)' = Present(item') /\ Present(citem)' = Present(citem')
  /\ Items(item)' = Items(item') /\ Items(citem)' = Items(citem')
  /\ \A c, p : /\ IsItem(item, c, p)' <=> IsItem(item', c, p)
               /\ IsItem(citem, c, p)' <=> IsItem(citem', c, p)
<1>1. Table(item, head)' <=> Table(item', head')
  BY DEF Table, Chained, Items
<1>2. Table(citem, chead)' <=> Table(citem', chead')
  BY DEF Table, Chained, Items
<1> QED BY <1>1, <1>2 DEF Present, Items, IsItem

\* There is room for an item of a page of Written that has none.
LEMMA CryptoRoom ==
  ASSUME NEW heap, NEW h, Table(heap, h), Present(heap) \subseteq Written,
         NEW p \in Written, p \notin Present(heap)
  PROVE  Items(heap) # Cells
<1> SUFFICES ASSUME Items(heap) = Cells PROVE FALSE
  OBVIOUS
<1> DEFINE f == [c \in Cells |-> heap[c].page]
           T == Written \ {p}
<1>1. \A c, d \in Cells : heap[c].page = heap[d].page => c = d
  <2>1. PICK rank : Chained(heap, h, rank)
    BY DEF Table
  <2> QED BY <2>1 DEF Chained
<1>2. \A c \in Cells : heap[c].page \in T
  BY DEF Present
<1>3. f \in Injection(Cells, T)
  BY <1>1, <1>2 DEF Injection, IsInjective
<1>4. IsFiniteSet(T) /\ Cardinality(T) = Cardinality(Written) - 1
  BY WrittenAssumption, FS_RemoveElement
<1> HIDE DEF f, T
<1>5. Cardinality(Cells) <= Cardinality(T)
  BY <1>3, <1>4, FS_Injection
<1>6. Cardinality(Written) \in Nat /\ Cardinality(Cells) \in Nat
  BY WrittenAssumption, CellsAssumption, FS_CardinalityType
<1> QED BY <1>4, <1>5, <1>6, CellsAssumption

\* A dirty victim gets a crypto item unless it has one.
LEMMA CryptoAddKeeps ==
  ASSUME TInv, NEW t \in Threads, CryptoAdd(t)
  PROVE  TInv'
<1>0. /\ Types /\ Table(item, head) /\ Table(citem, chead) /\ Present(citem) \subseteq Written
      /\ LockInv /\ PinInv /\ PtrInv /\ QueueInv /\ SizeInv
  BY DEF TInv
<1>1. /\ thr[t].pc = "evict" /\ UNCHANGED <<head, lock, item, size, refCount, used>>
      /\ thr[t].victim \in Written
  BY DEF CryptoAdd, At, cacheVars
<1>q. used \in Seq(Pages) /\ thr[t].ptr \in Cells \cup {Null}
  BY <1>0, Fields DEF Types
<1>3. PICK v \in Pages : v = thr[t].victim
  BY <1>0, <1>1, Fields DEF Evicting
<1>s. Sets(t, "remove", thr[t].page, thr[t].ptr, thr[t].victim)
  <2>1. Go(t, [pc |-> "remove"])
    BY DEF CryptoAdd
  <2> QED BY <1>0, <2>1, GoPc
<1> DEFINE g == get_internal(citem, chead[Bucket(v)], v)
<1>4. CASE g # Null
  <2>1. UNCHANGED <<head, lock, item, size, refCount, used, chead, citem>>
    BY <1>1, <1>3, <1>4 DEF CryptoAdd, cryptoVars
  <2> QED BY <1>1, <1>q, <1>s, <2>1, QuietKeeps DEF Evicting, Claiming, Stages
<1>5. CASE g = Null
  <2>1. /\ citem' = Linked(citem, chead[Bucket(v)], v)
        /\ chead' = [chead EXCEPT ![Bucket(v)] = LinkedHead(citem, @)]
    BY <1>3, <1>5 DEF CryptoAdd
  <2>2. v \notin Present(citem) /\ v \in Written
    <3>1. g # Null <=> v \in Present(citem)
      BY <1>0, GetExact
    <3> QED BY <1>1, <1>3, <1>5, <3>1
  <2>3. Items(citem) # Cells
    BY <1>0, <2>2, CryptoRoom
  <2>4. /\ Table(citem', chead') /\ New(citem) \in Cells /\ citem[New(citem)] = Null
        /\ IsItem(citem', New(citem), v) /\ SameBut(citem, citem', {New(citem)})
    BY <1>0, <2>1, <2>2, <2>3, LinkKeeps
  <2>5. /\ Present(citem') = Present(citem) \cup {v}
        /\ \A c, q : IsItem(citem, c, q) => IsItem(citem', c, q)
    <3>1. citem \in HeapType /\ citem' \in HeapType
      BY <1>0, <2>4 DEF Table
    <3> QED BY <2>4, <3>1, AddedOne
  <2>6. /\ Table(item, head)' /\ Present(item)' = Present(item) /\ Items(item)' = Items(item)
        /\ \A d, q : IsItem(item, d, q)' <=> IsItem(item, d, q)
    <3>1. item' = item /\ head' = head
      BY <1>1
    <3> QED BY <1>0, <3>1, TablesNext
  <2>7. /\ Table(citem, chead)' /\ (Present(citem) \subseteq Written)'
        /\ \A d, q : IsItem(citem, d, q) => IsItem(citem, d, q)'
    BY <1>0, <2>2, <2>4, <2>5, TablesNext
  <2>8. Types' /\ PinInv' /\ PtrInv'
    <3>1. lock' \in [Buckets -> Threads \cup {Null}] /\ used' \in Seq(Pages) /\ refCount' = refCount
      BY <1>0, <1>1, <1>q DEF Types
    <3>2. v # Null /\ "remove" \in Evicting /\ "remove" \in Stages \ {"idle", "read", "add"}
      BY PagesAssumption DEF Evicting, Stages
    <3>3. PICK c \in Cells \cup {Null} : c = thr[t].ptr
      BY <1>q
    <3>4. IsItem(item, c, v)' /\ \A u \in Threads : thr[u].page # v
      BY <1>0, <1>1, <1>3, <2>6, <3>3 DEF PtrInv, PinInv
    <3>5. Sets(t, "remove", thr[t].page, c, v)
      BY <1>3, <1>s, <3>3
    <3> QED BY <1>0, <1>1, <2>6, <2>7, <3>1, <3>2, <3>4, <3>5, CoreStays
  <2>m. /\ thr'[t].pc = "remove" /\ thr'[t].page = thr[t].page /\ thr'[t].victim = thr[t].victim
        /\ \A u \in Threads : u # t => thr'[u] = thr[u]
    BY <1>0, <1>s, Moved
  <2>9. LockInv'
    <3>1. \A u \in Threads, b \in Buckets : Owns(u, b)' <=> Owns(u, b)
      BY <1>1, <2>m DEF Owns
    <3> QED BY <1>0, <1>1, <3>1 DEF LockInv
  <2>10. QueueInv'
    <3>1. \A u \in Threads, q \in Pages : InHand(u, q)' <=> InHand(u, q)
      BY <1>1, <2>m DEF InHand, Evicting
    <3> QED BY <1>0, <1>1, <2>6, <3>1, QueueQuiet
  <2>11. SizeInv'
    <3>1. /\ Cardinality(In(Holding)') = Cardinality(In(Holding)) /\ Cardinality(In(Sent)') = Cardinality(In(Sent))
          /\ Cardinality(In(Claiming)') = Cardinality(In(Claiming))
      <4>1. /\ "remove" \in Holding /\ thr[t].pc \in Holding /\ "remove" \in Sent /\ thr[t].pc \in Sent
            /\ "remove" \notin Claiming /\ thr[t].pc \notin Claiming
        BY <1>1 DEF Holding, Sent, Claiming, Evicting
      <4> QED BY <1>0, <1>s, <4>1, InMoved
    <3> QED BY <1>0, <1>1, <2>6, <3>1 DEF SizeInv
  <2> QED BY <2>6, <2>7, <2>8, <2>9, <2>10, <2>11 DEF TInv
<1> QED BY <1>4, <1>5

\* The victim's item is unlinked and deleted, and its bucket unlocked.
LEMMA RemoveItemKeeps ==
  ASSUME TInv, NEW t \in Threads, RemoveItem(t)
  PROVE  TInv'
<1>0. /\ Types /\ Table(item, head) /\ Table(citem, chead) /\ Present(citem) \subseteq Written
      /\ LockInv /\ PinInv /\ PtrInv /\ QueueInv /\ SizeInv
  BY DEF TInv
<1>1. thr[t].pc = "remove" /\ UNCHANGED <<refCount, used, chead, citem>>
  BY DEF RemoveItem, At, cryptoVars
<1>q. used \in Seq(Pages) /\ Len(used) \in Nat
  BY <1>0 DEF Types
<1>2. PICK v \in Pages : v = thr[t].victim
  BY <1>0, <1>1, Fields DEF Evicting
<1>3. PICK c : c = Here(v)
  OBVIOUS
<1>4. c # Null /\ IsItem(item, c, v) /\ \A d : IsItem(item, d, v) => d = c
  <2>1. IsItem(item, thr[t].ptr, v)
    BY <1>0, <1>1, <1>2 DEF PtrInv
  <2>2. v \in Present(item)
    BY <2>1 DEF IsItem, Present
  <2> QED BY <1>3, <2>2, HereExact
<1>5. PICK b \in Buckets : b = Bucket(v)
  BY BucketIn
<1>6. /\ size' = size - 1
      /\ head' = [head EXCEPT ![b] = UnlinkedHead(item, @, c)]
      /\ item' = Unlinked(item, head[b], c)
      /\ lock' = [lock EXCEPT ![b] = Null]
      /\ Go(t, [pc |-> "decrypt", ptr |-> Null, victim |-> Null])
  BY <1>2, <1>3, <1>4, <1>5 DEF RemoveItem
<1>s. Sets(t, "decrypt", thr[t].page, Null, Null)
  BY <1>0, <1>6, GoPcPtrVictim
<1>7. Table(item', head') /\ item'[c] = Null /\ SameBut(item, item', {c})
  <2>1. c \in Items(item) /\ b = Bucket(item[c].page)
    BY <1>4, <1>5 DEF IsItem
  <2>2. head' = HeadsUnlinked(item, head, b, c)
    BY <1>6, Zenon DEF HeadsUnlinked
  <2>3. item' = Unlinked(item, head[b], c) /\ Table(item, head)
    BY <1>0, <1>6
  <2> QED BY <2>1, <2>2, <2>3, UnlinkKeeps
<1>8. /\ Items(item') = Items(item) \ {c} /\ c \in Items(item)
      /\ Present(item') = Present(item) \ {v}
      /\ \A d, q : IsItem(item, d, q) /\ q # v => IsItem(item', d, q)
  <2>1. item \in HeapType /\ item' \in HeapType
    BY <1>0, <1>7 DEF Table
  <2> QED BY <1>4, <1>7, <2>1, DeletedOne
<1>9. /\ Table(item, head)' /\ Present(item)' = Present(item) \ {v} /\ Items(item)' = Items(item) \ {c}
      /\ \A d, q : IsItem(item, d, q) /\ q # v => IsItem(item, d, q)'
  BY <1>7, <1>8, TablesNext
<1>10. /\ Table(citem, chead)' /\ (Present(citem) \subseteq Written)'
       /\ \A d, q : IsItem(citem, d, q) => IsItem(citem, d, q)'
  BY <1>0, <1>1, TablesNext
<1>h. InHand(t, v) /\ \A q \in Pages : InHand(t, q) => q = v
  BY <1>1, <1>2 DEF InHand, Evicting
<1>11. Types' /\ PinInv' /\ PtrInv'
  <2>1. lock' \in [Buckets -> Threads \cup {Null}] /\ used' \in Seq(Pages) /\ refCount' = refCount
    BY <1>0, <1>1, <1>6, <1>q DEF Types
  <2>2. /\ "decrypt" \notin Evicting /\ "decrypt" \in Stages \ {"idle", "read", "add"}
        /\ Null \in Pages \cup {Null} /\ Null \in Cells \cup {Null}
    BY DEF Evicting, Stages
  <2>3. KeepsAllBut(v)
    BY <1>9, <1>10 DEF KeepsAllBut
  <2>4. Unwanted(t, v)
    <3>1. \A u \in Threads : thr[u].page # v
      BY <1>0, <1>1, <1>2 DEF PinInv
    <3>2. ASSUME NEW u \in Threads, u # t, thr[u].pc \in {"evict", "remove"} PROVE thr[u].victim # v
      <4>1. ASSUME thr[u].victim = v PROVE FALSE
        <5>1. InHand(u, v)
          BY <3>2, <4>1 DEF InHand, Evicting
        <5> QED BY <1>0, <1>h, <3>2, <5>1 DEF QueueInv
      <4> QED BY <4>1
    <3> QED BY <3>1, <3>2 DEF Unwanted
  <2> QED BY <1>0, <1>1, <1>s, <2>1, <2>2, <2>3, <2>4, CoreKeeps
<1>12. LockInv'
  <2>1. Owns(t, b)
    BY <1>1, <1>2, <1>5 DEF Owns
  <2> QED BY <1>0, <1>6, <1>s, <2>1, LockReleased
<1>13. QueueInv'
  <2>1. /\ \A u \in Threads, q \in Pages : u # t => (InHand(u, q)' <=> InHand(u, q))
        /\ \A q \in Pages : InHand(t, q)' <=> ("decrypt" \in Evicting /\ Null = q) \/ ("decrypt" = "publish" /\ thr[t].page = q)
    BY <1>0, <1>s, OthersHold
  <2>2. \A q \in Pages : ~InHand(t, q)'
    BY <2>1 DEF Evicting
  <2>3. used' = used
    BY <1>1
  <2> QED BY <1>0, <1>9, <1>h, <2>1, <2>2, <2>3, QueueRemoved
<1>14. SizeInv'
  <2>1. /\ Cardinality(In(Holding)') = Cardinality(In(Holding)) - 1 /\ Cardinality(In(Holding)) \in Nat
        /\ Cardinality(In(Sent)') = Cardinality(In(Sent)) - 1 /\ Cardinality(In(Sent)) \in Nat
        /\ Cardinality(In(Claiming)') = Cardinality(In(Claiming)) + 1 /\ Cardinality(In(Claiming)) \in Nat
        /\ Cardinality(Threads) \in Nat
    <3>1. /\ "decrypt" \notin Holding /\ thr[t].pc \in Holding /\ "decrypt" \notin Sent /\ thr[t].pc \in Sent
          /\ "decrypt" \in Claiming /\ thr[t].pc \notin Claiming
      BY <1>1 DEF Holding, Sent, Claiming, Evicting
    <3> QED BY <1>0, <1>s, <3>1, InMoved
  <2>2. Cardinality(Items(item) \ {c}) = Cardinality(Items(item)) - 1 /\ Cardinality(Items(item)) \in Nat
    BY <1>8, ItemsFinite, FS_RemoveElement
  <2>3. EvictAt \in Nat /\ used' = used
    BY <1>1, SizesAssumption
  <2>4. /\ size = Cardinality(Items(item)) /\ Len(used) + Cardinality(In(Holding)) = size
        /\ Cardinality(In(Sent)) <= size
        /\ size + Cardinality(In(Claiming)) <= EvictAt - 1 + Cardinality(Threads)
    BY <1>0 DEF SizeInv
  <2>5. size' = Cardinality(Items(item)')
    BY <1>6, <1>9, <2>2, <2>4
  <2>6. Len(used') + Cardinality(In(Holding)') = size'
    BY <1>6, <1>q, <2>1, <2>2, <2>3, <2>4
  <2>7. Cardinality(In(Sent)') <= size'
    BY <1>6, <2>1, <2>2, <2>4
  <2>8. size' + Cardinality(In(Claiming)') <= EvictAt - 1 + Cardinality(Threads)
    BY <1>6, <2>1, <2>2, <2>3, <2>4
  <2> QED BY <2>5, <2>6, <2>7, <2>8 DEF SizeInv
<1> QED BY <1>9, <1>10, <1>11, <1>12, <1>13, <1>14 DEF TInv

\* A new item is linked and counted, with the bucket locked.
LEMMA AddItemKeeps ==
  ASSUME TInv, NEW t \in Threads, At(t, "add"), Free(thr[t].page), Here(thr[t].page) = Null,
         item' = Linked(item, head[Bucket(thr[t].page)], thr[t].page),
         head' = [head EXCEPT ![Bucket(thr[t].page)] = LinkedHead(item, @)],
         size' = size + 1,
         lock' = [lock EXCEPT ![Bucket(thr[t].page)] = t],
         Go(t, [pc |-> "publish", ptr |-> Null]), UNCHANGED <<refCount, used, cryptoVars>>
  PROVE  TInv'
<1>0. /\ Types /\ Table(item, head) /\ Table(citem, chead) /\ Present(citem) \subseteq Written
      /\ LockInv /\ PinInv /\ PtrInv /\ QueueInv /\ SizeInv
  BY DEF TInv
<1>1. thr[t].pc = "add" /\ UNCHANGED <<refCount, used, chead, citem>>
  BY DEF At, cryptoVars
<1>q. used \in Seq(Pages) /\ Len(used) \in Nat /\ thr[t].victim = Null
  <2>1. used \in Seq(Pages)
    BY <1>0 DEF Types
  <2>2. thr[t].pc \notin Evicting
    BY <1>1 DEF Evicting
  <2>3. thr[t].victim = Null
    BY <1>0, <2>2 DEF Types
  <2> QED BY <2>1, <2>3, LenProperties
<1>2. PICK p \in Pages : p = thr[t].page
  BY <1>0, <1>1, Fields
<1>3. PICK b \in Buckets : b = Bucket(p)
  BY BucketIn
<1>4. /\ item' = Linked(item, head[Bucket(p)], p) /\ head' = [head EXCEPT ![Bucket(p)] = LinkedHead(item, @)]
      /\ lock' = [lock EXCEPT ![b] = t] /\ lock[b] = Null
  BY <1>2, <1>3 DEF Free
<1>s. Sets(t, "publish", p, Null, Null)
  BY <1>0, <1>2, <1>q, GoPcPtr
<1>5. p \notin Present(item)
  BY <1>2, HereExact
<1>6. /\ size = Cardinality(Items(item)) /\ Len(used) + Cardinality(In(Holding)) = size
      /\ Cardinality(In(Sent)) <= size
      /\ size + Cardinality(In(Claiming)) <= EvictAt - 1 + Cardinality(Threads)
  BY <1>0 DEF SizeInv
<1>7. /\ Cardinality(In(Holding)') = Cardinality(In(Holding)) + 1 /\ Cardinality(In(Holding)) \in Nat
      /\ Cardinality(In(Sent)') = Cardinality(In(Sent)) + 1 /\ Cardinality(In(Sent)) \in Nat
      /\ Cardinality(In(Claiming)') = Cardinality(In(Claiming)) - 1 /\ Cardinality(In(Claiming)) \in Nat
      /\ Cardinality(In(Claiming)') \in Nat /\ Cardinality(Threads) \in Nat
  <2>1. /\ "publish" \in Holding /\ thr[t].pc \notin Holding /\ "publish" \in Sent /\ thr[t].pc \notin Sent
        /\ "publish" \notin Claiming /\ thr[t].pc \in Claiming
    BY <1>1 DEF Holding, Sent, Claiming, Evicting
  <2> QED BY <1>0, <1>s, <2>1, InMoved
<1>8. Items(item) # Cells
  <2>1. Cardinality(Items(item)) \in Nat /\ Cardinality(Cells) \in Nat /\ EvictAt \in Nat
    BY ItemsFinite, CellsAssumption, SizesAssumption, FS_CardinalityType
  <2>2. Cardinality(Items(item)) < Cardinality(Cells)
    <3>1. size < EvictAt - 1 + Cardinality(Threads)
      <4> DEFINE before == Cardinality(In(Claiming))
                 after == Cardinality(In(Claiming)')
                 all == Cardinality(Threads)
      <4>1. before \in Nat /\ after \in Nat /\ after = before - 1 /\ all \in Nat
        BY <1>7
      <4>2. size \in Nat /\ size + before <= EvictAt - 1 + all
        BY <1>6, <2>1
      <4> HIDE DEF before, after, all
      <4>3. size < EvictAt - 1 + all
        BY <2>1, <4>1, <4>2
      <4> QED BY <4>3 DEF all
    <3>2. EvictAt - 1 + Cardinality(Threads) <= Cardinality(Cells)
      BY CellsAssumption
    <3>3. size = Cardinality(Items(item)) /\ Cardinality(Threads) \in Nat
      BY <1>6, <1>7
    <3> QED BY <2>1, <3>1, <3>2, <3>3
  <2> QED BY <2>1, <2>2
<1>9. PICK n : n = New(item)
  OBVIOUS
<1>10. /\ Table(item', head') /\ n \in Cells /\ item[n] = Null
       /\ IsItem(item', n, p) /\ SameBut(item, item', {n})
  <2>1. Table(item, head)
    BY <1>0
  <2>2. item' = Linked(item, head[Bucket(p)], p) /\ head' = [head EXCEPT ![Bucket(p)] = LinkedHead(item, @)]
    BY <1>4
  <2>3. /\ Table(item', head') /\ New(item) \in Cells /\ item[New(item)] = Null
        /\ IsItem(item', New(item), p) /\ SameBut(item, item', {New(item)})
    BY <1>5, <1>8, <2>1, <2>2, LinkKeeps
  <2> QED BY <1>9, <2>3
<1>11. /\ Items(item') = Items(item) \cup {n} /\ n \notin Items(item)
       /\ Present(item') = Present(item) \cup {p}
       /\ \A c, q : IsItem(item, c, q) => IsItem(item', c, q)
  <2>1. item \in HeapType /\ item' \in HeapType
    BY <1>0, <1>10 DEF Table
  <2> QED BY <1>10, <2>1, AddedOne
<1>12. /\ Table(item, head)' /\ Present(item)' = Present(item) \cup {p} /\ Items(item)' = Items(item) \cup {n}
       /\ \A d, q : IsItem(item, d, q) => IsItem(item, d, q)'
  BY <1>10, <1>11, TablesNext
<1>13. /\ Table(citem, chead)' /\ (Present(citem) \subseteq Written)'
       /\ \A d, q : IsItem(citem, d, q) => IsItem(citem, d, q)'
  BY <1>0, <1>1, TablesNext
<1>14. Types' /\ PinInv' /\ PtrInv'
  <2>l. lock' \in [Buckets -> Threads \cup {Null}]
    BY <1>0, <1>4 DEF Types
  <2>1. lock' \in [Buckets -> Threads \cup {Null}] /\ used' \in Seq(Pages) /\ refCount' = refCount
    BY <1>1, <1>q, <2>l
  <2>2. /\ "publish" \notin Evicting /\ "publish" \in Stages \ {"idle", "read", "add"}
        /\ Null \in Pages \cup {Null} /\ Null \in Cells \cup {Null}
    BY DEF Evicting, Stages
  <2>3. Sets(t, "publish", thr[t].page, Null, Null) /\ thr[t].page \in Present(item)'
    BY <1>2, <1>12, <1>s
  <2> QED BY <1>0, <1>1, <1>12, <1>13, <2>1, <2>2, <2>3, CoreStays
<1>15. LockInv'
  BY <1>0, <1>1, <1>3, <1>4, <1>s, LockTaken
<1>16. QueueInv'
  <2>1. /\ \A u \in Threads, q \in Pages : u # t => (InHand(u, q)' <=> InHand(u, q))
        /\ \A q \in Pages : InHand(t, q)' <=> ("publish" \in Evicting /\ Null = q) \/ ("publish" = "publish" /\ p = q)
    BY <1>0, <1>s, OthersHold
  <2>2. \A q \in Pages : InHand(t, q)' <=> q = p
    BY <2>1 DEF Evicting
  <2>3. \A q \in Pages : ~InHand(t, q)
    BY <1>1 DEF InHand, Evicting
  <2>4. used' = used
    BY <1>1
  <2> QED BY <1>0, <1>5, <1>12, <2>1, <2>2, <2>3, <2>4, QueueAdded
<1>17. SizeInv'
  <2>1. Cardinality(Items(item) \cup {n}) = Cardinality(Items(item)) + 1 /\ Cardinality(Items(item)) \in Nat
    BY <1>11, ItemsFinite, FS_AddElement
  <2>2. EvictAt \in Nat /\ used' = used
    BY <1>1, SizesAssumption
  <2>3. size' = Cardinality(Items(item)')
    BY <1>6, <1>12, <2>1
  <2>4. Len(used') + Cardinality(In(Holding)') = size'
    BY <1>6, <1>7, <1>q, <2>1, <2>2
  <2>5. Cardinality(In(Sent)') <= size'
    BY <1>6, <1>7, <2>1
  <2>6. size' + Cardinality(In(Claiming)') <= EvictAt - 1 + Cardinality(Threads)
    BY <1>6, <1>7, <2>1, <2>2
  <2> QED BY <2>3, <2>4, <2>5, <2>6 DEF SizeInv
<1> QED BY <1>12, <1>13, <1>14, <1>15, <1>16, <1>17 DEF TInv

\* The page of the new item is enqueued and the bucket unlocked.
LEMMA PublishKeeps ==
  ASSUME TInv, NEW t \in Threads, At(t, "publish"),
         used' = Append(used, thr[t].page),
         lock' = [lock EXCEPT ![Bucket(thr[t].page)] = Null],
         Go(t, [pc |-> "linked"]), UNCHANGED <<head, item, size, refCount, cryptoVars>>
  PROVE  TInv'
<1>0. /\ Types /\ Table(item, head) /\ Table(citem, chead) /\ Present(citem) \subseteq Written
      /\ LockInv /\ PinInv /\ PtrInv /\ QueueInv /\ SizeInv
  BY DEF TInv
<1>1. thr[t].pc = "publish" /\ UNCHANGED <<head, item, size, refCount, chead, citem>>
  BY DEF At, cryptoVars
<1>q. used \in Seq(Pages) /\ Len(used) \in Nat /\ thr[t].victim = Null /\ thr[t].ptr \in Cells \cup {Null}
  <2>1. used \in Seq(Pages)
    BY <1>0 DEF Types
  <2>2. thr[t].pc \notin Evicting
    BY <1>1 DEF Evicting
  <2>3. thr[t].victim = Null
    BY <1>0, <2>2 DEF Types
  <2>4. thr[t].ptr \in Cells \cup {Null}
    BY <1>0, Fields
  <2> QED BY <2>1, <2>3, <2>4, LenProperties
<1>2. PICK p \in Pages : p = thr[t].page
  BY <1>0, <1>1, Fields
<1>3. PICK b \in Buckets : b = Bucket(p)
  BY BucketIn
<1>4. used' = Append(used, p) /\ lock' = [lock EXCEPT ![b] = Null]
  BY <1>2, <1>3
<1>s. Sets(t, "linked", p, thr[t].ptr, Null)
  BY <1>0, <1>2, <1>q, GoPc
<1>5. /\ Table(item, head)' /\ Table(citem, chead)' /\ (Present(citem) \subseteq Written)'
      /\ Present(item)' = Present(item) /\ Items(item)' = Items(item)
      /\ \A d, q : (IsItem(item, d, q)' <=> IsItem(item, d, q)) /\ (IsItem(citem, d, q)' <=> IsItem(citem, d, q))
  BY <1>0, <1>1, TablesStay
<1>h. InHand(t, p) /\ \A q \in Pages : InHand(t, q) => q = p
  BY <1>1, <1>2 DEF InHand, Evicting
<1>6. Types' /\ PinInv' /\ PtrInv'
  <2>l. lock' \in [Buckets -> Threads \cup {Null}]
    BY <1>0, <1>4 DEF Types
  <2>u. used' \in Seq(Pages)
    BY <1>4, <1>q, AppendProperties
  <2>1. lock' \in [Buckets -> Threads \cup {Null}] /\ used' \in Seq(Pages) /\ refCount' = refCount
    BY <1>1, <2>l, <2>u
  <2>2. /\ "linked" \notin Evicting /\ "linked" \in Stages \ {"idle", "read", "add"}
        /\ Null \in Pages \cup {Null}
    BY DEF Evicting, Stages
  <2>3. Sets(t, "linked", thr[t].page, thr[t].ptr, Null) /\ thr[t].page \in Present(item)'
    BY <1>0, <1>1, <1>2, <1>5, <1>s DEF PinInv
  <2> QED BY <1>0, <1>1, <1>5, <1>q, <2>1, <2>2, <2>3, CoreStays
<1>7. LockInv'
  <2>1. Owns(t, b)
    BY <1>1, <1>2, <1>3 DEF Owns
  <2> QED BY <1>0, <1>4, <1>s, <2>1, LockReleased
<1>8. QueueInv'
  <2>1. /\ \A u \in Threads, q \in Pages : u # t => (InHand(u, q)' <=> InHand(u, q))
        /\ \A q \in Pages : InHand(t, q)' <=> ("linked" \in Evicting /\ Null = q) \/ ("linked" = "publish" /\ p = q)
    BY <1>0, <1>s, OthersHold
  <2>2. \A q \in Pages : ~InHand(t, q)'
    BY <2>1 DEF Evicting
  <2> QED BY <1>0, <1>4, <1>5, <1>h, <2>1, <2>2, QueueJoined
<1>9. SizeInv'
  <2>1. /\ Cardinality(In(Holding)') = Cardinality(In(Holding)) - 1 /\ Cardinality(In(Holding)) \in Nat
        /\ Cardinality(In(Sent)') = Cardinality(In(Sent)) - 1 /\ Cardinality(In(Sent)) \in Nat
        /\ Cardinality(In(Claiming)') = Cardinality(In(Claiming))
    <3>1. /\ "linked" \notin Holding /\ thr[t].pc \in Holding /\ "linked" \notin Sent /\ thr[t].pc \in Sent
          /\ "linked" \notin Claiming /\ thr[t].pc \notin Claiming
      BY <1>1 DEF Holding, Sent, Claiming, Evicting
    <3> QED BY <1>0, <1>s, <3>1, InMoved
  <2>2. Len(used') = Len(used) + 1
    BY <1>4, <1>q
  <2>3. size \in Nat /\ size' = size
    BY <1>0, <1>1, ItemsFinite DEF SizeInv
  <2> QED BY <1>0, <1>5, <1>q, <2>1, <2>2, <2>3 DEF SizeInv
<1> QED BY <1>5, <1>6, <1>7, <1>8, <1>9 DEF TInv

\* try_add: lost, or linked and then published.
LEMMA TryAddKeeps ==
  ASSUME TInv, NEW t \in Threads, TryAdd(t)
  PROVE  TInv'
<1>1. CASE At(t, "add") /\ Here(thr[t].page) # Null
  <2>1. Go(t, [pc |-> "found", ptr |-> Null]) /\ UNCHANGED <<cacheVars, refCount, used, cryptoVars>>
    BY <1>1 DEF TryAdd, At
  <2> QED BY <1>1, <2>1, LostAddKeeps
<1>2. CASE At(t, "add") /\ Here(thr[t].page) = Null
  <2>1. /\ Free(thr[t].page) /\ item' = Linked(item, head[Bucket(thr[t].page)], thr[t].page)
        /\ head' = [head EXCEPT ![Bucket(thr[t].page)] = LinkedHead(item, @)]
        /\ size' = size + 1
        /\ lock' = [lock EXCEPT ![Bucket(thr[t].page)] = t]
        /\ Go(t, [pc |-> "publish", ptr |-> Null]) /\ UNCHANGED <<refCount, used, cryptoVars>>
    BY <1>2 DEF TryAdd, At
  <2> QED BY <1>2, <2>1, AddItemKeeps
<1>3. CASE At(t, "publish")
  <2>1. /\ used' = Append(used, thr[t].page)
        /\ lock' = [lock EXCEPT ![Bucket(thr[t].page)] = Null]
        /\ Go(t, [pc |-> "linked"]) /\ UNCHANGED <<head, item, size, refCount, cryptoVars>>
    BY <1>3 DEF TryAdd, At
  <2> QED BY <1>3, <2>1, PublishKeeps
<1> QED BY <1>1, <1>2, <1>3 DEF TryAdd

-----------------------------------------------------------------------------
(***************************************************************************)
(* The invariant, and what it says of the tables                           *)
(***************************************************************************)

\* At first both tables are empty.
LEMMA InitHolds == Init => TInv
<1> SUFFICES ASSUME Init PROVE TInv
  OBVIOUS
<1>1. ASSUME NEW heap, NEW h, heap = [c \in Cells |-> Null], h = [b \in Buckets |-> Null]
      PROVE  Table(heap, h) /\ Items(heap) = {} /\ Present(heap) = {}
  <2>1. Items(heap) = {} /\ Present(heap) = {}
    BY <1>1 DEF Items, Present
  <2>2. heap \in HeapType /\ h \in HeadType
    BY <1>1 DEF HeapType, HeadType
  <2>3. [c \in Cells |-> 0] \in [Cells -> Nat]
    OBVIOUS
  <2>4. \A rank : Chained(heap, h, rank)
    BY <1>1, <2>1 DEF Chained
  <2> QED BY <2>1, <2>2, <2>3, <2>4 DEF Table
<1>2. /\ Table(item, head) /\ Items(item) = {} /\ Present(item) = {}
      /\ Table(citem, chead) /\ Present(citem) = {}
  BY <1>1 DEF Init
<1>3. \A t \in Threads : /\ thr[t] = Idle /\ thr[t].pc = "idle" /\ thr[t].page = Null /\ thr[t].victim = Null
  BY DEF Init, Idle
<1>4. Types
  <2>1. Idle \in [pc : Stages, page : Pages \cup {Null}, ptr : Cells \cup {Null}, victim : Pages \cup {Null}]
    BY DEF Idle, Stages
  <2> QED BY <1>3, <2>1 DEF Types, Init, Evicting
<1>5. LockInv
  <2>1. \A b \in Buckets : lock[b] = Null
    BY DEF Init
  <2> QED BY <1>3, <2>1, ThreadsAssumption DEF LockInv, Owns
<1>6. PinInv
  <2>1. \A p \in Pages : Pinning(p) = {} /\ refCount[p] = 0
    BY <1>3, PagesAssumption DEF Init, Pinning
  <2>2. Cardinality({}) = 0
    BY FS_EmptySet
  <2> QED BY <1>3, <2>1, <2>2 DEF PinInv
<1>7. PtrInv
  BY <1>3 DEF PtrInv
<1>8. QueueInv
  <2>1. used = << >> /\ DOMAIN used = {}
    BY DEF Init
  <2>2. \A t \in Threads, p \in Pages : ~InHand(t, p)
    BY <1>3 DEF InHand, Evicting
  <2> QED BY <1>2, <2>1, <2>2 DEF QueueInv
<1>9. SizeInv
  <2>1. In(Holding) = {} /\ In(Sent) = {} /\ In(Claiming) = {}
    BY <1>3 DEF In, Holding, Sent, Claiming, Evicting
  <2>2. Cardinality({}) = 0 /\ Len(used) = 0 /\ size = 0
    BY FS_EmptySet DEF Init
  <2>3. EvictAt \in Nat \ {0} /\ Cardinality(Threads) \in Nat
    BY SizesAssumption, ThreadsAssumption, FS_CardinalityType
  <2> QED BY <1>2, <2>1, <2>2, <2>3 DEF SizeInv
<1> QED BY <1>2, <1>4, <1>5, <1>6, <1>7, <1>8, <1>9 DEF TInv

\* Every step of either port keeps the invariant.
LEMMA StepKeeps == TInv /\ [Next]_vars => TInv'
<1> SUFFICES ASSUME TInv, [Next]_vars PROVE TInv'
  OBVIOUS
<1>1. CASE UNCHANGED vars
  <2>1. UNCHANGED <<item, head, citem, chead>> /\ UNCHANGED <<lock, size, refCount, used, thr>>
    BY <1>1 DEF vars, cacheVars, cryptoVars
  <2>2. /\ Table(item, head)' /\ Table(citem, chead)' /\ (Present(citem) \subseteq Written)'
        /\ Present(item)' = Present(item) /\ Items(item)' = Items(item)
        /\ \A d, q : (IsItem(item, d, q)' <=> IsItem(item, d, q)) /\ (IsItem(citem, d, q)' <=> IsItem(citem, d, q))
    BY <2>1, TablesStay DEF TInv
  <2>3. Types' /\ LockInv'
    BY <2>1 DEF TInv, Types, LockInv, Owns
  <2>4. PinInv' /\ PtrInv'
    BY <2>1, <2>2 DEF TInv, PinInv, PtrInv, Pinning
  <2>5. QueueInv' /\ SizeInv'
    BY <2>1, <2>2 DEF TInv, QueueInv, InHand, SizeInv, In
  <2> QED BY <2>2, <2>3, <2>4, <2>5 DEF TInv
<1>2. ASSUME NEW t \in Threads,
             \/ IncRefCount(t) \/ DecRefCount(t) \/ Get(t) \/ ReadItem(t) \/ CheckSize(t) \/ ToEvict(t)
             \/ CryptoAdd(t) \/ CleanVictim(t) \/ RemoveItem(t) \/ CryptoGet(t) \/ TryAdd(t)
      PROVE  TInv'
  BY <1>2, IncRefCountKeeps, DecRefCountKeeps, GetKeeps, ReadItemKeeps, CheckSizeKeeps, DequeueKeeps,
     ProbeKeeps, RequeueKeeps, CryptoAddKeeps, CleanVictimKeeps, RemoveItemKeeps, CryptoGetKeeps,
     TryAddKeeps DEF ToEvict
<1>3. CASE Next
  <2>1. PICK t \in Threads : page_fault(t) \/ dec_ref_count(t) \/ win_page_fault(t) \/ win_dec_ref_count(t)
    BY <1>3 DEF Next
  <2>2. CASE page_fault(t) \/ dec_ref_count(t)
    BY <1>2, <2>2 DEF page_fault, dec_ref_count, inc_ref_count, get, get_page_index_to_evict, try_evict_page,
       crypto_add, remove, crypto_get, try_add
  <2>3. CASE win_page_fault(t) \/ win_dec_ref_count(t)
    BY <1>2, <2>3 DEF win_page_fault, win_dec_ref_count, win_inc_ref_count, win_get,
       win_get_page_index_to_evict, win_try_evict_page, win_crypto_add, win_remove, win_crypto_get, win_try_add
  <2> QED BY <2>1, <2>2, <2>3
<1> QED BY <1>1, <1>3

\* The inductive invariant holds in every reachable state, whatever the
\* interleaving of page_fault and dec_ref_count in either port.
THEOREM TablesInvariant == Spec => []TInv
<1>1. Init => TInv
  BY InitHolds
<1>2. TInv /\ [Next]_vars => TInv'
  BY StepKeeps
<1> QED BY <1>1, <1>2, PTL DEF Spec

\* What the lists of a table hold is what is allocated, each page once and in its bucket.
LEMMA TableListsExact ==
  ASSUME NEW heap, NEW h, Table(heap, h)
  PROVE  ListsExact(heap, h)
<1>0. heap \in HeapType
  BY DEF Table
<1>1. \A b \in Buckets : Reach(heap, h[b]) = {c \in Items(heap) : Bucket(heap[c].page) = b}
  BY BucketList
<1>2. \A c \in Items(heap) : Bucket(heap[c].page) \in Buckets
  BY <1>0, ItemType
<1>3. \A c, d \in Items(heap) : heap[c].page = heap[d].page => c = d
  <2>1. PICK rank : Chained(heap, h, rank)
    BY DEF Table
  <2> QED BY <2>1 DEF Chained
<1>4. UNION {Reach(heap, h[b]) : b \in Buckets} = Items(heap)
  <2>1. \A c : c \in UNION {Reach(heap, h[b]) : b \in Buckets} <=> \E b \in Buckets : c \in Reach(heap, h[b])
    OBVIOUS
  <2> QED BY <1>1, <1>2, <2>1
<1> QED BY <1>1, <1>3, <1>4 DEF ListsExact, Items

\* PageCache and CryptoCache are the maps that Suvm takes them for: the lists hold
\* each page once and in its bucket, m_page_cache_size and m_used_pages agree with
\* them, the pointers that page_fault and try_evict_page keep after an unlock are to
\* the items of their pages, and no ASSERT fails.
THEOREM TablesExact == Spec => []TableExact
<1>1. TInv => TableExact
  <2> SUFFICES ASSUME TInv PROVE TableExact
    OBVIOUS
  <2>0. /\ Types /\ Table(item, head) /\ Table(citem, chead)
        /\ LockInv /\ PinInv /\ PtrInv /\ QueueInv /\ SizeInv
    BY DEF TInv
  <2>1. ListsExact(item, head) /\ ListsExact(citem, chead)
    BY <2>0, TableListsExact
  <2>2. size = Cardinality({c \in Cells : item[c] # Null})
    BY <2>0 DEF SizeInv, Items
  <2> DEFINE holders == {t \in Threads : thr[t].victim # Null \/ At(t, "publish")}
             pages == [t \in holders |-> IF At(t, "publish") THEN thr[t].page ELSE thr[t].victim]
             there == {item[c].page : c \in {x \in Cells : item[x] # Null}}
  <2>3. there = Present(item) /\ Present(item) \subseteq Pages
    <3>1. there = Present(item)
      BY DEF Present, Items
    <3>2. item \in HeapType
      BY <2>0 DEF Table
    <3>3. \A c \in Items(item) : item[c].page \in Pages
      BY <3>2, ItemType
    <3> QED BY <3>1, <3>3 DEF Present
  <2>4. holders = In(Holding)
    BY <2>0 DEF In, Holding, Types, At
  <2>5. \A p \in Pages : p \in {pages[t] : t \in holders} <=> \E t \in Threads : InHand(t, p)
    <3>1. \A t \in holders : \A p \in Pages : pages[t] = p <=> InHand(t, p)
      BY <2>0 DEF InHand, Evicting, At, Types
    <3>2. \A t \in Threads, p \in Pages : InHand(t, p) => t \in holders
      BY <2>0 DEF InHand, At, Types
    <3> QED BY <3>1, <3>2
  <2>6. {pages[t] : t \in holders} \subseteq Pages
    <3>1. \A t \in holders : pages[t] \in Pages
      BY <2>0, Fields DEF At, Evicting
    <3> QED BY <3>1
  <2>7. ToSet(used) = {used[i] : i \in DOMAIN used} /\ ToSet(used) \subseteq Pages
    BY <2>0 DEF Types, ToSet
  <2>8. ToSet(used) \cup {pages[t] : t \in holders} = there
    <3> HIDE DEF holders, pages, there
    <3>1. \A p \in Pages : p \in there <=> p \in ToSet(used) \cup {pages[t] : t \in holders}
      BY <2>0, <2>3, <2>5, <2>7 DEF QueueInv
    <3> QED BY <2>3, <2>6, <2>7, <3>1
  <2>9. Len(used) + Cardinality(holders) = Cardinality(there)
    <3>1. Cardinality(Present(item)) = Cardinality(Items(item))
      <4> DEFINE f == [c \in Items(item) |-> item[c].page]
      <4>1. f \in Injection(Items(item), Present(item))
        <5>1. \A c, d \in Items(item) : item[c].page = item[d].page => c = d
          <6>1. PICK rank : Chained(item, head, rank)
            BY <2>0 DEF Table
          <6> QED BY <6>1 DEF Chained
        <5> QED BY <5>1 DEF Injection, IsInjective, Present
      <4>2. f \in Surjection(Items(item), Present(item))
        BY DEF Surjection, Present
      <4> HIDE DEF f
      <4>3. ExistsBijection(Items(item), Present(item))
        BY <4>1, <4>2 DEF Bijection, ExistsBijection
      <4> QED BY <4>3, ItemsFinite, FS_Bijection
    <3> QED BY <2>0, <2>3, <2>4, <3>1 DEF SizeInv
  <2>10. ASSUME NEW t \in Threads
         PROVE  /\ ~At(t, "aborted")
                /\ thr[t].pc \in {"evict", "remove"} => thr[t].ptr = Here(thr[t].victim) /\ lock[Bucket(thr[t].victim)] = t
                /\ At(t, "read") => thr[t].ptr = Here(thr[t].page) /\ item[thr[t].ptr].page = thr[t].page
                /\ At(t, "add") /\ thr[t].ptr # Null => citem[thr[t].ptr].page = thr[t].page
    <3>1. ~At(t, "aborted")
      BY <2>0, Fields DEF At, Stages
    <3>2. ASSUME thr[t].pc \in {"evict", "remove"}
          PROVE  thr[t].ptr = Here(thr[t].victim) /\ lock[Bucket(thr[t].victim)] = t
      <4>1. thr[t].victim \in Pages /\ IsItem(item, thr[t].ptr, thr[t].victim) /\ Owns(t, Bucket(thr[t].victim))
        BY <2>0, <3>2, Fields DEF PtrInv, Evicting, Owns
      <4>2. lock[Bucket(thr[t].victim)] = t
        BY <2>0, <4>1, BucketIn DEF LockInv
      <4> QED BY <4>1, <4>2, HereExact
    <3>3. ASSUME At(t, "read")
          PROVE  thr[t].ptr = Here(thr[t].page) /\ item[thr[t].ptr].page = thr[t].page
      <4>1. thr[t].page \in Pages /\ IsItem(item, thr[t].ptr, thr[t].page)
        BY <2>0, <3>3, Fields DEF PtrInv, At
      <4>2. thr[t].ptr = Here(thr[t].page)
        BY <4>1, HereExact
      <4> QED BY <4>1, <4>2 DEF IsItem
    <3>4. At(t, "add") /\ thr[t].ptr # Null => citem[thr[t].ptr].page = thr[t].page
      BY <2>0 DEF PtrInv, At, IsItem
    <3> QED BY <3>1, <3>2, <3>3, <3>4
  <2> HIDE DEF holders, pages, there
  <2> QED BY <2>1, <2>2, <2>8, <2>9, <2>10 DEF TableExact, holders, pages, there
<1> QED BY <1>1, TablesInvariant, PTL
============================================================================
