----------------------------- MODULE RpcProofs -----------------------------
(***************************************************************************)
(* Proofs about Rpc, for any number of callers, workers and requests and   *)
(* any size of the queue, up to the moment when rear would overflow an     *)
(* int.  The heart of the argument is Served: a request that is queued or  *)
(* in a worker's hands is locked and belongs to a caller that waits for    *)
(* it, and no two places hold the same one.                                *)
(***************************************************************************)
EXTENDS Rpc, FiniteSetTheorems, TLAPS

\* No counter of the queue has come to the largest int.
NoWrap == rear < IntMax

\* Callers can be in the queue with one request each, and there is room.
QueueFits == IsFiniteSet(Callers) /\ Cardinality(Callers) <= QueueSize

Queued == front .. rear - 1
Busy(w) == wpc[w] \in {"work", "unlock"}

\* The queue's counters, and its room.
QueueBounds == front \in Nat /\ rear \in Nat /\ front <= rear /\ rear - front <= QueueSize

\* A caller and the request it has allocated.
CallerInv == \A c \in Callers :
  /\ req[c] = NoRequest <=> cpc[c] \in {"idle", "alloc"}
  /\ req[c] # NoRequest => req[c] \notin pool /\ buffer[req[c]] = c
  /\ cpc[c] \in {"alloc", "enqueue"} => ran[c] = 0
  /\ cpc[c] = "enqueue" => isDone[req[c]] = 1
  /\ cpc[c] = "wait" /\ isDone[req[c]] = 0 => ran[c] = 1
  /\ cpc[c] = "free" => ran[c] = 1

\* Request r is locked, its caller waits for it, and its call has run n times.
Served(r, n) ==
  /\ r \in Requests /\ buffer[r] \in Callers
  /\ cpc[buffer[r]] = "wait" /\ req[buffer[r]] = r
  /\ isDone[r] = 1 /\ ran[buffer[r]] = n

\* The queue holds distinct requests whose calls have not run.
QueueInv ==
  /\ \A i \in Queued : Served(q[Slot(i)], 0)
  /\ \A i, j \in Queued : i # j => q[Slot(i)] # q[Slot(j)]

\* A worker's request is in no other place.
WorkerInv ==
  /\ \A w \in Workers :
       /\ wpc[w] = "work"   => Served(cur[w], 0)
       /\ wpc[w] = "unlock" => Served(cur[w], 1)
       /\ ~Busy(w) => cur[w] = NoRequest
       /\ Busy(w) => \A i \in Queued : q[Slot(i)] # cur[w]
  /\ \A v, w \in Workers : v # w /\ Busy(v) /\ Busy(w) => cur[v] # cur[w]

IInv == TypeOK /\ QueueBounds /\ CallerInv /\ QueueInv /\ WorkerInv

-----------------------------------------------------------------------------
\* Numbers closer to each other than the modulus have different remainders.
LEMMA ModDistinct ==
  ASSUME NEW m \in Nat \ {0}, NEW i \in Nat, NEW j \in Nat, i < j, j - i < m
  PROVE  i % m # j % m
<1> SUFFICES ASSUME i % m = j % m PROVE FALSE
  OBVIOUS
<1> DEFINE a == i \div m
           b == j \div m
<1>1. a \in Int /\ b \in Int /\ i = m * a + (i % m) /\ j = m * b + (j % m)
  OBVIOUS
<1>2. i % m \in Int /\ j % m \in Int
  OBVIOUS
<1> HIDE DEF a, b
<1>3. j - i = m * (b - a)
  BY <1>1, <1>2
<1>4. b - a >= 1
  BY <1>1, <1>3
<1>5. m * (b - a) >= m
  BY <1>1, <1>4
<1> QED BY <1>3, <1>5

\* A counter that has not wrapped has its slot inside the array.
LEMMA SlotType ==
  ASSUME NEW a \in Nat
  PROVE  Slot(a) \in 0 .. QueueSize - 1 /\ Slot(a) = a % QueueSize
<1>1. QueueSize \in Nat \ {0}
  BY BoundsAssumption
<1>2. Slot(a) = a % QueueSize
  BY DEF Slot, Rem
<1> QED BY <1>1, <1>2

\* Slots of counters less than QueueSize apart are different.
LEMMA SlotDistinct ==
  ASSUME NEW a \in Nat, NEW b \in Nat, a # b,
         a - b < QueueSize, b - a < QueueSize
  PROVE  Slot(a) # Slot(b)
<1>1. CASE a < b
  BY <1>1, ModDistinct, SlotType, BoundsAssumption
<1>2. CASE b < a
  BY <1>2, ModDistinct, SlotType, BoundsAssumption
<1> QED BY <1>1, <1>2

\* Until then the test for a full queue compares the number of queued requests.
LEMMA FullExact ==
  ASSUME QueueBounds, NoWrap
  PROVE  Full <=> rear - front = QueueSize
  BY BoundsAssumption DEF QueueBounds, NoWrap, Full, Wrap

\* The invariant holds initially.
LEMMA InitInv == Init => IInv
<1> SUFFICES ASSUME Init PROVE IInv
  OBVIOUS
<1> USE DEF Init
<1>1. TypeOK
  <2>1. qlock \in {0, 1}
    BY LockAssumption
  <2>2. exitRequest \in BOOLEAN /\ deleted \in BOOLEAN /\ swapWork \in BOOLEAN
    BY Zenon
  <2>3. /\ cpc  \in [Callers -> {"idle", "alloc", "enqueue", "wait", "free", "abort",
                               "undefined"}]
        /\ status \in [Callers -> {"none", "SGX_SUCCESS", "SGX_ERROR_OCALL_NOT_ALLOWED"}]
        /\ wpc \in [Workers -> {"poll", "dequeue", "work", "unlock", "exited",
                                "undefined"}]
    BY Zenon
  <2> QED BY <2>1, <2>2, <2>3 DEF TypeOK
<1>2. QueueBounds
  BY BoundsAssumption DEF QueueBounds
<1>3. CallerInv
  BY DEF CallerInv
<1>4. Queued = {}
  BY DEF Queued
<1>5. QueueInv
  BY <1>4 DEF QueueInv
<1>6. WorkerInv
  BY DEF WorkerInv, Busy
<1> QED BY <1>1, <1>2, <1>3, <1>5, <1>6 DEF IInv

\* A caller enters rpc_ocall.
LEMMA InvokeInv ==
  ASSUME IInv, NoWrap, NEW c \in Callers, NEW k \in Calls, Invoke(c, k)
  PROVE  IInv'
<1> USE DEF IInv, Invoke, callerVars, workerVars, reqVars, queueVars, closeVars
<1>1. TypeOK'
  BY DEF TypeOK
<1>2. QueueBounds'
  BY DEF QueueBounds
<1>3. CallerInv'
  BY DEF CallerInv, TypeOK
<1>4. QueueInv'
  BY DEF QueueInv, Queued, CallerInv, Served, TypeOK
<1>5. WorkerInv'
  BY DEF WorkerInv, Queued, Busy, CallerInv, QueueInv, Served, TypeOK
<1> QED BY <1>1, <1>2, <1>3, <1>4, <1>5 DEF IInv

\* It allocates and prepares a request that nobody has, or fails.
LEMMA AllocInv ==
  ASSUME IInv, NoWrap, NEW c \in Callers, Alloc(c)
  PROVE  IInv'
<1> USE DEF IInv, Alloc, Prepare, callerVars, workerVars, reqVars, queueVars, closeVars
<1>1. TypeOK'
  BY DEF TypeOK
<1>2. QueueBounds'
  BY DEF QueueBounds
<1>3. CallerInv'
  <2>1. CASE req' = req /\ reqVars' = reqVars
    BY <2>1 DEF CallerInv, TypeOK
  <2>2. ASSUME NEW r \in pool, pool' = pool \ {r}, req' = [req EXCEPT ![c] = r],
               Prepare(c, r), cpc' = [cpc EXCEPT ![c] = "enqueue"]
        PROVE  CallerInv'
    <3>1. r \in Requests /\ r # NoRequest
      BY <2>2, RequestsAssumption DEF TypeOK
    <3>2. \A d \in Callers : req[d] # r
      BY <2>2, <3>1 DEF CallerInv
    <3>3. SUFFICES ASSUME NEW d \in Callers
                   PROVE  /\ req'[d] = NoRequest <=> cpc'[d] \in {"idle", "alloc"}
                          /\ req'[d] # NoRequest => req'[d] \notin pool' /\ buffer'[req'[d]] = d
                          /\ cpc'[d] \in {"alloc", "enqueue"} => ran'[d] = 0
                          /\ cpc'[d] = "enqueue" => isDone'[req'[d]] = 1
                          /\ cpc'[d] = "wait" /\ isDone'[req'[d]] = 0 => ran'[d] = 1
                          /\ cpc'[d] = "free" => ran'[d] = 1
      BY DEF CallerInv
    <3>4. CASE d = c
      BY <2>2, <3>1, <3>4 DEF CallerInv, TypeOK
    <3>5. CASE d # c
      <4>1. req'[d] = req[d] /\ cpc'[d] = cpc[d] /\ ran' = ran
        BY <2>2, <3>5 DEF TypeOK
      <4>2. req[d] # NoRequest =>
              /\ req[d] \in Requests /\ req[d] # r
              /\ buffer'[req[d]] = buffer[req[d]] /\ isDone'[req[d]] = isDone[req[d]]
        BY <2>2, <3>2 DEF TypeOK
      <4> QED BY <2>2, <4>1, <4>2 DEF CallerInv
    <3> QED BY <3>4, <3>5
  <2> QED BY <2>1, <2>2
<1>4. QueueInv'
  BY DEF QueueInv, Queued, CallerInv, Served, TypeOK
<1>5. WorkerInv'
  BY DEF WorkerInv, Queued, Busy, CallerInv, QueueInv, Served, TypeOK
<1> QED BY <1>1, <1>2, <1>3, <1>4, <1>5 DEF IInv

\* It finds its request unlocked, which is then neither queued nor in work.
LEMMA WaitInv ==
  ASSUME IInv, NoWrap, NEW c \in Callers, Wait(c)
  PROVE  IInv'
<1> USE DEF IInv, Wait, callerVars, workerVars, reqVars, queueVars, closeVars
<1>1. TypeOK'
  BY DEF TypeOK
<1>2. QueueBounds'
  BY DEF QueueBounds
<1>3. CallerInv'
  BY DEF CallerInv, TypeOK
<1>4. QueueInv'
  BY DEF QueueInv, Queued, CallerInv, Served, TypeOK
<1>5. WorkerInv'
  BY DEF WorkerInv, Queued, Busy, CallerInv, QueueInv, Served, TypeOK
<1> QED BY <1>1, <1>2, <1>3, <1>4, <1>5 DEF IInv

\* It frees its request.
LEMMA FreeInv ==
  ASSUME IInv, NoWrap, NEW c \in Callers, Free(c)
  PROVE  IInv'
<1> USE DEF IInv, Free, callerVars, workerVars, reqVars, queueVars, closeVars
<1>1. TypeOK'
  <2>1. req[c] \in Requests
    BY DEF CallerInv, TypeOK
  <2> QED BY <2>1 DEF TypeOK
<1>2. QueueBounds'
  BY DEF QueueBounds
<1>3. CallerInv'
  BY DEF CallerInv, TypeOK
<1>4. QueueInv'
  BY DEF QueueInv, Queued, CallerInv, Served, TypeOK
<1>5. WorkerInv'
  BY DEF WorkerInv, Queued, Busy, CallerInv, QueueInv, Served, TypeOK
<1> QED BY <1>1, <1>2, <1>3, <1>4, <1>5 DEF IInv

\* The worker looks at exit_request.
LEMMA PollInv ==
  ASSUME IInv, NoWrap, NEW w \in Workers, Poll(w)
  PROVE  IInv'
<1> USE DEF IInv, Poll, callerVars, workerVars, reqVars, queueVars, closeVars
<1>1. TypeOK'
  BY DEF TypeOK
<1>2. QueueBounds'
  BY DEF QueueBounds
<1>3. CallerInv'
  BY DEF CallerInv, TypeOK
<1>4. QueueInv'
  BY DEF QueueInv, Queued, CallerInv, Served, TypeOK
<1>5. WorkerInv'
  BY DEF WorkerInv, Queued, Busy, CallerInv, QueueInv, Served, TypeOK
<1> QED BY <1>1, <1>2, <1>3, <1>4, <1>5 DEF IInv

\* The worker runs the call, for the first time.
LEMMA WorkInv ==
  ASSUME IInv, NoWrap, NEW w \in Workers, Work(w)
  PROVE  IInv'
<1> USE DEF IInv, Work, callerVars, workerVars, reqVars, queueVars, closeVars
<1>0. /\ cur[w] \in Requests /\ buffer[cur[w]] \in Callers
      /\ cpc[buffer[cur[w]]] = "wait" /\ req[buffer[cur[w]]] = cur[w]
      /\ ran[buffer[cur[w]]] = 0
  BY DEF WorkerInv, Served
<1>1. TypeOK'
  <2>1. ran' \in [Callers -> {0, 1}]
    BY <1>0 DEF TypeOK
  <2>2. swapWork' \in BOOLEAN
    OBVIOUS
  <2>3. wpc' \in [Workers -> {"poll", "dequeue", "work", "unlock", "exited", "undefined"}]
    BY DEF TypeOK
  <2> QED BY <2>1, <2>2, <2>3 DEF TypeOK
<1>2. QueueBounds'
  BY DEF QueueBounds
<1>3. CallerInv'
  BY <1>0 DEF CallerInv, TypeOK
<1>4. QueueInv'
  <2>1. ASSUME NEW i \in Queued
        PROVE  buffer[q[Slot(i)]] # buffer[cur[w]]
    BY <1>0 DEF QueueInv, WorkerInv, Busy, Served
  <2> QED BY <1>0, <2>1 DEF QueueInv, Queued, Served, TypeOK
<1>5. WorkerInv'
  BY DEF WorkerInv, Queued, Busy, CallerInv, QueueInv, Served, TypeOK
<1> QED BY <1>1, <1>2, <1>3, <1>4, <1>5 DEF IInv

\* The worker unlocks the request and forgets it.
LEMMA UnlockInv ==
  ASSUME IInv, NoWrap, NEW w \in Workers, Unlock(w)
  PROVE  IInv'
<1> USE DEF IInv, Unlock, Unlocked, callerVars, workerVars, reqVars, queueVars, closeVars
<1>0. /\ cur[w] \in Requests /\ buffer[cur[w]] \in Callers
      /\ cpc[buffer[cur[w]]] = "wait" /\ req[buffer[cur[w]]] = cur[w]
      /\ ran[buffer[cur[w]]] = 1
  BY DEF WorkerInv, Served
<1>1. TypeOK'
  BY DEF TypeOK
<1>2. QueueBounds'
  BY DEF QueueBounds
<1>3. CallerInv'
  BY <1>0 DEF CallerInv, TypeOK
<1>4. QueueInv'
  <2>1. \A i \in Queued : q[Slot(i)] # cur[w]
    BY DEF WorkerInv, Busy
  <2> QED BY <1>0, <2>1 DEF QueueInv, Queued, Served, TypeOK
<1>5. WorkerInv'
  BY DEF WorkerInv, Queued, Busy, CallerInv, QueueInv, Served, TypeOK
<1> QED BY <1>1, <1>2, <1>3, <1>4, <1>5 DEF IInv

\* Closing touches no request.
LEMMA CloseInv ==
  ASSUME IInv, NoWrap, Close \/ Delete
  PROVE  IInv'
<1> USE DEF IInv, callerVars, workerVars, reqVars, queueVars, closeVars
<1>0. UNCHANGED <<callerVars, ran, workerVars, reqVars, queueVars, swapWork>>
  BY Zenon DEF Close, Delete
<1>1. TypeOK'
  <2>1. exitRequest' \in BOOLEAN /\ deleted' \in BOOLEAN
    BY Zenon DEF Close, Delete, TypeOK
  <2> QED BY <1>0, <2>1 DEF TypeOK
<1>2. QueueBounds'
  BY <1>0 DEF QueueBounds
<1>3. CallerInv'
  BY <1>0 DEF CallerInv
<1>4. QueueInv'
  BY <1>0 DEF QueueInv, Queued, Served, Slot, Rem
<1>5. WorkerInv'
  BY <1>0 DEF WorkerInv, Queued, Busy, Served, Slot, Rem
<1> QED BY <1>1, <1>2, <1>3, <1>4, <1>5 DEF IInv

\* It enqueues its request, into a slot that holds none that is still queued.
LEMMA EnqueueInv ==
  ASSUME IInv, NoWrap, NEW c \in Callers, Enqueue(c)
  PROVE  IInv'
<1> USE DEF Enqueue, callerVars, workerVars, reqVars, queueVars, closeVars
<1>0. /\ rear \in Nat /\ front \in Nat /\ QueueSize \in Nat
      /\ IntSucc(rear) = rear + 1
      /\ Slot(rear) \in 0 .. QueueSize - 1
      /\ req[c] \in Requests /\ req[c] \notin pool /\ buffer[req[c]] = c
      /\ isDone[req[c]] = 1 /\ ran[c] = 0
  <2>1. rear \in Nat /\ front \in Nat /\ QueueSize \in Nat
    BY BoundsAssumption DEF IInv, QueueBounds
  <2>2. IntSucc(rear) = rear + 1
    BY <2>1, BoundsAssumption DEF IntSucc, Wrap, NoWrap
  <2>3. /\ req[c] \in Requests /\ req[c] \notin pool /\ buffer[req[c]] = c
        /\ isDone[req[c]] = 1 /\ ran[c] = 0
    BY DEF IInv, CallerInv, TypeOK
  <2> QED BY <2>1, <2>2, <2>3, SlotType
<1>1. ASSUME NEW r, NEW n, Served(r, n)
      PROVE  r # req[c] /\ Served(r, n)'
  BY <1>0, <1>1 DEF Served, IInv, TypeOK
<1>2. CASE UNCHANGED <<q, rear>> /\ cpc' \in {[cpc EXCEPT ![c] = l] : l \in {"abort", "undefined"}}
  <2> USE <1>2
  <2>1. TypeOK'
    BY DEF IInv, TypeOK
  <2>2. QueueBounds'
    BY DEF IInv, QueueBounds
  <2>3. CallerInv'
    BY DEF IInv, CallerInv, TypeOK
  <2>4. Queued' = Queued /\ (\A i \in Queued : q'[Slot(i)] = q[Slot(i)])
    BY DEF Queued
  <2>5. QueueInv'
    BY <1>1, <2>4 DEF IInv, QueueInv
  <2>6. WorkerInv'
    BY <1>1, <2>4 DEF IInv, WorkerInv, Busy
  <2> QED BY <2>1, <2>2, <2>3, <2>5, <2>6 DEF IInv
<1>3. CASE /\ ~Full /\ rear' = IntSucc(rear)
           /\ q' = [q EXCEPT ![Slot(rear)] = req[c]]
           /\ cpc' = [cpc EXCEPT ![c] = "wait"]
  <2> USE <1>3
  <2>1. TypeOK'
    <3>1. q' \in [0 .. QueueSize - 1 -> Requests \cup {NoRequest}] /\ rear' \in Int
      BY <1>0 DEF IInv, TypeOK
    <3> QED BY <3>1 DEF IInv, TypeOK
  <2>0. rear - front # QueueSize
    BY FullExact DEF IInv
  <2>2. QueueBounds'
    BY <1>0, <2>0 DEF IInv, QueueBounds
  <2>3. CallerInv'
    BY DEF IInv, CallerInv, TypeOK
  <2>4. /\ Queued' = Queued \cup {rear}
        /\ rear \notin Queued
    BY <1>0 DEF IInv, QueueBounds, Queued
  <2>5. \A i \in Queued : Slot(i) \in 0 .. QueueSize - 1 /\ Slot(i) # Slot(rear)
    <3> SUFFICES ASSUME NEW i \in Queued
                 PROVE  Slot(i) \in 0 .. QueueSize - 1 /\ Slot(i) # Slot(rear)
      OBVIOUS
    <3>1. i \in Nat /\ i < rear /\ rear - i < QueueSize /\ i - rear < QueueSize
      BY <1>0, <2>0 DEF IInv, QueueBounds, Queued
    <3> QED BY <1>0, <3>1, SlotType, SlotDistinct
  <2>6. q'[Slot(rear)] = req[c] /\ \A i \in Queued : q'[Slot(i)] = q[Slot(i)]
    BY <1>0, <2>5 DEF IInv, TypeOK
  <2>7. \A r : r = req[c] => Served(r, 0)'
    BY <1>0 DEF Served, IInv, TypeOK
  <2>8. \A i \in Queued : \A r : r = q[Slot(i)] => r # req[c] /\ Served(r, 0)'
    BY <1>1 DEF IInv, QueueInv
  <2>9. QueueInv'
    <3>1. ASSUME NEW i \in Queued' PROVE Served(q[Slot(i)], 0)'
      BY <2>4, <2>6, <2>7, <2>8
    <3>2. ASSUME NEW i \in Queued', NEW j \in Queued', i # j
          PROVE  q'[Slot(i)] # q'[Slot(j)]
      BY <2>4, <2>6, <2>8, <3>2 DEF IInv, QueueInv
    <3> QED BY <3>1, <3>2 DEF QueueInv
  <2>10. WorkerInv'
    <3>1. \A w \in Workers : Busy(w) => cur[w] # req[c]
      BY <1>1 DEF IInv, WorkerInv, Busy
    <3> QED BY <1>1, <2>4, <2>6, <3>1 DEF IInv, WorkerInv, Busy
  <2> QED BY <2>1, <2>2, <2>3, <2>9, <2>10 DEF IInv
<1> QED BY <1>2, <1>3

\* The worker takes the oldest request, which leaves the queue.
LEMMA DequeueInv ==
  ASSUME IInv, NoWrap, NEW w \in Workers, Dequeue(w)
  PROVE  IInv'
<1> USE DEF Dequeue, callerVars, workerVars, reqVars, queueVars, closeVars
<1>0. rear \in Nat /\ front \in Nat /\ front <= rear /\ rear - front <= QueueSize /\ QueueSize \in Nat
  BY BoundsAssumption DEF IInv, QueueBounds
<1>1. \A r, n : Served(r, n) => Served(r, n)'
  BY DEF Served
<1>2. CASE UNCHANGED <<cur, front>> /\ wpc' \in {[wpc EXCEPT ![w] = l] : l \in {"poll", "undefined"}}
  <2> USE <1>2
  <2>1. TypeOK'
    BY DEF IInv, TypeOK
  <2>2. QueueBounds'
    BY DEF IInv, QueueBounds
  <2>3. CallerInv'
    BY DEF IInv, CallerInv
  <2>4. Queued' = Queued
    BY DEF Queued
  <2>5. QueueInv'
    BY <1>1, <2>4 DEF IInv, QueueInv
  <2>6. WorkerInv'
    BY <1>1, <2>4 DEF IInv, WorkerInv, Busy, TypeOK
  <2> QED BY <2>1, <2>2, <2>3, <2>5, <2>6 DEF IInv
<1>3. CASE /\ ~Empty /\ Advance
           /\ cur' = [cur EXCEPT ![w] = q[Slot(front)]]
           /\ wpc' = [wpc EXCEPT ![w] = "work"]
  <2> USE <1>3
  <2>1. front < rear /\ front' = front + 1
    BY <1>0, BoundsAssumption DEF Empty, Advance, IntSucc, Wrap, NoWrap
  <2>2. front \in Queued /\ Queued' = Queued \ {front}
    BY <1>0, <2>1 DEF Queued
  <2>3. Served(q[Slot(front)], 0) /\ \A i \in Queued' : q[Slot(i)] # q[Slot(front)]
    BY <2>2 DEF IInv, QueueInv
  <2>4. TypeOK'
    <3>1. cur' \in [Workers -> Requests \cup {NoRequest}] /\ front' \in Int
      BY <1>0, <2>1, <2>3 DEF IInv, TypeOK, Served
    <3> QED BY <3>1 DEF IInv, TypeOK
  <2>5. QueueBounds'
    BY <1>0, <2>1 DEF QueueBounds
  <2>6. CallerInv'
    BY DEF IInv, CallerInv
  <2>7. QueueInv'
    BY <1>1, <2>2 DEF IInv, QueueInv
  <2>8. WorkerInv'
    <3>1. /\ cur'[w] = q[Slot(front)] /\ wpc'[w] = "work"
          /\ \A v \in Workers \ {w} : cur'[v] = cur[v] /\ wpc'[v] = wpc[v]
      BY DEF IInv, TypeOK
    <3>2. \A v \in Workers \ {w} : Busy(v) => cur[v] # q[Slot(front)]
      BY <2>2 DEF IInv, WorkerInv
    <3> QED BY <1>1, <2>2, <2>3, <3>1, <3>2 DEF IInv, WorkerInv, Busy
  <2> QED BY <2>4, <2>5, <2>6, <2>7, <2>8 DEF IInv
<1> QED BY <1>2, <1>3

\* The invariant is inductive while rear does not wrap.
LEMMA NextInv ==
  ASSUME IInv, NoWrap, [Next]_vars
  PROVE  IInv'
<1>1. CASE UNCHANGED vars
  <2>1. TypeOK'
    BY <1>1 DEF IInv, TypeOK, vars, callerVars, workerVars, reqVars, queueVars, closeVars
  <2> USE <1>1 DEF vars, callerVars, workerVars, reqVars, queueVars, closeVars
  <2>2. QueueBounds' /\ CallerInv'
    BY DEF IInv, QueueBounds, CallerInv
  <2>3. QueueInv' /\ WorkerInv'
    BY DEF IInv, QueueInv, WorkerInv, Queued, Busy, Served
  <2> QED BY <2>1, <2>2, <2>3 DEF IInv
<1>2. ASSUME NEW c \in Callers, CallerStep(c)
      PROVE  IInv'
  BY <1>2, AllocInv, EnqueueInv, WaitInv, FreeInv DEF CallerStep
<1>3. ASSUME NEW c \in Callers, NEW k \in Calls, Invoke(c, k)
      PROVE  IInv'
  BY <1>3, InvokeInv
<1>4. ASSUME NEW w \in Workers, WorkerStep(w)
      PROVE  IInv'
  BY <1>4, PollInv, DequeueInv, WorkInv, UnlockInv DEF WorkerStep
<1>5. CASE Close \/ Delete
  BY <1>5, CloseInv
<1> QED BY <1>1, <1>2, <1>3, <1>4, <1>5 DEF Next

\* The invariant holds always, until rear would wrap.
LEMMA Invariance == Spec /\ []NoWrap => []IInv
<1>1. IInv /\ NoWrap /\ [Next]_vars => IInv'
  BY NextInv
<1> QED BY <1>1, InitInv, PTL DEF Spec

\* Up to the overflow of rear, the state of rpc_ocall, the queue and the worker
\* keeps its type; in particular no call runs twice.
THEOREM Typing == Spec /\ []NoWrap => []TypeOK
<1>1. IInv => TypeOK
  BY DEF IInv
<1> QED BY <1>1, Invariance, PTL

\* Up to the overflow of rear, no request is shared, freed or reused while it is
\* queued or in a worker's hands: rpc_ocall may free it once it has the lock.
THEOREM Exclusive == Spec /\ []NoWrap => []RequestsExclusive
<1>1. IInv => RequestsExclusive
  <2> SUFFICES ASSUME IInv PROVE RequestsExclusive
    OBVIOUS
  <2>1. ASSUME NEW r, NEW n, Served(r, n) PROVE Outstanding(r)
    <3>1. r # NoRequest /\ buffer[r] \in Callers /\ req[buffer[r]] = r
      BY <2>1, RequestsAssumption DEF Served
    <3>2. r \notin pool
      BY <3>1 DEF IInv, CallerInv
    <3> QED BY <2>1, <3>1, <3>2 DEF Served, Outstanding
  <2>2. \A c, d \in Callers : req[c] = req[d] /\ req[c] # NoRequest => c = d
    BY DEF IInv, CallerInv
  <2>3. \A w \in Workers : wpc[w] \in {"work", "unlock"} => Outstanding(cur[w])
    BY <2>1 DEF IInv, WorkerInv
  <2>4. \A i \in front .. rear - 1 : Outstanding(q[Slot(i)])
    BY <2>1 DEF IInv, QueueInv, Queued
  <2>5. \A v, w \in Workers : cur[v] = cur[w] /\ cur[v] # NoRequest => v = w
    BY DEF IInv, WorkerInv
  <2> QED BY <2>2, <2>3, <2>4, <2>5 DEF RequestsExclusive
<1> QED BY <1>1, Invariance, PTL

\* The callers of the queued requests are as many as the requests, and a caller
\* that is about to enqueue is not among them.
LEMMA RoomLeft ==
  ASSUME IInv, NoWrap, QueueFits, NEW c \in Callers, cpc[c] = "enqueue"
  PROVE  ~Full
<1> DEFINE S == Callers \ {c}
           f == [i \in Queued |-> buffer[q[Slot(i)]]]
<1>0. front \in Nat /\ rear \in Nat /\ front <= rear /\ QueueSize \in Nat
  BY BoundsAssumption DEF IInv, QueueBounds
<1>1. IsFiniteSet(S) /\ Cardinality(S) = Cardinality(Callers) - 1
  BY FS_RemoveElement DEF QueueFits
<1>2. f \in Injection(Queued, S)
  <2>1. ASSUME NEW i \in Queued PROVE f[i] \in S /\ req[f[i]] = q[Slot(i)]
    BY DEF IInv, QueueInv, Served
  <2>2. ASSUME NEW i \in Queued, NEW j \in Queued, f[i] = f[j] PROVE i = j
    BY <2>1, <2>2 DEF IInv, QueueInv
  <2>3. f \in [Queued -> S]
    BY <2>1
  <2> QED BY <2>2, <2>3 DEF Injection, IsInjective
<1>3. Cardinality(Queued) <= Cardinality(S)
  BY <1>1, <1>2, FS_Injection
<1>4. Cardinality(Queued) = rear - front
  BY <1>0, FS_Interval DEF Queued
<1>5. Cardinality(Callers) \in Nat
  BY FS_CardinalityType DEF QueueFits
<1>6. rear - front # QueueSize
  BY <1>0, <1>1, <1>3, <1>4, <1>5 DEF QueueFits
<1> QED BY <1>6, FullExact DEF IInv

\* With at least as many slots as callers, enqueue never finds the queue full
\* and aborts, up to the overflow of rear.
THEOREM NoAbort ==
  ASSUME QueueFits
  PROVE  Spec /\ []NoWrap => []NeverAborts
<1>1. Init => NeverAborts
  BY DEF Init, NeverAborts
<1>2. IInv /\ NoWrap /\ NeverAborts /\ [Next]_vars => NeverAborts'
  <2> SUFFICES ASSUME IInv, NoWrap, NeverAborts, [Next]_vars PROVE NeverAborts'
    OBVIOUS
  <2> USE DEF NeverAborts, callerVars
  <2>1. CASE UNCHANGED cpc
    BY <2>1
  <2>2. ASSUME NEW c \in Callers, Enqueue(c) PROVE NeverAborts'
    <3>1. ~Full
      BY <2>2, RoomLeft DEF Enqueue
    <3> QED BY <2>2, <3>1 DEF Enqueue, IInv, TypeOK
  <2>3. ASSUME NEW c \in Callers, Alloc(c) \/ Wait(c) \/ Free(c) PROVE NeverAborts'
    BY <2>3 DEF Alloc, Wait, Free, IInv, TypeOK
  <2>4. ASSUME NEW c \in Callers, NEW k \in Calls, Invoke(c, k) PROVE NeverAborts'
    BY <2>4 DEF Invoke, IInv, TypeOK
  <2>5. ASSUME NEW w \in Workers, WorkerStep(w) PROVE UNCHANGED cpc
    BY <2>5 DEF WorkerStep, Poll, Dequeue, Work, Unlock
  <2>6. Close \/ Delete \/ UNCHANGED vars => UNCHANGED cpc
    BY DEF Close, Delete, vars
  <2> QED BY <2>1, <2>2, <2>3, <2>4, <2>5, <2>6 DEF Next, CallerStep
<1> QED BY <1>1, <1>2, Invariance, PTL DEF Spec

\* A step of a caller or of the worker is a step of the service or invisible.
LEMMA ServiceStep ==
  ASSUME IInv, NoWrap, [Next]_vars
  PROVE  [Service!Next]_(Service!vars)
<1> USE DEF callerVars, queueVars, closeVars, Service!vars
<1>0. qlock' = qlock /\ exitRequest' = exitRequest /\ rear' = rear => Up' = Up
  BY DEF Up
<1>1. ASSUME NEW c \in Callers, NEW k \in Calls, Invoke(c, k)
      PROVE  Service!Invoke(c)
  BY <1>0, <1>1 DEF Invoke, Service!Invoke, IInv, TypeOK
<1>2. ASSUME NEW c \in Callers, Alloc(c)
      PROVE  Service!Return(c) \/ UNCHANGED Service!vars
  <2>1. CASE /\ status' = [status EXCEPT ![c] = "SGX_ERROR_OCALL_NOT_ALLOWED"]
             /\ cpc' = [cpc EXCEPT ![c] = "idle"]
    <3>1. cpc[c] = "alloc" /\ ran[c] = 0 /\ ran' = ran /\ Up' = Up
      BY <1>0, <1>2 DEF Alloc, IInv, CallerInv
    <3>2. [d \in Callers |-> cpc'[d] # "idle"] =
            [[d \in Callers |-> cpc[d] # "idle"] EXCEPT ![c] = FALSE]
      BY <2>1 DEF IInv, TypeOK
    <3>3. status' = [status EXCEPT ![c] = IF ran[c] = 1 THEN "SGX_SUCCESS"
                                          ELSE "SGX_ERROR_OCALL_NOT_ALLOWED"]
      BY <2>1, <3>1
    <3> QED BY <3>1, <3>2, <3>3 DEF Service!Return
  <2>2. CASE UNCHANGED status /\ cpc' = [cpc EXCEPT ![c] = "enqueue"]
    BY <1>0, <1>2, <2>2 DEF Alloc, IInv, TypeOK
  <2> QED BY <1>2, <2>1, <2>2 DEF Alloc
<1>3. ASSUME NEW c \in Callers, Free(c)
      PROVE  Service!Return(c)
  BY <1>0, <1>3 DEF Free, Service!Return, IInv, TypeOK, CallerInv
<1>4. ASSUME NEW c \in Callers, Enqueue(c) \/ Wait(c)
      PROVE  UNCHANGED Service!vars
  <2>1. rear >= 0 /\ IntSucc(rear) >= 0
    BY BoundsAssumption DEF IInv, QueueBounds, NoWrap, IntSucc, Wrap
  <2>2. Up' = Up
    BY <1>4, <2>1 DEF Enqueue, Wait, Up
  <2> QED BY <1>4, <2>2 DEF Enqueue, Wait, IInv, TypeOK
<1>5. ASSUME NEW w \in Workers, Work(w)
      PROVE  \E c \in Callers : Service!Execute(c)
  <2>1. Served(cur[w], 0)
    BY <1>5 DEF Work, IInv, WorkerInv
  <2>2. /\ buffer[cur[w]] \in Callers /\ cpc[buffer[cur[w]]] = "wait"
        /\ ran[buffer[cur[w]]] = 0 /\ cpc' = cpc /\ status' = status /\ Up' = Up
        /\ ran' = [ran EXCEPT ![buffer[cur[w]]] = 1]
    BY <1>0, <1>5, <2>1 DEF Work, Served, IInv, TypeOK
  <2>3. Service!Execute(buffer[cur[w]])
    BY <2>2 DEF Service!Execute
  <2> QED BY <2>2, <2>3
<1>6. ASSUME NEW w \in Workers, Poll(w) \/ Dequeue(w) \/ Unlock(w)
      PROVE  UNCHANGED Service!vars
  BY <1>0, <1>6 DEF Poll, Dequeue, Unlock
<1>7. Delete \/ UNCHANGED vars => UNCHANGED Service!vars
  BY <1>0 DEF Delete, vars
<1>8. Close => Service!End \/ UNCHANGED Service!vars
  BY DEF Close, Service!End, Up
<1> QED BY <1>1, <1>2, <1>3, <1>4, <1>5, <1>6, <1>7, <1>8
        DEF Next, CallerStep, WorkerStep, Service!Next

\* Up to the overflow of rear, rpc_ocall takes only steps of the service: a call
\* runs at most once, has run exactly once when rpc_ocall returns SGX_SUCCESS,
\* and not at all when it returns SGX_ERROR_OCALL_NOT_ALLOWED.
THEOREM RefinesService ==
  Spec /\ []NoWrap => Service!Init /\ [][Service!Next]_(Service!vars)
<1>1. Init => Service!Init
  BY DEF Init, Service!Init, Up
<1>2. IInv /\ NoWrap /\ [Next]_vars => [Service!Next]_(Service!vars)
  BY ServiceStep
<1> QED BY <1>1, <1>2, Invariance, PTL DEF Spec

=============================================================================
