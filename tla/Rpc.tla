--------------------------------- MODULE Rpc ---------------------------------
(***************************************************************************)
(* Exitless system calls: an enclave thread allocates a request in         *)
(* untrusted memory, enqueues it and spins on its is_done lock; a worker   *)
(* thread of the untrusted process polls the queue, runs the call and      *)
(* unlocks is_done.                                                        *)
(*                                                                         *)
(* Queue::enqueue and Queue::dequeue are critical sections of the queue's  *)
(* own lock and are one step each; qlock is the lock word itself, which    *)
(* the constructor does not initialise.  The fields of a request are       *)
(* written before it is shared, so allocation and initialisation are one   *)
(* step.  The request allocator is external here: it hands out a free      *)
(* request, or NULL at any time, since others allocate from its pool too.  *)
(***************************************************************************)
EXTENDS Integers, FiniteSets

CONSTANTS
  Callers,     \* enclave threads
  Workers,     \* threads running rpc_thread
  Requests,    \* what the pool has room for
  Calls,       \* the calls made: ocall table entries, and Async (index -1)
  Async,
  QueueSize,   \* Queue::queue_size, 1024 in the code
  IntMax,      \* the largest int
  MaxCalls,    \* bound on the number of calls ever enqueued
  LockInit,    \* what the uninitialised lock word may hold
  Closes,      \* whether close_rpc_worker may be called while calls are made
  NoRequest, NoCaller

ASSUME RequestsAssumption == NoRequest \notin Requests /\ NoCaller \notin Callers
ASSUME BoundsAssumption   == QueueSize \in Nat \ {0} /\ IntMax \in Nat /\ MaxCalls \in Nat
ASSUME LockAssumption     == LockInit \subseteq {0, 1} /\ LockInit # {}
ASSUME ClosesAssumption   == Closes \in BOOLEAN

VARIABLES
  cpc,        \* where each caller is
  req,        \* its local variable req
  call,       \* the call it makes
  status,     \* what its last call returned
  ran,        \* history: how often the caller's current or last call has run
  wpc,        \* where each worker is
  cur,        \* the request it is working on
  pool,       \* free requests
  index,      \* request::ocall_index
  buffer,     \* request::buffer: the marshalled arguments of a caller
  isDone,     \* request::is_done: 1 while locked
  q, front, rear, qlock,
  exitRequest,
  deleted,    \* the queue has been deleted
  swapWork    \* g_swap_thread_work

callerVars == <<cpc, req, call, status>>
workerVars == <<wpc, cur>>
reqVars    == <<pool, index, buffer, isDone>>
queueVars  == <<q, front, rear, qlock>>
closeVars  == <<exitRequest, deleted>>
vars == <<callerVars, ran, workerVars, reqVars, queueVars, closeVars, swapWork>>

-----------------------------------------------------------------------------
\* C's remainder, whose sign is that of the dividend.
Rem(a, b) == IF a >= 0 THEN a % b ELSE -((-a) % b)

\* int arithmetic: a result beyond the largest int wraps, as the build does it.
Wrap(a) == IF a > IntMax THEN a - 2 * (IntMax + 1)
           ELSE IF a < -IntMax - 1 THEN a + 2 * (IntMax + 1) ELSE a
IntSucc(a) == Wrap(a + 1)

\* Where enqueue writes and dequeue reads.  A slot outside the array is memory
\* of the heap, the queue's own front and rear included.
Slot(a) == Rem(a, QueueSize)
InArray(a) == Slot(a) \in 0 .. QueueSize - 1

BugFull == Wrap(rear - front) = QueueSize - 1
Full    == Wrap(rear - front) = QueueSize
Empty   == front = rear

Init ==
  /\ cpc    = [c \in Callers |-> "idle"]
  /\ req    = [c \in Callers |-> NoRequest]
  /\ call   = [c \in Callers |-> Async]
  /\ status = [c \in Callers |-> "none"]
  /\ ran    = [c \in Callers |-> 0]
  /\ wpc    = [w \in Workers |-> "poll"]
  /\ cur    = [w \in Workers |-> NoRequest]
  /\ pool   = Requests
  /\ index  = [r \in Requests |-> Async]
  /\ buffer = [r \in Requests |-> NoCaller]
  /\ isDone = [r \in Requests |-> 0]
  /\ q      = [i \in 0 .. QueueSize - 1 |-> NoRequest]
  /\ front  = 0
  /\ rear   = 0
  /\ qlock  \in LockInit
  /\ exitRequest = FALSE
  /\ deleted = FALSE
  /\ swapWork = FALSE

(***************************************************************************)
(* rpc_ocall                                                               *)
(***************************************************************************)
Invoke(c, k) ==
  /\ cpc[c] = "idle"
  /\ rear < MaxCalls
  /\ call' = [call EXCEPT ![c] = k]
  /\ ran'  = [ran EXCEPT ![c] = 0]
  /\ status' = [status EXCEPT ![c] = "none"]
  /\ cpc'  = [cpc EXCEPT ![c] = "alloc"]
  /\ UNCHANGED <<req, workerVars, reqVars, queueVars, closeVars, swapWork>>

\* Request r as rpc_ocall sets it up for caller c: locked until the call ran.
BugPrepare(c, r) ==
  /\ index'  = [index EXCEPT ![r] = call[c]]
  /\ buffer' = [buffer EXCEPT ![r] = c]
  /\ UNCHANGED isDone
Prepare(c, r) ==
  /\ index'  = [index EXCEPT ![r] = call[c]]
  /\ buffer' = [buffer EXCEPT ![r] = c]
  /\ isDone' = [isDone EXCEPT ![r] = 1]

Alloc(c) ==
  /\ cpc[c] = "alloc"
  /\ \/ /\ status' = [status EXCEPT ![c] = "SGX_ERROR_OCALL_NOT_ALLOWED"]
        /\ cpc' = [cpc EXCEPT ![c] = "idle"]
        /\ UNCHANGED <<req, reqVars>>
     \/ \E r \in pool :
          /\ pool' = pool \ {r}
          /\ req'  = [req EXCEPT ![c] = r]
          /\ Prepare(c, r)
          /\ cpc'  = [cpc EXCEPT ![c] = "enqueue"]
          /\ UNCHANGED status
  /\ UNCHANGED <<call, ran, workerVars, queueVars, closeVars, swapWork>>

\* Queue::enqueue aborts when the queue is full.  Nothing is known after an
\* access to a deleted queue, or outside its array.
Enqueue(c) ==
  /\ cpc[c] = "enqueue"
  /\ qlock = 0
  /\ \/ /\ Full
        /\ cpc' = [cpc EXCEPT ![c] = "abort"]
        /\ UNCHANGED <<q, rear>>
     \/ /\ ~Full /\ InArray(rear)
        /\ q'    = [q EXCEPT ![Slot(rear)] = req[c]]
        /\ rear' = IntSucc(rear)
        /\ cpc'  = [cpc EXCEPT ![c] = "wait"]
     \/ /\ deleted \/ (~Full /\ ~InArray(rear))
        /\ cpc' = [cpc EXCEPT ![c] = "undefined"]
        /\ UNCHANGED <<q, rear>>
  /\ UNCHANGED <<req, call, status, ran, workerVars, reqVars, front, qlock, closeVars,
                 swapWork>>

\* spin_lock(&req->is_done) succeeds once the worker has unlocked it.
Wait(c) ==
  /\ cpc[c] = "wait"
  /\ isDone[req[c]] = 0
  /\ isDone' = [isDone EXCEPT ![req[c]] = 1]
  /\ cpc' = [cpc EXCEPT ![c] = "free"]
  /\ UNCHANGED <<req, call, status, ran, workerVars, pool, index, buffer, queueVars,
                 closeVars, swapWork>>

Free(c) ==
  /\ cpc[c] = "free"
  /\ pool' = pool \cup {req[c]}
  /\ req'  = [req EXCEPT ![c] = NoRequest]
  /\ status' = [status EXCEPT ![c] = "SGX_SUCCESS"]
  /\ cpc'  = [cpc EXCEPT ![c] = "idle"]
  /\ UNCHANGED <<call, ran, workerVars, index, buffer, isDone, queueVars,
                 closeVars, swapWork>>

(***************************************************************************)
(* rpc_thread and do_work                                                  *)
(***************************************************************************)
Poll(w) ==
  /\ wpc[w] = "poll"
  /\ wpc' = [wpc EXCEPT ![w] = IF exitRequest THEN "exited" ELSE "dequeue"]
  /\ UNCHANGED <<callerVars, ran, cur, reqVars, queueVars, closeVars, swapWork>>

\* Queue::dequeue returns NULL when the queue is empty.
BugAdvance == front' = front
Advance == front' = IntSucc(front)

Dequeue(w) ==
  /\ wpc[w] = "dequeue"
  /\ qlock = 0
  /\ \/ /\ Empty
        /\ wpc' = [wpc EXCEPT ![w] = "poll"]
        /\ UNCHANGED <<cur, front>>
     \/ /\ ~Empty /\ InArray(front)
        /\ cur' = [cur EXCEPT ![w] = q[Slot(front)]]
        /\ Advance
        /\ wpc' = [wpc EXCEPT ![w] = "work"]
     \/ /\ deleted \/ (~Empty /\ ~InArray(front))
        /\ wpc' = [wpc EXCEPT ![w] = "undefined"]
        /\ UNCHANGED <<cur, front>>
  /\ UNCHANGED <<callerVars, ran, reqVars, q, rear, qlock, closeVars, swapWork>>

\* do_work runs the bridge function of the call on the caller's buffer; index
\* -1 only wakes the swap thread.
Work(w) ==
  LET r == cur[w] IN
  /\ wpc[w] = "work"
  /\ ran' = [ran EXCEPT ![buffer[r]] = @ + 1]
  /\ swapWork' = (swapWork \/ index[r] = Async)
  /\ wpc' = [wpc EXCEPT ![w] = "unlock"]
  /\ UNCHANGED <<callerVars, cur, reqVars, queueVars, closeVars>>

\* spin_unlock(&req->is_done): the worker's last access to the request.
Unlocked(r) == isDone' = [isDone EXCEPT ![r] = 0]

Unlock(w) ==
  /\ wpc[w] = "unlock"
  /\ Unlocked(cur[w])
  /\ cur' = [cur EXCEPT ![w] = NoRequest]
  /\ wpc' = [wpc EXCEPT ![w] = "poll"]
  /\ UNCHANGED <<callerVars, ran, pool, index, buffer, queueVars, closeVars,
                 swapWork>>

\* close_rpc_worker asks the workers to leave and deletes the queue at once.
\* An access to it is then undefined: it finds the memory as it was, or
\* anything may follow.
Close ==
  /\ Closes /\ ~exitRequest
  /\ exitRequest' = TRUE
  /\ UNCHANGED <<callerVars, ran, workerVars, reqVars, queueVars, deleted, swapWork>>

Delete ==
  /\ exitRequest /\ ~deleted
  /\ deleted' = TRUE
  /\ UNCHANGED <<callerVars, ran, workerVars, reqVars, queueVars, exitRequest, swapWork>>

-----------------------------------------------------------------------------
\* abort() ends the process, and nothing is known after undefined behaviour.
Alive ==
  /\ \A c \in Callers : cpc[c] \notin {"abort", "undefined"}
  /\ \A w \in Workers : wpc[w] # "undefined"

CallerStep(c) == Alloc(c) \/ Enqueue(c) \/ Wait(c) \/ Free(c)
WorkerStep(w) == Poll(w) \/ Dequeue(w) \/ Work(w) \/ Unlock(w)

Next ==
  /\ Alive
  /\ \/ \E c \in Callers : CallerStep(c) \/ \E k \in Calls : Invoke(c, k)
     \/ \E w \in Workers : WorkerStep(w)
     \/ Close \/ Delete

Spec == Init /\ [][Next]_vars

\* Threads inside rpc_ocall and workers are always scheduled again; the queue's
\* critical sections are short, so an attempt to enter one eventually succeeds.
FairSpec ==
  /\ Spec
  /\ \A c \in Callers : WF_vars(Alive /\ CallerStep(c))
  /\ \A w \in Workers : WF_vars(Alive /\ WorkerStep(w))

-----------------------------------------------------------------------------
\* Type invariant.
TypeOK ==
  /\ cpc    \in [Callers -> {"idle", "alloc", "enqueue", "wait", "free", "abort",
                          "undefined"}]
  /\ req    \in [Callers -> Requests \cup {NoRequest}]
  /\ call   \in [Callers -> Calls \cup {Async}]
  /\ status \in [Callers -> {"none", "SGX_SUCCESS", "SGX_ERROR_OCALL_NOT_ALLOWED"}]
  /\ ran    \in [Callers -> {0, 1}]
  /\ wpc    \in [Workers -> {"poll", "dequeue", "work", "unlock", "exited", "undefined"}]
  /\ cur    \in [Workers -> Requests \cup {NoRequest}]
  /\ pool   \in SUBSET Requests
  /\ index  \in [Requests -> Calls \cup {Async}]
  /\ buffer \in [Requests -> Callers \cup {NoCaller}]
  /\ isDone \in [Requests -> {0, 1}]
  /\ q      \in [0 .. QueueSize - 1 -> Requests \cup {NoRequest}]
  /\ front  \in Int /\ rear \in Int /\ qlock \in {0, 1}
  /\ exitRequest \in BOOLEAN /\ deleted \in BOOLEAN /\ swapWork \in BOOLEAN

\* The queue never fills up under as many callers as it has slots, so enqueue
\* never aborts the process.
NeverAborts == \A c \in Callers : cpc[c] # "abort"

\* A request is in one place at a time: no two callers share one, and whatever
\* a worker works on, or the queue still holds, belongs to a caller that waits
\* for it, is locked, and is not free to be handed out again.  A worker never
\* touches a request that its caller has freed.
Outstanding(r) ==
  /\ r \notin pool
  /\ isDone[r] = 1
  /\ \E c \in Callers : cpc[c] = "wait" /\ req[c] = r /\ buffer[r] = c
RequestsExclusive ==
  /\ \A c, d \in Callers : req[c] = req[d] /\ req[c] # NoRequest => c = d
  /\ \A w \in Workers : wpc[w] \in {"work", "unlock"} => Outstanding(cur[w])
  /\ \A i \in front .. rear - 1 : Outstanding(q[Slot(i)])
  /\ \A v, w \in Workers : cur[v] = cur[w] /\ cur[v] # NoRequest => v = w

\* Calls are served while the queue's lock word is that of a free lock, the
\* queue is not being closed, and rear has not overflowed an int.
Up == qlock = 0 /\ ~exitRequest /\ rear >= 0

\* rpc_ocall implements a remote call that runs exactly once before it returns
\* success, never when it returns an error, and that returns while the service
\* is up.
Service == INSTANCE RpcService WITH busy <- [c \in Callers |-> cpc[c] # "idle"],
                                    up   <- Up
ImplementsService == Service!Spec

\* Every rpc_ocall that is made returns, as its comment on the request's lock
\* says: the consumer thread will unlock it.  It does not hold, see the README:
\* not once front and rear have overflowed, when enqueue writes outside the
\* array, and not with Closes, when close_rpc_worker leaves requests behind.
EveryCallReturns ==
  \A c \in Callers : cpc[c] # "idle" ~> cpc[c] = "idle"
=============================================================================
