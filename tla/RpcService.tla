----------------------------- MODULE RpcService -----------------------------
(***************************************************************************)
(* What rpc_ocall promises an enclave thread: the call it makes runs       *)
(* exactly once in the untrusted process before rpc_ocall returns success, *)
(* not at all if it returns an error, and rpc_ocall does return as long as *)
(* the service is up.                                                      *)
(***************************************************************************)
EXTENDS Naturals

CONSTANT Callers

VARIABLES
  busy,   \* whether each thread is in rpc_ocall
  status, \* what its last call returned, "none" while it has not
  ran,    \* how often its current or last call has run
  up      \* whether calls are served

Init ==
  /\ busy = [c \in Callers |-> FALSE]
  /\ status = [c \in Callers |-> "none"]
  /\ ran  = [c \in Callers |-> 0]
  /\ up \in BOOLEAN

Invoke(c) ==
  /\ ~busy[c]
  /\ busy' = [busy EXCEPT ![c] = TRUE]
  /\ status' = [status EXCEPT ![c] = "none"]
  /\ ran'  = [ran EXCEPT ![c] = 0]
  /\ UNCHANGED up

Execute(c) ==
  /\ busy[c] /\ ran[c] = 0
  /\ ran' = [ran EXCEPT ![c] = 1]
  /\ UNCHANGED <<busy, status, up>>

\* Success is returned only after the call has run, an error only if it has not.
Return(c) ==
  /\ busy[c]
  /\ status' = [status EXCEPT ![c] = IF ran[c] = 1 THEN "SGX_SUCCESS"
                                     ELSE "SGX_ERROR_OCALL_NOT_ALLOWED"]
  /\ busy' = [busy EXCEPT ![c] = FALSE]
  /\ UNCHANGED <<ran, up>>

\* The service ends; calls may still run and return, but need not.
End ==
  /\ up /\ up' = FALSE
  /\ UNCHANGED <<busy, status, ran>>

Next ==
  \/ \E c \in Callers : Invoke(c) \/ Execute(c) \/ Return(c)
  \/ End

vars == <<busy, status, ran, up>>
Spec == Init /\ [][Next]_vars /\ \A c \in Callers : WF_vars(up /\ Return(c))
=============================================================================
