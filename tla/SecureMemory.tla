---------------------------- MODULE SecureMemory ----------------------------
(***************************************************************************)
(* What SUVM promises the users of spointers: a flat memory, one word per  *)
(* page.  A thread asks for an access to one page and the access completes *)
(* on that page: a store replaces its word, a load returns the word last   *)
(* stored to it.  A word is undefined until something is stored to it, and *)
(* a load of an undefined word may return anything: the code returns what  *)
(* the frame held before.                                                  *)
(***************************************************************************)
CONSTANTS Threads, Pages, Values, Undef, NoOp

VARIABLES
  mem,    \* the word of each page
  want,   \* the access each thread has asked for: page and direction, or NoOp
  ret     \* what a thread's last load returned, until its next access

Init ==
  /\ mem  = [p \in Pages |-> Undef]
  /\ want = [t \in Threads |-> NoOp]
  /\ ret  = [t \in Threads |-> Undef]

\* Thread t asks for page p, to store to it or to load from it.
Begin(t, p, w) ==
  /\ want[t] = NoOp
  /\ want' = [want EXCEPT ![t] = <<p, w>>]
  /\ ret' = [ret EXCEPT ![t] = Undef]
  /\ UNCHANGED mem

\* The store thread t asked for, to its page p.
Write(t, p, v) ==
  /\ want[t] = <<p, TRUE>>
  /\ mem' = [mem EXCEPT ![p] = v]
  /\ want' = [want EXCEPT ![t] = NoOp]
  /\ UNCHANGED ret

\* The load thread t asked for, of its page p.
Read(t, p) ==
  /\ want[t] = <<p, FALSE>>
  /\ \E v \in Values :
       /\ mem[p] \in {v, Undef}
       /\ ret' = [ret EXCEPT ![t] = v]
  /\ want' = [want EXCEPT ![t] = NoOp]
  /\ UNCHANGED mem

Next == \E t \in Threads, p \in Pages :
  \/ \E w \in BOOLEAN : Begin(t, p, w)
  \/ \E v \in Values : Write(t, p, v)
  \/ Read(t, p)

Spec == Init /\ [][Next]_<<mem, want, ret>>
=============================================================================
