----------------------------- MODULE LaunchProofs -----------------------------
(***************************************************************************)
(* The host programs for any number of processes, threads and accesses:    *)
(* a token of the wrong length never reaches sgx_create_enclave, and the   *)
(* phases of a program do not overlap although its counters lose          *)
(* increments.                                                             *)
(*                                                                         *)
(* Processes share only the token files, so what concerns the phases is    *)
(* stated of the program k, the record P and the threads T of one process. *)
(***************************************************************************)
EXTENDS Launch, FiniteSetTheorems, TLAPS

Launching == {"open", "make", "read", "create", "reopen", "write", "launched", "ready"}
Working   == {"tested", "filled", "timing", "measured"}
Stages    == Launching \cup Working \cup Ended
             \cup {"suvm_tested", "sgx_tested", "destroyed"}
Tokens    == [for : Kinds \cup {"nobody", "torn", "mixed", "blank", "absent"}, no : Nat]
ProcRec ==
  [pc : Stages, fp : BOOLEAN, token : Tokens, type : 0..3,
   enclave : {"none", "live", "destroyed"}, lib : {"none", "live", "freed"}, items : 0..3,
   made : SUBSET Threads, start : Nat, finish : Nat, ops : Nat, lost : BOOLEAN, sane : BOOLEAN]
ThrRec ==
  [pc : {"none", "created", "count", "spin", "inside", "left", "done"}, seen : Nat,
   n : 0..AvgTimes]

LType ==
  /\ kind \in [Procs -> Kinds]
  /\ file \in [{"linux"} \cup Windows -> Tokens]
  /\ issued \in Nat /\ crashes \in Nat
  /\ proc \in [Procs -> ProcRec]
  /\ thr \in [Procs -> [Threads -> ThrRec]]

\* A process that reads has a file, one that writes has a token of its own, and
\* no token is newer than the last one issued.
IssuedToken(x) == x.for \in Kinds /\ x.no <= issued
TokenInv ==
  /\ \A f \in {"linux"} \cup Windows : file[f] \in {Absent, Blank, Torn, Mixed} \/ IssuedToken(file[f])
  /\ \A p \in Procs :
       /\ proc[p].token \in {Zero, Mixed} \/ IssuedToken(proc[p].token)
       /\ At(p, "read") => file[File(p)] # Absent
       /\ proc[p].pc \in {"reopen", "write"} => IssuedToken(proc[p].token)

\* What the main thread's stage says of the enclave, the library and the array.
StageInv(k, P) ==
  /\ (k = "rw") <=> (P.type # 0)
  /\ P.pc \in Launching => P.made = {}
  /\ P.made # {} => k \in {"rw", "samples"}
  /\ P.pc \in {"reopen", "write", "launched"} => P.enclave = "live"
  /\ P.pc \in {"ready"} \cup Working /\ P.type # 1 => P.enclave = "live" /\ P.lib = "live"
  /\ P.made # {} /\ P.type # 1 => P.enclave # "none" /\ P.lib # "none"
  /\ P.pc \in {"filled", "timing", "measured"} => k = "rw"
  /\ P.pc = "tested" => k = "samples"
  /\ k = "rw" /\ (P.made # {} \/ P.pc = "filled") => P.items = P.type
  /\ P.sane

\* The threads that have counted themselves, at the start and at the end, and the
\* accesses they have made.
Counted(T) == {t \in Threads : T[t].pc \in {"spin", "inside", "left", "done"}}
Done(T)    == {t \in Threads : T[t].pc = "done"}
Hits(T)    == {h \in Threads \X (1..AvgTimes) : h[2] <= T[h[1]].n}

\* The counters are never ahead of the threads: a lost increment only leaves one
\* behind.  So is the value a thread has read and not yet written back.
CounterInv(k, P, T) ==
  /\ \A t \in Threads : (t \in P.made) <=> (T[t].pc # "none")
  /\ \A t \in Threads : T[t].pc = "none" => T[t].n = 0
  /\ P.start <= Cardinality(Counted(T)) /\ P.finish <= Cardinality(Done(T))
  /\ \A t \in Threads : T[t].pc = "count" => T[t].seen <= Cardinality(Counted(T))
  /\ \A t \in Threads : T[t].pc = "left" => T[t].seen <= Cardinality(Done(T))
  /\ (\E t \in Threads : T[t].pc \in {"inside", "left", "done"}) => Counted(T) = Threads
  /\ P.type # 1 => P.ops = Cardinality(Hits(T))
  /\ k = "rw" => \A t \in Threads : T[t].pc = "done" => T[t].n = AvgTimes

\* Once the threads are no longer waited for, all of them are done.
Over(P) == P.enclave = "destroyed" \/ P.lib = "freed" \/ P.pc \in {"measured", "destroyed"}
OverInv(k, P, T) == Over(P) /\ k \in {"rw", "samples"} => Done(T) = Threads

PhaseInv(k, P, T) == StageInv(k, P) /\ CounterInv(k, P, T) /\ OverInv(k, P, T)
PhasesInv == \A p \in Procs : PhaseInv(kind[p], proc[p], thr[p])
LInv == LType /\ TokenInv /\ PhasesInv

-----------------------------------------------------------------------------
\* A step of the main thread that creates no thread leaves the counters alone, and
\* ends the program's work only when the last thread was counted.
SameCounts(P, Q) ==
  /\ Q.made = P.made /\ Q.start = P.start /\ Q.finish = P.finish
  /\ Q.ops = P.ops /\ Q.type = P.type
MainMove(k, P, Q) ==
  /\ SameCounts(P, Q)
  /\ StageInv(k, Q)
  /\ Over(Q) /\ k \in {"rw", "samples"} => Over(P) \/ P.finish >= N

\* The process p takes the step from proc[p] to Q alone.
Moves(p, Q) == Q \in ProcRec /\ Set(p, Q) /\ UNCHANGED <<kind, thr>>

\* The steps of initialize_enclave.
LEMMA LaunchMoves ==
  ASSUME LInv, NEW p \in Procs, NEW saved \in {"reopen", "write"},
         \/ OpenToken(p) \/ MakeToken(p) \/ ReadToken(p) \/ CreateEnclave(p, saved)
         \/ ReopenToken(p) \/ WriteToken(p) \/ WinOpenToken(p) \/ query_sgx_status(p)
  PROVE  \E Q : Moves(p, Q) /\ MainMove(kind[p], proc[p], Q)
<1> DEFINE k == kind[p]
           P == proc[p]
<1>1. P \in ProcRec /\ StageInv(k, P) /\ k \in Kinds
  BY DEF LInv, LType, PhasesInv, PhaseInv
<1>2. /\ file \in [{"linux"} \cup Windows -> Tokens] /\ File(p) \in {"linux"} \cup Windows
      /\ issued \in Nat /\ Zero \in Tokens
  BY DEF LInv, LType, Kinds, File, Zero, Tokens
<1> HIDE DEF k, P
<1> USE DEF ProcRec, StageInv, MainMove, SameCounts, Over, Stages, Launching, Working, Ended
<1> DEFINE Fine(Q) == Q \in ProcRec /\ MainMove(k, P, Q)
<1>3. ASSUME NEW x \in {"read", "create", "failed"}, NEW b \in BOOLEAN,
             P.pc \in {"open", "make", "create"}
      PROVE  Fine([P EXCEPT !.pc = x, !.fp = b])
  BY <1>1, <1>3, ZenonT(60)
<1>4. ASSUME NEW x \in {"failed", "make"}, P.pc = "open"
      PROVE  Fine([P EXCEPT !.pc = x])
  BY <1>1, <1>4
<1>5. ASSUME NEW y \in Tokens, P.pc = "read"
      PROVE  Fine([P EXCEPT !.pc = "create", !.token = y])
  BY <1>1, <1>5
<1>6. ASSUME P.pc = "create"
      PROVE  Fine([P EXCEPT !.pc = "launched", !.fp = FALSE, !.enclave = "live"])
  BY <1>1, <1>6, ZenonT(60)
<1>7. ASSUME P.pc = "create", NEW x \in {"launched", "reopen", "write"}, NEW y \in Tokens
      PROVE  Fine([P EXCEPT !.pc = x, !.enclave = "live", !.token = y])
  BY <1>1, <1>7
<1>8. ASSUME P.pc \in {"reopen", "write"}
      PROVE  Fine([P EXCEPT !.pc = "launched", !.fp = FALSE])
  BY <1>1, <1>8
<1>9. ASSUME P.pc = "reopen"
      PROVE  Fine([P EXCEPT !.pc = "write"])
  BY <1>1, <1>9
<1> HIDE DEF Fine, ProcRec, StageInv, MainMove, SameCounts, Over, Stages, Launching, Working, Ended
<1>10. SUFFICES \E Q : Fine(Q) /\ Set(p, Q) /\ UNCHANGED <<kind, thr>>
  BY DEF Fine, Moves, k, P
<1> USE DEF P, Same, At, Goto
<1>11. CASE OpenToken(p) \/ MakeToken(p) \/ WinOpenToken(p)
  BY <1>3, <1>4, <1>11 DEF OpenToken, MakeToken, WinOpenToken
<1>12. CASE ReadToken(p)
  <2>1. WholeToken(file[File(p)]) \in Tokens
    BY <1>2 DEF WholeToken
  <2> QED BY <1>5, <1>12, <2>1 DEF ReadToken
<1>13. CASE CreateEnclave(p, saved)
  <2>1. [for |-> kind[p], no |-> issued + 1] \in Tokens
    BY <1>1, <1>2 DEF Tokens, k
  <2>2. (IF P.fp THEN saved ELSE "launched") \in {"launched", "reopen", "write"}
    OBVIOUS
  <2> QED BY <1>3, <1>6, <1>7, <1>13, <2>1, <2>2 DEF CreateEnclave
<1>14. CASE ReopenToken(p) \/ WriteToken(p)
  BY <1>8, <1>9, <1>14 DEF ReopenToken, WriteToken
<1>15. CASE query_sgx_status(p)
  BY <1>4, <1>15 DEF query_sgx_status
<1> QED BY <1>11, <1>12, <1>13, <1>14, <1>15

\* The main thread creates a thread.
Creates(p) ==
  \E t \in Threads \ proc[p].made :
    /\ proc[p].pc \in {"tested", "filled"} /\ kind[p] \in {"rw", "samples"}
    /\ Set(p, [proc[p] EXCEPT !.made = proc[p].made \cup {t}])
    /\ ThrGoto(p, t, "created") /\ Keep

\* A step that has nothing to do with the token.
Quiet(P, Q) == Q.token = P.token /\ Q.pc \notin {"read", "reopen", "write"}

\* initialize_lib, the Windows programs, the servers' last step here, and the main
\* threads of the tests and of the microbenchmark.
LEMMA MainMoves ==
  ASSUME LInv, NEW p \in Procs,
         Serve(p) \/ WinLibInitialize(p) \/ wintest_main(p) \/ samples_main(p) \/ rw_main(p)
  PROVE  \/ \E Q : /\ Moves(p, Q) /\ MainMove(kind[p], proc[p], Q)
                   /\ Quiet(proc[p], Q) /\ Keep
         \/ Creates(p)
<1> DEFINE k == kind[p]
           P == proc[p]
<1>1. P \in ProcRec /\ StageInv(k, P) /\ k \in Kinds
  BY DEF LInv, LType, PhasesInv, PhaseInv
<1> HIDE DEF k, P
<1> USE DEF ProcRec, StageInv, MainMove, SameCounts, Quiet, Over, Stages, Launching, Working, Ended
<1> DEFINE Fine(Q) == Q \in ProcRec /\ MainMove(k, P, Q) /\ Quiet(P, Q)
<1>2. ASSUME P.pc = "launched"
      PROVE  Fine([P EXCEPT !.pc = "ready", !.lib = "live"])
  BY <1>1, <1>2
<1>3. ASSUME NEW x \in {"failed", "aborted", "crashed", "serving", "suvm_tested", "sgx_tested"}
      PROVE  Fine([P EXCEPT !.pc = x])
  BY <1>1, <1>3
<1>4. ASSUME P.pc = "sgx_tested", k = "wintest"
      PROVE  Fine([P EXCEPT !.pc = "done", !.enclave = "destroyed"])
  BY <1>1, <1>4
<1>5. ASSUME P.pc = "ready", k = "samples"
      PROVE  Fine([P EXCEPT !.pc = "tested"])
  BY <1>1, <1>5
<1>6. ASSUME NEW e, (P.pc = "tested" /\ P.finish >= N) \/ P.pc = "measured",
             e \in {"none", "destroyed"}, e = "none" => P.type = 1
      PROVE  Fine([P EXCEPT !.pc = "destroyed", !.enclave = e])
  BY <1>1, <1>6
<1>7. ASSUME P.pc = "destroyed"
      PROVE  Fine([P EXCEPT !.pc = "done", !.lib = "freed"])
  BY <1>1, <1>7
<1>8. ASSUME NEW x \in 1..3, P.pc = "ready", P.type = x, k = "rw"
      PROVE  Fine([P EXCEPT !.pc = "filled", !.items = x])
  BY <1>1, <1>8
<1>9. ASSUME P.pc = "open", P.type = 1
      PROVE  Fine([P EXCEPT !.pc = "ready"])
  BY <1>1, <1>9
<1>10. ASSUME P.pc = "filled"
      PROVE  Fine([P EXCEPT !.pc = "timing"])
  BY <1>1, <1>10
<1>11. ASSUME P.pc = "timing", P.finish >= N
      PROVE  Fine([P EXCEPT !.pc = "measured"])
  BY <1>1, <1>11
<1> HIDE DEF Fine, ProcRec, StageInv, MainMove, SameCounts, Quiet, Over, Stages, Launching, Working, Ended
<1>12. SUFFICES \/ \E Q : Fine(Q) /\ Set(p, Q) /\ Same
                \/ Creates(p)
  BY DEF Fine, Moves, Same, Keep, k, P
<1> USE DEF P, k, Same, Keep, At, Goto
<1>13. CASE initialize_lib(p)
  BY <1>2, <1>3, <1>13 DEF initialize_lib
<1>14. CASE Serve(p)
  BY <1>3, <1>13, <1>14 DEF Serve
<1>15. CASE WinLibInitialize(p)
  BY <1>2, <1>3, <1>15 DEF WinLibInitialize
<1>16. CASE wintest_main(p)
  BY <1>3, <1>4, <1>16 DEF wintest_main
<1>17. ASSUME NEW from \in {"tested", "filled"}, k \in {"rw", "samples"}, StartThreads(p, from)
       PROVE  (\E Q : Fine(Q) /\ Set(p, Q) /\ Same) \/ Creates(p)
  <2>1. CASE At(p, from) /\ P.made # Threads /\ Goto(p, "failed") /\ Same
    BY <1>3, <2>1
  <2>2. CASE ~(At(p, from) /\ P.made # Threads /\ Goto(p, "failed") /\ Same)
    <3> DEFINE t == CHOOSE x \in Threads \ P.made : TRUE
    <3>1. /\ At(p, from) /\ P.made # Threads /\ Keep
          /\ Set(p, [P EXCEPT !.made = P.made \cup {t}]) /\ ThrGoto(p, t, "created")
      BY <1>17, <2>2 DEF StartThreads
    <3>2. P.made \subseteq Threads
      BY <1>1 DEF ProcRec
    <3>3. t \in Threads \ P.made
      BY <3>1, <3>2
    <3> QED BY <1>17, <3>1, <3>3 DEF Creates
  <2> QED BY <2>1, <2>2
<1>18. CASE cleanup_lib(p)
  BY <1>7, <1>18 DEF cleanup_lib
<1>19. CASE samples_main(p)
  BY <1>3, <1>5, <1>6, <1>13, <1>17, <1>18, <1>19 DEF samples_main, Destroyed, AllFinished
<1>20. CASE rw_main(p)
  <2>1. CASE preprocess_native(p) \/ preprocess_memset_regular(p) \/ preprocess_memset_aptr(p)
    BY <1>8, <1>20, <2>1
       DEF rw_main, Fill, preprocess_native, preprocess_memset_regular, preprocess_memset_aptr
  <2>2. CASE StartThreads(p, "filled") \/ initialize_lib(p) \/ cleanup_lib(p)
    BY <1>13, <1>17, <1>18, <1>20, <2>2 DEF rw_main
  <2>3. CASE At(p, "measured") /\ proc[p].lib = "live"
             /\ Set(p, [proc[p] EXCEPT !.pc = "destroyed", !.enclave = Destroyed(p)]) /\ Same
    BY <1>6, <2>3 DEF Destroyed
  <2> QED BY <1>3, <1>9, <1>10, <1>11, <1>20, <2>1, <2>2, <2>3 DEF rw_main, AllFinished
<1> QED BY <1>14, <1>15, <1>16, <1>19, <1>20

-----------------------------------------------------------------------------
\* The sets the counters are compared with.
LEMMA Sets ==
  ASSUME NEW T
  PROVE  /\ IsFiniteSet(Counted(T)) /\ Cardinality(Counted(T)) \in Nat
         /\ IsFiniteSet(Done(T)) /\ Cardinality(Done(T)) \in Nat
         /\ IsFiniteSet(Hits(T)) /\ Cardinality(Hits(T)) \in Nat
<1>1. IsFiniteSet(Threads) /\ IsFiniteSet(1..AvgTimes)
  BY LaunchAssumption, FS_Interval
<1>2. IsFiniteSet(Threads \X (1..AvgTimes))
  BY <1>1, FS_Product
<1>3. Counted(T) \subseteq Threads /\ Done(T) \subseteq Threads
  BY DEF Counted, Done
<1>4. Hits(T) \subseteq Threads \X (1..AvgTimes)
  BY DEF Hits
<1>5. IsFiniteSet(Counted(T)) /\ IsFiniteSet(Done(T))
  BY <1>1, <1>3, FS_Subset
<1>6. IsFiniteSet(Hits(T))
  BY <1>2, <1>4, FS_Subset
<1> QED BY <1>5, <1>6, FS_CardinalityType

\* A counter that has reached the number of threads has counted all of them.
LEMMA AllCounted ==
  ASSUME NEW S, S \subseteq Threads, NEW c \in Nat, c >= N, c <= Cardinality(S)
  PROVE  S = Threads
<1>1. IsFiniteSet(Threads) /\ N = Cardinality(Threads)
  BY LaunchAssumption DEF N
<1>2. /\ IsFiniteSet(S) /\ Cardinality(S) <= Cardinality(Threads)
      /\ Cardinality(S) = Cardinality(Threads) => S = Threads
  BY <1>1, FS_Subset
<1>3. Cardinality(S) \in Nat /\ Cardinality(Threads) \in Nat
  BY <1>1, <1>2, FS_CardinalityType
<1> QED BY <1>1, <1>2, <1>3

\* A step of the main thread that only moves from one stage to the next.
LEMMA MainKeeps ==
  ASSUME NEW k, NEW P \in ProcRec, NEW Q \in ProcRec, NEW T,
         PhaseInv(k, P, T), MainMove(k, P, Q)
  PROVE  PhaseInv(k, Q, T)
<1>1. StageInv(k, Q)
  BY DEF MainMove
<1>2. CounterInv(k, Q, T)
  BY DEF PhaseInv, CounterInv, MainMove, SameCounts
<1>3. ASSUME P.finish >= N PROVE Done(T) = Threads
  <2>1. P.finish \in Nat /\ P.finish <= Cardinality(Done(T)) /\ Done(T) \subseteq Threads
    BY DEF PhaseInv, CounterInv, ProcRec, Done
  <2> QED BY <1>3, <2>1, AllCounted
<1>4. OverInv(k, Q, T)
  BY <1>3 DEF PhaseInv, OverInv, MainMove
<1> QED BY <1>1, <1>2, <1>4 DEF PhaseInv

\* No thread has been created: the sets are empty.
LEMMA NoneMade ==
  ASSUME NEW T \in [Threads -> ThrRec],
         \A t \in Threads : T[t].pc = "none" /\ T[t].n = 0
  PROVE  Counted(T) = {} /\ Done(T) = {} /\ Hits(T) = {} /\ Cardinality({}) = 0
<1>1. Counted(T) = {} /\ Done(T) = {}
  BY DEF Counted, Done
<1>2. ASSUME NEW h \in Threads \X (1..AvgTimes), h[2] <= T[h[1]].n PROVE FALSE
  <2>1. h[1] \in Threads /\ h[2] \in 1..AvgTimes
    OBVIOUS
  <2>2. T[h[1]].n = 0
    BY <2>1
  <2> QED BY <1>2, <2>1, <2>2
<1>3. Hits(T) = {}
  BY <1>2 DEF Hits
<1> QED BY <1>1, <1>3, FS_EmptySet

\* A process that is killed while it launches starts again without threads.
LEMMA CrashKeeps ==
  ASSUME NEW k \in Kinds, NEW P \in ProcRec, NEW T \in [Threads -> ThrRec],
         PhaseInv(k, P, T), P.pc \in Launching
  PROVE  LET Q == [NewProc EXCEPT !.type = @ + P.type]
         IN  Q \in ProcRec /\ PhaseInv(k, Q, T)
<1> DEFINE Q == [NewProc EXCEPT !.type = @ + P.type]
<1>1. P.type \in 0..3 /\ P.made = {}
  BY DEF PhaseInv, StageInv, ProcRec
<1>2. \A t \in Threads : T[t].pc = "none" /\ T[t].n = 0
  BY <1>1 DEF PhaseInv, CounterInv
<1>3. NewProc.type + P.type = P.type /\ NewProc \in ProcRec
  <2>1. NewProc.type = 0 /\ NewProc \in ProcRec
    BY DEF NewProc, ProcRec, Stages, Launching, Tokens, Zero
  <2> QED BY <1>1, <2>1
<1>4. /\ Q.pc = "open" /\ Q.type = P.type /\ Q.enclave = "none"
      /\ Q.lib = "none" /\ Q.items = 0 /\ Q.made = {} /\ Q.start = 0 /\ Q.finish = 0
      /\ Q.ops = 0 /\ Q.sane = TRUE
  BY <1>3 DEF NewProc
<1>5. Q \in ProcRec
  <2> HIDE DEF NewProc
  <2>1. Q = [NewProc EXCEPT !.type = P.type]
    BY <1>3 DEF ProcRec
  <2> QED BY <1>1, <1>3, <2>1 DEF ProcRec
<1> HIDE DEF Q
<1>6. StageInv(k, Q)
  BY <1>1, <1>4 DEF StageInv, PhaseInv, Launching, Working
<1>7. CounterInv(k, Q, T)
  <2>1. Counted(T) = {} /\ Done(T) = {} /\ Hits(T) = {} /\ Cardinality({}) = 0
    BY <1>2, NoneMade
  <2>2. \A t \in Threads : T[t].pc \notin {"count", "inside", "left", "done"}
    BY <1>2
  <2> QED BY <1>2, <1>4, <2>1, <2>2 DEF CounterInv
<1>8. OverInv(k, Q, T)
  BY <1>4 DEF OverInv, Over
<1> QED BY <1>5, <1>6, <1>7, <1>8 DEF PhaseInv, Q

\* The main thread creates one more thread.
LEMMA CreateKeeps ==
  ASSUME NEW k \in {"rw", "samples"}, NEW P \in ProcRec, NEW T \in [Threads -> ThrRec],
         NEW t \in Threads \ P.made, PhaseInv(k, P, T), P.pc \in {"tested", "filled"}
  PROVE  LET Q == [P EXCEPT !.made = P.made \cup {t}]
             U == [T EXCEPT ![t] = [T[t] EXCEPT !.pc = "created"]]
         IN  Q \in ProcRec /\ U \in [Threads -> ThrRec] /\ PhaseInv(k, Q, U)
<1> DEFINE Q == [P EXCEPT !.made = P.made \cup {t}]
           U == [T EXCEPT ![t] = [T[t] EXCEPT !.pc = "created"]]
<1>1. T[t].pc = "none" /\ T[t].n = 0 /\ T[t] \in ThrRec
  BY DEF PhaseInv, CounterInv
<1>2. Q \in ProcRec
  BY DEF ProcRec
<1>3. [T[t] EXCEPT !.pc = "created"] \in ThrRec
  BY <1>1 DEF ThrRec
<1>4. U \in [Threads -> ThrRec]
  BY <1>3
<1>5. /\ U[t].pc = "created" /\ U[t].n = 0
      /\ \A x \in Threads : x # t => U[x] = T[x]
  BY <1>1 DEF ThrRec
<1>6. /\ Q.made = P.made \cup {t}
      /\ Q.type = P.type /\ Q.start = P.start /\ Q.finish = P.finish /\ Q.ops = P.ops
      /\ Q.pc = P.pc /\ Q.enclave = P.enclave /\ Q.lib = P.lib /\ Q.items = P.items
      /\ Q.sane = P.sane
  BY DEF ProcRec
<1> HIDE DEF Q, U
<1>7. Counted(U) = Counted(T) /\ Done(U) = Done(T) /\ t \notin Counted(T) /\ t \notin Done(T)
  BY <1>1, <1>5 DEF Counted, Done
<1>8. Hits(U) = Hits(T)
  <2>1. \A x \in Threads : U[x].n = T[x].n
    BY <1>1, <1>5
  <2> QED BY <2>1 DEF Hits
<1>9. StageInv(k, Q)
  BY <1>6 DEF PhaseInv, StageInv, Launching, Working
<1>10. \A x \in Threads : T[x].pc \notin {"inside", "left", "done"}
  BY <1>7 DEF PhaseInv, CounterInv
<1>11. CounterInv(k, Q, U)
  BY <1>5, <1>6, <1>7, <1>8, <1>10 DEF PhaseInv, CounterInv
<1>12. OverInv(k, Q, U)
  BY <1>6, <1>7 DEF PhaseInv, OverInv, Over
<1> QED BY <1>2, <1>4, <1>9, <1>11, <1>12 DEF PhaseInv, Q, U

\* A step of one thread that keeps the main thread's stage: what is left is the
\* counters.
SameStage(P, Q) ==
  /\ Q.made = P.made /\ Q.type = P.type /\ Q.pc = P.pc /\ Q.enclave = P.enclave
  /\ Q.lib = P.lib /\ Q.items = P.items

\* A step of a thread that is counted right keeps the rest.
LEMMA ThreadKeeps ==
  ASSUME NEW k, NEW P \in ProcRec, NEW Q, NEW T, NEW U, NEW t \in Threads,
         PhaseInv(k, P, T), T[t].pc \notin {"none", "done"},
         SameStage(P, Q), P.sane => Q.sane, CounterInv(k, Q, U)
  PROVE  PhaseInv(k, Q, U)
<1>1. StageInv(k, Q)
  BY DEF PhaseInv, StageInv, SameStage
<1>2. t \notin Done(T) /\ t \in P.made
  BY DEF PhaseInv, CounterInv, Done
<1>3. k \in {"rw", "samples"} /\ ~Over(P)
  BY <1>2 DEF PhaseInv, StageInv, OverInv
<1>4. ~Over(Q)
  BY <1>3 DEF Over, SameStage
<1> QED BY <1>1, <1>4 DEF PhaseInv, OverInv

\* What a step of t from T[t] to r does to the threads and to the three sets.
SetsMove(T, t, r, U) ==
  /\ U \in [Threads -> ThrRec]
  /\ U[t] = r /\ \A x \in Threads : x # t => U[x] = T[x]
  /\ (t \in Counted(T)) <=> (T[t].pc \in {"spin", "inside", "left", "done"})
  /\ Counted(U) = IF r.pc \in {"spin", "inside", "left", "done"}
                  THEN Counted(T) \cup {t} ELSE Counted(T) \ {t}
  /\ (t \in Done(T)) <=> (T[t].pc = "done")
  /\ Done(U) = IF r.pc = "done" THEN Done(T) \cup {t} ELSE Done(T) \ {t}
  /\ r.n = T[t].n => Hits(U) = Hits(T)

\* How a step of one thread changes the sets that are counted.
LEMMA SetsNext ==
  ASSUME NEW T \in [Threads -> ThrRec], NEW t \in Threads, NEW r \in ThrRec
  PROVE  SetsMove(T, t, r, [T EXCEPT ![t] = r])
<1> DEFINE U == [T EXCEPT ![t] = r]
<1>1. U \in [Threads -> ThrRec] /\ U[t] = r /\ \A x \in Threads : x # t => U[x] = T[x]
  OBVIOUS
<1> HIDE DEF U
<1>2. Counted(U) = IF r.pc \in {"spin", "inside", "left", "done"}
                   THEN Counted(T) \cup {t} ELSE Counted(T) \ {t}
  BY <1>1 DEF Counted
<1>3. Done(U) = IF r.pc = "done" THEN Done(T) \cup {t} ELSE Done(T) \ {t}
  BY <1>1 DEF Done
<1>4. ASSUME r.n = T[t].n PROVE Hits(U) = Hits(T)
  <2>1. \A x \in Threads : U[x].n = T[x].n
    BY <1>1, <1>4
  <2> QED BY <2>1 DEF Hits
<1> QED BY <1>1, <1>2, <1>3, <1>4 DEF SetsMove, Counted, Done, U

\* A thread reads thread_start.
LEMMA ReadStartKeeps ==
  ASSUME NEW k, NEW P \in ProcRec, NEW T \in [Threads -> ThrRec], NEW t \in Threads,
         PhaseInv(k, P, T), T[t].pc = "created"
  PROVE  LET U == [T EXCEPT ![t] = [T[t] EXCEPT !.pc = "count", !.seen = P.start]]
         IN  U \in [Threads -> ThrRec] /\ PhaseInv(k, P, U)
<1> DEFINE r == [T[t] EXCEPT !.pc = "count", !.seen = P.start]
           U == [T EXCEPT ![t] = r]
<1>1. T[t] \in ThrRec /\ P.start \in Nat
  BY DEF ProcRec
<1>2. r \in ThrRec /\ r.pc = "count" /\ r.seen = P.start /\ r.n = T[t].n
  BY <1>1 DEF ThrRec
<1>u. SetsMove(T, t, r, U)
  <2> HIDE DEF r
  <2> QED BY <1>2, SetsNext
<1> HIDE DEF r, U
<1>3. /\ U \in [Threads -> ThrRec] /\ U[t] = r /\ \A x \in Threads : x # t => U[x] = T[x]
      /\ Counted(U) = Counted(T) /\ Done(U) = Done(T) /\ Hits(U) = Hits(T) /\ t \notin Counted(T)
  BY <1>2, <1>u DEF SetsMove
<1>4. \A x \in Threads : T[x].pc \notin {"inside", "left", "done"}
  BY <1>3 DEF PhaseInv, CounterInv
<1>5. CounterInv(k, P, U)
  BY <1>2, <1>3, <1>4 DEF PhaseInv, CounterInv
<1>6. SameStage(P, P)
  BY DEF SameStage
<1>7. PhaseInv(k, P, U)
  BY <1>5, <1>6, ThreadKeeps
<1> QED BY <1>3, <1>7 DEF U, r

\* A thread writes thread_start back: at most the number of threads that have done so.
LEMMA WriteStartKeeps ==
  ASSUME NEW k, NEW P \in ProcRec, NEW T \in [Threads -> ThrRec], NEW t \in Threads,
         PhaseInv(k, P, T), T[t].pc = "count"
  PROVE  LET Q == [P EXCEPT !.start = T[t].seen + 1, !.lost = P.lost \/ P.start # T[t].seen]
             U == [T EXCEPT ![t] = [T[t] EXCEPT !.pc = "spin"]]
         IN  Q \in ProcRec /\ U \in [Threads -> ThrRec] /\ PhaseInv(k, Q, U)
<1> DEFINE Q == [P EXCEPT !.start = T[t].seen + 1, !.lost = P.lost \/ P.start # T[t].seen]
           r == [T[t] EXCEPT !.pc = "spin"]
           U == [T EXCEPT ![t] = r]
<1>1. T[t] \in ThrRec /\ T[t].seen \in Nat
  BY DEF ThrRec
<1>2. r \in ThrRec /\ r.pc = "spin" /\ r.n = T[t].n
  BY <1>1 DEF ThrRec
<1>3. Q \in ProcRec /\ SameStage(P, Q) /\ Q.sane = P.sane /\ Q.start = T[t].seen + 1
      /\ Q.finish = P.finish /\ Q.ops = P.ops
  <2> DEFINE b == P.lost \/ P.start # T[t].seen
  <2>1. b \in BOOLEAN
    OBVIOUS
  <2>2. Q = [P EXCEPT !.start = T[t].seen + 1, !.lost = b]
    OBVIOUS
  <2> HIDE DEF b, Q
  <2>3. T[t].seen + 1 \in Nat
    BY <1>1
  <2> QED BY <2>1, <2>2, <2>3 DEF ProcRec, SameStage
<1>u. SetsMove(T, t, r, U)
  <2> HIDE DEF r
  <2> QED BY <1>2, SetsNext
<1> HIDE DEF r, Q, U
<1>4. /\ U \in [Threads -> ThrRec] /\ U[t] = r /\ \A x \in Threads : x # t => U[x] = T[x]
      /\ Counted(U) = Counted(T) \cup {t} /\ Done(U) = Done(T) /\ Hits(U) = Hits(T)
      /\ t \notin Counted(T)
  BY <1>2, <1>u DEF SetsMove
<1>5. \A x \in Threads : T[x].pc \notin {"inside", "left", "done"}
  BY <1>4 DEF PhaseInv, CounterInv
<1>6. /\ Cardinality(Counted(U)) = Cardinality(Counted(T)) + 1
      /\ Cardinality(Counted(T)) \in Nat
  BY <1>4, Sets, FS_AddElement
<1>7. Q.start <= Cardinality(Counted(U))
  BY <1>1, <1>3, <1>6 DEF PhaseInv, CounterInv
<1>8. \A x \in Threads : U[x].pc = "count" => U[x].seen <= Cardinality(Counted(U))
  <2> SUFFICES ASSUME NEW x \in Threads, U[x].pc = "count" PROVE U[x].seen <= Cardinality(Counted(U))
    OBVIOUS
  <2>1. x # t /\ T[x].pc = "count" /\ U[x] = T[x]
    BY <1>2, <1>4
  <2>2. T[x].seen <= Cardinality(Counted(T)) /\ T[x].seen \in Nat
    BY <2>1 DEF PhaseInv, CounterInv, ThrRec
  <2> QED BY <1>6, <2>1, <2>2
<1>9. CounterInv(k, Q, U)
  BY <1>2, <1>3, <1>4, <1>5, <1>7, <1>8 DEF PhaseInv, CounterInv, SameStage
<1>10. PhaseInv(k, Q, U)
  BY <1>3, <1>9, ThreadKeeps
<1> QED BY <1>3, <1>4, <1>10 DEF U, r, Q

\* A thread that sees all started enters, and all have started.
LEMMA EnterKeeps ==
  ASSUME NEW k, NEW P \in ProcRec, NEW T \in [Threads -> ThrRec], NEW t \in Threads,
         PhaseInv(k, P, T), T[t].pc = "spin", P.start >= N
  PROVE  LET U == [T EXCEPT ![t] = [T[t] EXCEPT !.pc = "inside"]]
         IN  U \in [Threads -> ThrRec] /\ PhaseInv(k, P, U)
<1> DEFINE r == [T[t] EXCEPT !.pc = "inside"]
           U == [T EXCEPT ![t] = r]
<1>1. T[t] \in ThrRec /\ P.start \in Nat
  BY DEF ProcRec
<1>2. r \in ThrRec /\ r.pc = "inside" /\ r.n = T[t].n
  BY <1>1 DEF ThrRec
<1>u. SetsMove(T, t, r, U)
  <2> HIDE DEF r
  <2> QED BY <1>2, SetsNext
<1> HIDE DEF r, U
<1>3. /\ U \in [Threads -> ThrRec] /\ U[t] = r /\ \A x \in Threads : x # t => U[x] = T[x]
      /\ Counted(U) = Counted(T) /\ Done(U) = Done(T) /\ Hits(U) = Hits(T)
  BY <1>2, <1>u DEF SetsMove
<1>4. Counted(T) = Threads
  <2>1. Counted(T) \subseteq Threads /\ P.start <= Cardinality(Counted(T))
    BY DEF Counted, PhaseInv, CounterInv
  <2> QED BY <1>1, <2>1, AllCounted
<1>5. CounterInv(k, P, U)
  BY <1>2, <1>3, <1>4 DEF PhaseInv, CounterInv
<1>6. SameStage(P, P)
  BY DEF SameStage
<1>7. PhaseInv(k, P, U)
  BY <1>5, <1>6, ThreadKeeps
<1> QED BY <1>3, <1>7 DEF U, r

\* One access more: one pair more of a thread and a number.
LEMMA AccessKeeps ==
  ASSUME NEW k, k = "rw", NEW P \in ProcRec, NEW T \in [Threads -> ThrRec], NEW t \in Threads,
         PhaseInv(k, P, T), T[t].pc = "inside", T[t].n < AvgTimes,
         NEW c \in {0, 1}, P.type # 1 => c = 1
  PROVE  LET Q == [P EXCEPT !.ops = P.ops + c, !.sane = P.sane /\ P.items = P.type]
             U == [T EXCEPT ![t] = [T[t] EXCEPT !.n = T[t].n + 1]]
         IN  Q \in ProcRec /\ U \in [Threads -> ThrRec] /\ PhaseInv(k, Q, U)
<1> DEFINE Q == [P EXCEPT !.ops = P.ops + c, !.sane = P.sane /\ P.items = P.type]
           r == [T[t] EXCEPT !.n = T[t].n + 1]
           U == [T EXCEPT ![t] = r]
           h == <<t, T[t].n + 1>>
<1>1. T[t] \in ThrRec /\ T[t].n \in Nat /\ AvgTimes \in Nat /\ P.ops \in Nat
  BY LaunchAssumption DEF ThrRec, ProcRec
<1>2. r \in ThrRec /\ r.pc = "inside" /\ r.n = T[t].n + 1 /\ r.n \in 1..AvgTimes
  <2>1. T[t].n + 1 \in 0..AvgTimes /\ T[t].n + 1 \in 1..AvgTimes
    BY <1>1
  <2> QED BY <1>1, <2>1 DEF ThrRec
<1>3. Q \in ProcRec /\ SameStage(P, Q) /\ Q.start = P.start /\ Q.finish = P.finish
      /\ Q.ops = P.ops + c /\ Q.sane = TRUE
  <2>1. P.sane /\ P.items = P.type
    BY DEF PhaseInv, StageInv, CounterInv
  <2>2. Q = [P EXCEPT !.ops = P.ops + c, !.sane = TRUE]
    BY <2>1
  <2> HIDE DEF Q
  <2>3. P.ops + c \in Nat
    BY <1>1
  <2> QED BY <2>2, <2>3 DEF ProcRec, SameStage
<1>u. SetsMove(T, t, r, U)
  <2> HIDE DEF r
  <2> QED BY <1>2, SetsNext
<1> HIDE DEF r, Q, U
<1>4. /\ U \in [Threads -> ThrRec] /\ U[t] = r /\ \A x \in Threads : x # t => U[x] = T[x]
      /\ Counted(U) = Counted(T) /\ Done(U) = Done(T)
  BY <1>2, <1>u DEF SetsMove
<1>5. Hits(U) = Hits(T) \cup {h} /\ h \notin Hits(T)
  <2>1. h \notin Hits(T)
    BY <1>1 DEF Hits
  <2>2. h \in Hits(U)
    BY <1>2, <1>4 DEF Hits
  <2>3. ASSUME NEW a \in Threads, NEW i \in 1..AvgTimes
        PROVE  i <= U[a].n <=> (i <= T[a].n \/ <<a, i>> = h)
    <3>1. CASE a # t
      BY <1>4, <3>1
    <3>2. CASE a = t
      <4>1. U[a].n = T[t].n + 1
        BY <1>2, <1>4, <3>2
      <4> QED BY <1>1, <3>2, <4>1
    <3> QED BY <3>1, <3>2
  <2>4. \A a \in Threads, i \in 1..AvgTimes : <<a, i>> \in Hits(U) <=> <<a, i>> \in Hits(T) \cup {h}
    BY <2>3 DEF Hits
  <2>5. Hits(U) \subseteq Threads \X (1..AvgTimes) /\ Hits(T) \cup {h} \subseteq Threads \X (1..AvgTimes)
    BY <2>2 DEF Hits
  <2> HIDE DEF h
  <2>6. \A g \in Threads \X (1..AvgTimes) : g \in Hits(U) <=> g \in Hits(T) \cup {h}
    BY <2>4
  <2> QED BY <2>1, <2>5, <2>6
<1>6. Cardinality(Hits(U)) = Cardinality(Hits(T)) + 1 /\ Cardinality(Hits(T)) \in Nat
  BY <1>5, Sets, FS_AddElement
<1>7. Q.type # 1 => Q.ops = Cardinality(Hits(U))
  BY <1>3, <1>6 DEF SameStage, PhaseInv, CounterInv
<1>8. CounterInv(k, Q, U)
  BY <1>2, <1>3, <1>4, <1>7 DEF PhaseInv, CounterInv, SameStage
<1>9. PhaseInv(k, Q, U)
  BY <1>3, <1>8, ThreadKeeps
<1> QED BY <1>3, <1>4, <1>9 DEF U, r, Q

\* A thread of the tests leaves the enclave and reads thread_finish.
LEMMA LeaveKeeps ==
  ASSUME NEW k, k = "samples", NEW P \in ProcRec, NEW T \in [Threads -> ThrRec],
         NEW t \in Threads, PhaseInv(k, P, T), T[t].pc = "inside"
  PROVE  LET U == [T EXCEPT ![t] = [T[t] EXCEPT !.pc = "left", !.seen = P.finish]]
         IN  U \in [Threads -> ThrRec] /\ PhaseInv(k, P, U)
<1> DEFINE r == [T[t] EXCEPT !.pc = "left", !.seen = P.finish]
           U == [T EXCEPT ![t] = r]
<1>1. T[t] \in ThrRec /\ P.finish \in Nat
  BY DEF ProcRec
<1>2. r \in ThrRec /\ r.pc = "left" /\ r.seen = P.finish /\ r.n = T[t].n
  BY <1>1 DEF ThrRec
<1>u. SetsMove(T, t, r, U)
  <2> HIDE DEF r
  <2> QED BY <1>2, SetsNext
<1> HIDE DEF r, U
<1>3. /\ U \in [Threads -> ThrRec] /\ U[t] = r /\ \A x \in Threads : x # t => U[x] = T[x]
      /\ Counted(U) = Counted(T) /\ Done(U) = Done(T) /\ Hits(U) = Hits(T)
  BY <1>2, <1>u DEF SetsMove
<1>4. Counted(T) = Threads
  BY DEF PhaseInv, CounterInv
<1>5. CounterInv(k, P, U)
  BY <1>2, <1>3, <1>4 DEF PhaseInv, CounterInv
<1>6. SameStage(P, P)
  BY DEF SameStage
<1>7. PhaseInv(k, P, U)
  BY <1>5, <1>6, ThreadKeeps
<1> QED BY <1>3, <1>7 DEF U, r

\* A thread is counted at the end, by the atomic increment of g_test_stop or by
\* the write of thread_finish: the counter stays behind the threads that are done.
LEMMA FinishKeeps ==
  ASSUME NEW k, NEW P \in ProcRec, NEW T \in [Threads -> ThrRec], NEW t \in Threads,
         PhaseInv(k, P, T), T[t].pc \in {"inside", "left"},
         k = "rw" => T[t].n = AvgTimes,
         NEW Q \in ProcRec, SameStage(P, Q), Q.sane = P.sane, Q.start = P.start, Q.ops = P.ops,
         NEW c \in Nat, c <= Cardinality(Done(T)), Q.finish = c + 1
  PROVE  LET U == [T EXCEPT ![t] = [T[t] EXCEPT !.pc = "done"]]
         IN  U \in [Threads -> ThrRec] /\ PhaseInv(k, Q, U)
<1> DEFINE r == [T[t] EXCEPT !.pc = "done"]
           U == [T EXCEPT ![t] = r]
<1>1. T[t] \in ThrRec
  OBVIOUS
<1>2. r \in ThrRec /\ r.pc = "done" /\ r.n = T[t].n
  BY <1>1 DEF ThrRec
<1>u. SetsMove(T, t, r, U)
  <2> HIDE DEF r
  <2> QED BY <1>2, SetsNext
<1> HIDE DEF r, U
<1>3. /\ U \in [Threads -> ThrRec] /\ U[t] = r /\ \A x \in Threads : x # t => U[x] = T[x]
      /\ Counted(U) = Counted(T) /\ Done(U) = Done(T) \cup {t} /\ Hits(U) = Hits(T)
      /\ t \notin Done(T)
  BY <1>2, <1>u DEF SetsMove
<1>4. /\ Cardinality(Done(U)) = Cardinality(Done(T)) + 1
      /\ Cardinality(Done(T)) \in Nat
  BY <1>3, Sets, FS_AddElement, ZenonT(60)
<1>5. Q.finish <= Cardinality(Done(U))
  BY <1>4
<1>6. \A x \in Threads : U[x].pc = "left" => U[x].seen <= Cardinality(Done(U))
  <2> SUFFICES ASSUME NEW x \in Threads, U[x].pc = "left" PROVE U[x].seen <= Cardinality(Done(U))
    OBVIOUS
  <2>1. x # t /\ T[x].pc = "left" /\ U[x] = T[x]
    BY <1>2, <1>3
  <2>2. T[x].seen <= Cardinality(Done(T)) /\ T[x].seen \in Nat
    BY <2>1 DEF PhaseInv, CounterInv, ThrRec
  <2> QED BY <1>4, <2>1, <2>2
<1>7. Counted(T) = Threads
  BY DEF PhaseInv, CounterInv
<1>8. CounterInv(k, Q, U)
  BY <1>2, <1>3, <1>5, <1>6, <1>7, ZenonT(60) DEF PhaseInv, CounterInv, SameStage
<1>9. PhaseInv(k, Q, U)
  BY <1>8, ThreadKeeps
<1> QED BY <1>3, <1>9 DEF U, r

-----------------------------------------------------------------------------
\* One process takes the step, from proc[p] and thr[p] to Q and U.
Steps(p, Q, U) ==
  /\ Q \in ProcRec /\ U \in [Threads -> ThrRec] /\ PhaseInv(kind[p], Q, U)
  /\ Set(p, Q) /\ thr' = [thr EXCEPT ![p] = U] /\ UNCHANGED kind

\* Every step of a thread is one of those above.
LEMMA ThreadMoves ==
  ASSUME LInv, NEW p \in Procs, NEW t \in Threads, ThreadStep(p, t)
  PROVE  \E Q, U : Steps(p, Q, U) /\ Keep /\ Q.token = proc[p].token /\ Q.pc = proc[p].pc
<1> DEFINE k == kind[p]
           P == proc[p]
           T == thr[p]
<1>1. /\ P \in ProcRec /\ T \in [Threads -> ThrRec] /\ PhaseInv(k, P, T)
      /\ proc \in [Procs -> ProcRec] /\ thr \in [Procs -> [Threads -> ThrRec]]
  BY DEF LInv, LType, PhasesInv
<1>2. proc = [proc EXCEPT ![p] = P]
  BY <1>1
<1>3. ASSUME NEW r, Thr(p, t, r) PROVE thr' = [thr EXCEPT ![p] = [T EXCEPT ![t] = r]]
  BY <1>1, <1>3 DEF Thr
<1>4. CASE ReadStart(p, t)
  <2> DEFINE U == [T EXCEPT ![t] = [T[t] EXCEPT !.pc = "count", !.seen = P.start]]
  <2>1. T[t].pc = "created" /\ Keep /\ UNCHANGED proc /\ thr' = [thr EXCEPT ![p] = U]
    BY <1>3, <1>4 DEF ReadStart
  <2>2. U \in [Threads -> ThrRec] /\ PhaseInv(k, P, U)
    BY <1>1, <2>1, ReadStartKeeps
  <2>3. Steps(p, P, U)
    BY <1>1, <1>2, <2>1, <2>2 DEF Steps, Set, Keep
  <2> QED BY <2>1, <2>3
<1>5. CASE WriteStart(p, t)
  <2> DEFINE Q == [P EXCEPT !.start = T[t].seen + 1, !.lost = P.lost \/ P.start # T[t].seen]
             U == [T EXCEPT ![t] = [T[t] EXCEPT !.pc = "spin"]]
  <2>1. T[t].pc = "count" /\ Keep /\ Set(p, Q) /\ thr' = [thr EXCEPT ![p] = U]
    BY <1>3, <1>5 DEF WriteStart, ThrGoto
  <2>2. Q \in ProcRec /\ U \in [Threads -> ThrRec] /\ PhaseInv(k, Q, U)
    BY <1>1, <2>1, WriteStartKeeps
  <2>3. Q.token = P.token /\ Q.pc = P.pc
    BY <1>1 DEF ProcRec
  <2>4. Steps(p, Q, U)
    BY <2>1, <2>2 DEF Steps, Keep
  <2> QED BY <2>1, <2>3, <2>4
<1>6. CASE Enter(p, t)
  <2> DEFINE U == [T EXCEPT ![t] = [T[t] EXCEPT !.pc = "inside"]]
  <2>1. T[t].pc = "spin" /\ P.start >= N /\ Keep /\ UNCHANGED proc /\ thr' = [thr EXCEPT ![p] = U]
    BY <1>3, <1>6 DEF Enter, ThrGoto, AllStarted
  <2>2. U \in [Threads -> ThrRec] /\ PhaseInv(k, P, U)
    BY <1>1, <2>1, EnterKeeps
  <2>3. Steps(p, P, U)
    BY <1>1, <1>2, <2>1, <2>2 DEF Steps, Set, Keep
  <2> QED BY <2>1, <2>3
<1>7. CASE process_native(p, t) \/ memset_regular(p, t) \/ memset_aptr(p, t)
  <2>1. PICK type \in {1, 2, 3}, counted \in BOOLEAN :
          Accesses(p, t, type, counted) /\ (type # 1 => counted)
    BY <1>7 DEF process_native, memset_regular, memset_aptr
  <2> DEFINE c == IF counted THEN 1 ELSE 0
             Q == [P EXCEPT !.ops = P.ops + c, !.sane = P.sane /\ P.items = P.type]
             U == [T EXCEPT ![t] = [T[t] EXCEPT !.n = T[t].n + 1]]
  <2>2. /\ k = "rw" /\ P.type = type /\ T[t].pc = "inside" /\ T[t].n < AvgTimes
        /\ Keep /\ Set(p, Q) /\ thr' = [thr EXCEPT ![p] = U]
    BY <1>3, <2>1 DEF Accesses
  <2>3. c \in {0, 1} /\ (P.type # 1 => c = 1)
    BY <2>1, <2>2
  <2>4. Q \in ProcRec /\ U \in [Threads -> ThrRec] /\ PhaseInv(k, Q, U)
    <3> HIDE DEF c
    <3> QED BY <1>1, <2>2, <2>3, AccessKeeps, ZenonT(60)
  <2>5. Q.token = P.token /\ Q.pc = P.pc
    BY <1>1 DEF ProcRec
  <2>6. Steps(p, Q, U)
    BY <2>2, <2>4 DEF Steps, Keep
  <2> QED BY <2>2, <2>5, <2>6
<1>8. ASSUME NEW Q, NEW c \in Nat, c <= Cardinality(Done(T)), T[t].pc \in {"inside", "left"},
             k = "rw" => T[t].n = AvgTimes, Set(p, Q), ThrGoto(p, t, "done"), Keep,
             Q \in ProcRec, SameStage(P, Q), Q.sane = P.sane, Q.start = P.start, Q.ops = P.ops,
             Q.finish = c + 1, Q.token = P.token
      PROVE  \E R, U : Steps(p, R, U) /\ Keep /\ R.token = P.token /\ R.pc = P.pc
  <2> DEFINE U == [T EXCEPT ![t] = [T[t] EXCEPT !.pc = "done"]]
  <2>1. thr' = [thr EXCEPT ![p] = U]
    BY <1>3, <1>8 DEF ThrGoto
  <2>2. U \in [Threads -> ThrRec] /\ PhaseInv(k, Q, U)
    BY <1>1, <1>8, FinishKeeps
  <2>3. Steps(p, Q, U)
    BY <1>8, <2>1, <2>2 DEF Steps, Keep
  <2> QED BY <1>8, <2>3 DEF SameStage
<1>9. ASSUME k = "rw", T[t].pc = "inside", T[t].n = AvgTimes,
             Set(p, [P EXCEPT !.finish = P.finish + 1]), ThrGoto(p, t, "done"), Keep
      PROVE  \E R, U : Steps(p, R, U) /\ Keep /\ R.token = P.token /\ R.pc = P.pc
  <2> DEFINE Q == [P EXCEPT !.finish = P.finish + 1]
  <2>1. P.finish \in Nat /\ P.finish <= Cardinality(Done(T))
    BY <1>1 DEF PhaseInv, CounterInv, ProcRec
  <2>2. /\ Q \in ProcRec /\ SameStage(P, Q) /\ Q.sane = P.sane /\ Q.start = P.start
        /\ Q.ops = P.ops /\ Q.finish = P.finish + 1 /\ Q.token = P.token
    BY <1>1, <2>1, SMTT(30) DEF ProcRec, SameStage
  <2> HIDE DEF Q
  <2>3. Set(p, Q)
    BY <1>9 DEF Q
  <2> QED BY <1>8, <1>9, <2>1, <2>2, <2>3
<1>10. ASSUME k = "samples", T[t].pc = "left", CountFinish(p, t)
       PROVE  \E R, U : Steps(p, R, U) /\ Keep /\ R.token = P.token /\ R.pc = P.pc
  <2> DEFINE b == P.lost \/ P.finish # T[t].seen
             Q == [P EXCEPT !.finish = T[t].seen + 1, !.lost = b]
  <2>1. T[t].seen \in Nat /\ T[t].seen <= Cardinality(Done(T)) /\ b \in BOOLEAN
    <3>1. T[t].seen \in Nat /\ T[t].seen <= Cardinality(Done(T))
      BY <1>1, <1>10 DEF PhaseInv, CounterInv, ThrRec
    <3> QED BY <3>1
  <2>2. Set(p, Q) /\ ThrGoto(p, t, "done") /\ Keep
    BY <1>10 DEF CountFinish
  <2> HIDE DEF b
  <2>3. /\ Q \in ProcRec /\ SameStage(P, Q) /\ Q.sane = P.sane /\ Q.start = P.start
        /\ Q.ops = P.ops /\ Q.finish = T[t].seen + 1 /\ Q.token = P.token
    <3> DEFINE f == T[t].seen + 1
    <3>1. f \in Nat
      BY <2>1
    <3> HIDE DEF f
    <3>2. Q = [P EXCEPT !.finish = f, !.lost = b]
      BY DEF f
    <3>3. Q.finish = f
      BY <1>1, <3>2 DEF ProcRec
    <3> HIDE DEF Q
    <3>4. /\ Q \in ProcRec /\ SameStage(P, Q) /\ Q.sane = P.sane /\ Q.start = P.start
          /\ Q.ops = P.ops /\ Q.token = P.token
      BY <1>1, <2>1, <3>1, <3>2 DEF ProcRec, SameStage
    <3> QED BY <3>3, <3>4 DEF f
  <2> HIDE DEF Q
  <2> QED BY <1>8, <1>10, <2>1, <2>2, <2>3
<1>11. CASE evaluate(p, t)
  BY <1>4, <1>5, <1>6, <1>9, <1>11 DEF evaluate, Gather
<1>12. CASE test_services_thread(p, t)
  <2>1. CASE thr[p][t].pc = "inside" /\ Thr(p, t, [thr[p][t] EXCEPT !.pc = "left", !.seen = proc[p].finish])
             /\ Keep /\ UNCHANGED proc
    <3> DEFINE U == [T EXCEPT ![t] = [T[t] EXCEPT !.pc = "left", !.seen = P.finish]]
    <3>1. k = "samples" /\ thr' = [thr EXCEPT ![p] = U]
      BY <1>3, <1>12, <2>1 DEF test_services_thread
    <3>2. U \in [Threads -> ThrRec] /\ PhaseInv(k, P, U)
      BY <1>1, <2>1, <3>1, LeaveKeeps
    <3>3. Steps(p, P, U)
      BY <1>1, <1>2, <2>1, <3>1, <3>2 DEF Steps, Set, Keep
    <3> QED BY <2>1, <3>3
  <2> QED BY <1>4, <1>5, <1>6, <1>10, <1>12, <2>1 DEF test_services_thread, Gather
<1> QED BY <1>7, <1>11, <1>12 DEF ThreadStep

\* So is the creation of a thread.
LEMMA CreateMoves ==
  ASSUME LInv, NEW p \in Procs, Creates(p)
  PROVE  \E Q, U : Steps(p, Q, U) /\ Keep /\ Q.token = proc[p].token /\ Q.pc = proc[p].pc
<1> DEFINE k == kind[p]
           P == proc[p]
           T == thr[p]
<1>1. /\ P \in ProcRec /\ T \in [Threads -> ThrRec] /\ PhaseInv(k, P, T)
      /\ thr \in [Procs -> [Threads -> ThrRec]]
  BY DEF LInv, LType, PhasesInv
<1>2. PICK t \in Threads \ P.made :
        /\ P.pc \in {"tested", "filled"} /\ k \in {"rw", "samples"}
        /\ Set(p, [P EXCEPT !.made = P.made \cup {t}])
        /\ ThrGoto(p, t, "created") /\ Keep
  BY DEF Creates
<1> DEFINE Q == [P EXCEPT !.made = P.made \cup {t}]
           U == [T EXCEPT ![t] = [T[t] EXCEPT !.pc = "created"]]
<1>3. Q \in ProcRec /\ U \in [Threads -> ThrRec] /\ PhaseInv(k, Q, U)
  BY <1>1, <1>2, CreateKeeps
<1>4. thr' = [thr EXCEPT ![p] = U]
  BY <1>1, <1>2 DEF ThrGoto, Thr
<1>5. Q.token = P.token /\ Q.pc = P.pc
  BY <1>1 DEF ProcRec
<1>6. Steps(p, Q, U)
  BY <1>2, <1>3, <1>4 DEF Steps, Keep
<1> QED BY <1>2, <1>5, <1>6

\* So is a step of the main thread alone.
LEMMA MovesStep ==
  ASSUME LInv, NEW p \in Procs, NEW Q, Moves(p, Q), MainMove(kind[p], proc[p], Q)
  PROVE  Steps(p, Q, thr[p])
<1>1. /\ proc[p] \in ProcRec /\ PhaseInv(kind[p], proc[p], thr[p])
      /\ thr[p] \in [Threads -> ThrRec] /\ thr \in [Procs -> [Threads -> ThrRec]]
  BY DEF LInv, LType, PhasesInv
<1>2. PhaseInv(kind[p], Q, thr[p])
  BY <1>1, MainKeeps DEF Moves
<1>3. thr' = [thr EXCEPT ![p] = thr[p]]
  BY <1>1 DEF Moves
<1> QED BY <1>1, <1>2, <1>3 DEF Moves, Steps

\* The launching steps of process p, for the two forms of the file.
LaunchStep(p) ==
  \/ (OpenToken(p) \/ MakeToken(p)) /\ kind[p] \in Linux
  \/ WinOpenToken(p)
  \/ ReadToken(p) \/ CreateEnclave(p, "reopen") \/ CreateEnclave(p, "write")
  \/ ReopenToken(p) /\ kind[p] \in Linux
  \/ WriteToken(p) \/ query_sgx_status(p)

\* A step that changes neither the files nor a token.
QuietStep(p, Q) ==
  /\ Keep /\ Q.token = proc[p].token
  /\ Q.pc = proc[p].pc \/ Q.pc \notin {"read", "reopen", "write"}

\* Every step is a launching step, a crash, or leaves the files alone, and keeps
\* the phases of the process that takes it.
LEMMA EveryStep ==
  ASSUME LInv, Next
  PROVE  \E p \in Procs : \E Q, U :
           Steps(p, Q, U) /\ (LaunchStep(p) \/ Crash(p) \/ QuietStep(p, Q))
<1>1. ASSUME NEW p \in Procs, LaunchStep(p)
      PROVE  \E Q, U : Steps(p, Q, U) /\ LaunchStep(p)
  <2>1. PICK saved \in {"reopen", "write"} :
          \/ OpenToken(p) \/ MakeToken(p) \/ ReadToken(p) \/ CreateEnclave(p, saved)
          \/ ReopenToken(p) \/ WriteToken(p) \/ WinOpenToken(p) \/ query_sgx_status(p)
    BY <1>1 DEF LaunchStep
  <2>2. PICK Q : Moves(p, Q) /\ MainMove(kind[p], proc[p], Q)
    BY <2>1, LaunchMoves
  <2> QED BY <1>1, <2>2, MovesStep
<1>2. ASSUME NEW p \in Procs,
             Serve(p) \/ WinLibInitialize(p) \/ wintest_main(p) \/ samples_main(p) \/ rw_main(p)
      PROVE  \E Q, U : Steps(p, Q, U) /\ QuietStep(p, Q)
  <2>1. CASE Creates(p)
    BY <2>1, CreateMoves DEF QuietStep
  <2>2. CASE \E Q : Moves(p, Q) /\ MainMove(kind[p], proc[p], Q) /\ Quiet(proc[p], Q) /\ Keep
    <3>1. PICK Q : Moves(p, Q) /\ MainMove(kind[p], proc[p], Q) /\ Quiet(proc[p], Q) /\ Keep
      BY <2>2
    <3> QED BY <3>1, MovesStep DEF QuietStep, Quiet
  <2> QED BY <1>2, <2>1, <2>2, MainMoves
<1>3. ASSUME NEW p \in Procs, Crash(p)
      PROVE  \E Q, U : Steps(p, Q, U) /\ Crash(p)
  <2> DEFINE Q == [NewProc EXCEPT !.type = @ + proc[p].type]
  <2>1. /\ proc[p] \in ProcRec /\ PhaseInv(kind[p], proc[p], thr[p]) /\ kind[p] \in Kinds
        /\ thr[p] \in [Threads -> ThrRec] /\ thr \in [Procs -> [Threads -> ThrRec]]
    BY DEF LInv, LType, PhasesInv
  <2>2. proc[p].pc \in Launching /\ Set(p, Q) /\ UNCHANGED <<kind, thr>>
    BY <1>3 DEF Crash, Launching, Set
  <2>3. Q \in ProcRec /\ PhaseInv(kind[p], Q, thr[p])
    BY <2>1, <2>2, CrashKeeps
  <2>4. thr' = [thr EXCEPT ![p] = thr[p]]
    BY <2>1, <2>2
  <2>5. Steps(p, Q, thr[p])
    BY <2>1, <2>2, <2>3, <2>4 DEF Steps
  <2> QED BY <1>3, <2>5
<1>4. ASSUME NEW p \in Procs, ProcStep(p)
      PROVE  \/ LaunchStep(p)
             \/ Serve(p) \/ WinLibInitialize(p) \/ wintest_main(p) \/ samples_main(p) \/ rw_main(p)
  <2>1. ASSUME LinuxInit(p), kind[p] \in Linux PROVE LaunchStep(p)
    BY <2>1 DEF LinuxInit, LaunchStep
  <2>2. ASSUME WindowsInit(p) PROVE LaunchStep(p)
    BY <2>2 DEF WindowsInit, LaunchStep
  <2>3. CASE direct_initialize_enclave(p) \/ suvm_initialize_enclave(p)
             \/ face_initialize_enclave(p) \/ rw_initialize_enclave(p)
             \/ samples_initialize_enclave(p)
    BY <2>1, <2>3 DEF direct_initialize_enclave, suvm_initialize_enclave, face_initialize_enclave,
                      rw_initialize_enclave, samples_initialize_enclave, Linux
  <2>4. CASE winface_initialize_enclave(p) \/ wintest_initialize_enclave(p)
    BY <2>2, <2>4 DEF winface_initialize_enclave, wintest_initialize_enclave, LaunchStep
  <2> QED BY <1>4, <2>3, <2>4 DEF ProcStep
<1>5. ASSUME NEW p \in Procs, NEW t \in Threads, ThreadStep(p, t)
      PROVE  \E Q, U : Steps(p, Q, U) /\ QuietStep(p, Q)
  BY <1>5, ThreadMoves DEF QuietStep
<1>6. CASE \E p \in Procs : ProcStep(p) \/ Crash(p)
  <2>1. PICK p \in Procs : ProcStep(p) \/ Crash(p)
    BY <1>6
  <2>2. \E Q, U : Steps(p, Q, U) /\ (LaunchStep(p) \/ Crash(p) \/ QuietStep(p, Q))
    BY <1>1, <1>2, <1>3, <1>4, <2>1
  <2> QED BY <2>2
<1>7. CASE \E p \in Procs, t \in Threads : ThreadStep(p, t)
  <2>1. PICK p \in Procs, t \in Threads : ThreadStep(p, t)
    BY <1>7
  <2>2. \E Q, U : Steps(p, Q, U) /\ QuietStep(p, Q)
    BY <1>5, <2>1
  <2> QED BY <2>2
<1> QED BY <1>6, <1>7 DEF Next

\* Every step keeps the phases of every process apart.
LEMMA PhasesNext ==
  ASSUME LInv, [Next]_vars
  PROVE  PhasesInv' /\ proc' \in [Procs -> ProcRec] /\ kind' \in [Procs -> Kinds]
         /\ thr' \in [Procs -> [Threads -> ThrRec]]
<1>0. /\ proc \in [Procs -> ProcRec] /\ kind \in [Procs -> Kinds]
      /\ thr \in [Procs -> [Threads -> ThrRec]]
      /\ \A q \in Procs : PhaseInv(kind[q], proc[q], thr[q])
  BY DEF LInv, LType, PhasesInv
<1>1. CASE UNCHANGED vars
  BY <1>0, <1>1 DEF vars, PhasesInv
<1>2. CASE Next
  <2>1. PICK p \in Procs : \E Q, U : Steps(p, Q, U)
    BY <1>2, EveryStep
  <2>2. PICK Q, U : Steps(p, Q, U)
    BY <2>1
  <2>3. /\ proc' = [proc EXCEPT ![p] = Q] /\ thr' = [thr EXCEPT ![p] = U] /\ kind' = kind
        /\ Q \in ProcRec /\ U \in [Threads -> ThrRec] /\ PhaseInv(kind[p], Q, U)
    BY <2>2 DEF Steps, Set
  <2>4. ASSUME NEW q \in Procs PROVE PhaseInv(kind'[q], proc'[q], thr'[q])
    BY <1>0, <2>3
  <2> QED BY <1>0, <2>3, <2>4 DEF PhasesInv
<1> QED BY <1>1, <1>2

\* A file name stays a file name, and the constants that are no tokens are apart.
LEMMA Names ==
  ASSUME LType, NEW p \in Procs
  PROVE  /\ File(p) \in {"linux"} \cup Windows /\ (kind[p] \in Linux => File(p) = "linux")
         /\ {Zero, Torn, Mixed, Blank, Absent} \subseteq Tokens
         /\ Blank # Absent /\ Torn # Absent /\ Mixed # Absent
         /\ \A x \in Tokens : x.for \in Kinds => x # Absent
BY DEF LType, File, Kinds, Linux, Windows, Tokens, Zero, Torn, Mixed, Blank, Absent

\* The files hold whole tokens, what is left of one, or nothing, and every token
\* in a process is zero, issued, or one cut short over another.
LEMMA TokenNext ==
  ASSUME LInv, [Next]_vars
  PROVE  TokenInv' /\ file' \in [{"linux"} \cup Windows -> Tokens] /\ issued' \in Nat
         /\ crashes' \in Nat
<1> DEFINE Files == {"linux"} \cup Windows
<1>0. /\ file \in [Files -> Tokens] /\ issued \in Nat /\ crashes \in Nat /\ LType
      /\ proc \in [Procs -> ProcRec] /\ TokenInv /\ kind \in [Procs -> Kinds]
      /\ \A q \in Procs : proc[q] \in ProcRec /\ proc[q].token \in Tokens /\ kind[q] \in Kinds
  BY DEF LInv, LType, ProcRec
<1>1. CASE UNCHANGED vars
  BY <1>0, <1>1 DEF vars, TokenInv, IssuedToken, At, File
<1>2. CASE Next
  <2>1. PICK p \in Procs : \E Q, U : Steps(p, Q, U) /\ (LaunchStep(p) \/ Crash(p) \/ QuietStep(p, Q))
    BY <1>2, EveryStep
  <2>2. PICK Q, U : Steps(p, Q, U) /\ (LaunchStep(p) \/ Crash(p) \/ QuietStep(p, Q))
    BY <2>1
  <2>3. /\ proc' = [proc EXCEPT ![p] = Q] /\ kind' = kind /\ Q \in ProcRec
        /\ proc'[p] = Q /\ \A q \in Procs : q # p => proc'[q] = proc[q]
        /\ \A q \in Procs : File(q)' = File(q)
    BY <1>0, <2>2 DEF Steps, Set, File
  <2>4. /\ File(p) \in Files /\ (kind[p] \in Linux => File(p) = "linux")
        /\ {Zero, Torn, Mixed, Blank, Absent} \subseteq Tokens
        /\ Blank # Absent /\ Torn # Absent /\ Mixed # Absent
        /\ \A x \in Tokens : x.for \in Kinds => x # Absent
    BY <1>0, Names
  \* It suffices to look at the files and at the process that moves.
  <2>5. ASSUME file' \in [Files -> Tokens], issued' \in Nat, crashes' \in Nat, issued <= issued',
               \A f \in Files : file'[f] = file[f]
                                \/ file'[f] \in {Blank, Torn, Mixed}
                                \/ (file'[f].for \in Kinds /\ file'[f].no <= issued'),
               Q.token \in {Zero, Mixed} \/ (Q.token.for \in Kinds /\ Q.token.no <= issued'),
               Q.pc = "read" => file'[File(p)] # Absent,
               Q.pc \in {"reopen", "write"} => Q.token.for \in Kinds /\ Q.token.no <= issued'
        PROVE  TokenInv'
    <3>1. \A x \in Tokens : IssuedToken(x) => (x.for \in Kinds /\ x.no <= issued')
      BY <1>0, <2>5 DEF IssuedToken, Tokens
    <3>2. \A f \in Files : /\ file[f] \in Tokens /\ file'[f] \in Tokens
                           /\ file[f] \in {Absent, Blank, Torn, Mixed} \/ IssuedToken(file[f])
      BY <1>0, <2>5 DEF TokenInv
    <3>3. \A f \in Files : file'[f] \in {Absent, Blank, Torn, Mixed}
                           \/ (file'[f].for \in Kinds /\ file'[f].no <= issued')
      BY <2>5, <3>1, <3>2 DEF IssuedToken
    <3>4. \A f \in Files : file[f] # Absent => file'[f] # Absent
      BY <2>4, <2>5, <3>2 DEF IssuedToken
    <3>5. ASSUME NEW q \in Procs
          PROVE  /\ proc'[q].token \in {Zero, Mixed} \/ (proc'[q].token.for \in Kinds /\ proc'[q].token.no <= issued')
                 /\ proc'[q].pc = "read" => file'[File(q)] # Absent
                 /\ proc'[q].pc \in {"reopen", "write"} =>
                      proc'[q].token.for \in Kinds /\ proc'[q].token.no <= issued'
      <4>1. CASE q = p
        BY <2>3, <2>5, <4>1
      <4>2. CASE q # p
        <5>1. File(q) \in Files /\ proc[q].token \in Tokens
          BY <1>0, Names
        <5>2. /\ proc[q].token \in {Zero, Mixed} \/ IssuedToken(proc[q].token)
              /\ proc[q].pc = "read" => file[File(q)] # Absent
              /\ proc[q].pc \in {"reopen", "write"} => IssuedToken(proc[q].token)
          BY <1>0 DEF TokenInv, At
        <5> QED BY <2>3, <3>1, <3>4, <4>2, <5>1, <5>2
      <4> QED BY <4>1, <4>2
    <3> QED BY <2>3, <3>3, <3>5 DEF TokenInv, IssuedToken, At
  <2>6. /\ proc[p].token \in Tokens /\ (proc[p].token \in {Zero, Mixed} \/ IssuedToken(proc[p].token))
        /\ proc[p].pc = "read" => file[File(p)] # Absent
        /\ proc[p].pc \in {"reopen", "write"} => IssuedToken(proc[p].token)
        /\ proc[p] \in ProcRec /\ file[File(p)] \in Tokens
        /\ file[File(p)] \in {Absent, Blank, Torn, Mixed} \/ IssuedToken(file[File(p)])
    BY <1>0, <2>4 DEF TokenInv, At
  \* Nothing is issued and no file changes.
  <2>7. ASSUME UNCHANGED <<file, issued>>, crashes' \in Nat,
               Q.token \in {Zero, Mixed} \/ IssuedToken(Q.token),
               Q.pc = "read" => file[File(p)] # Absent,
               Q.pc \in {"reopen", "write"} => IssuedToken(Q.token)
        PROVE  /\ TokenInv' /\ file' \in [{"linux"} \cup Windows -> Tokens]
               /\ issued' \in Nat /\ crashes' \in Nat
    <3>1. issued <= issued' /\ issued' \in Nat /\ file' \in [Files -> Tokens]
      BY <1>0, <2>7
    <3> QED BY <2>5, <2>7, <3>1 DEF IssuedToken
  <2>8. CASE QuietStep(p, Q)
    BY <1>0, <2>6, <2>7, <2>8 DEF QuietStep, Keep
  <2>9. CASE Crash(p)
    <3>1. proc'[p] = [NewProc EXCEPT !.type = @ + proc[p].type]
      BY <1>0, <2>9 DEF Crash
    <3>2. Q.token = Zero /\ Q.pc = "open"
      BY <2>3, <3>1 DEF NewProc
    <3>3. UNCHANGED <<file, issued>> /\ crashes' \in Nat
      BY <1>0, <2>9 DEF Crash
    <3> QED BY <2>7, <3>2, <3>3
  <2>10. CASE LaunchStep(p)
    <3>0. ASSUME NEW R, Set(p, R) PROVE Q = R
      BY <1>0, <2>3, <3>0 DEF Set
    \* A file is emptied, and the token stays.
    <3>1. ASSUME NEW f \in Files, file' = [file EXCEPT ![f] = Blank], UNCHANGED <<issued, crashes>>,
                 Q.token = proc[p].token, Q.pc # "read" \/ file'[File(p)] # Absent,
                 Q.pc \in {"reopen", "write"} => IssuedToken(proc[p].token)
          PROVE  /\ TokenInv' /\ file' \in [{"linux"} \cup Windows -> Tokens]
                 /\ issued' \in Nat /\ crashes' \in Nat
      <4>1. /\ file' \in [Files -> Tokens] /\ issued' \in Nat /\ crashes' \in Nat /\ issued <= issued'
            /\ \A x \in Files : file'[x] = file[x] \/ file'[x] \in {Blank, Torn, Mixed}
        BY <1>0, <2>4, <3>1
      <4> QED BY <2>5, <2>6, <3>1, <4>1 DEF IssuedToken
    <3>2. CASE OpenToken(p) /\ kind[p] \in Linux
      <4>1. CASE file["linux"] # Absent /\ Set(p, [proc[p] EXCEPT !.pc = "read", !.fp = TRUE])
        <5>1. Q = [proc[p] EXCEPT !.pc = "read", !.fp = TRUE]
          BY <3>0, <4>1
        <5>2. Q.token = proc[p].token /\ Q.pc = "read"
          BY <2>6, <5>1 DEF ProcRec
        <5> QED BY <1>0, <2>4, <2>6, <2>7, <3>2, <4>1, <5>2 DEF OpenToken, Same
      <4>2. CASE Goto(p, "make")
        <5>1. Q = [proc[p] EXCEPT !.pc = "make"]
          BY <3>0, <4>2 DEF Goto
        <5>2. Q.token = proc[p].token /\ Q.pc = "make"
          BY <2>6, <5>1 DEF ProcRec
        <5> QED BY <1>0, <2>6, <2>7, <3>2, <5>2 DEF OpenToken, Same
      <4> QED BY <3>2, <4>1, <4>2 DEF OpenToken
    <3>9. CASE MakeToken(p) /\ kind[p] \in Linux
      <4>1. CASE file' = [file EXCEPT !["linux"] = Blank]
                 /\ Set(p, [proc[p] EXCEPT !.pc = "create", !.fp = TRUE])
        <5>1. Q = [proc[p] EXCEPT !.pc = "create", !.fp = TRUE]
          BY <3>0, <4>1
        <5>2. Q.token = proc[p].token /\ Q.pc = "create"
          BY <2>6, <5>1 DEF ProcRec
        <5> QED BY <3>1, <3>9, <4>1, <5>2 DEF MakeToken
      <4>2. CASE Set(p, [proc[p] EXCEPT !.pc = "create", !.fp = FALSE]) /\ UNCHANGED file
        <5>1. Q = [proc[p] EXCEPT !.pc = "create", !.fp = FALSE]
          BY <3>0, <4>2
        <5>2. Q.token = proc[p].token /\ Q.pc = "create"
          BY <2>6, <5>1 DEF ProcRec
        <5> QED BY <1>0, <2>6, <2>7, <3>9, <4>2, <5>2 DEF MakeToken
      <4> QED BY <3>9, <4>1, <4>2 DEF MakeToken
    <3>3. CASE WinOpenToken(p)
      <4>1. CASE Set(p, [proc[p] EXCEPT !.pc = "create", !.fp = FALSE]) /\ UNCHANGED file
        <5>1. Q = [proc[p] EXCEPT !.pc = "create", !.fp = FALSE]
          BY <3>0, <4>1
        <5>2. Q.token = proc[p].token /\ Q.pc = "create"
          BY <2>6, <5>1 DEF ProcRec
        <5> QED BY <1>0, <2>6, <2>7, <3>3, <4>1, <5>2 DEF WinOpenToken
      <4>2. CASE file' = [file EXCEPT ![File(p)] = IF @ = Absent THEN Blank ELSE @]
                 /\ Set(p, [proc[p] EXCEPT !.pc = "read", !.fp = TRUE])
        <5>1. Q = [proc[p] EXCEPT !.pc = "read", !.fp = TRUE]
          BY <3>0, <4>2
        <5>2. Q.token = proc[p].token /\ Q.pc = "read"
          BY <2>6, <5>1 DEF ProcRec
        <5>3. CASE file[File(p)] = Absent
          <6>1. file' = [file EXCEPT ![File(p)] = Blank] /\ file'[File(p)] # Absent
            BY <1>0, <2>4, <4>2, <5>3
          <6> QED BY <2>4, <3>1, <3>3, <5>2, <6>1 DEF WinOpenToken
        <5>4. CASE file[File(p)] # Absent
          <6>1. file' = file
            BY <1>0, <2>4, <4>2, <5>4
          <6> QED BY <1>0, <2>6, <2>7, <3>3, <5>2, <5>4, <6>1 DEF WinOpenToken
        <5> QED BY <5>3, <5>4
      <4> QED BY <3>3, <4>1, <4>2 DEF WinOpenToken
    <3>4. CASE ReadToken(p)
      <4> DEFINE y == WholeToken(file[File(p)])
      <4>1. Q = [proc[p] EXCEPT !.pc = "create", !.token = y] /\ proc[p].pc = "read"
        BY <3>0, <3>4 DEF ReadToken, At
      <4>2. y \in {Zero, Mixed} \/ IssuedToken(y)
        BY <2>6, <4>1 DEF WholeToken
      <4> HIDE DEF y
      <4>3. Q.token = y /\ Q.pc = "create"
        BY <2>6, <4>1 DEF ProcRec
      <4> QED BY <1>0, <2>7, <3>4, <4>2, <4>3 DEF ReadToken, Same
    <3>5. ASSUME NEW saved \in {"reopen", "write"}, CreateEnclave(p, saved)
          PROVE  /\ TokenInv' /\ file' \in [{"linux"} \cup Windows -> Tokens]
                 /\ issued' \in Nat /\ crashes' \in Nat
      <4>1. CASE Set(p, [proc[p] EXCEPT !.pc = "failed", !.fp = FALSE]) /\ UNCHANGED issued
        <5>1. Q = [proc[p] EXCEPT !.pc = "failed", !.fp = FALSE]
          BY <3>0, <4>1
        <5>2. Q.token = proc[p].token /\ Q.pc = "failed"
          BY <2>6, <5>1 DEF ProcRec
        <5> QED BY <1>0, <2>6, <2>7, <3>5, <4>1, <5>2 DEF CreateEnclave
      <4>2. CASE Set(p, [proc[p] EXCEPT !.pc = "launched", !.fp = FALSE, !.enclave = "live"])
                 /\ UNCHANGED issued
        <5>1. Q = [proc[p] EXCEPT !.pc = "launched", !.fp = FALSE, !.enclave = "live"]
          BY <3>0, <4>2
        <5>2. Q.token = proc[p].token /\ Q.pc = "launched"
          BY <2>6, <5>1 DEF ProcRec
        <5> QED BY <1>0, <2>6, <2>7, <3>5, <4>2, <5>2 DEF CreateEnclave
      <4>3. CASE /\ issued' = issued + 1
                 /\ Set(p, [proc[p] EXCEPT !.pc = IF proc[p].fp THEN saved ELSE "launched",
                            !.enclave = "live", !.token = [for |-> kind[p], no |-> issued + 1]])
        <5> DEFINE y == [for |-> kind[p], no |-> issued + 1]
                   x == IF proc[p].fp THEN saved ELSE "launched"
        <5>1. Q = [proc[p] EXCEPT !.pc = x, !.enclave = "live", !.token = y]
          BY <3>0, <4>3
        <5>2. y.for \in Kinds /\ y.no <= issued' /\ x # "read"
          BY <1>0, <4>3
        <5> HIDE DEF x, y
        <5>3. Q.token = y /\ Q.pc = x
          BY <2>6, <5>1 DEF ProcRec
        <5>4. /\ file' = file /\ crashes' = crashes /\ issued <= issued' /\ issued' \in Nat
          BY <1>0, <3>5, <4>3 DEF CreateEnclave
        <5> QED BY <1>0, <2>5, <5>2, <5>3, <5>4
      <4> QED BY <3>5, <4>1, <4>2, <4>3 DEF CreateEnclave
    <3>6. CASE ReopenToken(p) /\ kind[p] \in Linux
      <4>1. CASE Goto(p, "write") /\ file' = [file EXCEPT !["linux"] = Blank]
        <5>1. Q = [proc[p] EXCEPT !.pc = "write"]
          BY <3>0, <4>1 DEF Goto
        <5>2. Q.token = proc[p].token /\ Q.pc = "write"
          BY <2>6, <5>1 DEF ProcRec
        <5> QED BY <2>6, <3>1, <3>6, <4>1, <5>2 DEF ReopenToken, At
      <4>2. CASE Set(p, [proc[p] EXCEPT !.pc = "launched", !.fp = FALSE]) /\ UNCHANGED file
        <5>1. Q = [proc[p] EXCEPT !.pc = "launched", !.fp = FALSE]
          BY <3>0, <4>2
        <5>2. Q.token = proc[p].token /\ Q.pc = "launched"
          BY <2>6, <5>1 DEF ProcRec
        <5> QED BY <1>0, <2>6, <2>7, <3>6, <4>2, <5>2 DEF ReopenToken
      <4> QED BY <3>6, <4>1, <4>2 DEF ReopenToken
    <3>7. CASE WriteToken(p)
      <4>1. PICK f \in {proc[p].token, file[File(p)], Torn, Mixed} : file' = [file EXCEPT ![File(p)] = f]
        BY <3>7 DEF WriteToken, CutShort
      <4>2. Q = [proc[p] EXCEPT !.pc = "launched", !.fp = FALSE] /\ proc[p].pc = "write"
            /\ UNCHANGED <<issued, crashes>>
        BY <3>0, <3>7 DEF WriteToken, At
      <4>3. Q.token = proc[p].token /\ Q.pc = "launched"
        BY <2>6, <4>2 DEF ProcRec
      <4>4. f \in Tokens /\ (f \in {file[File(p)], Torn, Mixed} \/ (f.for \in Kinds /\ f.no <= issued))
        BY <2>4, <2>6, <4>2 DEF IssuedToken
      <4>5. /\ file' \in [Files -> Tokens] /\ issued' \in Nat /\ crashes' \in Nat /\ issued <= issued'
            /\ \A x \in Files : file'[x] = file[x] \/ file'[x] \in {Torn, Mixed}
                               \/ (file'[x].for \in Kinds /\ file'[x].no <= issued)
        BY <1>0, <2>4, <4>1, <4>2, <4>4
      <4> QED BY <2>5, <2>6, <4>2, <4>3, <4>5 DEF IssuedToken
    <3>8. CASE query_sgx_status(p)
      <4>1. Q = [proc[p] EXCEPT !.pc = "failed"] /\ Same
        BY <3>0, <3>8 DEF query_sgx_status, Goto
      <4>2. Q.token = proc[p].token /\ Q.pc = "failed"
        BY <2>6, <4>1 DEF ProcRec
      <4> QED BY <1>0, <2>6, <2>7, <4>1, <4>2 DEF Same
    <3> QED BY <2>10, <3>2, <3>3, <3>4, <3>5, <3>6, <3>7, <3>8, <3>9 DEF LaunchStep
  <2> QED BY <2>2, <2>8, <2>9, <2>10
<1> QED BY <1>1, <1>2

-----------------------------------------------------------------------------
\* The invariant holds when the processes start.
LEMMA LInvInit == Init => LInv
<1> SUFFICES ASSUME Init PROVE LInv
  OBVIOUS
<1>1. ASSUME NEW p \in Procs
      PROVE  /\ proc[p] \in ProcRec /\ thr[p] \in [Threads -> ThrRec]
             /\ proc[p].token = Zero /\ proc[p].pc = "open"
             /\ PhaseInv(kind[p], proc[p], thr[p])
  <2>1. PICK y \in 0..3 : proc[p] = [NewProc EXCEPT !.type = y]
    BY <1>1 DEF Init
  <2>2. NewProc \in ProcRec
    BY DEF NewProc, ProcRec, Stages, Launching, Tokens, Zero
  <2>3. proc[p] \in ProcRec
    <3> HIDE DEF NewProc
    <3> QED BY <2>1, <2>2 DEF ProcRec
  <2>4. LET P == proc[p] IN
        /\ P.pc = "open" /\ P.type = y /\ P.token = Zero /\ P.enclave = "none" /\ P.lib = "none"
        /\ P.items = 0 /\ P.made = {} /\ P.start = 0 /\ P.finish = 0 /\ P.ops = 0 /\ P.sane = TRUE
    BY <2>1 DEF NewProc
  <2>5. thr[p] = NewThr
    BY DEF Init
  <2>6. NewThr \in [Threads -> ThrRec]
    <3>1. [pc |-> "none", seen |-> 0, n |-> 0] \in ThrRec
      BY LaunchAssumption DEF ThrRec
    <3> QED BY <3>1 DEF NewThr
  <2>7. \A t \in Threads : thr[p][t].pc = "none" /\ thr[p][t].n = 0
    BY <2>5 DEF NewThr
  <2>8. Counted(thr[p]) = {} /\ Done(thr[p]) = {} /\ Hits(thr[p]) = {} /\ Cardinality({}) = 0
    BY <2>5, <2>6, <2>7, NoneMade
  <2>9. StageInv(kind[p], proc[p])
    BY <2>4 DEF Init, StageInv, Launching, Working
  <2>10. CounterInv(kind[p], proc[p], thr[p])
    BY <2>4, <2>7, <2>8 DEF CounterInv
  <2>11. OverInv(kind[p], proc[p], thr[p])
    BY <2>4 DEF OverInv, Over
  <2> QED BY <2>3, <2>4, <2>5, <2>6, <2>9, <2>10, <2>11 DEF PhaseInv
<1>2. LType
  <2>1. proc \in [Procs -> ProcRec]
    <3>1. proc = [q \in Procs |-> proc[q]]
      BY DEF Init
    <3> QED BY <1>1, <3>1
  <2>2. thr \in [Procs -> [Threads -> ThrRec]]
    <3>1. thr = [q \in Procs |-> thr[q]]
      BY DEF Init
    <3> QED BY <1>1, <3>1
  <2>3. {Absent, Blank, Torn, [for |-> "rw", no |-> 0]} \subseteq Tokens
    BY DEF Tokens, Kinds, Linux, Absent, Blank, Torn
  <2>4. file \in [{"linux"} \cup Windows -> Tokens]
    BY <2>3 DEF Init
  <2> QED BY <2>1, <2>2, <2>4, LaunchAssumption DEF Init, LType
<1>3. TokenInv
  <2>1. ASSUME NEW f \in {"linux"} \cup Windows
        PROVE  file[f] \in {Absent, Blank, Torn, Mixed} \/ IssuedToken(file[f])
    <3>1. file[f] \in {Absent, Blank, Torn, [for |-> "rw", no |-> 0]} /\ issued = 0
      BY DEF Init
    <3> QED BY <3>1 DEF IssuedToken, Kinds, Linux
  <2> QED BY <1>1, <2>1 DEF TokenInv, At
<1> QED BY <1>1, <1>2, <1>3 DEF LInv, PhasesInv

\* The invariant holds always.
LEMMA LInvariance == Spec => []LInv
<1>1. LInv /\ [Next]_vars => LInv'
  BY PhasesNext, TokenNext DEF LInv, LType
<1> QED BY <1>1, LInvInit, PTL DEF Spec

\* No part of a token reaches sgx_create_enclave, but for one that was cut short over
\* an older token, for any number of processes that share the file and are killed
\* while they launch.
THEOREM TokensWhole == Spec => []TokenWhole
<1>1. LInv => TokenWhole
  <2> SUFFICES ASSUME LInv PROVE TokenWhole
    OBVIOUS
  <2>1. DOMAIN file = {"linux"} \cup Windows
    BY DEF LInv, LType
  <2> QED BY <2>1 DEF LInv, TokenInv, IssuedToken, TokenWhole
<1> QED BY <1>1, LInvariance, PTL

\* The phases of the tests and of the microbenchmark do not overlap, for any number
\* of threads: the counters that lose increments are never ahead of the threads.
THEOREM PhasesKept == Spec => []PhasesOrdered
<1>1. ASSUME LInv, NEW p \in Procs
      PROVE  LET P == proc[p]
                 T == thr[p]
             IN  /\ (\E t \in Threads : T[t].pc = "inside") =>
                       \A t \in Threads : T[t].pc \in {"spin", "inside", "left", "done"}
                 /\ (P.enclave = "destroyed" \/ P.lib = "freed") => \A t \in Threads : T[t].pc # "inside"
                 /\ \A t \in Threads : T[t].pc = "inside" /\ P.type # 1 =>
                      P.enclave = "live" /\ P.lib = "live"
                 /\ P.sane
                 /\ P.pc = "measured" /\ P.type # 1 => P.ops = N * AvgTimes
  <2> DEFINE k == kind[p]
             P == proc[p]
             T == thr[p]
  <2>1. P \in ProcRec /\ T \in [Threads -> ThrRec] /\ PhaseInv(k, P, T)
    BY <1>1 DEF LInv, LType, PhasesInv
  <2> HIDE DEF k, P, T
  <2>2. (\E t \in Threads : T[t].pc = "inside") =>
           \A t \in Threads : T[t].pc \in {"spin", "inside", "left", "done"}
    BY <2>1 DEF PhaseInv, CounterInv, Counted
  <2>3. ASSUME NEW t \in Threads, T[t].pc = "inside"
        PROVE  t \in P.made /\ ~Over(P)
    <3>1. t \in P.made /\ t \notin Done(T)
      BY <2>1, <2>3 DEF PhaseInv, CounterInv, Done
    <3>2. k \in {"rw", "samples"}
      BY <2>1, <3>1 DEF PhaseInv, StageInv
    <3> QED BY <2>1, <3>1, <3>2 DEF PhaseInv, OverInv
  <2>4. (P.enclave = "destroyed" \/ P.lib = "freed") => \A t \in Threads : T[t].pc # "inside"
    BY <2>3 DEF Over
  <2>5. \A t \in Threads : T[t].pc = "inside" /\ P.type # 1 => P.enclave = "live" /\ P.lib = "live"
    <3>1. P.enclave \in {"none", "live", "destroyed"} /\ P.lib \in {"none", "live", "freed"}
      BY <2>1 DEF ProcRec
    <3>2. P.made # {} /\ P.type # 1 => P.enclave # "none" /\ P.lib # "none"
      BY <2>1 DEF PhaseInv, StageInv
    <3> QED BY <2>3, <3>1, <3>2 DEF Over
  <2>6. ASSUME P.pc = "measured", P.type # 1 PROVE P.ops = N * AvgTimes
    <3>1. k = "rw" /\ Done(T) = Threads /\ P.ops = Cardinality(Hits(T))
      BY <2>1, <2>6 DEF PhaseInv, StageInv, OverInv, Over, CounterInv
    <3>2. \A t \in Threads : T[t].n = AvgTimes
      BY <2>1, <3>1 DEF PhaseInv, CounterInv, Done
    <3>3. Hits(T) = Threads \X (1..AvgTimes)
      BY <3>2, LaunchAssumption DEF Hits
    <3>4. Cardinality(Threads \X (1..AvgTimes)) = Cardinality(Threads) * Cardinality(1..AvgTimes)
      <4>1. IsFiniteSet(Threads) /\ IsFiniteSet(1..AvgTimes)
        BY LaunchAssumption, FS_Interval
      <4> QED BY <4>1, FS_Product
    <3>5. Cardinality(1..AvgTimes) = AvgTimes
      <4>1. Cardinality(1..AvgTimes) = IF 1 > AvgTimes THEN 0 ELSE AvgTimes - 1 + 1
        BY LaunchAssumption, FS_Interval
      <4> QED BY <4>1, LaunchAssumption
    <3> QED BY <3>1, <3>3, <3>4, <3>5 DEF N
  <2>7. P.sane
    BY <2>1 DEF PhaseInv, StageInv
  <2> QED BY <2>2, <2>4, <2>5, <2>6, <2>7 DEF P, T
<1>2. LInv => PhasesOrdered
  BY <1>1 DEF PhasesOrdered, At
<1> QED BY <1>2, LInvariance, PTL

===============================================================================
