------------------------------- MODULE Launch -------------------------------
(***************************************************************************)
(* The host programs: each creates its enclave with the launch token that  *)
(* an earlier run has saved, starts the library in it, runs, and tears     *)
(* down.  Five Linux programs share the token file $HOME/enclave.token;    *)
(* each Windows program has one of its own, opened for itself alone.       *)
(*                                                                         *)
(* The servers ("direct", "suvm", "face", "winface") go on serving: what   *)
(* they do is in the modules ParameterServer and FaceServer.  "samples"    *)
(* runs the library's tests, "rw" the microbenchmark, both on several      *)
(* threads that meet at a counter before they enter the enclave; "wintest" *)
(* runs two ecalls.  The counters thread_start and thread_finish are       *)
(* volatile ints that are incremented in two accesses.                     *)
(*                                                                         *)
(* A token is [for, no]: the program whose enclave it launches, and a      *)
(* number.  sgx_create_enclave accepts a token for its enclave and issues  *)
(* a new one in place of any other, one that is not whole included (it     *)
(* carries a MAC).                                                         *)
(***************************************************************************)
EXTENDS Integers, FiniteSets

CONSTANTS
  Procs,       \* the processes
  Choices,     \* the pairs of programs that run, each [Procs -> Kinds]
  Threads,     \* the threads a program starts
  AvgTimes,    \* accesses per thread of the microbenchmark
  MaxCrashes,  \* processes killed and started again while they launch
  MaxTokens    \* tokens issued

Linux == {"direct", "suvm", "face", "rw", "samples"}
Windows == {"winface", "wintest"}
Kinds == Linux \cup Windows
N == Cardinality(Threads)

ASSUME LaunchAssumption ==
  /\ IsFiniteSet(Threads) /\ Choices \subseteq [Procs -> Kinds]
  /\ AvgTimes \in Nat /\ MaxCrashes \in Nat /\ MaxTokens \in Nat

Zero == [for |-> "nobody", no |-> 0]      \* a buffer of zeros
Torn == [for |-> "torn", no |-> 0]        \* a file with part of a token
Mixed == [for |-> "mixed", no |-> 0]      \* part of a token over part of another, of full length
Blank == [for |-> "blank", no |-> 0]      \* an empty file
Absent == [for |-> "absent", no |-> 0]

VARIABLES
  kind,     \* the program each process runs
  file,     \* the token files: the shared one of Linux, one per Windows program
  issued,   \* tokens issued
  crashes,
  proc,     \* the main thread and the globals of each process
  thr       \* the other threads of each process: pc and the value read from a counter
vars == <<kind, file, issued, crashes, proc, thr>>

File(p) == IF kind[p] \in Linux THEN "linux" ELSE kind[p]
NewProc == [pc |-> "open", fp |-> FALSE, token |-> Zero, type |-> 0, enclave |-> "none",
            lib |-> "none", items |-> 0, made |-> {}, start |-> 0, finish |-> 0, ops |-> 0,
            lost |-> FALSE, sane |-> TRUE]
NewThr == [t \in Threads |-> [pc |-> "none", seen |-> 0, n |-> 0]]

Set(p, r) == proc' = [proc EXCEPT ![p] = r]
Goto(p, pc) == Set(p, [proc[p] EXCEPT !.pc = pc])
At(p, pc) == proc[p].pc = pc
Same == UNCHANGED <<kind, file, issued, crashes, thr>>

----------------------------------------------------------------------------
(* initialize_enclave on Linux.  Another process may act between any two   *)
(* of its calls.                                                           *)

(* fopen "rb": there is a file, or the call fails. *)
OpenToken(p) ==
  /\ At(p, "open")
  /\ \/ file["linux"] # Absent /\ Set(p, [proc[p] EXCEPT !.pc = "read", !.fp = TRUE])
     \/ Goto(p, "make")
  /\ Same

(* Then fopen "wb" makes the file, or empties what another process has made   *)
(* in the meantime, and nothing is read from it; this too may fail.        *)
MakeToken(p) ==
  /\ At(p, "make")
  /\ \/ /\ file' = [file EXCEPT !["linux"] = Blank]
        /\ Set(p, [proc[p] EXCEPT !.pc = "create", !.fp = TRUE])
     \/ Set(p, [proc[p] EXCEPT !.pc = "create", !.fp = FALSE]) /\ UNCHANGED file
  /\ UNCHANGED <<kind, issued, crashes, thr>>

(* Mutant: the number of bytes read is not looked at. *)
BugWholeToken(f) == IF f = Blank THEN Zero ELSE f

(* fread: an empty file leaves zeros, and a length that is not a token's    *)
(* clears the buffer.                                                      *)
WholeToken(f) == IF f \in {Blank, Torn} THEN Zero ELSE f

ReadToken(p) ==
  At(p, "read") /\ Set(p, [proc[p] EXCEPT !.pc = "create", !.token = WholeToken(file[File(p)])]) /\ Same

(* sgx_create_enclave fails, or takes the token, or replaces it. *)
CreateEnclave(p, saved) ==
  /\ At(p, "create")
  /\ \/ Set(p, [proc[p] EXCEPT !.pc = "failed", !.fp = FALSE]) /\ UNCHANGED issued
     \/ /\ proc[p].token.for = kind[p]
        /\ Set(p, [proc[p] EXCEPT !.pc = "launched", !.fp = FALSE, !.enclave = "live"]) /\ UNCHANGED issued
     \/ /\ proc[p].token.for # kind[p] /\ issued < MaxTokens
        /\ issued' = issued + 1
        /\ Set(p, [proc[p] EXCEPT !.pc = IF proc[p].fp THEN saved ELSE "launched", !.enclave = "live",
                   !.token = [for |-> kind[p], no |-> issued + 1]])
  /\ UNCHANGED <<kind, file, crashes, thr>>

(* freopen "wb" empties the file, whoever has written it, or fails. *)
ReopenToken(p) ==
  /\ At(p, "reopen")
  /\ \/ Goto(p, "write") /\ file' = [file EXCEPT !["linux"] = Blank]
     \/ Set(p, [proc[p] EXCEPT !.pc = "launched", !.fp = FALSE]) /\ UNCHANGED file
  /\ UNCHANGED <<kind, issued, crashes, thr>>

(* What a write that is cut short leaves of a file: it grows at most, and an *)
(* older token, which Windows does not truncate and on Linux another process *)
(* may have written since freopen, keeps its end.                          *)
CutShort(f) == {f} \cup (IF f \in {Blank, Torn} THEN {Torn} ELSE {Mixed})

(* fwrite and fclose, or WriteFile: the token, or a part of it. *)
WriteToken(p) ==
  /\ At(p, "write")
  /\ \E f \in {proc[p].token} \cup CutShort(file[File(p)]) : file' = [file EXCEPT ![File(p)] = f]
  /\ Set(p, [proc[p] EXCEPT !.pc = "launched", !.fp = FALSE])
  /\ UNCHANGED <<kind, issued, crashes, thr>>

LinuxInit(p) ==
  OpenToken(p) \/ MakeToken(p) \/ ReadToken(p) \/ CreateEnclave(p, "reopen") \/ ReopenToken(p) \/ WriteToken(p)

(* On Windows the file stays open between reading and writing, no other     *)
(* process can open it for writing in the meantime, and the token is      *)
(* written over the old one.                                               *)
WinOpenToken(p) ==
  /\ At(p, "open")
  /\ \/ /\ \A q \in Procs : ~(File(q) = File(p) /\ proc[q].fp)
        /\ file' = [file EXCEPT ![File(p)] = IF @ = Absent THEN Blank ELSE @]
        /\ Set(p, [proc[p] EXCEPT !.pc = "read", !.fp = TRUE])
     \/ Set(p, [proc[p] EXCEPT !.pc = "create", !.fp = FALSE]) /\ UNCHANGED file
  /\ UNCHANGED <<kind, issued, crashes, thr>>
WindowsInit(p) == WinOpenToken(p) \/ ReadToken(p) \/ CreateEnclave(p, "write") \/ WriteToken(p)

(* SGX may be disabled on the machine. *)
query_sgx_status(p) == At(p, "open") /\ Goto(p, "failed") /\ Same

(* Each program has its own copy. *)
direct_initialize_enclave(p) == kind[p] = "direct" /\ LinuxInit(p)
suvm_initialize_enclave(p) == kind[p] = "suvm" /\ LinuxInit(p)
face_initialize_enclave(p) == kind[p] = "face" /\ LinuxInit(p)
rw_initialize_enclave(p) == kind[p] = "rw" /\ proc[p].type # 1 /\ LinuxInit(p)
samples_initialize_enclave(p) == kind[p] = "samples" /\ LinuxInit(p)
winface_initialize_enclave(p) == kind[p] = "winface" /\ (WindowsInit(p) \/ query_sgx_status(p))
wintest_initialize_enclave(p) == kind[p] = "wintest" /\ (WindowsInit(p) \/ query_sgx_status(p))

(* A process is killed while it launches, and started again. *)
Crash(p) ==
  /\ proc[p].pc \in {"open", "make", "read", "create", "reopen", "write"} /\ crashes < MaxCrashes
  /\ crashes' = crashes + 1
  /\ proc' = [proc EXCEPT ![p] = [NewProc EXCEPT !.type = @ + proc[p].type]]
  /\ UNCHANGED <<kind, file, issued, thr>>

----------------------------------------------------------------------------
(* initialize_lib allocates the pool and the counters, makes the RPC queue   *)
(* and calls ecall_lib_initialize, whose result is 0 whatever              *)
(* initialize_aptr returns (result &= ... of a result that is 0).  It fails *)
(* when malloc does, or the ecall.                                         *)
initialize_lib(p) ==
  /\ At(p, "launched")
  /\ \/ Set(p, [proc[p] EXCEPT !.pc = "ready", !.lib = "live"])
     \/ Goto(p, "aborted")
  /\ Same

(* The servers go on in the modules that model them.  suvm and face start    *)
(* the library first and direct, whose enclave does without it, does not;  *)
(* the Windows programs call ecall_lib_initialize themselves.              *)
Serve(p) ==
  \/ kind[p] \in {"suvm", "face", "winface"} /\ At(p, "ready") /\ Goto(p, "serving") /\ Same
  \/ kind[p] \in {"suvm", "face"} /\ initialize_lib(p)
  \/ kind[p] = "direct" /\ At(p, "launched") /\ Goto(p, "serving") /\ Same
WinLibInitialize(p) ==
  /\ kind[p] \in Windows /\ At(p, "launched")
  /\ \/ Set(p, [proc[p] EXCEPT !.pc = "ready", !.lib = "live"])
     \/ Goto(p, "aborted")           \* assert
  /\ Same

(* App_Test: two ecalls on the main thread, then the enclave is destroyed.  *)
wintest_main(p) ==
  /\ kind[p] = "wintest"
  /\ \/ At(p, "ready") /\ Goto(p, "suvm_tested")
     \/ At(p, "suvm_tested") /\ Goto(p, "sgx_tested")
     \/ proc[p].pc \in {"ready", "suvm_tested"} /\ Goto(p, "aborted")   \* assert
     \/ At(p, "sgx_tested") /\ Set(p, [proc[p] EXCEPT !.pc = "done", !.enclave = "destroyed"])
  /\ Same

----------------------------------------------------------------------------
(* The threads of samples and rw.                                          *)
Thr(p, t, r) == thr' = [thr EXCEPT ![p][t] = r]
ThrGoto(p, t, pc) == Thr(p, t, [thr[p][t] EXCEPT !.pc = pc])
Keep == UNCHANGED <<kind, file, issued, crashes>>

(* Mutant: the last thread is not waited for. *)
BugAllStarted(p) == proc[p].start + 1 >= N

AllStarted(p) == proc[p].start >= N

(* thread_start++: a read, and a write of the value read plus one. *)
ReadStart(p, t) ==
  /\ thr[p][t].pc = "created"
  /\ Thr(p, t, [thr[p][t] EXCEPT !.pc = "count", !.seen = proc[p].start])
  /\ Keep /\ UNCHANGED proc
WriteStart(p, t) ==
  /\ thr[p][t].pc = "count"
  /\ Set(p, [proc[p] EXCEPT !.start = thr[p][t].seen + 1,
                         !.lost = proc[p].lost \/ proc[p].start # thr[p][t].seen])
  /\ ThrGoto(p, t, "spin") /\ Keep
Enter(p, t) ==
  /\ thr[p][t].pc = "spin" /\ AllStarted(p)
  /\ ThrGoto(p, t, "inside") /\ Keep /\ UNCHANGED proc
Gather(p, t) == ReadStart(p, t) \/ WriteStart(p, t) \/ Enter(p, t)

(* One round of the microbenchmark on a random item: what is read is what    *)
(* preprocess wrote, else the process aborts.  process_native checks       *)
(* nothing and does not count its accesses.                                *)
Accesses(p, t, type, counted) ==
  /\ kind[p] = "rw" /\ proc[p].type = type
  /\ thr[p][t].pc = "inside" /\ thr[p][t].n < AvgTimes
  /\ Thr(p, t, [thr[p][t] EXCEPT !.n = thr[p][t].n + 1])
  /\ Set(p, [proc[p] EXCEPT !.ops = proc[p].ops + (IF counted THEN 1 ELSE 0),
             !.sane = proc[p].sane /\ proc[p].items = type])
  /\ Keep
process_native(p, t) == Accesses(p, t, 1, FALSE)
memset_regular(p, t) == Accesses(p, t, 2, TRUE)
memset_aptr(p, t) == Accesses(p, t, 3, TRUE)

(* g_test_stop is counted by an atomic instruction. *)
evaluate(p, t) ==
  \/ kind[p] = "rw" /\ Gather(p, t)
  \/ /\ kind[p] = "rw" /\ thr[p][t].pc = "inside" /\ thr[p][t].n = AvgTimes
     /\ Set(p, [proc[p] EXCEPT !.finish = proc[p].finish + 1])
     /\ ThrGoto(p, t, "done") /\ Keep

(* Mutant: a thread leaves without being counted. *)
BugCountFinish(p, t) == ThrGoto(p, t, "done") /\ Keep /\ UNCHANGED proc

CountFinish(p, t) ==
  /\ Set(p, [proc[p] EXCEPT !.finish = thr[p][t].seen + 1,
                         !.lost = proc[p].lost \/ proc[p].finish # thr[p][t].seen])
  /\ ThrGoto(p, t, "done") /\ Keep

(* ecall_samples_sample; thread_finish++ is a read and a write. *)
test_services_thread(p, t) ==
  /\ kind[p] = "samples"
  /\ \/ Gather(p, t)
     \/ /\ thr[p][t].pc = "inside"
        /\ Thr(p, t, [thr[p][t] EXCEPT !.pc = "left", !.seen = proc[p].finish]) /\ Keep /\ UNCHANGED proc
     \/ thr[p][t].pc = "left" /\ CountFinish(p, t)

----------------------------------------------------------------------------
(* The main threads.  pthread_create fails: the process ends, and with it    *)
(* its threads and its enclave.                                            *)
StartThreads(p, from) ==
  \/ /\ At(p, from) /\ proc[p].made # Threads
     /\ LET t == CHOOSE x \in Threads \ proc[p].made : TRUE
        IN Set(p, [proc[p] EXCEPT !.made = proc[p].made \cup {t}]) /\ ThrGoto(p, t, "created")
     /\ Keep
  \/ At(p, from) /\ proc[p].made # Threads /\ Goto(p, "failed") /\ Same

AllFinished(p) == proc[p].finish >= N
Destroyed(p) == IF proc[p].type = 1 THEN "none" ELSE "destroyed"

(* close_rpc_worker, and the pool is freed. *)
cleanup_lib(p) == At(p, "destroyed") /\ Set(p, [proc[p] EXCEPT !.pc = "done", !.lib = "freed"]) /\ Same

samples_main(p) ==
  /\ kind[p] = "samples"
  /\ \/ initialize_lib(p)
     \/ At(p, "ready") /\ (Goto(p, "tested") \/ Goto(p, "aborted")) /\ Same
     \/ StartThreads(p, "tested")
     \/ /\ At(p, "tested") /\ proc[p].made = Threads /\ AllFinished(p)
        /\ Set(p, [proc[p] EXCEPT !.pc = "destroyed", !.enclave = Destroyed(p)]) /\ Same
     \/ cleanup_lib(p)

(* Fill the array that the test of this type reads. *)
Fill(p, type) ==
  /\ At(p, "ready") /\ proc[p].type = type
  /\ Set(p, [proc[p] EXCEPT !.pc = "filled", !.items = type]) /\ Same
preprocess_native(p) == Fill(p, 1)
preprocess_memset_regular(p) == Fill(p, 2)
preprocess_memset_aptr(p) == Fill(p, 3)

(* The native test has no enclave and no library: its main reads            *)
(* *g_perf_counters, which only initialize_lib sets.                       *)
rw_main(p) ==
  /\ kind[p] = "rw"
  /\ \/ At(p, "open") /\ proc[p].type = 1 /\ Goto(p, "ready") /\ Same
     \/ proc[p].type # 1 /\ initialize_lib(p)
     \/ preprocess_native(p) \/ preprocess_memset_regular(p) \/ preprocess_memset_aptr(p)
     \/ StartThreads(p, "filled")
     \/ /\ At(p, "filled") /\ proc[p].made = Threads /\ AllStarted(p)
        /\ Goto(p, "timing") /\ Same
     \/ At(p, "timing") /\ AllFinished(p) /\ Goto(p, "measured") /\ Same
     \/ /\ At(p, "measured")
        /\ \/ proc[p].lib = "live" /\ Set(p, [proc[p] EXCEPT !.pc = "destroyed", !.enclave = Destroyed(p)])
           \/ proc[p].lib # "live" /\ Goto(p, "crashed")
        /\ Same
     \/ cleanup_lib(p)

----------------------------------------------------------------------------
Ended == {"failed", "aborted", "crashed", "done", "serving"}
Live(p) == proc[p].pc \notin {"failed", "aborted", "crashed", "done"}

ProcStep(p) ==
  \/ direct_initialize_enclave(p) \/ suvm_initialize_enclave(p) \/ face_initialize_enclave(p)
  \/ rw_initialize_enclave(p) \/ samples_initialize_enclave(p)
  \/ winface_initialize_enclave(p) \/ wintest_initialize_enclave(p)
  \/ Serve(p) \/ WinLibInitialize(p) \/ wintest_main(p) \/ samples_main(p) \/ rw_main(p)
ThreadStep(p, t) ==
  /\ Live(p)
  /\ \/ evaluate(p, t) \/ test_services_thread(p, t)
     \/ process_native(p, t) \/ memset_regular(p, t) \/ memset_aptr(p, t)

Init ==
  /\ kind \in Choices
  /\ file \in [{"linux"} \cup Windows -> {Absent, Blank, Torn, [for |-> "rw", no |-> 0]}]
  /\ \A w \in Windows : file[w] \in {Absent, Torn}
  /\ issued = 0 /\ crashes = 0
  /\ proc \in [Procs -> {[NewProc EXCEPT !.type = y] : y \in 0..3}]
  /\ \A p \in Procs : (kind[p] = "rw") = (proc[p].type # 0)
  /\ thr = [p \in Procs |-> NewThr]

Next ==
  \/ \E p \in Procs : ProcStep(p) \/ Crash(p)
  \/ \E p \in Procs, t \in Threads : ThreadStep(p, t)

(* The main thread and the other threads of a process are scheduled. *)
Spec ==
  /\ Init /\ [][Next]_vars
  /\ \A p \in Procs : WF_vars(ProcStep(p)) /\ \A t \in Threads : WF_vars(ThreadStep(p, t))

----------------------------------------------------------------------------
(* The buffer handed to sgx_create_enclave never holds a part of a token: it *)
(* holds zeros or an issued token, whole, whatever the processes that share *)
(* the file and the ones that were killed have left in it, but for the one  *)
(* content that its length does not give away, a token cut short over an    *)
(* older one; and no file holds anything else.                              *)
TokenWhole ==
  /\ \A p \in Procs : proc[p].token \in {Zero, Mixed} \/ (proc[p].token.for \in Kinds /\ proc[p].token.no <= issued)
  /\ \A f \in DOMAIN file : file[f] \in {Absent, Blank, Torn, Mixed} \/ (file[f].for \in Kinds /\ file[f].no <= issued)

(* The phases of a program do not overlap, although its counters lose       *)
(* increments: no thread enters the enclave before all have started, none   *)
(* is inside when the enclave is destroyed or the pool freed, the test     *)
(* reads what preprocess has filled, and the benchmark's time is taken     *)
(* after the last of its accesses.                                         *)
PhasesOrdered ==
  \A p \in Procs :
    /\ (\E t \in Threads : thr[p][t].pc = "inside") => (\A t \in Threads : thr[p][t].pc \in {"spin", "inside", "left", "done"})
    /\ (proc[p].enclave = "destroyed" \/ proc[p].lib = "freed") =>
         \A t \in Threads : thr[p][t].pc # "inside"
    /\ \A t \in Threads : thr[p][t].pc = "inside" /\ proc[p].type # 1 =>
         proc[p].enclave = "live" /\ proc[p].lib = "live"
    /\ proc[p].sane
    /\ At(p, "measured") /\ proc[p].type # 1 => proc[p].ops = N * AvgTimes

(* Every program serves or ends, unless an increment of a counter was lost:  *)
(* then its threads spin for ever.                                         *)
EndsUnlessLost == \A p \in Procs : <>(proc[p].pc \in Ended \/ proc[p].lost)
============================================================================
