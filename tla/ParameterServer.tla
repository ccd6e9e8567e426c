---------------------------- MODULE ParameterServer ----------------------------
(***************************************************************************)
(* The two parameter servers, without and with SUVM, and their client.     *)
(* The server accepts one connection, creates its enclave, starts the      *)
(* counting thread and runs a number of rounds, a few to warm up and the   *)
(* rest measured: each reads a buffer of keys from the socket, in an       *)
(* ocall or by asking the counting thread through the words start and      *)
(* finish, and increments the value of every key.  At the end it writes    *)
(* one byte to the client and exits.  The client sends one block of random *)
(* keys and then spins until a byte arrives; it reconnects for ever.       *)
(*                                                                         *)
(* Sizes are counted in keys.  The requests 3, 4 and 5 of the counting     *)
(* thread only take times and are never raised.                            *)
(***************************************************************************)
EXTENDS Integers, Sequences, FiniteSets

CONSTANTS
  Modes,         \* the programs and arguments looked at: records [suvm, reg, rpc]
  HashMapSize,   \* HASHMAPSIZE
  BufKeys,       \* request_buf_size in keys
  WarmupTimes, AverageTimes,   \* the rounds of the two calls of test_llc_internal
  ReqKeys,       \* the block sizes the client may be started with
  CacheSizes,    \* the client's cache sizes: its keys are below this
  MaxRuns        \* bound on the number of times the server is started

ASSUME ParameterAssumption ==
  /\ Modes \subseteq [suvm : BOOLEAN, reg : BOOLEAN, rpc : BOOLEAN]
  /\ HashMapSize \in Nat \ {0} /\ BufKeys \in Nat \ {0}
  /\ WarmupTimes \in Nat /\ AverageTimes \in Nat \ {0} /\ MaxRuns \in Nat \ {0}
  /\ ReqKeys \subseteq Nat \ {0} /\ CacheSizes \subseteq Nat \ {0}

VARIABLES
  mode, reqKeys, cacheSize,   \* the arguments of the two programs
  mpc, runs, round,           \* the server's main thread
  tpc,                        \* the counting thread
  start, finish,              \* the words they share
  buf, index,                 \* request_buf and the next key to look up
  table,                      \* the buckets of the hash map
  cpc, sent, got,             \* the client: its block of keys, the byte it received
  wire,                       \* keys on their way to the server
  done                        \* history: the keys looked up in this run

args       == <<mode, reqKeys, cacheSize>>
clientVars == <<cpc, sent, got>>
words      == <<start, finish>>
vars == <<args, mpc, runs, round, tpc, words, buf, index, table, clientVars, wire, done>>

Buckets == 0..HashMapSize - 1
Empty   == [key |-> -1, val |-> 0]
Rounds  == WarmupTimes + AverageTimes
Occurrences(s, k) == Cardinality({i \in DOMAIN s : s[i] = k})

-----------------------------------------------------------------------------
\* HashMap without SUVM: linear probing from key % HASHMAPSIZE.
hash_key(k) == k % HashMapSize

\* Probing from the bucket after the key's own.
Bugadd(t, k) == [t EXCEPT ![hash_key(k + 1)] = [key |-> k, val |-> 0]]

\* The first bucket from the key's own that holds the key or is free.
add(t, k) ==
  LET ok(i) == t[hash_key(k + i)].key \in {k, -1}
      i     == CHOOSE n \in Buckets : ok(n) /\ \A j \in 0..n - 1 : ~ok(j)
  IN  [t EXCEPT ![hash_key(k + i)] = [key |-> k, val |-> 0]]

\* init_hashmap of both builds without SUVM: every key below HASHMAPSIZE.
InitTable[n \in 0..HashMapSize] ==
  IF n = 0 THEN [b \in Buckets |-> Empty] ELSE add(InitTable[n - 1], n - 1)

BugGetDirect(t, k) == {hash_key(k)}

\* get tests the bucket it starts from for ever: it moves loc, not i.
GetDirect(t, k) == {b \in {hash_key(k)} : t[b].key = k}

\* HashMap with SUVM: the constructor writes key i into bucket i, and get
\* walks all the buckets.  hash_key has no modulus there: the walk starts at the
\* key, and from one beyond the table it first looks at memory outside it.
SuvmTable == [b \in Buckets |-> [key |-> b, val |-> 0]]
GetSuvm(t, k) == {b \in Buckets : t[b].key = k}

Get(t, k) == IF mode.suvm THEN GetSuvm(t, k) ELSE GetDirect(t, k)

-----------------------------------------------------------------------------
Init ==
  /\ mode \in Modes /\ reqKeys \in ReqKeys /\ cacheSize \in CacheSizes
  /\ mpc = "accept" /\ runs = 1 /\ round = 0 /\ tpc = "off"
  /\ start = 0 /\ finish = 0 /\ buf = <<>> /\ index = 1
  /\ table = [b \in Buckets |-> Empty]
  /\ cpc = "connect" /\ sent = <<>> /\ got = FALSE /\ wire = <<>> /\ done = <<>>

\* main of the server without SUVM: what follows each stage.
DirectMain(pc) ==
  CASE pc = "accept" -> IF mode.reg THEN "init" ELSE "launch"
    [] pc = "launch" -> "init"
    [] pc = "init"   -> "ask"

\* main of the server with SUVM: outside the enclave it has no hash map and
\* runs no round.
SuvmMain(pc) ==
  CASE pc = "accept" -> IF mode.reg THEN "init" ELSE "launch"
    [] pc = "launch" -> "lib"
    [] pc = "lib"    -> "init"
    [] pc = "init"   -> IF mode.reg THEN "answer" ELSE "ask"

After(pc) == IF mode.suvm THEN SuvmMain(pc) ELSE DirectMain(pc)

\* The connection is accepted before anything is initialised.
Accept ==
  /\ mpc = "accept" /\ cpc # "connect"
  /\ mpc' = After(mpc)
  /\ UNCHANGED <<args, runs, round, tpc, words, buf, index, table, clientVars, wire, done>>

\* initialize_enclave, and with SUVM initialize_lib: a failure ends the server.
Launch ==
  /\ mpc \in {"launch", "lib"}
  /\ mpc' \in {After(mpc), "failed"}
  /\ UNCHANGED <<args, runs, round, tpc, words, buf, index, table, clientVars, wire, done>>

\* init_sgx_thread waits for the counting thread; then the hash map is filled.
InitWith(t) ==
  /\ mpc = "init"
  /\ tpc' = "poll"
  /\ table' = t
  /\ mpc' = After(mpc)
  /\ UNCHANGED <<args, runs, round, words, buf, index, clientVars, wire, done>>

\* Outside the enclave, in it, and in it with SUVM; the SUVM server outside
\* the enclave makes no hash map, and looks nothing up.
rcall_init_hashmap == ~mode.suvm /\ mode.reg /\ InitWith(InitTable[HashMapSize])
ecall_init_hashmap == ~mode.suvm /\ ~mode.reg /\ InitWith(InitTable[HashMapSize])
suvm_ecall_init_hashmap ==
  \/ mode.suvm /\ ~mode.reg /\ InitWith(SuvmTable)
  \/ mode.suvm /\ mode.reg /\ InitWith(table)

\* test_llc_internal: every round asks for a buffer of keys.  Outside the
\* enclave, and in it without rpc, the thread reads the socket itself.
AskRead ==
  /\ mpc = "ask" /\ round < Rounds /\ (mode.reg \/ ~mode.rpc)
  /\ buf' = <<>> /\ index' = 1
  /\ mpc' = "read"
  /\ UNCHANGED <<args, runs, round, tpc, words, table, clientVars, wire, done>>

\* With rpc the enclave locks finish, then raises start, and spins on finish.
AskRpc(locked) ==
  /\ mpc = "ask" /\ round < Rounds /\ mode.rpc /\ ~mode.reg
  /\ buf' = <<>> /\ index' = 1
  /\ finish' = locked
  /\ mpc' = "raise"
  /\ UNCHANGED <<args, runs, round, tpc, start, table, clientVars, wire, done>>

BugAskWait == AskRpc(0)
AskWait == AskRpc(1)

Warmup == IF round < WarmupTimes THEN 1 ELSE 0

Raise ==
  /\ mpc = "raise"
  /\ start' = 1 + Warmup
  /\ mpc' = "spin"
  /\ UNCHANGED <<args, runs, round, tpc, finish, buf, index, table, clientVars, wire, done>>

\* spin_lock(finish) leaves finish locked.
Spin ==
  /\ mpc = "spin" /\ finish = 0
  /\ finish' = 1
  /\ mpc' = "use"
  /\ UNCHANGED <<args, runs, round, tpc, start, buf, index, table, clientVars, wire, done>>

\* ocall_llc_test: read until the buffer is full; a read returns what is there
\* and fits.  buf is what has been read in this round.
BugRoom == BufKeys
Room == BufKeys - Len(buf)

ReadSome ==
  /\ Len(buf) < BufKeys
  /\ \E n \in 1..Room :
       /\ n <= Len(wire)
       /\ buf' = buf \o SubSeq(wire, 1, n)
       /\ wire' = SubSeq(wire, n + 1, Len(wire))

Read ==
  /\ mpc = "read"
  /\ \/ ReadSome /\ UNCHANGED mpc
     \/ Len(buf) = BufKeys /\ mpc' = "use" /\ UNCHANGED <<buf, wire>>
  /\ UNCHANGED <<args, runs, round, tpc, words, index, table, clientVars, done>>

\* The counting thread takes a request, serves it and unlocks finish.
Counting ==
  /\ \/ /\ tpc = "poll" /\ start \in {1, 2}
        /\ start' = 0 /\ tpc' = "serve"
        /\ UNCHANGED <<finish, buf, wire>>
     \/ /\ tpc = "serve" /\ ReadSome
        /\ UNCHANGED <<words, tpc>>
     \/ /\ tpc = "serve" /\ Len(buf) = BufKeys
        /\ finish' = 0 /\ tpc' = "poll"
        /\ UNCHANGED <<start, buf, wire>>
  /\ UNCHANGED <<args, mpc, runs, round, index, table, clientVars, done>>

\* What get of the SUVM table meets there may look like the key: then the word
\* behind it is counted up, in memory that is not the table's.
StrayHit(k) == mode.suvm /\ k \notin Buckets

\* Each key of the buffer is looked up and counted.  Where get finds no bucket
\* it never returns: the step is not enabled.
Lookup ==
  /\ mpc = "use" /\ index <= Len(buf)
  /\ \/ \E b \in Get(table, buf[index]) : table' = [table EXCEPT ![b].val = @ + 1]
     \/ StrayHit(buf[index]) /\ UNCHANGED table
  /\ done' = Append(done, buf[index])
  /\ index' = index + 1
  /\ UNCHANGED <<args, mpc, runs, round, tpc, words, buf, clientVars, wire>>

EndRound ==
  /\ mpc = "use" /\ index > BufKeys
  /\ round' = round + 1
  /\ mpc' = "ask"
  /\ UNCHANGED <<args, runs, tpc, words, buf, index, table, clientVars, wire, done>>

\* Either thread exits the process when its read fails or the client has gone.
ReadFails ==
  /\ Len(buf) < BufKeys /\ (mpc = "read" \/ tpc = "serve")
  /\ mpc' = "failed" /\ tpc' = "off"
  /\ UNCHANGED <<args, runs, round, words, buf, index, table, clientVars, wire, done>>

\* The enclave is destroyed, the byte is written and the process ends.
Answer ==
  /\ \/ mpc = "ask" /\ round = Rounds
     \/ mpc = "answer"
  /\ got' = TRUE
  /\ mpc' = "exited"
  /\ UNCHANGED <<args, runs, round, tpc, words, buf, index, table, cpc, sent, wire, done>>

\* The server is started again: a new process, listening for the client.
Restart ==
  /\ mpc = "exited" /\ cpc = "connect" /\ runs < MaxRuns
  /\ runs' = runs + 1 /\ mpc' = "accept" /\ round' = 0 /\ tpc' = "off"
  /\ start' = 0 /\ finish' = 0 /\ buf' = <<>> /\ index' = 1
  /\ table' = [b \in Buckets |-> Empty] /\ wire' = <<>> /\ done' = <<>>
  /\ UNCHANGED <<args, clientVars>>

-----------------------------------------------------------------------------
\* The client: it retries until the server listens, then sends its block once
\* and waits for the byte.
Send ==
  /\ cpc = "connect" /\ mpc = "accept"
  /\ sent' \in [1..reqKeys -> 0..cacheSize - 1]
  /\ wire' = sent' /\ got' = FALSE
  /\ cpc' = "wait"
  /\ UNCHANGED <<args, mpc, runs, round, tpc, words, buf, index, table, done>>

Receive ==
  /\ cpc = "wait" /\ got
  /\ cpc' = "connect"
  /\ UNCHANGED <<args, mpc, runs, round, tpc, words, buf, index, table, sent, got, wire, done>>

-----------------------------------------------------------------------------
\* The two servers are two programs, and the one without SUVM has its loop
\* twice, in the enclave and outside.
Round == AskRead \/ AskWait \/ Raise \/ Spin \/ Lookup \/ EndRound

rcall_test_llc_internal == ~mode.suvm /\ mode.reg /\ Round
ecall_test_llc_internal == ~mode.suvm /\ ~mode.reg /\ Round
suvm_test_llc_internal == mode.suvm /\ ~mode.reg /\ Round
server_process == ~mode.suvm /\ Accept
suvm_server_process == mode.suvm /\ Accept
ocall_llc_test == ~mode.suvm /\ Read
suvm_ocall_llc_test == mode.suvm /\ Read
sgx_counting_thread == ~mode.suvm /\ Counting
suvm_sgx_counting_thread == mode.suvm /\ Counting

MainStep ==
  \/ server_process \/ suvm_server_process \/ Launch
  \/ rcall_init_hashmap \/ ecall_init_hashmap \/ suvm_ecall_init_hashmap
  \/ rcall_test_llc_internal \/ ecall_test_llc_internal \/ suvm_test_llc_internal
  \/ ocall_llc_test \/ suvm_ocall_llc_test \/ Answer
ThreadStep == sgx_counting_thread \/ suvm_sgx_counting_thread
Next == MainStep \/ ThreadStep \/ ReadFails \/ Restart \/ Send \/ Receive

\* The threads keep running; nothing makes a launch or a read succeed or fail.
Spec == Init /\ [][Next]_vars
        /\ WF_vars(MainStep) /\ WF_vars(ThreadStep) /\ WF_vars(Send) /\ WF_vars(Receive)

-----------------------------------------------------------------------------
\* The server's two threads, the words they share, the buffer and the table
\* keep their types, and the buffer never holds more than its size.
TypeOK ==
  /\ mode \in Modes /\ reqKeys \in ReqKeys /\ cacheSize \in CacheSizes
  /\ mpc \in {"accept", "launch", "lib", "init", "ask", "raise", "spin", "read", "use",
              "answer", "exited", "failed"}
  /\ runs \in 1..MaxRuns /\ round \in 0..Rounds
  /\ tpc \in {"off", "poll", "serve"} /\ start \in 0..2 /\ finish \in 0..1
  /\ buf \in Seq(0..cacheSize - 1) /\ Len(buf) <= BufKeys /\ index \in 1..BufKeys + 1
  /\ table \in [Buckets -> [key : -1..HashMapSize - 1, val : Nat]]
  /\ cpc \in {"connect", "wait"} /\ got \in BOOLEAN

\* The handshake over start and finish keeps request_buf to one thread at a
\* time: while the keys are being looked up the counting thread is not filling
\* the buffer, nor has it been asked to, and the buffer is complete.
BufferExclusive ==
  mpc = "use" => tpc # "serve" /\ start = 0 /\ Len(buf) = BufKeys

\* Every key the client sent is counted exactly once and in order, through
\* short reads, the handshake and the hash map: what was looked up, what is
\* still in the buffer and what is on the wire make up the block that was sent,
\* and each value is the number of times its key was looked up.
EveryKeyCounted ==
  /\ mpc \notin {"accept", "exited", "failed"} =>
        done \o SubSeq(buf, index, Len(buf)) \o wire = sent
  /\ \A b \in Buckets : table[b].val = Occurrences(done, table[b].key)

\* When the one block the client sends holds the keys of all the rounds, all of
\* them in the table, and no launch or read fails, the client gets its answer.
ClientAnswered ==
  (cpc = "wait" /\ reqKeys >= Rounds * BufKeys /\ cacheSize <= HashMapSize)
     ~> (cpc = "connect" \/ mpc = "failed")

=============================================================================
