------------------------------ MODULE FaceServer ------------------------------
(***************************************************************************)
(* The face verification server and its client.  The threads of the client *)
(* connect, wait for one another at a barrier and then each sends its      *)
(* requests over its own connection, waiting for every answer.  One thread *)
(* of the server runs the event loop: it reads a connection into the       *)
(* connection's buffer and, when a message is complete, enqueues a request *)
(* that points at that buffer.  The workers, in the enclave or (with the   *)
(* -l option) outside it, decrypt the request with the client's counter,   *)
(* look the person up, compare the histograms and enqueue the encrypted    *)
(* answer, which a timer of the event loop writes to the connection.       *)
(*                                                                         *)
(* A callback of the event loop is one step: the loop has one thread.  The *)
(* two queues are the Queue of module Rpc, whose operations are atomic.    *)
(* Lengths are scaled: a message has MsgLen units, the first holding the   *)
(* client's id and the key and the others the histogram, and DataSize is   *)
(* one unit less, as DATA_SIZE is four bytes less than a message.  A read  *)
(* finds any number of the units that have arrived, and a connection may   *)
(* be lost at any moment.  Two things the code does not handle are         *)
(* recorded in sound: a read that ends DataSize into a message, which is   *)
(* handed on without its end, and a connection that is freed while a       *)
(* request or an answer still points at it.                                *)
(*                                                                         *)
(* A histogram is the person it is of, in two halves where its copy can be *)
(* seen half done.  AES-CTR gives back the text only with the counter it   *)
(* was made with.                                                          *)
(***************************************************************************)
EXTENDS Integers, Sequences, FiniteSets

CONSTANTS
  Clients,      \* client threads, one connection and one client id each
  Workers,      \* worker threads, NUM_OF_THREADS in the code
  Persons,      \* keys of the database
  Queries,      \* what the requests ask: the person named and the person shown
  Builds,       \* the builds looked at: a subset of {"native", "enclave"}
  ThreadsOf,    \* the workers each build runs
  PerClient,    \* NUM_OF_REQUESTS / NUM_OF_CLIENTS
  MsgLen,       \* units of a message
  WriteLen,     \* units of one write of the client, 16384 bytes in the code
  Losses,       \* the clients that may lose their connection
  QueueSize,    \* Queue::queue_size
  NoPerson,     \* a key the database does not hold
  Garbage,      \* what decrypting with the wrong counter, or freed memory, gives
  None

ASSUME FaceAssumption ==
  /\ PerClient \in Nat \ {0} /\ MsgLen \in Nat \ {0, 1} /\ QueueSize \in Nat \ {0}
  /\ WriteLen \in Nat \ {0} /\ IsFiniteSet(Clients)
  /\ Queries \subseteq (Persons \cup {NoPerson}) \X Persons
  /\ Builds \subseteq {"native", "enclave"}
  /\ \A b \in Builds : ThreadsOf[b] \subseteq Workers
  /\ {NoPerson, Garbage, None} \cap (Persons \cup Clients \cup Workers) = {}

DataSize == MsgLen - 1    \* DATA_SIZE, four bytes less than a message

VARIABLES
  build, server,        \* the build that runs; the server: starting, running, dead
  client, started,      \* the client's threads; thread_start_count
  net, back,            \* units on their way to the server and answers on their way back
  conn,                 \* the event loop's connections: bufferevent, buffer, total_read
  requests, responses,  \* the queues g_request_queue and g_response_queue
  ctrDec, ctrEnc,       \* the counters of each client id
  work, shared,         \* the workers; the static hist_from_hash
  sound                 \* history: no message was cut, no connection freed in use

envVars   == <<build, server>>
sockVars  == <<net, back>>
queueVars == <<requests, responses>>
ctrVars   == <<ctrDec, ctrEnc>>
workVars  == <<work, shared>>
vars == <<envVars, client, started, sockVars, conn, queueVars, ctrVars, workVars, sound>>

-----------------------------------------------------------------------------
\* A message: its client's id, the counter it was encrypted with, and the
\* person it names and shows; what a cut one decrypts to may show nobody.  On
\* the wire it is a sequence of units.
Plains == [id : Clients, seq : 0..PerClient - 1, key : Persons \cup {NoPerson}, face : Persons \cup {NoPerson}]
Messages == {m \in Plains : <<m.key, m.face>> \in Queries}
Units(m) == [i \in 1..MsgLen |-> <<m, i>>]

ASSUME MarkAssumption == Garbage \notin Messages /\ None \notin Messages \X (1..MsgLen)

\* A histogram: the person each half is of.
Both(p) == [h \in 1..2 |-> p]

IdleWorker == [pc |-> "poll", job |-> None, id |-> None, plain |-> None,
               hist |-> Both(NoPerson), answer |-> FALSE]

Init ==
  /\ build \in Builds /\ server = "starting"
  /\ client = [c \in Clients |-> [pc |-> "connect", seq |-> 0, ctr |-> 0, off |-> 0,
                                  asked |-> None, got |-> None]]
  /\ started = 0
  /\ net = [c \in Clients |-> <<>>] /\ back = [c \in Clients |-> <<>>]
  /\ conn = [c \in Clients |-> [bev |-> "none", data |-> [i \in 1..MsgLen |-> None], totalRead |-> 0]]
  /\ requests = <<>> /\ responses = <<>>
  /\ ctrDec = [c \in Clients |-> 0] /\ ctrEnc = [c \in Clients |-> 0]
  /\ work = [w \in Workers |-> IdleWorker] /\ shared = Both(NoPerson)
  /\ sound = TRUE

-----------------------------------------------------------------------------
\* The client: enc_thread_start.

\* A thread whose connect fails returns before it is counted.
Connect(c) ==
  /\ client[c].pc = "connect"
  /\ client' = [client EXCEPT ![c].pc = IF server = "running" THEN "barrier" ELSE "failed"]
  /\ started' = IF server = "running" THEN started + 1 ELSE started
  /\ UNCHANGED <<envVars, sockVars, conn, queueVars, ctrVars, workVars, sound>>

BugAllStarted == started > Cardinality(Clients)
AllStarted == started >= Cardinality(Clients)

PassBarrier(c) ==
  /\ client[c].pc = "barrier" /\ AllStarted
  /\ client' = [client EXCEPT ![c].pc = "send"]
  /\ UNCHANGED <<envVars, started, sockVars, conn, queueVars, ctrVars, workVars, sound>>

\* The thread turns to its next request.
Send(c) ==
  /\ client[c].pc = "send"
  /\ \E m \in Messages :
       /\ m.id = c /\ m.seq = client[c].seq
       /\ client' = [client EXCEPT ![c].asked = m, ![c].seq = @ + 1, ![c].off = 0, ![c].pc = "write"]
  /\ UNCHANGED <<envVars, started, sockVars, conn, queueVars, ctrVars, workVars, sound>>

\* It writes the request in pieces of WriteLen, the last one being what is left.
WriteEnd(c) == IF MsgLen - client[c].off < WriteLen THEN MsgLen ELSE client[c].off + WriteLen
WriteThen(c, pc) ==
  /\ client[c].pc = "write"
  /\ net' = [net EXCEPT ![c] = @ \o SubSeq(Units(client[c].asked), client[c].off + 1, WriteEnd(c))]
  /\ client' = [client EXCEPT ![c].off = WriteEnd(c), ![c].pc = IF WriteEnd(c) < MsgLen THEN "write" ELSE pc]
  /\ UNCHANGED <<envVars, started, back, conn, queueVars, ctrVars, workVars, sound>>

\* Then it waits for the answer.
BugWrite(c) == WriteThen(c, IF client[c].seq < PerClient THEN "send" ELSE "wait")
Write(c) == WriteThen(c, "wait")

Receive(c) ==
  /\ client[c].pc = "wait" /\ back[c] # <<>>
  /\ LET r == Head(back[c])
         readable == r.id = c /\ r.seq = client[c].ctr
     IN  client' = [client EXCEPT ![c].got = IF readable THEN r.answer ELSE Garbage,
                                  ![c].ctr = @ + 1,
                                  ![c].pc = IF client[c].seq < PerClient THEN "send" ELSE "closed"]
  /\ back' = [back EXCEPT ![c] = Tail(@)]
  /\ UNCHANGED <<envVars, started, net, conn, queueVars, ctrVars, workVars, sound>>

\* The connection is lost, or the client killed: what was on its way to the
\* server still arrives or is discarded.  What the thread makes of it (its reads
\* and writes are not checked) is not followed.
Drop(c) ==
  /\ c \in Losses /\ client[c].pc \in {"barrier", "send", "write", "wait"}
  /\ client' = [client EXCEPT ![c].pc = "gone"]
  /\ net' \in {net, [net EXCEPT ![c] = <<>>]}
  /\ UNCHANGED <<envVars, started, back, conn, queueVars, ctrVars, workVars, sound>>

-----------------------------------------------------------------------------
\* The server: main and the callbacks of the event loop.

\* main prepares the database, starts the workers and then listens.
runServer ==
  /\ server = "starting"
  /\ server' = "running"
  /\ UNCHANGED <<build, client, started, sockVars, conn, queueVars, ctrVars, workVars, sound>>

accept_conn_cb(c) ==
  /\ conn[c].bev = "none" /\ client[c].pc \notin {"connect", "failed"}
  /\ conn' = [conn EXCEPT ![c].bev = "open"]
  /\ UNCHANGED <<envVars, client, started, sockVars, queueVars, ctrVars, workVars, sound>>

\* do_trusted_logic: a request that points at the buffer of the connection.
do_trusted_logic(c) == requests' = Append(requests, c)

\* The n units that have arrived are appended to the buffer.  Once it holds
\* DataSize of them the length is set to next and the buffer is enqueued.  The
\* buffer is allocated with room for DataSize only, but malloc rounds its size
\* up by more than the one unit that a whole message needs besides; what comes
\* beyond a message is not kept.
ReadThen(c, n, next) ==
  LET have == conn[c].totalRead + n
  IN  /\ conn[c].bev = "open"
      /\ conn' = [conn EXCEPT
           ![c].data = [i \in 1..MsgLen |-> IF i > have - n /\ i <= have
                                            THEN net[c][i - have + n] ELSE @[i]],
           ![c].totalRead = IF have < DataSize THEN have ELSE next]
      /\ net' = [net EXCEPT ![c] = SubSeq(@, n + 1, Len(@))]
      /\ IF have < DataSize THEN UNCHANGED requests ELSE do_trusted_logic(c)
      /\ sound' = (sound /\ have # DataSize)
      /\ UNCHANGED <<envVars, client, started, back, responses, ctrVars, workVars>>

Bugecho_read_cb(c, n) == ReadThen(c, n, DataSize)
echo_read_cb(c, n) == ReadThen(c, n, 0)

\* The requests and answers that refer to the connection or its buffer.
Refers(c) ==
  \/ \E i \in DOMAIN requests : requests[i] = c
  \/ \E w \in Workers : work[w].job = c
  \/ \E i \in DOMAIN responses : responses[i].conn = c

\* End of file, or an error: the connection and its buffer are freed, whoever
\* still refers to them.
EndOfFile(c) == client[c].pc \in {"closed", "gone"} /\ net[c] = <<>>

echo_event_cb(c) ==
  /\ conn[c].bev = "open" /\ EndOfFile(c)
  /\ conn' = [conn EXCEPT ![c].bev = "freed"]
  /\ sound' = (sound /\ ~Refers(c))
  /\ UNCHANGED <<envVars, client, started, sockVars, queueVars, ctrVars, workVars>>

\* send_answer dequeues a response.
send_answer(r) == responses # <<>> /\ r = Head(responses) /\ responses' = Tail(responses)

\* The timer writes the answer to its connection; its loop over the responses
\* is as many of these steps.  Through a freed connection it gets lost, or to
\* whoever has the memory now.
cb_func ==
  /\ \E r \in {Head(responses) : x \in DOMAIN responses} :
       /\ send_answer(r)
       /\ \/ \E c \in (IF conn[r.conn].bev = "open" THEN {r.conn} ELSE Clients) :
               back' = [back EXCEPT ![c] = Append(@, r)]
          \/ conn[r.conn].bev # "open" /\ UNCHANGED back
  /\ UNCHANGED <<envVars, client, started, net, conn, requests, ctrVars, workVars, sound>>

-----------------------------------------------------------------------------
\* The workers: workload_face_verification.

Dequeue(w) ==
  /\ server = "running" /\ w \in ThreadsOf[build] /\ work[w].pc = "poll" /\ requests # <<>>
  /\ work' = [work EXCEPT ![w].job = Head(requests), ![w].pc = "decrypt"]
  /\ requests' = Tail(requests)
  /\ UNCHANGED <<envVars, client, started, sockVars, conn, responses, ctrVars, shared, sound>>

\* The buffer a request points at begins with a client's id, and what it then
\* decrypts to with the counter at hand: with the right one the key and the
\* histogram, which is somebody else's or nobody's if units of it are wrong.
Sane(k) == k.bev = "open" /\ k.data[1] # None /\ k.data[1][2] = 1
Decrypted(k, n) ==
  LET m == k.data[1][1]
  IN  IF ~Sane(k) \/ m.seq # n THEN {Garbage}
      ELSE IF k.data = Units(m) THEN {m}
      ELSE {[m EXCEPT !.face = f] : f \in Persons \cup {NoPerson}}

\* The id is read from the buffer and the rest decrypted with that client's
\* counter, which moves on.
Decrypt(w) ==
  LET k == conn[work[w].job]
  IN  /\ work[w].pc = "decrypt"
      /\ \E i \in (IF Sane(k) THEN {k.data[1][1].id} ELSE Clients) :
           /\ \E t \in Decrypted(k, ctrDec[i]) :
                work' = [work EXCEPT ![w].id = i, ![w].pc = "lookup", ![w].plain = t]
           /\ ctrDec' = [ctrDec EXCEPT ![i] = @ + 1]
      /\ UNCHANGED <<envVars, client, started, sockVars, conn, queueVars, ctrEnc, shared, sound>>

\* The person whose entry hash_get finds.
Found(w) == IF work[w].plain = Garbage THEN NoPerson ELSE work[w].plain.key

\* do_one outside the enclave compares with the entry of the table itself, or
\* with the empty histogram when there is none.
NativeDoOne(w) ==
  /\ work[w].pc = "lookup"
  /\ work' = [work EXCEPT ![w].hist = Both(Found(w)), ![w].pc = "compare"]
  /\ UNCHANGED <<envVars, client, started, sockVars, conn, queueVars, ctrVars, shared, sound>>

\* do_one in the enclave copies the entry out of SUVM into hist_from_hash,
\* which is static and so one buffer for all the workers, and compares with
\* that buffer.
EnclaveDoOne(w) ==
  /\ \/ /\ work[w].pc = "lookup" /\ Found(w) = NoPerson
        /\ work' = [work EXCEPT ![w].pc = "compare"]
        /\ UNCHANGED shared
     \/ /\ work[w].pc = "lookup" /\ Found(w) # NoPerson
        /\ shared' = [shared EXCEPT ![1] = Found(w)]
        /\ work' = [work EXCEPT ![w].pc = "copy"]
     \/ /\ work[w].pc = "copy"
        /\ shared' = [shared EXCEPT ![2] = Found(w)]
        /\ work' = [work EXCEPT ![w].pc = "distance"]
     \/ /\ work[w].pc = "distance"
        /\ work' = [work EXCEPT ![w].hist = shared, ![w].pc = "compare"]
        /\ UNCHANGED shared
  /\ UNCHANGED <<envVars, client, started, sockVars, conn, queueVars, ctrVars, sound>>

\* The distance is below the threshold when both histograms are of one person,
\* and may be anything from one that was not decrypted.
BugVerdict(w) == {TRUE}
Verdict(w) == IF work[w].plain = Garbage THEN BOOLEAN
              ELSE {work[w].hist = Both(work[w].plain.face)}

Compare(w) ==
  /\ work[w].pc = "compare"
  /\ \E a \in Verdict(w) : work' = [work EXCEPT ![w].answer = a, ![w].pc = "respond"]
  /\ UNCHANGED <<envVars, client, started, sockVars, conn, queueVars, ctrVars, shared, sound>>

\* The answer is encrypted with the client's other counter and enqueued.
Respond(w) ==
  LET i == work[w].id
  IN  /\ work[w].pc = "respond"
      /\ ctrEnc' = [ctrEnc EXCEPT ![i] = @ + 1]
      /\ responses' = Append(responses, [conn |-> work[w].job, id |-> i, seq |-> ctrEnc[i],
                                         answer |-> work[w].answer])
      /\ work' = [work EXCEPT ![w] = IdleWorker]
      /\ UNCHANGED <<envVars, client, started, sockVars, conn, requests, ctrDec, shared, sound>>

\* The server ends: outside the enclave when AES-CTR fails (exit, abort), and
\* anywhere when it follows an id that is none, or a freed connection.
Die ==
  /\ \/ \E w \in Workers : build = "native" /\ work[w].pc \in {"decrypt", "respond"}
     \/ \E w \in Workers : work[w].pc = "decrypt" /\ ~Sane(conn[work[w].job])
     \/ \E r \in {Head(responses) : x \in DOMAIN responses} : conn[r.conn].bev # "open"
  /\ server' = "dead"
  /\ UNCHANGED <<build, client, started, sockVars, conn, queueVars, ctrVars, workVars, sound>>

-----------------------------------------------------------------------------
ClientStep(c) == Connect(c) \/ PassBarrier(c) \/ Send(c) \/ Write(c) \/ Receive(c)
ReadStep(c) == \E n \in 1..Len(net[c]) : echo_read_cb(c, n)
LoopStep == cb_func \/ \E c \in Clients : accept_conn_cb(c) \/ ReadStep(c) \/ echo_event_cb(c)
Serve(w) == Dequeue(w) \/ Decrypt(w) \/ Compare(w) \/ Respond(w)
workload_face_verification(w) == build = "enclave" /\ (Serve(w) \/ EnclaveDoOne(w))
native_workload_face_verification(w) == build = "native" /\ (Serve(w) \/ NativeDoOne(w))
WorkerStep(w) == workload_face_verification(w) \/ native_workload_face_verification(w)

\* Nothing is followed beyond the end of the server.
Running == server # "dead"
Next ==
  /\ Running
  /\ \/ runServer \/ LoopStep \/ Die
     \/ \E c \in Clients : ClientStep(c) \/ Drop(c)
     \/ \E w \in Workers : WorkerStep(w)

\* Every thread of the two programs keeps running: none waits for another but
\* by polling, and the event loop serves all its connections.
Fairness ==
  /\ WF_vars(Running /\ runServer) /\ WF_vars(Running /\ cb_func)
  /\ \A c \in Clients :
       /\ WF_vars(Running /\ ClientStep(c)) /\ WF_vars(Running /\ accept_conn_cb(c))
       /\ WF_vars(Running /\ ReadStep(c)) /\ WF_vars(Running /\ echo_event_cb(c))
  /\ \A w \in Workers : WF_vars(Running /\ WorkerStep(w))

Spec == Init /\ [][Next]_vars /\ Fairness

-----------------------------------------------------------------------------
\* The client's threads, the event loop's connections, the queues and the
\* workers keep their types, and no read leaves DataSize or more behind.
TypeOK ==
  /\ build \in Builds /\ server \in {"starting", "running", "dead"} /\ started \in 0..Cardinality(Clients)
  /\ client \in [Clients -> [pc : {"connect", "failed", "barrier", "send", "write", "wait", "closed", "gone"},
                             seq : 0..PerClient, ctr : 0..PerClient, off : 0..MsgLen,
                             asked : Messages \cup {None}, got : BOOLEAN \cup {None, Garbage}]]
  /\ \A c \in Clients :
       /\ net[c] \in Seq(Messages \X (1..MsgLen))
       /\ conn[c].bev \in {"none", "open", "freed"}
       /\ conn[c].totalRead \in 0..DataSize - 1
       /\ conn[c].data \in [1..MsgLen -> (Messages \X (1..MsgLen)) \cup {None}]
  /\ requests \in Seq(Clients)
  /\ ctrDec \in [Clients -> Nat] /\ ctrEnc \in [Clients -> Nat]
  /\ work \in [Workers -> [pc : {"poll", "decrypt", "lookup", "copy", "distance", "compare", "respond"},
                           job : Clients \cup {None}, id : Clients \cup {None},
                           plain : Plains \cup {None, Garbage},
                           hist : [1..2 -> Persons \cup {NoPerson}], answer : BOOLEAN]]
  /\ shared \in [1..2 -> Persons \cup {NoPerson}] /\ sound \in BOOLEAN

\* The answer a client decrypts is the verdict on the request it sent: the
\* shared buffers, the two queues and the counters of both sides never mix up
\* two requests.  The client on the other end of a sound server need not be
\* careful: connections may be lost between requests, while one is sent, and
\* after its answer.
AnsweredRight(c) == client[c].got = (client[c].asked.key = client[c].asked.face)
Answered(c) == client[c].got # None /\ client[c].pc \in {"send", "closed"}
AnswersRight == sound => \A c \in Clients : Answered(c) => AnsweredRight(c)

\* The same of every answer, as the comment on the reset of total_read ("reset for
\* next message...") has it: no read is left out, and DATA_SIZE is too small.
EveryAnswerRight == \A c \in Clients : Answered(c) => AnsweredRight(c)

\* The places a request of client c can be: the queues and the workers.
InFlight(c) ==
  Cardinality({i \in DOMAIN requests : requests[i] = c})
    + Cardinality({w \in Workers : work[w].job = c})
    + Cardinality({i \in DOMAIN responses : responses[i].conn = c})

\* A connection has one request at most in the queues and with the workers, and
\* while it has, its buffer holds what the client asked for, whole, and nothing
\* that would be read into it is on its way.
BuffersStable ==
  sound => \A c \in Clients :
     /\ InFlight(c) <= 1
     /\ InFlight(c) = 1 => /\ conn[c].data = Units(client[c].asked)
                           /\ conn[c].totalRead = 0 /\ net[c] = <<>>

\* The bufferevent that an answer is sent through is there, as cb_func takes it
\* to be: a connection is not freed while something refers to it.
ConnectionsHeld == \A c \in Clients : Refers(c) => conn[c].bev = "open"

\* Queue::enqueue aborts the server when the queue is full; there are never more
\* requests or responses than clients.
QueuesBounded == sound => Len(requests) <= QueueSize /\ Len(responses) <= QueueSize

\* Unless a thread could not connect (then the others wait for it at the barrier
\* for ever), a message was cut, a connection freed in use or the server ended,
\* every request is answered and every connection is closed and freed.
ClientsFinish ==
  <>(\/ ~sound \/ server = "dead"
     \/ \E c \in Clients : client[c].pc = "failed"
     \/ \A c \in Clients : client[c].pc \in {"closed", "gone"} /\ conn[c].bev = "freed")

=============================================================================
