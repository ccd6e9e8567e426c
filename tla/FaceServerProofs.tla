--------------------------- MODULE FaceServerProofs ---------------------------
(***************************************************************************)
(* Machine-checked proofs about the face verification programs, in two     *)
(* parts:                                                                  *)
(*   1. the server and its clients while they run, for any number of       *)
(*      clients, workers, persons and requests, any length of a message,   *)
(*      of a write and of a read, any size of the queues and connections   *)
(*      that are lost at any moment.  The types hold in every state; in    *)
(*      every sound one (no read ended DataSize into a message, no         *)
(*      connection was freed in use) each request is in a single place: on *)
(*      the wire, in a queue, with a worker, or answered;                  *)
(*   2. what the clients send, which module FaceServer takes as given: the *)
(*      generator's file and the arrays that the client loads from it hold *)
(*      each connection's requests in the order of its counter.            *)
(***************************************************************************)
EXTENDS FaceServer, FiniteSetTheorems, FunctionTheorems, SequenceTheorems, TLAPS

\* The enclave runs one worker: two would share hist_from_hash.
OneInside ==
  "enclave" \in Builds =>
    \A v \in ThreadsOf["enclave"], w \in ThreadsOf["enclave"] : v = w

\* Each client's connection has room in the queues.
QueueFits == Cardinality(Clients) <= QueueSize

-----------------------------------------------------------------------------
\* The types, and what they need to be kept: a client's counter follows its
\* requests, and a worker past its decryption has an id and a text.
Wire    == Messages \X (1..MsgLen)
Replies == [conn : Clients, id : Clients, seq : Nat, answer : BOOLEAN]
Conns   == [bev : {"none", "open", "freed"}, data : [1..MsgLen -> Wire \cup {None}],
            totalRead : 0..DataSize - 1]
Hists   == [1..2 -> Persons \cup {NoPerson}]

ClientRecs == [pc : {"connect", "failed", "barrier", "send", "write", "wait", "closed", "gone"},
               seq : 0..PerClient, ctr : 0..PerClient, off : 0..MsgLen,
               asked : Messages \cup {None}, got : BOOLEAN \cup {None, Garbage}]
Threads == {k \in ClientRecs :
              /\ k.pc \in {"connect", "barrier"} => k.seq = 0 /\ k.ctr = 0
              /\ k.pc = "send" => k.seq < PerClient /\ k.ctr = k.seq
              /\ k.pc \in {"write", "wait"} => k.asked \in Messages /\ k.seq = k.ctr + 1}

WorkRecs == [pc : {"poll", "decrypt", "lookup", "copy", "distance", "compare", "respond"},
             job : Clients \cup {None}, id : Clients \cup {None},
             plain : Plains \cup {None, Garbage}, hist : Hists, answer : BOOLEAN]
Jobs == {k \in WorkRecs :
           /\ k.pc = "poll" => k = IdleWorker
           /\ k.pc # "poll" => k.job \in Clients
           /\ k.pc \notin {"poll", "decrypt"} => k.id \in Clients /\ k.plain \in Plains \cup {Garbage}}

FType ==
  /\ build \in Builds /\ server \in {"starting", "running", "dead"} /\ sound \in BOOLEAN
  /\ client \in [Clients -> Threads]
  /\ net \in [Clients -> Seq(Wire)] /\ back \in [Clients -> Seq(Replies)]
  /\ conn \in [Clients -> Conns]
  /\ requests \in Seq(Clients) /\ responses \in Seq(Replies)
  /\ ctrDec \in [Clients -> Nat] /\ ctrEnc \in [Clients -> Nat]
  /\ work \in [Workers -> Jobs] /\ shared \in Hists

Counted == {c \in Clients : client[c].pc \notin {"connect", "failed"}}
StartInv == started = Cardinality(Counted)

\* What holds in every state, sound or not.
Base == FType /\ StartInv /\ (sound => ConnectionsHeld)

-----------------------------------------------------------------------------
\* Where a client's request is.
Places == {"none", "net", "request", "worker", "response", "back"}
Right(m) == m.key = m.face

\* The units of a message after the t-th, up to the u-th.
Seg(m, t, u) == [i \in 1..u - t |-> <<m, t + i>>]

\* A message on the wire, of a client k with the stream n and the connection v: the
\* part that was read is in the buffer, and what was written since is to come.  If
\* the client is gone it may never come.
Stream(m, k, n, v) ==
  /\ v.totalRead <= k.off
  /\ n = Seg(m, v.totalRead, k.off) \/ (k.pc = "gone" /\ n = <<>>)
  /\ \A i \in 1..v.totalRead : v.data[i] = <<m, i>>

\* An answer to the message m of client c.
Answer(r, c, m) ==
  /\ r.conn = c /\ r.id = c /\ r.seq = m.seq
  /\ OneInside => r.answer = Right(m)

\* A client k between two requests, and one that has a request in place p; n, b are
\* its two streams, v its connection, dec and enc its counters in the server.
Resting(k, dec, enc) ==
  /\ k.ctr = k.seq /\ dec = k.seq /\ enc = k.seq
  /\ k.pc \notin {"send", "closed"} => k.got = None
  /\ k.got # None => k.asked \in Messages /\ (OneInside => k.got = Right(k.asked))

Waiting(c, k, p, dec, enc) ==
  /\ k.asked \in Messages /\ k.asked.id = c
  /\ k.seq = k.asked.seq + 1 /\ k.ctr = k.asked.seq
  /\ p \in {"net", "request"} => dec = k.asked.seq
  /\ p \in {"response", "back"} => dec = k.asked.seq + 1
  /\ enc = IF p \in {"response", "back"} THEN k.asked.seq + 1 ELSE k.asked.seq

Own(c, p, k, n, b, v, dec, enc) ==
  /\ p = "none" => k.pc \notin {"write", "wait"}
  /\ p # "none" => k.pc \in {"write", "wait", "gone"}
  /\ k.pc = "write" => p = "net" /\ k.off < MsgLen
  /\ p = "none" /\ k.pc # "gone" => Resting(k, dec, enc)
  /\ p # "none" => Waiting(c, k, p, dec, enc)
  /\ IF p = "net" THEN Stream(k.asked, k, n, v) ELSE n = <<>> /\ v.totalRead = 0
  /\ IF p = "back" THEN Len(b) = 1 /\ Answer(b[1], c, k.asked) ELSE b = <<>>
  /\ p \in {"request", "worker", "response"} => v.data = Units(k.asked)

ClientsInv(place) ==
  \A c \in Clients : Own(c, place[c], client[c], net[c], back[c], conn[c], ctrDec[c], ctrEnc[c])

RequestsInv(place) ==
  /\ \A i \in DOMAIN requests : place[requests[i]] = "request"
  /\ \A i, j \in DOMAIN requests : requests[i] = requests[j] => i = j

ResponsesInv(place) ==
  /\ \A i \in DOMAIN responses :
       LET r == responses[i]
       IN  place[r.conn] = "response" /\ Answer(r, r.conn, client[r.conn].asked)
  /\ \A i, j \in DOMAIN responses : responses[i].conn = responses[j].conn => i = j

\* A worker k that handles the message m; dec is the client's counter.
Job(k, m, dec, sh) ==
  /\ k.pc = "decrypt" => dec = m.seq
  /\ k.pc # "decrypt" => dec = m.seq + 1 /\ k.id = k.job /\ k.plain = m
  /\ k.pc \in {"decrypt", "lookup"} => k.hist = Both(NoPerson)
  /\ k.pc \in {"copy", "distance"} => m.key # NoPerson /\ build = "enclave"
  /\ OneInside => /\ k.pc = "copy" => sh[1] = m.key
                  /\ k.pc = "distance" => sh = Both(m.key)
                  /\ k.pc = "compare" => k.hist = Both(m.key)
                  /\ k.pc = "respond" => k.answer = Right(m)

WorkersInv(place) ==
  \A w \in Workers :
    work[w].pc # "poll" =>
      /\ w \in ThreadsOf[build]
      /\ place[work[w].job] = "worker"
      /\ \A v \in Workers : work[v].job = work[w].job => v = w
      /\ Job(work[w], client[work[w].job].asked, ctrDec[work[w].job], shared)

Holds(place) ==
  /\ place \in [Clients -> Places]
  /\ sound /\ Base
  /\ ClientsInv(place) /\ RequestsInv(place) /\ ResponsesInv(place) /\ WorkersInv(place)

\* The inductive invariant.
PlacesInv == Base /\ (sound => \E place \in [Clients -> Places] : Holds(place))

-----------------------------------------------------------------------------
\* Messages on the wire.
LEMMA SegSeq ==
  ASSUME NEW m \in Messages, NEW t \in 0..MsgLen, NEW u \in 0..MsgLen, t <= u
  PROVE  /\ Seg(m, t, u) \in Seq(Wire) /\ Len(Seg(m, t, u)) = u - t
         /\ \A i \in 1..u - t : Seg(m, t, u)[i] = <<m, t + i>>
         /\ t = u => Seg(m, t, u) = <<>>
<1>1. MsgLen \in Nat /\ u - t \in Nat
  BY FaceAssumption
<1>2. \A i \in 1..u - t : <<m, t + i>> \in Wire
  BY <1>1 DEF Wire
<1>3. Seg(m, t, u) \in [1..u - t -> Wire] /\ \A i \in 1..u - t : Seg(m, t, u)[i] = <<m, t + i>>
  BY <1>2 DEF Seg
<1>4. Seg(m, t, u) \in Seq(Wire) /\ Len(Seg(m, t, u)) = u - t
  BY <1>1, <1>3
<1>5. t = u => Seg(m, t, u) = <<>>
  BY <1>4, EmptySeq
<1> QED BY <1>3, <1>4, <1>5

\* The units of a whole message.
LEMMA UnitsSeq ==
  ASSUME NEW m \in Messages
  PROVE  /\ Units(m) \in Seq(Wire) /\ Len(Units(m)) = MsgLen
         /\ Units(m) \in [1..MsgLen -> Wire \cup {None}]
         /\ \A i \in 1..MsgLen : Units(m)[i] = <<m, i>>
<1>1. MsgLen \in Nat
  BY FaceAssumption
<1>2. Units(m) \in [1..MsgLen -> Wire] /\ \A i \in 1..MsgLen : Units(m)[i] = <<m, i>>
  BY DEF Units, Wire
<1> QED BY <1>1, <1>2

\* What the client writes next.
LEMMA Written ==
  ASSUME NEW m \in Messages, NEW t \in 0..MsgLen, NEW u \in 0..MsgLen, t <= u
  PROVE  SubSeq(Units(m), t + 1, u) = Seg(m, t, u)
<1> DEFINE s == Units(m)
           y == SubSeq(s, t + 1, u)
           v == Seg(m, t, u)
<1>1. MsgLen \in Nat
  BY FaceAssumption
<1>2. s \in Seq(Wire) /\ Len(s) = MsgLen /\ \A i \in 1..MsgLen : s[i] = <<m, i>>
  BY UnitsSeq
<1>3. v \in Seq(Wire) /\ Len(v) = u - t /\ \A i \in 1..u - t : v[i] = <<m, t + i>>
  BY SegSeq
<1>4. \A i \in t + 1 .. u : s[i] \in Wire
  BY <1>1, <1>2, ElementOfSeq
<1> HIDE DEF s, v
<1>5. /\ y \in Seq(Wire) /\ Len(y) = (IF t + 1 <= u THEN u - (t + 1) + 1 ELSE 0)
      /\ \A i \in 1 .. u - (t + 1) + 1 : y[i] = s[(t + 1) + i - 1]
  BY <1>1, <1>2, <1>4, SubSeqProperties
<1>6. Len(y) = u - t
  BY <1>1, <1>5
<1>7. ASSUME NEW i \in 1..Len(y) PROVE y[i] = v[i]
  <2>1. /\ i \in 1 .. u - (t + 1) + 1 /\ (t + 1) + i - 1 = t + i
        /\ t + i \in 1..MsgLen /\ i \in 1..u - t
    BY <1>1, <1>6
  <2> QED BY <1>2, <1>3, <1>5, <2>1
<1>8. y = v
  BY <1>3, <1>5, <1>6, <1>7, SeqEqual
<1> QED BY <1>8 DEF s, v

\* Two pieces that follow one another.
LEMMA SegConcat ==
  ASSUME NEW m \in Messages, NEW t \in 0..MsgLen, NEW u \in 0..MsgLen, NEW e \in 0..MsgLen,
         t <= u, u <= e
  PROVE  Seg(m, t, u) \o Seg(m, u, e) = Seg(m, t, e)
<1> DEFINE a == Seg(m, t, u)
           b == Seg(m, u, e)
           v == Seg(m, t, e)
<1>1. MsgLen \in Nat /\ t <= e
  BY FaceAssumption
<1>2. /\ a \in Seq(Wire) /\ Len(a) = u - t /\ \A i \in 1..u - t : a[i] = <<m, t + i>>
      /\ b \in Seq(Wire) /\ Len(b) = e - u /\ \A i \in 1..e - u : b[i] = <<m, u + i>>
      /\ v \in Seq(Wire) /\ Len(v) = e - t /\ \A i \in 1..e - t : v[i] = <<m, t + i>>
  BY <1>1, SegSeq
<1> HIDE DEF a, b, v
<1>3. a \o b \in Seq(Wire) /\ Len(a \o b) = e - t
  <2>1. a \o b \in Seq(Wire) /\ Len(a \o b) = Len(a) + Len(b)
    <3>1. a \in Seq(Wire) /\ b \in Seq(Wire)
      BY <1>2
    <3> QED BY <3>1, ConcatProperties
  <2>2. Len(a) + Len(b) = e - t
    BY <1>1, <1>2
  <2> QED BY <2>1, <2>2
<1>4. ASSUME NEW i \in 1..e - t PROVE (a \o b)[i] = v[i]
  <2>1. CASE i <= u - t
    <3>1. i \in 1..Len(a) + Len(b) /\ i <= Len(a) /\ i \in 1..u - t
      BY <1>1, <1>2, <2>1
    <3>2. (a \o b)[i] = a[i]
      BY <1>2, <3>1, ConcatProperties
    <3> QED BY <1>2, <3>1, <3>2
  <2>2. CASE ~(i <= u - t)
    <3>1. /\ i \in 1..Len(a) + Len(b) /\ ~(i <= Len(a)) /\ i - Len(a) \in 1..e - u
          /\ u + (i - Len(a)) = t + i
      BY <1>1, <1>2, <2>2
    <3>2. (a \o b)[i] = b[i - Len(a)]
      BY <1>2, <3>1, ConcatProperties
    <3> QED BY <1>2, <3>1, <3>2
  <2> QED BY <2>1, <2>2
<1>5. a \o b = v
  BY <1>2, <1>3, <1>4, SeqEqual
<1> QED BY <1>5 DEF a, b, v

\* A read of n units leaves the rest.
LEMMA SegRest ==
  ASSUME NEW m \in Messages, NEW t \in 0..MsgLen, NEW u \in 0..MsgLen, NEW n \in 1..MsgLen,
         t + n <= u
  PROVE  SubSeq(Seg(m, t, u), n + 1, Len(Seg(m, t, u))) = Seg(m, t + n, u)
<1> DEFINE s == Seg(m, t, u)
           y == SubSeq(s, n + 1, Len(s))
           v == Seg(m, t + n, u)
<1>1. MsgLen \in Nat /\ t + n \in 0..MsgLen /\ t <= u
  BY FaceAssumption
<1>2. /\ s \in Seq(Wire) /\ Len(s) = u - t /\ \A i \in 1..u - t : s[i] = <<m, t + i>>
      /\ v \in Seq(Wire) /\ Len(v) = u - (t + n)
      /\ \A i \in 1..u - (t + n) : v[i] = <<m, (t + n) + i>>
  BY <1>1, SegSeq
<1>5. \A i \in n + 1 .. Len(s) : s[i] \in Wire
  BY <1>1, <1>2, ElementOfSeq
<1> HIDE DEF s, v
<1>6. /\ y \in Seq(Wire) /\ Len(y) = (IF n + 1 <= Len(s) THEN Len(s) - (n + 1) + 1 ELSE 0)
      /\ \A i \in 1 .. Len(s) - (n + 1) + 1 : y[i] = s[(n + 1) + i - 1]
  BY <1>1, <1>2, <1>5, SubSeqProperties
<1>7. Len(y) = u - (t + n)
  BY <1>1, <1>2, <1>6
<1>8. ASSUME NEW i \in 1..Len(y) PROVE y[i] = v[i]
  <2>1. /\ i \in 1 .. Len(s) - (n + 1) + 1 /\ (n + 1) + i - 1 = n + i
        /\ n + i \in 1..u - t /\ i \in 1..u - (t + n) /\ t + (n + i) = (t + n) + i
    BY <1>1, <1>2, <1>7
  <2> QED BY <1>2, <1>6, <2>1
<1>9. y = v
  BY <1>2, <1>6, <1>7, <1>8, SeqEqual
<1> QED BY <1>9 DEF s, v

-----------------------------------------------------------------------------
\* The types.  First what a record of a thread, a connection or a worker becomes.
LEMMA BothTyped ==
  ASSUME NEW p \in Persons \cup {NoPerson}
  PROVE  Both(p) \in Hists
BY DEF Both, Hists

\* An idle worker has no request.
LEMMA IdleTyped == /\ IdleWorker \in Jobs /\ IdleWorker.job = None /\ IdleWorker.pc = "poll"
                   /\ IdleWorker.hist = Both(NoPerson) /\ None \notin Clients
<1>1. Both(NoPerson) \in Hists
  BY BothTyped
<1>2. None \notin Clients
  BY FaceAssumption
<1> QED BY <1>1, <1>2 DEF IdleWorker, WorkRecs, Jobs

\* A message is of a client, and names and shows persons.
LEMMA MessageFacts ==
  ASSUME NEW m \in Plains
  PROVE  /\ m.id \in Clients /\ m.seq \in 0..PerClient - 1 /\ m.seq \in Nat
         /\ m.key \in Persons \cup {NoPerson} /\ m.face \in Persons \cup {NoPerson}
BY FaceAssumption DEF Plains

\* thread_start_count changes with the threads that it counts.
LEMMA StartSame ==
  ASSUME StartInv, started' = started,
         \A c \in Clients : client'[c].pc \in {"connect", "failed"}
                              <=> client[c].pc \in {"connect", "failed"}
  PROVE  StartInv'
<1>1. Counted' = Counted
  BY DEF Counted
<1> QED BY <1>1 DEF StartInv

\* A connection stays held if nothing new refers to it and it is not freed.
LEMMA HeldStep ==
  ASSUME sound => ConnectionsHeld, sound' => sound, \A c \in Clients : Refers(c)' => Refers(c),
         \A c \in Clients : Refers(c) /\ conn[c].bev = "open" => conn'[c].bev = "open"
  PROVE  (sound => ConnectionsHeld)'
BY DEF ConnectionsHeld

\* A step that leaves the queues and the workers' requests alone.
LEMMA HeldSame ==
  ASSUME sound => ConnectionsHeld, UNCHANGED <<sound, requests, responses>>,
         \A w \in Workers : work'[w].job = work[w].job,
         \A c \in Clients : conn[c].bev = "open" => conn'[c].bev = "open"
  PROVE  (sound => ConnectionsHeld)'
<1>1. \A c \in Clients : Refers(c)' => Refers(c)
  BY DEF Refers
<1> QED BY <1>1, HeldStep

\* A step of a client's thread.
LEMMA ThreadBase ==
  ASSUME Base, NEW c \in Clients, NEW k \in Threads, client' = [client EXCEPT ![c] = k],
         UNCHANGED <<build, server, conn, requests, responses, ctrDec, ctrEnc, work, shared, sound>>,
         net' \in [Clients -> Seq(Wire)], back' \in [Clients -> Seq(Replies)],
         \/ /\ started' = started
            /\ k.pc \in {"connect", "failed"} <=> client[c].pc \in {"connect", "failed"}
         \/ started' = started + 1 /\ client[c].pc = "connect" /\ k.pc = "barrier"
  PROVE  Base'
<1>1. FType /\ StartInv /\ (sound => ConnectionsHeld)
  BY DEF Base
<1>2. client' \in [Clients -> Threads] /\ client'[c] = k /\ \A d \in Clients \ {c} : client'[d] = client[d]
  BY <1>1 DEF FType
<1>3. FType'
  BY <1>1, <1>2 DEF FType
<1>4. StartInv'
  <2>1. CASE started' = started /\ (k.pc \in {"connect", "failed"} <=> client[c].pc \in {"connect", "failed"})
    <3>1. \A d \in Clients : client'[d].pc \in {"connect", "failed"} <=> client[d].pc \in {"connect", "failed"}
      BY <1>2, <2>1
    <3> QED BY <1>1, <2>1, <3>1, StartSame
  <2>2. CASE started' = started + 1 /\ client[c].pc = "connect" /\ k.pc = "barrier"
    <3>1. IsFiniteSet(Counted) /\ Cardinality(Counted) \in Nat
      <4>1. IsFiniteSet(Counted)
        BY FaceAssumption, FS_Subset DEF Counted
      <4> QED BY <4>1, FS_CardinalityType
    <3>2. Counted' = Counted \cup {c} /\ c \notin Counted
      BY <1>2, <2>2 DEF Counted
    <3>3. Cardinality(Counted \cup {c}) = Cardinality(Counted) + 1
      BY <3>1, <3>2, FS_AddElement
    <3> QED BY <1>1, <2>2, <3>2, <3>3 DEF StartInv
  <2> QED BY <2>1, <2>2
<1>5. (sound => ConnectionsHeld)'
  BY <1>1, HeldSame
<1> QED BY <1>3, <1>4, <1>5 DEF Base

\* A connection, made or failed.
LEMMA ConnectBase ==
  ASSUME Base, NEW c \in Clients, Connect(c)
  PROVE  Base'
<1> DEFINE b == IF server = "running" THEN "barrier" ELSE "failed"
           k == [client[c] EXCEPT !.pc = b]
<1>1. FType
  BY DEF Base
<1>2. /\ client[c].pc = "connect" /\ client' = [client EXCEPT ![c] = k]
      /\ started' = IF server = "running" THEN started + 1 ELSE started
      /\ UNCHANGED <<build, server, net, back, conn, requests, responses, ctrDec, ctrEnc, work,
                     shared, sound>>
  BY <1>1 DEF Connect, envVars, sockVars, queueVars, ctrVars, workVars, FType
<1>3. client[c] \in Threads
  BY <1>1 DEF FType
<1>4. k \in Threads /\ k.pc = b
  BY <1>2, <1>3 DEF Threads, ClientRecs
<1>5. \/ started' = started /\ (k.pc \in {"connect", "failed"} <=> client[c].pc \in {"connect", "failed"})
      \/ started' = started + 1 /\ client[c].pc = "connect" /\ k.pc = "barrier"
  BY <1>2, <1>4
<1>6. net' \in [Clients -> Seq(Wire)] /\ back' \in [Clients -> Seq(Replies)]
  BY <1>1, <1>2 DEF FType
<1> HIDE DEF k
<1> QED BY <1>2, <1>4, <1>5, <1>6, ThreadBase

\* The barrier, and the next request.
LEMMA BarrierBase ==
  ASSUME Base, NEW c \in Clients, PassBarrier(c)
  PROVE  Base'
<1> DEFINE k == [client[c] EXCEPT !.pc = "send"]
<1>1. FType
  BY DEF Base
<1>2. /\ client[c].pc = "barrier" /\ client' = [client EXCEPT ![c] = k]
      /\ UNCHANGED <<build, server, net, back, conn, requests, responses, ctrDec, ctrEnc, work,
                     shared, sound, started>>
  BY <1>1 DEF PassBarrier, envVars, sockVars, queueVars, ctrVars, workVars, FType
<1>3. client[c] \in Threads
  BY <1>1 DEF FType
<1>4. k \in Threads /\ k.pc = "send"
  BY <1>2, <1>3, FaceAssumption DEF Threads, ClientRecs
<1>6. net' \in [Clients -> Seq(Wire)] /\ back' \in [Clients -> Seq(Replies)]
  BY <1>1, <1>2 DEF FType
<1> HIDE DEF k
<1> QED BY <1>2, <1>4, <1>6, ThreadBase

\* What a thread becomes when it turns to its next request.
LEMMA SendFacts ==
  ASSUME FType, NEW c \in Clients, Send(c)
  PROVE  \E m \in Messages, k \in Threads :
           /\ client[c].pc = "send" /\ m.id = c /\ m.seq = client[c].seq
           /\ client' = [client EXCEPT ![c] = k]
           /\ k.pc = "write" /\ k.asked = m /\ k.seq = m.seq + 1 /\ k.ctr = m.seq /\ k.off = 0
           /\ k.got = client[c].got
           /\ UNCHANGED <<build, server, started, net, back, conn, requests, responses, ctrDec,
                          ctrEnc, work, shared, sound>>
<1>1. PICK m \in Messages :
      /\ client[c].pc = "send" /\ m.id = c /\ m.seq = client[c].seq
      /\ client' = [client EXCEPT ![c].asked = m, ![c].seq = @ + 1, ![c].off = 0, ![c].pc = "write"]
  BY DEF Send
<1> DEFINE x == client[c].seq + 1
           k == [client[c] EXCEPT !.asked = m, !.seq = x, !.off = 0, !.pc = "write"]
<1>2. client' = [client EXCEPT ![c] = k]
  BY <1>1 DEF FType
<1>3. client[c] \in Threads
  BY DEF FType
<1>4. /\ client[c].ctr = client[c].seq /\ client[c].seq < PerClient /\ client[c] \in ClientRecs
      /\ client[c].seq \in 0..PerClient
  BY <1>1, <1>3 DEF Threads, ClientRecs
<1>5. x \in 0..PerClient /\ 0 \in 0..MsgLen /\ x = client[c].seq + 1
  BY <1>4, FaceAssumption
<1> HIDE DEF x
<1>6. /\ k \in ClientRecs /\ k.pc = "write" /\ k.asked = m /\ k.seq = x
      /\ k.ctr = client[c].ctr /\ k.off = 0 /\ k.got = client[c].got
  BY <1>4, <1>5 DEF ClientRecs
<1> HIDE DEF k
<1>7. k \in Threads
  BY <1>1, <1>4, <1>5, <1>6 DEF Threads
<1>8. UNCHANGED <<build, server, started, net, back, conn, requests, responses, ctrDec, ctrEnc,
                  work, shared, sound>>
  BY DEF Send, envVars, sockVars, queueVars, ctrVars, workVars
<1> QED BY <1>1, <1>2, <1>4, <1>5, <1>6, <1>7, <1>8

\* The next request.
LEMMA SendBase ==
  ASSUME Base, NEW c \in Clients, Send(c)
  PROVE  Base'
<1>1. FType
  BY DEF Base
<1>2. PICK m \in Messages, k \in Threads :
           /\ client[c].pc = "send" /\ client' = [client EXCEPT ![c] = k] /\ k.pc = "write"
           /\ UNCHANGED <<build, server, started, net, back, conn, requests, responses, ctrDec,
                          ctrEnc, work, shared, sound>>
  BY <1>1, SendFacts
<1>3. net' \in [Clients -> Seq(Wire)] /\ back' \in [Clients -> Seq(Replies)]
  BY <1>1, <1>2 DEF FType
<1> QED BY <1>2, <1>3, ThreadBase

\* What a thread and its stream become when it writes.
LEMMA WriteFacts ==
  ASSUME FType, NEW c \in Clients, Write(c)
  PROVE  \E e \in 0..MsgLen, k \in Threads :
           /\ client[c].pc = "write" /\ client[c].asked \in Messages
           /\ client[c].off \in 0..MsgLen /\ client[c].off <= e
           /\ net' = [net EXCEPT ![c] = @ \o Seg(client[c].asked, client[c].off, e)]
           /\ net' \in [Clients -> Seq(Wire)]
           /\ client' = [client EXCEPT ![c] = k] /\ k.off = e
           /\ k.pc = IF e < MsgLen THEN "write" ELSE "wait"
           /\ k.asked = client[c].asked /\ k.seq = client[c].seq /\ k.ctr = client[c].ctr
           /\ k.got = client[c].got
           /\ UNCHANGED <<build, server, started, back, conn, requests, responses, ctrDec, ctrEnc,
                          work, shared, sound>>
<1> DEFINE e == WriteEnd(c)
           pc == IF e < MsgLen THEN "write" ELSE "wait"
           k == [client[c] EXCEPT !.off = e, !.pc = pc]
           u == client[c].off
           m == client[c].asked
<1>1. client[c] \in Threads /\ client[c].pc = "write"
  BY DEF FType, Write, WriteThen
<1>2. client[c] \in ClientRecs /\ m \in Messages /\ client[c].seq = client[c].ctr + 1
  BY <1>1 DEF Threads
<1>3. u \in 0..MsgLen
  BY <1>2 DEF ClientRecs
<1>4. e \in 0..MsgLen /\ u <= e
  BY <1>3, FaceAssumption DEF WriteEnd
<1>5. /\ net' = [net EXCEPT ![c] = @ \o SubSeq(Units(m), u + 1, e)]
      /\ client' = [client EXCEPT ![c].off = e, ![c].pc = pc]
      /\ UNCHANGED <<build, server, started, back, conn, requests, responses, ctrDec, ctrEnc,
                     work, shared, sound>>
  BY DEF Write, WriteThen, envVars, queueVars, ctrVars, workVars
<1>6. client' = [client EXCEPT ![c] = k]
  BY <1>5 DEF FType
<1>7. SubSeq(Units(m), u + 1, e) = Seg(m, u, e) /\ Seg(m, u, e) \in Seq(Wire)
  BY <1>2, <1>3, <1>4, Written, SegSeq
<1> HIDE DEF e, u, m
<1>8. /\ k \in ClientRecs /\ k.off = e /\ k.pc = pc /\ k.asked = client[c].asked
      /\ k.seq = client[c].seq /\ k.ctr = client[c].ctr /\ k.got = client[c].got
  BY <1>2, <1>4 DEF ClientRecs
<1> HIDE DEF k
<1>9. k \in Threads
  BY <1>2, <1>8 DEF Threads, m
<1>10. net' \in [Clients -> Seq(Wire)] /\ net' = [net EXCEPT ![c] = @ \o Seg(m, u, e)]
  <2>1. net[c] \in Seq(Wire)
    BY DEF FType
  <2>2. net[c] \o Seg(m, u, e) \in Seq(Wire)
    BY <1>7, <2>1, ConcatProperties
  <2>3. net' = [net EXCEPT ![c] = net[c] \o Seg(m, u, e)]
    BY <1>5, <1>7
  <2> QED BY <2>2, <2>3 DEF FType
<1> QED BY <1>1, <1>2, <1>3, <1>4, <1>5, <1>6, <1>8, <1>9, <1>10 DEF u, m

\* A write.
LEMMA WriteBase ==
  ASSUME Base, NEW c \in Clients, Write(c)
  PROVE  Base'
<1>1. FType
  BY DEF Base
<1>2. PICK e \in 0..MsgLen, k \in Threads :
           /\ client[c].pc = "write" /\ net' \in [Clients -> Seq(Wire)]
           /\ client' = [client EXCEPT ![c] = k]
           /\ k.pc = IF e < MsgLen THEN "write" ELSE "wait"
           /\ UNCHANGED <<build, server, started, back, conn, requests, responses, ctrDec, ctrEnc,
                          work, shared, sound>>
  BY <1>1, WriteFacts
<1>3. back' \in [Clients -> Seq(Replies)] /\ k.pc \notin {"connect", "failed"}
  BY <1>1, <1>2 DEF FType
<1> QED BY <1>2, <1>3, ThreadBase

\* What a thread becomes when it reads an answer.
LEMMA ReceiveFacts ==
  ASSUME FType, NEW c \in Clients, Receive(c)
  PROVE  \E k \in Threads :
           LET r == Head(back[c]) IN
           /\ client[c].pc = "wait" /\ back[c] # <<>> /\ r \in Replies
           /\ client' = [client EXCEPT ![c] = k]
           /\ k.pc = IF client[c].seq < PerClient THEN "send" ELSE "closed"
           /\ k.got = IF r.id = c /\ r.seq = client[c].ctr THEN r.answer ELSE Garbage
           /\ k.asked = client[c].asked /\ k.seq = client[c].seq /\ k.ctr = client[c].seq
           /\ back' = [back EXCEPT ![c] = Tail(@)] /\ back' \in [Clients -> Seq(Replies)]
           /\ UNCHANGED <<build, server, started, net, conn, requests, responses, ctrDec, ctrEnc,
                          work, shared, sound>>
<1> DEFINE r == Head(back[c])
           got == IF r.id = c /\ r.seq = client[c].ctr THEN r.answer ELSE Garbage
           pc == IF client[c].seq < PerClient THEN "send" ELSE "closed"
           k == [client[c] EXCEPT !.got = got, !.ctr = client[c].seq, !.pc = pc]
<1>1. /\ client[c].pc = "wait" /\ back[c] # <<>>
      /\ client' = [client EXCEPT ![c].got = got, ![c].ctr = @ + 1, ![c].pc = pc]
      /\ back' = [back EXCEPT ![c] = Tail(@)]
      /\ UNCHANGED <<build, server, started, net, conn, requests, responses, ctrDec, ctrEnc,
                     work, shared, sound>>
  BY DEF Receive, envVars, queueVars, ctrVars, workVars
<1>2. back[c] \in Seq(Replies) /\ client[c] \in Threads
  BY DEF FType
<1>3. r \in Replies /\ Tail(back[c]) \in Seq(Replies)
  BY <1>1, <1>2, HeadTailProperties
<1>4. got \in BOOLEAN \cup {None, Garbage}
  BY <1>3 DEF Replies
<1>5. /\ client[c] \in ClientRecs /\ client[c].seq = client[c].ctr + 1 /\ client[c].seq \in 0..PerClient
      /\ client[c].ctr \in 0..PerClient
  BY <1>1, <1>2 DEF Threads, ClientRecs
<1> HIDE DEF r, got
<1>6. client' = [client EXCEPT ![c] = k]
  BY <1>1, <1>5 DEF FType
<1>7. /\ k \in ClientRecs /\ k.pc = pc /\ k.got = got /\ k.asked = client[c].asked
      /\ k.seq = client[c].seq /\ k.ctr = client[c].seq
  BY <1>4, <1>5 DEF ClientRecs
<1> HIDE DEF k
<1>8. k \in Threads
  BY <1>5, <1>7 DEF Threads
<1>9. back' \in [Clients -> Seq(Replies)]
  BY <1>1, <1>3 DEF FType
<1> QED BY <1>1, <1>3, <1>6, <1>7, <1>8, <1>9 DEF r, got

\* An answer.
LEMMA ReceiveBase ==
  ASSUME Base, NEW c \in Clients, Receive(c)
  PROVE  Base'
<1>1. FType
  BY DEF Base
<1>2. PICK k \in Threads :
           /\ client[c].pc = "wait" /\ client' = [client EXCEPT ![c] = k]
           /\ k.pc = IF client[c].seq < PerClient THEN "send" ELSE "closed"
           /\ back' \in [Clients -> Seq(Replies)]
           /\ UNCHANGED <<build, server, started, net, conn, requests, responses, ctrDec, ctrEnc,
                          work, shared, sound>>
  BY <1>1, ReceiveFacts
<1>3. net' \in [Clients -> Seq(Wire)] /\ k.pc \notin {"connect", "failed"}
  BY <1>1, <1>2 DEF FType
<1> QED BY <1>2, <1>3, ThreadBase

\* What a thread becomes when its connection is lost.
LEMMA DropFacts ==
  ASSUME FType, NEW c \in Clients, Drop(c)
  PROVE  \E k \in Threads :
           /\ client[c].pc \in {"barrier", "send", "write", "wait"}
           /\ client' = [client EXCEPT ![c] = k] /\ k = [client[c] EXCEPT !.pc = "gone"]
           /\ k.pc = "gone" /\ k.off = client[c].off /\ k.asked = client[c].asked
           /\ k.seq = client[c].seq /\ k.ctr = client[c].ctr
           /\ net' = net \/ net' = [net EXCEPT ![c] = <<>>]
           /\ net' \in [Clients -> Seq(Wire)]
           /\ UNCHANGED <<build, server, started, back, conn, requests, responses, ctrDec, ctrEnc,
                          work, shared, sound>>
<1> DEFINE k == [client[c] EXCEPT !.pc = "gone"]
<1>1. /\ client[c].pc \in {"barrier", "send", "write", "wait"} /\ client' = [client EXCEPT ![c] = k]
      /\ net' = net \/ net' = [net EXCEPT ![c] = <<>>]
      /\ UNCHANGED <<build, server, started, back, conn, requests, responses, ctrDec, ctrEnc,
                     work, shared, sound>>
  BY DEF Drop, FType, envVars, queueVars, ctrVars, workVars
<1>2. client[c] \in Threads
  BY DEF FType
<1>3. k \in Threads /\ k.pc = "gone" /\ k.off = client[c].off /\ k.asked = client[c].asked
      /\ k.seq = client[c].seq /\ k.ctr = client[c].ctr
  BY <1>2 DEF Threads, ClientRecs
<1>4. net' \in [Clients -> Seq(Wire)]
  <2>1. <<>> \in Seq(Wire)
    OBVIOUS
  <2> QED BY <1>1, <2>1 DEF FType
<1> QED BY <1>1, <1>3, <1>4

\* A lost connection.
LEMMA DropBase ==
  ASSUME Base, NEW c \in Clients, Drop(c)
  PROVE  Base'
<1>1. FType
  BY DEF Base
<1>2. PICK k \in Threads :
           /\ client[c].pc \in {"barrier", "send", "write", "wait"}
           /\ client' = [client EXCEPT ![c] = k] /\ k.pc = "gone"
           /\ net' \in [Clients -> Seq(Wire)]
           /\ UNCHANGED <<build, server, started, back, conn, requests, responses, ctrDec, ctrEnc,
                          work, shared, sound>>
  BY <1>1, DropFacts
<1>3. back' \in [Clients -> Seq(Replies)]
  BY <1>1, <1>2 DEF FType
<1> QED BY <1>2, <1>3, ThreadBase

\* The server's start and its end.
LEMMA ServerBase ==
  ASSUME Base, runServer \/ Die
  PROVE  Base'
<1>1. FType /\ StartInv /\ (sound => ConnectionsHeld)
  BY DEF Base
<1>2. /\ server' \in {"starting", "running", "dead"}
      /\ UNCHANGED <<build, client, net, back, conn, requests, responses, ctrDec, ctrEnc, work,
                     shared, started, sound>>
  BY DEF runServer, Die, sockVars, queueVars, ctrVars, workVars
<1>3. FType'
  BY <1>1, <1>2 DEF FType
<1>4. StartInv'
  BY <1>1, <1>2 DEF StartInv, Counted
<1>5. (sound => ConnectionsHeld)'
  BY <1>1, <1>2, HeldSame
<1> QED BY <1>3, <1>4, <1>5 DEF Base

\* A connection is accepted, or freed.
LEMMA BevFacts ==
  ASSUME FType, NEW c \in Clients, NEW b \in {"open", "freed"}, conn' = [conn EXCEPT ![c].bev = b]
  PROVE  /\ conn' \in [Clients -> Conns] /\ \A d \in Clients \ {c} : conn'[d] = conn[d]
         /\ conn'[c].bev = b /\ conn'[c].data = conn[c].data /\ conn'[c].totalRead = conn[c].totalRead
<1>1. conn' = [conn EXCEPT ![c] = [conn[c] EXCEPT !.bev = b]] /\ conn[c] \in Conns
  BY DEF FType
<1> DEFINE v == [conn[c] EXCEPT !.bev = b]
<1>2. v \in Conns /\ v.bev = b /\ v.data = conn[c].data /\ v.totalRead = conn[c].totalRead
  BY <1>1 DEF Conns
<1>3. conn' = [conn EXCEPT ![c] = v]
  BY <1>1
<1> HIDE DEF v
<1> QED BY <1>2, <1>3 DEF FType

\* A connection is freed in use only when that is recorded.
LEMMA BevBase ==
  ASSUME Base, NEW c \in Clients, accept_conn_cb(c) \/ echo_event_cb(c)
  PROVE  Base'
<1>1. FType /\ StartInv /\ (sound => ConnectionsHeld)
  BY DEF Base
<1>2. UNCHANGED <<build, server, client, started, net, back, requests, responses, ctrDec, ctrEnc,
                  work, shared>>
  BY DEF accept_conn_cb, echo_event_cb, envVars, sockVars, queueVars, ctrVars, workVars
<1>3. PICK b \in {"open", "freed"} : conn' = [conn EXCEPT ![c].bev = b]
  BY DEF accept_conn_cb, echo_event_cb
<1>4. /\ conn' \in [Clients -> Conns] /\ \A d \in Clients \ {c} : conn'[d] = conn[d]
      /\ conn'[c].bev = b
  BY <1>1, <1>3, BevFacts
<1>5. /\ sound' \in BOOLEAN /\ (sound' => sound) /\ (sound' => b = "open" \/ ~Refers(c))
  <2>1. CASE accept_conn_cb(c)
    <3>1. conn'[c].bev = "open"
      BY <1>1, <2>1, BevFacts DEF accept_conn_cb
    <3> QED BY <1>1, <1>4, <2>1, <3>1 DEF accept_conn_cb, FType
  <2>2. CASE echo_event_cb(c)
    BY <1>1, <2>2 DEF echo_event_cb, FType
  <2> QED BY <2>1, <2>2
<1>6. FType'
  BY <1>1, <1>2, <1>4, <1>5 DEF FType
<1>7. StartInv'
  BY <1>1, <1>2 DEF StartInv, Counted
<1>8. \A d \in Clients : Refers(d)' => Refers(d)
  BY <1>2 DEF Refers
<1>9. sound' => \A d \in Clients : Refers(d) /\ conn[d].bev = "open" => conn'[d].bev = "open"
  BY <1>4, <1>5
<1>10. (sound => ConnectionsHeld)'
  <2> SUFFICES ASSUME sound' PROVE ConnectionsHeld'
    OBVIOUS
  <2> QED BY <1>1, <1>5, <1>8, <1>9, HeldStep
<1> QED BY <1>6, <1>7, <1>10 DEF Base

\* What a read makes of the connection and the stream.
LEMMA ReadTyped ==
  ASSUME FType, NEW c \in Clients, NEW n \in 1..Len(net[c]), echo_read_cb(c, n)
  PROVE  \E v \in Conns, z \in Seq(Wire) :
           LET have == conn[c].totalRead + n IN
           /\ conn[c].bev = "open"
           /\ conn' = [conn EXCEPT ![c] = v] /\ v.bev = "open"
           /\ v.data = [i \in 1..MsgLen |-> IF i > have - n /\ i <= have
                                            THEN net[c][i - have + n] ELSE conn[c].data[i]]
           /\ v.totalRead = IF have < DataSize THEN have ELSE 0
           /\ net' = [net EXCEPT ![c] = z] /\ z = SubSeq(net[c], n + 1, Len(net[c]))
           /\ requests' = IF have < DataSize THEN requests ELSE Append(requests, c)
           /\ sound' = (sound /\ have # DataSize)
           /\ UNCHANGED <<build, server, client, started, back, responses, ctrDec, ctrEnc, work, shared>>
<1> DEFINE t == conn[c].totalRead
           have == t + n
           dt == [i \in 1..MsgLen |-> IF i > have - n /\ i <= have
                                      THEN net[c][i - have + n] ELSE conn[c].data[i]]
           tr == IF have < DataSize THEN have ELSE 0
           v == [conn[c] EXCEPT !.data = dt, !.totalRead = tr]
           z == SubSeq(net[c], n + 1, Len(net[c]))
<1>1. /\ conn[c].bev = "open"
      /\ conn' = [conn EXCEPT ![c].data = dt, ![c].totalRead = tr]
      /\ net' = [net EXCEPT ![c] = z]
      /\ requests' = IF have < DataSize THEN requests ELSE Append(requests, c)
      /\ sound' = (sound /\ have # DataSize)
      /\ UNCHANGED <<build, server, client, started, back, responses, ctrDec, ctrEnc, work, shared>>
  <2>1. [i \in 1..MsgLen |-> IF i > have - n /\ i <= have
                             THEN net[c][i - have + n] ELSE conn[c].data[i]] = dt
    OBVIOUS
  <2> QED BY <2>1 DEF echo_read_cb, ReadThen, do_trusted_logic, envVars, ctrVars, workVars, FType
<1>2. conn[c] \in Conns /\ net[c] \in Seq(Wire)
  BY DEF FType
<1>3. /\ MsgLen \in Nat /\ DataSize \in Nat /\ DataSize > 0 /\ n \in Nat /\ t \in Nat
      /\ Len(net[c]) \in Nat /\ conn[c].data \in [1..MsgLen -> Wire \cup {None}]
  BY <1>2, FaceAssumption, LenProperties DEF DataSize, Conns
<1>4. dt \in [1..MsgLen -> Wire \cup {None}]
  <2> SUFFICES ASSUME NEW i \in 1..MsgLen PROVE dt[i] \in Wire \cup {None}
    OBVIOUS
  <2>1. CASE i > have - n /\ i <= have
    <3>1. i - have + n \in 1..Len(net[c])
      BY <1>3, <2>1
    <3>2. net[c][i - have + n] \in Wire
      BY <1>2, <3>1, ElementOfSeq
    <3> QED BY <2>1, <3>2
  <2>2. CASE ~(i > have - n /\ i <= have)
    BY <1>3, <2>2
  <2> QED BY <2>1, <2>2
<1>5. tr \in 0..DataSize - 1
  BY <1>3
<1>6. z \in Seq(Wire)
  <2>1. \A i \in n + 1 .. Len(net[c]) : net[c][i] \in Wire
    BY <1>2, <1>3, ElementOfSeq
  <2> QED BY <1>2, <1>3, <2>1, SubSeqProperties
<1> HIDE DEF dt, tr, z
<1>7. v \in Conns /\ v.bev = conn[c].bev /\ v.data = dt /\ v.totalRead = tr
  BY <1>2, <1>4, <1>5 DEF Conns
<1>8. conn' = [conn EXCEPT ![c] = v]
  BY <1>1 DEF FType
<1> HIDE DEF v
<1> QED BY <1>1, <1>6, <1>7, <1>8 DEF dt, tr, z

\* A read.
LEMMA ReadBase ==
  ASSUME Base, NEW c \in Clients, NEW n \in 1..Len(net[c]), echo_read_cb(c, n)
  PROVE  Base'
<1>1. FType /\ StartInv /\ (sound => ConnectionsHeld)
  BY DEF Base
<1>2. PICK v \in Conns, z \in Seq(Wire) :
           /\ conn[c].bev = "open" /\ conn' = [conn EXCEPT ![c] = v] /\ v.bev = "open"
           /\ net' = [net EXCEPT ![c] = z]
           /\ requests' = requests \/ requests' = Append(requests, c)
           /\ sound' \in BOOLEAN /\ (sound' => sound)
           /\ UNCHANGED <<build, server, client, started, back, responses, ctrDec, ctrEnc, work, shared>>
  BY <1>1, ReadTyped
<1>3. requests' \in Seq(Clients)
  <2>1. requests \in Seq(Clients)
    BY <1>1 DEF FType
  <2>2. Append(requests, c) \in Seq(Clients)
    BY <2>1, AppendProperties
  <2> QED BY <1>2, <2>1, <2>2
<1>4. FType'
  BY <1>1, <1>2, <1>3 DEF FType
<1>5. StartInv'
  BY <1>1, <1>2 DEF StartInv, Counted
<1>6. /\ conn'[c].bev = "open" /\ \A d \in Clients : conn[d].bev = "open" => conn'[d].bev = "open"
  BY <1>1, <1>2 DEF FType
<1>7. ASSUME NEW d \in Clients, Refers(d)' PROVE d = c \/ Refers(d)
  <2>1. CASE \E i \in DOMAIN requests' : requests'[i] = d
    <3>1. PICK i \in DOMAIN requests' : requests'[i] = d
      BY <2>1
    <3>2. CASE requests' = requests
      BY <3>1, <3>2 DEF Refers
    <3>3. CASE requests' = Append(requests, c)
      <4>1. requests \in Seq(Clients) /\ Len(requests) \in Nat /\ DOMAIN requests = 1..Len(requests)
        BY <1>1, LenProperties DEF FType
      <4>2. /\ Len(requests') = Len(requests) + 1 /\ requests'[Len(requests) + 1] = c
            /\ \A j \in 1..Len(requests) : requests'[j] = requests[j]
        BY <3>3, <4>1, AppendProperties
      <4>3. i \in 1..Len(requests) \/ i = Len(requests) + 1
        BY <1>3, <3>1, <4>1, <4>2, LenProperties
      <4> QED BY <3>1, <4>1, <4>2, <4>3 DEF Refers
    <3> QED BY <1>2, <3>2, <3>3
  <2>2. CASE ~\E i \in DOMAIN requests' : requests'[i] = d
    BY <1>2, <1>7, <2>2 DEF Refers
  <2> QED BY <2>1, <2>2
<1>8. (sound => ConnectionsHeld)'
  <2> SUFFICES ASSUME sound', NEW d \in Clients, Refers(d)' PROVE conn'[d].bev = "open"
    BY DEF ConnectionsHeld
  <2> QED BY <1>1, <1>2, <1>6, <1>7 DEF ConnectionsHeld
<1> QED BY <1>4, <1>5, <1>8 DEF Base

\* An answer is dequeued.
LEMMA CbFuncFacts ==
  ASSUME FType, cb_func
  PROVE  \E r \in Replies :
           /\ responses # <<>> /\ r = Head(responses) /\ responses' = Tail(responses)
           /\ responses' \in Seq(Replies)
           /\ \/ \E c \in (IF conn[r.conn].bev = "open" THEN {r.conn} ELSE Clients) :
                   back' = [back EXCEPT ![c] = Append(@, r)]
              \/ conn[r.conn].bev # "open" /\ back' = back
           /\ UNCHANGED <<build, server, client, started, net, conn, requests, ctrDec, ctrEnc, work,
                          shared, sound>>
<1>1. PICK r \in {Head(responses) : x \in DOMAIN responses} :
           /\ send_answer(r)
           /\ \/ \E c \in (IF conn[r.conn].bev = "open" THEN {r.conn} ELSE Clients) :
                   back' = [back EXCEPT ![c] = Append(@, r)]
              \/ conn[r.conn].bev # "open" /\ UNCHANGED back
  BY DEF cb_func
<1>2. responses \in Seq(Replies) /\ responses # <<>> /\ r = Head(responses) /\ responses' = Tail(responses)
  BY <1>1 DEF FType, send_answer
<1>3. r \in Replies /\ responses' \in Seq(Replies)
  BY <1>2, HeadTailProperties
<1>4. UNCHANGED <<build, server, client, started, net, conn, requests, ctrDec, ctrEnc, work, shared,
                  sound>>
  BY DEF cb_func, envVars, ctrVars, workVars
<1> QED BY <1>1, <1>2, <1>3, <1>4

\* What refers to a connection after the first answer is gone did before.
LEMMA TailRefers ==
  ASSUME FType, responses # <<>>, responses' = Tail(responses), UNCHANGED <<requests, work>>,
         NEW d, Refers(d)'
  PROVE  Refers(d)
<1>1. /\ responses \in Seq(Replies) /\ Len(responses) \in Nat /\ DOMAIN responses = 1..Len(responses)
      /\ Len(responses) > 0
  BY LenProperties, EmptySeq DEF FType
<1>2. /\ responses' \in Seq(Replies) /\ DOMAIN responses' = 1..Len(responses) - 1
      /\ \A i \in 1..Len(responses) - 1 : responses'[i] = responses[i + 1]
  BY <1>1, HeadTailProperties, LenProperties
<1>3. CASE \E i \in DOMAIN responses' : responses'[i].conn = d
  <2>1. PICK i \in 1..Len(responses) - 1 : responses'[i].conn = d
    BY <1>2, <1>3
  <2>2. i + 1 \in DOMAIN responses /\ responses[i + 1].conn = d
    BY <1>1, <1>2, <2>1
  <2> QED BY <2>2 DEF Refers
<1>4. CASE ~\E i \in DOMAIN responses' : responses'[i].conn = d
  BY <1>4 DEF Refers
<1> QED BY <1>3, <1>4

\* The timer.
LEMMA CbFuncBase ==
  ASSUME Base, cb_func
  PROVE  Base'
<1>1. FType /\ StartInv /\ (sound => ConnectionsHeld)
  BY DEF Base
<1>2. PICK r \in Replies :
           /\ responses # <<>> /\ responses' = Tail(responses) /\ responses' \in Seq(Replies)
           /\ \/ \E c \in (IF conn[r.conn].bev = "open" THEN {r.conn} ELSE Clients) :
                   back' = [back EXCEPT ![c] = Append(@, r)]
              \/ back' = back
           /\ UNCHANGED <<build, server, client, started, net, conn, requests, ctrDec, ctrEnc, work,
                          shared, sound>>
  BY <1>1, CbFuncFacts
<1>3. back' \in [Clients -> Seq(Replies)]
  <2>1. r.conn \in Clients
    BY DEF Replies
  <2>2. CASE back' = back
    BY <1>1, <2>2 DEF FType
  <2>3. ASSUME NEW c \in Clients, back' = [back EXCEPT ![c] = Append(@, r)]
        PROVE  back' \in [Clients -> Seq(Replies)]
    <3>1. Append(back[c], r) \in Seq(Replies)
      BY <1>1, AppendProperties DEF FType
    <3> QED BY <1>1, <2>3, <3>1 DEF FType
  <2> QED BY <1>2, <2>1, <2>2, <2>3
<1>4. FType'
  BY <1>1, <1>2, <1>3 DEF FType
<1>5. StartInv'
  BY <1>1, <1>2 DEF StartInv, Counted
<1>6. \A d \in Clients : Refers(d)' => Refers(d)
  BY <1>1, <1>2, TailRefers
<1>7. (sound => ConnectionsHeld)'
  BY <1>1, <1>2, <1>6, HeldStep
<1> QED BY <1>4, <1>5, <1>7 DEF Base

\* A step of a worker on the request it has.
LEMMA WorkBase ==
  ASSUME Base, NEW w \in Workers, NEW k \in Jobs, work' = [work EXCEPT ![w] = k],
         k.job = work[w].job, shared' \in Hists, ctrDec' \in [Clients -> Nat],
         UNCHANGED <<build, server, client, started, net, back, conn, requests, responses, ctrEnc, sound>>
  PROVE  Base'
<1>1. FType /\ StartInv /\ (sound => ConnectionsHeld)
  BY DEF Base
<1>2. work' \in [Workers -> Jobs] /\ \A v \in Workers : work'[v].job = work[v].job
  BY <1>1 DEF FType
<1>3. FType'
  BY <1>1, <1>2 DEF FType
<1>4. StartInv'
  BY <1>1 DEF StartInv, Counted
<1>5. (sound => ConnectionsHeld)'
  BY <1>1, <1>2, HeldSame
<1> QED BY <1>3, <1>4, <1>5 DEF Base

\* What decryption leaves the worker with, whatever the buffer holds.
LEMMA DecryptFacts ==
  ASSUME FType, NEW w \in Workers, Decrypt(w)
  PROVE  \E i \in Clients, t \in Plains \cup {Garbage}, k \in Jobs :
           LET v == conn[work[w].job] IN
           /\ work[w].pc = "decrypt" /\ work[w].job \in Clients
           /\ work' = [work EXCEPT ![w] = k] /\ t \in Decrypted(v, ctrDec[i])
           /\ k.job = work[w].job /\ k.id = i /\ k.pc = "lookup" /\ k.plain = t /\ k.hist = work[w].hist
           /\ Sane(v) => i = v.data[1][1].id
           /\ ctrDec' = [ctrDec EXCEPT ![i] = @ + 1] /\ ctrDec' \in [Clients -> Nat]
           /\ UNCHANGED <<build, server, client, started, net, back, conn, requests, responses,
                          ctrEnc, shared, sound>>
<1> DEFINE v == conn[work[w].job]
           m == v.data[1][1]
<1>1. work[w] \in Jobs /\ work[w].pc = "decrypt"
  BY DEF FType, Decrypt
<1>2. work[w] \in WorkRecs /\ work[w].job \in Clients
  BY <1>1 DEF Jobs
<1>3. v \in Conns
  BY <1>2 DEF FType
<1>4. Sane(v) => m \in Messages
  <2>1. 1 \in 1..MsgLen
    BY FaceAssumption
  <2>2. v.data[1] \in Wire \cup {None}
    BY <1>3, <2>1 DEF Conns
  <2> HIDE DEF v
  <2> QED BY <2>2 DEF Sane, Wire
<1>5. Sane(v) => m \in Plains /\ m.id \in Clients
  <2>1. Messages \subseteq Plains
    BY DEF Messages
  <2> HIDE DEF m, v
  <2> QED BY <1>4, <2>1, MessageFacts
<1>6. PICK i \in (IF Sane(v) THEN {m.id} ELSE Clients) :
        /\ \E t \in Decrypted(v, ctrDec[i]) :
             work' = [work EXCEPT ![w].id = i, ![w].pc = "lookup", ![w].plain = t]
        /\ ctrDec' = [ctrDec EXCEPT ![i] = @ + 1]
  BY DEF Decrypt
<1>7. PICK t \in Decrypted(v, ctrDec[i]) :
             work' = [work EXCEPT ![w].id = i, ![w].pc = "lookup", ![w].plain = t]
  BY <1>6
<1>8. i \in Clients /\ (Sane(v) => i = m.id)
  <2> HIDE DEF m, v
  <2> QED BY <1>5, <1>6
<1>9. t \in Plains \cup {Garbage}
  <2>1. ASSUME m \in Plains, NEW f \in Persons \cup {NoPerson} PROVE [m EXCEPT !.face = f] \in Plains
    <3> HIDE DEF m
    <3> QED BY <2>1 DEF Plains
  <2>2. t \in (IF ~Sane(v) \/ m.seq # ctrDec[i] THEN {Garbage}
               ELSE IF v.data = Units(m) THEN {m}
               ELSE {[m EXCEPT !.face = f] : f \in Persons \cup {NoPerson}})
    BY <1>7 DEF Decrypted
  <2>3. CASE ~Sane(v) \/ m.seq # ctrDec[i]
    BY <2>2, <2>3
  <2>4. CASE ~(~Sane(v) \/ m.seq # ctrDec[i]) /\ v.data = Units(m)
    <3>1. t \in {m} /\ Sane(v)
      BY <2>2, <2>4
    <3> QED BY <1>5, <3>1
  <2>5. CASE ~(~Sane(v) \/ m.seq # ctrDec[i]) /\ v.data # Units(m)
    <3>1. t \in {[m EXCEPT !.face = f] : f \in Persons \cup {NoPerson}} /\ Sane(v)
      BY <2>2, <2>5
    <3> QED BY <1>5, <2>1, <3>1
  <2> QED BY <2>3, <2>4, <2>5
<1> DEFINE k == [work[w] EXCEPT !.id = i, !.pc = "lookup", !.plain = t]
<1>10. work' = [work EXCEPT ![w] = k]
  BY <1>7 DEF FType
<1>11. /\ k \in WorkRecs /\ k.job = work[w].job /\ k.id = i /\ k.pc = "lookup" /\ k.plain = t
       /\ k.hist = work[w].hist
  BY <1>2, <1>8, <1>9 DEF WorkRecs
<1> HIDE DEF k
<1>12. k \in Jobs
  BY <1>2, <1>8, <1>9, <1>11 DEF Jobs
<1>13. ctrDec' \in [Clients -> Nat]
  BY <1>6, <1>8 DEF FType
<1>14. UNCHANGED <<build, server, client, started, net, back, conn, requests, responses, ctrEnc,
                   shared, sound>>
  BY DEF Decrypt, envVars, sockVars, queueVars
<1> HIDE DEF m, v
<1>15. /\ work[w].pc = "decrypt" /\ work[w].job \in Clients
       /\ work' = [work EXCEPT ![w] = k] /\ t \in Decrypted(v, ctrDec[i])
       /\ k.job = work[w].job /\ k.id = i /\ k.pc = "lookup" /\ k.plain = t /\ k.hist = work[w].hist
       /\ Sane(v) => i = m.id
       /\ ctrDec' = [ctrDec EXCEPT ![i] = @ + 1] /\ ctrDec' \in [Clients -> Nat]
  BY <1>1, <1>2, <1>6, <1>7, <1>8, <1>10, <1>11, <1>13
<1> QED BY <1>8, <1>9, <1>12, <1>14, <1>15 DEF m, v

\* Decryption.
LEMMA DecryptBase ==
  ASSUME Base, NEW w \in Workers, Decrypt(w)
  PROVE  Base'
<1>1. FType
  BY DEF Base
<1>2. PICK i \in Clients, t \in Plains \cup {Garbage}, k \in Jobs :
           /\ work' = [work EXCEPT ![w] = k] /\ k.job = work[w].job
           /\ ctrDec' \in [Clients -> Nat]
           /\ UNCHANGED <<build, server, client, started, net, back, conn, requests, responses,
                          ctrEnc, shared, sound>>
  BY <1>1, DecryptFacts
<1>3. shared' \in Hists
  BY <1>1, <1>2 DEF FType
<1> QED BY <1>2, <1>3, WorkBase

\* A worker past its decryption.
LEMMA FoundTyped ==
  ASSUME FType, NEW w \in Workers, work[w].pc \notin {"poll", "decrypt"}
  PROVE  /\ work[w] \in WorkRecs /\ work[w].job \in Clients /\ work[w].id \in Clients
         /\ work[w].plain \in Plains \cup {Garbage}
         /\ Found(w) \in Persons \cup {NoPerson} /\ Verdict(w) \subseteq BOOLEAN
<1>1. /\ work[w] \in WorkRecs /\ work[w].job \in Clients /\ work[w].id \in Clients
      /\ work[w].plain \in Plains \cup {Garbage}
  BY DEF FType, Jobs
<1>2. Found(w) \in Persons \cup {NoPerson}
  BY <1>1, MessageFacts DEF Found
<1>3. Verdict(w) \subseteq BOOLEAN
  BY DEF Verdict
<1> QED BY <1>1, <1>2, <1>3

\* What the other steps of a worker on its request make of it.
LEMMA StepFacts ==
  ASSUME FType, NEW w \in Workers, NativeDoOne(w) \/ EnclaveDoOne(w) \/ Compare(w)
  PROVE  \E k \in Jobs, sh \in Hists :
           /\ work' = [work EXCEPT ![w] = k] /\ shared' = sh
           /\ work[w].pc \notin {"poll", "decrypt"}
           /\ k.pc \notin {"poll", "decrypt"}
           /\ k.job = work[w].job /\ k.id = work[w].id /\ k.plain = work[w].plain
           /\ \/ /\ NativeDoOne(w) /\ work[w].pc = "lookup" /\ k.pc = "compare"
                 /\ k.hist = Both(Found(w)) /\ sh = shared
              \/ /\ EnclaveDoOne(w) /\ work[w].pc = "lookup" /\ Found(w) = NoPerson /\ k.pc = "compare"
                 /\ k.hist = work[w].hist /\ sh = shared
              \/ /\ EnclaveDoOne(w) /\ work[w].pc = "lookup" /\ Found(w) # NoPerson /\ k.pc = "copy"
                 /\ sh = [shared EXCEPT ![1] = Found(w)]
              \/ /\ EnclaveDoOne(w) /\ work[w].pc = "copy" /\ k.pc = "distance"
                 /\ sh = [shared EXCEPT ![2] = Found(w)]
              \/ /\ EnclaveDoOne(w) /\ work[w].pc = "distance" /\ k.pc = "compare"
                 /\ k.hist = shared /\ sh = shared
              \/ /\ work[w].pc = "compare" /\ k.pc = "respond" /\ k.answer \in Verdict(w) /\ sh = shared
           /\ UNCHANGED <<build, server, client, started, net, back, conn, requests, responses,
                          ctrDec, ctrEnc, sound>>
<1>1. work[w].pc \notin {"poll", "decrypt"}
  BY DEF NativeDoOne, EnclaveDoOne, Compare
<1>2. /\ work[w] \in WorkRecs /\ work[w].job \in Clients /\ work[w].id \in Clients
      /\ work[w].plain \in Plains \cup {Garbage}
      /\ Found(w) \in Persons \cup {NoPerson} /\ Verdict(w) \subseteq BOOLEAN
  BY <1>1, FoundTyped
<1>3. /\ shared \in Hists /\ work \in [Workers -> Jobs] /\ Both(Found(w)) \in Hists
      /\ [shared EXCEPT ![1] = Found(w)] \in Hists /\ [shared EXCEPT ![2] = Found(w)] \in Hists
  BY <1>2, BothTyped DEF FType, Hists
<1>4. UNCHANGED <<build, server, client, started, net, back, conn, requests, responses, ctrDec,
                  ctrEnc, sound>>
  BY DEF NativeDoOne, EnclaveDoOne, Compare, envVars, sockVars, queueVars, ctrVars
<1> DEFINE Keeps(k) == /\ k \in WorkRecs /\ k.job = work[w].job /\ k.id = work[w].id /\ k.plain = work[w].plain
                       /\ k.pc \notin {"poll", "decrypt"}
<1>5. ASSUME NEW k, Keeps(k) PROVE k \in Jobs
  BY <1>2, <1>5 DEF Jobs
<1>6. CASE NativeDoOne(w)
  <2> DEFINE k == [work[w] EXCEPT !.hist = Both(Found(w)), !.pc = "compare"]
  <2>1. work' = [work EXCEPT ![w] = k] /\ shared' = shared /\ work[w].pc = "lookup"
    BY <1>3, <1>6 DEF NativeDoOne
  <2>2. Keeps(k) /\ k.pc = "compare" /\ k.hist = Both(Found(w))
    BY <1>2, <1>3 DEF WorkRecs
  <2> HIDE DEF k
  <2> QED BY <1>1, <1>3, <1>4, <1>5, <1>6, <2>1, <2>2
<1>7. CASE EnclaveDoOne(w) /\ work[w].pc = "lookup" /\ Found(w) = NoPerson
  <2> DEFINE k == [work[w] EXCEPT !.pc = "compare"]
  <2>1. work' = [work EXCEPT ![w] = k] /\ shared' = shared
    BY <1>3, <1>7 DEF EnclaveDoOne
  <2>2. Keeps(k) /\ k.pc = "compare" /\ k.hist = work[w].hist
    BY <1>2 DEF WorkRecs
  <2> HIDE DEF k
  <2> QED BY <1>1, <1>3, <1>4, <1>5, <1>7, <2>1, <2>2
<1>8. CASE EnclaveDoOne(w) /\ work[w].pc = "lookup" /\ Found(w) # NoPerson
  <2> DEFINE k == [work[w] EXCEPT !.pc = "copy"]
  <2>1. work' = [work EXCEPT ![w] = k] /\ shared' = [shared EXCEPT ![1] = Found(w)]
    BY <1>3, <1>8 DEF EnclaveDoOne
  <2>2. Keeps(k) /\ k.pc = "copy"
    BY <1>2 DEF WorkRecs
  <2> HIDE DEF k
  <2> QED BY <1>1, <1>3, <1>4, <1>5, <1>8, <2>1, <2>2
<1>9. CASE EnclaveDoOne(w) /\ work[w].pc = "copy"
  <2> DEFINE k == [work[w] EXCEPT !.pc = "distance"]
  <2>1. work' = [work EXCEPT ![w] = k] /\ shared' = [shared EXCEPT ![2] = Found(w)]
    BY <1>3, <1>9 DEF EnclaveDoOne
  <2>2. Keeps(k) /\ k.pc = "distance"
    BY <1>2 DEF WorkRecs
  <2> HIDE DEF k
  <2> QED BY <1>1, <1>3, <1>4, <1>5, <1>9, <2>1, <2>2
<1>10. CASE EnclaveDoOne(w) /\ work[w].pc = "distance"
  <2> DEFINE k == [work[w] EXCEPT !.hist = shared, !.pc = "compare"]
  <2>1. work' = [work EXCEPT ![w] = k] /\ shared' = shared
    BY <1>3, <1>10 DEF EnclaveDoOne
  <2>2. Keeps(k) /\ k.pc = "compare" /\ k.hist = shared
    BY <1>2, <1>3 DEF WorkRecs
  <2> HIDE DEF k
  <2> QED BY <1>1, <1>3, <1>4, <1>5, <1>10, <2>1, <2>2
<1>11. CASE Compare(w)
  <2>1. PICK a \in Verdict(w) : work' = [work EXCEPT ![w].answer = a, ![w].pc = "respond"]
    BY <1>11 DEF Compare
  <2> DEFINE k == [work[w] EXCEPT !.answer = a, !.pc = "respond"]
  <2>2. work' = [work EXCEPT ![w] = k] /\ shared' = shared /\ work[w].pc = "compare"
    BY <1>3, <1>11, <2>1 DEF Compare
  <2>3. a \in BOOLEAN
    BY <1>2, <2>1
  <2>4. Keeps(k) /\ k.pc = "respond" /\ k.answer = a
    BY <1>2, <2>3 DEF WorkRecs
  <2> HIDE DEF k
  <2> QED BY <1>1, <1>3, <1>4, <1>5, <2>1, <2>2, <2>4
<1>12. EnclaveDoOne(w) => work[w].pc \in {"lookup", "copy", "distance"}
  BY DEF EnclaveDoOne
<1> QED BY <1>6, <1>7, <1>8, <1>9, <1>10, <1>11, <1>12

\* The steps of a worker on its request.
LEMMA StepBase ==
  ASSUME Base, NEW w \in Workers, NativeDoOne(w) \/ EnclaveDoOne(w) \/ Compare(w)
  PROVE  Base'
<1>1. FType
  BY DEF Base
<1>2. PICK k \in Jobs, sh \in Hists :
           /\ work' = [work EXCEPT ![w] = k] /\ shared' = sh /\ k.job = work[w].job
           /\ UNCHANGED <<build, server, client, started, net, back, conn, requests, responses,
                          ctrDec, ctrEnc, sound>>
  BY <1>1, StepFacts
<1>3. ctrDec' \in [Clients -> Nat]
  BY <1>1, <1>2 DEF FType
<1> QED BY <1>2, <1>3, WorkBase

\* A worker takes the first request.
LEMMA DequeueFacts ==
  ASSUME FType, NEW w \in Workers, Dequeue(w)
  PROVE  \E c \in Clients, k \in Jobs :
           /\ requests # <<>> /\ c = Head(requests) /\ requests' = Tail(requests)
           /\ requests' \in Seq(Clients) /\ w \in ThreadsOf[build]
           /\ work[w].pc = "poll" /\ work[w] = IdleWorker
           /\ work' = [work EXCEPT ![w] = k] /\ k.job = c /\ k.pc = "decrypt" /\ k.hist = Both(NoPerson)
           /\ UNCHANGED <<build, server, client, started, net, back, conn, responses, ctrDec, ctrEnc,
                          shared, sound>>
<1> DEFINE c == Head(requests)
           k == [IdleWorker EXCEPT !.job = c, !.pc = "decrypt"]
<1>1. /\ w \in ThreadsOf[build] /\ work[w].pc = "poll" /\ requests # <<>>
      /\ work' = [work EXCEPT ![w].job = c, ![w].pc = "decrypt"] /\ requests' = Tail(requests)
      /\ UNCHANGED <<build, server, client, started, net, back, conn, responses, ctrDec, ctrEnc,
                     shared, sound>>
  BY DEF Dequeue, envVars, sockVars, ctrVars
<1>2. requests \in Seq(Clients) /\ work[w] \in Jobs
  BY DEF FType
<1>3. c \in Clients /\ Tail(requests) \in Seq(Clients)
  BY <1>1, <1>2, HeadTailProperties
<1>4. work[w] = IdleWorker
  BY <1>1, <1>2 DEF Jobs
<1> HIDE DEF c
<1>5. work' = [work EXCEPT ![w] = k]
  BY <1>1, <1>4 DEF FType
<1>6. IdleWorker \in WorkRecs /\ IdleWorker.hist = Both(NoPerson)
  BY IdleTyped DEF Jobs
<1>7. k \in WorkRecs /\ k.job = c /\ k.pc = "decrypt" /\ k.hist = Both(NoPerson)
  BY <1>3, <1>6 DEF WorkRecs
<1> HIDE DEF k
<1>8. k \in Jobs
  BY <1>3, <1>7 DEF Jobs
<1> QED BY <1>1, <1>3, <1>4, <1>5, <1>7, <1>8 DEF c

\* The request that a worker takes was in the queue.
LEMMA DequeueBase ==
  ASSUME Base, NEW w \in Workers, Dequeue(w)
  PROVE  Base'
<1>1. FType /\ StartInv /\ (sound => ConnectionsHeld)
  BY DEF Base
<1>2. PICK c \in Clients, k \in Jobs :
           /\ requests # <<>> /\ c = Head(requests) /\ requests' = Tail(requests)
           /\ requests' \in Seq(Clients)
           /\ work' = [work EXCEPT ![w] = k] /\ k.job = c
           /\ UNCHANGED <<build, server, client, started, net, back, conn, responses, ctrDec, ctrEnc,
                          shared, sound>>
  BY <1>1, DequeueFacts
<1>3. FType'
  BY <1>1, <1>2 DEF FType
<1>4. StartInv'
  BY <1>1, <1>2 DEF StartInv, Counted
<1>5. ASSUME NEW d \in Clients, Refers(d)' PROVE Refers(d)
  <2>1. /\ requests \in Seq(Clients) /\ Len(requests) \in Nat /\ DOMAIN requests = 1..Len(requests)
        /\ Len(requests) > 0
    BY <1>1, <1>2, LenProperties, EmptySeq DEF FType
  <2>2. /\ DOMAIN requests' = 1..Len(requests) - 1 /\ c = requests[1]
        /\ \A i \in 1..Len(requests) - 1 : requests'[i] = requests[i + 1]
    BY <1>2, <2>1, HeadTailProperties, LenProperties
  <2>3. CASE \E i \in DOMAIN requests' : requests'[i] = d
    <3>1. PICK i \in 1..Len(requests) - 1 : requests'[i] = d
      BY <2>2, <2>3
    <3>2. i + 1 \in DOMAIN requests /\ requests[i + 1] = d
      BY <2>1, <2>2, <3>1
    <3> QED BY <3>2 DEF Refers
  <2>4. CASE d = c
    <3>1. 1 \in DOMAIN requests /\ requests[1] = d
      BY <2>1, <2>2, <2>4
    <3> QED BY <3>1 DEF Refers
  <2>5. CASE d # c /\ ~\E i \in DOMAIN requests' : requests'[i] = d
    <3>1. \A v \in Workers : work'[v].job = d => work[v].job = d
      BY <1>1, <1>2, <2>5 DEF FType
    <3> QED BY <1>2, <1>5, <2>5, <3>1 DEF Refers
  <2> QED BY <2>3, <2>4, <2>5
<1>6. (sound => ConnectionsHeld)'
  BY <1>1, <1>2, <1>5, HeldStep
<1> QED BY <1>3, <1>4, <1>6 DEF Base

\* A worker hands over its answer.
LEMMA RespondFacts ==
  ASSUME FType, NEW w \in Workers, Respond(w)
  PROVE  \E r \in Replies :
           /\ work[w].pc = "respond" /\ work[w].job \in Clients /\ work[w].id \in Clients
           /\ r.conn = work[w].job /\ r.id = work[w].id /\ r.seq = ctrEnc[work[w].id]
           /\ r.answer = work[w].answer
           /\ responses' = Append(responses, r) /\ responses' \in Seq(Replies)
           /\ work' = [work EXCEPT ![w] = IdleWorker]
           /\ ctrEnc' = [ctrEnc EXCEPT ![work[w].id] = @ + 1] /\ ctrEnc' \in [Clients -> Nat]
           /\ UNCHANGED <<build, server, client, started, net, back, conn, requests, ctrDec, shared, sound>>
<1> DEFINE r == [conn |-> work[w].job, id |-> work[w].id, seq |-> ctrEnc[work[w].id],
                 answer |-> work[w].answer]
<1>1. /\ work[w].pc = "respond" /\ responses' = Append(responses, r)
      /\ work' = [work EXCEPT ![w] = IdleWorker]
      /\ ctrEnc' = [ctrEnc EXCEPT ![work[w].id] = @ + 1]
      /\ UNCHANGED <<build, server, client, started, net, back, conn, requests, ctrDec, shared, sound>>
  BY DEF Respond, envVars, sockVars
<1>2. work[w] \in WorkRecs /\ work[w].job \in Clients /\ work[w].id \in Clients
  BY <1>1, FoundTyped
<1>3. ctrEnc[work[w].id] \in Nat /\ ctrEnc' \in [Clients -> Nat] /\ responses \in Seq(Replies)
  BY <1>1, <1>2 DEF FType
<1>4. /\ r \in Replies /\ r.conn = work[w].job /\ r.id = work[w].id /\ r.seq = ctrEnc[work[w].id]
      /\ r.answer = work[w].answer
  BY <1>2, <1>3 DEF Replies, WorkRecs
<1> HIDE DEF r
<1>5. responses' \in Seq(Replies)
  BY <1>1, <1>3, <1>4, AppendProperties
<1> QED BY <1>1, <1>2, <1>3, <1>4, <1>5

\* The answer refers to the connection that its worker had.
LEMMA RespondBase ==
  ASSUME Base, NEW w \in Workers, Respond(w)
  PROVE  Base'
<1>1. FType /\ StartInv /\ (sound => ConnectionsHeld)
  BY DEF Base
<1>2. PICK r \in Replies :
           /\ r.conn = work[w].job /\ responses' = Append(responses, r) /\ responses' \in Seq(Replies)
           /\ work' = [work EXCEPT ![w] = IdleWorker] /\ ctrEnc' \in [Clients -> Nat]
           /\ UNCHANGED <<build, server, client, started, net, back, conn, requests, ctrDec, shared, sound>>
  BY <1>1, RespondFacts
<1>3. FType'
  BY <1>1, <1>2, IdleTyped DEF FType
<1>4. StartInv'
  BY <1>1, <1>2 DEF StartInv, Counted
<1>5. ASSUME NEW d \in Clients, Refers(d)' PROVE Refers(d)
  <2>1. responses \in Seq(Replies) /\ Len(responses) \in Nat /\ DOMAIN responses = 1..Len(responses)
    BY <1>1, LenProperties DEF FType
  <2>2. /\ DOMAIN responses' = 1..Len(responses) + 1 /\ responses'[Len(responses) + 1] = r
        /\ \A i \in 1..Len(responses) : responses'[i] = responses[i]
    BY <1>2, <2>1, AppendProperties, LenProperties
  <2>3. CASE \E i \in DOMAIN responses' : responses'[i].conn = d
    <3>1. PICK i \in 1..Len(responses) + 1 : responses'[i].conn = d
      BY <2>2, <2>3
    <3>2. CASE i = Len(responses) + 1
      BY <1>2, <2>2, <3>1, <3>2 DEF Refers
    <3>3. CASE i # Len(responses) + 1
      <4>1. i \in DOMAIN responses
        BY <2>1, <3>3
      <4> QED BY <2>1, <2>2, <3>1, <4>1 DEF Refers
    <3> QED BY <3>2, <3>3
  <2>4. CASE ~\E i \in DOMAIN responses' : responses'[i].conn = d
    <3>1. \A v \in Workers : work'[v].job = d => work[v].job = d
      BY <1>1, <1>2, IdleTyped DEF FType
    <3> QED BY <1>2, <1>5, <2>4, <3>1 DEF Refers
  <2> QED BY <2>3, <2>4
<1>6. (sound => ConnectionsHeld)'
  BY <1>1, <1>2, <1>5, HeldStep
<1> QED BY <1>3, <1>4, <1>6 DEF Base

\* At the start.
LEMMA InitBase ==
  ASSUME Init
  PROVE  Base
<1>2. FType
  <2>1. client \in [Clients -> Threads]
    <3> DEFINE k == [pc |-> "connect", seq |-> 0, ctr |-> 0, off |-> 0, asked |-> None, got |-> None]
    <3>1. k \in ClientRecs /\ k.pc = "connect" /\ k.seq = 0 /\ k.ctr = 0
      BY FaceAssumption DEF ClientRecs
    <3>2. client = [c \in Clients |-> k]
      BY DEF Init
    <3> HIDE DEF k
    <3>3. k \in Threads
      BY <3>1 DEF Threads
    <3> QED BY <3>2, <3>3
  <2>2. conn \in [Clients -> Conns]
    BY FaceAssumption DEF Init, Conns, DataSize
  <2>3. work \in [Workers -> Jobs] /\ shared \in Hists
    BY IdleTyped, BothTyped DEF Init
  <2>4. /\ requests \in Seq(Clients) /\ responses \in Seq(Replies)
        /\ net \in [Clients -> Seq(Wire)] /\ back \in [Clients -> Seq(Replies)]
    BY DEF Init
  <2> QED BY <2>1, <2>2, <2>3, <2>4 DEF Init, FType
<1>3. StartInv
  <2>1. Counted = {}
    BY DEF Init, Counted
  <2> QED BY <2>1, FS_EmptySet DEF Init, StartInv
<1>4. ConnectionsHeld
  <2>1. \A c \in Clients : ~Refers(c)
    BY IdleTyped DEF Init, Refers
  <2> QED BY <2>1 DEF ConnectionsHeld
<1> QED BY <1>2, <1>3, <1>4 DEF Base

\* Every step keeps the types and holds the connections that are in use.
LEMMA StepBaseHolds ==
  ASSUME Base, [Next]_vars
  PROVE  Base'
<1>1. ASSUME NEW c \in Clients, ClientStep(c) \/ Drop(c) PROVE Base'
  BY <1>1, ConnectBase, BarrierBase, SendBase, WriteBase, ReceiveBase, DropBase DEF ClientStep
<1>2. ASSUME NEW c \in Clients, accept_conn_cb(c) \/ ReadStep(c) \/ echo_event_cb(c) PROVE Base'
  <2>1. ASSUME ReadStep(c) PROVE Base'
    <3>1. PICK n \in 1..Len(net[c]) : echo_read_cb(c, n)
      BY <2>1 DEF ReadStep
    <3> QED BY <3>1, ReadBase
  <2> QED BY <1>2, <2>1, BevBase
<1>3. ASSUME NEW w \in Workers, WorkerStep(w) PROVE Base'
  BY <1>3, DequeueBase, DecryptBase, StepBase, RespondBase
     DEF WorkerStep, workload_face_verification, native_workload_face_verification, Serve
<1>4. CASE UNCHANGED vars
  <2>1. UNCHANGED <<build, server, client, started, net, back, conn, requests, responses, ctrDec,
                    ctrEnc, work, shared, sound>>
    BY <1>4 DEF vars, envVars, sockVars, queueVars, ctrVars, workVars
  <2>2. FType' /\ StartInv'
    BY <2>1 DEF Base, FType, StartInv, Counted
  <2>3. (sound => ConnectionsHeld)'
    BY <2>1, HeldSame DEF Base
  <2> QED BY <2>2, <2>3 DEF Base
<1>5. CASE Next
  BY <1>1, <1>2, <1>3, <1>5, ServerBase, CbFuncBase DEF Next, LoopStep
<1> QED BY <1>4, <1>5

-----------------------------------------------------------------------------
\* What a step leaves alone.
OwnAt(place, c) == Own(c, place[c], client[c], net[c], back[c], conn[c], ctrDec[c], ctrEnc[c])
SameAt(d) == /\ client'[d] = client[d] /\ net'[d] = net[d] /\ back'[d] = back[d]
             /\ conn'[d] = conn[d] /\ ctrDec'[d] = ctrDec[d] /\ ctrEnc'[d] = ctrEnc[d]

\* A step that changes one client's request moves it from one place to another.
LEMMA ClientsFrame ==
  ASSUME NEW place, NEW q, ClientsInv(place), NEW c \in Clients,
         \A d \in Clients \ {c} : q[d] = place[d] /\ SameAt(d),
         Own(c, q[c], client'[c], net'[c], back'[c], conn'[c], ctrDec'[c], ctrEnc'[c])
  PROVE  ClientsInv(q)'
<1> SUFFICES ASSUME NEW d \in Clients
             PROVE  Own(d, q[d], client'[d], net'[d], back'[d], conn'[d], ctrDec'[d], ctrEnc'[d])
  BY DEF ClientsInv
<1>1. CASE d = c
  BY <1>1
<1>2. CASE d # c
  <2>1. Own(d, place[d], client[d], net[d], back[d], conn[d], ctrDec[d], ctrEnc[d])
    BY DEF ClientsInv
  <2> QED BY <1>2, <2>1 DEF SameAt
<1> QED BY <1>1, <1>2

\* A step that leaves the request queue alone keeps what is said of it.
LEMMA RequestsFrame ==
  ASSUME NEW place, NEW q, FType, RequestsInv(place), requests' = requests,
         \A d \in Clients : place[d] = "request" => q[d] = "request"
  PROVE  RequestsInv(q)'
<1>1. \A i \in DOMAIN requests : requests[i] \in Clients
  BY ElementOfSeq, LenProperties DEF FType
<1> QED BY <1>1 DEF RequestsInv

\* The same for the response queue, unless a client there changes what it asked.
LEMMA ResponsesFrame ==
  ASSUME NEW place, NEW q, FType, ResponsesInv(place), responses' = responses,
         \A d \in Clients : place[d] = "response" =>
            q[d] = "response" /\ client'[d].asked = client[d].asked
  PROVE  ResponsesInv(q)'
<1>1. \A i \in DOMAIN responses : responses[i] \in Replies
  BY ElementOfSeq, LenProperties DEF FType
<1>2. ASSUME NEW i \in DOMAIN responses
      PROVE  LET r == responses[i]
             IN  q[r.conn] = "response" /\ Answer(r, r.conn, client'[r.conn].asked)
  <2>1. responses[i].conn \in Clients
    BY <1>1 DEF Replies
  <2>2. /\ place[responses[i].conn] = "response"
        /\ Answer(responses[i], responses[i].conn, client[responses[i].conn].asked)
    BY DEF ResponsesInv
  <2> QED BY <2>1, <2>2
<1> QED BY <1>2 DEF ResponsesInv

WorkerAt(place, w) ==
  work[w].pc # "poll" =>
    /\ w \in ThreadsOf[build]
    /\ place[work[w].job] = "worker"
    /\ \A v \in Workers : work[v].job = work[w].job => v = w
    /\ Job(work[w], client[work[w].job].asked, ctrDec[work[w].job], shared)

\* The same for the workers, unless the counter of a client they serve changes.
LEMMA WorkersFrame ==
  ASSUME NEW place, NEW q, FType, WorkersInv(place), UNCHANGED <<work, shared, build>>,
         \A d \in Clients : place[d] = "worker" =>
            /\ q[d] = "worker" /\ client'[d].asked = client[d].asked
            /\ ctrDec'[d] = ctrDec[d]
  PROVE  WorkersInv(q)'
<1> SUFFICES ASSUME NEW w \in Workers PROVE WorkerAt(q, w)'
  BY DEF WorkersInv, WorkerAt
<1>1. WorkerAt(place, w)
  BY DEF WorkersInv, WorkerAt
<1>2. CASE work[w].pc = "poll"
  BY <1>1, <1>2 DEF WorkerAt
<1>3. CASE work[w].pc # "poll"
  <2>1. /\ w \in ThreadsOf[build] /\ work[w].job \in Clients
        /\ place[work[w].job] = "worker"
        /\ \A v \in Workers : work[v].job = work[w].job => v = w
        /\ Job(work[w], client[work[w].job].asked, ctrDec[work[w].job], shared)
    BY <1>1, <1>3 DEF WorkerAt, FType, Jobs
  <2>2. Job(work[w], client[work[w].job].asked, ctrDec[work[w].job], shared)'
    BY <2>1 DEF Job
  <2> QED BY <1>3, <2>1, <2>2 DEF WorkerAt
<1> QED BY <1>2, <1>3

\* The other workers, when w takes a step: its request is not theirs, and where it
\* writes hist_from_hash it is the only worker.
LEMMA WorkersOthers ==
  ASSUME NEW place, NEW q, FType, WorkersInv(place), NEW w \in Workers, build' = build,
         \A v \in Workers \ {w} : work'[v] = work[v],
         shared' = shared \/ (build = "enclave" /\ w \in ThreadsOf[build]),
         \A d \in Clients \ {work[w].job} : place[d] = "worker" =>
            /\ q[d] = "worker" /\ client'[d].asked = client[d].asked
            /\ ctrDec'[d] = ctrDec[d],
         work'[w].job \in Clients => place[work'[w].job] # "worker" \/ work'[w].job = work[w].job,
         NEW v \in Workers \ {w}
  PROVE  WorkerAt(q, v)'
<1>1. WorkerAt(place, v) /\ WorkerAt(place, w) /\ work'[v] = work[v]
  BY DEF WorkersInv, WorkerAt
<1>2. CASE work[v].pc = "poll"
  BY <1>1, <1>2 DEF WorkerAt
<1>3. CASE work[v].pc # "poll"
  <2>1. /\ v \in ThreadsOf[build] /\ work[v].job \in Clients
        /\ place[work[v].job] = "worker"
        /\ \A x \in Workers : work[x].job = work[v].job => x = v
        /\ Job(work[v], client[work[v].job].asked, ctrDec[work[v].job], shared)
    BY <1>1, <1>3 DEF WorkerAt, FType, Jobs
  <2>2. work[v].job # work[w].job
    BY <2>1
  <2>3. /\ q[work[v].job] = "worker" /\ ctrDec'[work[v].job] = ctrDec[work[v].job]
        /\ client'[work[v].job].asked = client[work[v].job].asked
    BY <2>1, <2>2
  <2>4. ASSUME NEW x \in Workers, work'[x].job = work'[v].job PROVE x = v
    <3>1. CASE x = w
      BY <1>1, <2>1, <2>2, <2>4, <3>1
    <3>2. CASE x # w
      BY <1>1, <2>1, <2>4, <3>2
    <3> QED BY <3>1, <3>2
  <2>5. Job(work[v], client[work[v].job].asked, ctrDec[work[v].job], shared')
    <3>1. CASE shared' = shared
      BY <2>1, <3>1
    <3>2. CASE build = "enclave" /\ w \in ThreadsOf[build]
      <4>1. build \in Builds
        BY DEF FType
      <4>2. OneInside => build # "enclave" \/ work[v].pc \notin {"copy", "distance"}
        BY <2>1, <3>2, <4>1 DEF OneInside
      <4> QED BY <2>1, <3>2, <4>2 DEF Job
    <3> QED BY <3>1, <3>2
  <2>6. Job(work[v], client[work[v].job].asked, ctrDec[work[v].job], shared)'
    BY <1>1, <2>3, <2>5 DEF Job
  <2> QED BY <1>1, <1>3, <2>1, <2>3, <2>4, <2>6 DEF WorkerAt
<1> QED BY <1>2, <1>3

\* A step of one worker keeps what is said of the others, even if it writes the
\* shared histogram: then it is alone in the enclave.
LEMMA WorkersStep ==
  ASSUME NEW place, NEW q, FType, WorkersInv(place), NEW w \in Workers, build' = build,
         \A v \in Workers \ {w} : work'[v] = work[v],
         shared' = shared \/ (build = "enclave" /\ w \in ThreadsOf[build]),
         \A d \in Clients \ {work[w].job} : place[d] = "worker" =>
            /\ q[d] = "worker" /\ client'[d].asked = client[d].asked
            /\ ctrDec'[d] = ctrDec[d],
         work'[w].job \in Clients => place[work'[w].job] # "worker" \/ work'[w].job = work[w].job,
         WorkerAt(q, w)'
  PROVE  WorkersInv(q)'
<1>1. ASSUME NEW v \in Workers PROVE WorkerAt(q, v)'
  <2>1. CASE v = w
    BY <2>1
  <2>2. CASE v # w
    BY <2>2, WorkersOthers
  <2> QED BY <2>1, <2>2
<1> QED BY <1>1 DEF WorkersInv, WorkerAt

-----------------------------------------------------------------------------
\* The two queues.
LEMMA RequestsAppend ==
  ASSUME NEW place, NEW q, FType, RequestsInv(place), NEW c \in Clients,
         place[c] # "request", requests' = Append(requests, c), q[c] = "request",
         \A d \in Clients \ {c} : q[d] = place[d]
  PROVE  RequestsInv(q)' /\ requests' \in Seq(Clients)
<1> DEFINE n == Len(requests)
<1>1. requests \in Seq(Clients) /\ n \in Nat /\ DOMAIN requests = 1..n
  BY LenProperties DEF FType
<1>2. /\ requests' \in Seq(Clients) /\ DOMAIN requests' = 1..n + 1 /\ requests'[n + 1] = c
      /\ \A i \in 1..n : requests'[i] = requests[i]
  BY <1>1
<1>3. \A i \in 1..n : requests[i] \in Clients /\ place[requests[i]] = "request"
  BY <1>1, ElementOfSeq DEF RequestsInv
<1>4. \A i \in 1..n : requests[i] # c
  BY <1>3
<1>5. \A i, j \in 1..n : requests[i] = requests[j] => i = j
  BY <1>1 DEF RequestsInv
<1>6. 1..n + 1 = (1..n) \cup {n + 1}
  BY <1>1
<1> HIDE DEF n
<1>7. \A i \in 1..n + 1 : q[requests'[i]] = "request"
  BY <1>2, <1>3, <1>4, <1>6
<1>8. \A i, j \in 1..n + 1 : requests'[i] = requests'[j] => i = j
  BY <1>2, <1>4, <1>5, <1>6
<1> QED BY <1>2, <1>7, <1>8 DEF RequestsInv

\* Taking the first request off its queue.
LEMMA RequestsTail ==
  ASSUME NEW place, NEW q, FType, RequestsInv(place), requests # <<>>, NEW c,
         c = Head(requests), requests' = Tail(requests),
         \A d \in Clients \ {c} : q[d] = place[d]
  PROVE  RequestsInv(q)' /\ requests' \in Seq(Clients)
<1> DEFINE n == Len(requests)
<1>1. requests \in Seq(Clients) /\ n \in Nat /\ DOMAIN requests = 1..n /\ n > 0
  BY LenProperties, EmptySeq DEF FType
<1>2. /\ requests' \in Seq(Clients) /\ DOMAIN requests' = 1..n - 1
      /\ \A i \in 1..n - 1 : requests'[i] = requests[i + 1]
  BY <1>1, HeadTailProperties, LenProperties
<1>3. c = requests[1] /\ 1 \in 1..n
  BY <1>1
<1>4. \A i \in 1..n : requests[i] \in Clients /\ place[requests[i]] = "request"
  BY <1>1, ElementOfSeq DEF RequestsInv
<1>5. \A i, j \in 1..n : requests[i] = requests[j] => i = j
  BY <1>1 DEF RequestsInv
<1> HIDE DEF n
<1>6. \A i \in 1..n - 1 : i + 1 \in 1..n /\ i + 1 # 1
  BY <1>1
<1>7. ASSUME NEW i \in 1..n - 1 PROVE q[requests'[i]] = "request"
  <2>1. requests'[i] = requests[i + 1] /\ i + 1 \in 1..n /\ i + 1 # 1
    BY <1>2, <1>6
  <2>2. requests[i + 1] # c
    BY <1>3, <1>5, <2>1
  <2> QED BY <1>4, <2>1, <2>2
<1>8. ASSUME NEW i \in 1..n - 1, NEW j \in 1..n - 1, requests'[i] = requests'[j] PROVE i = j
  <2>1. i + 1 = j + 1
    BY <1>2, <1>5, <1>6, <1>8
  <2> QED BY <2>1, <1>1
<1> QED BY <1>2, <1>7, <1>8 DEF RequestsInv

\* The first request of the queue is of a client whose request is there.
LEMMA RequestsHead ==
  ASSUME NEW place, FType, RequestsInv(place), requests # <<>>
  PROVE  Head(requests) \in Clients /\ place[Head(requests)] = "request"
<1>1. requests \in Seq(Clients) /\ Len(requests) \in Nat \ {0}
  BY EmptySeq DEF FType
<1>2. 1 \in DOMAIN requests /\ Head(requests) = requests[1] /\ Head(requests) \in Clients
  BY <1>1, LenProperties, HeadTailProperties
<1> QED BY <1>2 DEF RequestsInv

\* Adding an answer to its queue.
LEMMA ResponsesAppend ==
  ASSUME NEW place, NEW q, FType, ResponsesInv(place), NEW r \in Replies,
         place[r.conn] # "response", responses' = Append(responses, r),
         q[r.conn] = "response", client' = client,
         Answer(r, r.conn, client[r.conn].asked),
         \A d \in Clients \ {r.conn} : q[d] = place[d]
  PROVE  ResponsesInv(q)' /\ responses' \in Seq(Replies)
<1> DEFINE n == Len(responses)
           At(x) == place[x.conn] = "response" /\ Answer(x, x.conn, client[x.conn].asked)
           New(x) == q[x.conn] = "response" /\ Answer(x, x.conn, client[x.conn].asked)
<1>1. responses \in Seq(Replies) /\ n \in Nat /\ DOMAIN responses = 1..n
  BY LenProperties DEF FType
<1>2. /\ responses' \in Seq(Replies) /\ DOMAIN responses' = 1..n + 1 /\ responses'[n + 1] = r
      /\ \A i \in 1..n : responses'[i] = responses[i]
  BY <1>1
<1>3. ASSUME NEW i \in 1..n PROVE responses[i].conn \in Clients /\ At(responses[i])
  <2>1. responses[i] \in Replies
    BY <1>1, ElementOfSeq
  <2>2. At(responses[i])
    BY <1>1 DEF ResponsesInv
  <2> QED BY <2>1, <2>2 DEF Replies
<1>4. \A i \in 1..n : responses[i].conn # r.conn
  BY <1>3
<1>5. \A i, j \in 1..n : responses[i].conn = responses[j].conn => i = j
  BY <1>1 DEF ResponsesInv
<1>6. 1..n + 1 = (1..n) \cup {n + 1}
  BY <1>1
<1>n. New(r)
  OBVIOUS
<1>7. \A i \in 1..n : New(responses[i])
  BY <1>3, <1>4
<1> HIDE DEF n, New
<1>8. \A i \in 1..n + 1 : New(responses'[i])
  BY <1>2, <1>6, <1>7, <1>n
<1>9. \A i, j \in 1..n + 1 : responses'[i].conn = responses'[j].conn => i = j
  BY <1>2, <1>4, <1>5, <1>6
<1> QED BY <1>2, <1>8, <1>9 DEF ResponsesInv, New

\* Taking the first answer off its queue.
LEMMA ResponsesTail ==
  ASSUME NEW place, NEW q, FType, ResponsesInv(place), responses # <<>>, NEW c,
         c = Head(responses).conn, responses' = Tail(responses), client' = client,
         \A d \in Clients \ {c} : q[d] = place[d]
  PROVE  ResponsesInv(q)' /\ responses' \in Seq(Replies)
<1> DEFINE n == Len(responses)
           At(x) == place[x.conn] = "response" /\ Answer(x, x.conn, client[x.conn].asked)
           New(x) == q[x.conn] = "response" /\ Answer(x, x.conn, client[x.conn].asked)
<1>1. responses \in Seq(Replies) /\ n \in Nat /\ DOMAIN responses = 1..n /\ n > 0
  BY LenProperties, EmptySeq DEF FType
<1>2. /\ responses' \in Seq(Replies) /\ DOMAIN responses' = 1..n - 1
      /\ \A i \in 1..n - 1 : responses'[i] = responses[i + 1]
  BY <1>1, HeadTailProperties, LenProperties
<1>3. c = responses[1].conn /\ 1 \in 1..n
  BY <1>1
<1>4. ASSUME NEW i \in 1..n PROVE responses[i].conn \in Clients /\ At(responses[i])
  <2>1. responses[i] \in Replies
    BY <1>1, ElementOfSeq
  <2>2. At(responses[i])
    BY <1>1 DEF ResponsesInv
  <2> QED BY <2>1, <2>2 DEF Replies
<1>5. \A i, j \in 1..n : responses[i].conn = responses[j].conn => i = j
  BY <1>1 DEF ResponsesInv
<1> HIDE DEF n
<1>6. \A i \in 1..n - 1 : i + 1 \in 1..n /\ i + 1 # 1
  BY <1>1
<1>7. ASSUME NEW i \in 1..n - 1 PROVE New(responses'[i])
  <2>1. responses'[i] = responses[i + 1] /\ i + 1 \in 1..n /\ i + 1 # 1
    BY <1>2, <1>6
  <2>2. responses[i + 1].conn # c
    BY <1>3, <1>5, <2>1
  <2> QED BY <1>4, <2>1, <2>2
<1>8. ASSUME NEW i \in 1..n - 1, NEW j \in 1..n - 1,
             responses'[i].conn = responses'[j].conn
      PROVE i = j
  <2>1. i + 1 \in 1..n /\ j + 1 \in 1..n /\ responses[i + 1].conn = responses[j + 1].conn
    BY <1>2, <1>6, <1>8
  <2>2. i + 1 = j + 1
    BY <1>5, <2>1
  <2> QED BY <2>2
<1> HIDE DEF New
<1> QED BY <1>2, <1>7, <1>8 DEF ResponsesInv, New

\* The first answer of the queue answers what its client asked.
LEMMA ResponsesHead ==
  ASSUME NEW place, FType, ResponsesInv(place), responses # <<>>
  PROVE  LET r == Head(responses)
         IN  /\ r \in Replies /\ place[r.conn] = "response"
             /\ Answer(r, r.conn, client[r.conn].asked)
<1>1. responses \in Seq(Replies) /\ Len(responses) \in Nat \ {0}
  BY EmptySeq DEF FType
<1>2. 1 \in DOMAIN responses /\ Head(responses) = responses[1] /\ Head(responses) \in Replies
  BY <1>1, LenProperties, HeadTailProperties
<1> QED BY <1>2 DEF ResponsesInv

-----------------------------------------------------------------------------
\* The client's threads: a step of one moves no request but its own.
LEMMA ThreadHolds ==
  ASSUME NEW place, Holds(place), Base', sound', NEW c \in Clients, NEW k, NEW p \in Places,
         client' = [client EXCEPT ![c] = k],
         UNCHANGED <<build, conn, requests, responses, ctrDec, ctrEnc, work, shared>>,
         \A d \in Clients \ {c} : net'[d] = net[d] /\ back'[d] = back[d],
         Own(c, p, k, net'[c], back'[c], conn[c], ctrDec[c], ctrEnc[c]),
         place[c] \in {"request", "worker", "response"} => p = place[c] /\ k.asked = client[c].asked
  PROVE  \E q \in [Clients -> Places] : Holds(q)'
<1> DEFINE q == [place EXCEPT ![c] = p]
<1>1. /\ place \in [Clients -> Places] /\ FType
      /\ ClientsInv(place) /\ RequestsInv(place) /\ ResponsesInv(place) /\ WorkersInv(place)
  BY DEF Holds, Base
<1>2. client'[c] = k /\ \A d \in Clients \ {c} : client'[d] = client[d]
  BY <1>1 DEF FType
<1>3. q \in [Clients -> Places] /\ q[c] = p /\ \A d \in Clients \ {c} : q[d] = place[d]
  BY <1>1
<1> HIDE DEF q
<1>4. ClientsInv(q)'
  <2>1. \A d \in Clients \ {c} : q[d] = place[d] /\ SameAt(d)
    BY <1>2, <1>3 DEF SameAt
  <2>2. Own(c, q[c], client'[c], net'[c], back'[c], conn'[c], ctrDec'[c], ctrEnc'[c])
    BY <1>2, <1>3
  <2> QED BY <1>1, <2>1, <2>2, ClientsFrame
<1>5. \A d \in Clients : place[d] \in {"request", "worker", "response"} =>
          /\ q[d] = place[d] /\ client'[d].asked = client[d].asked /\ ctrDec'[d] = ctrDec[d]
  BY <1>2, <1>3
<1>6. RequestsInv(q)' /\ ResponsesInv(q)' /\ WorkersInv(q)'
  <2>1. \A d \in Clients : place[d] = "request" => q[d] = "request"
    BY <1>5
  <2>2. \A d \in Clients : place[d] = "response" => q[d] = "response" /\ client'[d].asked = client[d].asked
    BY <1>5
  <2>3. \A d \in Clients : place[d] = "worker" =>
            /\ q[d] = "worker" /\ client'[d].asked = client[d].asked /\ ctrDec'[d] = ctrDec[d]
    BY <1>5
  <2> QED BY <1>1, <2>1, <2>2, <2>3, RequestsFrame, ResponsesFrame, WorkersFrame
<1>7. Holds(q)'
  BY <1>3, <1>4, <1>6 DEF Holds
<1> QED BY <1>3, <1>7

\* What is known of one client.
LEMMA OwnFacts ==
  ASSUME NEW place, Holds(place), NEW c \in Clients
  PROVE  /\ FType /\ OwnAt(place, c) /\ place[c] \in Places
         /\ client[c] \in Threads /\ client[c] \in ClientRecs
BY DEF Holds, Base, FType, ClientsInv, OwnAt, Threads

\* A connection, made or failed, and the barrier.
LEMMA StartHolds ==
  ASSUME NEW place, Holds(place), Base', sound', NEW c \in Clients, Connect(c) \/ PassBarrier(c)
  PROVE  \E q \in [Clients -> Places] : Holds(q)'
<1>1. FType /\ OwnAt(place, c) /\ place[c] \in Places /\ client[c] \in Threads /\ client[c] \in ClientRecs
  BY OwnFacts
<1>0. FType
  BY <1>1
<1>2. PICK b \in {"barrier", "failed", "send"} :
      /\ client[c].pc \in {"connect", "barrier"} /\ client' = [client EXCEPT ![c] = [client[c] EXCEPT !.pc = b]]
      /\ UNCHANGED <<build, server, net, back, conn, requests, responses, ctrDec, ctrEnc, work, shared>>
  BY <1>1 DEF Connect, PassBarrier, envVars, sockVars, queueVars, ctrVars, workVars, FType
<1> DEFINE k == [client[c] EXCEPT !.pc = b]
<1>3. /\ k.pc = b /\ k.asked = client[c].asked /\ k.seq = client[c].seq /\ k.ctr = client[c].ctr
      /\ k.got = client[c].got
  BY <1>1 DEF ClientRecs
<1>4. client' = [client EXCEPT ![c] = k]
  BY <1>2
<1> HIDE DEF k
<1>5. place[c] = "none"
  BY <1>1, <1>2 DEF OwnAt, Own
<1>6. Own(c, "none", k, net'[c], back'[c], conn[c], ctrDec[c], ctrEnc[c])
  BY <1>1, <1>2, <1>3, <1>5 DEF OwnAt, Own, Resting
<1>7. /\ UNCHANGED <<build, conn, requests, responses, ctrDec, ctrEnc, work, shared>> /\ "none" \in Places
      /\ \A d \in Clients \ {c} : net'[d] = net[d] /\ back'[d] = back[d]
  BY <1>2 DEF Places
<1> QED BY <1>4, <1>5, <1>6, <1>7, ThreadHolds

\* The next request is on the wire, none of it written yet.
LEMMA SendHolds ==
  ASSUME NEW place, Holds(place), Base', sound', NEW c \in Clients, Send(c)
  PROVE  \E q \in [Clients -> Places] : Holds(q)'
<1>1. FType /\ OwnAt(place, c) /\ place[c] \in Places /\ client[c] \in Threads /\ client[c] \in ClientRecs
  BY OwnFacts
<1>0. FType
  BY <1>1
<1>2. PICK m \in Messages, k \in Threads :
           /\ client[c].pc = "send" /\ m.id = c /\ m.seq = client[c].seq
           /\ client' = [client EXCEPT ![c] = k]
           /\ k.pc = "write" /\ k.asked = m /\ k.seq = m.seq + 1 /\ k.ctr = m.seq /\ k.off = 0
           /\ k.got = client[c].got
           /\ UNCHANGED <<build, server, started, net, back, conn, requests, responses, ctrDec,
                          ctrEnc, work, shared, sound>>
  BY <1>0, SendFacts
<1>3. place[c] = "none" /\ Resting(client[c], ctrDec[c], ctrEnc[c])
  BY <1>1, <1>2 DEF OwnAt, Own
<1>4. net[c] = <<>> /\ back[c] = <<>> /\ conn[c].totalRead = 0
  BY <1>1, <1>3 DEF OwnAt, Own
<1>5. Stream(m, k, net'[c], conn[c])
  <2>1. Seg(m, 0, 0) = <<>>
    BY FaceAssumption, SegSeq
  <2> QED BY <1>2, <1>4, <2>1 DEF Stream
<1>6. Waiting(c, k, "net", ctrDec[c], ctrEnc[c])
  BY <1>2, <1>3 DEF Resting, Waiting
<1>7. Own(c, "net", k, net'[c], back'[c], conn[c], ctrDec[c], ctrEnc[c])
  <2>1. 0 < MsgLen
    BY FaceAssumption
  <2> QED BY <1>2, <1>4, <1>5, <1>6, <2>1 DEF Own
<1>8. "net" \in Places
  BY DEF Places
<1> QED BY <1>2, <1>3, <1>7, <1>8, ThreadHolds

\* A piece of it is written.
LEMMA WriteHolds ==
  ASSUME NEW place, Holds(place), Base', sound', NEW c \in Clients, Write(c)
  PROVE  \E q \in [Clients -> Places] : Holds(q)'
<1>1. FType /\ OwnAt(place, c) /\ place[c] \in Places /\ client[c] \in Threads /\ client[c] \in ClientRecs
  BY OwnFacts
<1>0. FType
  BY <1>1
<1>2. PICK e \in 0..MsgLen, k \in Threads :
           /\ client[c].pc = "write" /\ client[c].asked \in Messages
           /\ client[c].off \in 0..MsgLen /\ client[c].off <= e
           /\ net' = [net EXCEPT ![c] = @ \o Seg(client[c].asked, client[c].off, e)]
           /\ net' \in [Clients -> Seq(Wire)]
           /\ client' = [client EXCEPT ![c] = k] /\ k.off = e
           /\ k.pc = IF e < MsgLen THEN "write" ELSE "wait"
           /\ k.asked = client[c].asked /\ k.seq = client[c].seq /\ k.ctr = client[c].ctr
           /\ k.got = client[c].got
           /\ UNCHANGED <<build, server, started, back, conn, requests, responses, ctrDec, ctrEnc,
                          work, shared, sound>>
  BY <1>0, WriteFacts
<1> DEFINE m == client[c].asked
           t == conn[c].totalRead
           u == client[c].off
<1>3. place[c] = "net"
  BY <1>1, <1>2 DEF OwnAt, Own
<1>4. Stream(m, client[c], net[c], conn[c]) /\ Waiting(c, client[c], "net", ctrDec[c], ctrEnc[c])
  BY <1>1, <1>3 DEF OwnAt, Own
<1>5. t <= u /\ net[c] = Seg(m, t, u) /\ \A i \in 1..t : conn[c].data[i] = <<m, i>>
  BY <1>2, <1>4 DEF Stream
<1>6. t \in Nat /\ t \in 0..MsgLen /\ t <= e
  <2>1. conn[c] \in Conns
    BY <1>1 DEF FType
  <2>2. t \in 0..DataSize - 1
    BY <2>1 DEF Conns
  <2> HIDE DEF t, u
  <2>3. u \in 0..MsgLen /\ u <= e
    BY <1>2 DEF u
  <2> QED BY <1>5, <2>2, <2>3, FaceAssumption DEF DataSize
<1>7. net'[c] = Seg(m, t, e) /\ \A d \in Clients \ {c} : net'[d] = net[d]
  <2>1. net'[c] = Seg(m, t, u) \o Seg(m, u, e)
    BY <1>1, <1>2, <1>5 DEF FType
  <2>2. Seg(m, t, u) \o Seg(m, u, e) = Seg(m, t, e)
    <3>1. m \in Messages /\ u \in 0..MsgLen /\ u <= e /\ t <= u /\ t \in 0..MsgLen
      BY <1>2, <1>5, <1>6
    <3> HIDE DEF m, t, u
    <3> QED BY <3>1, SegConcat
  <2> QED BY <1>1, <1>2, <2>1, <2>2 DEF FType
<1>8. Stream(m, k, net'[c], conn[c])
  BY <1>2, <1>5, <1>6, <1>7 DEF Stream
<1>9. Waiting(c, k, "net", ctrDec[c], ctrEnc[c])
  BY <1>2, <1>4 DEF Waiting
<1>10. back[c] = <<>>
  BY <1>1, <1>3 DEF OwnAt, Own
<1>11. Own(c, "net", k, net'[c], back'[c], conn[c], ctrDec[c], ctrEnc[c])
  BY <1>2, <1>8, <1>9, <1>10 DEF Own
<1> QED BY <1>1, <1>2, <1>3, <1>7, <1>11, ThreadHolds

\* An answer that is received leaves the client without a request.
LEMMA ReceiveHolds ==
  ASSUME NEW place, Holds(place), Base', sound', NEW c \in Clients, Receive(c)
  PROVE  \E q \in [Clients -> Places] : Holds(q)'
<1>1. FType /\ OwnAt(place, c) /\ place[c] \in Places /\ client[c] \in Threads /\ client[c] \in ClientRecs
  BY OwnFacts
<1>0. FType
  BY <1>1
<1> DEFINE r == Head(back[c])
<1>2. PICK k \in Threads :
           /\ client[c].pc = "wait" /\ back[c] # <<>> /\ r \in Replies
           /\ client' = [client EXCEPT ![c] = k]
           /\ k.pc = IF client[c].seq < PerClient THEN "send" ELSE "closed"
           /\ k.got = IF r.id = c /\ r.seq = client[c].ctr THEN r.answer ELSE Garbage
           /\ k.asked = client[c].asked /\ k.seq = client[c].seq /\ k.ctr = client[c].seq
           /\ back' = [back EXCEPT ![c] = Tail(@)] /\ back' \in [Clients -> Seq(Replies)]
           /\ UNCHANGED <<build, server, started, net, conn, requests, responses, ctrDec, ctrEnc,
                          work, shared, sound>>
  BY <1>0, ReceiveFacts
<1>3. /\ place[c] = "back" /\ Len(back[c]) = 1 /\ Answer(back[c][1], c, client[c].asked)
      /\ Waiting(c, client[c], "back", ctrDec[c], ctrEnc[c])
      /\ net[c] = <<>> /\ conn[c].totalRead = 0
  BY <1>1, <1>2 DEF OwnAt, Own
<1>4. r = back[c][1] /\ back'[c] = <<>> /\ \A d \in Clients \ {c} : back'[d] = back[d]
  <2>1. back[c] \in Seq(Replies)
    BY <1>1 DEF FType
  <2>2. Len(Tail(back[c])) = 0 /\ Tail(back[c]) \in Seq(Replies)
    BY <1>2, <1>3, <2>1, HeadTailProperties
  <2>3. Head(back[c]) = back[c][1]
    BY <1>2, <1>3, <2>1, HeadTailProperties
  <2>4. Tail(back[c]) = <<>>
    BY <2>2, EmptySeq
  <2> QED BY <1>1, <1>2, <2>3, <2>4 DEF FType
<1>5. /\ client[c].seq = client[c].asked.seq + 1 /\ client[c].ctr = client[c].asked.seq
      /\ ctrDec[c] = client[c].asked.seq + 1 /\ ctrEnc[c] = client[c].asked.seq + 1
      /\ client[c].asked \in Messages
  BY <1>3 DEF Waiting
<1>6. k.got = r.answer /\ (OneInside => k.got = Right(client[c].asked))
  BY <1>2, <1>3, <1>4, <1>5 DEF Answer
<1> HIDE DEF r
<1>7. Resting(k, ctrDec[c], ctrEnc[c]) /\ k.pc \in {"send", "closed"}
  BY <1>2, <1>5, <1>6 DEF Resting
<1>8. Own(c, "none", k, net'[c], back'[c], conn[c], ctrDec[c], ctrEnc[c]) /\ "none" \in Places
  BY <1>2, <1>3, <1>4, <1>7 DEF Own, Places
<1> QED BY <1>2, <1>3, <1>4, <1>8, ThreadHolds

\* The request of a client that is gone stays where it is, or is lost on the wire.
LEMMA DropHolds ==
  ASSUME NEW place, Holds(place), Base', sound', NEW c \in Clients, Drop(c)
  PROVE  \E q \in [Clients -> Places] : Holds(q)'
<1>1. FType /\ OwnAt(place, c) /\ place[c] \in Places /\ client[c] \in Threads /\ client[c] \in ClientRecs
  BY OwnFacts
<1>0. FType
  BY <1>1
<1>2. PICK k \in Threads :
           /\ client[c].pc \in {"barrier", "send", "write", "wait"}
           /\ client' = [client EXCEPT ![c] = k] /\ k = [client[c] EXCEPT !.pc = "gone"]
           /\ k.pc = "gone" /\ k.off = client[c].off /\ k.asked = client[c].asked
           /\ k.seq = client[c].seq /\ k.ctr = client[c].ctr
           /\ net' = net \/ net' = [net EXCEPT ![c] = <<>>]
           /\ net' \in [Clients -> Seq(Wire)]
           /\ UNCHANGED <<build, server, started, back, conn, requests, responses, ctrDec, ctrEnc,
                          work, shared, sound>>
  BY <1>0, DropFacts
<1>3. /\ net'[c] = net[c] \/ net'[c] = <<>>
      /\ \A d \in Clients \ {c} : net'[d] = net[d] /\ back'[d] = back[d]
  BY <1>1, <1>2 DEF FType
<1>4. place[c] # "none" => Waiting(c, k, place[c], ctrDec[c], ctrEnc[c])
  BY <1>1, <1>2 DEF OwnAt, Own, Waiting
<1>5. place[c] = "net" => Stream(k.asked, k, net'[c], conn[c])
  <2> SUFFICES ASSUME place[c] = "net" PROVE Stream(k.asked, k, net'[c], conn[c])
    OBVIOUS
  <2>1. Stream(client[c].asked, client[c], net[c], conn[c])
    BY <1>1 DEF OwnAt, Own
  <2> QED BY <1>2, <1>3, <2>1 DEF Stream
<1>6. Own(c, place[c], k, net'[c], back'[c], conn[c], ctrDec[c], ctrEnc[c])
  BY <1>1, <1>2, <1>3, <1>4, <1>5 DEF OwnAt, Own
<1>7. /\ UNCHANGED <<build, conn, requests, responses, ctrDec, ctrEnc, work, shared>>
      /\ client' = [client EXCEPT ![c] = k] /\ k.asked = client[c].asked
  BY <1>2
<1>8. PICK p \in Places : p = place[c]
  BY <1>1
<1> QED BY <1>3, <1>6, <1>7, <1>8, ThreadHolds

-----------------------------------------------------------------------------
\* The event loop.  A step that leaves the buffers, the queues, the streams and the
\* threads alone moves no request.
LEMMA QuietHolds ==
  ASSUME NEW place, Holds(place), Base', sound',
         UNCHANGED <<build, client, net, back, requests, responses, ctrDec, ctrEnc, work, shared>>,
         \A d \in Clients : conn'[d].data = conn[d].data /\ conn'[d].totalRead = conn[d].totalRead
  PROVE  Holds(place)'
<1>1. /\ place \in [Clients -> Places] /\ FType
      /\ ClientsInv(place) /\ RequestsInv(place) /\ ResponsesInv(place) /\ WorkersInv(place)
  BY DEF Holds, Base
<1>2. ASSUME NEW c \in Clients
      PROVE  Own(c, place[c], client'[c], net'[c], back'[c], conn'[c], ctrDec'[c], ctrEnc'[c])
  <2>1. OwnAt(place, c)
    BY <1>1 DEF ClientsInv, OwnAt
  <2>2. Stream(client[c].asked, client[c], net[c], conn[c]) =>
          Stream(client[c].asked, client[c], net[c], conn'[c])
    BY DEF Stream
  <2> QED BY <2>1, <2>2 DEF OwnAt, Own
<1>3. ClientsInv(place)'
  BY <1>2 DEF ClientsInv
<1>4. RequestsInv(place)' /\ ResponsesInv(place)' /\ WorkersInv(place)'
  BY <1>1, RequestsFrame, ResponsesFrame, WorkersFrame
<1> QED BY <1>1, <1>3, <1>4 DEF Holds

\* The server's start and end; a connection is accepted, or freed.
LEMMA LoopHolds ==
  ASSUME NEW place, Holds(place), Base', sound',
         runServer \/ Die \/ UNCHANGED vars \/ \E c \in Clients : accept_conn_cb(c) \/ echo_event_cb(c)
  PROVE  Holds(place)'
<1>1. FType
  BY DEF Holds, Base
<1>2. UNCHANGED <<build, client, net, back, requests, responses, ctrDec, ctrEnc, work, shared>>
  BY DEF runServer, Die, accept_conn_cb, echo_event_cb, vars, envVars, sockVars, queueVars, ctrVars,
         workVars
<1>3. \A d \in Clients : conn'[d].data = conn[d].data /\ conn'[d].totalRead = conn[d].totalRead
  <2>1. CASE runServer \/ Die \/ UNCHANGED vars
    BY <2>1 DEF runServer, Die, vars
  <2>2. ASSUME NEW c \in Clients, accept_conn_cb(c) \/ echo_event_cb(c)
        PROVE  \A d \in Clients : conn'[d].data = conn[d].data /\ conn'[d].totalRead = conn[d].totalRead
    <3>1. PICK b \in {"open", "freed"} : conn' = [conn EXCEPT ![c].bev = b]
      BY <2>2 DEF accept_conn_cb, echo_event_cb
    <3>2. /\ \A d \in Clients \ {c} : conn'[d] = conn[d]
          /\ conn'[c].data = conn[c].data /\ conn'[c].totalRead = conn[c].totalRead
      BY <1>1, <3>1, BevFacts
    <3> QED BY <3>2
  <2> QED BY <2>1, <2>2
<1> QED BY <1>2, <1>3, QuietHolds

\* echo_read_cb: what arrives is of the one message on the wire.
LEMMA ReadFacts ==
  ASSUME NEW place, Holds(place), NEW c \in Clients, NEW n \in 1..Len(net[c])
  PROVE  LET m == client[c].asked  t == conn[c].totalRead  u == client[c].off IN
         /\ place[c] = "net" /\ m \in Messages /\ t \in Nat /\ u \in 0..MsgLen
         /\ n \in 1..MsgLen /\ t + n \in 1..MsgLen /\ t + n <= u /\ t <= u
         /\ net[c] = Seg(m, t, u) /\ SubSeq(net[c], n + 1, Len(net[c])) = Seg(m, t + n, u)
         /\ \A i \in 1..t : conn[c].data[i] = <<m, i>>
<1> DEFINE m == client[c].asked
           t == conn[c].totalRead
           u == client[c].off
<1>1. FType /\ OwnAt(place, c) /\ client[c] \in ClientRecs
  BY OwnFacts
<1>2. net[c] \in Seq(Wire) /\ Len(net[c]) \in Nat /\ conn[c] \in Conns /\ n \in Nat /\ n >= 1
  BY <1>1, LenProperties DEF FType
<1>3. net[c] # <<>>
  BY <1>2, EmptySeq
<1>4. place[c] = "net"
  BY <1>1, <1>3 DEF OwnAt, Own
<1>5. m \in Messages /\ Stream(m, client[c], net[c], conn[c])
  BY <1>1, <1>4 DEF OwnAt, Own, Waiting
<1>6. t <= u /\ net[c] = Seg(m, t, u) /\ \A i \in 1..t : conn[c].data[i] = <<m, i>>
  BY <1>3, <1>5 DEF Stream
<1>7. u \in 0..MsgLen /\ t \in 0..DataSize - 1
  BY <1>1, <1>2 DEF ClientRecs, Conns
<1> HIDE DEF m, t, u
<1>8. t \in Nat /\ t \in 0..MsgLen
  BY <1>7, FaceAssumption DEF DataSize
<1>9. Len(net[c]) = u - t
  BY <1>5, <1>6, <1>7, <1>8, SegSeq
<1>10. n \in 1..MsgLen /\ t + n \in 1..MsgLen /\ t + n <= u
  BY <1>2, <1>7, <1>8, <1>9, FaceAssumption
<1>11. SubSeq(net[c], n + 1, Len(net[c])) = Seg(m, t + n, u)
  BY <1>5, <1>6, <1>7, <1>8, <1>10, SegRest
<1> QED BY <1>4, <1>5, <1>6, <1>7, <1>8, <1>10, <1>11 DEF m, t, u

\* A read leaves the request on the wire, or completes it and moves it to the queue.
LEMMA ReadHolds ==
  ASSUME NEW place, Holds(place), Base', sound', NEW c \in Clients, NEW n \in 1..Len(net[c]),
         echo_read_cb(c, n)
  PROVE  \E q \in [Clients -> Places] : Holds(q)'
<1> DEFINE m == client[c].asked
           t == conn[c].totalRead
           u == client[c].off
           have == t + n
           dt == [i \in 1..MsgLen |-> IF i > have - n /\ i <= have
                                      THEN net[c][i - have + n] ELSE conn[c].data[i]]
<1>1. /\ place \in [Clients -> Places] /\ FType
      /\ ClientsInv(place) /\ RequestsInv(place) /\ ResponsesInv(place) /\ WorkersInv(place)
  BY DEF Holds, Base
<1>0. FType
  BY <1>1
<1>2. PICK v \in Conns, z \in Seq(Wire) :
           /\ conn[c].bev = "open"
           /\ conn' = [conn EXCEPT ![c] = v] /\ v.bev = "open"
           /\ v.data = [i \in 1..MsgLen |-> IF i > have - n /\ i <= have
                                            THEN net[c][i - have + n] ELSE conn[c].data[i]]
           /\ v.totalRead = IF have < DataSize THEN have ELSE 0
           /\ net' = [net EXCEPT ![c] = z] /\ z = SubSeq(net[c], n + 1, Len(net[c]))
           /\ requests' = IF have < DataSize THEN requests ELSE Append(requests, c)
           /\ sound' = (sound /\ have # DataSize)
           /\ UNCHANGED <<build, server, client, started, back, responses, ctrDec, ctrEnc, work, shared>>
  BY <1>0, ReadTyped
<1>3. /\ place[c] = "net" /\ m \in Messages /\ t \in Nat /\ u \in 0..MsgLen
      /\ n \in 1..MsgLen /\ have \in 1..MsgLen /\ have <= u /\ t <= u
      /\ net[c] = Seg(m, t, u) /\ z = Seg(m, have, u)
      /\ \A i \in 1..t : conn[c].data[i] = <<m, i>>
  BY <1>2, ReadFacts
<1>4. /\ MsgLen \in Nat /\ n \in Nat /\ n >= 1 /\ DataSize \in Nat /\ DataSize > 0 /\ DataSize = MsgLen - 1
  BY <1>3, FaceAssumption DEF DataSize
<1>5. have < DataSize \/ have = MsgLen
  <2>1. have # DataSize
    BY <1>2
  <2> HIDE DEF have
  <2> QED BY <1>3, <1>4, <2>1
<1>6. \A i \in 1..have : dt[i] = <<m, i>>
  <2> SUFFICES ASSUME NEW i \in 1..have PROVE dt[i] = <<m, i>>
    OBVIOUS
  <2>1. i \in 1..MsgLen /\ i \in Nat /\ have - n = t
    BY <1>3, <1>4
  <2>2. CASE i <= t
    BY <1>3, <2>1, <2>2
  <2>3. CASE i > t
    <3>1. dt[i] = net[c][i - have + n]
      BY <2>1, <2>3
    <3>2. i - have + n = i - t /\ i - t \in 1..u - t /\ t + (i - t) = i
      <4>1. t \in Nat /\ n \in Nat /\ i \in Nat /\ have = t + n /\ i <= have /\ have <= u /\ u \in Nat
        BY <1>3, <1>4, <2>1
      <4> HIDE DEF have, t, u
      <4> QED BY <2>3, <4>1
    <3>3. Seg(m, t, u)[i - t] = <<m, t + (i - t)>>
      BY <3>2 DEF Seg
    <3> QED BY <1>3, <3>1, <3>2, <3>3
  <2> QED BY <1>3, <2>1, <2>2, <2>3
<1>7. v.data = dt
  BY <1>2
<1>8. OwnAt(place, c)
  BY <1>1 DEF ClientsInv, OwnAt
<1>9. have = MsgLen => dt = Units(m)
  <2>1. have = MsgLen => \A i \in 1..MsgLen : dt[i] = <<m, i>>
    BY <1>6
  <2> QED BY <2>1 DEF Units
<1>p. PICK p \in {"net", "request"} : p = IF have < DataSize THEN "net" ELSE "request"
  OBVIOUS
<1> DEFINE q == [place EXCEPT ![c] = p]
<1>10. /\ p = "net" => have < DataSize /\ v.totalRead = have /\ requests' = requests
       /\ p # "net" => /\ have = MsgLen /\ v.totalRead = 0 /\ u = MsgLen /\ p = "request"
                       /\ requests' = Append(requests, c)
  <2>1. have = MsgLen => u = MsgLen /\ ~(have < DataSize)
    <3> HIDE DEF have, u
    <3> QED BY <1>3, <1>4
  <2> HIDE DEF have, u
  <2> QED BY <1>2, <1>5, <1>p, <2>1
<1>11. have \in Nat
  BY <1>3
<1> HIDE DEF dt, have, t, u, m
<1>12. /\ conn'[c] = v /\ net'[c] = z
       /\ \A d \in Clients \ {c} : conn'[d] = conn[d] /\ net'[d] = net[d]
  BY <1>1, <1>2 DEF FType
<1>13. Own(c, p, client'[c], net'[c], back'[c], conn'[c], ctrDec'[c], ctrEnc'[c])
  <2>1. Waiting(c, client[c], p, ctrDec[c], ctrEnc[c])
    BY <1>3, <1>8 DEF OwnAt, Own, Waiting
  <2>2. p = "net" => Stream(m, client[c], z, v)
    BY <1>3, <1>6, <1>7, <1>10 DEF Stream, u
  <2>3. p # "net" => z = <<>> /\ v.totalRead = 0 /\ v.data = Units(m)
    <3>1. p # "net" => z = Seg(m, MsgLen, MsgLen)
      BY <1>3, <1>10
    <3>2. Seg(m, MsgLen, MsgLen) = <<>>
      BY <1>3, <1>4, SegSeq
    <3> QED BY <1>7, <1>9, <1>10, <3>1, <3>2
  <2>4. /\ client[c].pc \in {"write", "wait", "gone"} /\ back[c] = <<>>
        /\ client[c].pc = "write" => client[c].off < MsgLen
    BY <1>3, <1>8 DEF OwnAt, Own
  <2>5. p # "net" => client[c].pc # "write"
    BY <1>4, <1>10, <2>4 DEF u
  <2> QED BY <1>2, <1>12, <2>1, <2>2, <2>3, <2>4, <2>5 DEF Own, m
<1>14. q \in [Clients -> Places] /\ q[c] = p /\ \A d \in Clients \ {c} : q[d] = place[d]
  BY <1>1 DEF Places
<1> HIDE DEF q
<1>15. RequestsInv(q)'
  <2>1. CASE p = "net"
    <3>1. requests' = requests
      BY <1>10, <2>1
    <3>2. \A d \in Clients : place[d] = "request" => q[d] = "request"
      BY <1>3, <1>14
    <3> QED BY <1>1, <3>1, <3>2, RequestsFrame
  <2>2. CASE p # "net"
    <3>1. requests' = Append(requests, c) /\ q[c] = "request" /\ place[c] # "request"
      BY <1>3, <1>10, <1>14, <2>2
    <3> QED BY <1>1, <1>14, <3>1, RequestsAppend
  <2> QED BY <2>1, <2>2
<1>16. ClientsInv(q)'
  <2>1. \A d \in Clients \ {c} : q[d] = place[d] /\ SameAt(d)
    BY <1>2, <1>12, <1>14 DEF SameAt
  <2>2. Own(c, q[c], client'[c], net'[c], back'[c], conn'[c], ctrDec'[c], ctrEnc'[c])
    BY <1>13, <1>14
  <2> QED BY <1>1, <2>1, <2>2, ClientsFrame
<1>17. ResponsesInv(q)' /\ WorkersInv(q)'
  <2>1. \A d \in Clients : place[d] # "net" =>
          /\ q[d] = place[d] /\ client'[d].asked = client[d].asked /\ ctrDec'[d] = ctrDec[d]
    BY <1>2, <1>3, <1>14
  <2> QED BY <1>1, <1>2, <2>1, ResponsesFrame, WorkersFrame
<1>18. Holds(q)'
  BY <1>14, <1>15, <1>16, <1>17 DEF Holds
<1> QED BY <1>14, <1>18

\* The timer moves an answer from the queue to the client's socket.
LEMMA CbFuncHolds ==
  ASSUME NEW place, Holds(place), Base', sound', cb_func
  PROVE  \E q \in [Clients -> Places] : Holds(q)'
<1>1. /\ place \in [Clients -> Places] /\ FType /\ ConnectionsHeld
      /\ ClientsInv(place) /\ RequestsInv(place) /\ ResponsesInv(place) /\ WorkersInv(place)
  BY DEF Holds, Base
<1>0. FType
  BY <1>1
<1>2. PICK r \in Replies :
           /\ responses # <<>> /\ r = Head(responses) /\ responses' = Tail(responses)
           /\ responses' \in Seq(Replies)
           /\ \/ \E c \in (IF conn[r.conn].bev = "open" THEN {r.conn} ELSE Clients) :
                   back' = [back EXCEPT ![c] = Append(@, r)]
              \/ conn[r.conn].bev # "open" /\ back' = back
           /\ UNCHANGED <<build, server, client, started, net, conn, requests, ctrDec, ctrEnc, work,
                          shared, sound>>
  BY <1>0, CbFuncFacts
<1>h. place[r.conn] = "response" /\ Answer(r, r.conn, client[r.conn].asked)
  BY <1>1, <1>2, ResponsesHead
<1>c. PICK c \in Clients : c = r.conn
  BY DEF Replies
<1>o. conn[c].bev = "open"
  <2>1. 1 \in DOMAIN responses /\ responses[1] = r
    <3>1. responses \in Seq(Replies) /\ Len(responses) \in Nat \ {0}
      BY <1>1, <1>2, EmptySeq DEF FType
    <3> QED BY <1>2, <3>1, LenProperties, HeadTailProperties
  <2>2. Refers(c)
    BY <1>c, <2>1 DEF Refers
  <2> QED BY <1>1, <2>2 DEF ConnectionsHeld
<1>b. back' = [back EXCEPT ![c] = Append(@, r)]
  BY <1>2, <1>c, <1>o
<1> DEFINE q == [place EXCEPT ![c] = "back"]
<1>3. place[c] = "response" /\ Answer(r, c, client[c].asked)
  BY <1>h, <1>c
<1>4. OwnAt(place, c)
  BY <1>1, <1>3 DEF ClientsInv, OwnAt
<1>5. /\ back[c] = <<>> /\ Waiting(c, client[c], "response", ctrDec[c], ctrEnc[c])
      /\ client[c].pc \in {"wait", "gone"} /\ net[c] = <<>> /\ conn[c].totalRead = 0
  BY <1>3, <1>4 DEF OwnAt, Own
<1>6. /\ back'[c] = Append(<<>>, r) /\ \A d \in Clients \ {c} : back'[d] = back[d]
  BY <1>1, <1>b, <1>5 DEF FType
<1>7. Len(back'[c]) = 1 /\ back'[c][1] = r
  BY <1>6
<1>8. Own(c, "back", client'[c], net'[c], back'[c], conn'[c], ctrDec'[c], ctrEnc'[c])
  <2>1. Waiting(c, client[c], "back", ctrDec[c], ctrEnc[c])
    BY <1>5 DEF Waiting
  <2> QED BY <1>2, <1>3, <1>5, <1>7, <2>1 DEF Own
<1>9. q \in [Clients -> Places] /\ q[c] = "back" /\ \A d \in Clients \ {c} : q[d] = place[d]
  BY <1>1, <1>3 DEF Places
<1> HIDE DEF q
<1>10. ClientsInv(q)'
  <2>1. \A d \in Clients \ {c} : q[d] = place[d] /\ SameAt(d)
    BY <1>2, <1>6, <1>9 DEF SameAt
  <2>2. Own(c, q[c], client'[c], net'[c], back'[c], conn'[c], ctrDec'[c], ctrEnc'[c])
    BY <1>8, <1>9
  <2> QED BY <1>1, <1>3, <2>1, <2>2, ClientsFrame
<1>11. ResponsesInv(q)'
  <2>1. c = Head(responses).conn
    BY <1>2, <1>c
  <2> QED BY <1>1, <1>2, <1>9, <2>1, ResponsesTail
<1>14. RequestsInv(q)' /\ WorkersInv(q)'
  <2>1. \A d \in Clients : place[d] # "response" =>
          /\ q[d] = place[d] /\ client'[d].asked = client[d].asked /\ ctrDec'[d] = ctrDec[d]
    BY <1>2, <1>3, <1>9
  <2> QED BY <1>1, <1>2, <2>1, RequestsFrame, WorkersFrame
<1>15. Holds(q)'
  BY <1>9, <1>10, <1>11, <1>14 DEF Holds
<1> QED BY <1>9, <1>15

-----------------------------------------------------------------------------
\* The workers.  One takes a request.
LEMMA DequeueHolds ==
  ASSUME NEW place, Holds(place), Base', sound', NEW w \in Workers, Dequeue(w)
  PROVE  \E q \in [Clients -> Places] : Holds(q)'
<1>1. /\ place \in [Clients -> Places] /\ FType
      /\ ClientsInv(place) /\ RequestsInv(place) /\ ResponsesInv(place) /\ WorkersInv(place)
  BY DEF Holds, Base
<1>0. FType
  BY <1>1
<1>2. PICK c \in Clients, k \in Jobs :
           /\ requests # <<>> /\ c = Head(requests) /\ requests' = Tail(requests)
           /\ requests' \in Seq(Clients) /\ w \in ThreadsOf[build]
           /\ work[w].pc = "poll" /\ work[w] = IdleWorker
           /\ work' = [work EXCEPT ![w] = k] /\ k.job = c /\ k.pc = "decrypt" /\ k.hist = Both(NoPerson)
           /\ UNCHANGED <<build, server, client, started, net, back, conn, responses, ctrDec, ctrEnc,
                          shared, sound>>
  BY <1>0, DequeueFacts
<1>3. place[c] = "request"
  BY <1>1, <1>2, RequestsHead
<1> DEFINE q == [place EXCEPT ![c] = "worker"]
<1>4. OwnAt(place, c)
  BY <1>1 DEF ClientsInv, OwnAt
<1>6. work'[w] = k /\ \A v \in Workers \ {w} : work'[v] = work[v]
  BY <1>1, <1>2 DEF FType
<1>8. q \in [Clients -> Places] /\ q[c] = "worker" /\ \A d \in Clients \ {c} : q[d] = place[d]
  BY <1>1 DEF Places
<1>9. Own(c, "worker", client'[c], net'[c], back'[c], conn'[c], ctrDec'[c], ctrEnc'[c])
  BY <1>2, <1>3, <1>4 DEF OwnAt, Own, Waiting
<1> HIDE DEF q
<1>10. RequestsInv(q)'
  BY <1>1, <1>2, <1>8, RequestsTail
<1>13. ClientsInv(q)'
  <2>1. \A d \in Clients \ {c} : q[d] = place[d] /\ SameAt(d)
    BY <1>2, <1>8 DEF SameAt
  <2>2. Own(c, q[c], client'[c], net'[c], back'[c], conn'[c], ctrDec'[c], ctrEnc'[c])
    BY <1>8, <1>9
  <2> QED BY <1>1, <2>1, <2>2, ClientsFrame
<1>14. \A d \in Clients : place[d] # "request" =>
          /\ q[d] = place[d] /\ client'[d].asked = client[d].asked /\ ctrDec'[d] = ctrDec[d]
  BY <1>2, <1>3, <1>8
<1>15. ResponsesInv(q)'
  BY <1>1, <1>2, <1>14, ResponsesFrame
<1>16. WorkerAt(q, w)'
  <2>1. ASSUME NEW v \in Workers, work'[v].job = c PROVE v = w
    <3>1. ASSUME v # w PROVE FALSE
      <4>1. work[v].job = c /\ work[v] \in Jobs
        BY <1>1, <1>6, <2>1, <3>1 DEF FType
      <4>2. work[v].pc # "poll"
        BY <4>1, IdleTyped DEF Jobs
      <4> QED BY <1>1, <1>3, <4>1, <4>2 DEF WorkersInv
    <3> QED BY <3>1
  <2>2. ctrDec[c] = client[c].asked.seq
    BY <1>3, <1>4 DEF OwnAt, Own, Waiting
  <2>3. Job(work[w], client[work[w].job].asked, ctrDec[work[w].job], shared)'
    BY <1>2, <1>6, <2>2 DEF Job
  <2> QED BY <1>2, <1>6, <1>8, <2>1, <2>3 DEF WorkerAt
<1>17. WorkersInv(q)'
  <2>1. /\ build' = build /\ (shared' = shared \/ (build = "enclave" /\ w \in ThreadsOf[build]))
        /\ place[work'[w].job] # "worker"
    BY <1>2, <1>3, <1>6
  <2>2. \A d \in Clients \ {work[w].job} : place[d] = "worker" =>
           /\ q[d] = "worker" /\ client'[d].asked = client[d].asked
           /\ ctrDec'[d] = ctrDec[d]
    BY <1>14
  <2>3. \A v \in Workers \ {w} : work'[v] = work[v]
    BY <1>6
  <2>4. FType /\ WorkersInv(place)
    BY <1>1
  <2> QED BY <1>16, <2>1, <2>2, <2>3, <2>4, WorkersStep
<1>18. Holds(q)'
  BY <1>8, <1>10, <1>13, <1>15, <1>17 DEF Holds
<1> QED BY <1>8, <1>18

\* A step of a worker on its own request moves none.
LEMMA LocalHolds ==
  ASSUME NEW place, Holds(place), Base', sound', NEW w \in Workers, NEW c, NEW k, NEW x, NEW sh,
         work[w].pc # "poll", c = work[w].job, k.pc # "poll", k.job = c,
         work' = [work EXCEPT ![w] = k], shared' = sh,
         ctrDec'[c] = x, \A d \in Clients \ {c} : ctrDec'[d] = ctrDec[d],
         UNCHANGED <<build, client, net, back, conn, requests, responses, ctrEnc>>,
         Job(k, client[c].asked, x, sh), sh = shared \/ build = "enclave"
  PROVE  Holds(place)'
<1>1. /\ place \in [Clients -> Places] /\ FType
      /\ ClientsInv(place) /\ RequestsInv(place) /\ ResponsesInv(place) /\ WorkersInv(place)
  BY DEF Holds, Base
<1>2. /\ w \in ThreadsOf[build] /\ c \in Clients /\ place[c] = "worker"
      /\ \A v \in Workers : work[v].job = c => v = w
  BY <1>1 DEF WorkersInv, FType, Jobs
<1>3. work'[w] = k /\ \A v \in Workers \ {w} : work'[v] = work[v]
  BY <1>1 DEF FType
<1>6. ClientsInv(place)'
  <2>1. OwnAt(place, c)
    BY <1>1, <1>2 DEF ClientsInv, OwnAt
  <2>2. Own(c, place[c], client'[c], net'[c], back'[c], conn'[c], ctrDec'[c], ctrEnc'[c])
    BY <1>2, <1>3, <2>1 DEF OwnAt, Own, Waiting
  <2>3. \A d \in Clients \ {c} : place[d] = place[d] /\ SameAt(d)
    BY <1>3 DEF SameAt
  <2> QED BY <1>1, <1>2, <2>2, <2>3, ClientsFrame
<1>7. RequestsInv(place)' /\ ResponsesInv(place)'
  BY <1>1, RequestsFrame, ResponsesFrame
<1>8. WorkerAt(place, w)'
  <2>1. ASSUME NEW v \in Workers, work'[v].job = c PROVE v = w
    BY <1>2, <1>3, <2>1
  <2>2. Job(work[w], client[work[w].job].asked, ctrDec[work[w].job], shared)'
    BY <1>3 DEF Job
  <2> QED BY <1>2, <1>3, <2>1, <2>2 DEF WorkerAt
<1>9. WorkersInv(place)'
  <2>1. /\ build' = build /\ (shared' = shared \/ (build = "enclave" /\ w \in ThreadsOf[build]))
        /\ work'[w].job = work[w].job
    BY <1>2, <1>3
  <2>2. \A d \in Clients \ {work[w].job} : place[d] = "worker" =>
           /\ place[d] = "worker" /\ client'[d].asked = client[d].asked
           /\ ctrDec'[d] = ctrDec[d]
    OBVIOUS
  <2> QED BY <1>1, <1>3, <1>8, <2>1, <2>2, WorkersStep
<1> QED BY <1>1, <1>6, <1>7, <1>9 DEF Holds

\* What is known of a worker at its request.
LEMMA WorkerFacts ==
  ASSUME NEW place, Holds(place), NEW w \in Workers, work[w].pc # "poll"
  PROVE  LET k == work[w]  c == work[w].job  m == client[work[w].job].asked IN
         /\ FType /\ k \in WorkRecs /\ c \in Clients /\ place[c] = "worker" /\ w \in ThreadsOf[build]
         /\ m \in Messages /\ m.id = c /\ conn[c].bev = "open" /\ conn[c].data = Units(m)
         /\ ctrEnc[c] = m.seq /\ Job(k, m, ctrDec[c], shared)
<1>1. /\ place \in [Clients -> Places] /\ FType /\ ConnectionsHeld
      /\ ClientsInv(place) /\ RequestsInv(place) /\ ResponsesInv(place) /\ WorkersInv(place)
  BY DEF Holds, Base
<1>2. /\ w \in ThreadsOf[build] /\ place[work[w].job] = "worker"
      /\ Job(work[w], client[work[w].job].asked, ctrDec[work[w].job], shared)
  BY <1>1 DEF WorkersInv
<1>3. work[w].job \in Clients /\ work[w] \in WorkRecs
  BY <1>1 DEF FType, Jobs
<1>4. OwnAt(place, work[w].job)
  BY <1>1, <1>3 DEF ClientsInv, OwnAt
<1>5. conn[work[w].job].bev = "open"
  <2>1. Refers(work[w].job)
    BY DEF Refers
  <2> QED BY <1>1, <1>3, <2>1 DEF ConnectionsHeld
<1> QED BY <1>1, <1>2, <1>3, <1>4, <1>5 DEF OwnAt, Own, Waiting

\* Found, once the message has been decrypted.
LEMMA FoundFacts ==
  ASSUME NEW w \in Workers, NEW m \in Messages, work[w].plain = m
  PROVE  Found(w) = m.key /\ Verdict(w) = {work[w].hist = Both(m.face)}
<1>1. m # Garbage
  BY MarkAssumption
<1> QED BY <1>1 DEF Found, Verdict

\* Decryption finds the message that was sent, as the two counters are equal.
LEMMA DecryptHolds ==
  ASSUME NEW place, Holds(place), Base', sound', NEW w \in Workers, Decrypt(w)
  PROVE  Holds(place)'
<1>0. FType
  BY DEF Holds, Base
<1>1. PICK i \in Clients, t \in Plains \cup {Garbage}, k \in Jobs :
           LET v == conn[work[w].job] IN
           /\ work[w].pc = "decrypt" /\ work[w].job \in Clients
           /\ work' = [work EXCEPT ![w] = k] /\ t \in Decrypted(v, ctrDec[i])
           /\ k.job = work[w].job /\ k.id = i /\ k.pc = "lookup" /\ k.plain = t /\ k.hist = work[w].hist
           /\ Sane(v) => i = v.data[1][1].id
           /\ ctrDec' = [ctrDec EXCEPT ![i] = @ + 1] /\ ctrDec' \in [Clients -> Nat]
           /\ UNCHANGED <<build, server, client, started, net, back, conn, requests, responses,
                          ctrEnc, shared, sound>>
  BY <1>0, DecryptFacts
<1> DEFINE c == work[w].job
           m == client[work[w].job].asked
           v == conn[work[w].job]
<1>2. /\ c \in Clients /\ m \in Messages /\ m.id = c /\ v.bev = "open" /\ v.data = Units(m)
      /\ Job(work[w], m, ctrDec[c], shared)
  BY <1>1, WorkerFacts
<1>3. ctrDec[c] = m.seq /\ work[w].hist = Both(NoPerson)
  BY <1>1, <1>2 DEF Job
<1>4. v.data[1] = <<m, 1>> /\ <<m, 1>> # None /\ <<m, 1>>[1] = m /\ <<m, 1>>[2] = 1
  <2>1. 1 \in 1..MsgLen
    BY FaceAssumption
  <2>2. <<m, 1>> \in Messages \X (1..MsgLen)
    BY <1>2, <2>1
  <2> QED BY <1>2, <2>1, <2>2, UnitsSeq, MarkAssumption
<1> HIDE DEF c, m, v
<1>5. Sane(v)
  BY <1>2, <1>4 DEF Sane
<1>6. i = c
  BY <1>1, <1>2, <1>4, <1>5 DEF v
<1>7. t = m
  <2>1. t \in Decrypted(v, ctrDec[c])
    BY <1>1, <1>6 DEF v
  <2>2. v.data[1][1] = m
    BY <1>4
  <2> QED BY <1>2, <1>3, <1>5, <2>1, <2>2 DEF Decrypted
<1>8. ctrDec'[c] = m.seq + 1 /\ \A d \in Clients \ {c} : ctrDec'[d] = ctrDec[d]
  <2>1. ctrDec' = [ctrDec EXCEPT ![c] = ctrDec[c] + 1]
    BY <1>1, <1>6
  <2> QED BY <1>0, <1>2, <1>3, <2>1 DEF FType
<1>9. Job(k, client[c].asked, m.seq + 1, shared)
  <2>1. k.pc = "lookup" /\ k.job = c /\ k.id = c /\ k.plain = m /\ k.hist = Both(NoPerson)
    BY <1>1, <1>3, <1>6, <1>7 DEF c
  <2>2. client[c].asked = m
    BY DEF c, m
  <2> QED BY <2>1, <2>2 DEF Job
<1>10. /\ work[w].pc # "poll" /\ c = work[w].job /\ k.pc # "poll" /\ k.job = c
       /\ work' = [work EXCEPT ![w] = k] /\ shared' = shared
       /\ UNCHANGED <<build, client, net, back, conn, requests, responses, ctrEnc>>
  BY <1>1 DEF c
<1> QED BY <1>8, <1>9, <1>10, LocalHolds

\* The comparison is with the person asked for: outside the enclave that of the
\* table, in the enclave what the worker, if it is alone, has copied.
LEMMA DoOneHolds ==
  ASSUME NEW place, Holds(place), Base', sound', NEW w \in Workers,
         NativeDoOne(w) \/ (build = "enclave" /\ EnclaveDoOne(w)) \/ Compare(w)
  PROVE  Holds(place)'
<1>0. FType
  BY DEF Holds, Base
<1>1. PICK k \in Jobs, sh \in Hists :
           /\ work' = [work EXCEPT ![w] = k] /\ shared' = sh
           /\ work[w].pc \notin {"poll", "decrypt"}
           /\ k.pc \notin {"poll", "decrypt"}
           /\ k.job = work[w].job /\ k.id = work[w].id /\ k.plain = work[w].plain
           /\ \/ /\ NativeDoOne(w) /\ work[w].pc = "lookup" /\ k.pc = "compare"
                 /\ k.hist = Both(Found(w)) /\ sh = shared
              \/ /\ EnclaveDoOne(w) /\ work[w].pc = "lookup" /\ Found(w) = NoPerson /\ k.pc = "compare"
                 /\ k.hist = work[w].hist /\ sh = shared
              \/ /\ EnclaveDoOne(w) /\ work[w].pc = "lookup" /\ Found(w) # NoPerson /\ k.pc = "copy"
                 /\ sh = [shared EXCEPT ![1] = Found(w)]
              \/ /\ EnclaveDoOne(w) /\ work[w].pc = "copy" /\ k.pc = "distance"
                 /\ sh = [shared EXCEPT ![2] = Found(w)]
              \/ /\ EnclaveDoOne(w) /\ work[w].pc = "distance" /\ k.pc = "compare"
                 /\ k.hist = shared /\ sh = shared
              \/ /\ work[w].pc = "compare" /\ k.pc = "respond" /\ k.answer \in Verdict(w) /\ sh = shared
           /\ UNCHANGED <<build, server, client, started, net, back, conn, requests, responses,
                          ctrDec, ctrEnc, sound>>
  BY <1>0, StepFacts
<1> DEFINE c == work[w].job
           m == client[work[w].job].asked
<1>2. c \in Clients /\ m \in Messages /\ Job(work[w], m, ctrDec[c], shared)
  BY <1>1, WorkerFacts
<1>3. ctrDec[c] = m.seq + 1 /\ work[w].id = c /\ work[w].plain = m
  BY <1>1, <1>2 DEF Job
<1> HIDE DEF c, m
<1>4. Found(w) = m.key /\ Verdict(w) = {work[w].hist = Both(m.face)}
  BY <1>2, <1>3, FoundFacts
<1>5. shared \in Hists /\ 1..2 = {1, 2}
  BY <1>0 DEF FType
<1>6. k.pc # "decrypt" /\ k.id = k.job /\ k.plain = m /\ k.job = c
  BY <1>1, <1>3 DEF c
<1>7. Both(m.key) = Both(m.face) <=> m.key = m.face
  <2>1. Both(m.key)[1] = m.key /\ Both(m.face)[1] = m.face
    BY DEF Both
  <2> QED BY <2>1
<1>8. ASSUME k.pc = "compare", OneInside => k.hist = Both(m.key), sh = shared
      PROVE  Job(k, m, ctrDec[c], sh) /\ (sh = shared \/ build = "enclave")
  BY <1>3, <1>6, <1>8 DEF Job
<1>9. Job(k, m, ctrDec[c], sh) /\ (sh = shared \/ build = "enclave")
  <2>1. CASE NativeDoOne(w)
    <3>1. work'[w].pc = "compare" /\ work'[w].hist = Both(Found(w)) /\ shared' = shared
      <4>1. work[w] \in WorkRecs
        BY <1>0 DEF FType, Jobs
      <4>2. work'[w] = [work[w] EXCEPT !.hist = Both(Found(w)), !.pc = "compare"] /\ shared' = shared
        BY <1>0, <2>1 DEF NativeDoOne, FType
      <4> QED BY <4>1, <4>2 DEF WorkRecs
    <3>2. work'[w] = k
      BY <1>0, <1>1 DEF FType
    <3> QED BY <1>1, <1>4, <1>8, <3>1, <3>2
  <2>2. CASE ~NativeDoOne(w) /\ EnclaveDoOne(w) /\ build = "enclave"
    <3>0. work[w].pc # "compare"
      BY <2>2 DEF EnclaveDoOne
    <3>1. CASE work[w].pc = "lookup" /\ Found(w) = NoPerson
      <4>1. k.pc = "compare" /\ k.hist = work[w].hist /\ sh = shared
        BY <1>1, <2>2, <3>1
      <4>2. work[w].hist = Both(m.key)
        BY <1>2, <1>4, <3>1 DEF Job
      <4> QED BY <1>8, <4>1, <4>2
    <3>2. CASE work[w].pc = "lookup" /\ Found(w) # NoPerson
      <4>1. k.pc = "copy" /\ sh = [shared EXCEPT ![1] = Found(w)]
        BY <1>1, <2>2, <3>2
      <4>2. sh[1] = m.key
        BY <1>4, <1>5, <4>1 DEF Hists
      <4> QED BY <1>3, <1>4, <1>6, <2>2, <3>2, <4>1, <4>2 DEF Job
    <3>3. CASE work[w].pc = "copy"
      <4>1. k.pc = "distance" /\ sh = [shared EXCEPT ![2] = Found(w)]
        BY <1>1, <2>2, <3>3
      <4>2. sh[1] = shared[1] /\ sh[2] = m.key /\ sh \in Hists
        BY <1>1, <1>4, <1>5, <4>1 DEF Hists
      <4>3. m.key # NoPerson /\ (OneInside => shared[1] = m.key)
        BY <1>2, <3>3 DEF Job
      <4>4. OneInside => sh = Both(m.key)
        BY <1>5, <4>2, <4>3 DEF Both, Hists
      <4> QED BY <1>3, <1>6, <2>2, <4>1, <4>3, <4>4 DEF Job
    <3>4. CASE work[w].pc = "distance"
      <4>1. k.pc = "compare" /\ k.hist = shared /\ sh = shared
        BY <1>1, <2>2, <3>4
      <4>2. OneInside => shared = Both(m.key)
        BY <1>2, <3>4 DEF Job
      <4> QED BY <1>8, <4>1, <4>2
    <3> QED BY <1>1, <3>0, <3>1, <3>2, <3>3, <3>4
  <2>3. CASE Compare(w)
    <3>0. work[w].pc = "compare"
      BY <2>3 DEF Compare
    <3>1. k.pc = "respond" /\ k.answer \in Verdict(w) /\ sh = shared
      BY <1>1, <3>0
    <3>2. OneInside => work[w].hist = Both(m.key)
      BY <1>2, <3>0 DEF Job
    <3>3. k.answer = (work[w].hist = Both(m.face))
      BY <1>4, <3>1
    <3>4. OneInside => k.answer = Right(m)
      BY <1>7, <3>2, <3>3 DEF Right
    <3> QED BY <1>3, <1>6, <3>1, <3>4 DEF Job
  <2> QED BY <2>1, <2>2, <2>3
<1>10. /\ work[w].pc # "poll" /\ c = work[w].job /\ k.pc # "poll" /\ k.job = c
       /\ work' = [work EXCEPT ![w] = k] /\ shared' = sh /\ ctrDec' = ctrDec
       /\ UNCHANGED <<build, client, net, back, conn, requests, responses, ctrEnc>>
  BY <1>1 DEF c
<1>11. Job(k, client[c].asked, ctrDec[c], sh)
  BY <1>9 DEF c, m
<1>12. ctrDec'[c] = ctrDec[c] /\ \A d \in Clients \ {c} : ctrDec'[d] = ctrDec[d]
  BY <1>10
<1> QED BY <1>9, <1>10, <1>11, <1>12, LocalHolds

\* A worker hands its answer to the response queue.
LEMMA RespondHolds ==
  ASSUME NEW place, Holds(place), Base', sound', NEW w \in Workers, Respond(w)
  PROVE  \E q \in [Clients -> Places] : Holds(q)'
<1>1. /\ place \in [Clients -> Places] /\ FType
      /\ ClientsInv(place) /\ RequestsInv(place) /\ ResponsesInv(place) /\ WorkersInv(place)
  BY DEF Holds, Base
<1>0. FType
  BY <1>1
<1>2. PICK r \in Replies :
           /\ work[w].pc = "respond" /\ work[w].job \in Clients /\ work[w].id \in Clients
           /\ r.conn = work[w].job /\ r.id = work[w].id /\ r.seq = ctrEnc[work[w].id]
           /\ r.answer = work[w].answer
           /\ responses' = Append(responses, r) /\ responses' \in Seq(Replies)
           /\ work' = [work EXCEPT ![w] = IdleWorker]
           /\ ctrEnc' = [ctrEnc EXCEPT ![work[w].id] = @ + 1] /\ ctrEnc' \in [Clients -> Nat]
           /\ UNCHANGED <<build, server, client, started, net, back, conn, requests, ctrDec, shared, sound>>
  BY <1>0, RespondFacts
<1>c. PICK c \in Clients : c = work[w].job
  BY <1>2
<1> DEFINE m == client[c].asked
           q == [place EXCEPT ![c] = "response"]
<1>4. /\ place[c] = "worker" /\ m \in Messages /\ ctrEnc[c] = m.seq /\ Job(work[w], m, ctrDec[c], shared)
  BY <1>2, <1>c, WorkerFacts
<1>5. /\ work[w].id = c /\ ctrDec[c] = m.seq + 1
      /\ OneInside => work[w].answer = Right(m)
  BY <1>2, <1>4, <1>c DEF Job
<1>7. /\ ctrEnc'[c] = m.seq + 1 /\ \A d \in Clients \ {c} : ctrEnc'[d] = ctrEnc[d]
      /\ work'[w] = IdleWorker /\ \A v \in Workers \ {w} : work'[v] = work[v]
  <2>1. ctrEnc' = [ctrEnc EXCEPT ![c] = ctrEnc[c] + 1]
    BY <1>2, <1>5
  <2> HIDE DEF m
  <2> QED BY <1>1, <1>2, <1>4, <2>1 DEF FType
<1>8. r.conn = c /\ Answer(r, c, client[c].asked)
  BY <1>2, <1>4, <1>5, <1>c DEF Answer
<1>9. q \in [Clients -> Places] /\ q[c] = "response" /\ \A d \in Clients \ {c} : q[d] = place[d]
  BY <1>1 DEF Places
<1>10. OwnAt(place, c)
  BY <1>1 DEF ClientsInv, OwnAt
<1>11. Own(c, "response", client'[c], net'[c], back'[c], conn'[c], ctrDec'[c], ctrEnc'[c])
  <2>1. Waiting(c, client[c], "response", ctrDec'[c], ctrEnc'[c])
    BY <1>2, <1>4, <1>5, <1>7, <1>10 DEF OwnAt, Own, Waiting
  <2> QED BY <1>2, <1>4, <1>10, <2>1 DEF OwnAt, Own
<1> HIDE DEF q
<1>12. ResponsesInv(q)'
  <2>1. /\ place[r.conn] # "response" /\ q[r.conn] = "response" /\ client' = client
        /\ Answer(r, r.conn, client[r.conn].asked) /\ responses' = Append(responses, r)
        /\ \A d \in Clients \ {r.conn} : q[d] = place[d]
    BY <1>2, <1>4, <1>8, <1>9
  <2> QED BY <1>1, <2>1, ResponsesAppend
<1> HIDE DEF m
<1>15. ClientsInv(q)'
  <2>1. \A d \in Clients \ {c} : q[d] = place[d] /\ SameAt(d)
    BY <1>2, <1>7, <1>9 DEF SameAt
  <2>2. Own(c, q[c], client'[c], net'[c], back'[c], conn'[c], ctrDec'[c], ctrEnc'[c])
    BY <1>9, <1>11
  <2> QED BY <1>1, <2>1, <2>2, ClientsFrame
<1>16. RequestsInv(q)'
  <2>1. \A d \in Clients : place[d] = "request" => q[d] = "request"
    BY <1>4, <1>9
  <2> QED BY <1>1, <1>2, <2>1, RequestsFrame
<1>17. WorkersInv(q)'
  <2>1. WorkerAt(q, w)'
    BY <1>7, IdleTyped DEF WorkerAt
  <2>2. /\ build' = build /\ (shared' = shared \/ (build = "enclave" /\ w \in ThreadsOf[build]))
        /\ work'[w].job \notin Clients
    BY <1>2, <1>7, IdleTyped
  <2>3. \A d \in Clients \ {work[w].job} : place[d] = "worker" =>
           /\ q[d] = "worker" /\ client'[d].asked = client[d].asked
           /\ ctrDec'[d] = ctrDec[d]
    BY <1>2, <1>9, <1>c
  <2> QED BY <1>1, <1>7, <2>1, <2>2, <2>3, WorkersStep
<1>18. Holds(q)'
  BY <1>9, <1>12, <1>15, <1>16, <1>17 DEF Holds
<1> QED BY <1>9, <1>18

-----------------------------------------------------------------------------
\* At the start no client has a request.
LEMMA InitHolds ==
  ASSUME Init
  PROVE  PlacesInv
<1> DEFINE place == [c \in Clients |-> "none"]
<1>1. place \in [Clients -> Places] /\ \A c \in Clients : place[c] = "none"
  BY DEF Places
<1>2. Base
  BY InitBase
<1> HIDE DEF place
<1>3. ClientsInv(place)
  BY <1>1 DEF Init, ClientsInv, Own, Resting
<1>4. RequestsInv(place) /\ ResponsesInv(place)
  BY DEF Init, RequestsInv, ResponsesInv
<1>5. WorkersInv(place)
  BY IdleTyped DEF Init, WorkersInv
<1>6. Holds(place)
  BY <1>1, <1>2, <1>3, <1>4, <1>5 DEF Holds, Init
<1> QED BY <1>1, <1>2, <1>6 DEF PlacesInv

\* No step makes the server sound again.
LEMMA SoundStays ==
  ASSUME [Next]_vars, sound'
  PROVE  sound
<1>1. ASSUME NEW c \in Clients, ClientStep(c) \/ Drop(c) PROVE sound
  BY <1>1 DEF ClientStep, Connect, PassBarrier, Send, Write, WriteThen, Receive, Drop
<1>2. ASSUME NEW c \in Clients, accept_conn_cb(c) \/ ReadStep(c) \/ echo_event_cb(c) PROVE sound
  BY <1>2 DEF accept_conn_cb, ReadStep, echo_read_cb, ReadThen, echo_event_cb
<1>3. ASSUME NEW w \in Workers, WorkerStep(w) PROVE sound
  BY <1>3 DEF WorkerStep, workload_face_verification, native_workload_face_verification, Serve,
              Dequeue, Decrypt, Compare, Respond, EnclaveDoOne, NativeDoOne
<1>4. CASE runServer \/ Die \/ cb_func \/ UNCHANGED vars
  BY <1>4 DEF runServer, Die, cb_func, vars
<1> QED BY <1>1, <1>2, <1>3, <1>4 DEF Next, LoopStep

\* Every step of a sound server keeps each request in one place.
LEMMA StepHolds ==
  ASSUME PlacesInv, [Next]_vars
  PROVE  PlacesInv'
<1>b. Base'
  BY StepBaseHolds DEF PlacesInv
<1> SUFFICES ASSUME sound' PROVE \E q \in [Clients -> Places] : Holds(q)'
  BY <1>b DEF PlacesInv
<1>s. sound
  BY SoundStays
<1>p. PICK place \in [Clients -> Places] : Holds(place)
  BY <1>s DEF PlacesInv
<1> DEFINE Kept == \E q \in [Clients -> Places] : Holds(q)'
<1>k. Holds(place)' => Kept
  OBVIOUS
<1> HIDE DEF Kept
<1>0. ASSUME \E q \in [Clients -> Places] : Holds(q)' PROVE Kept
  BY <1>0 DEF Kept
<1> SUFFICES Kept
  BY DEF Kept
<1>1. ASSUME NEW c \in Clients, ClientStep(c) \/ Drop(c) PROVE Kept
  <2>1. CASE Connect(c) \/ PassBarrier(c)
    BY <1>0, <1>b, <1>p, <2>1, StartHolds
  <2>2. CASE Send(c)
    BY <1>0, <1>b, <1>p, <2>2, SendHolds
  <2>3. CASE Write(c)
    BY <1>0, <1>b, <1>p, <2>3, WriteHolds
  <2>4. CASE Receive(c)
    BY <1>0, <1>b, <1>p, <2>4, ReceiveHolds
  <2>5. CASE Drop(c)
    BY <1>0, <1>b, <1>p, <2>5, DropHolds
  <2> QED BY <1>1, <2>1, <2>2, <2>3, <2>4, <2>5 DEF ClientStep
<1>2. ASSUME NEW c \in Clients, ReadStep(c) PROVE Kept
  <2>1. PICK n \in 1..Len(net[c]) : echo_read_cb(c, n)
    BY <1>2 DEF ReadStep
  <2> QED BY <1>0, <1>b, <1>p, <2>1, ReadHolds
<1>3. CASE cb_func
  BY <1>0, <1>b, <1>p, <1>3, CbFuncHolds
<1>4. CASE runServer \/ Die \/ UNCHANGED vars \/ \E c \in Clients : accept_conn_cb(c) \/ echo_event_cb(c)
  BY <1>k, <1>b, <1>p, <1>4, LoopHolds
<1>5. ASSUME NEW w \in Workers, WorkerStep(w) PROVE Kept
  <2>1. CASE Dequeue(w)
    BY <1>0, <1>b, <1>p, <2>1, DequeueHolds
  <2>2. CASE Decrypt(w)
    BY <1>k, <1>b, <1>p, <2>2, DecryptHolds
  <2>3. CASE NativeDoOne(w) \/ (build = "enclave" /\ EnclaveDoOne(w)) \/ Compare(w)
    BY <1>k, <1>b, <1>p, <2>3, DoOneHolds
  <2>4. CASE Respond(w)
    BY <1>0, <1>b, <1>p, <2>4, RespondHolds
  <2> QED BY <1>5, <2>1, <2>2, <2>3, <2>4
          DEF WorkerStep, workload_face_verification, native_workload_face_verification, Serve
<1>6. ASSUME LoopStep PROVE Kept
  BY <1>2, <1>3, <1>4, <1>6 DEF LoopStep
<1>7. ASSUME Next PROVE Kept
  BY <1>1, <1>4, <1>5, <1>6, <1>7 DEF Next
<1> QED BY <1>4, <1>7

\* Each client's request is always in a single place.
LEMMA Inductive == Spec => []PlacesInv
<1>1. Init => PlacesInv
  BY InitHolds
<1>2. PlacesInv /\ [Next]_vars => PlacesInv'
  BY StepHolds
<1> QED BY <1>1, <1>2, PTL DEF Spec

-----------------------------------------------------------------------------
\* TypeOK is part of the inductive invariant.
LEMMA Typed ==
  ASSUME PlacesInv
  PROVE  TypeOK
<1>1. FType /\ StartInv
  BY DEF PlacesInv, Base
<1>2. started \in 0..Cardinality(Clients)
  <2>1. /\ IsFiniteSet(Counted) /\ Cardinality(Counted) <= Cardinality(Clients)
    BY FaceAssumption, FS_Subset DEF Counted
  <2>2. Cardinality(Counted) \in Nat /\ Cardinality(Clients) \in Nat
    BY <2>1, FaceAssumption, FS_CardinalityType
  <2> QED BY <1>1, <2>1, <2>2 DEF StartInv
<1>3. \A c \in Clients :
        /\ net[c] \in Seq(Messages \X (1..MsgLen))
        /\ conn[c].bev \in {"none", "open", "freed"}
        /\ conn[c].totalRead \in 0..DataSize - 1
        /\ conn[c].data \in [1..MsgLen -> (Messages \X (1..MsgLen)) \cup {None}]
  BY <1>1 DEF FType, Conns, Wire
<1>4. client \in [Clients -> ClientRecs] /\ work \in [Workers -> WorkRecs]
  BY <1>1 DEF FType, Threads, Jobs
<1> QED BY <1>1, <1>2, <1>3, <1>4 DEF TypeOK, FType, ClientRecs, WorkRecs, Hists

\* The threads of both programs keep their types, whatever the reads find, also where
\* a message is cut or a freed connection is used: no counter of a client passes the
\* number of its requests, and total_read stays below DATA_SIZE between reads.
THEOREM FaceTyped == Spec => []TypeOK
<1>1. PlacesInv => TypeOK
  BY Typed
<1> QED BY <1>1, Inductive, PTL

\* Any number of clients, each of which waits for its answer before it sends again,
\* get the verdict on what they asked, unless a read of the server ends DATA_SIZE into
\* a message (run face_split) or a connection is lost and freed in use:
\* the framing of the stream in writes and reads of any other lengths, the buffers, the
\* queues and the counters never mix up two requests.  One worker in the enclave, any
\* number outside; two in the enclave are refuted (run face_shared).
THEOREM VerdictsRight ==
  ASSUME OneInside
  PROVE  Spec => []AnswersRight
<1>1. ASSUME PlacesInv PROVE AnswersRight
  <2> SUFFICES ASSUME sound, NEW c \in Clients, Answered(c) PROVE AnsweredRight(c)
    BY DEF AnswersRight
  <2>p. PICK place \in [Clients -> Places] : Holds(place)
    BY <1>1 DEF PlacesInv
  <2>1. OwnAt(place, c)
    BY <2>p DEF Holds, ClientsInv, OwnAt
  <2>2. Resting(client[c], ctrDec[c], ctrEnc[c])
    BY <2>1 DEF OwnAt, Own, Answered
  <2> QED BY <2>2 DEF Resting, Right, Answered, AnsweredRight
<1>2. PlacesInv => AnswersRight
  BY <1>1
<1> QED BY <1>2, Inductive, PTL

\* The cardinality of a set of at most one element.
LEMMA AtMostOne ==
  ASSUME NEW X, \A x, y \in X : x = y
  PROVE  Cardinality(X) \in {0, 1} /\ (X = {} => Cardinality(X) = 0)
<1>1. CASE X = {}
  BY <1>1, FS_EmptySet
<1>2. CASE X # {}
  <2>1. PICK x : X = {x}
    BY <1>2
  <2> QED BY <2>1, FS_Singleton
<1> QED BY <1>1, <1>2

\* BuffersStable follows from the place of each request.
LEMMA Stable ==
  ASSUME PlacesInv
  PROVE  BuffersStable
<1> SUFFICES ASSUME sound, NEW c \in Clients
             PROVE  /\ InFlight(c) <= 1
                    /\ InFlight(c) = 1 => /\ conn[c].data = Units(client[c].asked)
                                          /\ conn[c].totalRead = 0 /\ net[c] = <<>>
  BY DEF BuffersStable
<1>p. PICK place \in [Clients -> Places] : Holds(place)
  BY DEF PlacesInv
<1>1. FType /\ ClientsInv(place) /\ RequestsInv(place) /\ ResponsesInv(place) /\ WorkersInv(place)
  BY <1>p DEF Holds, Base
<1> DEFINE A == {i \in DOMAIN requests : requests[i] = c}
           B == {w \in Workers : work[w].job = c}
           C == {i \in DOMAIN responses : responses[i].conn = c}
<1>2. (\A x, y \in A : x = y) /\ (A # {} => place[c] = "request")
  BY <1>1 DEF RequestsInv
<1>3. (\A x, y \in B : x = y) /\ (B # {} => place[c] = "worker")
  <2>1. ASSUME NEW w \in B
        PROVE  place[c] = "worker" /\ \A v \in Workers : work[v].job = c => v = w
    <3>1. work[w].pc # "poll"
      BY <1>1, IdleTyped DEF FType, Jobs
    <3> QED BY <1>1, <3>1 DEF WorkersInv
  <2> QED BY <2>1
<1>4. (\A x, y \in C : x = y) /\ (C # {} => place[c] = "response")
  BY <1>1 DEF ResponsesInv
<1>5. InFlight(c) = Cardinality(A) + Cardinality(B) + Cardinality(C)
  BY DEF InFlight
<1> HIDE DEF A, B, C
<1>6. /\ Cardinality(A) \in {0, 1} /\ (A = {} => Cardinality(A) = 0)
      /\ Cardinality(B) \in {0, 1} /\ (B = {} => Cardinality(B) = 0)
      /\ Cardinality(C) \in {0, 1} /\ (C = {} => Cardinality(C) = 0)
  BY <1>2, <1>3, <1>4, AtMostOne
<1>7. InFlight(c) <= 1
  BY <1>2, <1>3, <1>4, <1>5, <1>6
<1>8. InFlight(c) = 1 => place[c] \in {"request", "worker", "response"}
  BY <1>2, <1>3, <1>4, <1>5, <1>6
<1>9. OwnAt(place, c)
  BY <1>1 DEF ClientsInv, OwnAt
<1>10. place[c] \in {"request", "worker", "response"} =>
         conn[c].data = Units(client[c].asked) /\ conn[c].totalRead = 0 /\ net[c] = <<>>
  BY <1>9 DEF OwnAt, Own
<1> QED BY <1>7, <1>8, <1>10

\* Unless a read ends DATA_SIZE into a message or a connection is freed in use, a
\* request is in the queues and with the workers once, and meanwhile the buffer of its
\* connection holds that request, whole, and nothing on its way would be read into it,
\* also for a client that is gone.
THEOREM BuffersKept == Spec => []BuffersStable
<1>1. PlacesInv => BuffersStable
  BY Stable
<1> QED BY <1>1, Inductive, PTL

\* A queue of distinct clients is no longer than there are clients.
LEMMA QueueShort ==
  ASSUME NEW n \in Nat, NEW f \in [1..n -> Clients],
         \A i, j \in 1..n : f[i] = f[j] => i = j
  PROVE  n <= Cardinality(Clients)
<1>1. f \in Injection(1..n, Clients)
  BY DEF Injection, IsInjective
<1>2. Cardinality(1..n) <= Cardinality(Clients)
  BY <1>1, FaceAssumption, FS_Injection
<1>3. Cardinality(1..n) = n
  BY FS_Interval
<1> QED BY <1>2, <1>3

\* With no more clients than slots, Queue::enqueue never finds a queue full and
\* aborts the server, under the same condition on the reads and the connections.
THEOREM QueuesFit ==
  ASSUME QueueFits
  PROVE  Spec => []QueuesBounded
<1>1. ASSUME PlacesInv PROVE QueuesBounded
  <2> SUFFICES ASSUME sound PROVE Len(requests) <= QueueSize /\ Len(responses) <= QueueSize
    BY DEF QueuesBounded
  <2>p. PICK place \in [Clients -> Places] : Holds(place)
    BY <1>1 DEF PlacesInv
  <2>1. FType /\ RequestsInv(place) /\ ResponsesInv(place)
    BY <2>p DEF Holds, Base
  <2>2. Cardinality(Clients) \in Nat
    BY FaceAssumption, FS_CardinalityType
  <2>3. Len(requests) <= Cardinality(Clients) /\ Len(requests) \in Nat
    <3>1. /\ Len(requests) \in Nat /\ requests \in [1..Len(requests) -> Clients]
          /\ DOMAIN requests = 1..Len(requests)
      BY <2>1, LenProperties DEF FType
    <3>2. \A i, j \in 1..Len(requests) : requests[i] = requests[j] => i = j
      BY <2>1, <3>1 DEF RequestsInv
    <3> QED BY <3>1, <3>2, QueueShort
  <2>4. Len(responses) <= Cardinality(Clients) /\ Len(responses) \in Nat
    <3> DEFINE f == [i \in 1..Len(responses) |-> responses[i].conn]
    <3>1. /\ Len(responses) \in Nat /\ DOMAIN responses = 1..Len(responses)
          /\ \A i \in 1..Len(responses) : responses[i] \in Replies
      BY <2>1, LenProperties, ElementOfSeq DEF FType
    <3>2. f \in [1..Len(responses) -> Clients]
      BY <3>1 DEF Replies
    <3>3. \A i, j \in 1..Len(responses) : f[i] = f[j] => i = j
      BY <2>1, <3>1 DEF ResponsesInv
    <3> HIDE DEF f
    <3> QED BY <3>1, <3>2, <3>3, QueueShort
  <2> QED BY <2>2, <2>3, <2>4, FaceAssumption DEF QueueFits
<1>2. PlacesInv => QueuesBounded
  BY <1>1
<1> QED BY <1>2, Inductive, PTL


-----------------------------------------------------------------------------
(***************************************************************************)
(* Part 2.  What the clients send                                          *)
(***************************************************************************)
CONSTANTS Width, Block, Files, Subdir, Number, Dup, Buckets, Pictures, Hashes, Empty,
          Ids, Connections, Requests, HistSize, Chunk
VARIABLES prog, world, dir, status, db, added, gen, file, loader

\* Connections is NUM_OF_CLIENTS, the number of FaceServer's Clients; loader is the
\* client program's main, which loads the file before it starts them.
D == INSTANCE FaceData WITH Clients <- Connections, client <- loader

\* The requests of connection c are the ones numbered First(c), First(c) + Ids, ...
First(c)   == IF c = 0 THEN Ids ELSE c
Slot(n, c) == n * Ids + First(c)

\* Of the first i requests n are of connection c.
Count(n, c, i) == Slot(n, c) > i /\ Slot(n, c) - Ids <= i

\* The record of request j in the file, unit by unit.
Record(j) == [u \in 1 .. HistSize + 2 |-> <<j, u - 1>>]

GenType ==
  /\ gen = [array |-> gen.array, i |-> gen.i, temp_id |-> gen.temp_id, pos |-> gen.pos,
            ctr |-> gen.ctr, made |-> gen.made]
  /\ gen.i \in 0 .. Requests /\ gen.temp_id \in 0 .. Ids - 1 /\ gen.pos = gen.i * (HistSize + 2)
  /\ gen.ctr \in [0 .. Ids - 1 -> Nat] /\ Len(gen.made) = gen.i
  /\ gen.made = [j \in 1 .. gen.i |-> gen.made[j]]

\* What the generator has made: the requests go to the connections in turn, and
\* the counter of each is the number of its requests before.
Generating ==
  /\ \E q \in Nat : gen.i = q * Ids + gen.temp_id
  /\ \A j \in 1 .. gen.i :
       /\ gen.made[j].id \in 0 .. Ids - 1 /\ gen.made[j].ctr \in Nat
       /\ j = Slot(gen.made[j].ctr, gen.made[j].id)
  /\ \A c \in 0 .. Ids - 1 : Count(gen.ctr[c], c, gen.i)

\* The file begins with the records of the requests made, whatever was in it before.
Filed ==
  /\ file \in Seq(Nat \X Nat) /\ gen.pos <= Len(file)
  /\ \A j \in 1 .. gen.i, u \in 1 .. HistSize + 2 : file[(j - 1) * (HistSize + 2) + u] = <<j, u - 1>>

\* What the client has read: whole records, each in the array of its connection.
LoadType ==
  /\ loader = [at |-> loader.at, read |-> loader.read, arr |-> loader.arr]
  /\ loader.read \in 0 .. gen.i /\ loader.at = loader.read * (HistSize + 2)
  /\ loader.arr \in [0 .. Ids - 1 -> Seq({Record(j) : j \in Nat})]
Loading ==
  \A c \in 0 .. Ids - 1 :
    /\ Count(Len(loader.arr[c]), c, loader.read)
    /\ \A k \in 1 .. Len(loader.arr[c]) : loader.arr[c][k] = Record(Slot(k - 1, c))

\* How far the two programs are.
Progress ==
  /\ status \in {"reading", "sending"} => loader.read = 0
  /\ status = "loading" => gen.i = Requests
  /\ prog = "generator" /\ status = "done" => loader.read = Requests

DInv == GenType /\ Generating /\ Filed /\ LoadType /\ Loading /\ Progress

\* A request has one number.
LEMMA SlotUnique ==
  ASSUME D!SizesFit, NEW a \in Nat, NEW b \in Nat, NEW c \in 0 .. Ids - 1, NEW d \in 0 .. Ids - 1,
         Slot(a, c) = Slot(b, d)
  PROVE  a = b /\ c = d
<1>0. Ids \in Nat \ {0}
  BY DEF D!SizesFit
<1>f. First(c) \in 1 .. Ids /\ First(d) \in 1 .. Ids /\ (First(c) = First(d) => c = d)
  BY <1>0 DEF First
<1>1. PICK e \in 1 .. Ids : e = First(c)
  BY <1>f
<1>2. PICK f \in 1 .. Ids : f = First(d)
  BY <1>f
<1>3. a * Ids + e = b * Ids + f
  BY <1>1, <1>2 DEF Slot
<1>4. ASSUME a < b PROVE FALSE
  <2>1. (b - a - 1) * Ids >= 0
    BY <1>0, <1>4
  <2>2. (b - a - 1) * Ids = b * Ids - a * Ids - Ids
    BY <1>0
  <2> QED BY <1>0, <1>3, <2>1, <2>2
<1>5. ASSUME b < a PROVE FALSE
  <2>1. (a - b - 1) * Ids >= 0
    BY <1>0, <1>5
  <2>2. (a - b - 1) * Ids = a * Ids - b * Ids - Ids
    BY <1>0
  <2> QED BY <1>0, <1>3, <2>1, <2>2
<1>6. a = b
  BY <1>4, <1>5
<1>7. e = f
  BY <1>0, <1>3, <1>6
<1> QED BY <1>1, <1>2, <1>6, <1>7, <1>f

\* Slots are numbers, and the next one of a connection is Ids further.
LEMMA SlotNat ==
  ASSUME D!SizesFit, NEW a \in Nat, NEW c \in 0 .. Ids - 1
  PROVE  /\ Slot(a, c) \in Nat \ {0} /\ Slot(a + 1, c) = Slot(a, c) + Ids /\ Ids \in Nat \ {0}
         /\ First(c) \in 1 .. Ids /\ Slot(a, c) = a * Ids + First(c) /\ a * Ids \in Nat
<1>0. Ids \in Nat \ {0}
  BY DEF D!SizesFit
<1>1. First(c) \in 1 .. Ids
  BY <1>0 DEF First
<1>2. PICK f \in 1 .. Ids : f = First(c)
  BY <1>1
<1>3. a * Ids \in Nat /\ (a + 1) * Ids = a * Ids + Ids
  BY <1>0
<1> QED BY <1>0, <1>1, <1>2, <1>3 DEF Slot

\* The next request of connection c is counted for c,
LEMMA CountStep ==
  ASSUME D!SizesFit, NEW n \in Nat, NEW c \in 0 .. Ids - 1, NEW i \in Nat, NEW m \in Nat,
         Count(n, c, i), i + 1 = Slot(m, c)
  PROVE  n = m /\ Count(n + 1, c, i + 1)
<1>0. /\ Ids \in Nat \ {0} /\ Slot(n, c) \in Nat /\ Slot(m, c) \in Nat
      /\ Slot(n + 1, c) = Slot(n, c) + Ids /\ Slot(n, c) > i /\ Slot(n, c) - Ids <= i
  BY SlotNat DEF Count
<1>1. Slot(m, c) = m * Ids + First(c) /\ Slot(n, c) = n * Ids + First(c) /\ First(c) \in 1 .. Ids
  BY SlotNat
<1>2. PICK f \in 1 .. Ids : f = First(c)
  BY <1>1
<1>3. n * Ids + f > i /\ n * Ids + f - Ids <= i /\ m * Ids + f = i + 1
  BY <1>0, <1>1, <1>2
<1>4. ASSUME m < n PROVE FALSE
  <2>1. (n - m - 1) * Ids >= 0 /\ (n - m - 1) * Ids = n * Ids - m * Ids - Ids
    BY <1>0, <1>4
  <2>2. n * Ids \in Nat /\ m * Ids \in Nat
    BY <1>0
  <2> QED BY <1>0, <1>3, <2>1, <2>2
<1>5. ASSUME n < m PROVE FALSE
  <2>1. (m - n - 1) * Ids >= 0 /\ (m - n - 1) * Ids = m * Ids - n * Ids - Ids
    BY <1>0, <1>5
  <2>2. n * Ids \in Nat /\ m * Ids \in Nat
    BY <1>0
  <2> QED BY <1>0, <1>3, <2>1, <2>2
<1>6. n = m
  BY <1>4, <1>5
<1>7. Slot(n, c) = i + 1
  BY <1>6
<1> QED BY <1>0, <1>6, <1>7 DEF Count

\* and for no other.
LEMMA CountStays ==
  ASSUME D!SizesFit, NEW n \in Nat, NEW c \in 0 .. Ids - 1, NEW i \in Nat, NEW m \in Nat,
         NEW d \in 0 .. Ids - 1, c # d, Count(n, c, i), i + 1 = Slot(m, d)
  PROVE  Count(n, c, i + 1)
<1>1. Slot(n, c) # Slot(m, d)
  BY SlotUnique
<1>2. Slot(n, c) \in Nat /\ Ids \in Nat
  BY SlotNat
<1> QED BY <1>1, <1>2 DEF Count

\* The writes of one request are as long as a record: the last one takes the
\* rest of the histogram and the bytes before it.
LEMMA WrittenAll ==
  ASSUME D!SizesFit
  PROVE  Cardinality(D!Written) = HistSize + 2
<1>0. HistSize \in Nat \ {0} /\ Chunk \in Nat \ {0} /\ HistSize % Chunk # 0
  BY DEF D!SizesFit
<1> DEFINE L == (HistSize - 1) \div Chunk
           q == HistSize \div Chunk
           part(o) == o .. (o + (IF HistSize - o < Chunk THEN D!RecordSize - o ELSE Chunk) - 1)
<1>1. L \in Nat /\ L * Chunk <= HistSize - 1 /\ HistSize - 1 < L * Chunk + Chunk /\ L * Chunk \in Nat
  BY <1>0
<1>2. HistSize # L * Chunk + Chunk
  <2>1. (L + 1) * Chunk = L * Chunk + Chunk
    BY <1>0, <1>1
  <2>2. ((L + 1) * Chunk) % Chunk = 0
    BY <1>0, <1>1
  <2> QED BY <1>0, <2>1, <2>2
<1> HIDE DEF L
<1>3. HistSize - L * Chunk < Chunk
  BY <1>0, <1>1, <1>2
<1>4. ASSUME NEW k \in 0 .. L, k # L
      PROVE  k * Chunk \in Nat /\ k * Chunk + Chunk <= L * Chunk /\ ~(HistSize - k * Chunk < Chunk)
  <2>1. (L - k - 1) * Chunk >= 0 /\ (L - k - 1) * Chunk = L * Chunk - k * Chunk - Chunk
    BY <1>0, <1>1, <1>4
  <2>2. k * Chunk \in Nat
    BY <1>0, <1>1
  <2> QED BY <1>0, <1>1, <2>1, <2>2
<1>5. part(L * Chunk) = L * Chunk .. HistSize + 1
  BY <1>0, <1>1, <1>3 DEF D!RecordSize
<1>6. \A k \in 0 .. L : k # L => part(k * Chunk) = k * Chunk .. (k * Chunk + Chunk - 1)
  BY <1>4
<1>7. D!Written = UNION {part(o) : o \in {k * Chunk : k \in 0 .. L}}
  BY DEF D!Written, L
<1>8. \A x : x \in D!Written <=> \E k \in 0 .. L : x \in part(k * Chunk)
  BY <1>7
<1> HIDE DEF part
<1>9. ASSUME NEW x \in D!Written PROVE x \in 0 .. HistSize + 1
  <2>1. PICK k \in 0 .. L : x \in part(k * Chunk)
    BY <1>8
  <2>2. CASE k = L
    BY <1>0, <1>1, <1>5, <2>1, <2>2
  <2>3. CASE k # L
    <3>1. x \in k * Chunk .. (k * Chunk + Chunk - 1) /\ k * Chunk \in Nat /\ k * Chunk + Chunk <= L * Chunk
      BY <1>4, <1>6, <2>1, <2>3
    <3> QED BY <1>0, <1>1, <3>1
  <2> QED BY <2>2, <2>3
<1>10. ASSUME NEW x \in 0 .. HistSize + 1 PROVE x \in D!Written
  <2>1. CASE x >= L * Chunk
    <3>1. x \in part(L * Chunk) /\ L \in 0 .. L
      BY <1>0, <1>1, <1>5, <2>1
    <3> QED BY <1>8, <3>1
  <2>2. CASE x < L * Chunk
    <3> DEFINE k == x \div Chunk
    <3>1. k \in Nat /\ k * Chunk <= x /\ x <= k * Chunk + Chunk - 1 /\ k * Chunk \in Nat
      BY <1>0
    <3> HIDE DEF k
    <3>2. ASSUME k >= L PROVE FALSE
      <4>1. (k - L) * Chunk >= 0 /\ (k - L) * Chunk = k * Chunk - L * Chunk
        BY <1>0, <1>1, <3>1, <3>2
      <4> QED BY <1>1, <2>2, <3>1, <4>1
    <3>3. k \in 0 .. L /\ k # L
      BY <1>1, <3>1, <3>2
    <3>4. x \in part(k * Chunk)
      BY <1>0, <1>6, <3>1, <3>3
    <3> QED BY <1>8, <3>3, <3>4
  <2> QED BY <1>1, <2>1, <2>2
<1>11. D!Written = 0 .. HistSize + 1
  BY <1>9, <1>10
<1>12. Cardinality(0 .. HistSize + 1) = HistSize + 2
  BY <1>0, FS_Interval
<1> QED BY <1>11, <1>12

\* At first nothing is made, filed or read; the file of an earlier run may be there.
LEMMA DataInit ==
  ASSUME D!SizesFit, D!Init
  PROVE  DInv
<1>0. Ids \in Nat \ {0} /\ HistSize \in Nat \ {0} /\ Requests \in Nat /\ Connections = Ids
  BY DEF D!SizesFit
<1>1. /\ gen = [array |-> <<>>, i |-> 0, temp_id |-> 0, pos |-> 0, ctr |-> [c \in 0 .. (Ids - 1) |-> 0], made |-> <<>>]
      /\ loader = [at |-> 0, read |-> 0, arr |-> [c \in 0 .. (Ids - 1) |-> <<>>]]
      /\ status = "reading"
  BY <1>0 DEF D!Init
<1>2. GenType
  <2>1. gen.i = 0 /\ gen.temp_id = 0 /\ gen.pos = 0 /\ gen.made = <<>> /\ gen.ctr = [c \in 0 .. (Ids - 1) |-> 0]
    BY <1>1
  <2>2. Len(gen.made) = 0 /\ gen.made = [j \in 1 .. gen.i |-> gen.made[j]]
    BY <2>1
  <2>3. gen.ctr \in [0 .. Ids - 1 -> Nat]
    BY <2>1
  <2> QED BY <1>0, <1>1, <2>1, <2>2, <2>3 DEF GenType
<1>c. ASSUME NEW c \in 0 .. Ids - 1 PROVE Count(0, c, 0)
  <2>1. Slot(0, c) = 0 * Ids + First(c) /\ First(c) \in 1 .. Ids
    BY SlotNat
  <2> QED BY <1>0, <2>1 DEF Count
<1>3. Generating
  <2>1. gen.i = 0 /\ gen.temp_id = 0 /\ \A c \in 0 .. Ids - 1 : gen.ctr[c] = 0
    BY <1>1
  <2>2. gen.i = 0 * Ids + gen.temp_id /\ 0 \in Nat
    BY <1>0, <2>1
  <2>3. \A c \in 0 .. Ids - 1 : Count(gen.ctr[c], c, gen.i)
    BY <1>c, <2>1
  <2>4. 1 .. gen.i = {}
    BY <2>1
  <2> QED BY <2>2, <2>3, <2>4 DEF Generating
<1>4. Filed
  <2>1. gen.i = 0 /\ gen.pos = 0
    BY <1>1
  <2>2. file = <<>> \/ file = D!Stale((Requests + 1) * D!RecordSize)
    BY DEF D!Init
  <2>3. file \in Seq(Nat \X Nat) /\ Len(file) \in Nat
    <3>1. (Requests + 1) * D!RecordSize \in Nat
      BY <1>0 DEF D!RecordSize
    <3>2. PICK n \in Nat : n = (Requests + 1) * D!RecordSize
      BY <3>1
    <3>3. [k \in 1 .. n |-> <<1, k>>] \in Seq(Nat \X Nat)
      OBVIOUS
    <3>4. D!Stale(n) = [k \in 1 .. n |-> <<1, k>>]
      BY DEF D!Stale
    <3>5. <<>> \in Seq(Nat \X Nat)
      OBVIOUS
    <3>6. file \in Seq(Nat \X Nat)
      BY <2>2, <3>2, <3>3, <3>4, <3>5
    <3> QED BY <3>6, LenProperties
  <2> QED BY <2>1, <2>3 DEF Filed
<1>5. LoadType
  <2>1. loader.at = 0 /\ loader.read = 0 /\ loader.arr = [c \in 0 .. (Ids - 1) |-> <<>>] /\ gen.i = 0
    BY <1>1
  <2>2. loader.arr \in [0 .. Ids - 1 -> Seq({Record(j) : j \in Nat})]
    BY <2>1
  <2>3. loader = [at |-> loader.at, read |-> loader.read, arr |-> loader.arr]
    BY <1>1
  <2> QED BY <1>0, <2>1, <2>2, <2>3 DEF LoadType
<1>6. Loading
  <2>1. loader.read = 0 /\ \A c \in 0 .. Ids - 1 : loader.arr[c] = <<>> /\ Len(loader.arr[c]) = 0
    BY <1>1
  <2> QED BY <1>c, <2>1 DEF Loading
<1>7. Progress
  BY <1>1 DEF Progress
<1> QED BY <1>2, <1>3, <1>4, <1>5, <1>6, <1>7 DEF DInv

\* The next request is of the next connection in turn.
LEMMA NextTurn ==
  ASSUME D!SizesFit, NEW i \in Nat, NEW t \in 0 .. Ids - 1, NEW q \in Nat, i = q * Ids + t
  PROVE  /\ D!NextId(t) \in 0 .. Ids - 1 /\ i + 1 = Slot(q, D!NextId(t))
         /\ \E r \in Nat : i + 1 = r * Ids + D!NextId(t)
<1>0. Ids \in Nat \ {0} /\ q * Ids \in Nat
  BY DEF D!SizesFit
<1>1. CASE t + 1 < Ids
  <2>1. D!NextId(t) = t + 1 /\ First(t + 1) = t + 1
    BY <1>0, <1>1 DEF D!NextId, First
  <2>2. i + 1 = q * Ids + (t + 1)
    BY <1>0
  <2> QED BY <1>0, <1>1, <2>1, <2>2 DEF Slot
<1>2. CASE t + 1 = Ids
  <2>1. D!NextId(t) = 0 /\ First(0) = Ids
    BY <1>0, <1>2 DEF D!NextId, First
  <2>2. i + 1 = q * Ids + Ids /\ (q + 1) * Ids = q * Ids + Ids
    BY <1>0, <1>2
  <2>3. i + 1 = (q + 1) * Ids + 0 /\ q + 1 \in Nat
    BY <1>0, <2>2
  <2>4. i + 1 = Slot(q, D!NextId(t))
    BY <2>1, <2>2 DEF Slot
  <2>5. \E r \in Nat : i + 1 = r * Ids + D!NextId(t)
    BY <2>1, <2>3
  <2> QED BY <1>0, <2>1, <2>4, <2>5
<1> QED BY <1>0, <1>1, <1>2

\* The instance counts as this module does.
LEMMA SameCardinality == ASSUME NEW S PROVE D!Cardinality(S) = Cardinality(S)
BY Zenon DEF D!Cardinality, Cardinality

\* File g is file f with the record of request i + 1 written at p, over an older
\* record or past the end.
Wrote(g, f, p, i) ==
  /\ g \in Seq(Nat \X Nat) /\ p + (HistSize + 2) <= Len(g)
  /\ \A k \in 1 .. p : g[k] = f[k]
  /\ \A u \in 1 .. HistSize + 2 : g[p + u] = <<i + 1, u - 1>>

\* What a write of the generator does to the file.
LEMMA WriteRecord ==
  ASSUME D!SizesFit, NEW f \in Seq(Nat \X Nat), NEW i \in Nat, i = gen.i, NEW p \in Nat, p <= Len(f),
         NEW g, g = D!WriteUnits(f, p, D!Written)
  PROVE  Wrote(g, f, p, i)
<1>0. HistSize \in Nat \ {0} /\ Len(f) \in Nat
  BY DEF D!SizesFit
<1>1. PICK R \in Nat : R = HistSize + 2
  BY <1>0
<1>2. Cardinality(D!Written) = R
  BY <1>1, WrittenAll
<1>3. D!Max({Len(f), p + R}) \in {Len(f), p + R} /\ D!Max({Len(f), p + R}) >= Len(f) /\ D!Max({Len(f), p + R}) >= p + R
  <2>1. \E x \in {Len(f), p + R} : \A y \in {Len(f), p + R} : x >= y
    BY <1>0
  <2>2. /\ D!Max({Len(f), p + R}) \in {Len(f), p + R}
        /\ \A y \in {Len(f), p + R} : D!Max({Len(f), p + R}) >= y
    BY <2>1 DEF D!Max
  <2> QED BY <2>2
<1>4. PICK n \in Nat : n = D!Max({Len(f), p + R}) /\ n >= p + R /\ n >= Len(f) /\ (n = Len(f) \/ n = p + R)
  BY <1>0, <1>3
<1>5. g = [k \in 1 .. n |-> IF k > p /\ k <= p + R THEN <<i + 1, k - p - 1>> ELSE f[k]]
  <2>1. g = [k \in 1 .. D!Max({Len(f), p + D!Cardinality(D!Written)}) |->
                IF k > p /\ k <= p + D!Cardinality(D!Written) THEN <<gen.i + 1, k - p - 1>> ELSE f[k]]
    BY Zenon DEF D!WriteUnits
  <2> QED BY <1>2, <1>4, <2>1, SameCardinality, Zenon
<1>6. \A k \in 1 .. n : (IF k > p /\ k <= p + R THEN <<i + 1, k - p - 1>> ELSE f[k]) \in Nat \X Nat
  <2> SUFFICES ASSUME NEW k \in 1 .. n
               PROVE  (IF k > p /\ k <= p + R THEN <<i + 1, k - p - 1>> ELSE f[k]) \in Nat \X Nat
    OBVIOUS
  <2>1. CASE k > p /\ k <= p + R
    <3>1. i + 1 \in Nat /\ k - p - 1 \in Nat
      BY <2>1
    <3> QED BY <2>1, <3>1
  <2>2. CASE ~(k > p /\ k <= p + R)
    <3>1. k \in 1 .. Len(f)
      BY <1>0, <1>4, <2>2
    <3>2. f[k] \in Nat \X Nat
      BY <3>1
    <3> QED BY <2>2, <3>2
  <2> QED BY <2>1, <2>2
<1>7. g \in [1 .. n -> Nat \X Nat]
  BY <1>5, <1>6
<1>8. g \in Seq(Nat \X Nat) /\ Len(g) = n
  BY <1>7
<1>9. \A k \in 1 .. p : g[k] = f[k]
  BY <1>4, <1>5
<1>10. ASSUME NEW u \in 1 .. R PROVE g[p + u] = <<i + 1, u - 1>>
  <2>1. p + u \in 1 .. n /\ p + u > p /\ p + u <= p + R /\ p + u - p - 1 = u - 1
    BY <1>4
  <2> QED BY <1>5, <2>1
<1> QED BY <1>1, <1>4, <1>8, <1>9, <1>10 DEF Wrote

\* generate: one request more is made, for the connection whose turn it is, and filed.
LEMMA GenerateKeeps ==
  ASSUME D!SizesFit, DInv, NEW r, D!generate(r)
  PROVE  DInv'
<1>0. Ids \in Nat \ {0} /\ HistSize \in Nat \ {0} /\ Requests \in Nat
  BY DEF D!SizesFit
<1>1. GenType /\ Generating /\ Filed /\ LoadType /\ Loading /\ Progress
  BY DEF DInv
<1>2. PICK i \in Nat : i = gen.i /\ i < Requests
  BY <1>0, <1>1 DEF D!generate, GenType
<1>3. PICK t \in 0 .. Ids - 1 : t = gen.temp_id
  BY <1>1 DEF GenType
<1>4. PICK q \in Nat : i = q * Ids + t
  BY <1>1, <1>2, <1>3 DEF Generating
<1>5. PICK id : id = D!NextId(t)
  OBVIOUS
<1>6. /\ id \in 0 .. Ids - 1 /\ i + 1 = Slot(q, id) /\ \E s \in Nat : i + 1 = s * Ids + id
  BY <1>4, <1>5, NextTurn
<1>7. PICK p \in Nat : p = gen.pos /\ p = i * (HistSize + 2)
  BY <1>0, <1>1, <1>2 DEF GenType
<1>8. PICK made : made = gen.made
  OBVIOUS
<1>9. PICK ctr \in [0 .. Ids - 1 -> Nat] : ctr = gen.ctr
  BY <1>1 DEF GenType
<1>10. gen' = [gen EXCEPT !.temp_id = id, !.i = @ + 1, !.pos = @ + D!Cardinality(D!Written), !.ctr[id] = @ + 1,
                         !.made = Append(@, [id |-> id, ctr |-> gen.ctr[id], plain |-> r])]
  BY <1>3, <1>5, Zenon DEF D!generate
<1>11. PICK one : one = [id |-> id, ctr |-> ctr[id], plain |-> r]
  OBVIOUS
<1>12. /\ gen'.array = gen.array /\ gen'.temp_id = id /\ gen'.i = i + 1
       /\ gen'.pos = p + (HistSize + 2) /\ gen'.ctr = [ctr EXCEPT ![id] = @ + 1] /\ gen'.made = Append(made, one)
       /\ gen' = [array |-> gen'.array, i |-> gen'.i, temp_id |-> gen'.temp_id, pos |-> gen'.pos,
                  ctr |-> gen'.ctr, made |-> gen'.made]
  <2>1. gen = [array |-> gen.array, i |-> i, temp_id |-> t, pos |-> p, ctr |-> ctr, made |-> made]
    BY <1>1, <1>2, <1>3, <1>7, <1>8, <1>9 DEF GenType
  <2>2. gen' = [array |-> gen.array, i |-> i + 1, temp_id |-> id, pos |-> p + D!Cardinality(D!Written),
                ctr |-> [ctr EXCEPT ![id] = @ + 1], made |-> Append(made, one)]
    <3>1. gen' = [gen EXCEPT !.temp_id = id, !.i = i + 1, !.pos = p + D!Cardinality(D!Written),
                            !.ctr = [ctr EXCEPT ![id] = @ + 1], !.made = Append(made, one)]
      BY <1>2, <1>7, <1>8, <1>9, <1>10, <1>11, <2>1
    <3> QED BY <2>1, <3>1
  <2>3. D!Cardinality(D!Written) = HistSize + 2
    BY WrittenAll, SameCardinality
  <2> QED BY <2>2, <2>3
<1>13. file' = D!WriteUnits(file, p, D!Written) /\ UNCHANGED <<prog, status, loader>> /\ status = "sending"
  BY <1>7 DEF D!generate
<1>14. /\ Len(made) = i /\ made = [j \in 1 .. i |-> made[j]]
  BY <1>1, <1>2, <1>8 DEF GenType
<1>15. /\ Len(Append(made, one)) = i + 1 /\ Append(made, one)[i + 1] = one
       /\ \A j \in 1 .. i : Append(made, one)[j] = made[j]
       /\ Append(made, one) = [j \in 1 .. i + 1 |-> Append(made, one)[j]]
  <2>1. PICK S : S = {made[j] : j \in 1 .. i} \cup {one}
    OBVIOUS
  <2>2. made \in [1 .. i -> S] /\ one \in S
    BY <1>14, <2>1
  <2>3. made \in Seq(S)
    BY <2>2
  <2>4. Append(made, one) \in Seq(S)
    BY <2>2, <2>3, AppendProperties
  <2>5. /\ Len(Append(made, one)) = i + 1 /\ Append(made, one)[i + 1] = one
        /\ \A j \in 1 .. i : Append(made, one)[j] = made[j]
    BY <1>14, <2>2, <2>3, AppendProperties
  <2>6. Append(made, one) \in [1 .. i + 1 -> S]
    BY <2>4, <2>5, LenProperties
  <2> QED BY <2>5, <2>6
<1>16. GenType'
  <2>1. p + (HistSize + 2) = (i + 1) * (HistSize + 2)
    BY <1>0, <1>7
  <2>2. [ctr EXCEPT ![id] = @ + 1] \in [0 .. Ids - 1 -> Nat]
    <3>1. id \in 0 .. Ids - 1
      BY <1>6
    <3>2. ctr[id] + 1 \in Nat
      BY <3>1
    <3> QED BY <3>1, <3>2
  <2>3. i + 1 \in 0 .. Requests
    BY <1>0, <1>2
  <2> QED BY <1>6, <1>12, <1>15, <2>1, <2>2, <2>3 DEF GenType
<1>c. Count(ctr[id], id, i) /\ ctr[id] \in Nat
  BY <1>1, <1>2, <1>6, <1>9 DEF Generating
<1>n. ctr[id] = q /\ Count(ctr[id] + 1, id, i + 1)
  BY <1>6, <1>c, CountStep
<1>17. Generating'
  <2>1. \E s \in Nat : gen'.i = s * Ids + gen'.temp_id
    BY <1>6, <1>12
  <2>2. ASSUME NEW j \in 1 .. i + 1
        PROVE  /\ Append(made, one)[j].id \in 0 .. Ids - 1 /\ Append(made, one)[j].ctr \in Nat
               /\ j = Slot(Append(made, one)[j].ctr, Append(made, one)[j].id)
    <3>1. CASE j = i + 1
      <4>1. one.id = id /\ one.ctr = q
        BY <1>11, <1>n
      <4> QED BY <1>6, <1>15, <3>1, <4>1
    <3>2. CASE j # i + 1
      <4>1. j \in 1 .. i
        BY <3>2
      <4>2. made[j].id \in 0 .. Ids - 1 /\ made[j].ctr \in Nat /\ j = Slot(made[j].ctr, made[j].id)
        BY <1>1, <1>2, <1>8, <4>1 DEF Generating
      <4> QED BY <1>15, <4>1, <4>2
    <3> QED BY <3>1, <3>2
  <2>3. ASSUME NEW c \in 0 .. Ids - 1
        PROVE  Count([ctr EXCEPT ![id] = @ + 1][c], c, i + 1)
    <3>1. CASE c = id
      <4>1. [ctr EXCEPT ![id] = @ + 1][c] = ctr[id] + 1
        BY <1>6, <1>9, <3>1
      <4> QED BY <1>n, <3>1, <4>1
    <3>2. CASE c # id
      <4>1. [ctr EXCEPT ![id] = @ + 1][c] = ctr[c] /\ ctr[c] \in Nat
        BY <1>9, <3>2
      <4>2. Count(ctr[c], c, i)
        BY <1>1, <1>2, <1>9 DEF Generating
      <4>3. Count(ctr[c], c, i + 1)
        BY <1>6, <3>2, <4>1, <4>2, CountStays
      <4> QED BY <4>1, <4>3
    <3> QED BY <3>1, <3>2
  <2>4. \A j \in 1 .. gen'.i :
          /\ gen'.made[j].id \in 0 .. Ids - 1 /\ gen'.made[j].ctr \in Nat
          /\ j = Slot(gen'.made[j].ctr, gen'.made[j].id)
    BY <1>12, <2>2
  <2>5. \A c \in 0 .. Ids - 1 : Count(gen'.ctr[c], c, gen'.i)
    BY <1>12, <2>3
  <2> QED BY <2>1, <2>4, <2>5 DEF Generating, Count, Slot, First
<1>18. Filed'
  <2>1. PICK f \in Seq(Nat \X Nat) : f = file /\ p <= Len(f)
    BY <1>1, <1>7 DEF Filed
  <2>2. PICK g : g = file'
    OBVIOUS
  <2>3. g = D!WriteUnits(f, p, D!Written)
    BY <1>13, <2>1, <2>2
  <2>4. /\ g \in Seq(Nat \X Nat) /\ p + (HistSize + 2) <= Len(g)
        /\ \A k \in 1 .. p : g[k] = f[k]
        /\ \A u \in 1 .. HistSize + 2 : g[p + u] = <<i + 1, u - 1>>
    <3>1. p <= Len(f) /\ i = gen.i
      BY <1>2, <2>1
    <3>2. Wrote(g, f, p, i)
      BY <2>3, <3>1, WriteRecord
    <3> QED BY <3>2 DEF Wrote
  <2>5. ASSUME NEW j \in 1 .. i + 1, NEW u \in 1 .. HistSize + 2
        PROVE  g[(j - 1) * (HistSize + 2) + u] = <<j, u - 1>>
    <3>1. CASE j = i + 1
      <4>1. (j - 1) * (HistSize + 2) = p
        BY <1>7, <3>1
      <4> QED BY <2>4, <3>1, <4>1
    <3>2. CASE j # i + 1
      <4>1. j \in 1 .. i
        BY <3>2
      <4>2. f[(j - 1) * (HistSize + 2) + u] = <<j, u - 1>>
        BY <1>1, <1>2, <2>1, <4>1 DEF Filed
      <4>3. (j - 1) * (HistSize + 2) + u \in 1 .. p
        <5>1. PICK R \in Nat : R = HistSize + 2
          BY <1>0
        <5>2. (i - j) * R >= 0 /\ (i - j) * R = i * R - j * R /\ (j - 1) * R = j * R - R /\ (j - 1) * R \in Nat /\ j * R \in Nat
          BY <4>1
        <5>3. p = i * R
          BY <1>7, <5>1
        <5>4. PICK a \in Nat : a = (j - 1) * R
          BY <5>2
        <5>5. a + R <= p
          BY <5>2, <5>3, <5>4
        <5>6. a + u \in 1 .. p
          BY <5>1, <5>5
        <5>7. (j - 1) * R + u \in 1 .. p
          BY <5>4, <5>6
        <5> QED BY <5>1, <5>7
      <4> QED BY <2>4, <4>2, <4>3
    <3> QED BY <3>1, <3>2
  <2> QED BY <1>12, <2>2, <2>4, <2>5 DEF Filed
<1>19. LoadType' /\ Loading' /\ Progress'
  <2>1. loader' = loader /\ status' = "sending" /\ loader.read = 0
    BY <1>1, <1>13 DEF Progress
  <2>2. LoadType'
    BY <1>1, <1>2, <1>12, <2>1 DEF LoadType, Record
  <2>3. Loading'
    BY <1>1, <2>1 DEF Loading, Count, Slot, First, Record
  <2>4. Progress'
    BY <2>1 DEF Progress
  <2> QED BY <2>2, <2>3, <2>4
<1> QED BY <1>16, <1>17, <1>18, <1>19 DEF DInv

\* Before request y the file has whole records for all earlier ones.
LEMMA WholeRecords ==
  ASSUME NEW x \in Nat, NEW y \in Nat, NEW R \in Nat, x < y
  PROVE  x * R + R <= y * R /\ x * R \in Nat /\ y * R \in Nat
<1>1. PICK z \in Nat : y = x + z + 1
  <2>1. y - x - 1 \in Nat /\ y = x + (y - x - 1) + 1
    OBVIOUS
  <2> QED BY <2>1
<1>2. (x + z + 1) * R = x * R + z * R + R
  OBVIOUS
<1>3. x * R \in Nat /\ z * R \in Nat /\ y * R \in Nat
  OBVIOUS
<1> QED BY <1>1, <1>2, <1>3

\* client_main: the next record is there, whole, and goes to the array of its connection.
LEMMA LoadKeeps ==
  ASSUME D!SizesFit, DInv, D!client_main
  PROVE  DInv'
<1>0. Ids \in Nat \ {0} /\ HistSize \in Nat \ {0} /\ Requests \in Nat
  BY DEF D!SizesFit
<1>1. GenType /\ Generating /\ Filed /\ LoadType /\ Loading /\ Progress
  BY DEF DInv
<1>2. PICK n \in Nat : n = loader.read /\ n < Requests /\ gen.i = Requests
  <2>1. status = "loading" /\ loader.read < Requests
    BY DEF D!client_main
  <2>2. gen.i = Requests
    BY <1>1, <2>1 DEF Progress
  <2>3. loader.read \in Nat
    BY <1>0, <1>1, <2>2 DEF LoadType
  <2> QED BY <2>1, <2>2, <2>3
<1>3. PICK R \in Nat : R = HistSize + 2 /\ R > 0
  BY <1>0
<1>4. PICK a \in Nat : a = loader.at /\ a = n * R
  BY <1>1, <1>2, <1>3 DEF LoadType
<1>5. PICK arr \in [0 .. Ids - 1 -> Seq({Record(j) : j \in Nat})] : arr = loader.arr
  BY <1>1 DEF LoadType
<1>6. PICK f \in Seq(Nat \X Nat) : f = file /\ gen.pos <= Len(f)
  BY <1>1 DEF Filed
<1>7. a + R <= Len(f) /\ Len(f) \in Nat
  <2>1. gen.pos = Requests * R
    BY <1>1, <1>2, <1>3 DEF GenType
  <2>2. n * R + R <= Requests * R /\ Requests * R \in Nat
    BY <1>0, <1>2, WholeRecords
  <2>3. Len(f) \in Nat
    BY <1>6, LenProperties
  <2> QED BY <1>4, <1>6, <2>1, <2>2, <2>3
<1>8. D!Units(loader.at) = Record(n + 1)
  <2>1. D!RecordSize = R
    BY <1>3 DEF D!RecordSize
  <2>2. D!Min({R, Len(f) - a}) = R
    <3>1. R <= Len(f) - a /\ Len(f) - a \in Int
      BY <1>7
    <3>2. \A x \in {R, Len(f) - a} : (\A y \in {R, Len(f) - a} : x <= y) <=> x = R
      BY <3>1
    <3> QED BY <3>2 DEF D!Min
  <2>3. D!Units(loader.at) = [k \in 1 .. R |-> f[a + k]]
    BY <1>4, <1>6, <2>1, <2>2, Zenon DEF D!Units
  <2>4. ASSUME NEW k \in 1 .. R PROVE f[a + k] = <<n + 1, k - 1>>
    <3>1. n + 1 \in 1 .. gen.i /\ k \in 1 .. HistSize + 2
      BY <1>0, <1>2, <1>3
    <3>2. file[((n + 1) - 1) * (HistSize + 2) + k] = <<n + 1, k - 1>>
      BY <1>1, <3>1 DEF Filed
    <3>3. ((n + 1) - 1) * (HistSize + 2) = a
      BY <1>3, <1>4
    <3> QED BY <1>6, <3>2, <3>3
  <2> QED BY <1>3, <2>3, <2>4 DEF Record
<1>9. PICK rec : rec = Record(n + 1)
  OBVIOUS
<1>10. Len(rec) = R /\ rec[1][1] = n + 1 /\ rec \in {Record(j) : j \in Nat}
  <2>1. rec = [u \in 1 .. R |-> <<n + 1, u - 1>>]
    BY <1>3, <1>9 DEF Record
  <2>2. rec \in [1 .. R -> Nat \X Nat]
    BY <2>1
  <2>3. Len(rec) = R
    BY <2>2
  <2>4. rec[1] = <<n + 1, 0>>
    BY <1>3, <2>1
  <2>5. n + 1 \in Nat
    OBVIOUS
  <2> QED BY <1>9, <2>3, <2>4, <2>5
<1>d. /\ gen.made[n + 1].id \in 0 .. Ids - 1 /\ gen.made[n + 1].ctr \in Nat
      /\ n + 1 = Slot(gen.made[n + 1].ctr, gen.made[n + 1].id)
  <2>1. n + 1 \in 1 .. gen.i
    BY <1>0, <1>2
  <2>2. \A j \in 1 .. gen.i :
          /\ gen.made[j].id \in 0 .. Ids - 1 /\ gen.made[j].ctr \in Nat
          /\ j = Slot(gen.made[j].ctr, gen.made[j].id)
    BY <1>1 DEF Generating
  <2> QED BY <2>1, <2>2, Zenon
<1>11. PICK c \in 0 .. Ids - 1 : c = gen.made[n + 1].id
  BY <1>d
<1>12. PICK m \in Nat : n + 1 = Slot(m, c)
  BY <1>11, <1>d
<1>13. /\ loader' = [loader EXCEPT !.at = @ + Len(rec), !.read = @ + 1, !.arr[c] = Append(@, rec)]
       /\ UNCHANGED <<prog, status, gen, file>> /\ status = "loading"
  <2>1. D!client_main
    OBVIOUS
  <2>2. D!RecordSize = R
    BY <1>3 DEF D!RecordSize
  <2>3. ~(Len(rec) < D!RecordSize) /\ gen.made[rec[1][1]].id = c
    BY <1>10, <1>11, <2>2
  <2>4. D!Units(loader.at) = rec
    BY <1>8, <1>9
  <2> QED BY <2>1, <2>3, <2>4 DEF D!client_main
<1>14. PICK arr2 : arr2 = [arr EXCEPT ![c] = Append(@, rec)]
  OBVIOUS
<1>15. /\ loader' = [at |-> loader'.at, read |-> loader'.read, arr |-> loader'.arr]
       /\ loader'.at = a + R /\ loader'.read = n + 1 /\ loader'.arr = arr2
  <2>1. loader = [at |-> a, read |-> n, arr |-> arr]
    BY <1>1, <1>2, <1>4, <1>5 DEF LoadType
  <2>2. loader' = [at |-> a + R, read |-> n + 1, arr |-> arr2]
    <3>1. loader' = [loader EXCEPT !.at = a + Len(rec), !.read = n + 1, !.arr = arr2]
      BY <1>13, <1>14, <2>1
    <3>2. Len(rec) = R
      BY <1>10
    <3> QED BY <2>1, <3>1, <3>2
  <2> QED BY <2>2
<1>16. /\ arr2 \in [0 .. Ids - 1 -> Seq({Record(j) : j \in Nat})]
       /\ arr2[c] = Append(arr[c], rec) /\ \A d \in 0 .. Ids - 1 : d # c => arr2[d] = arr[d]
  <2>1. PICK S : S = {Record(j) : j \in Nat}
    OBVIOUS
  <2>2. arr[c] \in Seq(S) /\ rec \in S /\ arr \in [0 .. Ids - 1 -> Seq(S)]
    BY <1>10, <2>1
  <2>3. Append(arr[c], rec) \in Seq(S)
    BY <2>2, AppendProperties
  <2>4. arr2 \in [0 .. Ids - 1 -> Seq(S)]
    BY <1>14, <2>2, <2>3
  <2>5. arr2[c] = Append(arr[c], rec) /\ \A d \in 0 .. Ids - 1 : d # c => arr2[d] = arr[d]
    BY <1>14, <2>2
  <2> QED BY <2>1, <2>4, <2>5
<1>17. /\ Len(arr[c]) \in Nat /\ Len(arr2[c]) = Len(arr[c]) + 1 /\ arr2[c][Len(arr[c]) + 1] = rec
       /\ \A k \in 1 .. Len(arr[c]) : arr2[c][k] = arr[c][k]
  <2>1. PICK S : S = {Record(j) : j \in Nat}
    OBVIOUS
  <2>2. arr[c] \in Seq(S) /\ rec \in S
    BY <1>10, <2>1
  <2> QED BY <1>16, <2>2, AppendProperties, LenProperties
<1>18. GenType' /\ Generating' /\ Filed' /\ Progress'
  <2>1. UNCHANGED <<gen, file, prog, status>> /\ status = "loading"
    BY <1>13
  <2>2. GenType'
    BY <1>1, <2>1 DEF GenType
  <2>3. Generating'
    BY <1>1, <2>1 DEF Generating, Count, Slot, First
  <2>4. Filed'
    BY <1>1, <2>1 DEF Filed
  <2>5. Progress'
    BY <1>1, <2>1 DEF Progress
  <2> QED BY <2>2, <2>3, <2>4, <2>5
<1>19. LoadType'
  <2>1. gen' = gen /\ n + 1 \in 0 .. gen.i
    BY <1>0, <1>2, <1>13
  <2>2. a + R = (n + 1) * (HistSize + 2)
    <3>1. (n + 1) * R = n * R + R
      BY <1>3
    <3> QED BY <1>3, <1>4, <3>1
  <2> QED BY <1>15, <1>16, <2>1, <2>2 DEF LoadType, Record
<1>20. Loading'
  <2>1. ASSUME NEW d \in 0 .. Ids - 1
        PROVE  Count(Len(arr[d]), d, n) /\ \A k \in 1 .. Len(arr[d]) : arr[d][k] = Record(Slot(k - 1, d))
    BY <1>1, <1>2, <1>5 DEF Loading
  <2>2. Len(arr[c]) = m /\ Count(Len(arr[c]) + 1, c, n + 1)
    BY <1>12, <1>17, <2>1, CountStep
  <2>3. ASSUME NEW d \in 0 .. Ids - 1
        PROVE  /\ Count(Len(arr2[d]), d, n + 1)
               /\ \A k \in 1 .. Len(arr2[d]) : arr2[d][k] = Record(Slot(k - 1, d))
    <3>1. CASE d = c
      <4>1. Count(Len(arr2[d]), d, n + 1)
        BY <1>17, <2>2, <3>1
      <4>2. ASSUME NEW k \in 1 .. Len(arr2[c]) PROVE arr2[c][k] = Record(Slot(k - 1, c))
        <5>1. CASE k = Len(arr[c]) + 1
          <6>1. k - 1 = m
            BY <1>17, <2>2, <5>1
          <6> QED BY <1>9, <1>12, <1>17, <5>1, <6>1
        <5>2. CASE k # Len(arr[c]) + 1
          <6>1. k \in 1 .. Len(arr[c])
            BY <1>17, <5>2
          <6> QED BY <1>17, <2>1, <6>1
        <5> QED BY <5>1, <5>2
      <4> QED BY <3>1, <4>1, <4>2
    <3>2. CASE d # c
      <4>1. arr2[d] = arr[d]
        BY <1>16, <3>2
      <4>2. Len(arr[d]) \in Nat
        <5>1. PICK S : S = {Record(j) : j \in Nat}
          OBVIOUS
        <5>2. arr[d] \in Seq(S)
          BY <5>1
        <5> QED BY <5>2, LenProperties
      <4>3. Count(Len(arr[d]), d, n + 1)
        BY <1>12, <2>1, <3>2, <4>2, CountStays
      <4> QED BY <2>1, <4>1, <4>3
    <3> QED BY <3>1, <3>2
  <2>4. \A d \in 0 .. Ids - 1 :
          /\ Count(Len(loader'.arr[d]), d, loader'.read)
          /\ \A k \in 1 .. Len(loader'.arr[d]) : loader'.arr[d][k] = Record(Slot(k - 1, d))
    BY <1>15, <2>3
  <2> QED BY <2>4 DEF Loading, Count, Slot, First, Record
<1> QED BY <1>18, <1>19, <1>20 DEF DInv

\* No other step changes what the generator made, the file or what the client read.
LEMMA OthersKeep ==
  ASSUME D!SizesFit, DInv, UNCHANGED <<prog, file, loader>>,
         \/ gen' = gen
         \/ \E x : gen' = [gen EXCEPT !.array = x],
         \/ status' = status \/ status' \in {"aborted", "crashed"}
         \/ status = "reading" /\ status' = "sending"
         \/ status = "sending" /\ gen.i = Requests /\ status' = "loading"
         \/ status = "loading" /\ loader.read = Requests /\ status' = "done"
         \/ prog # "generator" /\ status' = "done"
  PROVE  DInv'
<1>1. GenType /\ Generating /\ Filed /\ LoadType /\ Loading /\ Progress
  BY DEF DInv
<1>2. /\ gen'.i = gen.i /\ gen'.temp_id = gen.temp_id /\ gen'.pos = gen.pos /\ gen'.ctr = gen.ctr
      /\ gen'.made = gen.made
      /\ gen' = [array |-> gen'.array, i |-> gen'.i, temp_id |-> gen'.temp_id, pos |-> gen'.pos,
                 ctr |-> gen'.ctr, made |-> gen'.made]
  <2>0. gen = [array |-> gen.array, i |-> gen.i, temp_id |-> gen.temp_id, pos |-> gen.pos,
               ctr |-> gen.ctr, made |-> gen.made]
    BY <1>1 DEF GenType
  <2>1. CASE gen' = gen
    BY <2>0, <2>1
  <2>2. ASSUME NEW x, gen' = [gen EXCEPT !.array = x]
        PROVE  /\ gen'.i = gen.i /\ gen'.temp_id = gen.temp_id /\ gen'.pos = gen.pos /\ gen'.ctr = gen.ctr
               /\ gen'.made = gen.made
               /\ gen' = [array |-> gen'.array, i |-> gen'.i, temp_id |-> gen'.temp_id, pos |-> gen'.pos,
                          ctr |-> gen'.ctr, made |-> gen'.made]
    <3>1. gen' = [array |-> x, i |-> gen.i, temp_id |-> gen.temp_id, pos |-> gen.pos,
                  ctr |-> gen.ctr, made |-> gen.made]
      BY <2>0, <2>2
    <3> QED BY <3>1
  <2> QED BY <2>1, <2>2
<1>3. GenType'
  BY <1>1, <1>2 DEF GenType
<1>4. Generating'
  BY <1>1, <1>2 DEF Generating, Count, Slot, First
<1>5. Filed'
  BY <1>1, <1>2 DEF Filed
<1>6. LoadType'
  BY <1>1, <1>2 DEF LoadType, Record
<1>7. Loading'
  BY <1>1 DEF Loading, Count, Slot, First, Record
<1>8. Progress'
  BY <1>1, <1>2 DEF Progress
<1> QED BY <1>3, <1>4, <1>5, <1>6, <1>7, <1>8 DEF DInv

\* Every step of the programs keeps the invariant.
LEMMA DataStep ==
  ASSUME D!SizesFit, DInv, [D!Next]_(D!vars)
  PROVE  DInv'
<1>1. CASE UNCHANGED D!vars
  BY <1>1, OthersKeep DEF D!vars
<1>2. ASSUME NEW e \in dir, D!populate_database(e) PROVE DInv'
  BY <1>2, OthersKeep DEF D!populate_database, D!ReadEntry, D!senderVars, D!serverVars
<1>3. ASSUME NEW e \in dir, D!native_populate_database(e) PROVE DInv'
  BY <1>3, OthersKeep DEF D!native_populate_database, D!ReadEntry, D!senderVars, D!serverVars
<1>4. ASSUME NEW e \in dir, D!hashmap_populate_database(e) PROVE DInv'
  BY <1>4, OthersKeep DEF D!hashmap_populate_database, D!ReadEntry, D!senderVars, D!serverVars
<1>5. ASSUME NEW e \in dir, D!load_requests(e) PROVE DInv'
  BY <1>5, OthersKeep DEF D!load_requests
<1>6. CASE D!windows_populate_database \/ D!Populated
  BY <1>6, OthersKeep DEF D!windows_populate_database, D!Populated, D!senderVars
<1>7. CASE D!Loaded \/ D!Generated \/ D!StartClients
  BY <1>7, OthersKeep DEF D!Loaded, D!Generated, D!StartClients, D!senderVars
<1>8. CASE D!Terminated
  BY <1>8, OthersKeep DEF D!Terminated, D!vars
<1>9. CASE \E r \in D!get_request(gen.array) : D!generate(r)
  BY <1>9, GenerateKeeps
<1>10. CASE D!client_main
  BY <1>10, LoadKeeps
<1> QED BY <1>1, <1>2, <1>3, <1>4, <1>5, <1>6, <1>7, <1>8, <1>9, <1>10 DEF D!Next

\* The array of a connection has its share of the requests.
LEMMA Share ==
  ASSUME D!SizesFit, NEW n \in Nat, NEW c \in 0 .. Ids - 1, NEW i \in 0 .. Requests, Count(n, c, i)
  PROVE  n <= Requests \div Ids /\ (i = Requests => n = Requests \div Ids)
<1>0. Ids \in Nat \ {0} /\ Requests \in Nat /\ Requests % Ids = 0
  BY DEF D!SizesFit
<1>1. PICK m \in Nat : m = Requests \div Ids /\ Requests = m * Ids
  BY <1>0
<1>2. PICK e \in 1 .. Ids : e = First(c)
  BY <1>0 DEF First
<1>3. n * Ids + e > i /\ n * Ids + e - Ids <= i /\ n * Ids \in Nat /\ m * Ids \in Nat
  BY <1>0, <1>2 DEF Count, Slot
<1>4. ASSUME n > m PROVE FALSE
  <2>1. (n - m - 1) * Ids >= 0 /\ (n - m - 1) * Ids = n * Ids - m * Ids - Ids
    BY <1>0, <1>4
  <2> QED BY <1>0, <1>1, <1>3, <2>1
<1>5. ASSUME n < m, i = Requests PROVE FALSE
  <2>1. (m - n - 1) * Ids >= 0 /\ (m - n - 1) * Ids = m * Ids - n * Ids - Ids
    BY <1>0, <1>5
  <2> QED BY <1>0, <1>1, <1>3, <1>5, <2>1
<1> QED BY <1>1, <1>4, <1>5

\* The invariant says what the client's arrays hold.
LEMMA ArraysRight ==
  ASSUME D!SizesFit, DInv
  PROVE  D!RequestsInOrder
<1>0. Connections = Ids /\ Ids \in Nat \ {0} /\ Requests \in Nat
  BY DEF D!SizesFit
<1>1. GenType /\ Generating /\ Filed /\ LoadType /\ Loading /\ Progress
  BY DEF DInv
<1>2. ASSUME NEW c \in 0 .. Ids - 1
      PROVE  /\ Len(loader.arr[c]) <= Requests \div Ids
             /\ \A k \in DOMAIN loader.arr[c] :
                  /\ \A u \in DOMAIN loader.arr[c][k] : loader.arr[c][k][u] = <<loader.arr[c][k][1][1], u - 1>>
                  /\ gen.made[loader.arr[c][k][1][1]].id = c /\ gen.made[loader.arr[c][k][1][1]].ctr = k - 1
             /\ prog = "generator" /\ status = "done" => Len(loader.arr[c]) = Requests \div Ids
  <2>1. PICK n \in 0 .. Requests : n = loader.read /\ n <= gen.i
    BY <1>0, <1>1 DEF LoadType, GenType
  <2>2. PICK a \in Seq({Record(j) : j \in Nat}) : a = loader.arr[c]
    BY <1>1 DEF LoadType
  <2>3. Len(a) \in Nat /\ DOMAIN a = 1 .. Len(a)
    BY <2>2, LenProperties
  <2>4. Count(Len(a), c, n) /\ \A k \in 1 .. Len(a) : a[k] = Record(Slot(k - 1, c))
    BY <1>1, <2>1, <2>2 DEF Loading
  <2>5. Len(a) <= Requests \div Ids /\ (n = Requests => Len(a) = Requests \div Ids)
    BY <2>3, <2>4, Share
  <2>6. ASSUME NEW k \in 1 .. Len(a)
        PROVE  /\ \A u \in DOMAIN a[k] : a[k][u] = <<a[k][1][1], u - 1>>
               /\ gen.made[a[k][1][1]].id = c /\ gen.made[a[k][1][1]].ctr = k - 1
    <3>0. k - 1 \in Nat
      BY <2>3
    <3>h. PICK h \in Nat : h = k - 1
      BY <3>0
    <3>s. Slot(h, c) \in Nat \ {0} /\ Slot(h, c) = h * Ids + First(c)
      BY SlotNat
    <3>1. PICK j \in Nat : j = Slot(h, c) /\ j > 0
      BY <3>s
    <3>2. j <= n
      <4>1. Slot(Len(a), c) - Ids <= n
        BY <2>4 DEF Count
      <4>2. Slot(Len(a), c) = Len(a) * Ids + First(c) /\ First(c) \in 1 .. Ids
        BY <2>3, SlotNat
      <4>3. PICK e \in 1 .. Ids : e = First(c)
        BY <4>2
      <4>l. PICK l \in Nat : l = Len(a)
        BY <2>3
      <4>k. PICK k1 \in 1 .. l : k1 = k
        BY <4>l
      <4>4. h < l
        BY <3>h, <4>k
      <4>5. (l - h - 1) * Ids >= 0 /\ (l - h - 1) * Ids = l * Ids - h * Ids - Ids
        BY <1>0, <4>4
      <4>6. PICK x \in Nat, y \in Nat : x = l * Ids /\ y = h * Ids
        BY <1>0
      <4>7. y + Ids <= x
        BY <1>0, <4>5, <4>6
      <4>8. x + e - Ids <= n
        <5>1. Slot(Len(a), c) = x + e
          BY <4>2, <4>3, <4>6, <4>l
        <5> QED BY <1>0, <4>1, <5>1
      <4>9. j = y + e
        BY <3>1, <3>s, <4>3, <4>6
      <4> QED BY <1>0, <2>1, <4>7, <4>8, <4>9
    <3>3. a[k] = [u \in 1 .. HistSize + 2 |-> <<j, u - 1>>]
      BY <2>4, <3>1, <3>h DEF Record
    <3>4. 1 \in 1 .. HistSize + 2
      BY DEF D!SizesFit
    <3>5. a[k][1] = <<j, 0>> /\ a[k][1][1] = j
      BY <3>3, <3>4
    <3>6. j \in 1 .. gen.i
      BY <1>1, <2>1, <3>1, <3>2 DEF GenType
    <3>7. gen.made[j].id \in 0 .. Ids - 1 /\ gen.made[j].ctr \in Nat /\ j = Slot(gen.made[j].ctr, gen.made[j].id)
      BY <1>1, <3>6 DEF Generating
    <3>8. PICK d \in 0 .. Ids - 1, m \in Nat : d = gen.made[j].id /\ m = gen.made[j].ctr
      BY <3>7
    <3>9. Slot(h, c) = Slot(m, d)
      BY <3>1, <3>7, <3>8
    <3>10. h = m /\ c = d
      BY <3>9, SlotUnique
    <3> QED BY <3>3, <3>5, <3>8, <3>10, <3>h
  <2>7. prog = "generator" /\ status = "done" => n = Requests
    BY <1>1, <2>1 DEF Progress
  <2> QED BY <2>2, <2>3, <2>5, <2>6, <2>7
<1> QED BY <1>0, <1>2 DEF D!RequestsInOrder

\* The arrays of the client hold whole requests, each of its own connection and in the order
\* of that connection's counter, and are exactly full when the connections start: for any
\* number of connections and requests, any sizes of a histogram and of a write, and whatever
\* an earlier run of the generator left in the file.
THEOREM DataInOrder == D!SizesFit => (D!Spec => []D!RequestsInOrder)
<1> SUFFICES ASSUME D!SizesFit PROVE D!Spec => []D!RequestsInOrder
  OBVIOUS
<1>1. D!Init => DInv
  BY DataInit
<1>2. DInv /\ [D!Next]_(D!vars) => DInv'
  BY DataStep
<1>3. DInv => D!RequestsInOrder
  BY ArraysRight
<1> QED BY <1>1, <1>2, <1>3, PTL DEF D!Spec

===============================================================================
