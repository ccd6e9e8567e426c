------------------------- MODULE ParameterServerProofs -------------------------
(***************************************************************************)
(* The parameter server for every size of the table and of the buffer, any *)
(* number of rounds and every block of keys: the handshake keeps the       *)
(* buffer to one thread, and every key sent is counted once and in order.  *)
(***************************************************************************)
EXTENDS ParameterServer, FiniteSetTheorems, SequenceTheorems, TLAPS

\* Every non-empty set of natural numbers has a least element.
LEMMA Least ==
  ASSUME NEW T, T \subseteq Nat, T # {}
  PROVE  \E x \in T : \A y \in T : x <= y
<1> DEFINE R == {ss \in Nat \X Nat : ss[1] < ss[2]}
<1>1. IsWellFoundedOn(R, Nat)
  BY NatLessThanWellFounded DEF OpToRel
<1>2. \A y, x \in T : <<y, x>> \in R <=> y < x
  OBVIOUS
<1> HIDE DEF R
<1>3. PICK x \in T : \A y \in T : ~(<<y, x>> \in R)
  BY <1>1, WFMin
<1>4. \A y \in T : x \in Nat /\ y \in Nat /\ ~(y < x)
  BY <1>2, <1>3
<1>5. \A y \in T : x <= y
  BY <1>4
<1> QED BY <1>5

Filled(n) == [b \in Buckets |-> IF b < n THEN [key |-> b, val |-> 0] ELSE Empty]

\* Adding the n-th key to a table of the first n puts it into its own bucket.
LEMMA AddNew ==
  ASSUME NEW n \in Buckets
  PROVE  add(Filled(n), n) = Filled(n + 1)
<1> DEFINE t == Filled(n)
           ok(i) == t[hash_key(n + i)].key \in {n, -1}
           i == CHOOSE m \in Buckets : ok(m) /\ \A j \in 0..m - 1 : ~ok(j)
<1>1. hash_key(n + 0) = n /\ 0 \in Buckets /\ n \in Nat
  BY ParameterAssumption DEF hash_key, Buckets
<1>2. ok(0)
  BY <1>1 DEF Filled, Empty
<1>3. i = 0
  <2> HIDE DEF ok
  <2>1. ok(0) /\ \A j \in 0..0 - 1 : ~ok(j)
    BY <1>2
  <2>2. ok(i) /\ i \in Buckets /\ \A j \in 0..i - 1 : ~ok(j)
    BY <1>1, <2>1
  <2> HIDE DEF i
  <2>3. i \in Nat
    BY <2>2, ParameterAssumption DEF Buckets
  <2>4. ASSUME i # 0 PROVE FALSE
    <3>1. 0 \in 0..i - 1
      BY <2>3, <2>4
    <3> QED BY <2>1, <2>2, <3>1
  <2> QED BY <2>4
<1>4. add(t, n) = [t EXCEPT ![hash_key(n + i)] = [key |-> n, val |-> 0]]
  BY DEF add
<1>5. [t EXCEPT ![n] = [key |-> n, val |-> 0]] = Filled(n + 1)
  <2> DEFINE u == [t EXCEPT ![n] = [key |-> n, val |-> 0]]
             v == Filled(n + 1)
  <2>1. \A b \in Buckets : b \in Nat
    BY DEF Buckets
  <2>2. u = [b \in Buckets |-> IF b = n THEN [key |-> n, val |-> 0] ELSE t[b]]
    BY DEF Filled
  <2>3. \A b \in Buckets : u[b] = v[b]
    <3> SUFFICES ASSUME NEW b \in Buckets PROVE u[b] = v[b]
      OBVIOUS
    <3>1. v[b] = IF b < n + 1 THEN [key |-> b, val |-> 0] ELSE Empty
      BY DEF Filled
    <3>2. t[b] = IF b < n THEN [key |-> b, val |-> 0] ELSE Empty
      BY DEF Filled
    <3>3. u[b] = IF b = n THEN [key |-> n, val |-> 0] ELSE t[b]
      BY <2>2
    <3> HIDE DEF u, v, t
    <3>4. b \in Nat /\ n \in Nat
      BY <1>1, <2>1
    <3>5. CASE b = n
      BY <3>1, <3>3, <3>4, <3>5
    <3>6. CASE b # n
      BY <3>1, <3>2, <3>3, <3>4, <3>6
    <3> QED BY <3>5, <3>6
  <2>4. v = [b \in Buckets |-> v[b]]
    BY DEF Filled
  <2>5. u = [b \in Buckets |-> u[b]]
    BY <2>2
  <2>6. u = v
    <3> HIDE DEF u, v
    <3> QED BY <2>3, <2>4, <2>5
  <2> QED BY <2>6
<1> QED BY <1>1, <1>3, <1>4, <1>5

\* The loop of the SUVM server's init leaves key b in bucket b: the least n at which
\* the table differs from Filled(n) would contradict AddNew.
LEMMA TableFilled == InitTable[HashMapSize] = SuvmTable
<1> DEFINE G == [n \in 0..HashMapSize |-> Filled(n)]
           F(f) == [n \in 0..HashMapSize |-> IF n = 0 THEN [b \in Buckets |-> Empty] ELSE add(f[n - 1], n - 1)]
<1>1. \A n \in 1..HashMapSize : n - 1 \in Buckets /\ n - 1 \in 0..HashMapSize /\ Filled(n) = add(G[n - 1], n - 1)
  <2> SUFFICES ASSUME NEW n \in 1..HashMapSize
               PROVE  n - 1 \in Buckets /\ n - 1 \in 0..HashMapSize /\ Filled(n) = add(G[n - 1], n - 1)
    OBVIOUS
  <2>1. n - 1 \in Buckets /\ n - 1 \in 0..HashMapSize /\ (n - 1) + 1 = n
    BY ParameterAssumption DEF Buckets
  <2> QED BY <2>1, AddNew
<1>2. Filled(0) = [b \in Buckets |-> Empty]
  BY ParameterAssumption DEF Filled, Buckets
<1>3. G = F(G)
  <2> HIDE DEF Filled
  <2>1. \A n \in 0..HashMapSize : G[n] = F(G)[n]
    BY <1>1, <1>2, ParameterAssumption
  <2> QED BY <2>1
<1>4. InitTable = F(InitTable)
  <2> HIDE DEF G
  <2>1. \E f : f = F(f)
    BY <1>3
  <2> QED BY <2>1 DEF InitTable
<1> DEFINE Bad == {n \in 0..HashMapSize : InitTable[n] # Filled(n)}
<1>5. Bad = {}
  <2> SUFFICES ASSUME Bad # {} PROVE FALSE
    OBVIOUS
  <2>1. PICK m \in Bad : \A y \in Bad : m <= y
    <3>1. Bad \subseteq Nat
      BY ParameterAssumption
    <3> HIDE DEF Bad
    <3> QED BY <3>1, Least
  <2>2. m # 0
    BY <1>2, <1>4
  <2>3. InitTable[m - 1] = Filled(m - 1)
    BY <2>1, <2>2, ParameterAssumption
  <2>4. InitTable[m] = add(InitTable[m - 1], m - 1)
    BY <1>4, <2>2, ParameterAssumption
  <2>5. m - 1 \in Buckets /\ (m - 1) + 1 = m
    BY <2>2, ParameterAssumption DEF Buckets
  <2> QED BY <2>3, <2>4, <2>5, AddNew
<1>6. Filled(HashMapSize) = SuvmTable
  BY ParameterAssumption DEF Filled, SuvmTable, Buckets
<1> QED BY <1>5, <1>6, ParameterAssumption

-----------------------------------------------------------------------------
Running == {"ask", "raise", "spin", "read", "use"}
Keys    == 0..cacheSize - 1

\* TypeOK, the types of the keys on the wire and of the history, the stages the
\* two programs do not share and the rounds that are left inside a round.
PType ==
  /\ TypeOK
  /\ wire \in Seq(Keys) /\ sent \in Seq(Keys) /\ done \in Seq(Keys)
  /\ mpc = "lib" => mode.suvm
  /\ mpc \in {"raise", "spin", "read", "use"} => round < Rounds

\* Where the request is: nowhere, about to be raised, raised, being served, or
\* served.  The buffer is complete when the main thread leaves the spin.
Idle   == start = 0 /\ tpc # "serve"
Raised == start \in {1, 2} /\ finish = 1 /\ tpc = "poll"
Served == start = 0 /\ finish = 1 /\ tpc = "serve"
Ended  == start = 0 /\ finish = 0 /\ tpc = "poll" /\ Len(buf) = BufKeys
HandInv ==
  /\ mpc # "spin" => Idle
  /\ mpc = "raise" => finish = 1 /\ tpc = "poll"
  /\ mpc = "spin" => Raised \/ Served \/ Ended
  /\ mpc \in Running => tpc # "off"
  /\ mpc = "use" => Len(buf) = BufKeys

\* The keys of the block: looked up, in the buffer, on the wire.
BlockInv ==
  /\ mpc \in {"accept", "launch", "lib", "init", "answer"} =>
       done = <<>> /\ buf = <<>> /\ index = 1
  /\ (mpc = "accept" /\ cpc = "wait") => wire = sent
  /\ mpc \in {"launch", "lib", "init", "answer"} => wire = sent
  /\ mpc = "ask" => index > Len(buf) /\ done \o wire = sent
  /\ mpc \in {"raise", "spin", "read"} => index = 1 /\ (done \o buf) \o wire = sent
  /\ mpc = "use" => (done \o SubSeq(buf, index, Len(buf))) \o wire = sent

\* While there are rounds every key has one bucket, its own.
TableInv ==
  /\ mpc \in Running => \A b \in Buckets : table[b].key = b
  /\ \A b \in Buckets : table[b].val = Occurrences(done, table[b].key)

PInv == PType /\ HandInv /\ BlockInv /\ TableInv

-----------------------------------------------------------------------------
\* The hash map is filled by both programs with the same table; the server with
\* SUVM makes none outside the enclave.
Fill ==
  \/ InitWith(SuvmTable) /\ ~(mode.suvm /\ mode.reg)
  \/ InitWith(table) /\ mode.suvm /\ mode.reg

\* The steps of the two programs, without the conditions that tell them apart.
LEMMA StepCases ==
  ASSUME Next
  PROVE  \/ Accept \/ Launch \/ Fill \/ AskRead \/ AskWait \/ Raise \/ Spin \/ Read
         \/ Counting \/ ReadFails \/ Lookup \/ EndRound \/ Answer \/ Restart \/ Send \/ Receive
<1>1. CASE rcall_init_hashmap \/ ecall_init_hashmap \/ suvm_ecall_init_hashmap
  BY <1>1, TableFilled
     DEF Fill, rcall_init_hashmap, ecall_init_hashmap, suvm_ecall_init_hashmap
<1>2. CASE rcall_test_llc_internal \/ ecall_test_llc_internal \/ suvm_test_llc_internal
  BY <1>2 DEF rcall_test_llc_internal, ecall_test_llc_internal, suvm_test_llc_internal, Round
<1>3. CASE server_process \/ suvm_server_process
  BY <1>3 DEF server_process, suvm_server_process
<1>4. CASE ocall_llc_test \/ suvm_ocall_llc_test
  BY <1>4 DEF ocall_llc_test, suvm_ocall_llc_test
<1>5. CASE ThreadStep
  BY <1>5 DEF ThreadStep, sgx_counting_thread, suvm_sgx_counting_thread
<1> QED BY <1>1, <1>2, <1>3, <1>4, <1>5 DEF Next, MainStep

\* One more occurrence of the key that was looked up, no more of the others.
LEMMA OneMore ==
  ASSUME NEW S, NEW s \in Seq(S), NEW k \in S, NEW key
  PROVE  Occurrences(Append(s, k), key) = Occurrences(s, key) + (IF key = k THEN 1 ELSE 0)
<1> DEFINE A == {i \in DOMAIN s : s[i] = key}
           B == {i \in DOMAIN Append(s, k) : Append(s, k)[i] = key}
           n == Len(s) + 1
<1>1. DOMAIN s = 1..Len(s) /\ Len(s) \in Nat
  OBVIOUS
<1>2. DOMAIN Append(s, k) = 1..n /\ Append(s, k)[n] = k
      /\ \A i \in 1..Len(s) : Append(s, k)[i] = s[i]
  BY AppendProperties
<1>3. IsFiniteSet(A) /\ n \notin A
  <2>1. A \subseteq 1..Len(s) /\ n \notin A
    BY <1>1
  <2>2. IsFiniteSet(1..Len(s))
    BY <1>1, FS_Interval
  <2> QED BY <2>1, <2>2, FS_Subset
<1>4. B = IF key = k THEN A \cup {n} ELSE A
  BY <1>1, <1>2
<1>5. Occurrences(s, key) = Cardinality(A) /\ Occurrences(Append(s, k), key) = Cardinality(B)
  BY DEF Occurrences
<1> HIDE DEF A, B
<1>6. Cardinality(A) \in Nat
  BY <1>3, FS_CardinalityType
<1>7. CASE key = k
  <2>1. Cardinality(A \cup {n}) = Cardinality(A) + 1
    BY <1>3, FS_AddElement
  <2> QED BY <1>4, <1>5, <1>6, <1>7, <2>1
<1>8. CASE key # k
  BY <1>4, <1>5, <1>6, <1>8
<1> QED BY <1>7, <1>8

\* What get finds is a bucket that holds the key.
LEMMA GetFinds ==
  ASSUME NEW k \in Nat, NEW b \in Get(table, k)
  PROVE  b \in Buckets /\ table[b].key = k
<1>1. hash_key(k) \in Buckets
  BY ParameterAssumption DEF hash_key, Buckets
<1> QED BY <1>1 DEF Get, GetSuvm, GetDirect

\* A read moves keys from the wire to the end of the buffer, in order, and never
\* beyond the buffer's size.
LEMMA ReadMoves ==
  ASSUME PType, ReadSome
  PROVE  /\ buf' \in Seq(Keys) /\ wire' \in Seq(Keys)
         /\ Len(buf') <= BufKeys
         /\ buf' \o wire' = buf \o wire
<1> DEFINE K == Keys
<1>1. /\ buf \in Seq(K) /\ wire \in Seq(K) /\ Len(buf) \in Nat /\ Len(wire) \in Nat
      /\ Len(buf) <= BufKeys /\ BufKeys \in Nat
  BY ParameterAssumption DEF PType, TypeOK, Keys
<1> HIDE DEF K
<1>2. PICK n \in 1..Room : /\ n <= Len(wire)
                           /\ buf' = buf \o SubSeq(wire, 1, n)
                           /\ wire' = SubSeq(wire, n + 1, Len(wire))
  BY DEF ReadSome
<1> DEFINE x == SubSeq(wire, 1, n)
           y == SubSeq(wire, n + 1, Len(wire))
<1>3. n \in Nat /\ n >= 1 /\ n <= BufKeys - Len(buf)
  BY <1>1, <1>2 DEF Room
<1>4. \A i \in 1..Len(wire) : wire[i] \in K
  BY <1>1
<1>5. x \in Seq(K) /\ Len(x) = n
  <2>1. \A i \in 1..n : wire[i] \in K
    BY <1>1, <1>2, <1>3, <1>4
  <2> QED BY <1>3, <2>1, SubSeqProperties
<1>6. y \in Seq(K)
  <2>1. \A i \in n + 1..Len(wire) : wire[i] \in K
    BY <1>1, <1>3, <1>4
  <2> QED BY <1>1, <1>3, <2>1, SubSeqProperties
<1>7. x \o y = wire
  <2>1. 1 \in 1..Len(wire) + 1 /\ n \in 1 - 1..Len(wire) /\ Len(wire) \in n..Len(wire)
    BY <1>1, <1>2, <1>3
  <2>2. x \o y = SubSeq(wire, 1, Len(wire))
    BY <1>1, <2>1, ConcatAdjacentSubSeq
  <2> QED BY <1>1, <2>2, SubSeqFull
<1> HIDE DEF x, y
<1>8. buf' = buf \o x /\ wire' = y
  BY <1>2 DEF x, y
<1>9. (buf \o x) \o y = buf \o (x \o y)
  BY <1>1, <1>5, <1>6, ConcatAssociative
<1>10. buf \o x \in Seq(K) /\ Len(buf \o x) = Len(buf) + Len(x)
  BY <1>1, <1>5, ConcatProperties
<1> QED BY <1>1, <1>3, <1>5, <1>6, <1>7, <1>8, <1>9, <1>10 DEF K

\* Looking up the next key takes it from the front of what is left of the buffer.
LEMMA LookupMoves ==
  ASSUME PType, NEW w, w \in Seq(Keys), index <= Len(buf)
  PROVE  /\ buf[index] \in Keys
         /\ Append(done, buf[index]) \in Seq(Keys)
         /\ (Append(done, buf[index]) \o SubSeq(buf, index + 1, Len(buf))) \o w
              = (done \o SubSeq(buf, index, Len(buf))) \o w
<1> DEFINE K == Keys
           k == buf[index]
           r == SubSeq(buf, index + 1, Len(buf))
<1>1. /\ buf \in Seq(K) /\ done \in Seq(K) /\ Len(buf) \in Nat
      /\ index \in 1..Len(buf) /\ Len(buf) \in index..Len(buf)
  BY ParameterAssumption DEF PType, TypeOK, Keys
<1> HIDE DEF K
<1>2. k \in K
  BY <1>1
<1>3. SubSeq(buf, index, Len(buf)) = <<k>> \o r
  BY <1>1, SubSeqRecursiveFirst
<1>4. r \in Seq(K)
  <2>1. \A i \in index + 1..Len(buf) : buf[i] \in K
    BY <1>1
  <2>2. index + 1 \in Int /\ Len(buf) \in Int
    BY <1>1
  <2> QED BY <2>1, <2>2, SubSeqProperties
<1> HIDE DEF k, r
<1>5. Append(done, k) = done \o <<k>> /\ Append(done, k) \in Seq(K) /\ <<k>> \in Seq(K)
  BY <1>1, <1>2, AppendIsConcat, AppendProperties
<1>6. (done \o <<k>>) \o r = done \o (<<k>> \o r)
  BY <1>1, <1>4, <1>5, ConcatAssociative
<1> QED BY <1>2, <1>3, <1>5, <1>6 DEF K, k, r

-----------------------------------------------------------------------------
\* The table of the SUVM server has the type of a table.
LEMMA SuvmTableType == SuvmTable \in [Buckets -> [key : -1..HashMapSize - 1, val : Nat]]
BY ParameterAssumption DEF SuvmTable, Buckets

\* So has an empty one.
LEMMA FreeTableType ==
  [b \in Buckets |-> Empty] \in [Buckets -> [key : -1..HashMapSize - 1, val : Nat]]
BY ParameterAssumption DEF Empty, Buckets

\* A bucket that is counted once more is a bucket.
LEMMA Counted ==
  ASSUME NEW S, NEW r \in [key : S, val : Nat]
  PROVE  [r EXCEPT !.val = @ + 1] \in [key : S, val : Nat]
OBVIOUS

\* Types, stages and rounds are preserved by every step.
LEMMA PTypeNext ==
  ASSUME PInv, [Next]_vars
  PROVE  PType'
<1> USE ParameterAssumption DEF PInv, PType, TypeOK, args, words, clientVars, Rounds, Keys
<1>1. CASE UNCHANGED vars
  BY <1>1 DEF vars
<1>2. CASE Accept
  BY <1>2 DEF Accept, After, SuvmMain, DirectMain
<1>3. CASE Launch
  BY <1>3 DEF Launch, After, SuvmMain, DirectMain
<1>4. CASE Fill
  BY <1>4, SuvmTableType DEF Fill, InitWith, After, SuvmMain, DirectMain
<1>5. CASE AskRead
  BY <1>5 DEF AskRead
<1>6. CASE AskWait
  BY <1>6 DEF AskWait, AskRpc
<1>7. CASE Raise
  BY <1>7 DEF Raise, Warmup
<1>8. CASE Spin
  BY <1>8 DEF Spin
<1>9. CASE Read
  <2>1. CASE ReadSome /\ UNCHANGED mpc
    BY <1>9, <2>1, ReadMoves DEF Read
  <2>2. CASE Len(buf) = BufKeys /\ mpc' = "use" /\ UNCHANGED <<buf, wire>>
    BY <1>9, <2>2 DEF Read
  <2> QED BY <1>9, <2>1, <2>2 DEF Read
<1>10. CASE Counting
  <2>1. CASE ReadSome /\ UNCHANGED <<words, tpc>>
    BY <1>10, <2>1, ReadMoves DEF Counting
  <2>2. CASE ~ReadSome
    BY <1>10, <2>2 DEF Counting
  <2>3. CASE UNCHANGED <<buf, wire>>
    BY <1>10, <2>3 DEF Counting
  <2> QED BY <1>10, <2>1, <2>2, <2>3 DEF Counting
<1>11. CASE Lookup
  <2>1. buf[index] \in Nat /\ done' \in Seq(Keys)
    <3> HIDE DEF Keys, PType, TypeOK
    <3>1. PType /\ index <= Len(buf) /\ done' = Append(done, buf[index]) /\ wire \in Seq(Keys)
      BY <1>11 DEF Lookup, PType
    <3>2. buf[index] \in Keys /\ done' \in Seq(Keys)
      BY <3>1, LookupMoves
    <3> QED BY <3>2 DEF Keys, PType, TypeOK
  <2>4. table' \in [Buckets -> [key : -1..HashMapSize - 1, val : Nat]]
    <3> DEFINE R == [key : -1..HashMapSize - 1, val : Nat]
    <3>1. CASE UNCHANGED table
      BY <3>1
    <3>2. CASE ~UNCHANGED table
      <4>1. PICK b \in Get(table, buf[index]) : table' = [table EXCEPT ![b].val = @ + 1]
        BY <1>11, <3>2 DEF Lookup
      <4>2. b \in Buckets
        BY <2>1, GetFinds
      <4>3. table \in [Buckets -> R] /\ table[b] \in R
        BY <4>2
      <4>4. [table[b] EXCEPT !.val = @ + 1] \in R
        BY <4>3, Counted
      <4> HIDE DEF R
      <4>5. table' \in [Buckets -> R]
        BY <4>1, <4>2, <4>3, <4>4
      <4> QED BY <4>5 DEF R
    <3> QED BY <3>1, <3>2
  <2>5. index + 1 \in 1..BufKeys + 1
    <3>1. buf \in Seq(0..cacheSize - 1) /\ index <= Len(buf) /\ Len(buf) <= BufKeys
      BY <1>11 DEF Lookup
    <3>2. Len(buf) \in Nat
      BY <3>1, LenProperties
    <3>3. index \in 1..BufKeys + 1 /\ BufKeys \in Nat
      OBVIOUS
    <3> QED BY ONLY <3>1, <3>2, <3>3
  <2> QED BY <1>11, <2>1, <2>4, <2>5 DEF Lookup
<1>12. CASE EndRound
  BY <1>12 DEF EndRound
<1>13. CASE Answer
  BY <1>13 DEF Answer
<1>14. CASE Restart
  BY <1>14, FreeTableType DEF Restart
<1>15. CASE Send
  <2>1. sent' \in [1..reqKeys -> 0..cacheSize - 1] /\ reqKeys \in Nat
    BY <1>15 DEF Send
  <2>2. sent' \in Seq(0..cacheSize - 1)
    BY <2>1, SeqDef
  <2> QED BY <1>15, <2>2 DEF Send
<1>16. CASE Receive
  BY <1>16 DEF Receive
<1>17. CASE ReadFails
  BY <1>17 DEF ReadFails
<1> QED BY StepCases, <1>1, <1>2, <1>3, <1>4, <1>5, <1>6, <1>7, <1>8, <1>9, <1>10,
           <1>11, <1>12, <1>13, <1>14, <1>15, <1>16, <1>17

\* The handshake.
LEMMA HandNext ==
  ASSUME PInv, [Next]_vars
  PROVE  HandInv'
<1> USE ParameterAssumption
    DEF PInv, PType, TypeOK, HandInv, Idle, Raised, Served, Ended, Running, args, words,
        clientVars
<1>1. CASE UNCHANGED vars
  BY <1>1 DEF vars
<1>2. CASE Accept
  BY <1>2 DEF Accept, After, SuvmMain, DirectMain, BlockInv
<1>3. CASE Launch
  BY <1>3 DEF Launch, After, SuvmMain, DirectMain
<1>4. CASE Fill
  BY <1>4 DEF Fill, InitWith, After, SuvmMain, DirectMain
<1>5. CASE AskRead
  BY <1>5 DEF AskRead
<1>6. CASE AskWait
  BY <1>6 DEF AskWait, AskRpc
<1>7. CASE Raise
  BY <1>7 DEF Raise, Warmup
<1>8. CASE Spin
  BY <1>8 DEF Spin
<1>9. CASE Read
  BY <1>9 DEF Read
<1>10. CASE Counting
  BY <1>10 DEF Counting
<1>11. CASE Lookup
  BY <1>11 DEF Lookup
<1>12. CASE EndRound
  BY <1>12 DEF EndRound
<1>13. CASE Answer
  BY <1>13 DEF Answer
<1>14. CASE Restart
  BY <1>14 DEF Restart
<1>15. CASE Send
  BY <1>15 DEF Send
<1>16. CASE Receive
  BY <1>16 DEF Receive
<1>17. CASE ReadFails
  <2>1. start = 0
    BY <1>17 DEF ReadFails
  <2> QED BY <1>17, <2>1 DEF ReadFails
<1> QED BY StepCases, <1>1, <1>2, <1>3, <1>4, <1>5, <1>6, <1>7, <1>8, <1>9, <1>10,
           <1>11, <1>12, <1>13, <1>14, <1>15, <1>16, <1>17

\* The keys keep their order on the way from the wire through the buffer to the
\* table, and none is lost or doubled.
LEMMA BlockNext ==
  ASSUME PInv, [Next]_vars
  PROVE  BlockInv'
<1> DEFINE K == Keys
<1>1. /\ buf \in Seq(K) /\ wire \in Seq(K) /\ done \in Seq(K) /\ sent \in Seq(K)
      /\ Len(buf) \in Nat /\ Len(buf) <= BufKeys /\ BufKeys \in Nat /\ index \in Nat
      /\ mpc \in {"accept", "launch", "lib", "init", "ask", "raise", "spin", "read", "use",
                  "answer", "exited", "failed"}
      /\ cpc \in {"connect", "wait"} /\ BlockInv /\ HandInv /\ PType
  BY ParameterAssumption DEF PInv, PType, TypeOK, Keys
<1> HIDE DEF K
<1>2. done \o <<>> = done /\ <<>> \o wire = wire
  BY <1>1, ConcatEmptySeq
<1>3. SubSeq(buf, 1, Len(buf)) = buf
  BY <1>1, SubSeqFull
<1>4. ASSUME ReadSome
      PROVE  (done \o buf') \o wire' = (done \o buf) \o wire
  <2>1. buf' \in Seq(K) /\ wire' \in Seq(K) /\ buf' \o wire' = buf \o wire
    BY <1>1, <1>4, ReadMoves DEF K
  <2>2. \A s, t, u \in Seq(K) : (s \o t) \o u = s \o (t \o u)
    BY ConcatAssociative
  <2>3. /\ (done \o buf') \o wire' = done \o (buf' \o wire')
        /\ (done \o buf) \o wire = done \o (buf \o wire)
    BY <1>1, <2>1, <2>2, ZenonT(60)
  <2> QED BY <2>1, <2>2, <2>3
<1> USE DEF BlockInv, args, words, clientVars
<1>5. CASE UNCHANGED vars
  BY <1>1, <1>5 DEF vars
<1>6. CASE Accept
  BY <1>1, <1>6 DEF Accept, After, SuvmMain, DirectMain
<1>7. CASE Launch
  BY <1>1, <1>7 DEF Launch, After, SuvmMain, DirectMain, PType
<1>8. CASE Fill
  <2>1. mpc' \in {"ask", "answer"} /\ UNCHANGED <<buf, index, wire, done, sent, cpc>>
    BY <1>8 DEF Fill, InitWith, After, SuvmMain, DirectMain
  <2>2. done = <<>> /\ buf = <<>> /\ index = 1 /\ wire = sent
    BY <1>1, <1>8 DEF Fill, InitWith
  <2>3. Len(buf) = 0
    BY <2>2
  <2> QED BY <1>2, <2>1, <2>2, <2>3
<1>9. CASE AskRead \/ AskWait
  BY <1>1, <1>2, <1>9 DEF AskRead, AskWait, AskRpc
<1>10. CASE Raise
  BY <1>1, <1>10 DEF Raise
<1>11. CASE Spin
  BY <1>1, <1>3, <1>11 DEF Spin
<1>12. CASE Read
  <2>1. CASE ReadSome /\ UNCHANGED mpc
    BY <1>1, <1>4, <1>12, <2>1 DEF Read
  <2>2. CASE mpc' = "use" /\ UNCHANGED <<buf, wire>>
    BY <1>1, <1>3, <1>12, <2>2 DEF Read
  <2> QED BY <1>12, <2>1, <2>2 DEF Read
<1>13. CASE Counting
  <2>1. CASE tpc = "serve" /\ ReadSome
    <3>1. mpc = "spin" /\ UNCHANGED <<mpc, index, done, sent, cpc>>
      BY <1>1, <1>13, <2>1 DEF Counting, HandInv, Idle
    <3> QED BY <1>1, <1>4, <2>1, <3>1
  <2>2. CASE UNCHANGED <<buf, wire>>
    BY <1>1, <1>13, <2>2 DEF Counting
  <2> QED BY <1>13, <2>1, <2>2 DEF Counting
<1>14. CASE Lookup
  <2>1. (done' \o SubSeq(buf, index', Len(buf))) \o wire = (done \o SubSeq(buf, index, Len(buf))) \o wire
    BY <1>1, <1>14, LookupMoves DEF Lookup, K
  <2> QED BY <1>1, <1>14, <2>1 DEF Lookup
<1>15. CASE EndRound
  <2>1. index > Len(buf)
    BY <1>1, <1>15 DEF EndRound
  <2>2. SubSeq(buf, index, Len(buf)) = <<>>
    BY <1>1, <2>1, SubSeqEmpty
  <2> QED BY <1>1, <1>2, <1>15, <2>1, <2>2 DEF EndRound
<1>16. CASE Answer
  BY <1>16 DEF Answer
<1>17. CASE Restart
  BY <1>17 DEF Restart
<1>18. CASE Send
  BY <1>1, <1>18 DEF Send
<1>19. CASE Receive
  BY <1>1, <1>19 DEF Receive
<1>20. CASE ReadFails
  BY <1>20 DEF ReadFails
<1> QED BY StepCases, <1>5, <1>6, <1>7, <1>8, <1>9, <1>10, <1>11, <1>12, <1>13, <1>14,
           <1>15, <1>16, <1>17, <1>18, <1>19, <1>20

\* No key occurs in the empty sequence.
LEMMA NoneYet == \A k : Occurrences(<<>>, k) = 0
<1>1. \A k : {i \in DOMAIN <<>> : <<>>[i] = k} = {}
  OBVIOUS
<1> QED BY <1>1, FS_EmptySet DEF Occurrences

\* Each value is the number of times its key was looked up: the bucket that is
\* counted is the only one that holds the key.
LEMMA TableNext ==
  ASSUME PInv, [Next]_vars
  PROVE  TableInv'
<1>1. PType /\ HandInv /\ BlockInv /\ TableInv
  BY DEF PInv
<1>2. CASE UNCHANGED <<table, done>> /\ (mpc' \in Running => mpc \in Running)
  BY <1>1, <1>2 DEF TableInv
<1>3. CASE Fill
  <2>1. done = <<>> /\ done' = <<>>
    BY <1>1, <1>3 DEF Fill, InitWith, BlockInv
  <2>2. CASE InitWith(SuvmTable)
    BY <2>1, <2>2, NoneYet DEF InitWith, TableInv, SuvmTable
  <2>3. CASE InitWith(table) /\ mode.suvm /\ mode.reg
    <3>1. mpc' = "answer"
      BY <2>3 DEF InitWith, After, SuvmMain
    <3> QED BY <1>1, <2>1, <2>3, <3>1 DEF InitWith, TableInv, Running
  <2> QED BY <1>3, <2>2, <2>3 DEF Fill
<1>4. CASE Lookup
  <2> DEFINE k == buf[index]
  <2>1. k \in Nat /\ k \in Keys /\ done \in Seq(Keys) /\ done' = Append(done, k)
    <3>1. k \in Keys /\ done \in Seq(Keys) /\ done' = Append(done, k)
      BY <1>1, <1>4, LookupMoves DEF Lookup, PType
    <3> QED BY <3>1, <1>1, ParameterAssumption DEF Keys, PType, TypeOK
  <2>4. mpc = "use" /\ mpc' = "use" /\ \A c \in Buckets : table[c].key = c
    BY <1>1, <1>4 DEF Lookup, TableInv, Running
  <2>5. table \in [Buckets -> [key : -1..HashMapSize - 1, val : Nat]]
    BY <1>1 DEF PType, TypeOK
  <2>6. \A c \in Buckets : /\ table'[c].key = c
                           /\ table'[c].val = table[c].val + (IF c = k THEN 1 ELSE 0)
    <3>1. CASE StrayHit(k) /\ UNCHANGED table
      BY <2>4, <2>5, <3>1 DEF StrayHit
    <3>2. CASE ~(StrayHit(k) /\ UNCHANGED table)
      <4>1. PICK b \in Get(table, k) : table' = [table EXCEPT ![b].val = @ + 1]
        BY <1>4, <3>2 DEF Lookup
      <4>2. b \in Buckets /\ table[b].key = k
        BY <2>1, GetFinds
      <4> HIDE DEF k
      <4> QED BY <2>4, <2>5, <4>1, <4>2
    <3> QED BY <3>1, <3>2
  <2> HIDE DEF k
  <2>7. \A c \in Buckets : Occurrences(done', c) = Occurrences(done, c) + (IF c = k THEN 1 ELSE 0)
    BY <2>1, OneMore
  <2>8. \A c \in Buckets : table[c].val = Occurrences(done, c)
    BY <1>1, <2>4 DEF TableInv
  <2> QED BY <2>4, <2>6, <2>7, <2>8 DEF TableInv
<1>5. CASE Restart
  <2>1. \A b \in Buckets : table'[b] = Empty
    BY <1>5 DEF Restart
  <2> QED BY <1>5, <2>1, NoneYet DEF Restart, TableInv, Empty, Running
<1>6. CASE UNCHANGED vars \/ Accept \/ Launch
  BY <1>1, <1>2, <1>6 DEF vars, Accept, Launch, After, SuvmMain, DirectMain, Running, PType
<1>7. CASE AskRead \/ AskWait \/ Raise \/ Spin \/ Read \/ EndRound
  BY <1>2, <1>7 DEF AskRead, AskWait, AskRpc, Raise, Spin, Read, EndRound, Running
<1>8. CASE Counting \/ ReadFails \/ Answer \/ Send \/ Receive
  BY <1>2, <1>8 DEF Counting, ReadFails, Answer, Send, Receive, Running, clientVars
<1> QED BY StepCases, <1>3, <1>4, <1>5, <1>6, <1>7, <1>8

\* The invariant holds when the two programs start.
LEMMA PInvInit == Init => PInv
<1> SUFFICES ASSUME Init PROVE PInv
  OBVIOUS
<1>1. PType
  <2>1. TypeOK
    <3>1. table \in [Buckets -> [key : -1..HashMapSize - 1, val : Nat]]
      BY FreeTableType DEF Init
    <3>2. runs \in 1..MaxRuns /\ round \in 0..Rounds /\ index \in 1..BufKeys + 1
      BY ParameterAssumption DEF Init, Rounds
    <3>3. buf \in Seq(0..cacheSize - 1) /\ Len(buf) <= BufKeys
      BY ParameterAssumption DEF Init
    <3>4. start \in 0..2 /\ finish \in 0..1
      BY DEF Init
    <3>5. got \in BOOLEAN
      BY DEF Init
    <3>6. mode \in Modes /\ reqKeys \in ReqKeys /\ cacheSize \in CacheSizes
      BY DEF Init
    <3> QED BY <3>1, <3>2, <3>3, <3>4, <3>5, <3>6 DEF Init, TypeOK
  <2> QED BY <2>1 DEF Init, PType
<1>2. HandInv /\ BlockInv
  BY DEF Init, HandInv, BlockInv, Idle, Running
<1>3. TableInv
  BY NoneYet DEF Init, TableInv, Empty, Running
<1> QED BY <1>1, <1>2, <1>3 DEF PInv

\* The invariant holds always.
LEMMA PInvariance == Spec => []PInv
<1>1. PInv /\ [Next]_vars => PInv'
  BY PTypeNext, HandNext, BlockNext, TableNext DEF PInv
<1> QED BY <1>1, PInvInit, PTL DEF Spec

\* The server's state keeps its types, and no read overruns request_buf.
THEOREM ServerTyped == Spec => []TypeOK
BY PInvariance, PTL DEF PInv, PType

\* request_buf belongs to one thread at a time: while sgx_counting_thread may
\* write it, the main thread spins on finish.
THEOREM BufferHandedOver == Spec => []BufferExclusive
<1>1. PInv => BufferExclusive
  BY DEF PInv, HandInv, Idle, BufferExclusive
<1> QED BY <1>1, PInvariance, PTL

\* Every key of the client's block is counted once and in order, whatever the
\* sizes of the reads, of the buffer, of the block and of the table.
THEOREM KeysCounted == Spec => []EveryKeyCounted
<1>1. PInv => EveryKeyCounted
  <2> SUFFICES ASSUME PInv PROVE EveryKeyCounted
    OBVIOUS
  <2> DEFINE rest == SubSeq(buf, index, Len(buf))
  <2>1. /\ buf \in Seq(Keys) /\ wire \in Seq(Keys) /\ done \in Seq(Keys)
        /\ Len(buf) \in Nat /\ index \in Nat
        /\ mpc \in {"accept", "launch", "lib", "init", "ask", "raise", "spin", "read", "use",
                    "answer", "exited", "failed"}
    BY ParameterAssumption DEF PInv, PType, TypeOK, Keys
  <2>2. done \o <<>> = done /\ <<>> \o wire = wire /\ SubSeq(buf, 1, Len(buf)) = buf
    BY <2>1, ConcatEmptySeq, SubSeqFull
  <2>3. index > Len(buf) => rest = <<>>
    BY <2>1, SubSeqEmpty
  <2>4. CASE mpc \in {"launch", "lib", "init", "answer"}
    <3>1. done = <<>> /\ buf = <<>> /\ index = 1 /\ wire = sent
      BY <2>4 DEF PInv, BlockInv
    <3>2. Len(buf) = 0
      BY <3>1
    <3> QED BY <2>2, <2>3, <3>1, <3>2 DEF PInv, TableInv, EveryKeyCounted
  <2>5. CASE mpc = "ask"
    BY <2>2, <2>3, <2>5 DEF PInv, BlockInv, TableInv, EveryKeyCounted
  <2>6. CASE mpc \in {"raise", "spin", "read"}
    BY <2>2, <2>6 DEF PInv, BlockInv, TableInv, EveryKeyCounted
  <2>7. CASE mpc \in {"use", "accept", "exited", "failed"}
    BY <2>7 DEF PInv, BlockInv, TableInv, EveryKeyCounted
  <2> QED BY <2>1, <2>4, <2>5, <2>6, <2>7
<1> QED BY <1>1, PInvariance, PTL

================================================================================
