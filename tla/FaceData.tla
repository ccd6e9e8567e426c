------------------------------ MODULE FaceData ------------------------------
(***************************************************************************)
(* What the face verification programs do with the directory of pictures   *)
(* before a request is sent: a server (in the enclave, native, or on       *)
(* Windows) reads it into its table of histograms; the generator reads it, *)
(* makes the file of encrypted requests, and the client loads that file    *)
(* into one array for each of its connections.  A behaviour runs one of    *)
(* the programs ("generator": the generator and then the client).          *)
(* "hashmap" is populate_database of the generator's source, with its      *)
(* growing table, which the generator's main does not call.                *)
(*                                                                         *)
(* A file is [name, seq]: the part of its name before "_", and which of    *)
(* the pictures of that name it is.  readdir returns the entries in any    *)
(* order.  The djb2 hash of a name is any number (world.hash).             *)
(***************************************************************************)
EXTENDS Lbp

CONSTANTS
  Files, Subdir,      \* the entries of images_raw
  Number,             \* atoi of each name
  Dup,                \* DUP_NUM
  Buckets,            \* for 1024: buckets per duplicate, and already_added's size
  Pictures, Hashes,   \* the contents files may have, a sequence, and hashes of names
  Empty,              \* a bucket with no value
  Ids,                \* for 100: temp_id is taken modulo this
  Clients, Requests,  \* NUM_OF_CLIENTS of the client, NUM_OF_REQUESTS
  HistSize, Chunk     \* for 237568 and 16384: bytes of a histogram and of a write

Names == {f.name : f \in Files}

(* A histogram is not a whole number of chunks, and the generator and the   *)
(* client agree on the clients, which get equally many requests.           *)
SizesFit ==
  /\ HistSize \in Nat \ {0} /\ Chunk \in Nat \ {0} /\ HistSize % Chunk # 0
  /\ Clients \in Nat \ {0} /\ Ids = Clients /\ Requests \in Nat /\ Requests % Clients = 0

(* The names of the pictures are distinct numbers, and every person fits    *)
(* into the table and below twice the size of already_added.               *)
ASSUME DataAssumption ==
  /\ \A m, n \in Names : Number[m] = Number[n] => m = n
  /\ Cardinality(Names) <= Buckets
  /\ \A n \in Names : Number[n] \in 0..(2 * Buckets * Dup - 1)
  /\ SizesFit

VARIABLES
  prog,     \* which program runs
  world,    \* the contents of the files and the hashes of the names
  dir,      \* entries readdir has not returned yet
  status,   \* "reading", "sending", "loading", "done", "aborted", "crashed"
  db,       \* the table of the server
  added,    \* already_added: its size, the entries set, and those set from the start
  gen,      \* the generator: req_array, i, temp_id, the counters, what it encrypted
  file,     \* encrypted_dataset.txt, unit by unit
  client    \* the client: position in the file, its arrays
vars == <<prog, world, dir, status, db, added, gen, file, client>>
serverVars == <<db, added>>
senderVars == <<gen, file, client>>

----------------------------------------------------------------------------
(* The table of a server: t.n buckets from 0, linear probing. *)
hash_function(key, n) == (33 * world.hash[key[1]] + 48 + key[2]) % n
At(t, key, k) == t.id[(hash_function(key, t.n) + k) % t.n]
Holds(t, key, k) == At(t, key, k) # Empty /\ At(t, key, k).key = key

(* The buckets a lookup gets to, as distances from the first, and the value it finds. *)
Visited(t, key) == {k \in 0..(t.n - 1) : \A j \in 0..(k - 1) : At(t, key, j) # Empty}
hash_get(t, key) ==
  LET hits == {k \in Visited(t, key) : Holds(t, key, k)}
  IN IF hits = {} THEN Empty ELSE At(t, key, Min(hits)).value

(* The bucket where a probe for an empty bucket or the key ends; with none  *)
(* it does not end.                                                        *)
Stops(t, key) == {k \in 0..(t.n - 1) : At(t, key, k) = Empty \/ Holds(t, key, k)}
Fill(t, key, k, val) ==
  [t EXCEPT !.id[(hash_function(key, t.n) + k) % t.n] = [key |-> key, value |-> val],
            !.nentries = @ + 1]

Insert(t, key, val) ==
  IF Stops(t, key) = {} THEN [t EXCEPT !.hung = TRUE] ELSE Fill(t, key, Min(Stops(t, key)), val)

NewTable(n) == [id |-> [b \in 0..(n - 1) |-> Empty], n |-> n, nentries |-> 0, hung |-> FALSE]

(* Mutant: room for the names and not for their duplicates. *)
Bughash_init == NewTable(Buckets)

hash_init == NewTable(Buckets * Dup)

(* hash_put with override 0: the first value of a key stays.  In the enclave *)
(* the histogram is copied to secure memory through a spointer.             *)
hash_put(t, key, val) ==
  IF hash_get(t, key) # Empty THEN t ELSE Insert(t, key, [in |-> "suvm", hist |-> val])
native_hash_put(t, key, val) ==
  IF hash_get(t, key) # Empty THEN t ELSE Insert(t, key, [in |-> "heap", hist |-> val])

(* One picture is stored under DUP_NUM keys. *)
Duplicates == [x \in 1..Dup |-> x - 1]

----------------------------------------------------------------------------
(* The generator's table: it doubles when it is half full, and its values   *)
(* lie one after the other in a buffer of t.cap bytes, which doubles too.  *)
HashmapBuckets == 2            \* for 128
HistBytes == 3                 \* of a value, against a buffer that starts with 1
hashmap_init == [cap |-> 1, used |-> 0] @@ NewTable(HashmapBuckets)

(* Mutant: the table is doubled and the entries keep their buckets. *)
Bughashmap_rehash(t) ==
  IF t.nentries * 2 < t.n THEN t
  ELSE [t EXCEPT !.n = 2 * t.n, !.id = [b \in 0..(2 * t.n - 1) |-> IF b < t.n THEN t.id[b] ELSE Empty]]

Reinsert(t, new, b) ==
  IF t.id[b] = Empty THEN new ELSE Insert(new, t.id[b].key, t.id[b].value)
hashmap_rehash(t) ==
  IF t.nentries * 2 < t.n THEN t
  ELSE LET new == FoldLeft(LAMBDA u, b : Reinsert(t, u, b), NewTable(2 * t.n), [k \in 1..t.n |-> k - 1])
       IN [t EXCEPT !.id = new.id, !.n = new.n, !.hung = new.hung]

Doubled(cap, need) == Min({c \in {cap * 2^k : k \in 0..need} : c >= need})
hashmap_put(t, key, val) ==
  IF hash_get(t, key) # Empty THEN t
  ELSE LET u == IF (t.nentries + 1) * 2 > t.n THEN hashmap_rehash(t) ELSE t
       IN [Insert(u, key, [in |-> "buffer", hist |-> val])
             EXCEPT !.cap = Doubled(@, t.used + HistBytes), !.used = @ + HistBytes]

----------------------------------------------------------------------------
(* populate_database, one entry of the directory.                           *)

(* already_added is doubled once, whatever the number is. *)
Grown(a, n) == IF n >= a.size THEN [a EXCEPT !.size = 2 * @] ELSE a

EnclaveHists == [p \in DOMAIN Pictures |-> enclave_histogram(Pictures[p])]
NativeHists == [p \in DOMAIN Pictures |-> native_histogram(Pictures[p])]
GeneratorHists == [p \in DOMAIN Pictures |-> generator_histogram(Pictures[p])]

ReadEntry(p, e, Put(_, _)) ==
  /\ prog = p /\ status = "reading" /\ e \in dir
  /\ dir' = dir \ {e}
  /\ IF e = Subdir THEN UNCHANGED <<serverVars, status>>
     ELSE LET n == Number[e.name]
              a == Grown(added, n)
          IN IF n >= a.size
             THEN status' = "crashed" /\ UNCHANGED serverVars
             ELSE /\ added' = [a EXCEPT !.set = @ \cup {n}]
                  /\ \/ n \in a.set /\ UNCHANGED <<db, status>>
                     \/ n \notin a.set /\ db' = Put(db, e) /\ UNCHANGED status
                     \/ n \notin a.set /\ status' = "aborted" /\ UNCHANGED db  \* open or read fails
  /\ UNCHANGED <<prog, world, senderVars>>

populate_database(e) ==
  ReadEntry("enclave", e, LAMBDA t, f :
    FoldLeft(LAMBDA u, x : hash_put(u, <<f.name, x>>, EnclaveHists[world.pic[f]]), t, Duplicates))
native_populate_database(e) ==
  ReadEntry("native", e, LAMBDA t, f :
    FoldLeft(LAMBDA u, x : native_hash_put(u, <<f.name, x>>, NativeHists[world.pic[f]]), t, Duplicates))
hashmap_populate_database(e) ==
  ReadEntry("hashmap", e, LAMBDA t, f : hashmap_put(t, <<f.name, 0>>, GeneratorHists[world.pic[f]]))

(* On Windows ocall_GetKey returns NULL, which populate_database passes to  *)
(* atoi; without the directory it aborts before that.                      *)
windows_populate_database ==
  /\ prog = "windows" /\ status = "reading"
  /\ status' \in {"aborted", "crashed"}
  /\ UNCHANGED <<prog, world, dir, serverVars, senderVars>>

Populated ==
  /\ prog \in {"enclave", "native", "hashmap"} /\ status = "reading" /\ dir = {}
  /\ status' = "done"
  /\ UNCHANGED <<prog, world, dir, serverVars, senderVars>>

----------------------------------------------------------------------------
(* The generator.  A request is temp_id, the key and the histogram; the key *)
(* and the histogram are encrypted with the stream of temp_id, whose counter *)
(* is the number of requests it has encrypted.                             *)
load_requests(e) ==
  /\ prog = "generator" /\ status = "reading" /\ e \in dir
  /\ dir' = dir \ {e}
  /\ \/ e = Subdir /\ UNCHANGED <<gen, status>>
     \/ e # Subdir /\ UNCHANGED status
          /\ gen' = [gen EXCEPT !.array = Append(@, [name |-> e.name, hist |-> GeneratorHists[world.pic[e]]])]
     \/ e # Subdir /\ status' = "aborted" /\ UNCHANGED gen       \* open or read fails
  /\ UNCHANGED <<prog, world, serverVars, file, client>>

Loaded ==
  /\ prog = "generator" /\ status = "reading" /\ dir = {}
  /\ status' = "sending"
  /\ UNCHANGED <<prog, world, dir, serverVars, senderVars>>

(* Any picture, and its name or that of another, with any duplicate. *)
get_request(a) == [hist : {r.hist : r \in Range(a)}, name : {r.name : r \in Range(a)}, dup : 0..(Dup - 1)]

(* Mutant: the last write ends with the histogram's size, as a line left in *)
(* a comment has it.                                                       *)
BugWritten == 0..(HistSize - 1)

(* encrypted_buffer: an int, a key of 40 bytes and the histogram, of which  *)
(* the loop over offsets below hist_size writes a chunk at a time.         *)
RecordSize == HistSize + 2
Written ==
  UNION {o..(o + (IF HistSize - o < Chunk THEN RecordSize - o ELSE Chunk) - 1) :
           o \in {k * Chunk : k \in 0..((HistSize - 1) \div Chunk)}}

(* write at the end of what this run has written, over an older file. *)
WriteUnits(f, from, units) ==
  [k \in 1..Max({Len(f), from + Cardinality(units)}) |->
     IF k > from /\ k <= from + Cardinality(units) THEN <<gen.i + 1, k - from - 1>> ELSE f[k]]

(* Mutant: every request is given to the same client. *)
BugNextId(id) == id

NextId(id) == (id + 1) % Ids

(* What is encrypted next, and its bytes at the end of the file (a write()   *)
(* that fails or is cut short is not looked at by the code, nor here).     *)
generate(r) ==
  /\ status = "sending" /\ gen.i < Requests /\ gen.array # <<>>
  /\ LET id == NextId(gen.temp_id)
     IN gen' = [gen EXCEPT !.temp_id = id, !.i = @ + 1, !.pos = @ + Cardinality(Written),
                           !.ctr[id] = @ + 1,
                           !.made = Append(@, [id |-> id, ctr |-> gen.ctr[id], plain |-> r])]
  /\ file' = WriteUnits(file, gen.pos, Written)
  /\ UNCHANGED <<prog, world, dir, status, serverVars, client>>

Generated ==
  /\ status = "sending" /\ gen.i = Requests
  /\ status' = "loading"
  /\ UNCHANGED <<prog, world, dir, serverVars, senderVars>>

----------------------------------------------------------------------------
(* The client.  It reads records until it has NUM_OF_REQUESTS whole ones,   *)
(* and copies each to the array of the client its first int names.         *)
Units(at) == [k \in 1..Min({RecordSize, Len(file) - at}) |-> file[at + k]]

client_main ==
  /\ status = "loading" /\ client.read < Requests
  /\ LET rec == Units(client.at)
     IN /\ client' = IF Len(rec) < RecordSize THEN [client EXCEPT !.at = @ + Len(rec)]
                     ELSE LET id == gen.made[rec[1][1]].id
                          IN [client EXCEPT !.at = @ + Len(rec), !.read = @ + 1,
                                            !.arr[id] = Append(@, rec)]
        /\ UNCHANGED <<prog, world, dir, status, serverVars, gen, file>>

(* The connections are started once every array is filled. *)
StartClients ==
  /\ status = "loading" /\ client.read = Requests
  /\ status' = "done"
  /\ UNCHANGED <<prog, world, dir, serverVars, senderVars>>

----------------------------------------------------------------------------
Terminated == status \in {"done", "aborted", "crashed"} /\ UNCHANGED vars

(* A file left by an earlier run of the generator may be longer than this one. *)
Stale(n) == [k \in 1..n |-> <<1, k>>]

Init ==
  /\ prog \in {"enclave", "native", "windows", "hashmap", "generator"}
  /\ world \in IF prog \in {"windows", "generator"}
               THEN {[pic |-> [f \in Files |-> x], hash |-> [n \in Names |-> 0]] : x \in DOMAIN Pictures}
               ELSE [pic : [Files -> DOMAIN Pictures], hash : [Names -> Hashes]]
  /\ dir = Files \cup {Subdir} /\ status = "reading"
  /\ db = IF prog = "hashmap" THEN hashmap_init ELSE hash_init
  /\ added \in IF prog = "hashmap"            \* malloc without memset
               THEN {[size |-> Buckets, set |-> s, junk |-> s] : s \in SUBSET (0..(Buckets - 1))}
               ELSE {[size |-> Buckets * Dup, set |-> {}, junk |-> {}]}
  /\ gen = [array |-> <<>>, i |-> 0, temp_id |-> 0, pos |-> 0, ctr |-> [c \in 0..(Ids - 1) |-> 0], made |-> <<>>]
  /\ file \in IF prog = "generator" THEN {<<>>, Stale((Requests + 1) * RecordSize)} ELSE {<<>>}
  /\ client = [at |-> 0, read |-> 0, arr |-> [c \in 0..(Clients - 1) |-> <<>>]]

Next ==
  \/ \E e \in dir : \/ populate_database(e) \/ native_populate_database(e)
                    \/ hashmap_populate_database(e) \/ load_requests(e)
  \/ windows_populate_database \/ Populated \/ Loaded
  \/ \E r \in get_request(gen.array) : generate(r)
  \/ Generated \/ client_main \/ StartClients \/ Terminated

(* The client's main thread runs until it has started the connections. *)
Spec == Init /\ [][Next]_vars /\ WF_vars(client_main) /\ WF_vars(StartClients)

----------------------------------------------------------------------------
Keys == Names \X (0..(Dup - 1))
ServerProgs == {"enclave", "native"}
Read(n) == \E f \in Files \ dir : f.name = n
References == [p \in DOMAIN Pictures |-> calc_histogram(Pictures[p], EnclaveDefines, ReferenceBins)]
TurnedHists == [p \in DOMAIN Pictures |-> enclave_histogram(Turned(Pictures[p]))]

(* No server leaves the bounds of already_added, no probe of hash_put goes  *)
(* round a full table for ever, and the hashmap grows in time: its buffer  *)
(* holds what was written and it always has an empty bucket, and nentries  *)
(* counts the full ones.  (On Windows there are no keys; the hashmap's     *)
(* already_added is half as long.)                                         *)
MemorySafe ==
  /\ prog \notin {"windows", "hashmap"} => status # "crashed"
  /\ ~db.hung
  /\ db.nentries = Cardinality({b \in DOMAIN db.id : db.id[b] # Empty})
  /\ prog = "hashmap" => db.used <= db.cap /\ \E b \in DOMAIN db.id : db.id[b] = Empty

(* A lookup in the table finds a person iff a picture of theirs was read,   *)
(* under every duplicate key, and finds the histogram of one of their      *)
(* pictures: whatever the collisions, the growth of the table and the      *)
(* order of the directory.  (The hashmap has no duplicates, and lacks the  *)
(* people whose entries of its already_added, which is not initialised,    *)
(* were set by chance.)                                                    *)
LookupRight ==
  status \notin {"aborted", "crashed"} =>
    \A key \in Keys :
      LET v == hash_get(db, key)
      IN /\ v # Empty => \E f \in Files \ dir : f.name = key[1] /\ v.hist = References[world.pic[f]]
         /\ \/ prog \in ServerProgs
            \/ prog = "hashmap" /\ key[2] = 0 /\ Number[key[1]] \notin added.junk
            => (v # Empty <=> Read(key[1]))

(* Histograms of different programs can be compared: create_pattern2bin     *)
(* with the #defines of each copy classifies the uniform patterns by their *)
(* number of ones, and a picture turned by a quarter has the same          *)
(* histograms in the turned blocks, so the table makes get_pattern         *)
(* independent of the bit it starts from.                                  *)
HistogramsComparable ==
  /\ dir # {} => {EnclaveBins, NativeBins, WindowsBins, GeneratorBins, ClientBins} = {ReferenceBins}
  /\ status = "done" /\ prog \in ServerProgs =>
       \A p \in Range(world.pic) :
         LET blocks == Width \div Block
         IN \A i, j \in 0..(blocks - 1) :
              BlockBins(EnclaveHists[p], i * blocks + j)
                = BlockBins(TurnedHists[p], j * blocks + (blocks - 1 - i))

(* The client's arrays hold whole requests, each in the array of the client *)
(* it was encrypted for and in the order of that client's counter, and are *)
(* exactly full when the connections start: what the server's counters    *)
(* need to decrypt them.                                                   *)
RequestsInOrder ==
  \A c \in 0..(Clients - 1) :
    /\ Len(client.arr[c]) <= Requests \div Clients
    /\ \A k \in DOMAIN client.arr[c] :
         LET rec == client.arr[c][k]
             req == gen.made[rec[1][1]]
         IN /\ \A u \in DOMAIN rec : rec[u] = <<rec[1][1], u - 1>>
            /\ req.id = c /\ req.ctr = k - 1
    /\ prog = "generator" /\ status = "done" => Len(client.arr[c]) = Requests \div Clients

(* The client that loads the generator's file finds its NUM_OF_REQUESTS     *)
(* records in it and starts: its loop reads on for ever in a file that is  *)
(* too short.                                                              *)
ClientLoads == status = "loading" ~> status = "done"
============================================================================
