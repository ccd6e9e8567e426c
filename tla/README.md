# Eleos: TLA+ models, model checking and proofs

Eleos lets SGX enclaves run system calls without leaving the enclave (RPC over
shared memory) and use more memory than the EPC holds without hardware paging
(SUVM: user-level paging through spointers, class `Aptr`). This directory
models the core library, `src/eleos_core/trustedlib_lib_services`, and the
programs built on it: two parameter servers, a face verification server with
its workload generator and clients, a microbenchmark, and the Windows port.
Paths below are relative to the library unless they start with `src/`.

## 1. The system and its parts

| Part | State | Operations | Interacts with |
|---|---|---|---|
| Spointers (`static_trusted/Aptr.h`) | `m_base_page_index`, `page`, `offset`, `prm_ptr`, `hint_write` | construct, copy, assign, move, compare, dereference, reset | fault handler, reference counts |
| Fault handler (`static_trusted/Aptr.cpp`) | the free EPC frames and their lock | `page_fault`, `try_evict_page`, `initialize_aptr` | page cache, crypto cache, backing store |
| Page cache (`static_trusted/PageCache.h`) | hash buckets, each with a lock; reference counts; size; FIFO of eviction candidates | `get`, `try_add`, `remove`, `inc_ref_count`, `dec_ref_count`, `get_page_index_to_evict` | every faulting thread |
| Crypto cache (`static_trusted/CryptoCache.h`) | nonce and MAC of each sealed page | `get`, `add` | fault handler |
| Memory functions (`static_trusted/Aptr.cpp`) | a local spointer | `memmove_reg_aptr`, `memmove_aptr_reg`, `memset_aptr`, `memcpy_aptr`, `memcmp_*`, `strncmp_aptr` | spointers |
| Buddy allocator (`static_trusted/mem.cpp`) | control bytes, free lists linked through the pool | `memsys5Malloc`, `memsys5Free`, `memsys5Realloc`, `memsys5Init` | spointer regions and RPC requests are its blocks |
| RPC (`common/Queue.cpp`, `static_trusted/rpc_ocall.cpp`, `untrusted/rpc_worker.cpp`) | ring of request pointers with a lock; `is_done` of each request | `rpc_ocall`, `rpc_thread`, `do_work`, start and close | enclave threads, one untrusted worker |
| Swap thread (`untrusted/init_services.cpp`) | `g_swap_thread_work` | waits, calls `ecall_erase_aptr_pcache` | RPC worker; the call that wakes it is commented out |
| Start and stop (`untrusted/init_services.cpp`, `static_trusted/lib_services.cpp`) | pool, queue, flags | `initialize_lib`, `cleanup_lib` | everything |
| Parameter servers (`src/parameter_server`, `src/parameter_server_suvm`), client (`src/client_parameter_server`) | hash map, buffer of keys, the words `start` and `finish` | receive a buffer of keys, look each up and count, answer | a counting thread, spointers, the client |
| Face verification server (`src/face_verification_server/enclave_samples`) | request and response queues, a buffer per connection, a counter per client | event callbacks, worker loop, `do_one` | spointers, sockets, clients |
| Face data (servers, and `src/face_verification_server/workload_generator`) | tables of histograms, `already_added`, the file of encrypted requests | `populate_database`, `hash_put`, `hashmap_rehash`, `calc_histogram`, `get_request`, loading | the directory of pictures, client |
| Host programs (`sample.cpp` of each, `src/win/SUVM/*/App*.cpp`) | the launch token and its file, thread counters, the enclave, the library | `initialize_enclave`, `initialize_lib`, run, `cleanup_lib` | one another, through the token file |

How they interact. An enclave thread dereferences a spointer. If the offset is
inside the page and the spointer is linked, `deref` answers from the frame at
once; otherwise `page_fault` drops the reference to the old page, takes one to
the new page, and finds the page in the cache (minor fault) or brings it in
(major fault), evicting another page if the cache is nearly full. Threads meet
in the bucket locks, the lock of the FIFO, the lock of the free list and, with
no lock at all, in `m_page_cache_size`, in the dirty bit kept in the low bit of
a frame's address, and in the item that `get` returns after it has unlocked the
bucket. System calls go the other way: the enclave writes a request into the
untrusted pool, enqueues it and spins; the worker polls, runs the call and
unlocks the request.

What is hard here. The critical sections of a page fault are many and short and
their order is the whole algorithm: a page may be evicted between any two of
them, two threads may bring in the same page, the size check is stale when it
is acted on, and an eviction rewrites nonce, MAC and ciphertext in several
steps. Counts are unsigned chars and are not checked. Full and empty queues are
`abort()`. The eviction loop ends only if some page is unpinned. In RPC the two
sides share requests, one byte of lock and a queue that is deleted under them
at shutdown. In the allocator, control bytes in the middle of a block are stale
and must never be believed. In the spointers, an offset that is out of its page
stands for "not linked". In the face server a request is a pointer into the
buffer of its connection, several workers share one static histogram, and the
two ends of a stream must advance their counters together. In the parameter
server two words pass a buffer to and fro, and client and server can wait for
each other. The host programs share a token file without a lock and count their
threads with increments that are not atomic. `PROJECT.json` lists each of these under `hazards`
with the line and the properties that would catch it going wrong.

What makes each part correct: a linked spointer keeps its frame, counts are
exact, frames and queue entries are never lost or duplicated, and the whole is
a flat memory (SUVM); every call runs exactly once and returns (RPC); blocks
never overlap, nothing leaks, and an allocation fails only if there is no room
for it (allocator); an access goes to the address that the pointer arithmetic
means, and pins are balanced (spointers); a client gets the verdict on the
request it sent (face server), which takes a table that holds what was read,
histograms that compare whichever program made them, and requests in the order
of their counters (face data); every key is counted once (parameter servers); and no program sees
a torn token or tears its enclave down under its threads (host programs).

## 2. Modules

| Module | Models | Abstract specification |
|---|---|---|
| `Suvm` | page faults, eviction, page cache, crypto cache, frames | `SecureMemory`: a flat memory in which a thread starts an access to a page and then stores to that page, or loads the last word stored to it |
| `Rpc` | `rpc_ocall`, `Queue`, `rpc_thread`, `do_work`, `close_rpc_worker` | `RpcService`: a call that runs exactly once and returns |
| `Mem5` | `memsys5Malloc`, `Free`, `Realloc`, `Init` | `Allocator`: disjoint aligned blocks, failure only for want of a run |
| `Spointer` | the arithmetic of `Aptr`, the fast path of `deref`, the memory functions | none: properties refer to the address in a history variable |
| `PageTable` | the lists of `PageCache` and `CryptoCache`, on Linux and on Windows | the map that `Suvm` takes them for (`TableExact`) |
| `FaceServer` | event loop, queues, workers in and outside the enclave, client connections | the verdict on what was asked (`AnswersRight`) |
| `FaceData` (extends `Lbp`) | the databases of the servers, the generator and its file, loading in the client | reference histograms, the set of pictures read |
| `Lbp` | the histogram code, with the `#define`s of each of its five copies | `ReferenceBins`: a uniform pattern is classified by its number of ones |
| `ParameterServer` | both parameter servers and their client | the multiset of keys sent (`EveryKeyCounted`) |
| `Launch` | the host programs from launch to teardown | none |
| `SuvmProofs` | | theorems about `Suvm`, in three parts: types, pins and reference counts; where frames, queue entries and dirty bits are; no `ASSERT` fails and `Suvm` implements `SecureMemory` |
| `RpcProofs` | | theorems about `Rpc`, and its step simulation of `RpcService` |
| `Mem5Proofs` | | theorems about `Mem5`: its invariants, and that it implements `Allocator` |
| `PageTableProofs` | | `TableExact`, for both ports |
| `FaceServerProofs` | | theorems about `FaceServer` and, through an instance of it, about `FaceData`'s file of requests |
| `SpointerProofs`, `ParameterServerProofs`, `LaunchProofs` | | theorems about the module of that name |
| `MC...` | | definitions for the configurations |

`map` in `PROJECT.json` gives the source lines of every definition. Operators
whose name starts with `Bug` are the mutated forms that `mutants` uses: each
shows that the property it is paired with would notice that bug.

### Suvm

The state is the code's: `cache` the frame of each page (the chained lists of
all buckets together), `lock` the bucket locks, `ref` `m_ref_count` modulo 256,
`size` `m_page_cache_size`, `used` the FIFO, `free` the free list, `dirty` the
low bit of the frame's address, `mac` and `ram` the crypto cache entry and the
ciphertext, and per thread its program counter and the locals `prm_ptr` and
`victim`. `stored` is a history variable, the last word stored to a page.
Under the refinement mapping `SecureMemory` sees, of each thread, the page whose
access it has started (`want`) and the word it loaded last (`ret`): `Begin` is
`Deref`, and a load or a store may only be of the page that was begun.

One action is one critical section, or one access outside any. `Deref`,
`DecPrevPage`, `IncNewPage`, `Get`, `LinkMinor`, `CheckSize`, `PopFree`,
`LlcGet`, `Decrypt`, `TryAdd`, `Publish`, `GetFound` and `PutBack` are
`page_fault` from top to bottom; `Dequeue`, `Probe` and `Requeue` the loop of
`get_page_index_to_evict`; `SwapOut`, `Encrypt`, `Remove` and `PushFree`
`try_evict_page` and what follows; `MarkDirty`, `Load` and `Store` the end of
`deref` and the caller's use of the reference; `Reset` is `reset`. The bucket
lock that an eviction holds from `get_page_index_to_evict` to `remove`, and the
one that `try_add` holds while it enqueues, are explicit. A failed `ASSERT`
stops every thread, as `abort()` does.

Abstractions: a page holds one word; a bucket's chained list is the set of its
pages (`PageTable` has the lists); the vector of free frames
is a set; a MAC either matches the ciphertext or does not (`pending` between
the new nonce and the end of the encryption). A page that was never sealed
keeps whatever its frame held, as in the code, which does not clear frames.

### Rpc

`cpc`, `req`, `call` are a caller inside `rpc_ocall`, `wpc`, `cur` the worker,
`pool` the requests the allocator can hand out, and `index`, `buffer`, `isDone`
the fields of a request. `front` and `rear` are ints that only grow, with C's
remainder for the slot and wrapping at `IntMax`. `enqueue` and `dequeue` are
one step each, under the queue's lock word, which `Queue::Queue` does not set.
`Close` and `Delete` are the two statements of `close_rpc_worker`; an access to
the deleted queue finds it as it was or is undefined, and nothing is claimed
after that. The allocator is external to this module: it hands out a free
request, or NULL at any time, as SUVM regions and others fill its pool too.
`status` is what `rpc_ocall` returned, and `ran` a history variable, how often
the current call ran.

### Mem5

`free` and `logsize` are the two fields of a control byte, `next` and `prev`
the links inside a free chunk, `aiFreelist` the heads. `mem_lock` covers a
call; `Split` and `Merge` are one iteration each of its loops, so the
invariants are checked in the middle of a call too. Links of a chunk that is
not on a list belong to its user (`Garbage`), control bytes start arbitrary
(`Stale`), and `memsys5Size` reads without the lock. `held` is a history
variable. The counters of `SQLITE_DEBUG` builds are left out.

### Spointer

The object's fields, as the code keeps them: a constructed or copied spointer
has its offset one page too high and its page one too low, so that the first
dereference faults. `addr`, a history variable, is the address that the
program means. `Deref` uses the `ElemSize` bytes of the `T` that `operator*`
refers to, of which `deref` looks at the first only. `PageFault` is what a fault
does to a spointer and the counts;
what it does to the cache is `Suvm`'s matter. `Copy` and `Advance` are an
iteration of the memory functions. Moves that leave the pool, and an assignment
of a spointer to itself, are outside the model.

### PageTable

The buckets, with `head`, `lock` and the items that hang from them, for the page
cache, and `chead`, `citem` for the crypto cache. An item has an address (a
cell), so a cell that is deleted and allocated again is the same pointer. The
threads call the tables in the order of `page_fault` and `try_evict_page`; one
action is one critical section, and `Probe` and `TryAdd` leave the bucket locked
as `get_page_index_to_evict` and `try_add` do. `ReadItem` reads the item that
`get` returned after the bucket was unlocked. Frames, dirty bits and encryption
are `Suvm`'s matter: which victims are dirty is a choice among the pages that
are written to. The two ports have the same text but for the lock around the
size on Windows; each has its own definitions for the map.

### FaceServer

`client`, `net` and `back` are the client's threads and their sockets, `conn`
the connections of the event loop (bufferevent, buffer, `total_read`),
`requests` and `responses` the queues, `work` the workers and `shared` the
static `hist_from_hash`. A callback of libevent is one step, as the loop has one
thread. A worker is `Dequeue`, `Decrypt` (which reads the connection's buffer
and advances the client's counter), `do_one` and `Respond`; in the enclave
`do_one` copies the histogram in two halves and compares afterwards. Decryption
gives the text back only with the counter it was encrypted with.

A message has `MsgLen` units, the first for the client's id and the key, the
others for the histogram. `DATA_SIZE` is four bytes short of a message, so
`DataSize` is one unit less. The client writes a message in pieces of `WriteLen`,
and a read of the server finds any number of the units that have arrived. A
connection may be lost at any moment (`Drop`), with what was on its way or
without, and `echo_event_cb` then frees connection and buffer, whoever refers to
them. A worker that reads a cut or freed buffer gets any id, a histogram of
anybody or garbage, or ends the server (`Die`, which is also the `exit` and
`abort` of the native worker when AES-CTR fails). The server's two blind spots,
a read that ends `DataSize` into a message and a free while something refers to
the connection, are recorded in the history variable `sound`. `AnswersRight`,
`BuffersStable` and `QueuesBounded` are about the states where neither has
happened; `EveryAnswerRight` and `ConnectionsHeld` leave that condition out and
are refuted (`face_split`, and section 5).

The client waits for each answer before it sends again; the server has no other
protection of its buffers, and `BuffersStable` depends on it. The buffer itself
(`DATA_SIZE + 4` bytes with the data from the fifth) is four bytes too short for
a message. `malloc` rounds its size up by more than that, so the model has room
for a whole message; what is read beyond one is dropped.

### FaceData and Lbp

A behaviour runs one program: a server's `populate_database` (enclave, native,
Windows), the generator's with its growing hashmap (which its `main` does not
call), or the generator followed by the client. The order in which `readdir`
returns the entries, the contents of the files and the hashes of the names are
arbitrary. Sizes are scaled: `Buckets` for 1024, `HistSize` and `Chunk` for the
bytes of a record and of a write. The generator's `already_added` is memory from
`malloc` and starts as any set of slots. The generator does not check its
`write`; the model's writes are whole (a short one would shift every later
record of the file).

`Lbp` has the histogram code as operators, with the `#define`s of each file in a
record; the three `calc_histogram` that are called are separate definitions. The
five copies of the code have the same bodies, token for token, and so are one
set of operators: that their `#define`s agree is checked, that their bodies do
is read and would have to be read again after a change. The patterns are
computed bit by bit because that is what is checked: the table that
`create_pattern2bin` fills by rotating is compared with `ReferenceBins`, and the
histogram of a picture with that of the picture turned.

### ParameterServer

One module for both programs: `mode` says which, and with which arguments
(inside or outside the enclave, by an ocall or through the counting thread).
`mpc` and `tpc` are the two threads, `start` and `finish` the words between
them, `buf` the buffer, `table` the hash map, `wire` the socket. `done`, the
keys looked up, is a history variable. A read may fail, or find the client gone,
and then either thread exits the process (`ReadFails`). A key beyond the table is
never found, and `get` goes round for ever; that of the SUVM server, whose
`hash_key` has no modulus, first looks at memory outside the table and may take
what is there for the key (`StrayHit`). The SUVM table is taken to be flat
memory, which is what `suvm_safety` shows of `Suvm`.

### Launch

`proc` is the main thread and the globals of a process, `thr` its other threads,
`file` the token files. Every call on a file is a step of its own; a process may
be killed and started again between two of them (`Crash`). A token is the
enclave it launches and a number; a file may also be absent, empty, torn (a part
of a token) or `Mixed`: of full length, a part of a token over the end of
another, which a write that is cut short leaves where the file was not empty.
`thread_start++` and `thread_finish++` on a volatile int are a read and a write,
`lost` remembers that an increment overwrote another. The servers are handed
over at `serving` to the modules above; the plain parameter server gets there
without `initialize_lib`.

## 3. Runs

| Run | Checks | Shows |
|---|---|---|
| `suvm_safety` | `TypeOK`, `PinnedStaysCached`, `RefCountExact`, `FramesPartitioned`, `UsedQueueExact`, `OnlyCachedDirty`, `NeverAborts`, `ImplementsSecureMemory` | two threads, one writing three pages and the other reading and writing two of them, three frames: no frame is lost, shared or taken from under a spointer, no `ASSERT` fails, and the load a thread started on a page returns the last store to that page through any number of evictions |
| `suvm_live` | `AccessesComplete` | no page fault is left unfinished: no deadlock between bucket locks, no endless eviction loop |
| `page_table` | `TableExact` | items removed from the head, the middle and the end of a list while others are read: the lists are the map that `Suvm` uses, and no pointer dangles |
| `rpc_service` | `TypeOK`, `NeverAborts`, `RequestsExclusive`, `ImplementsService` | two callers and two workers, any lock word, the queue closed and deleted at any moment, `rear` and `front` past the largest int: no request is touched after it was freed, the queue does not fill up, each call runs exactly once before it returns success or not at all when it returns an error, and it returns unless the lock word was not 0, the queue is closed or `rear` has overflowed |
| `mem5_safety` | `TypeOK`, `PoolPartitioned`, `ControlExact`, `Coalesced`, `ImplementsAllocator` | two threads in a pool of six atoms, at every iteration of every loop |
| `spointer_forward` | `TypeOK`, `AccessesRight`, `PinsExact` | spointers that move forwards, and the memory functions, access what is meant, in one page if aligned, and pin exactly what they are linked to |
| `face_server` | `TypeOK`, `AnswersRight`, `BuffersStable`, `QueuesBounded`, `ClientsFinish` | two clients, the native server with two workers and the enclave's with one: one client may be lost; until a read cuts a message or a connection is freed in use, every answer is the verdict on its request and buffers are not reused under a request; everyone finishes unless one could not connect or the server died |
| `face_shared` | `AnswersRight`, violated | two workers in the enclave overwrite each other's histogram |
| `face_split` | `EveryAnswerRight`, violated | a read that ends `DATA_SIZE` into a message |
| `face_data` | `MemorySafe`, `LookupRight`, `HistogramsComparable`, `RequestsInOrder`, `ClientLoads` | whatever the directory, its order and the collisions: the tables hold what was read, the histogram code is right with the `#define`s of each copy, and the requests reach each connection whole and in the order of its counter |
| `parameter_server` | `TypeOK`, `BufferExclusive`, `EveryKeyCounted`, `ClientAnswered` | both servers with every argument: the buffer is used by one thread at a time, each key counts once, and the client is answered when its block covers the rounds and no read fails |
| `launch` | `TokenWhole`, `PhasesOrdered`, `EndsUnlessLost` | every program beside another, killed and restarted: no part of a token is used but one mixed with another to full length, no thread is in an enclave that is destroyed, and programs end unless an increment was lost |

Bounds, and why they are enough.

- `Suvm`: two threads, because every race in the code is between two (an
  evicting and a faulting thread, two faulting threads); three pages and three
  frames with `Slack` 1, so that the eviction limit is two and the third page
  always evicts; two buckets, so that pages 0 and 2 share a lock and page 1
  does not. `suvm_live` has four frames: the limit must exceed the number of
  spointers, since a loop in which every cached page is pinned never ends, as
  in the code.
  The capacity itself is a matter of numbers: with `L = Capacity - Slack`, the
  free list and the FIFO suffice if the threads are at most `Slack + 1`, and
  the FIFO is never empty if they are at most `L` (`NoAssertFails` proves it).
  The code has 10 for `Slack`, so at most 11 threads may fault at once; the run
  has 1 and two threads, which is the bound exactly.
- `Rpc`: two callers fill a queue of two slots, which is the most that
  `NeverAborts` allows; four calls take `rear` round it twice and the fifth
  finds that it has overflowed (`IntMax` 3). The code starts one worker; the run
  has two, so that requests could be mixed up between them. `MaxCalls` is not
  met: the overflow ends every behaviour first.
- `Mem5`: six atoms are carved into a block of four and one of two, so the
  pool is not a power of two and a block has a buddy beyond its end; requests
  of 0, one atom, just above one atom, and above the maximum, and `Realloc` to
  every power of two.
- `Spointer`: pages of four bytes and elements of two, so that an element can be
  aligned, or straddle two pages (which is excepted: `deref` does not look at the
  size); lengths 1 and 5 cross no, one or two boundaries; `MaxOffset` stops
  copies of copies, each of which adds a page to the offset.

- `PageTable`: two threads; of four pages three share a bucket, and with the
  limit at two a race takes the cache to three, so an item can be in the middle
  of a list; two of the three are written to, so a crypto list has two items.
- `FaceServer`: two clients are enough to mix two up, two requests each to reuse
  a buffer and move a counter; queues of two. A message is four units, written in
  two pieces and read in any. One client may lose its connection. The constraint
  `Followed` of `MCFaceServer` stops following clients after their first request
  once `sound` is false, where the properties of `face_server` say nothing
  (`ClientsFinish` is then fulfilled).
- `FaceData`: three people, one with two pictures, two keys each, in a table
  that is exactly full at the end; three hashes, so that all collide or none
  does; a picture of four by four pixels in four blocks; four requests for two
  clients; a record that is no whole number of chunks; every content of
  `already_added`.
- `ParameterServer`: two rounds of two keys (one of them warm-up), a block that
  covers one round or both, keys inside the table or one beyond, two starts of
  the server.
- `Launch`: two processes, so that two launches interleave at the file; two
  threads, one access each; one process killed, three tokens.

`CHECK_DEADLOCK FALSE` is used where the system really may stop. `rpc_service`:
after `close_rpc_worker`, an overflow, or with a lock word that starts at 1. The runs of
`FaceServer`: when the clients have finished, one could not connect, or the
server died.
`parameter_server`: the server exits, or waits with its client for ever.
`launch`: a program ends, or spins on a count that lost an increment. What must
nevertheless happen is said by the liveness properties of those runs.

Fairness. `Suvm!FairSpec`: a thread inside an access keeps being scheduled
(weak fairness of its next step; starting an access is not fair). Spin locks are
not queued, so a thread could starve at one while others take it again and
again; `AccessesComplete` is therefore stated with that way out: either threads
start accesses for ever, or all of them finish. `Rpc!FairSpec`: callers inside
`rpc_ocall` and the worker keep being scheduled; the queue's critical sections
are one step, so the lock is free whenever an attempt is made. Calls end, as
`Work` is one step: an ocall that blocks for ever is outside the model.
`FaceServer`, `ParameterServer`, `FaceData` and `Launch` assume that every thread
that can take a step is scheduled, and that a socket delivers; none assumes that
a connection, an allocation or a creation of an enclave succeeds. Where the code
hangs, the property says so: `ClientsFinish` excepts a client that could not
connect, a message that was cut, a connection freed in use and the end of the
server; `ClientAnswered` a block that is too short, keys that do not fit the
table and a read that failed; `EndsUnlessLost` a lost increment. Nothing makes a
connection break or a read fail: `Drop`, `Die` and `ReadFails` are not fair.

## 4. Proofs

`SuvmProofs` proves, for any sets of threads, spointers, pages and frames and
any sizes that satisfy the assumptions in `Suvm`:

- `Typing`: `TypeOK` holds always.
- `Pinning`: `PinnedStaysCached` holds always, provided `CountsFit`: the
  spointers are finitely many and fewer than `RefMod`. The condition cannot be
  dropped (section 5).
- `ExactCounts`: `RefCountExact` holds always, under the same condition.

The argument. `PinnedStaysCached` alone is not inductive: an eviction frees the
frame of its victim several steps after it has looked at the count. The
inductive invariant `IInv` adds: `OpInv`, that a thread outside `idle` has an access and
owns its spointer; `HeldInv`, that an evicting thread holds the lock of its
victim's bucket from `Probe` to `Remove`, that the victim's count stays 0,
and that it is cached in the frame the thread holds; `SealedInv`, that a valid
MAC goes with a value to decrypt; `StageInv`, where the spointer of an access
stands at each point between the deref and the link; `UnlinkedInv`, that a
spointer which stands on a page without being linked belongs to a fault in
progress; `LinkedInv`, the property itself; and `RefInv`, that a count is the
number of spointers standing on the page. The core is that a page whose
bucket an evicting thread has locked, with a count of zero, has no spointer
standing on it until the lock is released, as `IncNewPage` needs that lock.
Each action has one step of the proof, and under it one per conjunct that it can
disturb; steps on cardinality use `FiniteSetTheorems`.

`RpcProofs` proves, for any sets of callers, workers and requests, any size of
the queue and any initial lock word, and up to the moment when `rear` would
overflow an int (`NoWrap`, that is for the first 2^31 - 2 calls; beyond it the
slots leave the array, section 5):

- `Typing` and `Exclusive`: `TypeOK` and `RequestsExclusive` hold always.
- `NoAbort`: `NeverAborts` holds always if the callers are finitely many and
  no more than the slots (`QueueFits`): the map from queued requests to their
  callers is an injection that misses the caller about to enqueue.
- `RefinesService`: every step is a step of `RpcService` or invisible to it, so
  a call runs at most once, has run when `SGX_SUCCESS` is returned and has not
  when an error is; only `Close` ends the service. That a call returns while
  the service is up is liveness and stays with `rpc_service`.

`RequestsExclusive` is not inductive, since it does not say why the request
that a worker unlocks is nowhere else. The inductive invariant `IInv` adds
`QueueBounds`; `CallerInv`, that a caller's request carries the caller in its
`buffer` (hence is nobody else's) and how often its call has run at each stage;
`QueueInv`, that the queued requests are distinct and `Served` (locked, their
caller waiting, not run yet); and `WorkerInv`, the same for a worker's request,
which is in no other place.

The second part of `SuvmProofs` proves, also under `CountsFit`:

- `FramesKept`, `QueueExact`, `DirtyCached`: `FramesPartitioned`,
  `UsedQueueExact` and `OnlyCachedDirty` hold always.

Cardinalities do not survive a step by themselves, so the inductive invariant
`FInv`, to be used with `IInv`, says the same with quantifiers: `FrameInv`, no two
of free list, cached pages and threads have the same frame, and each frame is
with one of them; `QueueInv`, the same for the pages in the FIFO and in the hands
of threads; `DirtyInv`, a frame is clean from the moment its victim is sealed; and
`MacInv`, a nonce and MAC are ahead of the ciphertext only while some thread
encrypts that page, so that no other thread decrypts with them. The counts of the
properties are computed from it at the end.

The third part of `SuvmProofs` proves the two promises of SUVM to its users:

- `NoAssertFails`: `NeverAborts` holds always, under `CountsFit` and `ThreadsFit`:
  the threads are finitely many, at most `Slack + 1`, and at most `EvictLimit`.
  `CountInv` is the potential that makes the unlocked check of the size safe: the
  pages cached and the threads that have or were promised a frame are together at
  most the frames, and while threads are sent to evict there are candidates left
  for each of them.
- `RefinesFlatMemory`: `Spec => ImplementsSecureMemory`, under `CountsFit`: the load
  that a thread started on a page returns the last store to that page. `MemInv`
  says where the last word stored to a page is at each moment: in its frame while
  it is cached, in the backing store under a valid MAC while it is not or is
  clean, and in the hands of a thread that has decrypted it and is about to enter
  it. A page that another thread enters meanwhile is stored to only in that
  thread's frame, and the loser gives its copy up.

`PageTableProofs`, for any sets of threads, pages and addresses, any number of
buckets, both ports:

- `TablesExact`: `TableExact` holds always. It is what lets `Suvm` take the lists
  for a map.

The assumptions of `PageTable` are what the code needs. There are no more threads
than the size from which a fault evicts (`EvictAt`), so a thread that is sent to
evict finds a candidate in the queue; and there is memory for `EvictAt - 1` items
and one for each thread, and for the nonce of each page that is written. Beyond
that, `malloc` returning NULL is not handled in the code.

`TableExact` speaks of the chain behind a head (`Reach`), which one step of a list
changes as a whole. The inductive invariant `TInv` speaks of single items instead:
`Table` says that there is a rank, a number for each item, that grows along `next`,
that every item is a head or the successor of exactly one other, and that an item
is in its page's bucket. An item that is appended gets the next rank after the last
one, a removal keeps the ranks; the chain is recovered at the end, as an item of
least rank among those not on it would be a head or have a predecessor of less rank.
`LockInv` and `PinInv` are why a pointer survives an unlock (`PtrInv`): the page of a
thread that reads an item is pinned, and only an unpinned page is evicted, with its
bucket locked. `QueueInv` says that a cached page is once in the queue or with one
thread, and `SizeInv` bounds the size from both sides: it is at least the number of
threads sent to evict, and together with the threads about to add an item at most
`EvictAt - 1` plus the number of all threads.

`Mem5Proofs`, for a pool of any number of atoms, any largest block, any requests,
any number of threads and any stale control bytes:

- `MemType`, `MemPartitioned`, `MemControl`, `MemCoalesced`: `TypeOK`,
  `PoolPartitioned`, `ControlExact` and `Coalesced` hold always, between the
  iterations of the loops of a call too.
- `MemImplements`: `Spec => ImplementsAllocator`. A request is refused only if there
  is no aligned run of free atoms for it: such a run would be covered by free blocks
  smaller than itself, and among those two buddies would both be on a list.

The inductive invariant `MInv` regards the pool as a tiling: the blocks held, listed
or in the hands of a call are aligned, disjoint and cover all atoms (`Tiling`). It
adds `ListInv`, doubly linked lists that descend in rank (as in `PageTableProofs`, in
place of the chain of indices that `Listed` follows); `PlaceInv`, no block in two
places; `CtrlInv`, that the control byte of a block's first atom is right, about the
others nothing is said; `PriorInv`, that a block being reallocated is held and
nobody else's; and `BuddyInv`, that no two buddies are both listed, which holds
inside calls and not only between them. The buddy of a block, found by arithmetic
on its index, is a tile of the same size, or is split, or is not in the pool: that is
the lemma on which `Merge` reads the control byte of an atom that may be stale. The
arithmetic of powers of two, a recursive definition, comes from a theorem of the
library, that a set of `n` elements has `2^n` subsets.

`SpointerProofs`, for any page size, pool, set of spointers, moves and lengths:

- `SpointersTyped` and `PinsCounted`: `TypeOK` and `PinsExact` hold always, for
  moves in both directions.
- `AccessesGoRight`: `AccessesRight` holds always, provided `ForwardOnly` (no
  negative moves). The condition cannot be dropped (section 5, `DummyNotValid`).
  That an aligned element stays in its page, for any page and element size, is the
  lemma `AlignedEnds`.

`SInv` adds `PtrInv`, that base page, page and offset of a spointer add up to the
address it means, wherever its offset has run to, and that it is linked to its own
page only; and `XferInv`, that a memory function in progress stays in the pool and
that the local spointer exists only during one. `ForwardInv` is what the fast path
rests on: a spointer that is not linked has its offset beyond the page.

`ParameterServerProofs`, for any size of table and buffer, any rounds, blocks and
arguments, with no assumption beyond the module's:

- `ServerTyped`, `BufferHandedOver`, `KeysCounted`: `TypeOK`, `BufferExclusive` and
  `EveryKeyCounted` hold always.

`PInv` has `HandInv`, the values of `start` and `finish` at each pair of points of
the two threads; `BlockInv`, that the keys looked up, in the buffer and on the wire
are the block; and `TableInv`, what the lookups find and count. That the SUVM
server's `init` leaves key `b` in bucket `b` is an induction over its loop, a
recursive function. The library's induction theorems cannot be used, but a least
counterexample can: `Least` gives the smallest `n` at which the table is wrong, and
`AddNew` contradicts it.

`LaunchProofs`, for any number of processes, threads, accesses, tokens and
crashes (`LaunchAssumption`: finitely many threads):

- `TokensWhole`: `TokenWhole` holds always: what is handed to `sgx_create_enclave`
  is zeros, a token that was issued, or a mixed one. `TokenInv` adds that a process which
  reads has a file and one which writes has a token that was issued.
- `PhasesKept`: `PhasesOrdered` holds always. `thread_start` and `thread_finish`
  lose increments, so their values are not the number of threads; the inductive
  `CounterInv` says that neither a counter nor a value that was read and not yet
  written back exceeds that number. A counter that has reached the number of threads
  therefore means that all are there. `StageInv` and `OverInv` relate the main
  thread's stage to the enclave, the library and the threads.

`FaceServerProofs`, for any clients, workers, persons, requests, length of a
message and size of the queues:

- `FaceTyped`: `TypeOK` holds always, also after a message was cut or a connection
  freed in use.
- `BuffersKept`: `BuffersStable` holds always, for any lengths of writes and reads
  and with connections lost at any moment. It speaks of the states in which `sound`
  still holds; `face_split` and `ConnectionsHeld`
  (section 5) show that the condition is needed.
- `QueuesFit`: `QueuesBounded` holds always if the clients are no more than the
  slots (`QueueFits`); the code has 1024.
- `VerdictsRight`: `AnswersRight` holds always if at most one worker runs in the
  enclave (`OneInside`; any number outside). `face_shared` refutes two.

The inductive invariant `PlacesInv` says that, while `sound`, there is a map from
clients to places (none, the wire, the request queue, a worker, the response queue,
the way back) such that each place holds exactly the requests of the clients the map
sends there, as they were asked, with the counters of client and server in step. On
the wire, what the connection's buffer holds, what is on its way and what the client
has not written yet make up the message. That a request is never in two places is
then the fact that the map is a function; each action changes it at one client.
Beside it hold always, `sound` or not, the types and the count of the barrier, and,
while `sound`, that a connection which something refers to is open.

The second part of `FaceServerProofs` is about what the clients send, the file that
the generator writes and the client loads (an instance of `FaceData`):

- `DataInOrder`: `RequestsInOrder` holds always, provided `SizesFit`, the part of
  `FaceData`'s assumption on the sizes: generator and client agree on the number of
  connections, which divides the number of requests, and a histogram is no whole
  number of chunks (237568 and 16384 bytes in the code). It holds for any such
  sizes and whatever an earlier run left in the file, which is not truncated.

The requests of connection `c` are number `First(c)`, `First(c) + Ids`, ... of all;
`DInv` says that the counter in a request is its place in that sequence, that the
file begins with whole records of the requests made so far, and that the client has
read whole records, each into the array of its connection. Two facts carry it: the
chunks that the generator writes are together exactly a record, and the number of a
request determines its connection and counter.

Only model-checked:

- Liveness, which needs fairness: `AccessesComplete`, `ClientsFinish`,
  `ClientAnswered`, `EndsUnlessLost`, `ClientLoads`, and that a call returns in
  `ImplementsService`.
- `FaceData`'s `MemorySafe` and `LookupRight`: a rehash and the copies for the
  duplicates are folds over the table, and where linear probing ends after one is
  an induction over it. `LookupRight` compares histograms as well.
- `FaceData`'s `HistogramsComparable`: it compares what the loops of `Lbp` compute,
  folds over the pixels and over the 256 patterns.

## 5. Findings

`face_shared`: in the enclave `do_one` copies the stored histogram into a static
`hist_from_hash` that all workers share. The shipped configuration (`USE_SUVM`,
`NUM_OF_THREADS` 4) runs four of them, and one may compare its request with the
histogram of another's person.

`face_split`: `echo_read_cb` takes a message for complete at `DATA_SIZE` bytes, four
before its end. When what has arrived ends there (TCP may cut the stream anywhere,
and the client writes pieces of 16384 bytes), the request is compared without the
end of its histogram, and the four bytes become the start of the next message.

Statements of the source that the models refute without a run of their own. Each
is a definition of its module (the first an instance of a checked one); TLC
finds the counterexample with the constants given here in place of those of the
module's configuration.

- `Suvm!PinnedStaysCached` with one thread, three spointers and `RefMod = 2`:
  the reference count is an unsigned char; with 256 spointers on a page it is 0
  and the page is evicted under them, although `page_fault` says that the
  increment "ensures that this page cannot be evicted".
- `Rpc!EveryCallReturns` with one caller, two requests, a lock word of 0 and
  `Closes = TRUE`: `close_rpc_worker` neither drains the queue nor joins the
  worker; a caller whose request is queued spins for ever.
- `Rpc!EveryCallReturns` with a lock word of 0 and `Closes = FALSE`: `front` and
  `rear` are ints that are only incremented. After 2^31 calls their remainder is
  negative, requests are written before the array, and their callers spin for
  ever, although the comment in `rpc_ocall` says that "the consumer thread will
  unlock".
- `FaceServer!ConnectionsHeld` with the constants of `FaceSplit.cfg` and
  `Losses = {c2}`: a connection that is lost while its request is in a queue or
  with a worker is freed at once, together with the buffer that the worker reads
  and the bufferevent that the answer is written to.
- `Mem5!RobsonBound` with one thread, `NBlock = 11`, `MaxRequest = 128`, requests
  of 16, 32 and 64 and `MaxOut = 7`: eleven atoms, at most seven outstanding and
  none larger than four satisfy the inequality in the header of `mem.cpp`, and
  an allocation of four still fails. Robson's theorem is about a policy and a
  pool that this code does not have: the pool is not one power of two.
- `Spointer!DummyNotValid` with `Moves = {-1, 1}`: a spointer that is moved back
  across a page boundary before its first dereference is taken for a linked one.
- `Spointer!AssignedEqual`: `operator==` mixes `+` and `>>` with the wrong
  precedence, and compares the displaced fields of a copy.

Met while modelling, outside what the properties say: the native form of the
microbenchmark reads `*g_perf_counters`, which only `initialize_lib` sets, and
crashes (`Launch` has it crash); `ecall_lib_initialize` combines its two results
with `&=`, so a failure of `initialize_aptr` is never reported; the Windows
server never allocates its two queues; the hashmap of the generator's source
does not initialise `already_added`; `hash_key` of the SUVM parameter server has
no modulus, and a key beyond the table is looked for in the memory behind it; a
`T` that straddles two pages is accessed beyond its frame.

## 6. What is not modelled

- Direct sub-page access and `aptr_fsync`: compiled out (`DataStructures.h`
  undefines `APTR_RANDOM_ACCESS`).
- The swap thread: the calls that start and wake it are commented out, and
  `remove_entries_pcache` does nothing. `Rpc` has its flag.
- The width of `nBlock` in `memsys5Init`: with the 2 GiB pool of
  `initialize_lib`, `nByte` is negative and the division is unsigned.
- `HashMap::add` of the SUVM parameter server, which has no caller.
- The server loop of the Windows face verification program, which cannot serve
  (its queues are NULL), and `src/win/SUVM/suvm_lib/mem.cpp`, the same text as
  `static_trusted/mem.cpp`.
- `echoserver_threaded.cpp` outside `untrusted/`, which is not built.
- The addresses of the heap: that the receive buffer of a connection is four bytes
  too short is read from the code, not shown by a run.
- Short or failed writes of the workload generator (`generate_encrypted_dataset.c:629`)
  and of the client's sockets, whose results are not checked; a failing socket is a
  lost connection in `FaceServer`.
- The distance of two histograms, a sum of floats compared with a threshold:
  `FaceServer` takes it to tell persons apart.
- `hashmap.h` (under `#if false`), debug output and ocall wrappers, the library's
  tests, and `Edger` (Intel's code generator with another call substituted).

## 7. Plan

What the repository's own code does that a model can say something about is
modelled. All invariants of the runs are proved, but for three of `FaceData`, and so
are the refinements, but for the liveness in `RpcService`. Left:

1. `FaceData`: `MemorySafe`, from an invariant of linear probing: every full bucket's
   earlier probe positions are full, and there are fewer pictures than buckets. It
   needs the folds of `populate_database` and `hashmap_rehash` as recursive functions,
   so that a least counterexample can take the place of the induction (as for the
   table in `ParameterServerProofs`).
2. `Lbp`: `HistogramsComparable`, from the tables of patterns as data.
