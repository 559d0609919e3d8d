# Parallel_Network in TLA+

A load manager hands executables that clients ask for to process servers and
returns their output; the three programs talk over UDP. This directory models
them, checks the models with TLC, and proves some of the results with TLAPS.
`PROJECT.json` lists every definition with the lines it models, every run, the
mutants that show each property can fail, and the theorems.

## The system

| part | source | state | operations |
|---|---|---|---|
| `SafeQueue` | `loadManagerServer/loadManager.cxx` 21-43 | a `std::queue`, a mutex, a condition variable | `add`, `get` |
| load manager | `loadManager.cxx` 84-247 | `Client` objects (endpoint, `ProcessQueue`, `processCount`), `ProcessServer` objects (endpoint, own socket), two `SafeQueue`s, `Clientsocket_mtx` | threads `ProcessServerInitialization`, `clientAccept`, `main`/`processClient`, and one detached `processExecutable` per command |
| client | `client/client.cxx` | its socket, the flag `timeOut` | `findOpenPort`, request, handshake, timer thread, one result and one "NEXT RESULT" per executable |
| process server | `processServer/processServer.cxx` | its socket, the flag `timeOut` | `findOpenPort`, "init", handshake, timer thread, then for ever: command, output |
| network | Boost.Asio UDP sockets | bound ports, datagrams | `send_to`, `receive_from`, bind, close |
| file compression | `fileCompression/compression.cpp` | heap, tree, `.cmp` file | `compressFile`, `decompressFile` |
| encryption | `fileCompression/encryption.cpp` | none | `encrypt_data` |
| command runner | `processServer/runEXE/` | none | `popen` and collect |
| shared heap and its test | `processServer/test_p5_t1_20cycles/heap/heap.c`, `t1.c` | arenas of words shared by forked processes, a lock per arena | `SharedHeap_malloc`, `SharedHeap_free`; `main` of `t1` |

How they interact. A process server binds the highest free port below 9999 and
sends "init" to port 9999; the manager makes a `ProcessServer` object with a
socket of its own on port 9002 + its number, answers from there, and puts the
object in `serverQueue`. A client binds the lowest free port and sends its
executables to port 9000; `clientAccept` answers, makes a `Client` and puts it
in `Clients`. `main` takes one client at a time and, for each command of it,
waits for a free server and starts a thread. The thread sends the command,
waits for the output, takes `Clientsocket_mtx`, sends the output to the client
from port 9000 and waits, on port 9001, for "NEXT RESULT"; then it counts the
result, deletes the client if it was the last one, and puts the server back.

What is hard. No program looks at who sent a datagram or what is in it: each
takes the next datagram at a socket for the answer it expects, and takes its
source for the new address of its peer. So everything rests on the order of
messages at five kinds of sockets, on one mutex, on a counter that three kinds
of threads touch, and on who deletes a `Client`. Processes die, time out five
seconds after they started, and release ports that others bind at once. Every
wait is without a limit. `PROJECT.json` lists these hazards at their lines.

What makes each part correct:

* `SafeQueue`: what is got was added, once, in order; a `get` that can be
  served is; it never pops an empty queue.
* manager: each server is with one worker or in the queue once; `processCount`
  is what is left to do; a client is deleted when nobody uses it; one worker at
  a time is between a result and its acknowledgement.
* client, process server: ports are theirs alone; what a client prints are its
  results, each once; it ends when it has them all.
* together: every executable is run once and its output printed once by the
  client that asked.
* file compression: the tree is optimal, is read back, and decoding gives the
  file.
* shared heap: no word is in two blocks, none leaks, `free` finds the header of
  what `malloc` returned; one process at a time is in an arena; both processes
  end.

The shared heap is one of the executables that process servers are given. Its
processes meet only in the heap: each lock is a word that is tested and then
set, and 16-byte alignment puts a pad in front of some blocks, which `free`
must tell from a header.

## Modules

| module | models | remarks |
|---|---|---|
| `FifoQueue` | what callers of `SafeQueue` rely on | abstract; its `get` takes effect in one step |
| `SafeQueue` | `add` and `get`, a step per statement that touches shared state | refines `FifoQueue` |
| `SafeQueueProofs` | theorems about `SafeQueue` | |
| `Network` | sockets, messages, faults | extended by the three programs |
| `Client`, `ProcessServer`, `LoadManager` | the programs | one action per receive, send-and-go-on, or shared access |
| `JobService` | what the programs promise together | abstract |
| `ParallelNetwork` | their composition, its properties | refines `JobService` |
| `MCParallelNetwork` | values for the constants | |
| `ParallelNetworkProofs` | theorems about the composition | |
| `LoadManagerProofs` | theorems about the manager's workers, extends `ParallelNetworkProofs` | |
| `ConversationProofs` | theorems about what the manager and the process servers say to each other, extends `LoadManagerProofs` | |
| `ResultProofs` | theorems about what the manager and the clients say to each other, extends `ConversationProofs` | |
| `ServiceProofs` | theorems that the composition implements the safety part of `JobService`, extends `ResultProofs` | |
| `FileCompression`, `MCFileCompression` | `compressFile`, then `decompressFile` | |
| `FileCompressionProofs` | theorems about the tree, the `.cmp` file, and what is decoded of it | |
| `SharedHeap`, `MCSharedHeap` | `t1` and its heap | a step per lock test, lock write and locked section |
| `SharedHeapProofs` | theorems about the locks, the blocks and the search of `SharedHeap` | |

### How state and actions correspond to the code

`LoadManager`: `clientObj[k]` is the `Client` with `clientID` k - 1 and
`serverEndPoint[k]` is the endpoint of the `ProcessServer` with
`processServerID` k - 1 (the only field that changes); pointers are indices.
`workers[t]` is the t-th thread created, with the arguments and locals of
`processExecutable`. Freed memory keeps its index, with `deleted` set; reading
it is a choice between what was there and anything (`ReadDeletedClient`).

| action | code |
|---|---|
| `InitializeServer` | one turn of the loop of `ProcessServerInitialization` |
| `AcceptClient` | one turn of the loop of `clientAccept` |
| `GetClient` | `Clients.get()` in `main` |
| `PopProcess`, `LeaveClient`, `ReadDeletedClient` | the test of the `while` in `processClient`, with the pop |
| `Dispatch` | `serverQueue.get()`, the thread, `detach` |
| `SendCommand`, `ReceiveReply` | the two halves of `receiveMessage` |
| `SendResult`, `ReceiveAck` | `sendMessage` up to the send, and from the receive to the return |
| `DeleteClient`, `ReturnServer` | the rest of `processExecutable` |

A turn of the two accepting loops is one step: between its receive and its
`add` nothing that another thread does can be seen by it, and nobody sees the
object before it is added. The `SafeQueue`s of the manager are sequences with
atomic `add` and `get`: that is `FifoQueue`, which `SafeQueue` is shown to
implement (up to spurious wake-ups, which `SafeQueue` shows separately).

`Client` and `ProcessServer`: `clientPc` and `serverPc` say which statement of
`main` is next. The timer thread is two steps, the load of `timeOut` and
`exit(1)`, so that the answer may arrive in between. `exit` and a kill close
the socket: datagrams in it are lost, and later ones for the port go nowhere,
or to the next process that binds it.

`Network`: an address is a port, as all programs run on one host in the
documented set-up. A datagram for a port that is not bound disappears. `Faults`
says what else may happen: "loss", "duplication", "reordering", "timeout",
"clientCrash", "serverCrash". `OccupiedPorts` are held by other programs and
`FirstPort` is the lowest port a user may bind (1024 on Linux).

The model ends with the load manager, when it is terminated or has read
deleted memory and went wrong: what is left could only wait.

`FileCompression`: a tree is the function from the paths of its leaves to their
bytes. Building it is a step per merge; any two nodes of least frequency may
be merged, as the order of an `unordered_map` decides. `compressFile` then
writes the file in one step, whole, or cut short where the disk was full.
Reading the tree back is a step per call of `recursiveBuildTree`, with the path
for the stack of the recursion; decoding is a step per bit. Bytes have
`ByteBits` bits, for values and for packing alike.

`SharedHeap`: `word[a]` is arena `a`, an array of words that starts with a
header; the header of a free block is its complement, as in the code.

| action | code |
|---|---|
| `Turn`, `CleanUp` | the loop of `main` in `t1.c` up to the next call, and the loop that frees what is left |
| `PassLocked`, `TestLock`, `TakeLock` | `SharedHeap_malloc`: the arena is locked, is found free, is locked (`heap.c` 124-128) |
| `Allocate`, `LeaveArena` | `findFreeSpace` with `joinFreeSpace`, the split, and the unlock; or no room, and the unlock |
| `ReturnBlock` | the pad, written after the unlock, and the caller's writes to both ends |
| `Panic` | `malloc` returns `NULL` after three rounds, and `t1` gives up |
| `Spin`, `GrabLock`, `FreeBlock` | `SharedHeap_free`: wait, lock, flip the header, unlock |

What is done under a lock is one step, as long as the lock works. When two
processes are in one arena (`Raced`) their reads and writes of its words
interleave freely, which C leaves undefined; the model records that it happened
and ends there. `overtaken` is a history variable: somebody set the lock after
this process had found it free and before it set it.

## Runs

| run | question | result |
|---|---|---|
| `safe_queue` | does `SafeQueue` implement a FIFO queue for two adders and one getter? | yes, until a wake-up is spurious |
| `safe_queue_spurious` | does `get` block "until something is pushed" (line 37)? | no: the `if` at line 36 |
| `system` | do the programs implement `JobService` on a faultless network, and does everybody finish? | yes |
| `crashes` | who owns which port and server when processes die and ports run out? | each port one owner; each server object in the queue or with one worker |
| `unreliable` | what still holds when datagrams are lost, doubled, reordered? | kinds of datagrams, counting, deletion, the mutex |
| `loss` | and when they are only lost? | also: the right replies and acknowledgements, no endpoint redirected, nothing twice, nothing for the wrong client |
| `deleted_client` | is a client deleted when nobody uses it (line 224)? | no: `main` asks it whether its queue is empty (line 230) |
| `killed_client` | does a client get its results whatever other clients do? | no: one killed before it acknowledges blocks all |
| `long_request` | are all arguments executables (`README.md` line 6)? | only those in the first 1024 bytes |
| `file_compression` | is the tree optimal and read back, and what is decoded? | the file, and what the filling of the last byte spells |
| `round_trip` | is it the same file (`fileCompression/README.md` line 15)? | no |
| `shared_heap` | is the heap partitioned, are the counters right, does `malloc` find what room there is, is an arena one process's, do both processes end? | yes, but for the window between the test of a lock and its setting |

`system` has no fault, and its behaviours are among those of `loss`: what holds
with lost datagrams (`RepliesMatch`, `AcknowledgedMeansPrinted`,
`EndpointsKept`) is checked there, and `system` checks what only holds without.
`ServerExclusive` is about the manager's objects: an object whose process has
died is with its worker for ever, and a process that announces itself twice has
two; the hazards that begin there are listed without it.

Bounds. Two clients, one with two executables where an order of commands of
one client matters, and two process servers: enough for two workers with one
client, with two clients, and for a server that is used again. `Threads` is at
least the number of workers there can be. `MaxDuplicates` is 1: one duplicate
shifts everything behind it, a second one repeats that. `unreliable` has one
process server, as the two workers it needs at port 9001 can have it in turn.
`crashes` leaves three ports to process servers and one to clients, so that
`findOpenPort` fails and ports are taken over; there every process is
interchangeable, and symmetry is used, as the run has no liveness property.
`BufCommands` is the number of commands that fit in the manager's buffer:
more than anyone sends, except in `long_request`. In `FileCompression` bytes
have three bits, so that trees and files have partial last bytes of every
size; files have up to five bytes of four values, and some are longer, with
skewed trees and with ties between leaves and merged nodes. `MaxUnderflow`
bounds how often an empty queue is popped.

`shared_heap` has parent and child, two arenas of eight words, two pointers and
two turns for each: requests of two words leave odd and even headers, so pads
and no pads, splits, and three neighbours to join; a request of seven fills an
arena, so that `malloc` goes on to the second one, and fails.

Deadlock is not checked where the system may stop: clients end, and the rest
waits for more. It is checked for `SafeQueue`.

Fairness. Weak fairness for every thread that can go on, as the scheduler gives
it; none for starting a client, calling `add` or `get`, faults, timers and
spurious wake-ups. Process servers are started, as `usage.txt` asks. Weak
fairness is enough for `Clientsocket_mtx`, as a worker takes it once. In
`shared_heap` each process runs, which is the operating system's fairness to
two processes; that `free` gets its lock under weak fairness alone is because
the other's turns are bounded.

## Proofs

`SafeQueueProofs`, for any sets of adding threads and of elements and one
getting thread (`SingleConsumer`: in the program `main` alone calls `get`):

* `SafeQueueTypeCorrect`, `SafeQueueMutualExclusion`: from `LockInv`, which says
  that a thread is between locking and unlocking exactly when it is the one in
  `mtx`.
* `SafeQueuePopsNonEmpty`, `SafeQueueNoLostWakeup`: from `QueueInv`, which adds
  that a getter that was notified, or has seen an element, finds one. It holds
  as elements only leave by the getter itself; with two getters it would not.
* `SafeQueueImplementsFifo`: every step is a step of `FifoQueue` or leaves its
  variables alone.

`ParallelNetworkProofs`, for any clients, commands and process servers, any
ports held by other programs, and with any of the faults (`NetworkAssumption`
and `BufferAssumption` are all that is assumed):

* `PlaceInvariant`: `PlaceInv` is inductive. It has a part per program and one
  for the network. Its idea is that the number of a port says who can read it:
  clients are below 9000, process servers and the manager's sockets between
  9002 and 9998. That is needed because ports are found, released and found
  again by others while datagrams for and from the old owner are under way: an
  invariant that named the owner would not survive an exit. `ManagerPorts`,
  which grows in the middle of the servers' zone, is kept apart by `Bound`: the
  manager takes a port only when it is free, and ends otherwise; so it never
  gets to 9999 either.
* `AlwaysExpected`, `AlwaysExclusive`: `DatagramsExpected` and `PortsExclusive`
  follow. The searches of the two `findOpenPort` are shown to end at a free
  port, from the well-foundedness of the natural numbers.

`PlaceInv` gives every variable its type but for `processCount`, which it only
knows to be an integer: that a `size_t` suffices is part of `CountMatchesWork`.

`LoadManagerProofs`, under the same assumptions, with any of the faults:

* `WorkInvariant`: `WorkInv` is inductive on top of `PlaceInv`. Its parts need
  each other. `OneSender` (one worker is between a result and its
  acknowledgement, the one in `Clientsocket_mtx`) and `ServerExclusive` (a
  `ProcessServer` object is in the queue, once, exactly when no worker has it,
  and one worker has it otherwise) stand alone, but
  `CountMatchesWork` (`processCount` is the commands not yet popped and the
  workers that have not counted theirs) needs that a worker counts once and
  that `main` pops only for a client that is not deleted. `DeletedOnce` says
  who deletes: a count of 0 means that exactly one worker is about to delete
  the client, or has. It is needed as a worker that finds 0 must be the only
  one, and it holds as the decrement and the comparison are under the mutex.
* `AlwaysOneSender`, `AlwaysExclusiveServers`, `AlwaysCounted`,
  `AlwaysLiveClients` and `AlwaysTyped` follow; the last one needs the count, as
  `TypeOK` has `processCount \in Nat`.

`ConversationProofs`, for any clients, commands, process servers and occupied
ports, when nothing worse happens than lost datagrams and killed clients
(`LossAndKills`; with any other fault `RepliesMatch` is false):

* `TalkInvariant`: `TalkInv` is inductive on top of `PlaceInv` and `WorkInv`.
  `receiveMessage` takes whatever comes next for the reply, so that it is right
  depends on all that may be at that socket. `Announced` says that a process
  server announces itself once and is known by one object from then on, and
  `Conversations` follows each command: while its worker waits there is one
  trace of it, in the inbox of the process (behind the greeting, perhaps),
  in its hands, or as the one datagram at the manager's socket. `ServerExclusive`
  is needed for a second command not to be sent meanwhile, and
  `PortsExclusive` for a datagram not to belong to another conversation.
* `AlwaysRepliesMatch`: `RepliesMatch` follows. `AlwaysSameServers`: so does
  that `serverEndPoint` is only overwritten with what it was.

`ResultProofs`, under the same assumptions, when nothing worse happens than lost
datagrams (`OnlyLoss`; a client that dies can leave its port, and its results,
to another):

* `ResultInvariant`: `ResultInv` is inductive on top of `PlaceInv`, `WorkInv`
  and `TalkInv`. `sendMessage` takes the next datagram at port 9001 for the
  acknowledgement of its result, so again all that may be on its way there has
  to be known. `Requesting` and `Owned` say that a client asks once and that the
  object made of its request stays its own; `CommandsOnce`, that each command is
  in one queue, in the hands of `main` or with one worker, without which two
  workers could send the same output. `Deliveries` then says what greeted
  clients and port 9001 can receive: nothing while `Clientsocket_mtx` is free,
  and while it is held the holder's result, before it is printed, or the
  acknowledgement of it, after. A greeting that was lost lets the handshake take
  the result instead; that loses the result, and the invariant allows it.
  `PrintOnce` ties what was printed to how far each worker has come.
* `AlwaysAcknowledgedMeansPrinted`, `AlwaysEndpointsKept` and
  `AlwaysResultsRight` follow. The last one counts: a client ends after as many
  results as it asked for commands, and as they are all different (`Onto`),
  these are the results of all of them.
* `FlowInvariant`, when nothing goes wrong at all (`NoFaults`): `FlowInv` is
  inductive on top of `PlaceInv`, `TalkInv` and `ResultInv`. These say what can
  be under way, `FlowInv` that it is. `Greeted`: the answer to a request is the
  first thing a client receives, so that the handshake never takes a result.
  `Moving`: while a worker holds `Clientsocket_mtx`, its result is in the inbox
  of its client, or the client has just printed it, or the acknowledgement is
  in the inbox of port 9001.
* `AlwaysStopAndWait`: `StopAndWait` follows, as `Deliveries` leaves room for
  one result or acknowledgement and `Moving` asks for one.

`ServiceProofs`, under the same assumptions, when nothing worse happens than
lost datagrams:

* `RunInvariant`: `RunInv` is inductive on top of the four above. They say where
  a command and its output are, and not whether it was run; `RunInv` adds that.
  What was run left a worker first (`RanForWorker`), no inbox of a process
  server has it any more (`NotYetRun`), and what the process server has in hand,
  has replied to, or the worker has received, was run (`RanWhenRunning`,
  `RanWhenReplied`, `RanWhenReceived`). `RanForWorker` is needed for a command
  not to have been run before it is sent, together with `CommandsOnce`.
* `ServiceRefined`: `LossOnlyStalls`, that is, `SafetySpec` implements
  `Service!SafetySpec` under the mapping of `ParallelNetwork`. `ServiceNext` maps
  the steps: `StartClient` is `Ask`, `ReceiveCommand` is `Run` (`NotYetRun` gives
  its guard, `Owned` the client), `ReceiveResult` is `PrintOutput` (`Deliveries`
  says whose output it is and `RanWhenReceived` that it was run), the last
  `Acknowledge` is `Finish` (`AllPrinted`), the end of the manager is `GoDown`,
  and every other step changes nothing that `JobService` shows.

`SharedHeapProofs`, for any number of processes, arenas, words, sizes, pointers
and turns:

* `LockInvariant`: `PlaceInv` (where a process is and that its pointers lead to
  arenas) and `LockInv` are inductive. `LockInv` strengthens the property by the
  processes that wait: who has found a lock free that somebody holds by now was
  overtaken. Without it, taking the lock would not show that the two in the
  arena met through the window.
* `AlwaysExclusiveUnlessOvertaken`: `ExclusiveUnlessOvertaken` follows.
* `HeapInvariant`: so are, on top of these, `TurnInv` (which pointer a process
  is about, and that it has been freed or not), `OwnInv` and `CountersRight`.
  `OwnInv` is about words: the headers of an arena lead from its first word to
  `LastAddress + 1`, an allocated block has at least one word and a padded one
  two, and everything that is claimed, a pointer kept or a block carved, has an
  allocated block of its own, whose pad reads 0, with no block left over.
  `BlocksOwned` counts blocks instead, which a step does not preserve: that two
  pointers do not share a block is what makes the counts agree. A step of a
  process changes the words of one arena, and there only those of its own
  block, or of free ones; the pads and payloads of the others do not move, as
  allocated blocks are disjoint.
* `AlwaysBlocksOwned`, `AlwaysCountersRight` and `AlwaysLeftOnlyIfFull` follow.
  The last one says that the first fit misses nothing: the blocks passed over
  are allocated ones and runs of free ones, joined to where the next allocated
  block starts, so that a run of free words that could take the request would
  start at a block that `findFreeSpace` stops at.

The functions of `SharedHeap` that go from header to header are recursive, and
what they compute is shown without induction over data. For each, the proof
builds a function that satisfies the recursive equation, so that the one TLA+
chooses does too, and describes it by chains: a set that has the first header
and, with every header, the next one behind it. Every header lies behind the one
before it, so two chains agree, and a fact about all headers is shown at the
least, or the greatest, header it could fail for.

`FileCompressionProofs`, for any files, width of a byte, keystream and nonces,
any order of nodes of one frequency, and a disk that is full at any byte, or
never (`FileAssumption` only gives these constants their types):

* `CodecInvariant`: `Inv` is inductive. It has a part for each stage of the two
  programs. `HeapInv`: the trees in the queue are full, every node has two
  children or a byte, and each byte of the file is in one leaf of one of them.
  `FileInv`: what is on the disk is a whole number of bytes of `Contents`.
  `ReadInv`: `recursiveBuildTree` has no lengths to go by, so what it relies on
  is that each node of the tree has one place in the serialized tree. `Start` is
  that place, the number of bits in front of the node; `index` is `Start` of the
  node that `path` leads to, and the leaves that have been made are those whose
  `Start` is smaller. It needs that the part of a node lies within that of the
  node above it (`PartsNest`), that the leaves come one after the other, and
  that `Return`, the model of the stack of the recursion, is the node whose part
  begins where that of a leaf ends (`ReturnSound`). `DecodeInv`: the
  decoder has decoded k bytes of the file and read the beginning of the code of
  the next one, or it is past the codes, in the filling. No code begins another, as
  `HeapInv` has the bytes in leaves, so it does not leave that code; and in the
  filling, which is shorter than a byte, it makes a byte per bit at most.
* `AlwaysTypeOK`, `AlwaysTreeRebuilt`, `AlwaysOutputFollowsInput` and
  `AlwaysDefinedUnlessEmptyOrCut` follow. The keystream needs no property: the
  exclusive or undoes itself whatever it is.
* `HuffmanInvariant`: `OptInv` is inductive on top of `Inv`, and
  `AlwaysTreeOptimal` follows. `OptInv` says, for all lengths of codes that Kraft's
  inequality allows, that the trees in the queue can be given depths that the
  inequality allows too, so that the file becomes no larger. At first the depths are
  the lengths themselves; when one tree is left, its depth is at least 0, and
  its own paths are the code. That a merge keeps it is the argument for
  Huffman's algorithm: among depths that cost least, the lightest node can have
  the greatest one (`Exchange`); another node has it too, or the lightest could
  be a bit higher (`Shorten`); and the second lightest can change places with
  that one (`LightestTwo`). Then the two are siblings, and the depths for the
  merged trees cost the same (`MergedLengths`).

`ByteOf`, `FlattenSeq`, `SerializeTree` and `TotalBits` are folds or functions
that recurse. What they give for every input is shown like the searches of
`SharedHeap`: the proofs build a function that satisfies the recursive equation, by
induction over the numbers up to a length or over the subsets of a finite set,
with the sets of numbers, or of subsets, for which it holds in place of a
predicate.

Checked by TLC only: everything about liveness, `EveryClientFinishes`,
`ServersComeBack`, `ProcessesEnd` and the fairness in `ImplementsJobService` and
`ImplementsFifo`, whose proofs are out of the prover's reach. Every invariant
of a passing run is proved.

## Known behaviour without a run of its own

* A duplicated acknowledgement ends the next worker's wait and sends the next
  results of that worker's client elsewhere (line 104).
* A process server whose "init" is doubled, or that is restarted on its old
  port, is two `ProcessServer`s to the manager.
* The constructor of `ProcessServer` throws, uncaught, when its port is taken
  by a process server that found it first, and for the 998th server at the
  latest, which would need port 9999: the manager terminates.
* A timer that has loaded `timeOut` ends its process although the answer came.
* A new client can get a dead client's port and its results.

## Not modelled

* Boost and the compiled programs in the tree: vendored or built elsewhere. Of
  Boost the model has what the programs rely on, `Network`.
* `ProcessorList`, `Process`, `LoadManager` and the curl handle: declared, and
  used by nothing.
* The text of messages and of the log; results longer than the 1024 bytes of the
  client's buffer; executables that never end; more than one load manager.
* `generate_random_pattern`: its keystream is a constant of `FileCompression`,
  as the properties hold for every pattern that both directions share.
* `SharedHeap_realloc` and requests of no words: nothing in the tree calls or
  makes them. What two processes in one arena do to its words: undefined.
* `runEXE` beyond its result: `popen` and reading until the end of the output
  have no state that outlives the call.

`processServer.cxx` has the markers of a merge left at lines 42 to 46; both
halves run the same code, and that is what is modelled.
