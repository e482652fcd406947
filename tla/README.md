# TLA+ specifications of FunnelKVS

FunnelKVS is a distributed key-value store in C++: TCP servers that form a
Chord ring, store keys at the node responsible for them and copy them to its
successors. This directory models its servers, their clients and what goes over
the wire between them, checks the models with TLC on small instances and proves
the safety properties of all modules with TLAPS for every instance.

Contents: [the system](#the-system), [the modules](#the-modules),
[the runs](#the-runs), [the proofs](#the-proofs),
[what is left out](#what-is-left-out), [plan](#plan).

## The system

| Part | Source | State | Operations |
|---|---|---|---|
| ChordNode | `src/chord.cpp`, `include/chord.h` | `predecessor`, `successor_list`, `finger_table`, `next_finger_to_fix` (all under `routing_mutex`), `running`, `local_storage` | `create`, `join`, `leave`, `start_maintenance`, `stop_maintenance`, `find_successor`, `stabilize`, `notify`, `fix_fingers`, `failure_detection_loop`, `handle_node_failure`, `store_key`, `retrieve_key`, `remove_key`, `transfer_keys_to_node`, `receive_transferred_key` |
| ChordServer | `src/chord_server.cpp` | `chord_enabled` | one handler per opcode, `create_ring`, `join_ring`, `leave_ring`, `stop` |
| Server, ThreadPool | `src/server.cpp`, `include/server.h` | `running`, `accept_thread`; task queue, `stop` flag, condition variable | `start`, `stop`, `accept_loop`, `handle_client`; `enqueue`, `worker_thread`, destructor |
| Server program | `src/chord_server_main.cpp` | `shutdown_requested`, `g_server` | `main`, `signal_handler` |
| FailureDetector | `src/replication.cpp` | one `NodeStatus` per peer | `ping_node`, `mark_node_responsive`, `mark_node_failed`, `cleanup_old_entries` |
| ReplicationManager | `src/replication.cpp` | queue of tasks (asynchronous mode) | `replicate_put`, `replicate_delete`, `get_from_replicas`, the queue thread |
| Identifiers | `src/hash.cpp` | none | `add_power_of_two`, `in_range`, `distance`, SHA-1 |
| Storage | `src/storage.cpp` | a map behind a mutex | `put`, `get`, `remove`, scans |
| Protocol, Client | `src/protocol.cpp`, `src/client.cpp` | a connection | encode, decode, request with one redirect |

**How the parts interact.** A ChordNode is shared by the main thread, three
maintenance threads it starts (and later detaches) and the pool workers, each
running the handler of one request. They meet in `routing_mutex`, in the mutex
of Storage and in the mutex of FailureDetector. Nodes talk through `Client`
connections. ChordServer runs in a program whose main thread, signal handler and
ADMIN_SHUTDOWN thread all stop and destroy it. Three points of the code decide
the shape of the models:

* `contact_node` does not ask the peer anything: it connects, marks the peer in
  the failure detector and returns the peer itself. So `stabilize` never learns
  a new successor, and no node of this repository ever sends NOTIFY. The handler
  of NOTIFY exists and is exercised from outside.
* `routing_mutex` is a plain `std::mutex`. Two code paths lock it while holding
  it: `find_successor` around `closest_preceding_node`, and
  `handle_node_failure` around `find_successor` and `trigger_re_replication`.
* A replica is a plain client's peer: it gets an ordinary PUT, GET or DELETE and
  serves it as if a user had sent it, so it replicates on to its own successor,
  and a request holds one worker of every node on its way.

**What is hard.** Which thread is where when the routing state changes between
two critical sections of one call; the second lock, reached only for some
positions of predecessor, successor and identifier; keys selected with one
predecessor and removed under another; a ping's answer written after another
thread's mark; threads nobody joins; wakeups lost at shutdown; two threads that
stop one server while a third destroys it; retries that overtake newer writes;
calls given up by one side and completed by the other; replies and requests cut
anywhere; carries, borrows and ranges across zero. `PROJECT.json` lists these hazards at their lines.

**What makes it correct.** No thread waits for a mutex it holds. Every request
is answered and every thread ends. Node and successor together cover the ring,
so that a lookup has an answer. A transfer moves the keys that changed hands and
no other. A peer is reported failed for a reason the network gave, and a dead peer
is reported in the end. No task of the pool is forgotten and the
pool stops. A client that was told its PUT or DELETE succeeded finds it so. A
call gets the answer to its own request, or fails. An accepted replication task
is carried out or given up after its retries. Byte arithmetic is arithmetic
modulo 2^160.

## The modules

| Module | Models | Used by |
|---|---|---|
| `Hash` | identifiers as numbers, `add_power_of_two`, `in_range` | `ChordNode`, `HashBytes` (as reference) |
| `HashBytes` | the byte loops of `hash.cpp`, one action per function call | run `hash_bytes` |
| `ChordNode` | one node, all its threads, the handlers of ChordServer | `MCChordNode`, proofs |
| `MCChordNode` | `ChordNode` for TLC, with the symmetry of workers | runs `node_*` |
| `FailureDetector` | the entry of one peer and the two threads that write it | run `detector` |
| `ThreadPool` | queue, workers, condition variable, destructor | `Lifecycle` |
| `Lifecycle` | main, signal, ADMIN_SHUTDOWN, start, stop and destruction, composed with `ThreadPool` | run `lifecycle` |
| `ReplicationQueue` | the asynchronous queue of ReplicationManager | run `queue` |
| `Delivery` | what that queue promises, without queue or threads | `ReplicationQueue` (refinement) |
| `KeyValueRing` | several nodes: the path of a GET, PUT or DELETE with values, workers and replicas | runs `ring`, `ring_consistency` |
| `Wire` | Protocol, Client and `handle_client` on byte streams | `MCWire` |
| `MCWire` | the keys of `Wire` for TLC | run `wire` |
| `ChordNodeProofs`, `FailureDetectorProofs`, `LifecycleProofs`, `ReplicationQueueProofs`, `KeyValueRingProofs`, `WireProofs`, `HashBytesProofs` | theorems about the module in their name; `LifecycleProofs` also about `ThreadPool`, `ReplicationQueueProofs` about `Delivery` | |
| `NumberTheorems` | least elements, minima and maxima of sets of numbers; induction and recursive definitions along `0 .. N`; uniqueness of quotient and remainder | the proofs |

### ChordNode

A node, and the hash of a key, is an element of `Hash160 == 0 .. 2^Bits - 1`;
`NodeInfo` compares by id, so nothing else of it matters. Values are left out.
Each thread has a program counter `pc[t]` and locals `loc[t]`; a label is a
place between two steps.

*Granularity.* A critical section that neither calls out nor locks again is one
step, enabled when nobody holds the mutex (`Locks`). Network calls are steps of
their own outside the mutex. A path that locks the held mutex ends at the label
`relock`, with `holder` set for good: the code after it is unreachable, and the
model says so rather than executing it. A `Storage` call is one step, except the scan
of `transfer_keys_to_node`: it holds the mutex of Storage throughout
(`StorageFree` is the guard of every other Storage call), and each of its two
reads of `predecessor` per key, made without `routing_mutex`, is a step. A null
pointer read through, and `std::stoi` on a NOTIFY without a port, end the process:
the label `crashed`, after which nothing moves.

| Code | Actions |
|---|---|
| `create`, `join` | `Create`, `Join` |
| `start_maintenance`, `stop_maintenance` | `StartMaintenance`, `StopMaintenance` |
| `leave` (and `leave_ring`) | `StopMaintenance`, `LeaveReadSuccessor`, `Transfer("main")`, `LeaveReset`, `DisableChord` |
| `find_successor` | `FindSuccessorCheck`, `FindSuccessorLookup` |
| `stabilize` | `StabilizeRead`, `StabilizeContact`, `StabilizeAdopt`, `StabilizeNotify` |
| `fix_fingers` | `FixFingersNext`, `FixFingersCall`, find_successor, `FixFingersSet` |
| `failure_detection_loop` | `CopyNodesToCheck`, `PingNode`, `PingsDone`, `HandleFailed`, `FailuresDone` |
| `handle_node_failure`, `trigger_re_replication` | `HandleSuccessorFailure`, `HandleOtherFailure`, `TriggerReReplication` |
| NOTIFY: `notify` + `transfer_keys_to_node` | `ReceiveNotify`, `ReceiveMalformedNotify`, `Notify`, `TransferScan`, `TransferTest`, `TransferRead`, `TransferSend`, `TransferRemove`, `TransferDone` |
| GET, PUT, DELETE | `ReceiveKeyRequest`, `Gate`, `Redirect`, `CheckResponsible`, `Forward`, `StoreLocally`, `GetLocally`, `ExistsLocally`, `ProbeReplicas`, `RemoveLocally`, `Replicate`, `Rollback` |
| FIND_SUCCESSOR, TRANSFER_KEY | `ReceiveFindSuccessor`, `Answer`; `ReceiveTransferKey` |

*Environment.* Peers in `Faulty` may or may not answer each contact; the others
always do. Peers in `Notifiers` send NOTIFY at any time. Whether a replica
accepts a PUT or a target a transferred key is left open. The failure detector
is here only the set `detected` of peers it would report; module
`FailureDetector` has its counters.

*Abstractions.* The vectors of `failure_detection_loop` are sets (order left
open). `cleanup_old_entries` may forget any reported peer, since time is not
modelled here. The test of `running` at the head of `stabilize` and
`fix_fingers` is the one of the loop. A NOTIFY that names the node itself is
ignored by the code and left out.

### FailureDetector

One peer, watched as successor, as predecessor, as both or not at all. It answers,
is silent (accepts connections and says nothing), or is down: a ping needs an
answer, `contact_node` only a connection. A network call and the write of its
result are two steps (`PingNetwork`/`PingWrite`, `ContactNetwork`/`ContactWrite`),
and `TakeSuccessor` is stabilize's read of the successor before them. A peer in both
roles is pinged twice a round, as in the code.

Time is counted in rounds of `failure_detection_loop`: `since` is the age of
`last_seen`, `uptime` that of the clock's epoch, which is the `last_seen` of an entry
no answer has written. Ages past `max_age` and counts past the threshold are not told
apart (`OldAge`, `FailureCap`). `Handle` is `handle_node_failure`: for a successor,
and for a predecessor when a key is held, it locks `routing_mutex` again, and the loop
is `wedged`, with the mutex held: no NOTIFY is taken and stabilize does not read
the successor any more. Otherwise the peer is taken out.

The history is kept where the network acted, not where its result was written:
`missed` and `refused` say what happened since the peer was last heard, and
`overtaken` that a failure was written over an answer that is newer than it.

### ThreadPool and Lifecycle

`condition.wait(lock, pred)` is four labels: `lock`, `test` (mutex held),
`block` (predicate false, mutex still held, not yet waiting) and `asleep`. A task
is one connection; `MaxTasks` bounds how many are accepted.

`Lifecycle` extends `ThreadPool` with the program around it. The pool's accept
thread is the server's, its destructor runs as a member of the server after
`accept_thread` is gone, and its workers are either inside a handler that uses
`chord_node` (`inside`), in the base server's handler, or in pool code.

| Code | Actions |
|---|---|
| `main` | `EnableChord`, `StartMaintenance`, `AssignThread` (create_ring, join_ring), `StartServer`, `SocketFails`, `AssignAccept`, `EnsureRing`, `LeaveLoop`, then the destructors |
| `signal_handler`, ADMIN_SHUTDOWN | `Signal`, `AdminShutdown`: two callers of `stop`, `"main"` and `"admin"` |
| `ChordServer::stop` | `DisableChord`, `TestNode`, `StoreNode`, `Detach`, `ClearEnabled`, `TestRunning`, `StoreRunning`, `TestJoinable`, `JoinAccept`: at most one access to a shared flag each, and `UseDestroyed` when the server is gone |
| destructors | `DestroyNode`, `DestroyAcceptThread`, `DestroyPool` |
| `accept_loop` | `AcceptConnection`, `AcceptStep` |
| `process_request` | `EnterChord`, `LeaveChord`, `BlockInChord`, `ServeBase` |

Each store of `running`, the server's or the node's, and each assignment of a
thread is a step, so that a signal falls between any two of them; `torn` remembers
that it fell between a store of `running` and the last of the threads that go with
it. `BlockInChord` is a handler that waits for a `routing_mutex` locked twice: it never
returns, and may happen to any handler.

`crashed` stands for `std::terminate` (a joinable thread assigned to or destroyed, a
thread joined or detached twice) and for `stop` running on a destroyed server. It is
about main, the signal and ADMIN_SHUTDOWN; the crashes of handlers are in `ChordNode`
and `Wire`. A handler or a
detached maintenance thread that is still inside the node when it is freed is
reachable, and the model goes on as if it returned: what its memory then holds
cannot be said. The handler of a signal runs on the main thread, which is where
Linux delivers it when that thread does not block it. One signal and one
ADMIN_SHUTDOWN come in a behaviour. `server_fd`, closed by each caller of `stop`,
is left out.

### ReplicationQueue and Delivery

One key, tasks numbered in the order they are queued, so that a PUT's number is
its value. The processing thread's wait has the labels of `ThreadPool`. `Send` has
four ends: answered; executed with its answer lost; given up by the sender while the
request is under way, which the replica then executes at any later time or never
(`ExecuteLate`); and lost. A DELETE of a key the replica does not have is refused, so a DELETE
whose answer was lost fails on its retry. Stop and start may alternate, as
`stop_maintenance` stops the queue. `Delivery` is the promise: each accepted task
is attempted at most `1 + max_retries` times and becomes replicated, or failed
after the last attempt, and this comes about while the processing runs.
`ImplementsDelivery` is the refinement, with liveness: `fate` comes from `type`
and `outcome`, an attempt is complete when `process_single_task` returns.
`Delivery` says nothing about the order of tasks; `StaleOnlyAfterFailure` says what
the code keeps of it.

### KeyValueRing

Nodes as the program leaves them: since nothing sends NOTIFY, no node has a
predecessor, each takes itself to be responsible for every key, and the node it
joined through is its one replica. `Init` has every such tree. `join` would also let
two nodes join through each other; a PUT would then be replicated around the circle
without end, until timeouts cut it, and its calls have no bound, so circles are left
out. A request is a
stack of calls, `call[q][d]` running in a worker of its node and `call[q][d + 1]`
in one of that node's replica. A call may be given up by its caller (`TimeOut`)
and goes on without it; a connection may be refused; a node may be restarted
empty under its old address (`Restart`). Values are request numbers.

| Code | Actions |
|---|---|
| `ThreadPool`, connection | `Begin`, `Take` |
| `store_key` | `StorePut`, `Rollback` |
| `retrieve_key` | `RetrieveGet` |
| `remove_key` | `FindForRemove`, `RemoveKey` |
| `replicate_put`, `replicate_delete`, `get_from_replicas` | `Ask` and `Resume` inside these, `Receive`, `Disconnected`, `TimeOut` |

The redirect and forward branches are not reached without a predecessor;
`ChordNode` has them. `replication_timestamps`, written and never read, is left
out. A client of the ring never gives up, so `answer`
is what its node said.

### Wire

A connection is two byte sequences and the state of both ends; a transfer moves
any portion (`Portions`), a server closes when it has waited five seconds or the
client has gone, and what was sent before a close is still read. Encoders and
decoders are the code's, with lengths of `LengthBytes` digits in base `Radix`.
`handle_client` reads in its three stages (`Expected`, `NextStage`) and then
decodes the whole again, as the code does. The client's server answers
`Redirected` keys with REDIRECT, which `Client` follows once, through a
connection of its own that ends with the call. A PUT that ChordServer could not
replicate is answered with ERROR and rolled back, which removes the key, also a
value that was acknowledged before; `copies` are the values replicas may have kept,
and a GET of a key that is gone may find one of them (`Found`). Whether `::connect` succeeds at
once is left open, and with it whether the connection has timeouts.

Nothing in the repository handles SIGPIPE or passes MSG_NOSIGNAL, so a `send`
after the reset of the connection ends the process: `ClientSendKilled`,
`ServerSendKilled`. The first `send` after the peer's close is still accepted.

`asked` and `answer` of a connection, `possible` and `unsure` are history: what
the properties compare the program's results with. The server's storage,
`Redirects` and `Answers` stand for `process_request` of Server and ChordServer.
`WireAssumption` keeps `key_len + 4` below the largest length, so that the sum of
server.cpp:195 does not wrap.

### HashBytes

Identifiers of `Size` bytes of `ByteBits` bits. The loops are recursive
functions over byte indices, with the carry and borrow of the code; each
behaviour makes one call with arbitrary arguments and the invariants compare its
result with modular arithmetic and with module `Hash`. `Num` is the number that
bytes spell, by Horner's rule from the most significant byte.

## The runs

`tlc -workers 2 -config X.cfg M`; the largest, `ring` and `node_two_workers`, have
3.4 million states. `node_two_nodes`, `node_two_workers`, `lifecycle` and `ring` take
one and a half to three minutes each, the others about a minute or less.

| Run | Expect | Shows |
|---|---|---|
| `node_two_nodes` | pass | A node that joined, with NOTIFY from a node between it and its successor, lookups, key requests and all maintenance: `TypeOK`, `NoSelfDeadlock`, `RingCovered`, `LookupsStayLocal`; `RequestsAnswered`, `StoppedThreadsExit`: requests are answered and detached threads exit |
| `node_two_workers` | pass | Two requests at once, NOTIFY from the successor: `ForwardsElsewhere`: a key request whose key is taken from the node between its two tests of responsibility is sent to another node |
| `node_faults` | pass | With everything allowed, including leave, malformed NOTIFYs, keys and a failing successor: `WedgeIsFinal` |
| `hash_bytes` | pass | `CarryLoopAddsOnRing`, `InRangeIsClockwise`, `DistanceForward`: byte loops are arithmetic on the ring |
| `detector` | pass | `TypeOK`; `FailedIsExplained`: a report has its cause in what the network did since the peer was last heard, or in a write that came late; `DownPeerReported`: a peer that was heard and stays away is handled |
| `lifecycle` | pass | `LTypeOK`, `WakeupOnItsWay`, `EveryTaskTaken`: no task waits while all workers sleep, each is taken unless the pool stops or is blocked; `FreedAfterDisable`, `NoEarlyBase`, `CrashIsExplained`: a stop at any step, by signal or request, and what it can leave behind; `ShutdownCompletes`: a signal ends the process, except after a missed wakeup, and when a handler is blocked in the node |
| `queue` | pass | `TypeOK`, `ImplementsDelivery`, `StaleOnlyAfterFailure`, `StopReturns` for two producers, one retry, and requests that are lost, late or unanswered |
| `ring` | pass | `TypeOK`, `AckedPutOnPath`, `AckedKeyReadable`, `DeletedStaysDeleted`: what an acknowledged PUT or DELETE means; `NoPoolDeadlock`: pools of one worker do not wait in a circle |
| `wire` | pass | `TypeOK`, `FramesDecode`, `AnswerIsOwn`, `ReadsExplained`, `KilledOnlyMidReply`, `CallReturns` |
| `node_failure_exit` | violation | A failed successor: `handle_node_failure` waits for itself, threads never exit (`StoppedThreadsExit`) |
| `node_transfer` | violation | Two workers, two notifiers: a transfer takes away a key this node is responsible for (`TransferKeepsOwnKeys`) |
| `ring_consistency` | violation | PUT at the node that joined, then at the node it joined through: the first keeps the old value for ever (`EventuallyConsistent`) |

Each violation run states a sentence of the repository; `PROJECT.json` quotes
it under "findings".

Met while modelling. Where a property of a passing run names the case as its
exception, TLC also reaches that case when the exception is taken out of it:

* With three nodes, or a ring's creator that was told of a predecessor, the
  predecessor need not be the successor. `fix_fingers` then meets an identifier
  in the gap and waits for itself in `closest_preceding_node`: `NoSelfDeadlock`
  fails when `node_two_nodes` is given a notifier beyond the successor, or
  `Existing = Self`. CONCURRENCY_CONTROL_IMPL.md:440 says "No remaining critical
  deadlock scenarios".
* With two workers the predecessor can move between the notify that starts a
  transfer and its scan (chord.cpp:777): the range (predecessor, target] then
  wraps over keys this node is responsible for, and they are given away
  (`node_transfer`). When a failure handled meanwhile resets the predecessor
  between the test at chord.cpp:777 and the read at 778, the scan reads through a
  null pointer (`TransferRead`). CONCURRENCY_CONTROL_IMPL.md:12 says that
  `routing_mutex` "Protects: successor_list, predecessor, finger_table,
  next_finger_to_fix".
* A NOTIFY whose value has no number after the colon ends the process: `std::stoi`
  throws and nothing catches it on the worker (chord_server.cpp:171,
  `ReceiveMalformedNotify`).
* `~ThreadPool` and `stop_async_processing` store their flag and notify without
  the mutex: a worker that has found the predicate false but does not wait yet
  misses it, and join never returns. `ShutdownCompletes` and `StopReturns` have
  `missed` as their exception. CONCURRENCY_CONTROL_IMPL.md:421 says
  "Deterministic shutdown behavior under all conditions", and line 439 "All nodes
  now shut down cleanly within timeout limits".
* A handler that waits for a `routing_mutex` locked twice keeps its worker, and
  `~ThreadPool` waits for that worker: the other exception of `ShutdownCompletes`.
* A signal between `running.store(true)` and the assignment of `accept_thread`
  (server.cpp:90-91), or between those of the node and its threads
  (chord.cpp:120-123), stops a server whose thread is assigned afterwards. It is
  joinable when it is destroyed or assigned again: `std::terminate`; `torn` in
  `CrashIsExplained`. README.md:26 says "100% graceful shutdown success with proper
  thread cleanup".
* ADMIN_SHUTDOWN's detached thread clears `running`, upon which main destroys the
  server it still works on; together with a signal it joins the accept thread a
  second time. `CrashIsExplained` says that main, the signal and the stop have no
  other way to crash than this one and `torn`.
* Processes also end by SIGPIPE, by a null pointer in a scan and by a malformed
  NOTIFY, as described here, and by what freed memory may do; `CrashIsExplained` is
  not about these.
* The node is freed while handlers and detached maintenance threads may be inside
  it: nobody waits for them before `~ChordServer` ends.
* A stop that arrives before `start` returns is undone by the ring `start`
  creates when it finds chord disabled: `orderly` in `FreedAfterDisable`.
* A connection established at once gets no timeouts (client.cpp:59), so a call on
  it waits as long as the server does; the exception of `CallReturns`.
  CONCURRENCY_CONTROL_IMPL.md:405 says "5-second timeout protection on all
  network operations".
* A client that gives up in the middle of a reply can end the server by SIGPIPE
  (`KilledOnlyMidReply`). The clients inside a server process
  (client.cpp:133, chord.cpp:848) can raise it too: `ClientSendKilled`.
* A PUT that fails to replicate removes the key, also when an earlier PUT of it
  was acknowledged (chord.cpp:331): a GET then finds what the replicas kept, or
  nothing.
* A DELETE of the asynchronous queue whose answer was lost is retried until it is
  given up, because the replica refuses to delete what it no longer has.
* `notify` stores the new predecessor before `transfer_keys_to_node` compares
  keys with (predecessor, target]. Both bounds are then the same node, so the
  keys between the old and the new predecessor stay behind; and `leave` hands
  over nothing when no predecessor is known, and what it does not hand over is no
  longer reachable through the ring. README.md:20 promises "Automatic
  data transfer on node join/leave operations".
* After the reset in `leave` the node still serves requests until
  `chord_enabled` is cleared: a NOTIFY then gives it a predecessor but no
  successor, and the next lookup wedges (`node_faults` has such states).
* `distance` across zero returns `to + 1`, not `(2^160 - from) + to` as its
  comment says (hash.cpp:232). Nothing in the server calls it.
* A `NodeStatus` made by a failed ping has the epoch of the steady clock as
  `last_seen`. Once the clock is older than 30 minutes `cleanup_old_entries`
  erases it in the round that made it, and the count starts again: a predecessor
  that never answered is not reported (`DownPeerReported` without `since = 0`).
* `contact_node` takes a connection for an answer and resets the count of missed
  pings: a successor that accepts connections and never answers may never be
  reported. `DownPeerReported` leaves it out (`Unreachable`).
* One refused connection of `stabilize` makes the detector report the successor
  at once, and the report stands when the successor answers before it is
  handled, because `failed_nodes` is a copy. DESIGN.md:195 says "Mark node as
  failed after 3 consecutive timeouts".

**Bounds.** `Bits = 2` gives four identifiers: self, the successor, a node
between the two and one identifier no node has, on both sides of zero. That is
every relative position a lookup can be in with two or three nodes. In
`node_two_nodes` the notifier is the node between, so that the predecessor, once
known, is neither of the two; a lookup of its identifier, by a client or by
`fix_fingers`, is answered by the node before the NOTIFY and by the successor after
it, and the NOTIFY may come between. `node_two_workers`, `node_faults` and
`node_failure_exit` have `Bits = 1`, self and successor: `node_two_workers` has NOTIFY
from the successor, two workers and one key, what it takes for the key to change
hands between two tests of one request. `SUCCESSOR_LIST_SIZE = 2` in `node_faults`
has a head and a tail to shift, the others a head; `replication_factor = 3` (as in
the code) covers the whole list. `failure_threshold = 3` is the code's, `max_age = 3`
lets an entry be counted up to the threshold and also expire. `HashBytes` with three
2-bit bytes has a carry into, through and out of a middle byte.

`lifecycle`: two workers and one connection, so that one worker works while the other
sleeps or is about to, and a notification can find nobody; both callers of `stop`.
`queue`: two tasks and one retry are what it takes for an old task to overtake a
new one; one replica, because replicas do not touch each other and each is sent every
task in turn. `ring`: three nodes
give a path of three and two nodes with the same replica; three requests are a
PUT, something that disturbs it and a GET; two of them open at once; one worker
per node, the hardest case for the pools; one restart. `wire`: two calls, so
that a call that fails is followed by one that could see its leftovers; two
connections, so that one is for a reconnection or a redirect; one transfer that
stops short, anywhere; three binary digits per length and keys of one and two
bytes, of which one holds a byte that looks like a length. What these bounds leave
open for safety the [proofs](#the-proofs) close; for liveness nothing does.

`CHECK_DEADLOCK FALSE` stands where the model stops on purpose: one call per
behaviour (`hash_bytes`), a process that has ended (`lifecycle`), requests used up
(`ring`, `ring_consistency`, `wire`), a wedged node or a crash (`node_faults`,
`node_failure_exit`). In the other passing runs TLC also checks that no state is a
deadlock; `Stopped` is the one final state of `ChordNode`.

**Fairness.** `FairSpec` of `ChordNode`: weak fairness for each thread's own
steps. The mutex is held across steps only by a thread that waits for itself, so
a step that waits for the mutex stays enabled until taken or is never enabled
again; network waits end by the timeouts of `Client`, assuming that the peer is
not one that accepts at once and then says nothing (see `CallReturns`); sleeps end.
Receiving a request and being told to stop are not fair. With two workers, weak
fairness would let one wait for ever for the mutex of Storage while the other scans
again and again; liveness is checked with one. `FailureDetector`: the loop and
`stabilize` keep running. `Lifecycle`: threads run, and a mutex is granted to a
thread that keeps asking for it, which is strong fairness of the workers' and the
accept thread's steps, as a thread that waits for the mutex is disabled whenever
another has it; the default mutex of the platforms gives that in practice, not by
its specification. A handler ends or is blocked for good: `LeaveChord` is weakly
fair, and `BlockInChord` takes a handler out of its reach. Strong fairness of
`PoolWork` also says that a connection
ends, which is an assumption about clients: `handle_client` serves one that sends
a request every five seconds for ever, and `~ThreadPool` waits for it.
`ReplicationQueue`: the processing thread, a producer that has queued its task
and a stop that has begun go on; weak fairness suffices, since producers hold the
mutex only within a step. `KeyValueRing`: workers run; timeouts and restarts may
or may not come. `Wire`: the client's thread runs and its timeouts expire, and
nothing at all is assumed of the servers.

## The proofs

Checked by `tlapm`, for every value of the constants that satisfies the named
assumptions of the module: `BitsAssumption`, `NodeAssumption`,
`DetectorAssumption`, `PoolAssumption`, `QueueAssumption`, `RingAssumption`,
`WireAssumption`, `BytesAssumption`, `PowerAssumption`. They say of which kind a
constant is, and three things more: that a pool has a worker (`--threads 0` makes a
server that serves nobody); that the lengths of keys and values fit into
`LengthBytes` digits (the code casts a size to `uint32_t`); and, because
the provers know nothing of `^`, that powers are positive and obey the laws of
exponents (`PowerAssumption` of `Wire` and `HashBytes`, a conjunct of
`BitsAssumption`). TLC evaluates all of them in the runs.

| Module | Theorem | Statement |
|---|---|---|
| `ChordNodeProofs` | `TypeCorrect` | `Spec => []TypeOK` |
| | `WedgeFinal` | `Spec => WedgeIsFinal` |
| | `NoSelfDeadlockInEnvelope` | `TwoNodeEnvelope` and `Spec => []NoSelfDeadlock` |
| | `RingCoveredInEnvelope` | the same for `RingCovered` |
| | `LookupsLocalInEnvelope` | the same for `LookupsStayLocal` |
| | `ForwardsElsewhereInEnvelope` | the same for `ForwardsElsewhere` |
| `FailureDetectorProofs` | `TypeCorrect`, `FailedExplained` | `Spec => []TypeOK`, `Spec => []FailedIsExplained` |
| `LifecycleProofs` | `PoolWakes`, `ProgramWakes` | `[]WakeupOnItsWay`, of the pool alone and of the program |
| | `ProgramRunsPool` | `LSpec => Init /\ [][Next]_vars`: to its pool the program is one of the environments `ThreadPool` allows |
| | `ProgramTypeCorrect` | `LSpec => []LTypeOK` |
| | `CrashesAreExplained`, `RingServesFirst`, `NodeFreedAfterDisable` | `LSpec => []` of `CrashIsExplained`, `NoEarlyBase`, `FreedAfterDisable` |
| `ReplicationQueueProofs` | `TypeCorrect`, `OrderKept` | `Spec => []TypeOK`, `Spec => []StaleOnlyAfterFailure` |
| | `DeliverySafety` | `Spec => D!DInit /\ [][D!DNext]_(D!dvars)`: the refinement `ImplementsDelivery`, but for fairness |
| `KeyValueRingProofs` | `TypeCorrect`, `PoolsNeverDeadlock` | `Spec => []` of `TypeOK`, `NoPoolDeadlock` |
| | `AckedPutStored`, `AckedReadable`, `DeletedGone` | `Spec => []` of `AckedPutOnPath`, `AckedKeyReadable`, `DeletedStaysDeleted` |
| `WireProofs` | `TypeCorrect`, `Framing` | `Spec => []` of `TypeOK`, `FramesDecode` |
| | `AnswersAreOwn`, `EndedMidReply`, `ReadsAreExplained` | `Spec => []` of `AnswerIsOwn`, `KilledOnlyMidReply`, `ReadsExplained` |
| | `CallInvariant`, `StorageInvariant` | `Spec => []` of `CallInv`, `StorageSide`, on which these rest |
| `HashBytesProofs` | `CarryLoopAdds`, `RangeIsClockwise`, `DistanceIsForward` | `Spec => []` of `CarryLoopAddsOnRing`, `InRangeIsClockwise`, `DistanceForward` |
| | `DistanceAcrossZero` | when `to` is smaller than `from`, `distance` is `to` plus one |

### ChordNode

*Types.* One lemma per group of actions. The facts that need care are that the
table operators stay inside `Hash160` and the index inside the table.

*The mutex.* `MutexInv` says that a thread which keeps `routing_mutex` between two
steps is at `relock`, or in `trigger_re_replication` under the lock of
`handle_node_failure`, and that nobody else holds it. That is not inductive alone: a
maintenance thread could be at `relock` before the node was started. `BeforeStart`
adds that until `StartMaintenance` the maintenance threads are at `none` and the
workers `idle`. With the mutex held for good, every action that writes routing state
is disabled (`WedgeFinal`).

*The ring.* `TwoNodeEnvelope` says when a node is safe from the second lock:
NOTIFY comes only from nodes in (self, successor], the successor answers, a node
that can see failures holds no keys, and nobody leaves. Each of these conditions
is needed: a notifier beyond the successor breaks the first,
`node_failure_exit` the second, and `NoSelfDeadlock` also fails when a cfg inside the envelope is given
a key together with a faulty predecessor, or `MayLeave = TRUE`. The invariant `RingInv` says that the
successor is the node joined through, the predecessor is absent or in (self,
successor], and fingers name the two nodes; `ThreadInv` says the same of what
each thread has in hand: what `stabilize` read and got, what `find_successor`
returned, the nodes to be handled as failed (never the successor), and where a
thread stands between the two critical sections of `find_successor`, when the
predecessor may change under it. From a predecessor p in (self, successor], the
ranges (p, self] and (self, successor] overlap or meet, so they cover the ring:
whichever thread gets to the second section finds its identifier in one of
them, and if the predecessor has changed meanwhile the identifier still lies
in the successor's range.

*Requests sent on.* A request that failed the second test of responsibility calls
`find_successor`, whose first section tests it a third time, in another critical
section. `ForwardInv` says that the key is still not this node's there, and that the
node found is another one. The key does not come back meanwhile (`StaysElsewhere`):
inside the envelope the predecessor changes only by `notify`, which replaces it by a
node nearer to this one, and the range shrinks (`NearerOwnsLess`); a predecessor is
forgotten only where the node holds no key. Outside the envelope the key may come
back, the lookup names the node itself, and the request is refused.

### FailureDetector

`FailedIsExplained` speaks of the reported peer only. `CountIsExplained` says the same
of the count below the threshold, with the failed ping in hand added to it: it is at
most the number of pings missed since the peer was last heard, unless a connection was
refused, an answer is about to be written, or a failure was written over a newer
answer. `InHandIsKnown` ties what the two threads have in hand, between network and
write, to the history: a ping that failed after the last answer is counted in
`missed`, a refusal after it is in `refused`, and one from before it is marked stale
and sets `overtaken` when it is written. So every write keeps the explanation, in
whatever order the threads write; the order in which the peer was heard is the
history's.

### ThreadPool and Lifecycle

*The pool.* `WakeupOnItsWay` needs three facts (`PoolInv`): `queue_mutex` is held
between steps exactly by a worker that tests or is about to block; a worker about
to block has seen the queue empty, and still sees it so, because enqueue needs the
mutex it holds; a worker exits only after `stop`. The notification of a task then
finds either a worker asleep or one that will test the queue again.

*The program.* Every step of `Lifecycle` is a step of `ThreadPool` or leaves the
pool alone (`PoolRefined`), so what is proved of the pool holds in the program.
`ProgramInv` adds what the orders of destruction rest on: main stops a server that
exists; before the start there is no connection; until a stop begins the ring
exists; past the polling loop the server is stopped; the node is freed last; and a stop
that began after `start` returned leaves chord disabled for good (`OrderlyStop`, which
gives `FreedAfterDisable`). For `CrashIsExplained`, as long as there was neither an
ADMIN_SHUTDOWN nor a signal in between a store and its threads (`Untorn`): the accept
thread can be joined exactly from its assignment to the end of the one stop that found
`running`, so it is joined once (`OneJoin`); and the node's threads are joinable exactly
while it runs, but for the assignments of `start_maintenance` and the detaches of
`stop`, so that none is assigned over or destroyed (`ThreadsFollowNode`).

### ReplicationQueue

`StaleOnlyAfterFailure` compares the newest task a replica has carried out with the
one it carried out last. Its invariant (`OrderInv`) says that only numbers given
by enqueue are about, and that a task which was not queued again is behind older
ones only: in the queue, after the task in hand, and after all that the replicas
have or may still get from a request given up (`FreshIsNewest`, over `Reached`). Such a
request belongs to an attempt that has failed or is bound to, because it was not
confirmed (`LateIsFailing`). Only a task of which an attempt failed can then be applied
after a newer one, also without any retry (`max_retries = 0`). For the refinement, `OnePlace` makes the
mapping well defined, and each step is shown to be the `Delivery` step of its task or
a stutter (`DeliverySimulated`).

### KeyValueRing

All actions of calls are reduced to a few shapes: a call moves on, asks, reads an
answer, returns (`CallStep`), with a list of what each leaves alone (`Changes`). On
them rests `CallInv`, the discipline of calls. Every node but the root joined
through a smaller one and each call is nearer to the root than its caller, so
chains end; a result waits for a caller that waits; what a caller reads is the
answer to its own question, because a call that may still ask has nothing below it
(`NothingBelow`), although calls given up by a timeout run on; a call is lost only
with a trace in `failed`; calls stay on the path of their request.

* `NoPoolDeadlock`: among the calls under way take one at the node nearest to the
  root. Its node's workers wait only for nodes nearer still, where there are no calls,
  so one of them can go on. The least node comes from `LeastNumber`.
* `AckedPutOnPath`: a result that is not Missing means that the whole path from
  its node has stored the value (`StoredOnTheWay`), passed from answer to answer. A path is the least set with the node that successors do not leave:
  the path of a node is the node and the path of its successor (`PathFacts`).
* `AckedKeyReadable`: every path ends at the root (`PathToRoot`), and without a
  DELETE the root keeps what it has got, since it has nothing to roll back and is
  not restarted. A GET that loses no call gets there.
* `DeletedStaysDeleted`: behind a DELETE that lost no call, nothing is left on the
  path that was settled before it began (`ClearedOnTheWay`), and the GETs after it
  read only on the path (`NotReadAgain`). Late steps of older requests cannot bring
  a value back: they are not settled, and the property speaks of settled ones.

### Wire

*Framing.* `readUint32` is the inverse of `writeUint32` for every radix and number of
digits: the digits read so far are the quotient of the number by a power of the
radix, by induction on their count. So a decoder gets back what the encoder took,
from any sequence that begins with the bytes of a message, and `Expected` and
`NextStage` cut where the message ends. The invariant `FrameInv` says, for each
connection, that what the worker has received and what is under way are the first
bytes of the request that was asked and that the stage is the one of this count
(`RequestSide`); and of the caller, that what it has yet to send is the rest of its
request, and that a connection which is in no call is quiet (`CallerSide`): a call
given up closes its connection.

*Answers.* `AnswerSide` says the same of the other direction: received, under way
and yet to be sent are together the answer to the call in progress. With it what
the caller decodes is the answer its server gave to this call (`AnswersAreOwn`).

*SIGPIPE.* A reset is seen by a worker that reads, so the connection of one that is
still open after a reset is in the middle of a reply (`ResetSide`).

*Storage.* `StorageSide` says where a value can come from: what is stored at the
server of a key is what the answered calls left (nothing, after a PUT answered with
ERROR), what a call given up has made of it, or what the call in progress has just
written; a GET that finds the key gone may get a value of `copies`; a change still under way on a
connection given up is in `unsure`; the second server is asked for redirected keys
only; and the answer on its way to a GET is one of these values.

One definition was rewritten because of a proof: two guards of the `CASE` in `NextStage`
and in the answers of the server overlapped. TLC takes the first that holds, as the code does, but
the language leaves the choice open; they are now exclusive.

### HashBytes

`Num` takes the byte loops to arithmetic. The heart is column addition
(`AddBytes`): if for bytes x, z, r and carries e always r[i] + Base e[i] = x[i] + z[i] +
e[i + 1], then Num(r) + e[0] 2^Bits = Num(x) + Num(z) + e[Size], by induction over the
prefixes of the identifiers. The borrow loop is one such addition (to = from +
result, with the borrows for carries), the carry loop another (z is the one byte that
holds the power). That the loops are such additions comes from their turns
(`SubtractByte`, `VisitByte`): each settles one byte and leaves the others alone.
`memcmp` orders as the numbers do, because prefixes compare as their first
different byte (`OrderIsNumeric`); `in_range` is then a distinction of cases.

A recursive definition means nothing to the provers before it is shown to have a
solution; `Recursion` and `RecursionDown` of `NumberTheorems` give it, for functions
along `0 .. N`. Induction goes by least counterexample, in sets (`CountUp`, `CountDown`).

### What was checked first, and what is only checked

All inductive invariants were model-checked as well as proved: `MutexInv`
with the constants of `node_faults`, `RingInv` with those of `node_two_nodes` (and also
with a faulty predecessor and no keys), `ForwardInv` with those of `node_two_workers`,
the others with those of the runs
`detector`, `lifecycle`, `queue`, `ring` and `wire`; in `HashBytes` every behaviour is one call. Three properties or definitions were
made stronger or rewritten on the way: `WakeupOnItsWay` no longer counts a worker
that has exited as awake, `Path` is a least closed set instead of a recursion, and
`orderly` in `Lifecycle` is cleared by a stop at any time before the polling loop.

*Only model-checked:* liveness (`RequestsAnswered`, `StoppedThreadsExit`,
`DownPeerReported`, `EveryTaskTaken`, `ShutdownCompletes`, `StopReturns`,
`CallReturns`, and the fairness part of `ImplementsDelivery`), which is beyond the
prover. Every invariant and every action property of the passing runs is proved.

## What is left out

* SHA-1: a key is its identifier. `client_tool`, argument parsing, console output.
* A second start after `leave_ring`: the detached threads of the first start and
  those of the second would share the routing state. They do so under
  `routing_mutex`; the states of six maintenance threads are out of TLC's reach.
* Values during a transfer: `ChordNode` has transfers without values,
  `KeyValueRing` values without transfers, as the program without NOTIFY has. A
  PUT between the scan of a transfer and its remove is removed with the old value
  (chord.cpp:791), and a transfer whose answer is lost leaves the key on both
  nodes (chord.cpp:855).
* What freed memory does to a thread that still uses it.
* Nodes that joined through each other in a circle (`KeyValueRing`), and a `uint32_t` sum
  that wraps (`Wire`).
* GET_PREDECESSOR, GET_SUCCESSOR and NODE_INFO, which only read;
  `find_predecessor`, `handle_replica_failure`, `ReplicationManager::ping_node`,
  `get_failed_nodes` and the `remote_*` and `rpc_*` functions, which nothing
  calls.

## Plan

Done: every component but SHA-1 and the command-line client has its module, and
the safety properties of the passing runs are proved. Left, for TLC: values during a
transfer and a second start after `leave_ring`, for which `ChordNode` would have to
be split into smaller instances first.
