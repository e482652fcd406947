------------------------------ MODULE Lifecycle ------------------------------
(***************************************************************************)
(* The server program from start to exit: main (src/chord_server_main.cpp) *)
(* creates or joins a ring, starts the server, polls, and destroys it; a   *)
(* signal runs signal_handler on the main thread; ADMIN_SHUTDOWN starts a  *)
(* detached thread.  Handler and thread both call ChordServer::stop, and   *)
(* main destroys the server when it sees running cleared.                  *)
(*                                                                         *)
(* Composed with ThreadPool: its accept thread is the server's, its tasks  *)
(* are connections, its destructor runs as a member of the server.         *)
(*                                                                         *)
(* A behaviour ends with the process: by the return of main, or by         *)
(* "crashed", which stands for std::terminate and for a member of the      *)
(* server used after its destruction.                                      *)
(***************************************************************************)
EXTENDS ThreadPool

(* The std::thread members of ChordNode, in the order start_maintenance     *)
(* assigns them.                                                           *)
Maintenance == {"stabilize_thread", "fix_fingers_thread", "failure_detection_thread"}

VARIABLES
  running,              \* Server::running
  accepted,             \* accept has returned a connection not yet enqueued
  accept_joinable,      \* accept_thread.joinable()
  chord_enabled,
  chord_node,           \* "alive" or "freed"
  node_running,         \* ChordNode::running
  joinable,             \* the members of Maintenance that are joinable()
  inside,               \* whether a worker is in a handler that uses chord_node
  main,                 \* where main is
  caller,               \* of create_ring or join_ring: "main" or "start"
  stopping,             \* where the two callers of ChordServer::stop are
  shutdown_requested,
  crashed,
  missed,               \* history: the pool's notify_all came too early for a worker
  base_early,           \* history: the base storage served before any stop
  orderly,              \* history: start returned before any stop began
  torn                  \* history: a signal between a store of running and its threads

server == <<running, accepted, accept_joinable, chord_enabled, chord_node, node_running,
            joinable>>
program == <<main, caller, stopping, shutdown_requested, crashed>>
history == <<missed, base_early, orderly, torn>>
lvars == <<vars, server, program, inside, history>>

Stoppers == {"main", "admin"}
MakingRing == {"creating", "maintenance"} \cup Maintenance
BeforePolling == MakingRing \cup {"ringed", "accept_thread", "starting"}
StopLabels == {"no", "disable", "node", "store_node", "detach", "clear", "test", "store",
               "joinable", "join", "done"}

LTypeOK ==
  /\ TypeOK
  /\ {running, accepted, accept_joinable, chord_enabled, node_running, shutdown_requested,
      crashed, missed, base_early, orderly, torn} \subseteq BOOLEAN
  /\ chord_node \in {"alive", "freed"}
  /\ joinable \in SUBSET Maintenance
  /\ inside \in [Workers -> {"no", "yes", "blocked"}]
  /\ main \in BeforePolling \cup {"polling", "left", "~Server", "~ThreadPool", "exited"}
  /\ caller \in {"main", "start"}
  /\ stopping \in [Stoppers -> StopLabels]

LInit ==
  /\ Init
  /\ running = FALSE /\ accepted = FALSE /\ accept_joinable = FALSE
  /\ chord_enabled = FALSE /\ chord_node = "alive"
  /\ node_running = FALSE /\ joinable = {}
  /\ inside = [w \in Workers |-> "no"]
  /\ main = "creating" /\ caller = "main" /\ stopping = [x \in Stoppers |-> "no"]
  /\ shutdown_requested = FALSE /\ crashed = FALSE
  /\ missed = FALSE /\ base_early = FALSE /\ orderly = TRUE /\ torn = FALSE

(* The main thread is not inside the handler, or inside a stop of its own. *)
MainRuns == stopping["main"] \in {"no", "done"} /\ ~crashed
-----------------------------------------------------------------------------
(* create_ring or join_ring, called by main or by ChordServer::start.      *)

(* enable_chord, once create or join has returned. *)
EnableChord ==
  /\ main = "creating" /\ MainRuns
  /\ main' = "maintenance"
  /\ chord_enabled' = TRUE
  /\ UNCHANGED <<vars, running, accepted, accept_joinable, chord_node, node_running, joinable,
                 caller, stopping, shutdown_requested, crashed, inside, history>>

AfterRing == IF caller = "main" THEN "ringed" ELSE "polling"

(* start_maintenance, which does nothing when the node runs already. *)
StartMaintenance ==
  /\ main = "maintenance" /\ MainRuns
  /\ main' = IF node_running THEN AfterRing ELSE "stabilize_thread"
  /\ node_running' = TRUE
  /\ UNCHANGED <<vars, running, accepted, accept_joinable, chord_enabled, chord_node, joinable,
                 caller, stopping, shutdown_requested, crashed, inside, history>>

(* Assigning to a std::thread that is joinable terminates the process. *)
AssignThread ==
  /\ main \in Maintenance /\ MainRuns
  /\ main' = IF main = "stabilize_thread" THEN "fix_fingers_thread"
             ELSE IF main = "fix_fingers_thread" THEN "failure_detection_thread"
             ELSE AfterRing
  /\ joinable' = joinable \cup {main}
  /\ crashed' = (main \in joinable)
  /\ UNCHANGED <<vars, running, accepted, accept_joinable, chord_enabled, chord_node,
                 node_running, caller, stopping, shutdown_requested, inside, history>>
-----------------------------------------------------------------------------
(* Mutant of StartServer: the server is started before there is a ring. *)
StartEarly ==
  /\ main \in {"creating", "ringed"} /\ MainRuns
  /\ main' = IF main = "ringed" THEN "accept_thread" ELSE "creating"
  /\ running' = TRUE /\ accept_joinable' = (main = "creating")
  /\ UNCHANGED <<vars, accepted, chord_enabled, chord_node, node_running, joinable, caller,
                 stopping, shutdown_requested, crashed, inside, history>>

(* Server::start: the socket, running, and then the accept thread. *)
StartServer ==
  /\ main = "ringed" /\ MainRuns
  /\ main' = "accept_thread"
  /\ running' = TRUE
  /\ UNCHANGED <<vars, accepted, accept_joinable, chord_enabled, chord_node, node_running,
                 joinable, caller, stopping, shutdown_requested, crashed, inside, history>>

(* setup_server_socket throws: main catches it outside the server's block, *)
(* and there will be no accept thread.                                     *)
SocketFails ==
  /\ main = "ringed" /\ MainRuns
  /\ main' = "left"
  /\ EndAccept
  /\ orderly' = FALSE
  /\ UNCHANGED <<server, caller, stopping, shutdown_requested, crashed, inside, missed,
                 base_early, torn>>

AssignAccept ==
  /\ main = "accept_thread" /\ MainRuns
  /\ main' = "starting"
  /\ accept_joinable' = TRUE
  /\ crashed' = accept_joinable
  /\ UNCHANGED <<vars, running, accepted, chord_enabled, chord_node, node_running, joinable,
                 caller, stopping, shutdown_requested, inside, history>>

(* The rest of ChordServer::start: a ring of its own if chord is disabled, *)
(* which a stop that came in between has done.                             *)
EnsureRing ==
  /\ main = "starting" /\ MainRuns
  /\ IF chord_enabled THEN main' = "polling" /\ UNCHANGED caller
                      ELSE main' = "creating" /\ caller' = "start"
  /\ UNCHANGED <<vars, server, stopping, shutdown_requested, crashed, inside, history>>

(* The polling loop ends; a server that still runs is stopped. *)
LeaveLoop ==
  /\ main = "polling" /\ MainRuns /\ (shutdown_requested \/ ~running)
  /\ main' = "left"
  /\ stopping' = IF running THEN [stopping EXCEPT !["main"] = "disable"] ELSE stopping
  /\ UNCHANGED <<vars, server, caller, shutdown_requested, crashed, inside, history>>

(* signal_handler interrupts main until g_server is cleared; one signal. *)
Signal ==
  /\ main \in BeforePolling \cup {"polling", "left"} /\ MainRuns
  /\ ~shutdown_requested
  /\ shutdown_requested' = TRUE
  /\ stopping' = [stopping EXCEPT !["main"] = "disable"]
  /\ orderly' = (orderly /\ main \notin BeforePolling)
  /\ torn' = (main \in Maintenance \cup {"accept_thread"})
  /\ UNCHANGED <<vars, server, main, caller, crashed, inside, missed, base_early>>

(* ADMIN_SHUTDOWN: the handler starts a detached thread; one request. *)
AdminShutdown(w) ==
  /\ inside[w] = "yes" /\ stopping["admin"] = "no" /\ ~crashed
  /\ stopping' = [stopping EXCEPT !["admin"] = "disable"]
  /\ orderly' = (orderly /\ main \notin BeforePolling)
  /\ UNCHANGED <<vars, server, main, caller, shutdown_requested, crashed, inside,
                 missed, base_early, torn>>
-----------------------------------------------------------------------------
(* ChordServer::stop, by x.  The server it works on may be gone. *)
Alive == main \notin {"~Server", "~ThreadPool", "exited"}

(* x goes on at label and changes nothing of the program but this. *)
StopGoto(x, label) ==
  /\ stopping' = [stopping EXCEPT ![x] = label]
  /\ UNCHANGED <<vars, accepted, chord_node, main, caller, shutdown_requested, inside, history>>

nodes == <<chord_enabled, node_running, joinable>>

UseDestroyed(x) ==
  /\ stopping[x] \notin {"no", "done"} /\ ~Alive /\ main # "exited" /\ ~crashed
  /\ crashed' = TRUE
  /\ StopGoto(x, "done")
  /\ UNCHANGED <<running, accept_joinable, nodes>>

(* Mutant of DisableChord: stop is that of Server alone. *)
DisableSkipped(x) ==
  /\ stopping[x] = "disable" /\ Alive /\ ~crashed
  /\ StopGoto(x, "test")
  /\ UNCHANGED <<running, accept_joinable, nodes, crashed>>

(* disable_chord *)
DisableChord(x) ==
  /\ stopping[x] = "disable" /\ Alive /\ ~crashed
  /\ StopGoto(x, IF chord_enabled THEN "node" ELSE "test")
  /\ UNCHANGED <<running, accept_joinable, nodes, crashed>>

(* stop_maintenance: its test, its store, and the threads it detaches. *)
TestNode(x) ==
  /\ stopping[x] = "node" /\ Alive /\ ~crashed
  /\ StopGoto(x, IF node_running THEN "store_node" ELSE "clear")
  /\ UNCHANGED <<running, accept_joinable, nodes, crashed>>

StoreNode(x) ==
  /\ stopping[x] = "store_node" /\ Alive /\ ~crashed
  /\ node_running' = FALSE
  /\ StopGoto(x, "detach")
  /\ UNCHANGED <<running, accept_joinable, chord_enabled, joinable, crashed>>

(* Two callers at once may both find a thread joinable, and the second     *)
(* detach throws std::system_error.                                        *)
Detach(x) ==
  /\ stopping[x] = "detach" /\ Alive /\ ~crashed
  /\ joinable' = {}
  /\ \/ crashed' = FALSE
     \/ /\ joinable # {} /\ \E y \in Stoppers \ {x} : stopping[y] = "detach"
        /\ crashed' = TRUE
  /\ StopGoto(x, "clear")
  /\ UNCHANGED <<running, accept_joinable, chord_enabled, node_running>>

ClearEnabled(x) ==
  /\ stopping[x] = "clear" /\ Alive /\ ~crashed
  /\ chord_enabled' = FALSE
  /\ StopGoto(x, "test")
  /\ UNCHANGED <<running, accept_joinable, node_running, joinable, crashed>>

(* Server::stop: the test of running and the store are two accesses. *)
TestRunning(x) ==
  /\ stopping[x] = "test" /\ Alive /\ ~crashed
  /\ StopGoto(x, IF running THEN "store" ELSE "done")
  /\ UNCHANGED <<running, accept_joinable, nodes, crashed>>

StoreRunning(x) ==
  /\ stopping[x] = "store" /\ Alive /\ ~crashed
  /\ running' = FALSE
  /\ StopGoto(x, "joinable")
  /\ UNCHANGED <<accept_joinable, nodes, crashed>>

TestJoinable(x) ==
  /\ stopping[x] = "joinable" /\ Alive /\ ~crashed
  /\ StopGoto(x, IF accept_joinable THEN "join" ELSE "done")
  /\ UNCHANGED <<running, accept_joinable, nodes, crashed>>

(* Mutant of JoinAccept: the accept thread is not waited for. *)
ForgetAccept(x) ==
  /\ stopping[x] = "join" /\ Alive /\ ~crashed
  /\ StopGoto(x, "done")
  /\ UNCHANGED <<running, accept_joinable, nodes, crashed>>

(* A thread that was joined by the other caller meanwhile cannot be joined *)
(* again: std::system_error.                                               *)
JoinAccept(x) ==
  /\ stopping[x] = "join" /\ Alive /\ accept = "ended" /\ ~crashed
  /\ accept_joinable' = FALSE
  /\ crashed' = ~accept_joinable
  /\ StopGoto(x, "done")
  /\ UNCHANGED <<running, nodes>>

Stop(x) ==
  \/ UseDestroyed(x)
  \/ DisableChord(x) \/ TestNode(x) \/ StoreNode(x) \/ Detach(x) \/ ClearEnabled(x)
  \/ TestRunning(x) \/ StoreRunning(x) \/ TestJoinable(x) \/ JoinAccept(x)
-----------------------------------------------------------------------------
(* Destruction at the end of main's block: ~ChordServer and ~ChordNode     *)
(* call stop_maintenance and the node goes, then ~Server finds the server  *)
(* stopped and its members go, accept_thread before thread_pool.  A        *)
(* std::thread destroyed while joinable terminates the process.            *)
DestroyNode ==
  /\ main = "left" /\ MainRuns
  /\ main' = "~Server"
  /\ chord_node' = "freed"
  /\ node_running' = FALSE
  /\ joinable' = IF node_running THEN {} ELSE joinable
  /\ crashed' = (joinable' # {})
  /\ UNCHANGED <<vars, running, accepted, accept_joinable, chord_enabled, caller, stopping,
                 shutdown_requested, inside, history>>

DestroyAcceptThread ==
  /\ main = "~Server" /\ MainRuns
  /\ main' = "~ThreadPool"
  /\ crashed' = accept_joinable
  /\ UNCHANGED <<vars, server, caller, stopping, shutdown_requested, inside, history>>

DestroyPool ==
  /\ main = "~ThreadPool" /\ MainRuns
  /\ \/ StoreStop /\ UNCHANGED <<main, history>>
     \/ /\ NotifyAll
        /\ missed' = \E w \in Workers : pc[w] = "block"
        /\ UNCHANGED <<main, base_early, orderly, torn>>
     \/ JoinAll /\ main' = "exited" /\ UNCHANGED history
  /\ UNCHANGED <<server, caller, stopping, shutdown_requested, crashed, inside>>
-----------------------------------------------------------------------------
(* accept_loop: running is tested before accept, not after it. *)
AcceptConnection ==
  /\ accept_joinable /\ accept = "accepting" /\ running /\ ~accepted
  /\ enqueued < MaxTasks /\ ~crashed
  /\ accepted' = TRUE
  /\ UNCHANGED <<vars, running, accept_joinable, chord_node, nodes, program, inside, history>>

AcceptStep ==
  /\ accept_joinable /\ ~crashed
  /\ \/ accepted /\ Enqueue /\ accepted' = FALSE
     \/ NotifyOne /\ UNCHANGED accepted
     \/ ~accepted /\ ~running /\ EndAccept /\ UNCHANGED accepted
  /\ UNCHANGED <<running, accept_joinable, chord_node, nodes, program, inside, history>>

(* A worker in the pool's own code, or between two requests of a           *)
(* connection: the connection ends when the client closes it or is silent  *)
(* for five seconds.                                                       *)
PoolWork(w) ==
  /\ ~crashed /\ main # "exited" /\ inside[w] = "no"
  /\ Work(w)
  /\ UNCHANGED <<server, program, inside, history>>

PoolSpuriousWakeup(w) ==
  /\ ~crashed /\ main # "exited"
  /\ SpuriousWakeup(w)
  /\ UNCHANGED <<server, program, inside, history>>

(* process_request: the test of chord_enabled, then the use of chord_node. *)
EnterChord(w) ==
  /\ pc[w] = "running" /\ inside[w] = "no" /\ chord_enabled /\ ~crashed
  /\ inside' = [inside EXCEPT ![w] = "yes"]
  /\ UNCHANGED <<vars, server, program, history>>

LeaveChord(w) ==
  /\ inside[w] = "yes" /\ ~crashed
  /\ inside' = [inside EXCEPT ![w] = "no"]
  /\ UNCHANGED <<vars, server, program, history>>

(* The handler waits for a routing_mutex that a thread of the node has     *)
(* locked twice, for ever.                                                 *)
BlockInChord(w) ==
  /\ inside[w] = "yes" /\ ~crashed
  /\ inside' = [inside EXCEPT ![w] = "blocked"]
  /\ UNCHANGED <<vars, server, program, history>>

(* Without chord the request is served from the base server's storage. *)
ServeBase(w) ==
  /\ pc[w] = "running" /\ inside[w] = "no" /\ ~chord_enabled /\ ~crashed
  /\ base_early' = (base_early \/ \A x \in Stoppers : stopping[x] = "no")
  /\ UNCHANGED <<vars, server, program, inside, missed, orderly, torn>>
-----------------------------------------------------------------------------
MainStep ==
  \/ EnableChord \/ StartMaintenance \/ AssignThread
  \/ StartServer \/ SocketFails \/ AssignAccept \/ EnsureRing \/ LeaveLoop
  \/ DestroyNode \/ DestroyAcceptThread \/ DestroyPool

LNext ==
  \/ MainStep \/ Signal
  \/ \E x \in Stoppers : Stop(x)
  \/ AcceptConnection \/ AcceptStep
  \/ \E w \in Workers :
       \/ PoolWork(w) \/ PoolSpuriousWakeup(w)
       \/ EnterChord(w) \/ LeaveChord(w) \/ BlockInChord(w) \/ ServeBase(w)
       \/ AdminShutdown(w)

(* Threads run, and a mutex is granted to a thread that keeps asking for   *)
(* it.  A handler that does not block on routing_mutex ends by the         *)
(* timeouts of Client.  That a connection ends, which strong fairness of   *)
(* PoolWork says as well, is an assumption about the clients:              *)
(* handle_client serves one that goes on sending for ever.                 *)
LSpec ==
  /\ LInit /\ [][LNext]_lvars
  /\ WF_lvars(MainStep) /\ SF_lvars(AcceptStep)
  /\ \A x \in Stoppers : WF_lvars(Stop(x))
  /\ \A w \in Workers : SF_lvars(PoolWork(w)) /\ WF_lvars(LeaveChord(w))
-----------------------------------------------------------------------------
(* When the node is freed its handlers are closed: no request that starts  *)
(* later reaches freed memory.  (One that is inside already may, and so    *)
(* may the detached threads; and a stop before start returns is undone by  *)
(* the ring start makes itself.)                                           *)
FreedAfterDisable == chord_node = "freed" /\ orderly => ~chord_enabled

(* What can bring the process down: the detached thread of ADMIN_SHUTDOWN, *)
(* which main does not wait for, by a stop at the same time as another or  *)
(* overtaken by the destructors; or a signal that falls between a store of *)
(* running and the assignment of the threads that go with it, which stop   *)
(* does not find.  A signal at any other moment of main, before, inside or *)
(* after start, ends in order.                                             *)
CrashIsExplained == crashed => stopping["admin"] # "no" \/ torn

(* Until a stop begins no request is answered from the storage of the base *)
(* server, where the ring would not find its key again.                    *)
NoEarlyBase == ~base_early

(* Every connection enqueued is taken by a worker, unless the process      *)
(* stops or every worker is blocked in a handler.                          *)
EveryTaskTaken ==
  \A i \in 1 .. MaxTasks :
    Contains(tasks, i) ~> \/ ~Contains(tasks, i) \/ stop \/ crashed
                          \/ \A w \in Workers : inside[w] = "blocked"

(* After a signal the process ends, with two exceptions in which           *)
(* ~ThreadPool waits for ever: its notify_all came between a worker's test *)
(* and its wait, or a handler never returned from the node.                *)
ShutdownCompletes ==
  shutdown_requested ~> \/ main = "exited" \/ crashed
                        \/ missed \/ \E w \in Workers : inside[w] = "blocked"

=============================================================================
