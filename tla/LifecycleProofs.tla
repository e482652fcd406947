--------------------------- MODULE LifecycleProofs ---------------------------
(***************************************************************************)
(* Theorems about ThreadPool and about Lifecycle, which composes it with   *)
(* the server program, for every set of workers and number of connections. *)
(***************************************************************************)
EXTENDS Lifecycle, TLAPS

-----------------------------------------------------------------------------
(* The pool.  The invariant of queue_mutex and of the two places a worker  *)
(* can lose a task at: a worker about to wait holds the mutex, so nothing  *)
(* is queued between its test and its wait.                                *)

MutexHeld == \A w \in Workers : pc[w] \in {"test", "block"} <=> mutex = w

BlockMeansEmpty == \A w \in Workers : pc[w] = "block" => tasks = <<>>

ExitMeansStop == \A w \in Workers : pc[w] = "exited" => stop

PoolInv == TypeOK /\ MutexHeld /\ BlockMeansEmpty /\ ExitMeansStop /\ WakeupOnItsWay

(* The queue operations, on sequences over any set. *)
LEMMA AppendTyped ==
  ASSUME NEW S, NEW s \in Seq(S), NEW e \in S
  PROVE  Append(s, e) \in Seq(S)
OBVIOUS

(* What is left of the task queue is a queue of tasks. *)
LEMMA TailTyped ==
  ASSUME NEW S, NEW s \in Seq(S), s # <<>>
  PROVE  Tail(s) \in Seq(S) /\ Head(s) \in S
OBVIOUS

(* A step of the pool keeps the types. *)
LEMMA PoolTypeStep == TypeOK /\ [Next]_vars => TypeOK'
<1> SUFFICES ASSUME TypeOK, [Next]_vars
             PROVE  TypeOK'
  OBVIOUS
<1> USE DEF TypeOK
<1>1. CASE Enqueue
  <2>1. enqueued' = enqueued + 1 /\ tasks' = Append(tasks, enqueued')
    BY <1>1 DEF Enqueue
  <2>2. enqueued' \in 1 .. MaxTasks /\ enqueued' \in 0 .. MaxTasks
    <3>1. enqueued \in 0 .. MaxTasks
      OBVIOUS
    <3>2. enqueued < MaxTasks
      BY <1>1 DEF Enqueue
    <3> HIDE DEF TypeOK
    <3> QED
      BY <2>1, <3>1, <3>2, PoolAssumption
  <2>3. tasks' \in Seq(1 .. MaxTasks)
    BY <2>1, <2>2, AppendTyped
  <2> QED
    BY <1>1, <2>2, <2>3 DEF Enqueue
<1>2. CASE NotifyOne
  BY <1>2 DEF NotifyOne
<1>3. CASE EndAccept
  BY <1>3 DEF EndAccept
<1>4. ASSUME NEW w \in Workers, Work(w) \/ SpuriousWakeup(w)
      PROVE  TypeOK'
  <2>1. CASE TestStop(w)
    BY <2>1 DEF TestStop
  <2>2. CASE Lock(w)
    BY <2>2 DEF Lock
  <2>3. CASE Take(w)
    <3>1. tasks' \in Seq(1 .. MaxTasks)
      BY <2>3, TailTyped DEF Take
    <3> QED
      BY <2>3, <3>1 DEF Take
  <2>4. CASE DecideToWait(w)
    BY <2>4 DEF DecideToWait
  <2>5. CASE Block(w)
    BY <2>5 DEF Block
  <2>6. CASE FinishTask(w)
    BY <2>6 DEF FinishTask
  <2>7. CASE SpuriousWakeup(w)
    BY <2>7 DEF SpuriousWakeup
  <2> QED
    BY <1>4, <2>1, <2>2, <2>3, <2>4, <2>5, <2>6, <2>7 DEF Work
<1>5. CASE StoreStop
  BY <1>5 DEF StoreStop
<1>6. CASE NotifyAll
  BY <1>6 DEF NotifyAll
<1>7. CASE JoinAll
  BY <1>7 DEF JoinAll
<1>8. CASE UNCHANGED vars
  BY <1>8 DEF vars
<1> QED
  BY <1>1, <1>2, <1>3, <1>4, <1>5, <1>6, <1>7, <1>8 DEF Next

(* The invariant of the pool holds initially. *)
LEMMA PoolInit == Init => PoolInv
<1>1. <<>> \in Seq(1 .. MaxTasks) /\ 0 \in 0 .. MaxTasks
  BY PoolAssumption
<1> QED
  BY <1>1, PoolAssumption
     DEF Init, PoolInv, TypeOK, MutexHeld, BlockMeansEmpty, ExitMeansStop, WakeupOnItsWay

(* PoolInv is inductive. *)
LEMMA PoolStep == PoolInv /\ [Next]_vars => PoolInv'
<1> SUFFICES ASSUME PoolInv, [Next]_vars
             PROVE  (MutexHeld /\ BlockMeansEmpty /\ ExitMeansStop /\ WakeupOnItsWay)'
  BY PoolTypeStep DEF PoolInv
<1> USE DEF PoolInv, MutexHeld, BlockMeansEmpty, ExitMeansStop, WakeupOnItsWay
<1>0. /\ TypeOK /\ "free" \notin Workers /\ Workers # {}
      /\ DOMAIN pc = Workers
  BY PoolAssumption DEF TypeOK
<1>1. CASE Enqueue
  BY <1>0, <1>1 DEF Enqueue
<1>2. CASE NotifyOne
  <2>1. CASE \E w \in Workers : pc[w] = "asleep"
    <3>1. PICK w \in Workers : pc[w] = "asleep" /\ pc' = [pc EXCEPT ![w] = "lock"]
      BY <1>2, <2>1 DEF NotifyOne
    <3>2. pc'[w] = "lock" /\ \A v \in Workers : v # w => pc'[v] = pc[v]
      BY <1>0, <3>1
    <3> QED
      BY <1>0, <1>2, <3>1, <3>2 DEF NotifyOne
  <2>2. CASE ~\E w \in Workers : pc[w] = "asleep"
    BY <1>0, <1>2, <2>2 DEF NotifyOne
  <2> QED
    BY <2>1, <2>2
<1>3. CASE EndAccept
  BY <1>0, <1>3 DEF EndAccept
<1>4. ASSUME NEW w \in Workers, Work(w) \/ SpuriousWakeup(w)
      PROVE  (MutexHeld /\ BlockMeansEmpty /\ ExitMeansStop /\ WakeupOnItsWay)'
  <2>1. CASE TestStop(w)
    BY <1>0, <2>1 DEF TestStop
  <2>2. CASE Lock(w)
    BY <1>0, <2>2 DEF Lock
  <2>3. CASE Take(w)
    <3>1. mutex = w /\ \A v \in Workers : v # w => pc[v] \notin {"test", "block"}
      BY <2>3 DEF Take
    <3>2. CASE tasks = <<>>
      BY <1>0, <2>3, <3>1, <3>2 DEF Take
    <3>3. CASE tasks # <<>>
      BY <1>0, <2>3, <3>1, <3>3 DEF Take
    <3> QED
      BY <3>2, <3>3
  <2>4. CASE DecideToWait(w)
    BY <1>0, <2>4 DEF DecideToWait
  <2>5. CASE Block(w)
    BY <1>0, <2>5 DEF Block
  <2>6. CASE FinishTask(w)
    BY <1>0, <2>6 DEF FinishTask
  <2>7. CASE SpuriousWakeup(w)
    BY <1>0, <2>7 DEF SpuriousWakeup
  <2> QED
    BY <1>4, <2>1, <2>2, <2>3, <2>4, <2>5, <2>6, <2>7 DEF Work
<1>5. CASE StoreStop
  BY <1>0, <1>5 DEF StoreStop
<1>6. CASE NotifyAll
  BY <1>0, <1>6 DEF NotifyAll
<1>7. CASE JoinAll
  BY <1>0, <1>7 DEF JoinAll
<1>8. CASE UNCHANGED vars
  BY <1>8 DEF vars
<1> QED
  BY <1>1, <1>2, <1>3, <1>4, <1>5, <1>6, <1>7, <1>8 DEF Next
-----------------------------------------------------------------------------
(* Lifecycle runs the pool as ThreadPool describes it.                     *)

(* Every step of the program is a step of the pool or none. *)
LEMMA PoolRefined == [LNext]_lvars => [Next]_vars
<1> SUFFICES ASSUME [LNext]_lvars
             PROVE  Next \/ UNCHANGED vars
  OBVIOUS
<1>1. ASSUME MainStep
      PROVE  Next \/ UNCHANGED vars
  BY <1>1 DEF MainStep, EnableChord, StartMaintenance, AssignThread, StartServer, SocketFails,
              AssignAccept, EnsureRing, LeaveLoop, DestroyNode, DestroyAcceptThread,
              DestroyPool, Next
<1>2. ASSUME NEW x \in Stoppers, Stop(x)
      PROVE  UNCHANGED vars
  BY <1>2 DEF Stop, StopGoto, UseDestroyed, DisableChord, TestNode, StoreNode, Detach,
              ClearEnabled, TestRunning, StoreRunning, TestJoinable, JoinAccept
<1>3. ASSUME Signal \/ AcceptConnection
      PROVE  UNCHANGED vars
  BY <1>3 DEF Signal, AcceptConnection
<1>4. ASSUME AcceptStep
      PROVE  Next
  BY <1>4 DEF AcceptStep, Next
<1>5. ASSUME NEW w \in Workers,
             \/ PoolWork(w) \/ PoolSpuriousWakeup(w)
             \/ EnterChord(w) \/ LeaveChord(w) \/ BlockInChord(w) \/ ServeBase(w)
             \/ AdminShutdown(w)
      PROVE  Next \/ UNCHANGED vars
  BY <1>5 DEF PoolWork, PoolSpuriousWakeup, EnterChord, LeaveChord, BlockInChord,
              ServeBase, AdminShutdown, Next
<1>6. ASSUME UNCHANGED lvars
      PROVE  UNCHANGED vars
  BY <1>6 DEF lvars
<1> QED
  BY <1>1, <1>2, <1>3, <1>4, <1>5, <1>6 DEF LNext
-----------------------------------------------------------------------------
(* The program.                                                            *)

NoStop == \A x \in Stoppers : stopping[x] = "no"

(* main is interrupted or stops the server only while the server exists. *)
MainWaits == stopping["main"] \notin {"no", "done"} => Alive

(* Before the accept thread is started the server has no connection. *)
NotStarted == (main \in MakingRing /\ caller = "main") \/ main = "ringed"

NoConnectionYet ==
  /\ NotStarted => ~running
  /\ NotStarted \/ main = "accept_thread" =>
       ~accept_joinable /\ ~accepted /\ tasks = <<>> /\ \A w \in Workers : pc[w] # "running"

(* Until a stop begins the ring exists from its creation on. *)
RingUntilStop ==
  /\ NoStop => (main = "creating" \/ chord_enabled) /\ caller = "main"
  /\ main \in {"ringed", "accept_thread"} => caller = "main"

(* Only stop is under way, by main, and it did not meet a thread that is   *)
(* still to be assigned.                                                   *)
Untorn == stopping["admin"] = "no" /\ ~torn

TornBySignal == torn => shutdown_requested /\ stopping["main"] # "no"

(* Then the accept thread can be joined exactly from its start to the end  *)
(* of the one stop that finds running.                                     *)
OneJoin ==
  Untorn =>
    /\ accept_joinable <=>
         (running /\ main # "accept_thread") \/ stopping["main"] \in {"joinable", "join"}
    /\ stopping["main"] = "store" => running
    /\ stopping["main"] \in {"joinable", "join"} => ~running
    /\ main \in Maintenance \cup {"accept_thread"} => stopping["main"] \in {"no", "done"}
    /\ main = "accept_thread" => running

(* ... and the node's threads are joinable exactly while it runs, but for  *)
(* the assignments of start_maintenance and the detaches of stop.          *)
ThreadsFollowNode ==
  Untorn =>
    /\ main \in Maintenance =>
         /\ node_running /\ main \notin joinable
         /\ main = "stabilize_thread" => joinable = {}
         /\ main = "fix_fingers_thread" => joinable = {"stabilize_thread"}
         /\ main = "failure_detection_thread" =>
              joinable = {"stabilize_thread", "fix_fingers_thread"}
    /\ ~node_running /\ stopping["main"] # "detach" => joinable = {}
    /\ stopping["main"] = "detach" => ~node_running
    /\ stopping["main"] = "store_node" => node_running

(* Past the polling loop the server is stopped once main is out of stop. *)
StoppedAfterLoop ==
  main \notin BeforePolling \cup {"polling"}
    /\ stopping["main"] \in {"no", "done", "joinable", "join"} => ~running

(* The node is freed by main's last steps. *)
FreedLast == chord_node = "freed" => ~Alive

(* A stop that began after start returned: chord stays disabled once it    *)
(* has passed disable_chord, and when the server has been stopped.         *)
OrderlyStop ==
  orderly =>
    /\ main \in BeforePolling => NoStop
    /\ main = "starting" => running
    /\ (\E x \in Stoppers : stopping[x] \notin
          {"no", "disable", "node", "store_node", "detach", "clear"}) => ~chord_enabled
    /\ main \notin BeforePolling /\ ~running => ~chord_enabled
    /\ ~Alive => ~chord_enabled

ProgramInv ==
  /\ LTypeOK
  /\ MainWaits /\ NoConnectionYet /\ RingUntilStop /\ TornBySignal /\ OneJoin
  /\ ThreadsFollowNode /\ StoppedAfterLoop /\ FreedLast /\ OrderlyStop
  /\ CrashIsExplained /\ NoEarlyBase

(* The invariant of the program holds initially. *)
LEMMA ProgramInit == LInit => ProgramInv
<1> SUFFICES ASSUME LInit
             PROVE  ProgramInv
  OBVIOUS
<1>1. LTypeOK
  BY PoolInit DEF PoolInv, LInit, LTypeOK, Stoppers, BeforePolling, MakingRing, StopLabels
<1> QED
  BY <1>1 DEF LInit, Init, ProgramInv, MainWaits, NoConnectionYet, NotStarted, RingUntilStop,
              NoStop, OneJoin, Untorn, TornBySignal, ThreadsFollowNode, StoppedAfterLoop, FreedLast,
              OrderlyStop, CrashIsExplained, NoEarlyBase, Alive, BeforePolling, MakingRing,
              Maintenance, Stoppers

(* A step of the program keeps the types. *)
LEMMA ProgramTypeStep == LTypeOK /\ [LNext]_lvars => LTypeOK'
<1> SUFFICES ASSUME LTypeOK, [LNext]_lvars
             PROVE  LTypeOK'
  OBVIOUS
<1>0. TypeOK'
  BY PoolRefined, PoolTypeStep DEF LTypeOK
<1> USE DEF LTypeOK, Stoppers, BeforePolling, MakingRing, Maintenance, StopLabels
<1>1. CASE EnableChord
  BY <1>0, <1>1 DEF EnableChord, history
<1>2. CASE StartMaintenance
  BY <1>0, <1>2 DEF StartMaintenance, AfterRing, history
<1>3. CASE AssignThread
  BY <1>0, <1>3 DEF AssignThread, AfterRing, history
<1>4. CASE StartServer
  BY <1>0, <1>4 DEF StartServer, history
<1>5. CASE SocketFails
  BY <1>0, <1>5 DEF SocketFails, server
<1>6. CASE AssignAccept
  BY <1>0, <1>6 DEF AssignAccept, history
<1>7. CASE EnsureRing
  BY <1>0, <1>7 DEF EnsureRing, server, history
<1>8. CASE LeaveLoop
  BY <1>0, <1>8 DEF LeaveLoop, server, history
<1>9. CASE DestroyNode
  BY <1>0, <1>9 DEF DestroyNode, history
<1>10. CASE DestroyAcceptThread
  BY <1>0, <1>10 DEF DestroyAcceptThread, server, history
<1>11. CASE DestroyPool
  BY <1>0, <1>11 DEF DestroyPool, server, history
<1>12. CASE Signal
  BY <1>0, <1>12 DEF Signal, server
<1>13. ASSUME NEW x \in Stoppers, Stop(x)
       PROVE  LTypeOK'
  <2> USE DEF StopGoto, nodes, history
  <2>1. CASE UseDestroyed(x)
    BY <1>0, <2>1 DEF UseDestroyed
  <2>2. CASE DisableChord(x)
    BY <1>0, <2>2 DEF DisableChord
  <2>3. CASE TestNode(x)
    BY <1>0, <2>3 DEF TestNode
  <2>4. CASE StoreNode(x)
    BY <1>0, <2>4 DEF StoreNode
  <2>5. CASE Detach(x)
    BY <1>0, <2>5 DEF Detach
  <2>6. CASE ClearEnabled(x)
    BY <1>0, <2>6 DEF ClearEnabled
  <2>7. CASE TestRunning(x)
    BY <1>0, <2>7 DEF TestRunning
  <2>8. CASE StoreRunning(x)
    BY <1>0, <2>8 DEF StoreRunning
  <2>9. CASE TestJoinable(x)
    BY <1>0, <2>9 DEF TestJoinable
  <2>10. CASE JoinAccept(x)
    BY <1>0, <2>10 DEF JoinAccept
  <2> QED
    BY <1>13, <2>1, <2>2, <2>3, <2>4, <2>5, <2>6, <2>7, <2>8, <2>9, <2>10 DEF Stop
<1>14. CASE AcceptConnection
  BY <1>0, <1>14 DEF AcceptConnection, nodes, program, history
<1>15. CASE AcceptStep
  BY <1>0, <1>15 DEF AcceptStep, nodes, program, history
<1>16. ASSUME NEW w \in Workers,
              \/ PoolWork(w) \/ PoolSpuriousWakeup(w)
              \/ EnterChord(w) \/ LeaveChord(w) \/ BlockInChord(w) \/ ServeBase(w)
              \/ AdminShutdown(w)
       PROVE  LTypeOK'
  BY <1>0, <1>16 DEF PoolWork, PoolSpuriousWakeup, EnterChord, LeaveChord, BlockInChord,
                     ServeBase, AdminShutdown, server, program, history
<1>17. CASE UNCHANGED lvars
  BY <1>0, <1>17 DEF lvars, server, program, history
<1> QED
  BY <1>1, <1>2, <1>3, <1>4, <1>5, <1>6, <1>7, <1>8, <1>9, <1>10, <1>11, <1>12, <1>13,
     <1>14, <1>15, <1>16, <1>17 DEF LNext, MainStep

(* ProgramInv is inductive. *)
LEMMA ProgramStep == ProgramInv /\ [LNext]_lvars => ProgramInv'
<1> DEFINE Kept == /\ MainWaits' /\ NoConnectionYet' /\ RingUntilStop' /\ TornBySignal' /\ OneJoin'
                   /\ ThreadsFollowNode' /\ StoppedAfterLoop' /\ FreedLast' /\ OrderlyStop'
                   /\ CrashIsExplained' /\ NoEarlyBase'
<1> SUFFICES ASSUME ProgramInv, [LNext]_lvars
             PROVE  Kept
  BY ProgramTypeStep DEF ProgramInv
<1> USE DEF ProgramInv, MainWaits, NoConnectionYet, NotStarted, RingUntilStop, NoStop, OneJoin,
            Untorn, TornBySignal, ThreadsFollowNode, StoppedAfterLoop, FreedLast, OrderlyStop,
            CrashIsExplained, NoEarlyBase, Alive, BeforePolling, MakingRing, Maintenance
<1>0. /\ LTypeOK /\ TypeOK /\ DOMAIN pc = Workers
      /\ stopping \in [Stoppers -> StopLabels]
      /\ "main" \in Stoppers /\ "admin" \in Stoppers
      /\ \A x \in Stoppers : x = "main" \/ x = "admin"
  BY DEF LTypeOK, TypeOK, Stoppers
<1>1. CASE EnableChord
  BY <1>0, <1>1 DEF EnableChord, MainRuns, vars, history
<1>2. CASE StartMaintenance
  BY <1>0, <1>2 DEF StartMaintenance, AfterRing, MainRuns, vars, history
<1>3. CASE AssignThread
  BY <1>0, <1>3 DEF AssignThread, AfterRing, MainRuns, vars, history
<1>4. CASE StartServer
  BY <1>0, <1>4 DEF StartServer, MainRuns, vars, history
<1>5. CASE SocketFails
  BY <1>0, <1>5 DEF SocketFails, EndAccept, MainRuns, server
<1>6. CASE AssignAccept
  BY <1>0, <1>6 DEF AssignAccept, MainRuns, vars, history
<1>7. CASE EnsureRing
  BY <1>0, <1>7 DEF EnsureRing, MainRuns, vars, server, history
<1>8. CASE LeaveLoop
  BY <1>0, <1>8 DEF LeaveLoop, MainRuns, vars, server, history
<1>9. CASE DestroyNode
  BY <1>0, <1>9 DEF DestroyNode, MainRuns, vars, history
<1>10. CASE DestroyAcceptThread
  BY <1>0, <1>10 DEF DestroyAcceptThread, MainRuns, vars, server, history
<1>11. CASE DestroyPool
  <2>1. /\ main = "~ThreadPool" /\ main' \in {"~ThreadPool", "exited"}
        /\ UNCHANGED <<server, caller, stopping, shutdown_requested, crashed, base_early,
                       orderly, torn>>
    BY <1>11 DEF DestroyPool, history
  <2> QED
    BY <1>0, <2>1 DEF server
<1>12. CASE Signal
  BY <1>0, <1>12 DEF Signal, MainRuns, vars, server
<1>13. ASSUME NEW x \in Stoppers, Stop(x)
       PROVE  Kept
  <2>0. x = "main" \/ x = "admin"
    BY <1>0
  <2> USE DEF StopGoto, nodes, vars, history
  <2>1. CASE UseDestroyed(x)
    BY <1>0, <2>0, <2>1 DEF UseDestroyed
  <2>2. CASE DisableChord(x)
    BY <1>0, <2>0, <2>2 DEF DisableChord
  <2>3. CASE TestNode(x)
    BY <1>0, <2>0, <2>3 DEF TestNode
  <2>4. CASE StoreNode(x)
    BY <1>0, <2>0, <2>4 DEF StoreNode
  <2>5. CASE Detach(x)
    BY <1>0, <2>0, <2>5 DEF Detach
  <2>6. CASE ClearEnabled(x)
    BY <1>0, <2>0, <2>6 DEF ClearEnabled
  <2>7. CASE TestRunning(x)
    BY <1>0, <2>0, <2>7 DEF TestRunning
  <2>8. CASE StoreRunning(x)
    BY <1>0, <2>0, <2>8 DEF StoreRunning
  <2>9. CASE TestJoinable(x)
    BY <1>0, <2>0, <2>9 DEF TestJoinable
  <2>10. CASE JoinAccept(x)
    BY <1>0, <2>0, <2>10 DEF JoinAccept
  <2> QED
    BY <1>13, <2>1, <2>2, <2>3, <2>4, <2>5, <2>6, <2>7, <2>8, <2>9, <2>10 DEF Stop
<1>14. CASE AcceptConnection
  BY <1>0, <1>14 DEF AcceptConnection, nodes, vars, program, history
<1>15. CASE AcceptStep
  <2>1. /\ UNCHANGED <<running, accept_joinable, chord_node, nodes, program, history>>
        /\ accept_joinable
    BY <1>15 DEF AcceptStep
  <2> QED
    BY <1>0, <2>1 DEF nodes, program, history
<1>16. ASSUME NEW w \in Workers, PoolWork(w) \/ PoolSpuriousWakeup(w)
       PROVE  Kept
  <2>1. UNCHANGED <<server, program, history>>
    BY <1>16 DEF PoolWork, PoolSpuriousWakeup
  <2>2. ASSUME tasks = <<>>, \A v \in Workers : pc[v] # "running"
        PROVE  tasks' = <<>> /\ \A v \in Workers : pc'[v] # "running"
    BY <1>0, <1>16, <2>2 DEF PoolWork, PoolSpuriousWakeup, Work, TestStop, Lock, Take,
                             DecideToWait, Block, FinishTask, SpuriousWakeup
  <2> QED
    BY <1>0, <2>1, <2>2 DEF server, program, history
<1>17. ASSUME NEW w \in Workers, EnterChord(w) \/ LeaveChord(w) \/ BlockInChord(w)
       PROVE  Kept
  BY <1>0, <1>17 DEF EnterChord, LeaveChord, BlockInChord, vars, server, program, history
<1>18. ASSUME NEW w \in Workers, ServeBase(w)
       PROVE  Kept
  BY <1>0, <1>18 DEF ServeBase, vars, server, program
<1>19. ASSUME NEW w \in Workers, AdminShutdown(w)
       PROVE  Kept
  BY <1>0, <1>19 DEF AdminShutdown, vars, server
<1>20. CASE UNCHANGED lvars
  BY <1>20 DEF lvars, vars, server, program, history
<1> QED
  BY <1>1, <1>2, <1>3, <1>4, <1>5, <1>6, <1>7, <1>8, <1>9, <1>10, <1>11, <1>12, <1>13,
     <1>14, <1>15, <1>16, <1>17, <1>18, <1>19, <1>20 DEF LNext, MainStep
-----------------------------------------------------------------------------
(* What ThreadPool, started alone, and the server program guarantee.       *)

(* While the pool runs a queued connection never has every worker asleep,  *)
(* about to sleep or gone without a notification on its way: condition's   *)
(* wait and enqueue's push exclude each other by queue_mutex, although     *)
(* notify_one is called without it.                                        *)
THEOREM PoolWakes == Spec => []WakeupOnItsWay
<1>1. PoolInv => WakeupOnItsWay
  BY DEF PoolInv
<1> QED
  BY <1>1, PoolInit, PoolStep, PTL DEF Spec

(* The server program takes no step with the pool that ThreadPool does not *)
(* allow, so that what holds of ThreadPool holds of the program.           *)
THEOREM ProgramRunsPool == LSpec => Init /\ [][Next]_vars
<1>1. LInit => Init
  BY DEF LInit
<1> QED
  BY <1>1, PoolRefined, PTL DEF LSpec

(* The same wakeup guarantee with the accept thread started, interrupted   *)
(* and joined by the program.                                              *)
THEOREM ProgramWakes == LSpec => []WakeupOnItsWay
<1>1. PoolInv => WakeupOnItsWay
  BY DEF PoolInv
<1> QED
  BY <1>1, PoolInit, PoolStep, ProgramRunsPool, PTL

(* The invariant of the program holds in every reachable state. *)
LEMMA ProgramInvariant == LSpec => []ProgramInv
BY ProgramInit, ProgramStep, PTL DEF LSpec

(* Every reachable state of the program is of its type. *)
THEOREM ProgramTypeCorrect == LSpec => []LTypeOK
<1>1. ProgramInv => LTypeOK
  BY DEF ProgramInv
<1> QED
  BY <1>1, ProgramInvariant, PTL

(* A signal brings the process down only when it interrupts main between a *)
(* store of running and the assignment of the threads that go with it: at  *)
(* every other moment signal_handler and main's own stop join, detach and  *)
(* destroy each thread exactly once.  Every other crash of a stop needs    *)
(* the detached thread of ADMIN_SHUTDOWN.                                  *)
THEOREM CrashesAreExplained == LSpec => []CrashIsExplained
<1>1. ProgramInv => CrashIsExplained
  BY DEF ProgramInv
<1> QED
  BY <1>1, ProgramInvariant, PTL

(* No request is served by the base storage before a stop begins. *)
THEOREM RingServesFirst == LSpec => []NoEarlyBase
<1>1. ProgramInv => NoEarlyBase
  BY DEF ProgramInv
<1> QED
  BY <1>1, ProgramInvariant, PTL

(* If no stop began before start returned, the node is freed only after    *)
(* its handlers were closed.                                               *)
THEOREM NodeFreedAfterDisable == LSpec => []FreedAfterDisable
<1>1. ProgramInv => FreedAfterDisable
  BY DEF ProgramInv, FreedAfterDisable, FreedLast, OrderlyStop
<1> QED
  BY <1>1, ProgramInvariant, PTL
=============================================================================
