-------------------------- MODULE ReplicationQueue ---------------------------
(***************************************************************************)
(* The asynchronous queue of ReplicationManager (src/replication.cpp,      *)
(* enable_async_replication): replicate_put and replicate_delete queue a   *)
(* task and return true at once, one processing thread sends each task to  *)
(* the replicas and queues a failed one again, and the owner stops and     *)
(* starts the processing.                                                  *)
(*                                                                         *)
(* All tasks are about one key: tasks of different keys meet only in the   *)
(* queue.  They are numbered in the order of enqueue, so the number of a   *)
(* PUT stands for its value.  A replica is a node without replicas of its  *)
(* own (KeyValueRing has the chain).  queue_cv.wait is split as in         *)
(* ThreadPool: the predicate, then release and block in one step.          *)
(***************************************************************************)
EXTENDS Integers, Sequences, FiniteSetsExt

CONSTANTS
  Producers,          \* threads that call replicate_put and replicate_delete
  NumReplicas,        \* task.replicas.size()
  replication_factor,
  max_retries,        \* 3 in the code
  MaxTasks            \* bound: tasks queued in a behaviour

ASSUME QueueAssumption ==
  /\ NumReplicas \in Nat /\ max_retries \in Nat /\ MaxTasks \in Nat
  /\ replication_factor \in Int

Tasks == 1 .. MaxTasks
Replicas == 1 .. NumReplicas        \* the indices of task.replicas

VARIABLES
  pending_tasks,      \* the queue
  type,               \* "PUT" or "DELETE", "none" for a number not used yet
  retry_count,
  outcome,            \* history: "pending", "replicated" or "failed"
  running,
  queue_mutex,        \* "thread" while the processing thread holds it, or "free"
  pc,                 \* where the processing thread is
  task,               \* the task it has taken, its next replica, and how many
  next_replica,       \* of them have confirmed it
  confirmed,
  producer,           \* where each producer is
  owner,              \* where the thread is that starts and stops the processing
  missed,             \* history: notify_all came between a test and its wait
  stored,             \* the value each replica holds, 0 for none
  late,               \* requests the sender gave up that a replica may still execute
  latest, newest      \* history: the last task a replica applied, and its newest

queue == <<pending_tasks, type, retry_count, outcome>>
thread == <<task, next_replica, confirmed>>
remote == <<stored, late, latest, newest>>
control == <<running, owner, missed>>
vars == <<queue, thread, producer, remote, control, queue_mutex, pc>>

TypeOK ==
  /\ pending_tasks \in Seq(Tasks)
  /\ type \in [Tasks -> {"none", "PUT", "DELETE"}]
  /\ retry_count \in [Tasks -> 0 .. max_retries]
  /\ outcome \in [Tasks -> {"pending", "replicated", "failed"}]
  /\ running \in BOOLEAN /\ missed \in BOOLEAN
  /\ queue_mutex \in {"free", "thread"}
  /\ pc \in {"loop", "lock", "test", "block", "asleep", "inner", "send", "ended",
             "finish", "relock"}
  /\ task \in Tasks \cup {0}
  /\ next_replica \in 1 .. NumReplicas + 1 /\ confirmed \in 0 .. NumReplicas
  /\ producer \in [Producers -> {"idle", "notify"}]
  /\ owner \in {"idle", "notify", "join"}
  /\ {stored, latest, newest} \subseteq [Replicas -> Tasks \cup {0}]
  /\ late \in [Replicas -> SUBSET (Tasks \X (0 .. max_retries))]

(* The constructor starts the processing thread. *)
Init ==
  /\ pending_tasks = <<>>
  /\ type = [t \in Tasks |-> "none"] /\ retry_count = [t \in Tasks |-> 0]
  /\ outcome = [t \in Tasks |-> "pending"]
  /\ running = TRUE /\ queue_mutex = "free" /\ pc = "loop"
  /\ task = 0 /\ next_replica = 1 /\ confirmed = 0
  /\ producer = [p \in Producers |-> "idle"]
  /\ owner = "idle" /\ missed = FALSE
  /\ stored = [r \in Replicas |-> 0] /\ latest = stored /\ newest = stored
  /\ late = [r \in Replicas |-> {}]

Goto(label) == pc' = label

(* The number the next task gets. *)
Queued == {t \in Tasks : type[t] # "none"}
-----------------------------------------------------------------------------
(* replicate_put and replicate_delete *)

(* enqueue_replication_task, up to the end of its critical section. *)
Enqueue(p, op) ==
  LET t == Max(Queued \cup {0}) + 1
  IN  /\ producer[p] = "idle" /\ queue_mutex = "free" /\ t \in Tasks
      /\ pending_tasks' = Append(pending_tasks, t)
      /\ type' = [type EXCEPT ![t] = op]
      /\ producer' = [producer EXCEPT ![p] = "notify"]
      /\ UNCHANGED <<retry_count, outcome, thread, remote, control, queue_mutex, pc>>

(* Mutant of NotifyOne: the call is missing. *)
NotifyNobody(p) ==
  /\ producer[p] = "notify"
  /\ producer' = [producer EXCEPT ![p] = "idle"]
  /\ UNCHANGED <<queue, thread, remote, control, queue_mutex, pc>>

NotifyOne(p) ==
  /\ producer[p] = "notify"
  /\ producer' = [producer EXCEPT ![p] = "idle"]
  /\ pc' = IF pc = "asleep" THEN "lock" ELSE pc
  /\ UNCHANGED <<queue, thread, remote, control, queue_mutex>>
-----------------------------------------------------------------------------
(* process_replication_queue *)

TestRunning ==
  /\ pc = "loop"
  /\ Goto(IF running THEN "lock" ELSE "ended")
  /\ UNCHANGED <<queue, thread, producer, remote, control, queue_mutex>>

(* unique_lock, and the reacquisition when wait returns or after a task. *)
Lock ==
  /\ pc \in {"lock", "relock"} /\ queue_mutex = "free"
  /\ queue_mutex' = "thread"
  /\ Goto(IF pc = "lock" THEN "test" ELSE "inner")
  /\ UNCHANGED <<queue, thread, producer, remote, control>>

TestPredicate ==
  /\ pc = "test"
  /\ Goto(IF pending_tasks # <<>> \/ ~running THEN "inner" ELSE "block")
  /\ UNCHANGED <<queue, thread, producer, remote, control, queue_mutex>>

Block ==
  /\ pc = "block"
  /\ queue_mutex' = "free"
  /\ Goto("asleep")
  /\ UNCHANGED <<queue, thread, producer, remote, control>>

SpuriousWakeup ==
  /\ pc = "asleep"
  /\ Goto("lock")
  /\ UNCHANGED <<queue, thread, producer, remote, control, queue_mutex>>

(* The condition of the inner loop does not hold: the lock's scope ends. *)
LeaveInner ==
  /\ pc = "inner" /\ (pending_tasks = <<>> \/ ~running)
  /\ queue_mutex' = "free"
  /\ Goto("loop")
  /\ UNCHANGED <<queue, thread, producer, remote, control>>

(* Mutant of TakeTask: the newest task first. *)
TakeNewest ==
  /\ pc = "inner" /\ pending_tasks # <<>> /\ running
  /\ task' = Max({pending_tasks[i] : i \in DOMAIN pending_tasks})
  /\ pending_tasks' = SelectSeq(pending_tasks, LAMBDA t : t # task')
  /\ queue_mutex' = "free"
  /\ next_replica' = 1 /\ confirmed' = 0
  /\ Goto("send")
  /\ UNCHANGED <<type, retry_count, outcome, producer, remote, control>>

TakeTask ==
  /\ pc = "inner" /\ pending_tasks # <<>> /\ running
  /\ task' = Head(pending_tasks)
  /\ pending_tasks' = Tail(pending_tasks)
  /\ queue_mutex' = "free"
  /\ next_replica' = 1 /\ confirmed' = 0
  /\ Goto("send")
  /\ UNCHANGED <<type, retry_count, outcome, producer, remote, control>>
-----------------------------------------------------------------------------
(* process_single_task *)

required_replications == Min({replication_factor - 1, NumReplicas})

(* What a DELETE answers: a key that is not there is an error to the       *)
(* caller.                                                                 *)
Accepts(r) == type[task] = "PUT" \/ stored[r] # 0

(* Replica r executes the request of task t. *)
Apply(r, t) ==
  /\ stored' = [stored EXCEPT ![r] = IF type[t] = "PUT" THEN t ELSE 0]
  /\ latest' = [latest EXCEPT ![r] = t]
  /\ newest' = [newest EXCEPT ![r] = Max({@, t})]

(* send_replication_request, over a connection of its own: the replica     *)
(* executes the request and its answer arrives, or the answer is late and  *)
(* the sender gives it up by its timeout, or the request is not executed,  *)
(* yet or ever.  A replica without an address (null, or port 0) is passed  *)
(* over, which the sender counts as a request lost.                        *)
Send(end) ==
  LET r == next_replica
  IN  /\ pc = "send" /\ next_replica <= required_replications
      /\ \/ end \in {"answered", "unanswered"} /\ Apply(r, task) /\ UNCHANGED late
         \/ /\ end = "late"
            /\ late' = [late EXCEPT ![r] = @ \cup {<<task, retry_count[task]>>}]
            /\ UNCHANGED <<stored, latest, newest>>
         \/ end = "lost" /\ UNCHANGED remote
      /\ confirmed' = IF end = "answered" /\ Accepts(r) THEN confirmed + 1 ELSE confirmed
      /\ next_replica' = next_replica + 1
      /\ UNCHANGED <<queue, producer, control, queue_mutex, pc, task>>

(* A replica executes a request after its sender gave it up. *)
ExecuteLate(r) ==
  /\ \E request \in late[r] :
       /\ Apply(r, request[1])
       /\ late' = [late EXCEPT ![r] = @ \ {request}]
  /\ UNCHANGED <<queue, thread, producer, control, queue_mutex, pc>>

SendAll ==
  /\ pc = "send" /\ next_replica > required_replications
  /\ Goto("finish")
  /\ UNCHANGED <<queue, thread, producer, remote, control, queue_mutex>>

Success == confirmed >= required_replications

Replicated ==
  /\ pc = "finish" /\ Success
  /\ outcome' = [outcome EXCEPT ![task] = "replicated"]
  /\ Goto("relock")
  /\ UNCHANGED <<pending_tasks, type, retry_count, thread, producer, remote, control,
                 queue_mutex>>

(* Mutant of Retry: one retry more. *)
RetryOnceMore ==
  /\ pc = "finish" /\ ~Success /\ retry_count[task] <= max_retries
  /\ queue_mutex = "free"
  /\ retry_count' = [retry_count EXCEPT ![task] = @ + 1]
  /\ pending_tasks' = Append(pending_tasks, task)
  /\ Goto("relock")
  /\ UNCHANGED <<type, outcome, thread, producer, remote, control, queue_mutex>>

(* The failed task goes to the end of the queue; the notification finds    *)
(* nobody waiting, since the only waiter is this thread.                   *)
Retry ==
  /\ pc = "finish" /\ ~Success /\ retry_count[task] < max_retries
  /\ queue_mutex = "free"
  /\ retry_count' = [retry_count EXCEPT ![task] = @ + 1]
  /\ pending_tasks' = Append(pending_tasks, task)
  /\ Goto("relock")
  /\ UNCHANGED <<type, outcome, thread, producer, remote, control, queue_mutex>>

GiveUp ==
  /\ pc = "finish" /\ ~Success /\ retry_count[task] >= max_retries
  /\ outcome' = [outcome EXCEPT ![task] = "failed"]
  /\ Goto("relock")
  /\ UNCHANGED <<pending_tasks, type, retry_count, thread, producer, remote, control,
                 queue_mutex>>
-----------------------------------------------------------------------------
(* stop_async_processing: running is stored without queue_mutex. *)
StopRunning ==
  /\ owner = "idle" /\ running
  /\ running' = FALSE
  /\ owner' = "notify"
  /\ UNCHANGED <<queue, thread, producer, remote, missed, queue_mutex, pc>>

(* Mutant of NotifyAll: the call is missing. *)
NotifyAllMissing ==
  /\ owner = "notify"
  /\ owner' = "join"
  /\ missed' = (pc = "block")
  /\ UNCHANGED <<queue, thread, producer, remote, running, queue_mutex, pc>>

NotifyAll ==
  /\ owner = "notify"
  /\ owner' = "join"
  /\ missed' = (pc = "block")
  /\ pc' = IF pc = "asleep" THEN "lock" ELSE pc
  /\ UNCHANGED <<queue, thread, producer, remote, running, queue_mutex>>

Join ==
  /\ owner = "join" /\ pc = "ended"
  /\ owner' = "idle"
  /\ UNCHANGED <<queue, thread, producer, remote, running, missed, queue_mutex, pc>>

(* start_async_processing *)
Start ==
  /\ owner = "idle" /\ ~running
  /\ running' = TRUE
  /\ Goto("loop")
  /\ UNCHANGED <<queue, thread, producer, remote, owner, missed, queue_mutex>>
-----------------------------------------------------------------------------
Process ==
  \/ TestRunning \/ Lock \/ TestPredicate \/ Block \/ LeaveInner \/ TakeTask
  \/ \E end \in {"answered", "unanswered", "late", "lost"} : Send(end)
  \/ SendAll \/ Replicated \/ Retry \/ GiveUp

Replicate(p) == (\E op \in {"PUT", "DELETE"} : Enqueue(p, op)) \/ NotifyOne(p)

Next ==
  \/ Process \/ SpuriousWakeup
  \/ \E r \in Replicas : ExecuteLate(r)
  \/ \E p \in Producers : Replicate(p)
  \/ StopRunning \/ NotifyAll \/ Join \/ Start

(* Threads run, and a send ends by the timeouts of Client.  Nobody has to  *)
(* call replicate_put, start or stop.                                      *)
Spec ==
  /\ Init /\ [][Next]_vars
  /\ WF_vars(Process)
  /\ \A p \in Producers : WF_vars(NotifyOne(p))
  /\ WF_vars(NotifyAll \/ Join)
-----------------------------------------------------------------------------
(* A replica holds what an older task wrote over a newer one only if an    *)
(* attempt at the older task failed: the task was queued again, or given   *)
(* up while a request of it was still under way.  A task confirmed at the  *)
(* first attempt reaches every replica in the order of the queue, whoever  *)
(* queued it and however often the processing was stopped between.         *)
StaleOnlyAfterFailure ==
  \A r \in Replicas : latest[r] < newest[r] =>
    retry_count[latest[r]] > 0 \/ outcome[latest[r]] = "failed"

(* process_replication_queue does for every accepted task what Delivery    *)
(* promises: at most 1 + max_retries attempts, one of which reaches every  *)
(* replica or the task is given up, and one of the two comes about while   *)
(* the processing runs.                                                    *)
D == INSTANCE Delivery WITH
  MaxAttempts <- max_retries + 1,
  fate <- [t \in Tasks |-> IF type[t] = "none" THEN "new"
                           ELSE IF outcome[t] = "pending" THEN "accepted" ELSE outcome[t]],
  attempts <- [t \in Tasks |-> retry_count[t] + (IF outcome[t] = "pending" THEN 0 ELSE 1)],
  enabled <- running

ImplementsDelivery == D!DSpec

(* stop_async_processing returns, unless its notification fell between the *)
(* thread's test and its wait, the one case the code leaves open.          *)
StopReturns == (owner = "join" /\ ~missed) ~> (owner = "idle")
=============================================================================
