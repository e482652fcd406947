----------------------------- MODULE ThreadPool ------------------------------
(***************************************************************************)
(* ThreadPool (include/server.h, src/server.cpp): the accept thread of     *)
(* Server enqueues one task per connection, the workers run them, and the  *)
(* destructor stops and joins the workers once the accept thread has ended. *)
(*                                                                         *)
(* condition.wait(lock, pred) evaluates pred under queue_mutex and then    *)
(* releases the mutex and blocks in one step.  Between the two the thread  *)
(* holds the mutex but does not wait yet: whoever notifies without taking  *)
(* the mutex is not heard.                                                 *)
(***************************************************************************)
EXTENDS Naturals, Sequences, SequencesExt

CONSTANTS
  Workers,
  MaxTasks       \* bound: connections accepted in a behaviour

(* main starts 8 workers; --threads 0, a pool that serves nobody, is left  *)
(* out.                                                                    *)
ASSUME PoolAssumption ==
  /\ MaxTasks \in Nat
  /\ Workers # {} /\ "free" \notin Workers

VARIABLES
  tasks,         \* the queue, tasks numbered in the order of enqueue
  enqueued,      \* how many were
  stop,
  mutex,         \* the worker that holds queue_mutex between steps, or "free"
  pc,            \* where each worker is
  accept,        \* where the accept thread is
  destructor     \* where ~ThreadPool is

vars == <<tasks, enqueued, stop, mutex, pc, accept, destructor>>

TypeOK ==
  /\ tasks \in Seq(1 .. MaxTasks)
  /\ enqueued \in 0 .. MaxTasks
  /\ stop \in BOOLEAN
  /\ mutex \in Workers \cup {"free"}
  /\ pc \in [Workers -> {"loop", "lock", "test", "block", "asleep", "running", "exited"}]
  /\ accept \in {"accepting", "notify", "ended"}
  /\ destructor \in {"not called", "notify_all", "join", "returned"}

Init ==
  /\ tasks = <<>> /\ enqueued = 0
  /\ stop = FALSE
  /\ mutex = "free"
  /\ pc = [w \in Workers |-> "loop"]
  /\ accept = "accepting"
  /\ destructor = "not called"
-----------------------------------------------------------------------------
(* Mutant of Enqueue: the task gets the number of the one before it. *)
EnqueueOldNumber ==
  /\ accept = "accepting" /\ mutex = "free" /\ enqueued < MaxTasks
  /\ ~stop
  /\ enqueued' = enqueued + 1
  /\ tasks' = Append(tasks, enqueued)
  /\ accept' = "notify"
  /\ UNCHANGED <<stop, mutex, pc, destructor>>

(* enqueue: the push is one critical section, the notify comes after it.   *)
(* Its early return for a stopped pool is not reached: stop is stored when *)
(* the accept thread has ended.                                            *)
Enqueue ==
  /\ accept = "accepting" /\ mutex = "free" /\ enqueued < MaxTasks
  /\ ~stop
  /\ enqueued' = enqueued + 1
  /\ tasks' = Append(tasks, enqueued')
  /\ accept' = "notify"
  /\ UNCHANGED <<stop, mutex, pc, destructor>>

(* notify_one wakes one of the threads that wait, if there is one. *)
NotifyOne ==
  /\ accept = "notify"
  /\ accept' = "accepting"
  /\ IF \E w \in Workers : pc[w] = "asleep"
       THEN \E w \in Workers : pc[w] = "asleep" /\ pc' = [pc EXCEPT ![w] = "lock"]
       ELSE UNCHANGED pc
  /\ UNCHANGED <<tasks, enqueued, stop, mutex, destructor>>

(* Server::stop joins the accept thread. *)
EndAccept ==
  /\ accept = "accepting"
  /\ accept' = "ended"
  /\ UNCHANGED <<tasks, enqueued, stop, mutex, pc, destructor>>
-----------------------------------------------------------------------------
(* worker_thread *)
TestStop(w) ==
  /\ pc[w] = "loop"
  /\ pc' = [pc EXCEPT ![w] = IF stop THEN "exited" ELSE "lock"]
  /\ UNCHANGED <<tasks, enqueued, stop, mutex, accept, destructor>>

(* unique_lock, also when wait returns. *)
Lock(w) ==
  /\ pc[w] = "lock" /\ mutex = "free"
  /\ mutex' = w
  /\ pc' = [pc EXCEPT ![w] = "test"]
  /\ UNCHANGED <<tasks, enqueued, stop, accept, destructor>>

(* The predicate holds: the worker takes the first task, or returns when   *)
(* there is none.                                                          *)
Take(w) ==
  /\ pc[w] = "test" /\ (stop \/ tasks # <<>>)
  /\ mutex' = "free"
  /\ IF tasks = <<>> THEN pc' = [pc EXCEPT ![w] = "exited"] /\ UNCHANGED tasks
     ELSE /\ tasks' = Tail(tasks)
          /\ pc' = [pc EXCEPT ![w] = "running"]
  /\ UNCHANGED <<enqueued, stop, accept, destructor>>

(* Mutant of DecideToWait: the test made before the mutex is taken. *)
DecideUnlocked(w) ==
  /\ pc[w] = "test" /\ ~stop /\ tasks = <<>>
  /\ mutex' = "free"
  /\ pc' = [pc EXCEPT ![w] = "block"]
  /\ UNCHANGED <<tasks, enqueued, stop, accept, destructor>>

(* The predicate does not hold: the worker is going to wait. *)
DecideToWait(w) ==
  /\ pc[w] = "test" /\ ~stop /\ tasks = <<>>
  /\ pc' = [pc EXCEPT ![w] = "block"]
  /\ UNCHANGED <<tasks, enqueued, stop, mutex, accept, destructor>>

Block(w) ==
  /\ pc[w] = "block"
  /\ mutex' = "free"
  /\ pc' = [pc EXCEPT ![w] = "asleep"]
  /\ UNCHANGED <<tasks, enqueued, stop, accept, destructor>>

(* A condition variable may also wake for no reason. *)
SpuriousWakeup(w) ==
  /\ pc[w] = "asleep"
  /\ pc' = [pc EXCEPT ![w] = "lock"]
  /\ UNCHANGED <<tasks, enqueued, stop, mutex, accept, destructor>>

FinishTask(w) ==
  /\ pc[w] = "running"
  /\ pc' = [pc EXCEPT ![w] = "loop"]
  /\ UNCHANGED <<tasks, enqueued, stop, mutex, accept, destructor>>
-----------------------------------------------------------------------------
(* ~ThreadPool: stop is stored without queue_mutex. *)
StoreStop ==
  /\ accept = "ended" /\ destructor = "not called"
  /\ stop' = TRUE
  /\ destructor' = "notify_all"
  /\ UNCHANGED <<tasks, enqueued, mutex, pc, accept>>

(* Mutant of NotifyAll: notify_one. *)
NotifyOnlyOne ==
  /\ destructor = "notify_all"
  /\ destructor' = "join"
  /\ IF \E w \in Workers : pc[w] = "asleep"
       THEN \E w \in Workers : pc[w] = "asleep" /\ pc' = [pc EXCEPT ![w] = "lock"]
       ELSE UNCHANGED pc
  /\ UNCHANGED <<tasks, enqueued, stop, mutex, accept>>

NotifyAll ==
  /\ destructor = "notify_all"
  /\ destructor' = "join"
  /\ pc' = [w \in Workers |-> IF pc[w] = "asleep" THEN "lock" ELSE pc[w]]
  /\ UNCHANGED <<tasks, enqueued, stop, mutex, accept>>

JoinAll ==
  /\ destructor = "join"
  /\ \A w \in Workers : pc[w] = "exited"
  /\ destructor' = "returned"
  /\ UNCHANGED <<tasks, enqueued, stop, mutex, pc, accept>>
-----------------------------------------------------------------------------
(* A step of a worker that its own thread takes. *)
Work(w) ==
  TestStop(w) \/ Lock(w) \/ Take(w) \/ DecideToWait(w) \/ Block(w) \/ FinishTask(w)

Next ==
  \/ Enqueue \/ NotifyOne \/ EndAccept
  \/ \E w \in Workers : Work(w) \/ SpuriousWakeup(w)
  \/ StoreStop \/ NotifyAll \/ JoinAll

(* Threads run, tasks end (a connection by its 5 second timeouts), and a   *)
(* mutex is granted to a thread that keeps asking for it.                  *)
Spec ==
  /\ Init /\ [][Next]_vars
  /\ WF_vars(NotifyOne)
  /\ WF_vars(StoreStop \/ NotifyAll \/ JoinAll)
  /\ \A w \in Workers : WF_vars(Work(w)) /\ SF_vars(Lock(w))
-----------------------------------------------------------------------------
(* Until the pool stops, a task in the queue never has all workers asleep, *)
(* about to be, or gone, and no notification on its way.                   *)
WakeupOnItsWay ==
  (tasks # <<>> /\ ~stop) =>
    \/ accept = "notify"
    \/ \E w \in Workers : pc[w] \notin {"block", "asleep", "exited"}
=============================================================================
