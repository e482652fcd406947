----------------------- MODULE ReplicationQueueProofs ------------------------
(***************************************************************************)
(* Theorems about ReplicationQueue, for every set of producers and every   *)
(* number of replicas, retries and tasks: the order in which tasks reach   *)
(* the replicas, and that each step of the queue is one Delivery allows.   *)
(***************************************************************************)
EXTENDS ReplicationQueue, NumberTheorems

-----------------------------------------------------------------------------
(* The inductive invariants.                                               *)

(* The processing thread has a task in hand. *)
InHand == pc \in {"send", "finish"}

(* The tasks replica r has applied, up to the newest, or may still apply. *)
Reached(r) == {newest[r]} \cup {request[1] : request \in late[r]}

(* A number is in the queue, in hand, at a replica or on its way to one    *)
(* only after enqueue gave it to a task.                                   *)
Numbered ==
  /\ \A i \in 1 .. Len(pending_tasks) : type[pending_tasks[i]] # "none"
  /\ InHand => task \in Tasks /\ type[task] # "none"
  /\ \A r \in Replicas : \A t \in Reached(r) : t = 0 \/ type[t] # "none"

(* A replica counts once for a task. *)
CountedOnce == confirmed < next_replica

(* A task that was not queued again is behind older ones only: in the      *)
(* queue, with respect to the task in hand, and to what replicas have or   *)
(* may still get.                                                          *)
FreshIsNewest ==
  /\ \A i, j \in 1 .. Len(pending_tasks) :
       i < j /\ retry_count[pending_tasks[j]] = 0 => pending_tasks[i] < pending_tasks[j]
  /\ \A i \in 1 .. Len(pending_tasks) : retry_count[pending_tasks[i]] = 0 =>
       /\ InHand => task < pending_tasks[i]
       /\ \A r \in Replicas : \A t \in Reached(r) : t < pending_tasks[i]
  /\ InHand /\ retry_count[task] = 0 => \A r \in Replicas : \A t \in Reached(r) : t <= task

(* A replica that has applied nothing has no newest task. *)
NothingApplied == \A r \in Replicas : latest[r] = 0 => newest[r] = 0

(* An attempt at t has failed, or is bound to: a request of it was not     *)
(* confirmed.                                                              *)
Failing(t) ==
  \/ retry_count[t] > 0 \/ outcome[t] = "failed"
  \/ /\ InHand /\ task = t
     /\ confirmed + 1 < next_replica /\ next_replica <= required_replications + 1

(* A request that may be executed late is one of a failing attempt. *)
LateIsFailing == \A r \in Replicas : \A t \in {request[1] : request \in late[r]} : Failing(t)

(* The processing is started again only after its thread has ended. *)
StoppedEnded == owner = "idle" /\ ~running => pc = "ended"

Order == FreshIsNewest /\ NothingApplied /\ LateIsFailing /\ StaleOnlyAfterFailure

(* A task is in one place: once in the queue, or in hand, or settled. *)
OnePlace ==
  /\ \A i, j \in 1 .. Len(pending_tasks) : pending_tasks[i] = pending_tasks[j] => i = j
  /\ \A i \in 1 .. Len(pending_tasks) : outcome[pending_tasks[i]] = "pending"
  /\ InHand => /\ outcome[task] = "pending"
               /\ \A i \in 1 .. Len(pending_tasks) : pending_tasks[i] # task
  /\ \A t \in Tasks : type[t] = "none" => outcome[t] = "pending"

DeliveryInv == TypeOK /\ Numbered /\ CountedOnce /\ OnePlace /\ StoppedEnded
-----------------------------------------------------------------------------
(* Lemmas about the model's operators.                                     *)

(* process_single_task asks no more replicas than there are. *)
LEMMA RequiredBounded ==
  required_replications \in Int /\ required_replications <= NumReplicas
<1>1. replication_factor - 1 \in Int /\ NumReplicas \in Int
  BY QueueAssumption
<1> QED
  BY <1>1, MinOfTwo DEF required_replications

(* The number of the next task is above every number given. *)
LEMMA NextNumber ==
  ASSUME TypeOK
  PROVE  /\ Max(Queued \cup {0}) + 1 \in Nat \ {0}
         /\ \A t \in Tasks : type[t] # "none" => t < Max(Queued \cup {0}) + 1
<1> DEFINE S == Queued \cup {0}
<1>1. S \subseteq 0 .. MaxTasks /\ 0 \in S
  BY QueueAssumption DEF Queued, Tasks
<1>2. Max(S) \in S /\ \A y \in S : y <= Max(S)
  BY <1>1, MaxOfBounded, QueueAssumption
<1>3. \A t \in Tasks : type[t] # "none" => t \in S
  BY DEF Queued
<1>4. S \subseteq Nat
  BY <1>1, QueueAssumption
<1> DEFINE m == Max(S)
<1>5. m \in Nat /\ \A y \in S : y <= m
  BY <1>2, <1>4
<1> HIDE DEF m, S
<1>6. m + 1 \in Nat \ {0}
  BY <1>5
<1>7. ASSUME NEW t \in Tasks, type[t] # "none"
      PROVE  t < m + 1
  <2>1. t \in Nat /\ t <= m
    BY <1>3, <1>4, <1>5, <1>7
  <2> QED
    BY <1>5, <2>1
<1> QED
  BY <1>6, <1>7 DEF m, S

(* The queue operations, on sequences over any set. *)
LEMMA AppendFacts ==
  ASSUME NEW S, NEW s \in Seq(S), NEW e \in S
  PROVE  /\ Append(s, e) \in Seq(S)
         /\ Len(Append(s, e)) = Len(s) + 1 /\ Len(s) \in Nat
         /\ \A i \in 1 .. Len(s) : Append(s, e)[i] = s[i] /\ s[i] \in S
         /\ Append(s, e)[Len(s) + 1] = e
OBVIOUS

(* Length and elements of a queue without its head. *)
LEMMA TailFacts ==
  ASSUME NEW S, NEW s \in Seq(S), s # <<>>
  PROVE  /\ Tail(s) \in Seq(S) /\ Head(s) \in S /\ Head(s) = s[1]
         /\ Len(s) \in Nat \ {0} /\ Len(Tail(s)) = Len(s) - 1
         /\ \A i \in 1 .. Len(Tail(s)) : Tail(s)[i] = s[i + 1] /\ i + 1 \in 1 .. Len(s)
OBVIOUS
-----------------------------------------------------------------------------
(* Type correctness.  TypeOK is inductive together with two facts: the     *)
(* task in hand is a task, and a replica is counted once.                  *)

TypeInv == TypeOK /\ CountedOnce /\ (InHand => task \in Tasks)

(* The typing invariant holds initially. *)
LEMMA TypeInit == Init => TypeInv
<1> SUFFICES ASSUME Init
             PROVE  TypeInv
  OBVIOUS
<1>1. /\ 0 \in 0 .. max_retries /\ 0 \in 0 .. NumReplicas /\ 1 \in 1 .. NumReplicas + 1
      /\ <<>> \in Seq(Tasks)
  BY QueueAssumption
<1>2. CountedOnce /\ (InHand => task \in Tasks)
  BY DEF Init, CountedOnce, InHand
<1>3. {stored, latest, newest} \subseteq [Replicas -> Tasks \cup {0}]
  BY DEF Init
<1> QED
  BY <1>1, <1>2, <1>3 DEF Init, TypeInv, TypeOK

(* What a replica has after it executed a request is of its type. *)
LEMMA ApplyTyped ==
  ASSUME TypeOK, NEW r \in Replicas, NEW t \in Tasks, Apply(r, t)
  PROVE  {stored', latest', newest'} \subseteq [Replicas -> Tasks \cup {0}]
<1>1. newest[r] \in Tasks \cup {0}
  BY DEF TypeOK
<1>2. Max({newest[r], t}) \in {newest[r], t}
  <2>1. newest[r] \in Nat /\ t \in Nat
    BY <1>1, QueueAssumption DEF Tasks
  <2> QED
    BY <2>1, MaxOfTwo
<1>3. /\ stored' = [stored EXCEPT ![r] = IF type[t] = "PUT" THEN t ELSE 0]
      /\ latest' = [latest EXCEPT ![r] = t]
      /\ newest' = [newest EXCEPT ![r] = Max({newest[r], t})]
  BY DEF Apply
<1> DEFINE m == Max({newest[r], t})
<1>4. m \in Tasks \cup {0} /\ newest' = [newest EXCEPT ![r] = m]
  BY <1>1, <1>2, <1>3
<1> HIDE DEF m
<1> QED
  BY <1>3, <1>4 DEF TypeOK

(* Every step keeps the typing invariant. *)
LEMMA TypeStep == TypeInv /\ [Next]_vars => TypeInv'
<1> SUFFICES ASSUME TypeInv, [Next]_vars
             PROVE  TypeInv'
  OBVIOUS
<1> USE DEF TypeInv, TypeOK, CountedOnce, InHand
<1>1. ASSUME NEW p \in Producers, NEW op \in {"PUT", "DELETE"}, Enqueue(p, op)
      PROVE  TypeInv'
  <2> DEFINE t == Max(Queued \cup {0}) + 1
  <2>1. t \in Tasks /\ pending_tasks' = Append(pending_tasks, t)
    BY <1>1 DEF Enqueue
  <2> HIDE DEF t
  <2>2. pending_tasks' \in Seq(Tasks)
    BY <2>1, AppendFacts
  <2>3. type' = [type EXCEPT ![t] = op]
    BY <1>1 DEF Enqueue, t
  <2>4. /\ producer' = [producer EXCEPT ![p] = "notify"]
        /\ UNCHANGED <<retry_count, outcome, thread, remote, control, queue_mutex, pc>>
    BY <1>1 DEF Enqueue
  <2> QED
    BY <2>1, <2>2, <2>3, <2>4 DEF thread, remote, control
<1>2. ASSUME NEW p \in Producers, NotifyOne(p)
      PROVE  TypeInv'
  BY <1>2 DEF NotifyOne, queue, thread, remote, control
<1>3. ASSUME NEW r \in Replicas, ExecuteLate(r)
      PROVE  TypeInv'
  <2>1. PICK request \in late[r] :
          /\ Apply(r, request[1])
          /\ late' = [late EXCEPT ![r] = @ \ {request}]
    BY <1>3 DEF ExecuteLate
  <2>2. request[1] \in Tasks
    BY <2>1
  <2>3. {stored', latest', newest'} \subseteq [Replicas -> Tasks \cup {0}]
    BY <2>1, <2>2, ApplyTyped DEF TypeInv
  <2>4. late' \in [Replicas -> SUBSET (Tasks \X (0 .. max_retries))]
    BY <2>1
  <2> QED
    BY <1>3, <2>3, <2>4 DEF ExecuteLate, queue, thread, control
<1>4. CASE TestRunning
  BY <1>4 DEF TestRunning, Goto, queue, thread, remote, control
<1>5. CASE Lock
  BY <1>5 DEF Lock, Goto, queue, thread, remote, control
<1>6. CASE TestPredicate
  BY <1>6 DEF TestPredicate, Goto, queue, thread, remote, control
<1>7. CASE Block
  BY <1>7 DEF Block, Goto, queue, thread, remote, control
<1>8. CASE LeaveInner
  BY <1>8 DEF LeaveInner, Goto, queue, thread, remote, control
<1>9. CASE TakeTask
  <2>1. pending_tasks' \in Seq(Tasks) /\ task' \in Tasks
    BY <1>9, TailFacts DEF TakeTask
  <2>2. 1 \in 1 .. NumReplicas + 1 /\ 0 \in 0 .. NumReplicas
    BY QueueAssumption
  <2> QED
    BY <1>9, <2>1, <2>2 DEF TakeTask, Goto, remote, control
<1>10. ASSUME NEW end \in {"answered", "unanswered", "late", "lost"}, Send(end)
       PROVE  TypeInv'
  <2>1. /\ next_replica \in 1 .. NumReplicas + 1 /\ confirmed \in 0 .. NumReplicas
        /\ confirmed < next_replica
    OBVIOUS
  <2>2. /\ next_replica <= required_replications
        /\ next_replica' = next_replica + 1
        /\ confirmed' \in {confirmed, confirmed + 1}
    BY <1>10 DEF Send
  <2>3. /\ next_replica \in Replicas
        /\ next_replica' \in 1 .. NumReplicas + 1 /\ confirmed' \in 0 .. NumReplicas
        /\ confirmed' < next_replica'
    <3> HIDE DEF TypeInv, TypeOK, CountedOnce
    <3> QED
      BY <2>1, <2>2, RequiredBounded, QueueAssumption DEF Replicas
  <2>4. pc = "send" /\ UNCHANGED <<queue, producer, control, queue_mutex, pc, task>>
    BY <1>10 DEF Send
  <2>5. task \in Tasks
    BY <2>4
  <2>6. {stored', latest', newest'} \subseteq [Replicas -> Tasks \cup {0}]
    <3>1. CASE Apply(next_replica, task)
      BY <2>3, <2>5, <3>1, ApplyTyped DEF TypeInv
    <3>2. CASE ~Apply(next_replica, task)
      BY <1>10, <3>2 DEF Send, remote
    <3> QED
      BY <3>1, <3>2
  <2>7. late' \in [Replicas -> SUBSET (Tasks \X (0 .. max_retries))]
    <3>1. <<task, retry_count[task]>> \in Tasks \X (0 .. max_retries)
      BY <2>5
    <3>2. \/ UNCHANGED late
          \/ late' = [late EXCEPT ![next_replica] = @ \cup {<<task, retry_count[task]>>}]
      BY <1>10 DEF Send, remote
    <3> QED
      BY <2>3, <3>1, <3>2
  <2> QED
    BY <2>3, <2>4, <2>5, <2>6, <2>7 DEF queue, control
<1>11. CASE SendAll
  BY <1>11 DEF SendAll, Goto, queue, thread, remote, control
<1>12. CASE Replicated
  BY <1>12 DEF Replicated, Goto, thread, remote, control
<1>13. CASE Retry
  <2>1. task \in Tasks /\ retry_count[task] \in 0 .. max_retries /\ retry_count[task] < max_retries
    BY <1>13 DEF Retry
  <2>2. retry_count[task] + 1 \in 0 .. max_retries
    <3> HIDE DEF TypeInv
    <3> QED
      BY <2>1, QueueAssumption
  <2>3. pending_tasks' \in Seq(Tasks)
    BY <1>13, <2>1, AppendFacts DEF Retry
  <2>4. retry_count' \in [Tasks -> 0 .. max_retries]
    BY <1>13, <2>1, <2>2 DEF Retry
  <2> QED
    BY <1>13, <2>3, <2>4 DEF Retry, Goto, thread, remote, control
<1>14. CASE GiveUp
  BY <1>14 DEF GiveUp, Goto, thread, remote, control
<1>15. CASE SpuriousWakeup
  BY <1>15 DEF SpuriousWakeup, Goto, queue, thread, remote, control
<1>16. CASE StopRunning
  BY <1>16 DEF StopRunning, queue, thread, remote
<1>17. CASE NotifyAll
  BY <1>17 DEF NotifyAll, queue, thread, remote
<1>18. CASE Join
  BY <1>18 DEF Join, queue, thread, remote
<1>19. CASE Start
  BY <1>19 DEF Start, Goto, queue, thread, remote
<1>20. CASE UNCHANGED vars
  BY <1>20 DEF vars, queue, thread, remote, control
<1> QED
  BY <1>1, <1>2, <1>3, <1>4, <1>5, <1>6, <1>7, <1>8, <1>9, <1>10, <1>11, <1>12, <1>13,
     <1>14, <1>15, <1>16, <1>17, <1>18, <1>19, <1>20 DEF Next, Process, Replicate

(* Every reachable state is of its type; in particular process_single_task *)
(* reads task.replicas within its bounds.                                  *)
THEOREM TypeCorrect == Spec => []TypeOK
<1>1. TypeInv => TypeOK
  BY DEF TypeInv
<1> QED
  BY <1>1, TypeInit, TypeStep, PTL DEF Spec
-----------------------------------------------------------------------------
(* How tasks move.                                                         *)

(* A step that moves no task: of a producer after its enqueue, of the      *)
(* thread between two tasks, or of the owner.                              *)
Quiet == UNCHANGED <<queue, thread, late, latest, newest>> /\ (InHand' <=> InHand)

(* Every step moves no task or is one of the seven that move one. *)
LEMMA StepCases ==
  ASSUME StoppedEnded, [Next]_vars
  PROVE  \/ Quiet
         \/ \E p \in Producers, op \in {"PUT", "DELETE"} : Enqueue(p, op)
         \/ TakeTask \/ Replicated \/ Retry \/ GiveUp
         \/ \E end \in {"answered", "unanswered", "late", "lost"} : Send(end)
         \/ \E r \in Replicas : ExecuteLate(r)
<1> USE DEF Quiet, InHand, Goto, remote
<1>1. ASSUME NEW p \in Producers, NotifyOne(p)
      PROVE  Quiet
  BY <1>1 DEF NotifyOne
<1>2. ASSUME TestRunning \/ Lock \/ TestPredicate \/ Block \/ LeaveInner \/ SendAll
             \/ SpuriousWakeup
      PROVE  Quiet
  BY <1>2 DEF TestRunning, Lock, TestPredicate, Block, LeaveInner, SendAll, SpuriousWakeup
<1>3. ASSUME StopRunning \/ NotifyAll \/ Join \/ Start
      PROVE  Quiet
  BY <1>3 DEF StopRunning, NotifyAll, Join, Start, StoppedEnded
<1>4. ASSUME UNCHANGED vars
      PROVE  Quiet
  BY <1>4 DEF vars
<1> QED
  BY <1>1, <1>2, <1>3, <1>4 DEF Next, Process, Replicate

(* The thread has ended when the owner may start the processing again. *)
LEMMA StoppedEndedStep == StoppedEnded /\ [Next]_vars => StoppedEnded'
<1> SUFFICES ASSUME StoppedEnded, [Next]_vars
             PROVE  StoppedEnded'
  OBVIOUS
<1> USE DEF StoppedEnded, control, Goto
<1>1. CASE StopRunning \/ NotifyAll \/ Join \/ Start
  BY <1>1 DEF StopRunning, NotifyAll, Join, Start
<1>2. CASE Process \/ SpuriousWakeup
  BY <1>2 DEF Process, TestRunning, Lock, TestPredicate, Block, LeaveInner, TakeTask, Send,
              SendAll, Replicated, Retry, GiveUp, SpuriousWakeup
<1>3. ASSUME NEW p \in Producers, Replicate(p)
      PROVE  StoppedEnded'
  BY <1>3 DEF Replicate, Enqueue, NotifyOne
<1>4. ASSUME NEW r \in Replicas, ExecuteLate(r)
      PROVE  StoppedEnded'
  BY <1>4 DEF ExecuteLate
<1>5. CASE UNCHANGED vars
  BY <1>5 DEF vars
<1> QED
  BY <1>1, <1>2, <1>3, <1>4, <1>5 DEF Next

(* What executing t at r changes in the history. *)
LEMMA ApplyHistory ==
  ASSUME TypeOK, NEW r \in Replicas, NEW t \in Tasks, Apply(r, t)
  PROVE  /\ \A q \in Replicas \ {r} : latest'[q] = latest[q] /\ newest'[q] = newest[q]
         /\ latest'[r] = t
         /\ newest'[r] = IF newest[r] >= t THEN newest[r] ELSE t
<1>1. newest[r] \in Nat /\ t \in Nat
  <2>1. newest[r] \in Tasks \cup {0}
    BY DEF TypeOK
  <2> QED
    BY <2>1, QueueAssumption DEF Tasks
<1>2. Max({newest[r], t}) = IF newest[r] >= t THEN newest[r] ELSE t
  BY <1>1, MaxOfTwo
<1>3. /\ latest' = [latest EXCEPT ![r] = t]
      /\ newest' = [newest EXCEPT ![r] = Max({newest[r], t})]
  BY DEF Apply
<1> DEFINE m == Max({newest[r], t})
<1>4. newest' = [newest EXCEPT ![r] = m]
  BY <1>3
<1>5. m = IF newest[r] >= t THEN newest[r] ELSE t
  BY <1>2
<1> HIDE DEF m
<1> QED
  BY <1>3, <1>4, <1>5 DEF TypeOK

(* A send adds at most its task to what a replica has or may still get. *)
LEMMA SendReaches ==
  ASSUME TypeInv, NEW end \in {"answered", "unanswered", "late", "lost"}, Send(end),
         NEW r \in Replicas
  PROVE  Reached(r)' \subseteq Reached(r) \cup {task}
<1>1. next_replica \in Replicas /\ task \in Tasks
  <2>1. next_replica <= required_replications /\ next_replica \in 1 .. NumReplicas + 1 /\ InHand
    BY DEF Send, TypeInv, TypeOK, InHand
  <2> QED
    BY <2>1, RequiredBounded, QueueAssumption DEF Replicas, TypeInv
<1>2. TypeOK
  BY DEF TypeInv
<1>3. CASE Apply(next_replica, task) /\ UNCHANGED late
  <2>1. newest'[r] \in {newest[r], task}
    BY <1>1, <1>2, <1>3, ApplyHistory
  <2> QED
    BY <1>3, <2>1 DEF Reached
<1>4. CASE /\ late' = [late EXCEPT ![next_replica] = @ \cup {<<task, retry_count[task]>>}]
           /\ UNCHANGED newest
  <2>1. late'[r] \subseteq late[r] \cup {<<task, retry_count[task]>>}
    BY <1>1, <1>2, <1>4 DEF TypeOK
  <2>2. {request[1] : request \in late'[r]} \subseteq {request[1] : request \in late[r]} \cup {task}
    BY <2>1
  <2> QED
    BY <1>4, <2>2 DEF Reached
<1>5. CASE UNCHANGED <<late, newest>>
  BY <1>5 DEF Reached
<1> QED
  BY <1>3, <1>4, <1>5 DEF Send, remote

(* A late execution moves a task within what the replicas may get. *)
LEMMA LateReaches ==
  ASSUME TypeInv, NEW q \in Replicas, ExecuteLate(q), NEW r \in Replicas
  PROVE  Reached(r)' \subseteq Reached(r)
<1>1. PICK request \in late[q] : Apply(q, request[1]) /\ late' = [late EXCEPT ![q] = @ \ {request}]
  BY DEF ExecuteLate
<1>2. TypeOK /\ request[1] \in Tasks
  BY <1>1 DEF TypeInv, TypeOK
<1>3. late'[r] \subseteq late[r]
  BY <1>1, <1>2 DEF TypeOK
<1>4. newest'[r] \in {newest[r]} \cup {x[1] : x \in late[r]}
  BY <1>1, <1>2, ApplyHistory
<1> QED
  BY <1>3, <1>4 DEF Reached

(* A number that is in the queue, in hand or at a replica belongs to a     *)
(* task that was queued, and only enqueue gives numbers out.               *)
LEMMA NumberedStep == TypeInv /\ StoppedEnded /\ Numbered /\ [Next]_vars => Numbered'
<1> SUFFICES ASSUME TypeInv, StoppedEnded, Numbered, [Next]_vars
             PROVE  Numbered'
  OBVIOUS
<1>0. /\ pending_tasks \in Seq(Tasks) /\ type \in [Tasks -> {"none", "PUT", "DELETE"}]
      /\ (InHand => task \in Tasks)
      /\ Tasks \subseteq Nat /\ 0 \notin Tasks
  BY QueueAssumption DEF TypeInv, TypeOK, Tasks
<1>r. \A r \in Replicas : Reached(r) \subseteq Tasks \cup {0}
  BY DEF TypeInv, TypeOK, Reached
<1>1. CASE Quiet
  BY <1>1 DEF Quiet, queue, thread, Numbered, Reached
<1>2. ASSUME NEW p \in Producers, NEW op \in {"PUT", "DELETE"}, Enqueue(p, op)
      PROVE  Numbered'
  <2> DEFINE t == Max(Queued \cup {0}) + 1
  <2>1. /\ t \in Tasks /\ pending_tasks' = Append(pending_tasks, t)
        /\ type' = [type EXCEPT ![t] = op]
        /\ UNCHANGED <<task, newest, late, pc>>
    BY <1>2 DEF Enqueue, thread, remote
  <2> HIDE DEF t
  <2>2. \A u \in Tasks : type[u] # "none" => type'[u] # "none"
    BY <1>0, <2>1
  <2>3. /\ Len(pending_tasks') = Len(pending_tasks) + 1 /\ Len(pending_tasks) \in Nat
        /\ \A i \in 1 .. Len(pending_tasks) :
             pending_tasks'[i] = pending_tasks[i] /\ pending_tasks[i] \in Tasks
        /\ pending_tasks'[Len(pending_tasks) + 1] = t
    BY <1>0, <2>1, AppendFacts
  <2>4. type'[t] # "none"
    BY <1>0, <2>1
  <2>5. \A r \in Replicas : Reached(r)' = Reached(r)
    BY <2>1 DEF Reached
  <2>6. \A r \in Replicas : \A u \in Reached(r)' : u = 0 \/ type'[u] # "none"
    BY <1>r, <2>2, <2>5 DEF Numbered
  <2> QED
    BY <1>0, <2>1, <2>2, <2>3, <2>4, <2>6 DEF Numbered, InHand
<1>3. CASE TakeTask
  <2>1. /\ task' = Head(pending_tasks) /\ pending_tasks' = Tail(pending_tasks)
        /\ pending_tasks # <<>> /\ UNCHANGED <<type, newest, late>>
    BY <1>3 DEF TakeTask, remote
  <2>2. /\ task' = pending_tasks[1] /\ task' \in Tasks /\ Len(pending_tasks) \in Nat \ {0}
        /\ \A i \in 1 .. Len(pending_tasks') :
             pending_tasks'[i] = pending_tasks[i + 1] /\ i + 1 \in 1 .. Len(pending_tasks)
    BY <1>0, <2>1, TailFacts
  <2>3. \A r \in Replicas : Reached(r)' = Reached(r)
    BY <2>1 DEF Reached
  <2> QED
    BY <1>0, <2>1, <2>2, <2>3 DEF Numbered
<1>4. ASSUME NEW end \in {"answered", "unanswered", "late", "lost"}, Send(end)
      PROVE  Numbered'
  <2>1. UNCHANGED <<pending_tasks, type, task, pc>> /\ InHand
    BY <1>4 DEF Send, queue, InHand
  <2>2. \A r \in Replicas : Reached(r)' \subseteq Reached(r) \cup {task}
    BY <1>4, SendReaches
  <2> QED
    BY <2>1, <2>2 DEF Numbered, InHand
<1>5. CASE Replicated \/ GiveUp
  <2>1. UNCHANGED <<pending_tasks, type, newest, late>> /\ ~InHand'
    BY <1>5 DEF Replicated, GiveUp, Goto, InHand, remote
  <2>2. \A r \in Replicas : Reached(r)' = Reached(r)
    BY <2>1 DEF Reached
  <2> QED
    BY <2>1, <2>2 DEF Numbered
<1>6. CASE Retry
  <2>1. /\ InHand /\ ~InHand' /\ pending_tasks' = Append(pending_tasks, task)
        /\ UNCHANGED <<type, newest, late>>
    BY <1>6 DEF Retry, Goto, InHand, remote
  <2>2. /\ Len(pending_tasks') = Len(pending_tasks) + 1 /\ Len(pending_tasks) \in Nat
        /\ \A i \in 1 .. Len(pending_tasks) :
             pending_tasks'[i] = pending_tasks[i] /\ pending_tasks[i] \in Tasks
        /\ pending_tasks'[Len(pending_tasks) + 1] = task
    BY <1>0, <2>1, AppendFacts
  <2>3. \A r \in Replicas : Reached(r)' = Reached(r)
    BY <2>1 DEF Reached
  <2> QED
    BY <1>0, <2>1, <2>2, <2>3 DEF Numbered
<1>7. ASSUME NEW q \in Replicas, ExecuteLate(q)
      PROVE  Numbered'
  <2>1. UNCHANGED <<pending_tasks, type, task, pc>>
    BY <1>7 DEF ExecuteLate, queue, thread
  <2>2. \A r \in Replicas : Reached(r)' \subseteq Reached(r)
    BY <1>7, LateReaches
  <2> QED
    BY <2>1, <2>2 DEF Numbered, InHand
<1> QED
  BY <1>1, <1>2, <1>3, <1>4, <1>5, <1>6, <1>7, StepCases
-----------------------------------------------------------------------------
(* The steps of Delivery.                                                  *)

(* DeliveryInv is inductive. *)
LEMMA DeliveryInvStep == DeliveryInv /\ TypeInv /\ [Next]_vars => DeliveryInv'
<1> SUFFICES ASSUME DeliveryInv, TypeInv, [Next]_vars
             PROVE  OnePlace'
  BY TypeStep, NumberedStep, StoppedEndedStep DEF DeliveryInv, TypeInv
<1>0. /\ pending_tasks \in Seq(Tasks) /\ type \in [Tasks -> {"none", "PUT", "DELETE"}]
      /\ outcome \in [Tasks -> {"pending", "replicated", "failed"}]
      /\ InHand => task \in Tasks
      /\ Tasks \subseteq Nat
  BY QueueAssumption DEF TypeInv, TypeOK, Tasks
<1>i. Numbered /\ OnePlace /\ StoppedEnded
  BY DEF DeliveryInv
<1>1. CASE Quiet
  BY <1>i, <1>1 DEF Quiet, queue, thread, OnePlace
<1>2. ASSUME NEW p \in Producers, NEW op \in {"PUT", "DELETE"}, Enqueue(p, op)
      PROVE  OnePlace'
  <2> DEFINE t == Max(Queued \cup {0}) + 1
  <2>1. /\ t \in Tasks /\ pending_tasks' = Append(pending_tasks, t)
        /\ type' = [type EXCEPT ![t] = op]
        /\ UNCHANGED <<outcome, task, pc>>
    BY <1>2 DEF Enqueue, thread
  <2>2. \A u \in Tasks : type[u] # "none" => u < t
    BY NextNumber DEF TypeInv
  <2> HIDE DEF t
  <2>3. /\ Len(pending_tasks') = Len(pending_tasks) + 1 /\ Len(pending_tasks) \in Nat
        /\ \A i \in 1 .. Len(pending_tasks) :
             pending_tasks'[i] = pending_tasks[i] /\ pending_tasks[i] \in Tasks
        /\ pending_tasks'[Len(pending_tasks) + 1] = t
    BY <1>0, <2>1, AppendFacts
  <2>4. type[t] = "none"
    <3>1. t \in Nat
      BY <1>0, <2>1
    <3> QED
      BY <2>1, <2>2, <3>1
  <2>5. /\ \A i \in 1 .. Len(pending_tasks) : pending_tasks[i] # t
        /\ InHand => task # t
        /\ outcome[t] = "pending"
    BY <1>i, <2>1, <2>4 DEF Numbered, OnePlace
  <2>6. \A u \in Tasks : type'[u] = "none" => type[u] = "none"
    BY <1>0, <2>1, <2>4
  <2>7. \A i, j \in 1 .. Len(pending_tasks') : pending_tasks'[i] = pending_tasks'[j] => i = j
    <3> SUFFICES ASSUME NEW i \in 1 .. Len(pending_tasks'), NEW j \in 1 .. Len(pending_tasks'),
                        pending_tasks'[i] = pending_tasks'[j]
                 PROVE  i = j
      OBVIOUS
    <3>1. CASE i = Len(pending_tasks) + 1
      BY <2>3, <2>5, <3>1
    <3>2. CASE i \in 1 .. Len(pending_tasks)
      BY <1>i, <2>3, <2>5, <3>2 DEF OnePlace
    <3> QED
      BY <2>3, <3>1, <3>2
  <2>8. \A i \in 1 .. Len(pending_tasks') : /\ outcome[pending_tasks'[i]] = "pending"
                                            /\ InHand => pending_tasks'[i] # task
    <3> SUFFICES ASSUME NEW i \in 1 .. Len(pending_tasks')
                 PROVE  /\ outcome[pending_tasks'[i]] = "pending"
                        /\ InHand => pending_tasks'[i] # task
      OBVIOUS
    <3>1. CASE i = Len(pending_tasks) + 1
      BY <2>3, <2>5, <3>1
    <3>2. CASE i \in 1 .. Len(pending_tasks)
      BY <1>i, <2>3, <3>2 DEF OnePlace
    <3> QED
      BY <2>3, <3>1, <3>2
  <2> QED
    BY <1>i, <2>1, <2>6, <2>7, <2>8 DEF OnePlace, InHand
<1>3. CASE TakeTask
  <2>1. /\ task' = Head(pending_tasks) /\ pending_tasks' = Tail(pending_tasks)
        /\ pending_tasks # <<>> /\ UNCHANGED <<type, outcome>>
    BY <1>3 DEF TakeTask
  <2>2. /\ task' = pending_tasks[1] /\ Len(pending_tasks) \in Nat \ {0}
        /\ \A i \in 1 .. Len(pending_tasks') :
             pending_tasks'[i] = pending_tasks[i + 1] /\ i + 1 \in 1 .. Len(pending_tasks)
    BY <1>0, <2>1, TailFacts
  <2>3. 1 \in 1 .. Len(pending_tasks)
    BY <2>2
  <2>4. outcome[task'] = "pending"
    BY <1>i, <2>2, <2>3 DEF OnePlace
  <2>5. ASSUME NEW i \in 1 .. Len(pending_tasks')
        PROVE  /\ pending_tasks'[i] # task' /\ outcome[pending_tasks'[i]] = "pending"
               /\ \A j \in 1 .. Len(pending_tasks') : pending_tasks'[i] = pending_tasks'[j] => i = j
    <3>1. i + 1 \in 1 .. Len(pending_tasks) /\ i + 1 # 1
      BY <2>2
    <3>2. pending_tasks'[i] # task' /\ outcome[pending_tasks'[i]] = "pending"
      BY <1>i, <2>2, <2>3, <3>1 DEF OnePlace
    <3>3. ASSUME NEW j \in 1 .. Len(pending_tasks'), pending_tasks'[i] = pending_tasks'[j]
          PROVE  i = j
      <4>1. j + 1 \in 1 .. Len(pending_tasks) /\ pending_tasks[i + 1] = pending_tasks[j + 1]
        BY <2>2, <3>3
      <4>2. i + 1 = j + 1
        BY <1>i, <3>1, <4>1 DEF OnePlace
      <4> QED
        BY <4>2
    <3> QED
      BY <3>2, <3>3
  <2> QED
    BY <1>i, <2>1, <2>4, <2>5 DEF OnePlace
<1>4. ASSUME NEW end \in {"answered", "unanswered", "late", "lost"}, Send(end)
      PROVE  OnePlace'
  BY <1>4, <1>i DEF Send, queue, OnePlace, InHand
<1>5. CASE Replicated \/ GiveUp
  <2>1. /\ InHand /\ ~InHand' /\ UNCHANGED <<pending_tasks, type>>
        /\ \A u \in Tasks : u # task => outcome'[u] = outcome[u]
    BY <1>0, <1>5 DEF Replicated, GiveUp, Goto, InHand
  <2>2. \A i \in 1 .. Len(pending_tasks) : pending_tasks[i] \in Tasks
    BY <1>0
  <2>3. type[task] # "none"
    BY <1>i, <2>1 DEF Numbered
  <2> QED
    BY <1>i, <2>1, <2>2, <2>3 DEF OnePlace
<1>6. CASE Retry
  <2>1. /\ InHand /\ ~InHand' /\ pending_tasks' = Append(pending_tasks, task)
        /\ UNCHANGED <<type, outcome>>
    BY <1>6 DEF Retry, Goto, InHand
  <2>2. /\ Len(pending_tasks') = Len(pending_tasks) + 1 /\ Len(pending_tasks) \in Nat
        /\ \A i \in 1 .. Len(pending_tasks) :
             pending_tasks'[i] = pending_tasks[i] /\ pending_tasks[i] \in Tasks
        /\ pending_tasks'[Len(pending_tasks) + 1] = task
    BY <1>0, <2>1, AppendFacts
  <2>3. ASSUME NEW i \in 1 .. Len(pending_tasks')
        PROVE  /\ outcome[pending_tasks'[i]] = "pending"
               /\ \A j \in 1 .. Len(pending_tasks') : pending_tasks'[i] = pending_tasks'[j] => i = j
    <3>1. CASE i = Len(pending_tasks) + 1
      BY <1>i, <2>1, <2>2, <3>1 DEF OnePlace
    <3>2. CASE i \in 1 .. Len(pending_tasks)
      BY <1>i, <2>1, <2>2, <3>2 DEF OnePlace
    <3> QED
      BY <2>2, <3>1, <3>2
  <2> QED
    BY <1>i, <2>1, <2>3 DEF OnePlace
<1>7. ASSUME NEW r \in Replicas, ExecuteLate(r)
      PROVE  OnePlace'
  BY <1>7, <1>i DEF ExecuteLate, queue, thread, OnePlace, InHand
<1> QED
  BY <1>i, <1>1, <1>2, <1>3, <1>4, <1>5, <1>6, <1>7, StepCases

(* running changes only when the owner starts or stops the processing. *)
LEMMA RunningCases ==
  ASSUME [Next]_vars
  PROVE  running' = running \/ running' = ~running
BY DEF Next, Process, Replicate, Enqueue, NotifyOne, ExecuteLate, TestRunning, Lock, TestPredicate,
       Block, LeaveInner, TakeTask, Send, SendAll, Replicated, Retry, GiveUp, SpuriousWakeup,
       StopRunning, NotifyAll, Join, Start, control, vars

(* The step simulation, under the mapping of D: enqueue accepts the task,  *)
(* the end of process_single_task is an attempt, whichever way it ends,    *)
(* start and stop switch the replication, and nothing else is seen.        *)
LEMMA DeliverySimulated ==
  ASSUME DeliveryInv, TypeInv, [Next]_vars
  PROVE  [D!DNext]_(D!dvars)
<1>0. /\ type \in [Tasks -> {"none", "PUT", "DELETE"}]
      /\ outcome \in [Tasks -> {"pending", "replicated", "failed"}]
      /\ retry_count \in [Tasks -> 0 .. max_retries]
      /\ running \in BOOLEAN /\ (InHand => task \in Tasks) /\ Tasks \subseteq Nat
  BY QueueAssumption DEF TypeInv, TypeOK, Tasks
<1>i. Numbered /\ OnePlace /\ StoppedEnded
  BY DEF DeliveryInv
<1> DEFINE Fate(t) == IF type[t] = "none" THEN "new"
                      ELSE IF outcome[t] = "pending" THEN "accepted" ELSE outcome[t]
           Att(t) == retry_count[t] + (IF outcome[t] = "pending" THEN 0 ELSE 1)
           fate == [t \in Tasks |-> Fate(t)]
           attempts == [t \in Tasks |-> Att(t)]
<1>1. ASSUME UNCHANGED <<type, outcome, retry_count, running>>
      PROVE  UNCHANGED D!dvars
  BY <1>1 DEF D!dvars
<1>2. ASSUME UNCHANGED <<type, outcome, retry_count>>, running' = ~running
      PROVE  D!DNext
  BY <1>2 DEF D!DNext, D!Switch
<1>3. ASSUME NEW p \in Producers, NEW op \in {"PUT", "DELETE"}, Enqueue(p, op)
      PROVE  D!DNext
  <2>0. PICK t \in Tasks : t = Max(Queued \cup {0}) + 1
    BY <1>3 DEF Enqueue
  <2>1. type' = [type EXCEPT ![t] = op] /\ UNCHANGED <<outcome, retry_count, running>>
    BY <1>3, <2>0 DEF Enqueue, control
  <2>2. \A u \in Tasks : type[u] # "none" => u < t
    BY <2>0, NextNumber DEF TypeInv
  <2>3. type[t] = "none" /\ outcome[t] = "pending"
    <3>1. t \in Nat
      BY <1>0, <2>1
    <3> QED
      BY <1>i, <2>1, <2>2, <3>1 DEF OnePlace
  <2>4. fate[t] = "new" /\ fate' = [fate EXCEPT ![t] = "accepted"] /\ UNCHANGED attempts
    BY <1>0, <2>1, <2>3
  <2>5. D!Accept(t)
    BY <2>1, <2>4 DEF D!Accept
  <2> QED
    BY <2>1, <2>5 DEF D!DNext
<1>4. CASE Replicated \/ Retry \/ GiveUp
  <2>1. InHand /\ UNCHANGED <<type, running>>
    BY <1>4 DEF Replicated, Retry, GiveUp, InHand, control
  <2>2. PICK t \in Tasks : t = task
    BY <1>0, <2>1
  <2>3. /\ type[t] # "none" /\ outcome[t] = "pending"
        /\ retry_count[t] \in 0 .. max_retries
    BY <1>0, <1>i, <2>1, <2>2 DEF Numbered, OnePlace
  <2>4. fate[t] = "accepted" /\ attempts[t] = retry_count[t]
    BY <2>3
  <2>5. attempts[t] < max_retries + 1
    BY <2>3, <2>4, QueueAssumption
  <2>6. ASSUME NEW end \in {"replicated", "failed"},
               outcome' = [outcome EXCEPT ![t] = end], UNCHANGED retry_count
        PROVE  /\ fate' = [fate EXCEPT ![t] = end]
               /\ attempts' = [attempts EXCEPT ![t] = @ + 1]
    <3>1. outcome'[t] = end /\ \A u \in Tasks \ {t} : outcome'[u] = outcome[u]
      BY <1>0, <2>6
    <3>2. fate' = [fate EXCEPT ![t] = end]
      BY <2>1, <2>3, <3>1
    <3>3. Att(t)' = attempts[t] + 1 /\ \A u \in Tasks \ {t} : Att(u)' = attempts[u]
      BY <2>3, <2>4, <2>6, <3>1
    <3>4. attempts' = [attempts EXCEPT ![t] = @ + 1]
      BY <3>3
    <3> QED
      BY <3>2, <3>4
  <2>7. CASE Replicated
    <3>1. outcome' = [outcome EXCEPT ![t] = "replicated"] /\ UNCHANGED retry_count
      BY <2>2, <2>7 DEF Replicated
    <3>2. /\ fate' = [fate EXCEPT ![t] = "replicated"]
          /\ attempts' = [attempts EXCEPT ![t] = @ + 1]
      BY <2>6, <3>1
    <3>3. D!Attempt(t)
      BY <2>1, <2>4, <2>5, <3>2 DEF D!Attempt
    <3> QED
      BY <3>3 DEF D!DNext
  <2>8. CASE Retry
    <3>1. /\ retry_count[t] < max_retries
          /\ retry_count' = [retry_count EXCEPT ![t] = @ + 1] /\ UNCHANGED outcome
      BY <2>2, <2>8 DEF Retry
    <3>2. /\ retry_count'[t] = retry_count[t] + 1
          /\ \A u \in Tasks \ {t} : retry_count'[u] = retry_count[u]
      BY <1>0, <3>1
    <3>3. Att(t)' = attempts[t] + 1 /\ \A u \in Tasks \ {t} : Att(u)' = attempts[u]
      BY <2>3, <2>4, <3>1, <3>2
    <3>4. attempts' = [attempts EXCEPT ![t] = @ + 1]
      BY <3>3
    <3>5. UNCHANGED fate
      BY <2>1, <3>1
    <3>6. attempts'[t] < max_retries + 1
      BY <2>3, <2>4, <3>1, <3>4, QueueAssumption
    <3>7. D!Attempt(t)
      BY <2>1, <2>4, <2>5, <3>4, <3>5, <3>6 DEF D!Attempt
    <3> QED
      BY <3>7 DEF D!DNext
  <2>9. CASE GiveUp
    <3>1. /\ retry_count[t] >= max_retries
          /\ outcome' = [outcome EXCEPT ![t] = "failed"] /\ UNCHANGED retry_count
      BY <2>2, <2>9 DEF GiveUp
    <3>2. /\ fate' = [fate EXCEPT ![t] = "failed"]
          /\ attempts' = [attempts EXCEPT ![t] = @ + 1]
      BY <2>6, <3>1
    <3>3. attempts'[t] = max_retries + 1
      BY <2>3, <2>4, <3>1, <3>2, QueueAssumption
    <3>4. D!Attempt(t)
      BY <2>1, <2>4, <2>5, <3>2, <3>3 DEF D!Attempt
    <3> QED
      BY <3>4 DEF D!DNext
  <2> QED
    BY <1>4, <2>7, <2>8, <2>9
<1>5. ASSUME TakeTask \/ (\E r \in Replicas : ExecuteLate(r)) \/ \E end \in {"answered", "unanswered", "late", "lost"} : Send(end)
      PROVE  UNCHANGED <<type, outcome, retry_count, running>>
  BY <1>5 DEF TakeTask, Send, ExecuteLate, queue, control
<1>6. ASSUME Quiet
      PROVE  \/ UNCHANGED <<type, outcome, retry_count, running>>
             \/ UNCHANGED <<type, outcome, retry_count>> /\ running' = ~running
  BY <1>0, <1>6, RunningCases DEF Quiet, queue
<1> QED
  BY <1>i, <1>1, <1>2, <1>3, <1>4, <1>5, <1>6, StepCases

(* process_replication_queue, with its mutex, its condition variable and   *)
(* the producers' threads, takes only steps that Delivery allows: at most  *)
(* 1 + max_retries attempts at a task, whose end is final.                 *)
THEOREM DeliverySafety == Spec => D!DInit /\ [][D!DNext]_(D!dvars)
<1>1. Init => DeliveryInv /\ TypeInv
  BY TypeInit DEF Init, DeliveryInv, TypeInv, Numbered, InHand, OnePlace, StoppedEnded, Reached
<1>2. DeliveryInv /\ TypeInv /\ [Next]_vars => (DeliveryInv /\ TypeInv)'
  BY DeliveryInvStep, TypeStep
<1>3. Init => D!DInit
  BY DEF Init, D!DInit
<1>4. DeliveryInv /\ TypeInv /\ [Next]_vars => [D!DNext]_(D!dvars)
  BY DeliverySimulated
<1> QED
  BY <1>1, <1>2, <1>3, <1>4, PTL DEF Spec
-----------------------------------------------------------------------------
(* The order of tasks.                                                     *)

(* A failing attempt stays one: its task was queued again or given up when *)
(* it left the thread's hand.                                              *)
LEMMA FailingStep ==
  ASSUME DeliveryInv, TypeInv, [Next]_vars, NEW t \in Tasks, Failing(t)
  PROVE  Failing(t)'
<1>0. /\ retry_count \in [Tasks -> 0 .. max_retries]
      /\ outcome \in [Tasks -> {"pending", "replicated", "failed"}]
      /\ (InHand => task \in Tasks /\ outcome[task] = "pending")
      /\ next_replica \in Nat /\ confirmed \in Nat /\ StoppedEnded
      /\ required_replications \in Int
  BY QueueAssumption, RequiredBounded DEF TypeInv, TypeOK, DeliveryInv, OnePlace
<1> USE DEF Failing
<1>1. CASE Quiet
  BY <1>1 DEF Quiet, queue, thread
<1>2. ASSUME NEW p \in Producers, NEW op \in {"PUT", "DELETE"}, Enqueue(p, op)
      PROVE  Failing(t)'
  <2>1. UNCHANGED <<retry_count, outcome, task, next_replica, confirmed, pc>>
    BY <1>2 DEF Enqueue, thread
  <2> QED
    BY <2>1 DEF InHand
<1>3. CASE TakeTask
  <2>1. UNCHANGED <<retry_count, outcome>> /\ ~InHand
    BY <1>3 DEF TakeTask, InHand
  <2> QED
    BY <2>1
<1>4. ASSUME NEW end \in {"answered", "unanswered", "late", "lost"}, Send(end)
      PROVE  Failing(t)'
  <2>1. /\ UNCHANGED <<retry_count, outcome, task, pc>>
        /\ next_replica <= required_replications /\ next_replica' = next_replica + 1
        /\ confirmed' \in {confirmed, confirmed + 1}
    BY <1>4 DEF Send, queue
  <2>2. CASE retry_count[t] > 0 \/ outcome[t] = "failed"
    BY <2>1, <2>2
  <2>3. CASE InHand /\ task = t /\ confirmed + 1 < next_replica
    <3>1. ASSUME NEW c \in Nat, NEW n \in Nat, NEW m \in Int, c + 1 < n, n <= m
          PROVE  c + 1 < n + 1 /\ c + 1 + 1 < n + 1 /\ n + 1 <= m + 1
      BY <3>1
    <3>2. confirmed' + 1 < next_replica' /\ next_replica' <= required_replications + 1
      BY <1>0, <2>1, <2>3, <3>1
    <3> QED
      BY <2>1, <2>3, <3>2 DEF InHand
  <2> QED
    BY <2>2, <2>3
<1>5. CASE Replicated \/ Retry \/ GiveUp
  <2>1. InHand /\ pc = "finish"
    BY <1>5 DEF Replicated, Retry, GiveUp, InHand
  <2>2. CASE t # task
    <3>1. retry_count'[t] = retry_count[t] /\ outcome'[t] = outcome[t]
      BY <1>0, <1>5, <2>1, <2>2 DEF Replicated, Retry, GiveUp
    <3> QED
      BY <2>2, <3>1
  <2>3. CASE t = task
    <3>1. CASE retry_count[t] > 0
      <4>1. retry_count'[t] \in {retry_count[t], retry_count[t] + 1}
        BY <1>0, <1>5, <2>3 DEF Replicated, Retry, GiveUp
      <4>2. retry_count[t] \in Nat
        BY <1>0, QueueAssumption
      <4> QED
        BY <3>1, <4>1, <4>2
    <3>2. CASE ~(retry_count[t] > 0)
      <4>1. ~Success
        BY <1>0, <2>1, <2>3, <3>2 DEF Success
      <4>2. CASE Retry
        <5>1. retry_count'[t] = retry_count[t] + 1 /\ retry_count[t] \in Nat
          BY <1>0, <2>3, <4>2, QueueAssumption DEF Retry
        <5> QED
          BY <5>1
      <4>3. CASE GiveUp
        <5>1. outcome'[t] = "failed"
          BY <1>0, <2>3, <4>3 DEF GiveUp
        <5> QED
          BY <5>1
      <4> QED
        BY <1>5, <4>1, <4>2, <4>3 DEF Replicated
    <3> QED
      BY <3>1, <3>2
  <2> QED
    BY <2>2, <2>3
<1>6. ASSUME NEW r \in Replicas, ExecuteLate(r)
      PROVE  Failing(t)'
  <2>1. UNCHANGED <<retry_count, outcome, task, next_replica, confirmed, pc>>
    BY <1>6 DEF ExecuteLate, queue, thread
  <2> QED
    BY <2>1 DEF InHand
<1> QED
  BY <1>0, <1>1, <1>2, <1>3, <1>4, <1>5, <1>6, StepCases

(* Only a request of a failing attempt is left to be executed late. *)
LEMMA LateStep ==
  ASSUME DeliveryInv, TypeInv, LateIsFailing, [Next]_vars
  PROVE  LateIsFailing'
<1> SUFFICES ASSUME NEW r \in Replicas, NEW request \in late'[r]
             PROVE  Failing(request[1])'
  BY DEF LateIsFailing
<1>0. late \in [Replicas -> SUBSET (Tasks \X (0 .. max_retries))] /\ StoppedEnded
  BY DEF TypeInv, TypeOK, DeliveryInv
<1>1. CASE request \in late[r]
  <2>1. request[1] \in Tasks /\ Failing(request[1])
    BY <1>0, <1>1 DEF LateIsFailing
  <2> QED
    BY <2>1, FailingStep
<1>2. CASE request \notin late[r]
  <2>1. PICK end \in {"answered", "unanswered", "late", "lost"} : Send(end)
    <3>1. ASSUME NEW q \in Replicas, ExecuteLate(q)
          PROVE  FALSE
      BY <1>0, <1>2, <3>1 DEF ExecuteLate
    <3>2. late' # late
      BY <1>2
    <3> QED
      BY <1>0, <3>1, <3>2, StepCases DEF Quiet, Enqueue, TakeTask, Replicated, Retry, GiveUp, remote
  <2>2. /\ end = "late"
        /\ late' = [late EXCEPT ![next_replica] = @ \cup {<<task, retry_count[task]>>}]
    BY <1>2, <2>1 DEF Send, remote
  <2>3. request[1] = task
    BY <1>0, <1>2, <2>2
  <2>4. /\ InHand' /\ task' = task /\ confirmed' = confirmed
        /\ next_replica' = next_replica + 1 /\ next_replica <= required_replications
    BY <2>1, <2>2 DEF Send, InHand
  <2>5. confirmed \in Nat /\ next_replica \in Nat /\ confirmed < next_replica
        /\ required_replications \in Int
    BY QueueAssumption, RequiredBounded DEF TypeInv, TypeOK, CountedOnce
  <2>6. confirmed' + 1 < next_replica' /\ next_replica' <= required_replications + 1
    BY <2>4, <2>5
  <2> QED
    BY <2>3, <2>4, <2>6 DEF Failing
<1> QED
  BY <1>1, <1>2

(* The order is kept by every step. *)
LEMMA OrderStep == Order /\ DeliveryInv /\ TypeInv /\ [Next]_vars => Order'
<1> SUFFICES ASSUME Order, DeliveryInv, TypeInv, [Next]_vars
             PROVE  FreshIsNewest' /\ NothingApplied' /\ StaleOnlyAfterFailure'
  BY LateStep DEF Order
<1>0. /\ pending_tasks \in Seq(Tasks) /\ type \in [Tasks -> {"none", "PUT", "DELETE"}]
      /\ newest \in [Replicas -> Tasks \cup {0}] /\ latest \in [Replicas -> Tasks \cup {0}]
      /\ retry_count \in [Tasks -> 0 .. max_retries]
      /\ outcome \in [Tasks -> {"pending", "replicated", "failed"}]
      /\ late \in [Replicas -> SUBSET (Tasks \X (0 .. max_retries))]
      /\ (InHand => task \in Tasks /\ outcome[task] = "pending")
      /\ Tasks \subseteq Nat /\ 0 \notin Tasks
      /\ TypeOK
  <2>1. Tasks \subseteq Nat /\ 0 \notin Tasks
    BY QueueAssumption DEF Tasks
  <2> QED
    BY <2>1 DEF TypeInv, TypeOK, DeliveryInv, OnePlace
<1>r. \A r \in Replicas : Reached(r) \subseteq Tasks \cup {0} /\ newest[r] \in Reached(r)
  BY <1>0 DEF Reached
<1>n. /\ \A i \in 1 .. Len(pending_tasks) : pending_tasks[i] \in Nat
      /\ \A r \in Replicas : newest[r] \in Nat /\ latest[r] \in Nat
      /\ InHand => task \in Nat
      /\ \A r \in Replicas : \A t \in Reached(r) : t \in Nat
  <2>1. \A i \in 1 .. Len(pending_tasks) : pending_tasks[i] \in Tasks
    BY <1>0
  <2>2. \A r \in Replicas : newest[r] \in Tasks \cup {0} /\ latest[r] \in Tasks \cup {0}
    BY <1>0
  <2>3. Tasks \cup {0} \subseteq Nat
    BY <1>0
  <2> QED
    BY <1>0, <1>r, <2>1, <2>2, <2>3
<1>i. Numbered /\ FreshIsNewest /\ NothingApplied /\ LateIsFailing /\ StaleOnlyAfterFailure
      /\ StoppedEnded
  BY DEF Order, DeliveryInv
<1>1. CASE Quiet
  <2>1. \A r \in Replicas : Reached(r)' = Reached(r)
    BY <1>1 DEF Quiet, Reached
  <2>2. UNCHANGED <<pending_tasks, retry_count, outcome, task, latest, newest>> /\ (InHand' <=> InHand)
    BY <1>1 DEF Quiet, queue, thread
  <2> QED
    BY <1>i, <2>1, <2>2 DEF FreshIsNewest, NothingApplied, StaleOnlyAfterFailure
<1>2. ASSUME NEW p \in Producers, NEW op \in {"PUT", "DELETE"}, Enqueue(p, op)
      PROVE  FreshIsNewest' /\ NothingApplied' /\ StaleOnlyAfterFailure'
  <2> DEFINE t == Max(Queued \cup {0}) + 1
  <2>1. /\ t \in Tasks /\ pending_tasks' = Append(pending_tasks, t)
        /\ UNCHANGED <<retry_count, outcome, task, latest, newest, late, pc>>
    BY <1>2 DEF Enqueue, thread, remote
  <2>2. \A u \in Tasks : type[u] # "none" => u < t
    BY NextNumber DEF TypeInv
  <2> HIDE DEF t
  <2>3. /\ Len(pending_tasks') = Len(pending_tasks) + 1 /\ Len(pending_tasks) \in Nat
        /\ \A i \in 1 .. Len(pending_tasks) :
             pending_tasks'[i] = pending_tasks[i] /\ pending_tasks[i] \in Tasks
        /\ pending_tasks'[Len(pending_tasks) + 1] = t
    BY <1>0, <2>1, AppendFacts
  <2>r. \A r \in Replicas : Reached(r)' = Reached(r)
    BY <2>1 DEF Reached
  <2>4. /\ \A i \in 1 .. Len(pending_tasks) : pending_tasks[i] < t
        /\ InHand => task < t
        /\ \A r \in Replicas : \A u \in Reached(r) : u < t
    <3>1. t \in Nat /\ 0 < t
      BY <1>0, <2>1
    <3>2. \A r \in Replicas : \A u \in Reached(r) : u < t
      BY <1>r, <1>i, <2>2, <3>1 DEF Numbered
    <3> QED
      BY <1>0, <1>i, <2>2, <2>3, <3>1, <3>2 DEF Numbered
  <2>5. NothingApplied' /\ StaleOnlyAfterFailure'
    BY <1>i, <2>1 DEF NothingApplied, StaleOnlyAfterFailure
  <2>6. FreshIsNewest'
    <3>1. ASSUME NEW j \in 1 .. Len(pending_tasks'), retry_count[pending_tasks'[j]] = 0
          PROVE  /\ \A i \in 1 .. Len(pending_tasks') :
                      i < j => pending_tasks'[i] < pending_tasks'[j]
                 /\ InHand => task < pending_tasks'[j]
                 /\ \A r \in Replicas : \A u \in Reached(r) : u < pending_tasks'[j]
      <4>1. CASE j = Len(pending_tasks) + 1
        BY <2>3, <2>4, <4>1
      <4>2. CASE j \in 1 .. Len(pending_tasks)
        BY <1>i, <2>3, <3>1, <4>2 DEF FreshIsNewest
      <4> QED
        BY <2>3, <4>1, <4>2
    <3> QED
      BY <1>i, <2>1, <2>r, <3>1 DEF FreshIsNewest, InHand
  <2> QED
    BY <2>5, <2>6
<1>3. CASE TakeTask
  <2>1. /\ task' = Head(pending_tasks) /\ pending_tasks' = Tail(pending_tasks)
        /\ pending_tasks # <<>> /\ UNCHANGED <<retry_count, outcome, latest, newest, late>>
    BY <1>3 DEF TakeTask, remote
  <2>2. /\ task' = pending_tasks[1] /\ task' \in Tasks /\ Len(pending_tasks) \in Nat \ {0}
        /\ \A i \in 1 .. Len(pending_tasks') :
             pending_tasks'[i] = pending_tasks[i + 1] /\ i + 1 \in 1 .. Len(pending_tasks)
    BY <1>0, <2>1, TailFacts
  <2>r. \A r \in Replicas : Reached(r)' = Reached(r)
    BY <2>1 DEF Reached
  <2>3. NothingApplied' /\ StaleOnlyAfterFailure'
    BY <1>i, <2>1 DEF NothingApplied, StaleOnlyAfterFailure
  <2>4. 1 \in 1 .. Len(pending_tasks)
    BY <2>2
  <2>5. retry_count[task'] = 0 => \A r \in Replicas : \A u \in Reached(r) : u <= task'
    BY <1>0, <1>i, <1>n, <2>2, <2>4 DEF FreshIsNewest
  <2>6. ASSUME NEW j \in 1 .. Len(pending_tasks'), retry_count[pending_tasks'[j]] = 0
        PROVE  /\ \A i \in 1 .. Len(pending_tasks') :
                    i < j => pending_tasks'[i] < pending_tasks'[j]
               /\ task' < pending_tasks'[j]
               /\ \A r \in Replicas : \A u \in Reached(r) : u < pending_tasks'[j]
    <3>1. j + 1 \in 1 .. Len(pending_tasks) /\ pending_tasks'[j] = pending_tasks[j + 1] /\ 1 < j + 1
      BY <2>2
    <3>2. \A k \in 1 .. Len(pending_tasks) :
            k < j + 1 => pending_tasks[k] < pending_tasks[j + 1]
      BY <1>i, <2>6, <3>1 DEF FreshIsNewest
    <3>3. ASSUME NEW i \in 1 .. Len(pending_tasks'), i < j
          PROVE  pending_tasks'[i] < pending_tasks'[j]
      BY <2>2, <3>1, <3>2, <3>3
    <3>4. task' < pending_tasks'[j]
      BY <2>2, <2>4, <3>1, <3>2
    <3>5. \A r \in Replicas : \A u \in Reached(r) : u < pending_tasks'[j]
      BY <1>i, <2>6, <3>1 DEF FreshIsNewest
    <3> QED
      BY <3>3, <3>4, <3>5
  <2> QED
    BY <2>1, <2>3, <2>5, <2>6, <2>r DEF FreshIsNewest
<1>a. ASSUME NEW q \in Replicas, NEW t \in Tasks, Apply(q, t),
             UNCHANGED <<retry_count, outcome>>,
             t < newest[q] => retry_count[t] > 0 \/ outcome[t] = "failed"
      PROVE  NothingApplied' /\ StaleOnlyAfterFailure'
  <2>1. /\ \A r \in Replicas \ {q} : latest'[r] = latest[r] /\ newest'[r] = newest[r]
        /\ latest'[q] = t
        /\ newest'[q] = IF newest[q] >= t THEN newest[q] ELSE t
    BY <1>0, <1>a, ApplyHistory
  <2>2. NothingApplied'
    BY <1>0, <1>i, <2>1 DEF NothingApplied
  <2>3. ASSUME NEW r \in Replicas, latest'[r] < newest'[r]
        PROVE  retry_count'[latest'[r]] > 0 \/ outcome'[latest'[r]] = "failed"
    <3>1. CASE r # q
      BY <1>a, <1>i, <2>1, <2>3, <3>1 DEF StaleOnlyAfterFailure
    <3>2. CASE r = q
      <4>1. t < newest[q]
        BY <1>0, <1>n, <2>1, <2>3, <3>2
      <4> QED
        BY <1>a, <2>1, <3>2, <4>1
    <3> QED
      BY <3>1, <3>2
  <2> QED
    BY <2>2, <2>3 DEF StaleOnlyAfterFailure
<1>f. \A t \in Tasks : retry_count[t] # 0 => retry_count[t] > 0
  <2>1. \A t \in Tasks : retry_count[t] \in 0 .. max_retries
    BY <1>0
  <2> QED
    BY <2>1, QueueAssumption
<1>4. ASSUME NEW end \in {"answered", "unanswered", "late", "lost"}, Send(end)
      PROVE  FreshIsNewest' /\ NothingApplied' /\ StaleOnlyAfterFailure'
  <2>1. UNCHANGED <<pending_tasks, retry_count, outcome, task, pc>> /\ InHand
    BY <1>4 DEF Send, queue, InHand
  <2>2. next_replica \in Replicas
    <3>1. next_replica <= required_replications /\ next_replica \in 1 .. NumReplicas + 1
      BY <1>0, <1>4 DEF Send, TypeOK
    <3> QED
      BY <3>1, RequiredBounded, QueueAssumption DEF Replicas
  <2>3. Apply(next_replica, task) => NothingApplied' /\ StaleOnlyAfterFailure'
    <3> SUFFICES ASSUME Apply(next_replica, task)
                 PROVE  NothingApplied' /\ StaleOnlyAfterFailure'
      OBVIOUS
    <3>1. task < newest[next_replica] => retry_count[task] > 0
      BY <1>0, <1>f, <1>i, <1>n, <1>r, <2>1, <2>2 DEF FreshIsNewest
    <3>2. UNCHANGED <<retry_count, outcome>> /\ task \in Tasks
      BY <1>0, <2>1
    <3> QED
      BY <1>a, <2>2, <3>1, <3>2
  <2>4. FreshIsNewest'
    <3>1. \A r \in Replicas : Reached(r)' \subseteq Reached(r) \cup {task}
      BY <1>4, SendReaches
    <3>2. \A i \in 1 .. Len(pending_tasks) : retry_count[pending_tasks[i]] = 0 =>
            \A r \in Replicas : \A u \in Reached(r)' : u < pending_tasks[i]
      BY <1>i, <2>1, <3>1 DEF FreshIsNewest
    <3>3. retry_count[task] = 0 => \A r \in Replicas : \A u \in Reached(r)' : u <= task
      BY <1>i, <1>n, <2>1, <3>1 DEF FreshIsNewest
    <3> QED
      BY <1>i, <2>1, <3>2, <3>3 DEF FreshIsNewest, InHand
  <2>5. CASE ~Apply(next_replica, task)
    <3>1. UNCHANGED <<latest, newest>>
      BY <1>4, <2>5 DEF Send, remote
    <3> QED
      BY <1>i, <2>1, <2>4, <3>1 DEF NothingApplied, StaleOnlyAfterFailure
  <2> QED
    BY <2>3, <2>4, <2>5
<1>5. CASE Replicated \/ GiveUp
  <2>1. /\ InHand /\ ~InHand' /\ UNCHANGED <<pending_tasks, retry_count, latest, newest, late>>
        /\ \A u \in Tasks : u # task => outcome'[u] = outcome[u]
    BY <1>0, <1>5 DEF Replicated, GiveUp, Goto, InHand, remote
  <2>2. \A r \in Replicas : Reached(r)' = Reached(r)
    BY <2>1 DEF Reached
  <2>3. FreshIsNewest' /\ NothingApplied'
    BY <1>i, <2>1, <2>2 DEF FreshIsNewest, NothingApplied
  <2>4. ASSUME NEW r \in Replicas, latest[r] < newest[r]
        PROVE  retry_count[latest[r]] > 0 \/ outcome'[latest[r]] = "failed"
    <3>1. latest[r] \in Tasks
      BY <1>0, <1>i, <1>n, <2>4 DEF NothingApplied
    <3>2. retry_count[latest[r]] > 0 \/ outcome[latest[r]] = "failed"
      BY <1>i, <2>4 DEF StaleOnlyAfterFailure
    <3> QED
      BY <1>0, <2>1, <3>1, <3>2
  <2> QED
    BY <2>1, <2>3, <2>4 DEF StaleOnlyAfterFailure
<1>6. CASE Retry
  <2>1. /\ InHand /\ ~InHand' /\ pending_tasks' = Append(pending_tasks, task)
        /\ retry_count' = [retry_count EXCEPT ![task] = @ + 1]
        /\ UNCHANGED <<outcome, latest, newest, late>>
    BY <1>6 DEF Retry, Goto, InHand, remote
  <2>2. /\ Len(pending_tasks') = Len(pending_tasks) + 1 /\ Len(pending_tasks) \in Nat
        /\ \A i \in 1 .. Len(pending_tasks) :
             pending_tasks'[i] = pending_tasks[i] /\ pending_tasks[i] \in Tasks
        /\ pending_tasks'[Len(pending_tasks) + 1] = task
    BY <1>0, <2>1, AppendFacts
  <2>r. \A r \in Replicas : Reached(r)' = Reached(r)
    BY <2>1 DEF Reached
  <2>3. retry_count'[task] > 0 /\ \A u \in Tasks : u # task => retry_count'[u] = retry_count[u]
    <3>1. retry_count[task] \in 0 .. max_retries /\ retry_count'[task] = retry_count[task] + 1
      BY <1>0, <2>1
    <3>2. retry_count'[task] > 0
      BY <3>1, QueueAssumption
    <3> QED
      BY <1>0, <2>1, <3>2
  <2>4. NothingApplied'
    BY <1>i, <2>1 DEF NothingApplied
  <2>5. StaleOnlyAfterFailure'
    <3> SUFFICES ASSUME NEW r \in Replicas, latest[r] < newest[r]
                 PROVE  retry_count'[latest[r]] > 0 \/ outcome[latest[r]] = "failed"
      BY <2>1 DEF StaleOnlyAfterFailure
    <3>1. latest[r] \in Tasks
      BY <1>0, <1>i, <1>n DEF NothingApplied
    <3>2. retry_count[latest[r]] > 0 \/ outcome[latest[r]] = "failed"
      BY <1>i DEF StaleOnlyAfterFailure
    <3> QED
      BY <2>3, <3>1, <3>2
  <2>6. FreshIsNewest'
    <3>1. ASSUME NEW j \in 1 .. Len(pending_tasks'), retry_count'[pending_tasks'[j]] = 0
          PROVE  /\ \A i \in 1 .. Len(pending_tasks') :
                      i < j => pending_tasks'[i] < pending_tasks'[j]
                 /\ \A r \in Replicas : \A u \in Reached(r) : u < pending_tasks'[j]
      <4>1. pending_tasks'[j] # task
        BY <2>3, <3>1
      <4>2. j \in 1 .. Len(pending_tasks)
        BY <2>2, <4>1
      <4>3. pending_tasks'[j] = pending_tasks[j] /\ retry_count[pending_tasks[j]] = 0
        BY <2>2, <2>3, <3>1, <4>1, <4>2
      <4> QED
        BY <1>i, <2>2, <4>2, <4>3 DEF FreshIsNewest
    <3> QED
      BY <2>1, <2>r, <3>1 DEF FreshIsNewest
  <2> QED
    BY <2>4, <2>5, <2>6
<1>7. ASSUME NEW q \in Replicas, ExecuteLate(q)
      PROVE  FreshIsNewest' /\ NothingApplied' /\ StaleOnlyAfterFailure'
  <2>1. UNCHANGED <<pending_tasks, retry_count, outcome, task, pc>>
    BY <1>7 DEF ExecuteLate, queue, thread
  <2>2. \A r \in Replicas : Reached(r)' \subseteq Reached(r)
    BY <1>7, LateReaches
  <2>3. FreshIsNewest'
    BY <1>i, <2>1, <2>2 DEF FreshIsNewest, InHand
  <2>4. PICK request \in late[q] : Apply(q, request[1])
    BY <1>7 DEF ExecuteLate
  <2>5. PICK t \in Tasks : t = request[1]
    <3>1. request \in Tasks \X (0 .. max_retries)
      BY <1>0, <2>4
    <3> QED
      BY <3>1
  <2>6. Failing(t)
    BY <1>i, <2>4, <2>5 DEF LateIsFailing
  <2>7. t < newest[q] => retry_count[t] > 0 \/ outcome[t] = "failed"
    <3> SUFFICES ASSUME t < newest[q], InHand, task = t, ~(retry_count[t] > 0)
                 PROVE  FALSE
      BY <2>6 DEF Failing
    <3>1. newest[q] <= task
      BY <1>f, <1>i, <1>r DEF FreshIsNewest
    <3> QED
      BY <1>0, <1>n, <3>1
  <2> QED
    BY <1>a, <2>1, <2>3, <2>4, <2>5, <2>7
<1> QED
  BY <1>i, <1>1, <1>2, <1>3, <1>4, <1>5, <1>6, <1>7, StepCases

(* A replica holds what an older task wrote over a newer one only if an    *)
(* attempt at the older task failed, for every number of producers,        *)
(* replicas, retries and tasks, requests being executed after their sender *)
(* gave them up: what process_single_task confirmed at the first attempt   *)
(* reached every replica in the order of the queue.                        *)
THEOREM OrderKept == Spec => []StaleOnlyAfterFailure
<1>1. Init => DeliveryInv /\ TypeInv
  BY TypeInit DEF Init, DeliveryInv, TypeInv, Numbered, InHand, OnePlace, StoppedEnded, Reached
<1>2. Init => Order
  BY DEF Init, Order, InHand, FreshIsNewest, NothingApplied, LateIsFailing,
         StaleOnlyAfterFailure
<1>3. /\ Order /\ DeliveryInv /\ TypeInv /\ [Next]_vars => (Order /\ DeliveryInv /\ TypeInv)'
  BY OrderStep, DeliveryInvStep, TypeStep
<1>4. Order => StaleOnlyAfterFailure
  BY DEF Order
<1> QED
  BY <1>1, <1>2, <1>3, <1>4, PTL DEF Spec
=============================================================================
