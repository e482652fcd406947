------------------------------ MODULE Delivery -------------------------------
(***************************************************************************)
(* What asynchronous replication promises about each task it has accepted, *)
(* without queue, mutex or threads: the task is attempted, at most         *)
(* MaxAttempts times, until one attempt reaches every replica or the       *)
(* attempts are used up.  Nothing is said about the order of two tasks.    *)
(***************************************************************************)
EXTENDS Naturals

CONSTANTS Tasks, MaxAttempts

VARIABLES
  fate,          \* "new", "accepted", "replicated" or "failed", per task
  attempts,      \* attempts made, per task
  enabled        \* whether replication runs

dvars == <<fate, attempts, enabled>>

DInit ==
  /\ fate = [t \in Tasks |-> "new"]
  /\ attempts = [t \in Tasks |-> 0]
  /\ enabled = TRUE

Accept(t) ==
  /\ fate[t] = "new"
  /\ fate' = [fate EXCEPT ![t] = "accepted"]
  /\ UNCHANGED <<attempts, enabled>>

Attempt(t) ==
  /\ fate[t] = "accepted" /\ attempts[t] < MaxAttempts
  /\ attempts' = [attempts EXCEPT ![t] = @ + 1]
  /\ \/ fate' = [fate EXCEPT ![t] = "replicated"]
     \/ attempts'[t] < MaxAttempts /\ UNCHANGED fate
     \/ attempts'[t] = MaxAttempts /\ fate' = [fate EXCEPT ![t] = "failed"]
  /\ UNCHANGED enabled

Switch ==
  /\ enabled' = ~enabled
  /\ UNCHANGED <<fate, attempts>>

DNext == Switch \/ \E t \in Tasks : Accept(t) \/ Attempt(t)

DSpec ==
  /\ DInit /\ [][DNext]_dvars
  /\ \A t \in Tasks : WF_dvars(enabled /\ Attempt(t))
=============================================================================
