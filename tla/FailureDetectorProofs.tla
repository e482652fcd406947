------------------------ MODULE FailureDetectorProofs ------------------------
(***************************************************************************)
(* Theorems about FailureDetector, for every threshold and cutoff.         *)
(***************************************************************************)
EXTENDS FailureDetector, NumberTheorems

-----------------------------------------------------------------------------
(* Lemmas about the capped counters.                                       *)

(* A failure counted is one more up to the cap, which lies past the        *)
(* threshold: counting keeps the order of two counts, and a count that has *)
(* reached the threshold stays there.                                      *)
LEMMA MoreCounts ==
  /\ \A n \in 0 .. FailureCap : More(n) \in 0 .. FailureCap
  /\ \A m, n \in 0 .. FailureCap : m <= n => More(m) <= More(n)
  /\ \A n \in 0 .. FailureCap : n >= failure_threshold => More(n) >= failure_threshold
<1>1. FailureCap \in Nat /\ failure_threshold \in Nat /\ FailureCap > failure_threshold
  BY DetectorAssumption DEF FailureCap
<1>2. ASSUME NEW n \in 0 .. FailureCap
      PROVE  More(n) = IF n + 1 <= FailureCap THEN n + 1 ELSE FailureCap
  BY <1>1, MinOfTwo DEF More
<1> QED
  BY <1>1, <1>2

(* An age grows up to the first one past the cutoff. *)
LEMMA OlderAge == \A a \in 0 .. OldAge : Older(a) \in 0 .. OldAge
<1>1. OldAge \in Nat
  BY DetectorAssumption DEF OldAge
<1> QED
  BY <1>1, MinOfTwo DEF Older
-----------------------------------------------------------------------------
(* The entry.                                                              *)

(* The default entry is an entry. *)
LEMMA NoEntryTyped == NoEntry \in NodeStatus
<1>1. 0 \in 0 .. FailureCap
  BY DetectorAssumption DEF FailureCap
<1> QED
  BY <1>1 DEF NoEntry, NodeStatus

(* Each of the three writes leaves a well-formed entry. *)
LEMMA WritesTyped ==
  ASSUME TypeOK
  PROVE  /\ Responsive => status' \in NodeStatus /\ since' \in 0 .. OldAge
         /\ PingFailed => status' \in NodeStatus /\ since' \in 0 .. OldAge
         /\ MarkFailed => status' \in NodeStatus /\ since' \in 0 .. OldAge
<1>1. /\ FailureCap \in Nat /\ failure_threshold \in 0 .. FailureCap
      /\ 0 \in 0 .. FailureCap /\ 0 \in 0 .. OldAge
  BY DetectorAssumption DEF FailureCap, OldAge
<1>2. More(status.consecutive_failures) \in 0 .. FailureCap
  BY MoreCounts DEF TypeOK, NodeStatus
<1>3. CASE Responsive
  BY <1>1, <1>3 DEF TypeOK, NodeStatus, Responsive
<1>4. CASE PingFailed
  <2> DEFINE n == More(status.consecutive_failures)
  <2>1. status' = [status EXCEPT
           !.consecutive_failures = n,
           !.is_failed    = @ \/ n >= failure_threshold,
           !.is_suspected = @ \/ (n < failure_threshold /\ n >= failure_threshold \div 2)]
    BY <1>4 DEF PingFailed
  <2>2. n \in 0 .. FailureCap
    BY <1>2
  <2> HIDE DEF n
  <2>3. status' \in NodeStatus
    BY <2>1, <2>2 DEF TypeOK, NodeStatus
  <2> QED
    BY <2>3, <1>4 DEF PingFailed, TypeOK
<1>5. CASE MarkFailed
  BY <1>1, <1>5 DEF TypeOK, NodeStatus, MarkFailed
<1> QED
  BY <1>3, <1>4, <1>5

(* TypeOK is inductive. *)
LEMMA InitTyped == Init => TypeOK
<1>1. FailureCap \in Nat /\ OldAge \in Nat
  BY DetectorAssumption DEF FailureCap, OldAge
<1> SUFFICES ASSUME Init
             PROVE  TypeOK
  OBVIOUS
<1>2. status \in NodeStatus
  BY NoEntryTyped DEF Init
<1>3. missed \in 0 .. FailureCap /\ since \in 0 .. OldAge
  BY <1>1 DEF Init
<1>4. /\ again \in BOOLEAN /\ found \in BOOLEAN /\ ping_result \in BOOLEAN
      /\ refused \in BOOLEAN /\ ping_stale \in BOOLEAN /\ contact_stale \in BOOLEAN
      /\ overtaken \in BOOLEAN
  BY DEF Init
<1> QED
  BY <1>2, <1>3, <1>4 DEF Init, TypeOK

(* Every step keeps the types. *)
LEMMA TypeStep == TypeOK /\ [Next]_vars => TypeOK'
<1> SUFFICES ASSUME TypeOK, [Next]_vars
             PROVE  TypeOK'
  OBVIOUS
<1> USE DEF TypeOK, entry, loop, history
<1>0. /\ FailureCap \in Nat /\ OldAge \in Nat
      /\ 0 \in 0 .. FailureCap /\ More(missed) \in 0 .. FailureCap
      /\ Older(since) \in 0 .. OldAge /\ Older(uptime) \in 0 .. OldAge
  BY DetectorAssumption, MoreCounts, OlderAge DEF FailureCap, OldAge
<1>1. CASE PeerChanges
  BY <1>1 DEF PeerChanges
<1>2. CASE PeerNotifies
  BY <1>2 DEF PeerNotifies, Roles
<1>3. CASE CopyNodes
  <2>1. again' \in BOOLEAN /\ found' \in BOOLEAN
    BY <1>3 DEF CopyNodes
  <2> QED
    BY <1>3, <2>1 DEF CopyNodes
<1>4. CASE PingNetwork
  <2>1. /\ ping_result' \in BOOLEAN /\ refused' \in BOOLEAN
        /\ ping_stale' \in BOOLEAN /\ contact_stale' \in BOOLEAN
    BY <1>4 DEF PingNetwork
  <2> QED
    BY <1>0, <1>4, <2>1 DEF PingNetwork
<1>5. CASE PingWrite
  <2>1. status' \in NodeStatus /\ since' \in 0 .. OldAge
    BY <1>5, WritesTyped DEF PingWrite
  <2>2. overtaken' \in BOOLEAN
    BY <1>5 DEF PingWrite, Responsive
  <2> QED
    BY <1>5, <2>1, <2>2 DEF PingWrite
<1>6. CASE CheckFailed
  <2>1. found' \in BOOLEAN /\ again' \in BOOLEAN
    BY <1>6 DEF CheckFailed, NodeStatus
  <2>2. fd' \in {"ping", "handle", "cleanup"}
    BY <1>6 DEF CheckFailed
  <2> QED
    BY <1>6, <2>1, <2>2 DEF CheckFailed
<1>7. CASE Handle
  BY <1>7 DEF Handle, Roles
<1>8. CASE Cleanup
  <2>1. uptime' \in 0 .. OldAge /\ since' \in 0 .. OldAge
    BY <1>8, <1>0 DEF Cleanup
  <2>2. status' \in NodeStatus /\ overtaken' \in BOOLEAN
    BY <1>8, NoEntryTyped DEF Cleanup
  <2> QED
    BY <1>8, <2>1, <2>2 DEF Cleanup
<1>9. CASE TakeSuccessor
  BY <1>9 DEF TakeSuccessor
<1>10. CASE ContactNetwork
  <2>1. refused' \in BOOLEAN /\ ping_stale' \in BOOLEAN /\ contact_stale' \in BOOLEAN
    BY <1>10 DEF ContactNetwork
  <2> QED
    BY <1>0, <1>10, <2>1 DEF ContactNetwork
<1>11. CASE ContactWrite
  <2>1. status' \in NodeStatus /\ since' \in 0 .. OldAge
    BY <1>11, WritesTyped DEF ContactWrite
  <2>2. overtaken' \in BOOLEAN
    BY <1>11 DEF ContactWrite, Responsive
  <2> QED
    BY <1>11, <2>1, <2>2 DEF ContactWrite
<1>12. CASE UNCHANGED vars
  BY <1>12 DEF vars
<1> QED
  BY <1>1, <1>2, <1>3, <1>4, <1>5, <1>6, <1>7, <1>8, <1>9, <1>10, <1>11, <1>12
     DEF Next, Round, Stabilize

(* Every reachable state is of its type: the counters of the entry and of  *)
(* the history stay below their caps whatever the two threads write.       *)
THEOREM TypeCorrect == Spec => []TypeOK
<1> QED
  BY InitTyped, TypeStep, PTL DEF Spec
-----------------------------------------------------------------------------
(* Why a peer is reported.                                                 *)

(* A failed ping the loop still has to write, no answer having come since. *)
FreshPing == fd = "write" /\ ~ping_result /\ ~ping_stale

(* The entry's count, with the failed ping in hand added, is at most the   *)
(* number of pings missed since the peer was last heard, with the          *)
(* exceptions of FailedIsExplained: a refusal sets the count to the        *)
(* threshold, and a failure written late is counted over a newer answer.   *)
CountIsExplained ==
  \/ AnswerInHand \/ overtaken \/ refused
  \/ FreshPing /\ More(status.consecutive_failures) <= missed
  \/ ~FreshPing /\ status.consecutive_failures <= missed

(* What a thread has in hand is in the history. *)
InHandIsKnown ==
  /\ FreshPing => missed >= 1
  /\ contact = "refused" /\ ~contact_stale => refused

Reasons == FailedIsExplained /\ CountIsExplained /\ InHandIsKnown
Explained == TypeOK /\ Reasons

(* The entry after a failed ping: one more failure, reported when the      *)
(* count reaches the threshold.                                            *)
LEMMA PingFailedEntry ==
  ASSUME TypeOK, PingFailed
  PROVE  /\ status'.consecutive_failures = More(status.consecutive_failures)
         /\ status'.is_failed => status.is_failed
                                  \/ More(status.consecutive_failures) >= failure_threshold
<1> DEFINE n == More(status.consecutive_failures)
<1>1. status' = [status EXCEPT
           !.consecutive_failures = n,
           !.is_failed    = @ \/ n >= failure_threshold,
           !.is_suspected = @ \/ (n < failure_threshold /\ n >= failure_threshold \div 2)]
  BY DEF PingFailed
<1> HIDE DEF n
<1>2. status'.consecutive_failures = n /\ status'.is_failed = (status.is_failed \/ n >= failure_threshold)
  BY <1>1 DEF TypeOK, NodeStatus
<1> QED
  BY <1>2 DEF n

(* Every step keeps the explanation of the counts. *)
LEMMA ExplainedStep == Explained /\ [Next]_vars => Explained'
<1> SUFFICES ASSUME Explained, [Next]_vars
             PROVE  Reasons'
  BY TypeStep DEF Explained
<1> USE DEF Reasons, Explained, FailedIsExplained, CountIsExplained, InHandIsKnown,
            FreshPing, AnswerInHand, entry, loop, history
<1>0. /\ TypeOK /\ FailureCap \in Nat /\ failure_threshold \in Nat \ {0}
      /\ failure_threshold <= FailureCap
      /\ status.consecutive_failures \in 0 .. FailureCap
      /\ missed \in 0 .. FailureCap /\ refused \in BOOLEAN
      /\ ping_stale \in BOOLEAN /\ contact_stale \in BOOLEAN /\ overtaken \in BOOLEAN
      /\ ping_result \in BOOLEAN
  BY DetectorAssumption DEF TypeOK, NodeStatus, FailureCap
<1>1. More(0) = 1 /\ \A n \in 0 .. FailureCap : More(n) >= 1
  <2>1. \A n \in 0 .. FailureCap :
          More(n) = IF n + 1 <= FailureCap THEN n + 1 ELSE FailureCap
    BY <1>0, MinOfTwo DEF More
  <2> QED
    BY <1>0, <2>1
<1>2. CASE PingNetwork
  <2>1. CASE peer = "answers"
    <3>1. fd' = "write" /\ ping_result' /\ contact_stale' /\ UNCHANGED contact
      BY <1>2, <2>1 DEF PingNetwork
    <3> QED
      BY <3>1
  <2>2. CASE peer # "answers"
    <3> DEFINE n == More(status.consecutive_failures)
               m == More(missed)
    <3>1. /\ missed' = m /\ refused' = refused /\ UNCHANGED <<status, overtaken, contact>>
          /\ fd' = "write" /\ ~ping_result' /\ ~ping_stale' /\ contact_stale' = contact_stale
          /\ fd = "ping"
      BY <1>0, <1>2, <2>2 DEF PingNetwork
    <3>2. /\ n \in 0 .. FailureCap /\ m \in 0 .. FailureCap
          /\ status.consecutive_failures <= missed => n <= m
          /\ missed >= failure_threshold => m >= failure_threshold
          /\ m >= 1
      BY <1>0, <1>1, MoreCounts
    <3>3. n = More(status'.consecutive_failures)
      BY <3>1
    <3> HIDE DEF n, m
    <3>4. FailedIsExplained'
      BY <1>0, <3>1, <3>2
    <3>5. CountIsExplained'
      BY <1>0, <3>1, <3>2, <3>3
    <3>6. InHandIsKnown'
      BY <1>0, <3>1, <3>2
    <3> QED
      BY <3>4, <3>5, <3>6
  <2> QED
    BY <2>1, <2>2
<1>3. CASE PingWrite
  <2>1. CASE ping_result
    <3>1. /\ ~status'.is_failed /\ status'.consecutive_failures = 0
          /\ fd' = "check" /\ UNCHANGED <<missed, refused, contact, contact_stale>>
      BY <1>0, <1>3, <2>1 DEF PingWrite, Responsive, TypeOK, NodeStatus
    <3> QED
      BY <1>0, <3>1
  <2>2. CASE ~ping_result
    <3>1. /\ PingFailed /\ overtaken' = (overtaken \/ ping_stale)
          /\ fd = "write" /\ fd' = "check"
          /\ UNCHANGED <<missed, refused, contact, contact_stale>>
      BY <1>3, <2>2 DEF PingWrite
    <3> DEFINE n == More(status.consecutive_failures)
    <3>2. /\ status'.consecutive_failures = n
          /\ status'.is_failed => status.is_failed \/ n >= failure_threshold
      BY <1>0, <3>1, PingFailedEntry
    <3>3. n \in 0 .. FailureCap
      BY <1>0, MoreCounts
    <3>4. CountIsExplained =>
            AnswerInHand \/ overtaken \/ refused \/ ping_stale \/ n <= missed
      BY <2>2, <3>1
    <3> HIDE DEF n
    <3>5. InHandIsKnown'
      BY <1>0, <3>1
    <3>6. CountIsExplained'
      BY <1>0, <2>2, <3>1, <3>2, <3>3, <3>4
    <3>7. FailedIsExplained'
      BY <1>0, <2>2, <3>1, <3>2, <3>3, <3>4
    <3> QED
      BY <3>5, <3>6, <3>7
  <2> QED
    BY <1>0, <2>1, <2>2
<1>4. CASE Cleanup
  <2>1. /\ fd = "cleanup" /\ fd' = "start"
        /\ UNCHANGED <<missed, refused, contact, contact_stale>>
    BY <1>4 DEF Cleanup
  <2>2. CASE since > max_age
    <3>1. ~status'.is_failed /\ status'.consecutive_failures = 0
      BY <1>4, <2>2 DEF Cleanup, NoEntry
    <3> QED
      BY <1>0, <2>1, <3>1
  <2>3. CASE ~(since > max_age)
    <3>1. UNCHANGED <<status, overtaken>>
      BY <1>4, <2>3 DEF Cleanup
    <3> QED
      BY <1>0, <2>1, <3>1
  <2> QED
    BY <2>2, <2>3
<1>5. CASE ContactNetwork
  <2>1. CASE peer = "down"
    <3>1. contact' = "refused" /\ refused' /\ UNCHANGED <<missed, fd, ping_result>>
          /\ (ping_stale => ping_stale')
      BY <1>5, <2>1 DEF ContactNetwork
    <3> QED
      BY <3>1
  <2>2. CASE peer # "down"
    <3>1. contact' = "reached" /\ ping_stale'
      BY <1>5, <2>2 DEF ContactNetwork
    <3> QED
      BY <3>1
  <2> QED
    BY <2>1, <2>2
<1>6. CASE ContactWrite
  <2>1. CASE contact = "reached"
    <3>1. /\ ~status'.is_failed /\ status'.consecutive_failures = 0
          /\ contact' = "none" /\ UNCHANGED <<missed, refused, fd, ping_result, ping_stale>>
      BY <1>0, <1>6, <2>1 DEF ContactWrite, Responsive, TypeOK, NodeStatus
    <3> QED
      BY <1>0, <1>1, <3>1
  <2>2. CASE contact # "reached"
    <3>1. /\ contact = "refused" /\ contact' = "none"
          /\ overtaken' = (overtaken \/ contact_stale)
          /\ UNCHANGED <<missed, refused, fd, ping_result, ping_stale>>
      BY <1>6, <2>2 DEF ContactWrite
    <3> QED
      BY <1>0, <3>1
  <2> QED
    BY <2>1, <2>2
<1>7. ASSUME UNCHANGED <<status, history, ping_result>>,
             contact' = contact \/ (contact = "none" /\ contact' = "call"),
             fd' = fd \/ (fd # "write" /\ fd' # "write")
      PROVE  Reasons'
  <2>1. UNCHANGED <<FreshPing, AnswerInHand>>
    BY <1>7
  <2> QED
    BY <1>7, <2>1
<1>8. CASE PeerChanges \/ PeerNotifies \/ TakeSuccessor \/ UNCHANGED vars
  BY <1>7, <1>8 DEF PeerChanges, PeerNotifies, TakeSuccessor, vars
<1>9. CASE CopyNodes
  BY <1>7, <1>9 DEF CopyNodes
<1>10. CASE CheckFailed
  <2>1. fd = "check" /\ fd' # "write" /\ UNCHANGED <<status, history, ping_result, contact>>
    BY <1>10 DEF CheckFailed
  <2> QED
    BY <1>7, <2>1
<1>11. CASE Handle
  BY <1>7, <1>11 DEF Handle
<1> QED
  BY <1>2, <1>3, <1>4, <1>5, <1>6, <1>8, <1>9, <1>10, <1>11 DEF Next, Round, Stabilize

(* A reported peer, since it was last heard, left failure_threshold pings  *)
(* unanswered or refused a connection, for every threshold and in whatever *)
(* order failure_detection_loop and stabilize write; otherwise its answer  *)
(* is in hand, or a failure was written over a newer answer.               *)
THEOREM FailedExplained == Spec => []FailedIsExplained
<1>1. Init => Reasons
  BY DEF Init, Reasons, FailedIsExplained, CountIsExplained, InHandIsKnown, FreshPing, NoEntry
<1>2. Explained => FailedIsExplained
  BY DEF Explained, Reasons
<1> QED
  BY <1>1, <1>2, InitTyped, ExplainedStep, PTL DEF Spec, Explained
=============================================================================
