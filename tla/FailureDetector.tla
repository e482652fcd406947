--------------------------- MODULE FailureDetector ---------------------------
(***************************************************************************)
(* FailureDetector (src/replication.cpp) and the two threads of ChordNode  *)
(* that feed it: failure_detection_loop, which pings the nodes of the      *)
(* successor list and the predecessor, and stabilize, whose contact_node   *)
(* marks the successor.  The entries of node_statuses do not touch each    *)
(* other, so the module follows one peer.                                  *)
(*                                                                         *)
(* A network call and the write of its result under the detector's mutex   *)
(* are two steps: the other thread, and the peer, move between them.  The  *)
(* history is kept at the network step.  Time is counted in rounds of      *)
(* failure_detection_loop.                                                 *)
(***************************************************************************)
EXTENDS Integers, FiniteSetsExt

CONSTANTS
  failure_threshold,    \* FailureConfig: 3
  max_age               \* cleanup_old_entries: 30 minutes, in rounds

ASSUME DetectorAssumption ==
  /\ failure_threshold \in Nat \ {0}
  /\ max_age \in Nat

OldAge == max_age + 1                     \* ages past the cutoff are not told apart
FailureCap == failure_threshold + 1       \* nor are counts past the threshold

VARIABLES
  peer,          \* whether the peer "answers", is "silent" (accepts connections) or "down"
  watched,       \* the peer's place in the routing state
  status,        \* its entry; a missing entry answers as the default one does
  since,         \* age of status.last_seen
  uptime,        \* age of the steady_clock's epoch, last_seen of a new entry
  fd,            \* where failure_detection_loop is; "wedged" holds routing_mutex for ever
  again,         \* the peer is in nodes_to_check once more, as the predecessor
  found,         \* the peer is in failed_nodes
  ping_result,   \* is_responsive in ping_node
  contact,       \* where contact_node is: "none", "call", or the result it has in hand
  missed,        \* history: pings left unanswered since the peer was last heard
  refused,       \* history: it refused a connection since it was last heard
  ping_stale,    \* history: it was heard after the failed ping in hand
  contact_stale, \* history: it was heard after the refusal in hand
  overtaken      \* history: the entry holds a failure older than the last answer

loop == <<fd, again, found, ping_result>>
entry == <<status, since, uptime>>
history == <<missed, refused, ping_stale, contact_stale, overtaken>>
vars == <<peer, watched, entry, loop, contact, history>>

(* Places of the peer: stabilize contacts the successor, a two-node ring   *)
(* has its other node at both places.                                      *)
Roles == {"successor", "predecessor", "both", "no"}
IsSuccessor == watched \in {"successor", "both"}

NodeStatus ==
  [consecutive_failures : 0 .. FailureCap, is_suspected : BOOLEAN, is_failed : BOOLEAN]

NoEntry == [consecutive_failures |-> 0, is_suspected |-> FALSE, is_failed |-> FALSE]

TypeOK ==
  /\ peer \in {"answers", "silent", "down"} /\ watched \in Roles
  /\ status \in NodeStatus
  /\ since \in 0 .. OldAge /\ uptime \in 0 .. OldAge
  /\ fd \in {"start", "ping", "write", "check", "handle", "cleanup", "wedged"}
  /\ again \in BOOLEAN /\ found \in BOOLEAN /\ ping_result \in BOOLEAN
  /\ contact \in {"none", "call", "reached", "refused"}
  /\ missed \in 0 .. FailureCap /\ refused \in BOOLEAN
  /\ ping_stale \in BOOLEAN /\ contact_stale \in BOOLEAN /\ overtaken \in BOOLEAN

Init ==
  /\ peer \in {"answers", "silent", "down"} /\ watched \in Roles
  /\ status = NoEntry
  /\ uptime \in 0 .. OldAge /\ since = uptime
  /\ fd = "start" /\ again = FALSE /\ found = FALSE /\ ping_result = FALSE
  /\ contact = "none"
  /\ missed = 0 /\ refused = FALSE
  /\ ping_stale = FALSE /\ contact_stale = FALSE /\ overtaken = FALSE

Older(age) == Min({age + 1, OldAge})
More(n) == Min({n + 1, FailureCap})
-----------------------------------------------------------------------------
(* The peer stops answering, stops, comes back, and becomes the            *)
(* predecessor by a NOTIFY, which may arrive late.                         *)
PeerChanges ==
  /\ peer' \in {"answers", "silent", "down"} \ {peer}
  /\ UNCHANGED <<watched, entry, loop, contact, history>>

PeerNotifies ==
  /\ fd # "wedged"
  /\ \/ watched = "no" /\ watched' = "predecessor"
     \/ watched = "successor" /\ watched' = "both"
  /\ UNCHANGED <<peer, entry, loop, contact, history>>
-----------------------------------------------------------------------------
(* Mutants of the writes below. *)
ResponsiveKeepsCount ==
  /\ status' = [status EXCEPT !.is_suspected = FALSE, !.is_failed = FALSE]
  /\ since' = 0
  /\ overtaken' = FALSE

MarkFailedAdds ==
  /\ status' = [status EXCEPT !.is_failed = TRUE,
                              !.consecutive_failures = @ + failure_threshold]
  /\ UNCHANGED since

(* mark_node_responsive, and ping_node when the peer answered. *)
Responsive ==
  /\ status' = [status EXCEPT !.consecutive_failures = 0,
                              !.is_suspected = FALSE, !.is_failed = FALSE]
  /\ since' = 0
  /\ overtaken' = FALSE

(* ping_node when the peer did not answer. *)
PingFailed ==
  LET n == More(status.consecutive_failures)
  IN  /\ status' = [status EXCEPT
           !.consecutive_failures = n,
           !.is_failed    = @ \/ n >= failure_threshold,
           !.is_suspected = @ \/ (n < failure_threshold /\ n >= failure_threshold \div 2)]
      /\ UNCHANGED since

(* mark_node_failed *)
MarkFailed ==
  /\ status' = [status EXCEPT !.is_failed = TRUE,
                              !.consecutive_failures = failure_threshold]
  /\ UNCHANGED since

(* A round of failure_detection_loop copies nodes_to_check under           *)
(* routing_mutex.  A peer that is not watched is not among them.           *)
CopyNodes ==
  /\ fd = "start"
  /\ fd' = IF watched = "no" THEN "cleanup" ELSE "ping"
  /\ again' = (watched = "both") /\ found' = FALSE
  /\ UNCHANGED <<peer, watched, entry, ping_result, contact, history>>

(* ping_node_impl connects and waits for the answer to a PING. *)
PingNetwork ==
  /\ fd = "ping"
  /\ ping_result' = (peer = "answers")
  /\ missed' = IF peer = "answers" THEN 0 ELSE More(missed)
  /\ refused' = (refused /\ peer # "answers")
  /\ ping_stale' = FALSE
  /\ contact_stale' = (contact_stale \/ peer = "answers")
  /\ fd' = "write"
  /\ UNCHANGED <<peer, watched, entry, again, found, contact, overtaken>>

PingWrite ==
  /\ fd = "write"
  /\ \/ ping_result /\ Responsive
     \/ ~ping_result /\ PingFailed /\ overtaken' = (overtaken \/ ping_stale)
  /\ fd' = "check"
  /\ UNCHANGED <<peer, watched, uptime, again, found, ping_result, contact,
                 missed, refused, ping_stale, contact_stale>>

CheckFailed ==
  /\ fd = "check"
  /\ found' = (found \/ status.is_failed)
  /\ again' = FALSE
  /\ fd' = CASE again -> "ping"
             [] ~again /\ found' -> "handle"
             [] OTHER -> "cleanup"
  /\ UNCHANGED <<peer, watched, entry, ping_result, contact, history>>

(* handle_node_failure, under routing_mutex: for a successor find_successor *)
(* locks the mutex again, for a predecessor is_responsible_for_key does so *)
(* when any key is held, and the loop never returns; otherwise the peer is *)
(* taken out.                                                              *)
Handle ==
  /\ fd = "handle"
  /\ \E keys_held \in BOOLEAN :
       IF IsSuccessor \/ keys_held
         THEN fd' = "wedged" /\ UNCHANGED watched
         ELSE fd' = "cleanup" /\ watched' = "no"
  /\ UNCHANGED <<peer, entry, again, found, ping_result, contact, history>>

(* Mutant: cleanup without its test of the age. *)
CleanupErasesAll ==
  /\ fd = "cleanup"
  /\ uptime' = Older(uptime)
  /\ status' = NoEntry /\ since' = uptime' /\ overtaken' = FALSE
  /\ fd' = "start"
  /\ UNCHANGED <<peer, watched, again, found, ping_result, contact,
                 missed, refused, ping_stale, contact_stale>>

(* cleanup_old_entries erases the entry when last_seen is before the       *)
(* cutoff; the sleep until the next round lets time pass.                  *)
Cleanup ==
  /\ fd = "cleanup"
  /\ uptime' = Older(uptime)
  /\ IF since > max_age
       THEN status' = NoEntry /\ since' = uptime' /\ overtaken' = FALSE
       ELSE since' = Older(since) /\ UNCHANGED <<status, overtaken>>
  /\ fd' = "start"
  /\ UNCHANGED <<peer, watched, again, found, ping_result, contact,
                 missed, refused, ping_stale, contact_stale>>

(* stabilize takes the successor under routing_mutex before each           *)
(* contact_node, which needs a connection and no answer.                   *)
TakeSuccessor ==
  /\ IsSuccessor /\ contact = "none" /\ fd # "wedged"
  /\ contact' = "call"
  /\ UNCHANGED <<peer, watched, entry, loop, history>>

ContactNetwork ==
  /\ contact = "call"
  /\ contact' = IF peer = "down" THEN "refused" ELSE "reached"
  /\ missed' = IF peer = "down" THEN missed ELSE 0
  /\ refused' = (peer = "down")
  /\ ping_stale' = (ping_stale \/ peer # "down")
  /\ contact_stale' = FALSE
  /\ UNCHANGED <<peer, watched, entry, loop, overtaken>>

ContactWrite ==
  /\ \/ contact = "reached" /\ Responsive
     \/ contact = "refused" /\ MarkFailed /\ overtaken' = (overtaken \/ contact_stale)
  /\ contact' = "none"
  /\ UNCHANGED <<peer, watched, uptime, loop, missed, refused, ping_stale, contact_stale>>
-----------------------------------------------------------------------------
Round ==
  CopyNodes \/ PingNetwork \/ PingWrite \/ CheckFailed \/ Handle \/ Cleanup

Stabilize == TakeSuccessor \/ ContactNetwork \/ ContactWrite

Next == PeerChanges \/ PeerNotifies \/ Round \/ Stabilize

(* The loop runs a round every failure_check_interval and a ping ends by   *)
(* Client's timeout; stabilize runs every stabilize_interval.  A wedged    *)
(* loop has no step left, nor has stabilize once it needs the mutex.       *)
Spec ==
  /\ Init /\ [][Next]_vars
  /\ WF_vars(Round)
  /\ WF_vars(Stabilize)
-----------------------------------------------------------------------------
(* An answer of the peer that has not been written yet. *)
AnswerInHand == (fd = "write" /\ ping_result) \/ contact = "reached"

(* Why a peer is reported, history being what the network did, not what    *)
(* was written: since it was last heard it left failure_threshold pings in *)
(* a row unanswered or refused a connection; or the answer is about to be  *)
(* written; or a thread wrote a failure over a newer answer of the other   *)
(* thread, the one way in which a peer that answered last stays reported.  *)
FailedIsExplained ==
  status.is_failed =>
    missed >= failure_threshold \/ refused \/ AnswerInHand \/ overtaken

(* The peer cannot be heard by any thread that watches it: it is down, or  *)
(* silent and not the successor.  (contact_node needs no answer, so each   *)
(* contact of a silent successor resets the count of its pings.)           *)
Unreachable == peer = "down" \/ (peer = "silent" /\ ~IsSuccessor)

(* A watched peer that was heard and then stays unreachable gets to        *)
(* handle_node_failure: the rounds count up before cleanup_old_entries can *)
(* forget it, whatever stabilize writes meanwhile.  (since = 0 matters: an *)
(* entry no answer has written is as old as the clock, and is forgotten in *)
(* the round that made it.)                                                *)
DownPeerReported ==
  (watched # "no" /\ Unreachable /\ since = 0) ~> (~Unreachable \/ fd \in {"handle", "wedged"})

=============================================================================
