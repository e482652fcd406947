------------------------- MODULE KeyValueRingProofs --------------------------
(***************************************************************************)
(* Theorems about KeyValueRing, for every number of nodes, every way in    *)
(* which they joined each other, and every number of workers, requests and *)
(* restarts.                                                               *)
(***************************************************************************)
EXTENDS KeyValueRing, NumberTheorems, FiniteSetTheorems

-----------------------------------------------------------------------------
(* The calls of a request.                                                 *)

(* The shape join gives the ring: every node but the root has joined       *)
(* through one with a smaller number.                                      *)
Joined == successor[Root] = Root /\ \A n \in Nodes \ {Root} : successor[n] < n

Active(q, d) == call[q][d].pc # "none"

(* What a call waits for. *)
AskedFor ==
  [label \in Waiting |-> IF label = "replicate" THEN "PUT"
                         ELSE IF label = "unreplicate" THEN "DELETE" ELSE "GET"]

(* A call is at a label of its operation. *)
LabelOfOp ==
  \A q \in Requests, d \in Depths :
    LET c == call[q][d]
    IN  /\ c.pc \in {"replicate", "rollback"} => c.op = "PUT"
        /\ c.pc = "fallback" => c.op = "GET"
        /\ c.pc \in {"probe", "remove", "unreplicate"} => c.op = "DELETE"

(* A request that has not begun has left no trace. *)
NotBegun ==
  \A q \in Requests : op[q] = "none" =>
    /\ answer[q] = NoAnswer /\ ~failed[q] /\ applied[q] = {}
    /\ \A d \in Depths : ~Active(q, d)

(* The calls of a request do what it asked for; a DELETE probes by GET. *)
OpOfRequest ==
  \A q \in Requests, d \in Depths : Active(q, d) =>
    /\ d = 0 => call[q][d].op = op[q] /\ call[q][d].node = entry[q]
    /\ op[q] \in {"PUT", "GET"} => call[q][d].op = op[q]
    /\ op[q] = "DELETE" => call[q][d].op \in {"DELETE", "GET"}

(* A result waits for a caller that waits. *)
DoneIsAwaited ==
  \A q \in Requests, d \in Depths : call[q][d].pc = "done" =>
    d > 0 /\ call[q][d - 1].pc \in Waiting

(* Each call is nearer to the root than its caller. *)
Nearer == \A q \in Requests, d \in Depths : Active(q, d) => call[q][d].node + d <= MaxNode

(* The root waits for nobody and has nothing to roll back. *)
RootIsLast ==
  \A q \in Requests, d \in Depths :
    call[q][d].pc \in Waiting \cup {"rollback"} => call[q][d].node # Root

(* A call that may still ask, and one that found a value, has no call left *)
(* behind below it: what a caller reads is the answer to its own question. *)
NothingBelow ==
  \A q \in Requests, d \in Depths :
    (\/ call[q][d].pc \in {"queued", "start", "remove"}
     \/ call[q][d].pc = "done" /\ call[q][d].op = "GET" /\ call[q][d].result # Missing)
    => \A e \in Depths : e > d => ~Active(q, e)

(* A caller waits for its replica, and for what it asked. *)
WaitsForReplica ==
  \A q \in Requests, d \in 0 .. MaxNode :
    call[q][d].pc \in Waiting /\ Active(q, d + 1) =>
      /\ call[q][d + 1].node = successor[call[q][d].node]
      /\ call[q][d + 1].op = AskedFor[call[q][d].pc]

(* A call is lost only with a trace. *)
LostIsFailed ==
  \A q \in Requests, d \in 0 .. MaxNode :
    call[q][d].pc \in Waiting /\ ~Active(q, d + 1) => failed[q]

(* Calls stay on the path of the request. *)
OnPath ==
  \A q \in Requests, d \in Depths : Active(q, d) => call[q][d].node \in Path(entry[q])

(* What was settled before another request began stays so. *)
BeforeSettled == \A q \in Requests : \A p \in before[q] : Settled(p)

CallInv ==
  /\ TypeOK /\ Joined
  /\ LabelOfOp /\ NotBegun /\ OpOfRequest /\ DoneIsAwaited /\ Nearer /\ RootIsLast
  /\ NothingBelow /\ WaitsForReplica /\ LostIsFailed /\ OnPath /\ BeforeSettled
-----------------------------------------------------------------------------
(* What a PUT leaves.                                                      *)

StoredOnTheWay ==
  \A q \in Requests, d \in Depths : op[q] = "PUT" =>
    /\ call[q][d].pc = "replicate" => call[q][d].node \in applied[q]
    /\ call[q][d].pc = "done" /\ call[q][d].result # Missing =>
         Path(call[q][d].node) \subseteq applied[q]

PutInv == StoredOnTheWay /\ AckedPutOnPath
-----------------------------------------------------------------------------
(* What a GET finds.                                                       *)

NoDelete == \A q \in Requests : op[q] # "DELETE"

(* The root keeps what it has got. *)
RootKeeps ==
  NoDelete /\ (\E q \in Requests : Root \in applied[q]) => stored[Root] # Missing

FoundOnTheWay ==
  \A p, g \in Requests :
    NoDelete /\ Acked(p, "PUT") /\ p \in before[g] /\ op[g] = "GET" /\ ~failed[g] =>
      /\ answer[g] # Missing
      /\ \A d \in Depths : call[g][d].pc = "done" => call[g][d].result # Missing

GetInv == RootKeeps /\ FoundOnTheWay
-----------------------------------------------------------------------------
(* What a DELETE leaves.                                                   *)

(* Nothing that was settled before q began is at node m. *)
Cleared(q, m) == \A p \in before[q] : stored[m] # p

ClearedOnTheWay ==
  \A q \in Requests : op[q] = "DELETE" /\ ~failed[q] =>
    /\ \A d \in Depths :
         /\ call[q][d].pc \in {"fallback", "probe", "unreplicate"} =>
              Cleared(q, call[q][d].node)
         /\ call[q][d].pc = "done" /\ (call[q][d].op = "DELETE" \/ call[q][d].result = Missing)
              => \A m \in Path(call[q][d].node) : Cleared(q, m)
    /\ Acked(q, "DELETE") => \A m \in Path(entry[q]) : Cleared(q, m)

NotReadAgain ==
  \A p, d, g \in Requests :
    (Acked(d, "DELETE") /\ ~failed[d] /\ p \in before[d] /\ d \in before[g]
       /\ op[g] = "GET" /\ entry[g] = entry[d])
      => /\ answer[g] # p
         /\ \A e \in Depths : call[g][e].pc = "done" => call[g][e].result # p

DeleteInv == ClearedOnTheWay /\ NotReadAgain
-----------------------------------------------------------------------------
(* How the operators of the model change the calls.                        *)

CallRecord == [node : Nodes, op : Ops, pc : Labels, result : Requests \cup {Missing, Success}]

(* Only calls d and d + 1 of request q change. *)
Only(q, d) ==
  \A p \in Requests, e \in Depths : ~(p = q /\ e \in {d, d + 1}) => call'[p][e] = call[p][e]

(* Call d of request q goes on at label, and below it is b. *)
MoveTo(q, d, label, b) ==
  /\ call'[q][d] = [call[q][d] EXCEPT !.pc = label] /\ call'[q][d + 1] = b
  /\ Only(q, d) /\ answer' = answer

(* Call d of request q returns r, and below it is b. *)
ReturnTo(q, d, r, b) ==
  /\ call'[q][d] = IF d > 0 /\ call[q][d - 1].pc \in Waiting
                   THEN [call[q][d] EXCEPT !.pc = "done", !.result = r] ELSE Idle
  /\ call'[q][d + 1] = b
  /\ Only(q, d) /\ answer' = IF d = 0 THEN [answer EXCEPT ![q] = r] ELSE answer

Sent(q, d, o) ==
  [node |-> successor[call[q][d].node], op |-> o, pc |-> "queued", result |-> Missing]

(* The bounds as numbers: nodes, requests and depths next to each other. *)
LEMMA Numbers ==
  /\ MaxNode \in Nat /\ Nodes \subseteq Nat /\ Requests \subseteq Nat \ {0}
  /\ Root \in Nodes /\ Idle \in CallRecord
  /\ \A d \in 0 .. MaxNode : d \in Depths /\ d + 1 \in Depths /\ d + 1 # d
  /\ \A d \in Depths : d \in Nat /\ (d > 0 => d - 1 \in 0 .. MaxNode /\ (d - 1) + 1 = d)
<1>1. MaxNode \in Nat /\ MaxRequests \in Nat
  BY RingAssumption
<1>2. Root \in Nodes
  BY <1>1 DEF Root, Nodes
<1>3. Idle \in CallRecord
  BY <1>2 DEF Idle, CallRecord, Ops, Labels, Missing
<1>4. Nodes \subseteq Nat /\ Requests \subseteq Nat \ {0}
  BY <1>1 DEF Nodes, Requests
<1>5. /\ \A d \in 0 .. MaxNode : d \in Depths /\ d + 1 \in Depths /\ d + 1 # d
      /\ \A d \in Depths : d \in Nat /\ (d > 0 => d - 1 \in 0 .. MaxNode /\ (d - 1) + 1 = d)
  BY <1>1 DEF Depths
<1> QED
  BY <1>1, <1>2, <1>3, <1>4, <1>5

(* What the type invariant says of the calls. *)
LEMMA CallTyped ==
  ASSUME TypeOK
  PROVE  /\ call \in [Requests -> [Depths -> CallRecord]]
         /\ \A q \in Requests, d \in Depths : call[q][d] \in CallRecord
<1>1. call \in [Requests -> [Depths -> CallRecord]]
  BY DEF TypeOK, CallRecord
<1> QED
  BY <1>1

(* Return, after call d + 1 was left as it is or read. *)
LEMMA ReturnEffect ==
  ASSUME TypeOK, NEW q \in Requests, NEW d \in 0 .. MaxNode, NEW r, Return(call, q, d, r)
  PROVE  ReturnTo(q, d, r, call[q][d + 1])
<1>1. /\ d \in Depths /\ d + 1 \in Depths /\ d + 1 # d
      /\ call \in [Requests -> [Depths -> CallRecord]]
  BY Numbers, CallTyped
<1>2. /\ call' = [call EXCEPT ![q][d] =
                    IF d > 0 /\ call[q][d - 1].pc \in Waiting
                      THEN [@ EXCEPT !.pc = "done", !.result = r] ELSE Idle]
      /\ answer' = IF d = 0 THEN [answer EXCEPT ![q] = r] ELSE answer
  BY DEF Return, Returned
<1>3. call'[q][d] = IF d > 0 /\ call[q][d - 1].pc \in Waiting
                     THEN [call[q][d] EXCEPT !.pc = "done", !.result = r] ELSE Idle
  BY <1>1, <1>2
<1>4. call'[q][d + 1] = call[q][d + 1] /\ Only(q, d)
  BY <1>1, <1>2 DEF Only
<1> QED
  BY <1>2, <1>3, <1>4 DEF ReturnTo

(* Return, after the answer in call d + 1 was read. *)
LEMMA ReadEffect ==
  ASSUME TypeOK, NEW q \in Requests, NEW d \in 0 .. MaxNode, NEW r,
         Return([call EXCEPT ![q][d + 1] = Idle], q, d, r)
  PROVE  ReturnTo(q, d, r, Idle)
<1>1. /\ d \in Depths /\ d + 1 \in Depths /\ d + 1 # d /\ d \in Nat
      /\ call \in [Requests -> [Depths -> CallRecord]]
      /\ d > 0 => d - 1 \in Depths /\ d - 1 # d + 1
  BY Numbers, CallTyped
<1> DEFINE calls == [call EXCEPT ![q][d + 1] = Idle]
<1>2. /\ call' = [calls EXCEPT ![q][d] =
                    IF d > 0 /\ calls[q][d - 1].pc \in Waiting
                      THEN [@ EXCEPT !.pc = "done", !.result = r] ELSE Idle]
      /\ answer' = IF d = 0 THEN [answer EXCEPT ![q] = r] ELSE answer
  BY DEF Return, Returned
<1>3. /\ calls \in [Requests -> [Depths -> CallRecord]]
      /\ calls[q][d + 1] = Idle
      /\ \A p \in Requests, e \in Depths : ~(p = q /\ e = d + 1) => calls[p][e] = call[p][e]
  BY <1>1, Numbers
<1> HIDE DEF calls
<1>4. d > 0 => calls[q][d - 1] = call[q][d - 1]
  BY <1>1, <1>3
<1>5. calls[q][d] = call[q][d]
  BY <1>1, <1>3
<1>6. call'[q][d] = IF d > 0 /\ call[q][d - 1].pc \in Waiting
                     THEN [call[q][d] EXCEPT !.pc = "done", !.result = r] ELSE Idle
  BY <1>1, <1>2, <1>3, <1>4, <1>5
<1>7. call'[q][d + 1] = Idle /\ Only(q, d)
  BY <1>1, <1>2, <1>3 DEF Only
<1> QED
  BY <1>2, <1>6, <1>7 DEF ReturnTo

(* Ask starts call d + 1, or the send fails and the request is marked. *)
LEMMA AskEffect ==
  ASSUME TypeOK, NEW q \in Requests, NEW d \in 0 .. MaxNode, NEW o, NEW label,
         Ask(q, d, o, label)
  PROVE  \/ MoveTo(q, d, label, Sent(q, d, o)) /\ failed' = failed
         \/ MoveTo(q, d, label, call[q][d + 1]) /\ failed' = [failed EXCEPT ![q] = TRUE]
<1>1. /\ d \in Depths /\ d + 1 \in Depths /\ d + 1 # d
      /\ call \in [Requests -> [Depths -> CallRecord]]
  BY Numbers, CallTyped
<1>2. CASE /\ call' = [call EXCEPT ![q][d].pc = label, ![q][d + 1] = Sent(q, d, o)]
           /\ UNCHANGED <<failed, answer>>
  <2>1. call'[q][d] = [call[q][d] EXCEPT !.pc = label] /\ call'[q][d + 1] = Sent(q, d, o)
    BY <1>1, <1>2
  <2>2. Only(q, d)
    BY <1>1, <1>2 DEF Only
  <2> QED
    BY <1>2, <2>1, <2>2 DEF MoveTo
<1>3. CASE /\ call' = [call EXCEPT ![q][d].pc = label]
           /\ failed' = [failed EXCEPT ![q] = TRUE] /\ UNCHANGED answer
  <2>1. /\ call'[q][d] = [call[q][d] EXCEPT !.pc = label]
        /\ call'[q][d + 1] = call[q][d + 1]
    BY <1>1, <1>3
  <2>2. Only(q, d)
    BY <1>1, <1>3 DEF Only
  <2> QED
    BY <1>3, <2>1, <2>2 DEF MoveTo
<1> QED
  BY <1>2, <1>3 DEF Ask, Sent

(* Moving a label, with call d + 1 left as it is or its answer read. *)
LEMMA GotoEffect ==
  ASSUME TypeOK, NEW q \in Requests, NEW d \in 0 .. MaxNode, NEW label, UNCHANGED answer
  PROVE  /\ call' = [call EXCEPT ![q][d].pc = label] => MoveTo(q, d, label, call[q][d + 1])
         /\ call' = [[call EXCEPT ![q][d + 1] = Idle] EXCEPT ![q][d].pc = label]
              => MoveTo(q, d, label, Idle)
<1>1. /\ d \in Depths /\ d + 1 \in Depths /\ d + 1 # d
      /\ call \in [Requests -> [Depths -> CallRecord]]
  BY Numbers, CallTyped
<1>2. CASE call' = [call EXCEPT ![q][d].pc = label]
  BY <1>1, <1>2 DEF MoveTo, Only
<1>3. CASE call' = [[call EXCEPT ![q][d + 1] = Idle] EXCEPT ![q][d].pc = label]
  BY <1>1, <1>3 DEF MoveTo, Only
<1> QED
  BY <1>2, <1>3
-----------------------------------------------------------------------------
(* The steps of a call, each action reduced to what it does.               *)

Same == UNCHANGED <<successor, restarts, history>>

Starts(q, d) ==
  /\ call[q][d].pc = "queued" /\ MoveTo(q, d, "start", call[q][d + 1])
  /\ UNCHANGED <<stored, failed, applied>>

Finds(q, d) ==
  /\ call[q][d].pc = "start" /\ call[q][d].op = "DELETE"
  /\ MoveTo(q, d, "remove", call[q][d + 1])
  /\ UNCHANGED <<stored, failed, applied>>

(* The call asks its replica and waits at label. *)
Asks(q, d, label) ==
  LET c == call[q][d]
  IN  /\ \/ /\ label = "replicate" /\ c.pc = "start" /\ c.op = "PUT"
            /\ put(c.node, q) /\ applied' = [applied EXCEPT ![q] = @ \cup {c.node}]
         \/ /\ label = "fallback" /\ c.pc = "start" /\ c.op = "GET"
            /\ stored[c.node] = Missing /\ UNCHANGED <<stored, applied>>
         \/ /\ label = "probe" /\ c.pc = "start" /\ c.op = "DELETE"
            /\ stored[c.node] = Missing /\ UNCHANGED <<stored, applied>>
         \/ /\ label = "unreplicate" /\ c.pc = "remove"
            /\ remove(c.node) /\ UNCHANGED applied
      /\ successor[c.node] # c.node
      /\ \/ MoveTo(q, d, label, Sent(q, d, AskedFor[label])) /\ failed' = failed
         \/ MoveTo(q, d, label, call[q][d + 1]) /\ failed' = [failed EXCEPT ![q] = TRUE]

(* The call returns r without waiting. *)
Answers(q, d, r) ==
  LET c == call[q][d]
  IN  /\ \/ /\ c.pc = "start" /\ c.op = "PUT" /\ successor[c.node] = c.node /\ r = Success
            /\ put(c.node, q) /\ applied' = [applied EXCEPT ![q] = @ \cup {c.node}]
         \/ /\ c.pc = "rollback" /\ r = Missing
            /\ remove(c.node) /\ UNCHANGED applied
         \/ /\ c.pc = "start" /\ c.op = "GET" /\ r = stored[c.node]
            /\ r # Missing \/ successor[c.node] = c.node
            /\ UNCHANGED <<stored, applied>>
         \/ /\ c.pc = "start" /\ c.op = "DELETE" /\ r = Missing
            /\ stored[c.node] = Missing /\ successor[c.node] = c.node
            /\ UNCHANGED <<stored, applied>>
         \/ /\ c.pc = "remove" /\ successor[c.node] = c.node /\ r = Success
            /\ remove(c.node) /\ UNCHANGED applied
      /\ ReturnTo(q, d, r, call[q][d + 1]) /\ failed' = failed

(* The call has got r, has lost its connection or gives up, and below it   *)
(* is b.                                                                   *)
Gets(q, d, r, b) ==
  LET below == call[q][d + 1]
  IN  /\ call[q][d].pc \in Waiting /\ UNCHANGED <<stored, applied>>
      /\ \/ below.pc = "done" /\ r = below.result /\ b = Idle /\ failed' = failed
         \/ below.pc = "none" /\ r = Missing /\ b = below /\ failed' = failed
         \/ /\ below.pc \notin {"none", "done"} /\ r = Missing /\ b = below
            /\ failed' = [failed EXCEPT ![q] = TRUE]

Resumes(q, d, r, b) ==
  LET c == call[q][d]
  IN  /\ Gets(q, d, r, b)
      /\ \/ c.pc = "replicate" /\ r = Missing /\ MoveTo(q, d, "rollback", b)
         \/ c.pc = "probe" /\ r # Missing /\ MoveTo(q, d, "remove", b)

Passes(q, d, r, b, s) ==
  LET c == call[q][d]
  IN  /\ Gets(q, d, r, b) /\ ReturnTo(q, d, s, b)
      /\ \/ c.pc = "replicate" /\ r # Missing /\ s = Success
         \/ c.pc = "fallback" /\ s = r
         \/ c.pc = "probe" /\ r = Missing /\ s = Missing
         \/ c.pc = "unreplicate" /\ s = Success

CallStep(q, d) ==
  /\ Same
  /\ \/ Starts(q, d) \/ Finds(q, d)
     \/ \E label \in Waiting : Asks(q, d, label)
     \/ \E r \in Requests \cup {Missing, Success} : Answers(q, d, r)
     \/ \E r \in Requests \cup {Missing, Success}, b \in CallRecord : Resumes(q, d, r, b)
     \/ \E r, s \in Requests \cup {Missing, Success}, b \in CallRecord : Passes(q, d, r, b, s)

(* Every step of a call is one of the few shapes CallStep names. *)
LEMMA WorkSteps ==
  ASSUME TypeOK, NEW q \in Requests, NEW d \in 0 .. MaxNode, Work(q, d) \/ TimeOut(q, d)
  PROVE  CallStep(q, d)
<1> DEFINE Results == Requests \cup {Missing, Success}
           n == call[q][d].node
<1>0. /\ d \in Depths /\ d + 1 \in Depths /\ call[q][d + 1] \in CallRecord
      /\ Idle \in CallRecord /\ n \in Nodes
      /\ Missing \in Results /\ Success \in Results
      /\ stored \in [Nodes -> Requests \cup {Missing}] /\ stored[n] \in Results
      /\ call[q][d + 1].result \in Results
      /\ (ReplicaNodes(n) = {} <=> successor[n] = n)
      /\ {"replicate", "fallback", "probe", "unreplicate"} \subseteq Waiting
      /\ AskedFor["replicate"] = "PUT" /\ AskedFor["fallback"] = "GET"
      /\ AskedFor["probe"] = "GET" /\ AskedFor["unreplicate"] = "DELETE"
  <2>1. d \in Depths /\ d + 1 \in Depths /\ Idle \in CallRecord
    BY Numbers
  <2>2. call[q][d] \in CallRecord /\ call[q][d + 1] \in CallRecord
    BY <2>1, CallTyped
  <2>3. n \in Nodes /\ call[q][d + 1].result \in Results
    BY <2>2 DEF CallRecord
  <2>4. stored \in [Nodes -> Requests \cup {Missing}] /\ stored[n] \in Results
    BY <2>3 DEF TypeOK
  <2> QED
    BY <2>1, <2>2, <2>3, <2>4 DEF ReplicaNodes, Waiting, AskedFor
<1>1. CASE Take(q, d)
  BY <1>1, GotoEffect DEF Take, CallStep, Same, Starts
<1>2. CASE StorePut(q, d)
  <2>1. /\ call[q][d].pc = "start" /\ call[q][d].op = "PUT" /\ put(n, q)
        /\ applied' = [applied EXCEPT ![q] = @ \cup {n}] /\ Same
    BY <1>2 DEF StorePut, Same
  <2>2. CASE ReplicaNodes(n) = {}
    <3>1. ReturnTo(q, d, Success, call[q][d + 1]) /\ failed' = failed
      BY <1>2, <2>2, ReturnEffect DEF StorePut
    <3>2. Answers(q, d, Success)
      BY <1>0, <2>1, <2>2, <3>1 DEF Answers
    <3> QED
      BY <1>0, <2>1, <3>2 DEF CallStep
  <2>3. CASE ReplicaNodes(n) # {}
    <3>1. Ask(q, d, "PUT", "replicate")
      BY <1>2, <2>3 DEF StorePut
    <3>2. Asks(q, d, "replicate")
      BY <1>0, <2>1, <2>3, <3>1, AskEffect DEF Asks
    <3> QED
      BY <1>0, <2>1, <3>2 DEF CallStep
  <2> QED
    BY <2>2, <2>3
<1>3. CASE Rollback(q, d)
  <2>1. ReturnTo(q, d, Missing, call[q][d + 1])
    BY <1>3, ReturnEffect DEF Rollback
  <2>2. Answers(q, d, Missing) /\ Same
    BY <1>3, <2>1 DEF Rollback, Answers, Same
  <2> QED
    BY <1>0, <2>2 DEF CallStep
<1>4. CASE RetrieveGet(q, d)
  <2>1. /\ call[q][d].pc = "start" /\ call[q][d].op = "GET"
        /\ UNCHANGED <<stored, applied>> /\ Same
    BY <1>4 DEF RetrieveGet, Same
  <2>2. CASE stored[n] # Missing \/ ReplicaNodes(n) = {}
    <3>1. ReturnTo(q, d, stored[n], call[q][d + 1]) /\ failed' = failed
      BY <1>4, <2>2, ReturnEffect DEF RetrieveGet, get
    <3>2. Answers(q, d, stored[n])
      BY <1>0, <2>1, <2>2, <3>1 DEF Answers
    <3> QED
      BY <1>0, <2>1, <3>2 DEF CallStep
  <2>3. CASE ~(stored[n] # Missing \/ ReplicaNodes(n) = {})
    <3>1. Ask(q, d, "GET", "fallback")
      BY <1>4, <2>3 DEF RetrieveGet, get
    <3>2. Asks(q, d, "fallback")
      BY <1>0, <2>1, <2>3, <3>1, AskEffect DEF Asks
    <3> QED
      BY <1>0, <2>1, <3>2 DEF CallStep
  <2> QED
    BY <2>2, <2>3
<1>5. CASE FindForRemove(q, d)
  <2>1. /\ call[q][d].pc = "start" /\ call[q][d].op = "DELETE"
        /\ UNCHANGED <<stored, applied>> /\ Same
    BY <1>5 DEF FindForRemove, Same
  <2>2. CASE stored[n] # Missing
    <3>1. call' = [call EXCEPT ![q][d].pc = "remove"] /\ UNCHANGED <<answer, failed>>
      BY <1>5, <2>2 DEF FindForRemove, get
    <3>2. Finds(q, d)
      BY <2>1, <3>1, GotoEffect DEF Finds
    <3> QED
      BY <2>1, <3>2 DEF CallStep
  <2>3. CASE stored[n] = Missing /\ ReplicaNodes(n) = {}
    <3>1. ReturnTo(q, d, Missing, call[q][d + 1]) /\ failed' = failed
      BY <1>5, <2>3, ReturnEffect DEF FindForRemove, get
    <3>2. Answers(q, d, Missing)
      BY <1>0, <2>1, <2>3, <3>1 DEF Answers
    <3> QED
      BY <1>0, <2>1, <3>2 DEF CallStep
  <2>4. CASE stored[n] = Missing /\ ReplicaNodes(n) # {}
    <3>1. Ask(q, d, "GET", "probe")
      BY <1>5, <2>4 DEF FindForRemove, get
    <3>2. Asks(q, d, "probe")
      BY <1>0, <2>1, <2>4, <3>1, AskEffect DEF Asks
    <3> QED
      BY <1>0, <2>1, <3>2 DEF CallStep
  <2> QED
    BY <2>2, <2>3, <2>4
<1>6. CASE RemoveKey(q, d)
  <2>1. call[q][d].pc = "remove" /\ remove(n) /\ UNCHANGED applied /\ Same
    BY <1>6 DEF RemoveKey, Same
  <2>2. CASE ReplicaNodes(n) = {}
    <3>1. ReturnTo(q, d, Success, call[q][d + 1]) /\ failed' = failed
      BY <1>6, <2>2, ReturnEffect DEF RemoveKey
    <3>2. Answers(q, d, Success)
      BY <1>0, <2>1, <2>2, <3>1 DEF Answers
    <3> QED
      BY <1>0, <2>1, <3>2 DEF CallStep
  <2>3. CASE ReplicaNodes(n) # {}
    <3>1. Ask(q, d, "DELETE", "unreplicate")
      BY <1>6, <2>3 DEF RemoveKey
    <3>2. Asks(q, d, "unreplicate")
      BY <1>0, <2>1, <2>3, <3>1, AskEffect DEF Asks
    <3> QED
      BY <1>0, <2>1, <3>2 DEF CallStep
  <2> QED
    BY <2>2, <2>3
<1>7. ASSUME NEW r \in Results, Gets(q, d, r, call[q][d + 1]), Same, Resume(call, q, d, r)
      PROVE  CallStep(q, d)
  <2> DEFINE b == call[q][d + 1]
  <2>1. ASSUME NEW s \in Results, Return(call, q, d, s)
        PROVE  ReturnTo(q, d, s, b)
    BY <2>1, ReturnEffect
  <2>2. ASSUME NEW label, call' = [call EXCEPT ![q][d].pc = label], UNCHANGED answer
        PROVE  MoveTo(q, d, label, b)
    BY <2>2, GotoEffect
  <2>3. \/ Resumes(q, d, r, b) \/ Passes(q, d, r, b, r) \/ Passes(q, d, r, b, Success)
        \/ Passes(q, d, r, b, Missing)
    BY <1>0, <1>7, <2>1, <2>2 DEF Resume, Resumes, Passes
  <2> QED
    BY <1>0, <1>7, <2>3 DEF CallStep
<1>8. CASE Receive(q, d)
  <2> DEFINE r == call[q][d + 1].result
  <2>1. Gets(q, d, r, Idle) /\ Same
    BY <1>8 DEF Receive, Gets, Same
  <2>2. ASSUME NEW s \in Results, Return([call EXCEPT ![q][d + 1] = Idle], q, d, s)
        PROVE  ReturnTo(q, d, s, Idle)
    BY <2>2, ReadEffect
  <2>3. ASSUME NEW label, UNCHANGED answer,
               call' = [[call EXCEPT ![q][d + 1] = Idle] EXCEPT ![q][d].pc = label]
        PROVE  MoveTo(q, d, label, Idle)
    BY <2>3, GotoEffect
  <2>4. [call EXCEPT ![q][d + 1] = Idle][q][d] = call[q][d]
    BY <1>0, Numbers, CallTyped
  <2>5. \/ Resumes(q, d, r, Idle) \/ Passes(q, d, r, Idle, r)
        \/ Passes(q, d, r, Idle, Success) \/ Passes(q, d, r, Idle, Missing)
    BY <1>0, <1>8, <2>1, <2>2, <2>3, <2>4 DEF Receive, Resume, Resumes, Passes
  <2> QED
    BY <1>0, <2>1, <2>5 DEF CallStep
<1>9. CASE Disconnected(q, d)
  BY <1>0, <1>7, <1>9 DEF Disconnected, Gets, Same
<1>10. CASE TimeOut(q, d)
  BY <1>0, <1>7, <1>10 DEF TimeOut, Gets, Same
<1> QED
  BY <1>1, <1>2, <1>3, <1>4, <1>5, <1>6, <1>8, <1>9, <1>10 DEF Work
-----------------------------------------------------------------------------
(* Type correctness.                                                       *)

(* Initially the types hold and every node joined through a smaller one. *)
LEMMA TypeInit == Init => TypeOK /\ Joined
<1> SUFFICES ASSUME Init
             PROVE  TypeOK /\ Joined
  OBVIOUS
<1>1. Root \in Nodes /\ Idle \in CallRecord /\ MaxRestarts \in Nat
  BY Numbers, RingAssumption
<1>2. call \in [Requests -> [Depths -> CallRecord]]
  BY <1>1 DEF Init
<1>3. 0 \in 0 .. MaxRestarts
  BY <1>1
<1> QED
  BY <1>1, <1>2, <1>3 DEF Init, TypeOK, Joined, CallRecord

Calls == [Requests -> [Depths -> CallRecord]]
Results == Requests \cup {Missing, Success}
Answered == [Requests -> Requests \cup {NoAnswer, Missing, Success}]

(* The operators of the model keep the types. *)
LEMMA GotoTyped ==
  ASSUME NEW calls \in Calls, NEW q \in Requests, NEW d \in Depths, NEW label \in Labels
  PROVE  [calls EXCEPT ![q][d].pc = label] \in Calls
<1>1. calls[q][d] \in CallRecord
  BY DEF Calls
<1>2. [calls[q][d] EXCEPT !.pc = label] \in CallRecord
  BY <1>1 DEF CallRecord
<1> QED
  BY <1>2 DEF Calls

(* Answering a call keeps the calls typed. *)
LEMMA ReturnTyped ==
  ASSUME NEW calls \in Calls, NEW q \in Requests, NEW d \in Depths, NEW r \in Results,
         answer \in Answered, Return(calls, q, d, r)
  PROVE  call' \in Calls /\ answer' \in Answered
<1>1. calls[q][d] \in CallRecord /\ Idle \in CallRecord
  BY Numbers DEF Calls
<1>2. [calls[q][d] EXCEPT !.pc = "done", !.result = r] \in CallRecord
  BY <1>1 DEF CallRecord, Labels, Results
<1>3. \A c \in CallRecord : [calls EXCEPT ![q][d] = c] \in Calls
  BY DEF Calls
<1>4. \/ call' = [calls EXCEPT ![q][d] = [calls[q][d] EXCEPT !.pc = "done", !.result = r]]
      \/ call' = [calls EXCEPT ![q][d] = Idle]
  BY DEF Return, Returned
<1>5. call' \in Calls
  BY <1>1, <1>2, <1>3, <1>4
<1>6. answer' \in Answered
  BY DEF Return, Answered, Results
<1> QED
  BY <1>5, <1>6

(* Asking the next node keeps the calls typed. *)
LEMMA AskTyped ==
  ASSUME TypeOK, NEW q \in Requests, NEW d \in 0 .. MaxNode, NEW o \in Ops,
         NEW label \in Labels, Ask(q, d, o, label)
  PROVE  call' \in Calls /\ answer' \in Answered /\ failed' \in [Requests -> BOOLEAN]
<1>1. d \in Depths /\ d + 1 \in Depths /\ call \in Calls
  BY Numbers, CallTyped DEF Calls
<1>2. call[q][d] \in CallRecord /\ call[q][d].node \in Nodes
  BY <1>1 DEF Calls, CallRecord
<1>3. Sent(q, d, o) \in CallRecord
  BY <1>2 DEF Sent, CallRecord, Labels, TypeOK
<1>4. [call[q][d] EXCEPT !.pc = label] \in CallRecord
  BY <1>2 DEF CallRecord
<1>5. answer' \in Answered /\ failed' \in [Requests -> BOOLEAN]
  BY DEF Ask, TypeOK, Answered
<1>6. CASE call' = [call EXCEPT ![q][d].pc = label, ![q][d + 1] = Sent(q, d, o)]
  <2>1. call' = [call EXCEPT ![q][d] = [call[q][d] EXCEPT !.pc = label],
                             ![q][d + 1] = Sent(q, d, o)]
    BY <1>6, <1>1 DEF Calls
  <2> HIDE DEF CallRecord
  <2>2. call' \in Calls
    BY <1>1, <1>3, <1>4, <2>1 DEF Calls
  <2> QED
    BY <1>5, <2>2
<1>7. CASE call' = [call EXCEPT ![q][d].pc = label]
  BY <1>1, <1>5, <1>7, GotoTyped
<1> QED
  BY <1>6, <1>7 DEF Ask, Sent

(* Going on after an answer keeps the calls typed. *)
LEMMA ResumeTyped ==
  ASSUME NEW calls \in Calls, NEW q \in Requests, NEW d \in Depths, NEW r \in Results,
         answer \in Answered, Resume(calls, q, d, r)
  PROVE  call' \in Calls /\ answer' \in Answered
<1>1. "rollback" \in Labels /\ "remove" \in Labels
  BY DEF Labels, InWorker
<1>2. Success \in Results /\ Missing \in Results
  BY DEF Results
<1>3. \/ \E s \in {r, Success, Missing} : Return(calls, q, d, s)
      \/ \E l \in {"rollback", "remove"} :
           call' = [calls EXCEPT ![q][d].pc = l] /\ UNCHANGED answer
  BY DEF Resume
<1> QED
  BY <1>1, <1>2, <1>3, GotoTyped, ReturnTyped

(* put and remove keep the storages typed. *)
LEMMA StorageTyped ==
  ASSUME TypeOK, NEW n \in Nodes
  PROVE  /\ \A q \in Requests : put(n, q) => stored' \in [Nodes -> Requests \cup {Missing}]
         /\ remove(n) => stored' \in [Nodes -> Requests \cup {Missing}]
  BY DEF TypeOK, put, remove

(* Every step keeps the types; the first nine are those of WorkSteps. *)
LEMMA WorkTyped ==
  ASSUME TypeOK, NEW q \in Requests, NEW d \in 0 .. MaxNode, Work(q, d) \/ TimeOut(q, d)
  PROVE  TypeOK'
<1> DEFINE n == call[q][d].node
           Changed == /\ call' \in Calls /\ answer' \in Answered
                      /\ failed' \in [Requests -> BOOLEAN]
                      /\ stored' \in [Nodes -> Requests \cup {Missing}]
                      /\ applied' \in [Requests -> SUBSET Nodes]
                      /\ Same
<1>0. /\ d \in Depths /\ d + 1 \in Depths /\ call \in Calls /\ answer \in Answered
      /\ n \in Nodes /\ stored[n] \in Results /\ call[q][d + 1].result \in Results
      /\ failed \in [Requests -> BOOLEAN] /\ applied \in [Requests -> SUBSET Nodes]
      /\ stored \in [Nodes -> Requests \cup {Missing}]
      /\ Success \in Results /\ Missing \in Results
      /\ [call EXCEPT ![q][d + 1] = Idle] \in Calls
      /\ {"start", "replicate", "fallback", "probe", "remove", "unreplicate"} \subseteq Labels
      /\ {"PUT", "GET", "DELETE"} \subseteq Ops
  <2>1. d \in Depths /\ d + 1 \in Depths /\ call \in Calls /\ Idle \in CallRecord
    BY Numbers, CallTyped DEF Calls
  <2>2. call[q][d] \in CallRecord /\ call[q][d + 1] \in CallRecord
    BY <2>1 DEF Calls
  <2>3. n \in Nodes /\ call[q][d + 1].result \in Results
    BY <2>2 DEF CallRecord, Results
  <2>4. [call EXCEPT ![q][d + 1] = Idle] \in Calls
    BY <2>1 DEF Calls
  <2>5. stored[n] \in Results
    BY <2>3 DEF TypeOK, Results
  <2> QED
    BY <2>1, <2>3, <2>4, <2>5
    DEF TypeOK, Answered, Results, Labels, InWorker, Waiting, Ops
<1>1. ASSUME UNCHANGED failed, NEW r \in Results, Return(call, q, d, r)
      PROVE  /\ call' \in Calls /\ answer' \in Answered
             /\ failed' \in [Requests -> BOOLEAN]
  BY <1>0, <1>1, ReturnTyped
<1>2. CASE Take(q, d)
  <2>1. call' \in Calls
    BY <1>0, <1>2, GotoTyped DEF Take
  <2>2. Changed
    BY <1>0, <1>2, <2>1 DEF Take, Same
  <2> QED
    BY <2>2 DEF TypeOK, Calls, CallRecord, Answered, Same, history
<1>3. CASE StorePut(q, d)
  <2>1. /\ call' \in Calls /\ answer' \in Answered /\ failed' \in [Requests -> BOOLEAN]
    BY <1>0, <1>1, <1>3, AskTyped DEF StorePut
  <2>2. stored' \in [Nodes -> Requests \cup {Missing}]
    BY <1>0, <1>3, StorageTyped DEF StorePut
  <2>3. applied' \in [Requests -> SUBSET Nodes] /\ Same
    BY <1>0, <1>3 DEF StorePut, Same
  <2> QED
    BY <2>1, <2>2, <2>3 DEF TypeOK, Calls, CallRecord, Answered, Same, history
<1>4. CASE Rollback(q, d)
  <2>1. call' \in Calls /\ answer' \in Answered
    BY <1>0, <1>4, ReturnTyped DEF Rollback
  <2>2. stored' \in [Nodes -> Requests \cup {Missing}]
    BY <1>0, <1>4, StorageTyped DEF Rollback
  <2> QED
    BY <1>0, <1>4, <2>1, <2>2 DEF Rollback, TypeOK, Calls, CallRecord, Answered, history
<1>5. CASE RetrieveGet(q, d)
  <2>1. /\ call' \in Calls /\ answer' \in Answered /\ failed' \in [Requests -> BOOLEAN]
    BY <1>0, <1>1, <1>5, AskTyped DEF RetrieveGet, get
  <2> QED
    BY <1>0, <1>5, <2>1 DEF RetrieveGet, TypeOK, Calls, CallRecord, Answered, history
<1>6. CASE FindForRemove(q, d)
  <2>1. CASE call' = [call EXCEPT ![q][d].pc = "remove"] /\ UNCHANGED <<answer, failed>>
    <3>1. call' \in Calls
      BY <1>0, <2>1, GotoTyped
    <3> QED
      BY <1>0, <1>6, <2>1, <3>1
      DEF FindForRemove, TypeOK, Calls, CallRecord, Answered, history
  <2>2. CASE ~(call' = [call EXCEPT ![q][d].pc = "remove"] /\ UNCHANGED <<answer, failed>>)
    <3>1. /\ call' \in Calls /\ answer' \in Answered /\ failed' \in [Requests -> BOOLEAN]
      BY <1>0, <1>1, <1>6, <2>2, AskTyped DEF FindForRemove, get
    <3> QED
      BY <1>0, <1>6, <3>1 DEF FindForRemove, TypeOK, Calls, CallRecord, Answered, history
  <2> QED
    BY <2>1, <2>2
<1>7. CASE RemoveKey(q, d)
  <2>1. /\ call' \in Calls /\ answer' \in Answered /\ failed' \in [Requests -> BOOLEAN]
    BY <1>0, <1>1, <1>7, AskTyped DEF RemoveKey
  <2>2. stored' \in [Nodes -> Requests \cup {Missing}]
    BY <1>0, <1>7, StorageTyped DEF RemoveKey
  <2> QED
    BY <1>0, <1>7, <2>1, <2>2 DEF RemoveKey, TypeOK, Calls, CallRecord, Answered, history
<1>8. CASE Receive(q, d)
  <2>1. call' \in Calls /\ answer' \in Answered
    BY <1>0, <1>8, ResumeTyped DEF Receive
  <2> QED
    BY <1>0, <1>8, <2>1 DEF Receive, TypeOK, Calls, CallRecord, Answered, history
<1>9. CASE Disconnected(q, d)
  <2>1. call' \in Calls /\ answer' \in Answered
    BY <1>0, <1>9, ResumeTyped DEF Disconnected
  <2> QED
    BY <1>0, <1>9, <2>1 DEF Disconnected, TypeOK, Calls, CallRecord, Answered, history
<1>10. CASE TimeOut(q, d)
  <2>1. call' \in Calls /\ answer' \in Answered
    BY <1>0, <1>10, ResumeTyped DEF TimeOut
  <2> QED
    BY <1>0, <1>10, <2>1 DEF TimeOut, TypeOK, Calls, CallRecord, Answered, history
<1> QED
  BY <1>2, <1>3, <1>4, <1>5, <1>6, <1>7, <1>8, <1>9, <1>10 DEF Work

(* The other steps, in terms of single calls. *)
Restarted(n) ==
  LET lost(q, d) == call[q][d].node = n /\ call[q][d].pc \notin {"none", "done"}
      unread(q, d) == call[q][d].pc = "done" /\ lost(q, d - 1)
  IN  /\ n # Root /\ remove(n) /\ UNCHANGED <<successor, history, applied>>
      /\ \A q \in Requests, d \in Depths :
           call'[q][d] = IF lost(q, d) \/ unread(q, d) THEN Idle ELSE call[q][d]
      /\ \A q \in Requests :
           /\ failed'[q] = (failed[q] \/ \E d \in Depths : lost(q, d))
           /\ answer'[q] = IF lost(q, 0) THEN Missing ELSE answer[q]

Begun(q, o, n) ==
  /\ op[q] = "none"
  /\ op' = [op EXCEPT ![q] = o] /\ entry' = [entry EXCEPT ![q] = n]
  /\ before' = [before EXCEPT ![q] = {p \in Requests : Settled(p)}]
  /\ call'[q][0] = [node |-> n, op |-> o, pc |-> "queued", result |-> Missing]
  /\ \A p \in Requests, e \in Depths : ~(p = q /\ e = 0) => call'[p][e] = call[p][e]
  /\ UNCHANGED <<successor, stored, restarts, answer, failed, applied>>

(* A new request keeps the state typed. *)
LEMMA BeginTyped ==
  ASSUME TypeOK, NEW q \in Requests, NEW o \in Ops, NEW n \in Nodes, Begin(q, o, n)
  PROVE  TypeOK' /\ Begun(q, o, n)
<1>1. 0 \in Depths /\ call \in Calls
  BY Numbers, CallTyped DEF Calls, Depths
<1> DEFINE c == [node |-> n, op |-> o, pc |-> "queued", result |-> Missing]
<1>2. c \in CallRecord
  BY DEF CallRecord, Labels
<1>3. call' = [call EXCEPT ![q][0] = c]
  BY DEF Begin
<1> HIDE DEF c
<1>4. call' \in Calls
  BY <1>1, <1>2, <1>3 DEF Calls
<1>5. /\ call'[q][0] = c
      /\ \A p \in Requests, e \in Depths : ~(p = q /\ e = 0) => call'[p][e] = call[p][e]
  BY <1>1, <1>3 DEF Calls
<1>6. op' \in [Requests -> Ops \cup {"none"}] /\ entry' \in [Requests -> Nodes]
  BY DEF Begin, TypeOK
<1>7. before' \in [Requests -> SUBSET Requests]
  BY DEF Begin, TypeOK
<1>8. TypeOK'
  BY <1>4, <1>6, <1>7 DEF Begin, TypeOK, Calls, CallRecord
<1>9. Begun(q, o, n)
  BY <1>5 DEF Begin, Begun, c
<1> QED
  BY <1>8, <1>9

(* A restart keeps the state typed. *)
LEMMA RestartTyped ==
  ASSUME TypeOK, NEW n \in Nodes, Restart(n)
  PROVE  TypeOK' /\ Restarted(n)
<1>1. call \in Calls /\ Idle \in CallRecord
  BY Numbers, CallTyped DEF Calls
<1>2. call' \in Calls
  BY <1>1 DEF Restart, Calls
<1>3. stored' \in [Nodes -> Requests \cup {Missing}]
  BY StorageTyped DEF Restart
<1>4. answer' \in Answered
  BY DEF Restart, TypeOK, Answered
<1>5. failed' \in [Requests -> BOOLEAN]
  BY DEF Restart, TypeOK
<1>6. restarts' \in 0 .. MaxRestarts
  BY RingAssumption DEF Restart, TypeOK
<1>7. TypeOK'
  BY <1>2, <1>3, <1>4, <1>5, <1>6 DEF Restart, TypeOK, Calls, CallRecord, Answered, history
<1>8. Restarted(n)
  BY DEF Restart, Restarted
<1> QED
  BY <1>7, <1>8

(* Every step keeps the state typed. *)
LEMMA TypeStep ==
  ASSUME TypeOK, [Next]_vars
  PROVE  TypeOK'
<1>1. CASE UNCHANGED vars
  BY <1>1 DEF TypeOK, vars, history
<1> QED
  BY <1>1, WorkTyped, BeginTyped, RestartTyped DEF Next

(* Every variable keeps its type, whatever the calls do. *)
THEOREM TypeCorrect == Spec => []TypeOK
<1>1. Init => TypeOK
  BY TypeInit
<1>2. TypeOK /\ [Next]_vars => TypeOK'
  BY TypeStep
<1> QED
  BY <1>1, <1>2, PTL DEF Spec
-----------------------------------------------------------------------------
(* Paths.                                                                  *)

(* A path begins at its node, goes on with the successor of each of its    *)
(* nodes, and holds nothing else.                                          *)
LEMMA PathFacts ==
  ASSUME NEW s \in [Nodes -> Nodes], NEW n \in Nodes
  PROVE  /\ n \in PathOver(s, n) /\ PathOver(s, n) \subseteq Nodes
         /\ \A m \in PathOver(s, n) : s[m] \in PathOver(s, n)
         /\ PathOver(s, n) \subseteq {n} \cup PathOver(s, s[n])
         /\ s[n] = n => PathOver(s, n) \subseteq {n}
<1>1. n \in PathOver(s, n) /\ PathOver(s, n) \subseteq Nodes
  BY DEF PathOver
<1>2. \A k \in Nodes : \A m \in PathOver(s, k) : s[m] \in PathOver(s, k)
  BY DEF PathOver
<1>3. ASSUME NEW S \in SUBSET Nodes, n \in S, \A k \in S : s[k] \in S
      PROVE  PathOver(s, n) \subseteq S
  BY <1>3 DEF PathOver
<1>4. PathOver(s, n) \subseteq {n} \cup PathOver(s, s[n])
  <2> DEFINE S == {n} \cup PathOver(s, s[n])
  <2>1. s[n] \in Nodes /\ s[n] \in PathOver(s, s[n]) /\ PathOver(s, s[n]) \subseteq Nodes
    BY DEF PathOver
  <2>2. \A k \in S : s[k] \in S
    BY <1>2, <2>1
  <2>3. S \in SUBSET Nodes /\ n \in S
    BY <2>1
  <2> HIDE DEF S
  <2>4. PathOver(s, n) \subseteq S
    BY <1>3, <2>2, <2>3
  <2> QED
    BY <2>4 DEF S
<1>5. ASSUME s[n] = n
      PROVE  PathOver(s, n) \subseteq {n}
  <2>1. {n} \in SUBSET Nodes /\ n \in {n} /\ \A k \in {n} : s[k] \in {n}
    BY <1>5
  <2> QED
    BY <1>3, <2>1
<1> QED
  BY <1>1, <1>2, <1>4, <1>5

(* Every path ends at the root, and only the root is its own successor. *)
LEMMA PathToRoot ==
  ASSUME TypeOK, Joined, NEW n \in Nodes
  PROVE  /\ Root \in PathOver(successor, n)
         /\ successor[n] = n <=> n = Root
         /\ n # Root => successor[n] < n
         /\ successor[n] \in Nodes
<1>1. /\ successor \in [Nodes -> Nodes] /\ successor[Root] = Root
      /\ \A m \in Nodes \ {Root} : successor[m] < m
  BY DEF TypeOK, Joined
<1>2. Nodes \subseteq Nat /\ Root \in Nodes
  BY Numbers
<1>3. ASSUME NEW S \in SUBSET Nodes, n \in S, \A k \in S : successor[k] \in S
      PROVE  Root \in S
  <2>1. PICK x \in S : \A y \in S : x <= y
    <3>1. S \subseteq Nat /\ S # {}
      BY <1>2, <1>3
    <3> QED
      BY <3>1, LeastNumber
  <2>2. x \in Nat /\ successor[x] \in Nat /\ x <= successor[x]
    BY <1>1, <1>2, <1>3, <2>1
  <2>3. x = Root
    BY <1>1, <2>1, <2>2
  <2> QED
    BY <2>3
<1>4. Root \in PathOver(successor, n)
  BY <1>2, <1>3 DEF PathOver
<1>5. n # Root => successor[n] < n /\ successor[n] # n
  BY <1>1, <1>2
<1> QED
  BY <1>1, <1>4, <1>5
-----------------------------------------------------------------------------
(* The calls under way.                                                    *)

(* A step of call d of request q, as far as the calls are concerned. *)
Kept(q, d) == call'[q][d].node = call[q][d].node /\ call'[q][d].op = call[q][d].op

GoesOn(q, d) ==
  /\ \/ call[q][d].pc = "queued" /\ call'[q][d].pc = "start"
     \/ call[q][d].pc = "start" /\ call[q][d].op = "DELETE" /\ call'[q][d].pc = "remove"
  /\ Kept(q, d) /\ call'[q][d + 1] = call[q][d + 1]
  /\ failed' = failed /\ answer' = answer

Waits(q, d) ==
  /\ call[q][d].pc \in {"start", "remove"} /\ call'[q][d].pc \in Waiting
  /\ call[q][d].op = IF call'[q][d].pc = "probe" THEN "DELETE" ELSE AskedFor[call'[q][d].pc]
  /\ call[q][d].node # Root /\ Kept(q, d) /\ answer' = answer
  /\ \/ /\ call'[q][d + 1] = Sent(q, d, AskedFor[call'[q][d].pc])
        /\ failed' = failed
     \/ call'[q][d + 1] = call[q][d + 1] /\ failed' = [failed EXCEPT ![q] = TRUE]

(* The call ends with result r. *)
Ends(q, d, r) ==
  \/ /\ d > 0 /\ call[q][d - 1].pc \in Waiting
     /\ call'[q][d].pc = "done" /\ call'[q][d].result = r /\ Kept(q, d)
     /\ answer' = answer
  \/ /\ ~(d > 0 /\ call[q][d - 1].pc \in Waiting)
     /\ call'[q][d] = Idle /\ call'[q][d].pc = "none"
     /\ answer' = IF d = 0 THEN [answer EXCEPT ![q] = r] ELSE answer

Replies(q, d) ==
  /\ call[q][d].pc \in {"start", "rollback", "remove"}
  /\ call'[q][d + 1] = call[q][d + 1] /\ failed' = failed
  /\ \E r \in Results : Ends(q, d, r)

(* What is below a call that waits no more. *)
Released(q, d) ==
  \/ /\ call[q][d + 1].pc = "done" /\ failed' = failed
     /\ call'[q][d + 1] = Idle /\ call'[q][d + 1].pc = "none"
  \/ /\ call[q][d + 1].pc = "none" /\ call'[q][d + 1] = call[q][d + 1] /\ failed' = failed
  \/ /\ call[q][d + 1].pc \notin {"none", "done"} /\ call'[q][d + 1] = call[q][d + 1]
     /\ failed' = [failed EXCEPT ![q] = TRUE]

Found(q, d) == call[q][d + 1].pc = "done" /\ call[q][d + 1].result # Missing

Continues(q, d) ==
  /\ call[q][d].pc \in Waiting /\ Released(q, d)
  /\ \/ /\ call[q][d].pc = "replicate" /\ call'[q][d].pc = "rollback"
        /\ Kept(q, d) /\ answer' = answer
     \/ /\ call[q][d].pc = "probe" /\ call'[q][d].pc = "remove" /\ Found(q, d)
        /\ Kept(q, d) /\ answer' = answer
     \/ \E r \in Results :
          Ends(q, d, r) /\ (call[q][d].pc = "fallback" /\ r # Missing => Found(q, d))

Changes(q, d) ==
  /\ Only(q, d) /\ Same
  /\ applied' = [applied EXCEPT ![q] = applied'[q]]
  /\ call[q][d].pc \notin {"none", "done"}
  /\ GoesOn(q, d) \/ Waits(q, d) \/ Replies(q, d) \/ Continues(q, d)

(* The fields of the calls after a move. *)
LEMMA MoveFields ==
  ASSUME TypeOK, NEW q \in Requests, NEW d \in 0 .. MaxNode, NEW label, NEW b,
         MoveTo(q, d, label, b)
  PROVE  /\ Kept(q, d) /\ call'[q][d].pc = label /\ call'[q][d + 1] = b
         /\ Only(q, d) /\ answer' = answer
<1>1. call[q][d] \in CallRecord
  BY Numbers, CallTyped
<1> QED
  BY <1>1 DEF MoveTo, Kept, CallRecord

(* The fields of the calls after a return. *)
LEMMA ReturnFields ==
  ASSUME TypeOK, NEW q \in Requests, NEW d \in 0 .. MaxNode, NEW r, NEW b,
         ReturnTo(q, d, r, b)
  PROVE  Ends(q, d, r) /\ call'[q][d + 1] = b /\ Only(q, d)
<1>1. call[q][d] \in CallRecord
  BY Numbers, CallTyped
<1> QED
  BY <1>1 DEF ReturnTo, Ends, Kept, CallRecord, Idle

(* What a step of a call leaves alone, in the form Changes states. *)
LEMMA StepChanges ==
  ASSUME TypeOK, Joined, LabelOfOp, NEW q \in Requests, NEW d \in 0 .. MaxNode,
         CallStep(q, d)
  PROVE  Changes(q, d)
<1>0. /\ d \in Depths /\ call[q][d] \in CallRecord /\ call[q][d].node \in Nodes
      /\ applied \in [Requests -> SUBSET Nodes] /\ Idle.pc = "none"
      /\ (successor[call[q][d].node] = call[q][d].node <=> call[q][d].node = Root)
  <2>1. d \in Depths /\ call[q][d] \in CallRecord
    BY Numbers, CallTyped
  <2>2. call[q][d].node \in Nodes
    BY <2>1 DEF CallRecord
  <2> QED
    BY <2>1, <2>2, PathToRoot DEF TypeOK, Idle
<1>1. applied' = [applied EXCEPT ![q] = applied'[q]] /\ Same
  BY <1>0 DEF CallStep, Starts, Finds, Asks, Answers, Resumes, Passes, Gets
<1>2. CASE Starts(q, d)
  BY <1>1, <1>2, MoveFields DEF Starts, Changes, GoesOn
<1>3. CASE Finds(q, d)
  BY <1>1, <1>3, MoveFields DEF Finds, Changes, GoesOn
<1>4. ASSUME NEW label \in Waiting, Asks(q, d, label)
      PROVE  Changes(q, d)
  <2>1. /\ call[q][d].pc \in {"start", "remove"} /\ call[q][d].node # Root
        /\ call[q][d].op = IF label = "probe" THEN "DELETE" ELSE AskedFor[label]
    BY <1>0, <1>4 DEF Asks, LabelOfOp, AskedFor, Waiting
  <2>2. /\ call'[q][d].pc = label /\ Kept(q, d) /\ Only(q, d) /\ answer' = answer
        /\ \/ call'[q][d + 1] = Sent(q, d, AskedFor[label]) /\ failed' = failed
           \/ call'[q][d + 1] = call[q][d + 1] /\ failed' = [failed EXCEPT ![q] = TRUE]
    BY <1>4, MoveFields DEF Asks
  <2> QED
    BY <1>1, <1>4, <2>1, <2>2 DEF Changes, Waits
<1>5. ASSUME NEW r \in Results, Answers(q, d, r)
      PROVE  Changes(q, d)
  <2>1. Ends(q, d, r) /\ call'[q][d + 1] = call[q][d + 1] /\ Only(q, d)
    BY <1>5, ReturnFields DEF Answers
  <2>2. call[q][d].pc \in {"start", "rollback", "remove"} /\ failed' = failed
    BY <1>5 DEF Answers
  <2> QED
    BY <1>1, <2>1, <2>2 DEF Changes, Replies
<1>6. ASSUME NEW r \in Results, NEW b \in CallRecord, Gets(q, d, r, b),
             call'[q][d + 1] = b
      PROVE  /\ Released(q, d) /\ call[q][d].pc \in Waiting
             /\ call[q][d].pc \notin {"none", "done"} /\ (r # Missing => Found(q, d))
  BY <1>0, <1>6 DEF Gets, Released, Found, Waiting
<1>7. ASSUME NEW r \in Results, NEW b \in CallRecord, Resumes(q, d, r, b)
      PROVE  Changes(q, d)
  <2>1. /\ call'[q][d + 1] = b /\ Only(q, d) /\ Kept(q, d) /\ answer' = answer
        /\ \/ call[q][d].pc = "replicate" /\ call'[q][d].pc = "rollback"
           \/ call[q][d].pc = "probe" /\ call'[q][d].pc = "remove" /\ r # Missing
    BY <1>7, MoveFields DEF Resumes
  <2>2. /\ Released(q, d) /\ call[q][d].pc \in Waiting
        /\ call[q][d].pc \notin {"none", "done"} /\ (r # Missing => Found(q, d))
    BY <1>6, <1>7, <2>1 DEF Resumes
  <2> QED
    BY <1>1, <2>1, <2>2 DEF Changes, Continues
<1>8. ASSUME NEW r \in Results, NEW s \in Results, NEW b \in CallRecord,
             Passes(q, d, r, b, s)
      PROVE  Changes(q, d)
  <2>1. call'[q][d + 1] = b /\ Only(q, d) /\ Ends(q, d, s)
    BY <1>8, ReturnFields DEF Passes
  <2>2. /\ Released(q, d) /\ call[q][d].pc \in Waiting
        /\ call[q][d].pc \notin {"none", "done"} /\ (r # Missing => Found(q, d))
    BY <1>6, <1>8, <2>1 DEF Passes
  <2>3. call[q][d].pc = "fallback" /\ s # Missing => Found(q, d)
    BY <1>8, <2>2 DEF Passes
  <2> QED
    BY <1>1, <2>1, <2>2, <2>3 DEF Changes, Continues
<1> QED
  BY <1>2, <1>3, <1>4, <1>5, <1>7, <1>8 DEF CallStep, Results

(* The steps of calls keep the invariant. *)
LEMMA CallsKept ==
  ASSUME CallInv, TypeOK', NEW q \in Requests, NEW d \in 0 .. MaxNode, Changes(q, d)
  PROVE  CallInv'
<1> USE DEF CallInv
<1>0. /\ d \in Nat /\ d \in Depths /\ d + 1 \in Depths /\ d + 1 # d
      /\ \A p \in Requests, e \in Depths :
           call[p][e] \in CallRecord /\ call'[p][e] \in CallRecord
      /\ \A e \in Depths : e \in Nat /\ (e > 0 => e - 1 \in 0 .. MaxNode /\ (e - 1) + 1 = e)
      /\ \A e \in 0 .. MaxNode : e \in Depths /\ e + 1 \in Depths
      /\ Nodes \subseteq Nat /\ MaxNode \in Nat
      /\ successor \in [Nodes -> Nodes] /\ failed \in [Requests -> BOOLEAN]
      /\ answer \in Answered
  <2>1. \A p \in Requests, e \in Depths :
          call[p][e] \in CallRecord /\ call'[p][e] \in CallRecord
    BY CallTyped DEF TypeOK, CallRecord
  <2>2. /\ successor \in [Nodes -> Nodes] /\ failed \in [Requests -> BOOLEAN]
        /\ answer \in Answered
    BY DEF TypeOK, Answered
  <2> QED
    BY <2>1, <2>2, Numbers
<1>1. /\ successor' = successor /\ op' = op /\ entry' = entry /\ before' = before
      /\ Joined' /\ \A p \in Requests : failed[p] => failed'[p]
  BY <1>0 DEF Changes, Same, history, Joined, GoesOn, Waits, Replies, Continues, Released
<1>2. \A p \in Requests, e \in Depths : ~(p = q /\ e \in {d, d + 1}) => call'[p][e] = call[p][e]
  BY DEF Changes, Only
<1>3. /\ call'[q][d].pc = "none" \/ Kept(q, d)
      /\ \/ call'[q][d + 1] = call[q][d + 1] \/ call'[q][d + 1].pc = "none"
         \/ /\ call'[q][d + 1] = Sent(q, d, AskedFor[call'[q][d].pc])
            /\ call'[q][d].pc \in Waiting /\ call[q][d].node # Root
            /\ call[q][d].op = IF call'[q][d].pc = "probe" THEN "DELETE"
                               ELSE AskedFor[call'[q][d].pc]
      /\ Active(q, d)
  BY DEF Changes, GoesOn, Waits, Replies, Ends, Continues, Released, Active
<1>4a. call[q][d].pc \in {"queued", "start", "remove"} =>
         \A e \in Depths : e > d => call[q][e].pc = "none"
  BY <1>0 DEF NothingBelow, Active
<1>4b. call'[q][d + 1] # call[q][d + 1] =>
         /\ call[q][d + 1].pc \in {"none", "done"}
         /\ call'[q][d + 1].pc # "none" => \A e \in Depths : e > d => call[q][e].pc = "none"
  BY <1>0, <1>4a DEF Changes, GoesOn, Waits, Replies, Continues, Released
<1>4e. ASSUME call[q][d].pc \in {"fallback", "probe"}, Found(q, d), Released(q, d),
              NEW e \in Depths, e > d
       PROVE  call'[q][e].pc = "none"
  <2>1. call[q][d + 1].op = "GET"
    BY <1>0, <1>4e DEF WaitsForReplica, Found, Active, AskedFor, Waiting
  <2>2. e > d + 1 => call[q][e].pc = "none"
    BY <1>0, <1>4e, <2>1 DEF NothingBelow, Found, Active
  <2>3. call'[q][d + 1].pc = "none"
    BY <1>4e DEF Found, Released
  <2>4. e > d + 1 => call'[q][e] = call[q][e]
    BY <1>0, <1>2
  <2>5. e = d + 1 \/ e > d + 1
    <3>1. e \in Nat /\ d \in Nat
      BY <1>0
    <3> QED
      BY <1>4e, <3>1
  <2> QED
    BY <2>2, <2>3, <2>4, <2>5
<1>4c. call'[q][d].pc \in {"start", "remove"} =>
         \A e \in Depths : e > d => call'[q][e].pc = "none"
  <2> SUFFICES ASSUME call'[q][d].pc \in {"start", "remove"}, NEW e \in Depths, e > d
               PROVE  call'[q][e].pc = "none"
    OBVIOUS
  <2>1. CASE GoesOn(q, d)
    <3>1. call[q][e].pc = "none"
      BY <1>4a, <2>1 DEF GoesOn
    <3>2. call'[q][e] = call[q][e]
      <4>1. e # d
        BY <1>0
      <4> QED
        BY <1>2, <2>1, <4>1 DEF GoesOn
    <3> QED
      BY <3>1, <3>2
  <2>2. CASE Continues(q, d)
    BY <1>0, <1>2, <1>4e, <2>2 DEF Continues, Ends, Found
  <2> QED
    BY <2>1, <2>2 DEF Changes, Waits, Replies, Ends, Waiting
<1>4d. call'[q][d].pc = "done" /\ call'[q][d].op = "GET" /\ call'[q][d].result # Missing =>
         \A e \in Depths : e > d => call'[q][e].pc = "none"
  <2> SUFFICES ASSUME call'[q][d].pc = "done", call'[q][d].op = "GET",
                      call'[q][d].result # Missing, NEW e \in Depths, e > d
               PROVE  call'[q][e].pc = "none"
    OBVIOUS
  <2>1. PICK r \in Results : /\ Ends(q, d, r) /\ r # Missing /\ call[q][d].op = "GET"
                             /\ \/ Replies(q, d)
                                \/ call[q][d].pc = "fallback" /\ Released(q, d) /\ Found(q, d)
    <3>1. CASE Replies(q, d)
      BY <3>1 DEF Replies, Ends, Kept, Idle
    <3>2. CASE Continues(q, d)
      BY <1>0, <3>2 DEF Continues, Ends, Kept, Idle, LabelOfOp, Waiting
    <3> QED
      BY <3>1, <3>2 DEF Changes, GoesOn, Waits, Waiting
  <2>2. CASE Replies(q, d)
    <3>1. call[q][d].pc \in {"start", "remove"}
      BY <1>0, <2>1, <2>2 DEF Replies, LabelOfOp
    <3> QED
      BY <1>0, <1>2, <1>4a, <2>2, <3>1 DEF Replies
  <2>3. CASE call[q][d].pc = "fallback" /\ Released(q, d) /\ Found(q, d)
    BY <1>0, <1>2, <1>4e, <2>3
  <2> QED
    BY <2>1, <2>2, <2>3
<1>4. LabelOfOp'
  <2> DEFINE Good(c) == /\ c.pc \in {"replicate", "rollback"} => c.op = "PUT"
                        /\ c.pc = "fallback" => c.op = "GET"
                        /\ c.pc \in {"probe", "remove", "unreplicate"} => c.op = "DELETE"
  <2>0. \A p \in Requests, e \in Depths : Good(call[p][e])
    BY DEF LabelOfOp
  <2>1. Good(call'[q][d])
    <3>1. CASE GoesOn(q, d)
      BY <3>1 DEF GoesOn, Kept
    <3>2. CASE Waits(q, d)
      BY <3>2 DEF Waits, Kept, AskedFor, Waiting
    <3>3. CASE Replies(q, d)
      BY <3>3 DEF Replies, Ends
    <3>4. CASE Continues(q, d)
      BY <1>0, <2>0, <3>4 DEF Continues, Ends, Kept
    <3> QED
      BY <3>1, <3>2, <3>3, <3>4 DEF Changes
  <2>2. Good(call'[q][d + 1])
    <3>1. CASE call'[q][d + 1] = Sent(q, d, AskedFor[call'[q][d].pc])
      BY <3>1 DEF Sent
    <3> QED
      BY <1>0, <1>3, <2>0, <3>1
  <2>3. \A p \in Requests, e \in Depths : Good(call'[p][e])
    BY <1>2, <2>0, <2>1, <2>2
  <2> QED
    BY <2>3 DEF LabelOfOp
<1>5. NotBegun'
  <2>1. op[q] # "none"
    BY <1>0, <1>3 DEF NotBegun
  <2>2. \A p \in Requests : p # q =>
          answer'[p] = answer[p] /\ failed'[p] = failed[p] /\ applied'[p] = applied[p]
    BY <1>0 DEF Changes, GoesOn, Waits, Replies, Ends, Continues, Released, TypeOK, Answered
  <2> QED
    BY <1>0, <1>1, <1>2, <2>1, <2>2 DEF NotBegun, Active
<1>6. OpOfRequest'
  BY <1>0, <1>1, <1>2, <1>3 DEF OpOfRequest, Active, Kept, Sent, AskedFor, Waiting, Changes
<1>7. DoneIsAwaited'
  <2> SUFFICES ASSUME NEW p \in Requests, NEW e \in Depths, call'[p][e].pc = "done"
               PROVE  e > 0 /\ call'[p][e - 1].pc \in Waiting
    BY DEF DoneIsAwaited
  <2>1. CASE p = q /\ e = d
    <3>1. \E r \in Results : Ends(q, d, r)
      BY <2>1 DEF Changes, GoesOn, Waits, Replies, Continues, Waiting
    <3>2. d > 0 /\ call[q][d - 1].pc \in Waiting
      BY <2>1, <3>1 DEF Ends
    <3>3. call'[q][d - 1] = call[q][d - 1]
      BY <1>0, <1>2, <3>2
    <3> QED
      BY <2>1, <3>2, <3>3
  <2>2. CASE p = q /\ e = d + 1
    <3>1. call[q][d + 1].pc = "done" /\ call'[q][d + 1] = call[q][d + 1]
      BY <1>3, <2>2 DEF Sent
    <3>2. call[q][d].pc \in Waiting
      BY <1>0, <3>1 DEF DoneIsAwaited
    <3>3. Released(q, d)
      BY <3>2 DEF Changes, GoesOn, Waits, Replies, Continues, Waiting
    <3> QED
      BY <2>2, <3>1, <3>3 DEF Released
  <2>3. CASE ~(p = q /\ e \in {d, d + 1})
    <3>1. call[p][e].pc = "done" /\ e > 0 /\ call[p][e - 1].pc \in Waiting
      BY <1>2, <2>3 DEF DoneIsAwaited
    <3>2. e - 1 \in Depths /\ ~(p = q /\ e - 1 = d)
      BY <1>0, <2>3, <3>1
    <3>3. CASE p = q /\ e - 1 = d + 1
      BY <1>4b, <3>1, <3>3 DEF Waiting
    <3>4. CASE ~(p = q /\ e - 1 = d + 1)
      BY <1>2, <3>1, <3>2, <3>4
    <3> QED
      BY <3>1, <3>3, <3>4
  <2> QED
    BY <2>1, <2>2, <2>3
<1>8. Nearer'
  <2>1. call[q][d].node \in Nodes /\ call[q][d].node + d <= MaxNode
    BY <1>0, <1>3 DEF Nearer, CallRecord
  <2>2. call[q][d].node # Root =>
          successor[call[q][d].node] \in Nodes /\ successor[call[q][d].node] < call[q][d].node
    BY <2>1, PathToRoot
  <2>3. ASSUME call[q][d].node # Root
        PROVE  successor[call[q][d].node] + (d + 1) <= MaxNode
    <3>1. /\ call[q][d].node \in Nat /\ successor[call[q][d].node] \in Nat
          /\ successor[call[q][d].node] < call[q][d].node
      BY <1>0, <2>1, <2>2, <2>3
    <3>2. d \in Nat /\ MaxNode \in Nat
      BY <1>0
    <3> QED
      BY <2>1, <3>1, <3>2
  <2> SUFFICES ASSUME NEW p \in Requests, NEW e \in Depths, call'[p][e].pc # "none"
               PROVE  call'[p][e].node + e <= MaxNode
    BY DEF Nearer, Active
  <2>4. CASE p = q /\ e = d
    BY <1>3, <2>1, <2>4 DEF Kept
  <2>5. CASE p = q /\ e = d + 1
    <3>1. CASE call'[q][d + 1] = call[q][d + 1]
      BY <1>0, <2>5, <3>1 DEF Nearer, Active
    <3>2. CASE /\ call'[q][d + 1] = Sent(q, d, AskedFor[call'[q][d].pc])
               /\ call[q][d].node # Root
      BY <2>3, <2>5, <3>2 DEF Sent
    <3> QED
      BY <1>3, <2>5, <3>1, <3>2
  <2>6. CASE ~(p = q /\ e \in {d, d + 1})
    BY <1>2, <2>6 DEF Nearer, Active
  <2> QED
    BY <2>4, <2>5, <2>6
<1>9. RootIsLast'
  <2> DEFINE Good(c) == c.pc \in Waiting \cup {"rollback"} => c.node # Root
  <2>0. \A p \in Requests, e \in Depths : Good(call[p][e])
    BY DEF RootIsLast
  <2>1. Good(call'[q][d])
    <3>1. CASE GoesOn(q, d)
      BY <3>1 DEF GoesOn, Waiting
    <3>2. CASE Waits(q, d)
      BY <3>2 DEF Waits, Kept
    <3>3. CASE Replies(q, d)
      BY <3>3 DEF Replies, Ends, Waiting
    <3>4. CASE Continues(q, d)
      BY <1>0, <2>0, <3>4 DEF Continues, Ends, Kept, Waiting
    <3> QED
      BY <3>1, <3>2, <3>3, <3>4 DEF Changes
  <2>2. Good(call'[q][d + 1])
    <3>1. CASE call'[q][d + 1] = Sent(q, d, AskedFor[call'[q][d].pc])
      BY <3>1 DEF Sent, Waiting
    <3>2. CASE call'[q][d + 1].pc = "none"
      BY <3>2 DEF Waiting
    <3> QED
      BY <1>0, <1>3, <2>0, <3>1, <3>2
  <2>3. \A p \in Requests, e \in Depths : Good(call'[p][e])
    BY <1>2, <2>0, <2>1, <2>2
  <2> QED
    BY <2>3 DEF RootIsLast
<1>10. NothingBelow'
  <2> SUFFICES ASSUME NEW p \in Requests, NEW e \in Depths, NEW f \in Depths, f > e,
                      \/ call'[p][e].pc \in {"queued", "start", "remove"}
                      \/ /\ call'[p][e].pc = "done" /\ call'[p][e].op = "GET"
                         /\ call'[p][e].result # Missing
               PROVE  call'[p][f].pc = "none"
    BY DEF NothingBelow, Active
  <2>1. CASE p = q /\ e = d
    <3>1. call'[q][d].pc # "queued"
      BY DEF Changes, GoesOn, Waits, Replies, Ends, Continues, Waiting
    <3> QED
      BY <1>4c, <1>4d, <2>1, <3>1
  <2>2. CASE p = q /\ e = d + 1
    <3>1. call'[q][f] = call[q][f]
      BY <1>0, <1>2, <2>2
    <3>2. CASE call'[q][d + 1] = call[q][d + 1]
      BY <1>0, <2>2, <3>1, <3>2 DEF NothingBelow, Active
    <3>3. CASE call'[q][d + 1] # call[q][d + 1]
      BY <1>0, <1>4b, <2>2, <3>1, <3>3
    <3> QED
      BY <3>2, <3>3
  <2>3. CASE ~(p = q /\ e \in {d, d + 1})
    <3>1. call[p][f].pc = "none"
      BY <1>0, <1>2, <2>3 DEF NothingBelow, Active
    <3>2. CASE p = q /\ f \in {d, d + 1}
      <4>1. e \in Nat /\ d \in Nat
        BY <1>0
      <4>2. d > e
        BY <2>3, <3>2, <4>1
      <4>3. call[q][d].pc = "none"
        BY <1>0, <1>2, <2>3, <3>2, <4>2 DEF NothingBelow, Active
      <4> QED
        BY <1>3, <4>3 DEF Active
    <3>3. CASE ~(p = q /\ f \in {d, d + 1})
      BY <1>2, <3>1, <3>3
    <3> QED
      BY <3>2, <3>3
  <2> QED
    BY <2>1, <2>2, <2>3
<1>11. WaitsForReplica'
  <2> SUFFICES ASSUME NEW p \in Requests, NEW e \in 0 .. MaxNode,
                      call'[p][e].pc \in Waiting, call'[p][e + 1].pc # "none"
               PROVE  /\ call'[p][e + 1].node = successor[call'[p][e].node]
                      /\ call'[p][e + 1].op = AskedFor[call'[p][e].pc]
    BY <1>1 DEF WaitsForReplica, Active
  <2>1. CASE p = q /\ e = d
    <3>1. Waits(q, d)
      BY <2>1 DEF Changes, GoesOn, Replies, Ends, Continues, Waiting
    <3>2. call[q][d + 1].pc = "none"
      BY <1>0, <1>4a, <3>1 DEF Waits
    <3> QED
      BY <2>1, <3>1, <3>2 DEF Waits, Sent, Kept
  <2>2. CASE p = q /\ e = d + 1
    <3>1. call'[q][d + 1] = call[q][d + 1]
      BY <1>3, <2>2 DEF Sent, Waiting
    <3>2. call'[q][e + 1] = call[q][e + 1]
      BY <1>0, <1>2, <2>2
    <3> QED
      BY <2>2, <3>1, <3>2 DEF WaitsForReplica, Active
  <2>3. CASE p = q /\ e + 1 = d
    <3>1. call'[q][e] = call[q][e]
      BY <1>0, <1>2, <2>3
    <3>2. Kept(q, d)
      BY <1>3, <2>3
    <3> QED
      BY <1>3, <2>3, <3>1, <3>2 DEF WaitsForReplica, Active, Kept
  <2>4. CASE ~(p = q /\ (e \in {d, d + 1} \/ e + 1 = d))
    <3>0. e \in Depths /\ e + 1 \in Depths /\ (e # d => e + 1 # d + 1)
      BY <1>0
    <3>1. call'[p][e] = call[p][e] /\ call'[p][e + 1] = call[p][e + 1]
      BY <1>2, <2>4, <3>0
    <3> QED
      BY <3>1 DEF WaitsForReplica, Active
  <2> QED
    BY <2>1, <2>2, <2>3, <2>4
<1>12. LostIsFailed'
  <2> SUFFICES ASSUME NEW p \in Requests, NEW e \in 0 .. MaxNode,
                      call'[p][e].pc \in Waiting, call'[p][e + 1].pc = "none"
               PROVE  failed'[p]
    BY DEF LostIsFailed, Active
  <2>1. CASE p = q /\ e = d
    <3>1. Waits(q, d)
      BY <2>1 DEF Changes, GoesOn, Replies, Ends, Continues, Waiting
    <3> QED
      BY <1>0, <2>1, <3>1 DEF Waits, Sent
  <2>2. CASE p = q /\ e = d + 1
    <3>1. call'[q][d + 1] = call[q][d + 1]
      BY <1>3, <2>2 DEF Sent, Waiting
    <3>2. call'[q][e + 1] = call[q][e + 1]
      BY <1>0, <1>2, <2>2
    <3> QED
      BY <1>1, <2>2, <3>1, <3>2 DEF LostIsFailed, Active
  <2>3. CASE p = q /\ e + 1 = d
    <3>1. call'[q][e] = call[q][e] /\ e = d - 1 /\ d > 0
      BY <1>0, <1>2, <2>3
    <3> QED
      BY <2>3, <3>1 DEF Changes, GoesOn, Waits, Replies, Ends, Continues, Waiting
  <2>4. CASE ~(p = q /\ (e \in {d, d + 1} \/ e + 1 = d))
    <3>0. e \in Depths /\ e + 1 \in Depths /\ (e # d => e + 1 # d + 1)
      BY <1>0
    <3>1. call'[p][e] = call[p][e] /\ call'[p][e + 1] = call[p][e + 1]
      BY <1>2, <2>4, <3>0
    <3> QED
      BY <1>1, <3>1 DEF LostIsFailed, Active
  <2> QED
    BY <2>1, <2>2, <2>3, <2>4
<1>13. OnPath'
  <2>1. call[q][d].node \in Nodes /\ call[q][d].node \in PathOver(successor, entry[q])
    BY <1>0, <1>3 DEF OnPath, Path, CallRecord
  <2>2. successor[call[q][d].node] \in PathOver(successor, entry[q])
    <3>1. entry[q] \in Nodes /\ successor \in [Nodes -> Nodes]
      BY DEF TypeOK
    <3> QED
      BY <2>1, <3>1, PathFacts
  <2> HIDE DEF CallInv
  <2>3. OnPath
    BY DEF CallInv
  <2> QED
    BY <1>0, <1>1, <1>2, <1>3, <2>1, <2>2, <2>3 DEF OnPath, Path, Active, Kept, Sent
<1>14. BeforeSettled'
  <2> SUFFICES ASSUME NEW g \in Requests, NEW p \in before[g]
               PROVE  Settled(p)'
    BY <1>1 DEF BeforeSettled
  <2>1. p \in Requests /\ op[p] # "none" /\ \A e \in Depths : call[p][e].pc = "none"
    BY DEF BeforeSettled, Settled, TypeOK
  <2>2. p # q
    BY <1>0, <1>3, <2>1 DEF Active
  <2> QED
    BY <1>1, <1>2, <2>1, <2>2 DEF Settled
<1> QED
  BY <1>1, <1>4, <1>5, <1>6, <1>7, <1>8, <1>9, <1>10, <1>11, <1>12, <1>13, <1>14

(* A new request keeps the invariant of the calls. *)
LEMMA BeginKeepsCalls ==
  ASSUME CallInv, TypeOK', NEW q \in Requests, NEW o \in Ops, NEW n \in Nodes,
         Begun(q, o, n)
  PROVE  CallInv'
<1> USE DEF CallInv
<1>0. /\ 0 \in Depths /\ MaxNode \in Nat /\ Nodes = 0 .. MaxNode
      /\ \A p \in Requests, e \in Depths :
           call[p][e] \in CallRecord /\ call'[p][e] \in CallRecord
      /\ \A e \in Depths : e \in Nat /\ (e > 0 => e - 1 \in 0 .. MaxNode /\ (e - 1) + 1 = e)
      /\ \A e \in 0 .. MaxNode : e \in Depths /\ e + 1 \in Depths /\ e + 1 # 0
  <2>1. MaxNode \in Nat
    BY Numbers
  <2>2. /\ 0 \in Depths /\ Nodes = 0 .. MaxNode
        /\ \A e \in Depths : e \in Nat /\ (e > 0 => e - 1 \in 0 .. MaxNode /\ (e - 1) + 1 = e)
        /\ \A e \in 0 .. MaxNode : e \in Depths /\ e + 1 \in Depths /\ e + 1 # 0
    BY <2>1 DEF Depths, Nodes
  <2>3. \A p \in Requests, e \in Depths :
          call[p][e] \in CallRecord /\ call'[p][e] \in CallRecord
    BY CallTyped DEF TypeOK, CallRecord
  <2> QED
    BY <2>1, <2>2, <2>3
<1>1. /\ op[q] = "none" /\ answer[q] = NoAnswer /\ ~failed[q] /\ applied[q] = {}
      /\ \A e \in Depths : call[q][e].pc = "none"
  BY DEF Begun, NotBegun, Active
<1>2. /\ successor' = successor /\ answer' = answer /\ failed' = failed /\ applied' = applied
      /\ op'[q] = o /\ entry'[q] = n /\ before'[q] = {p \in Requests : Settled(p)}
      /\ \A p \in Requests : p # q =>
           op'[p] = op[p] /\ entry'[p] = entry[p] /\ before'[p] = before[p]
      /\ Joined' /\ o # "none"
  BY DEF Begun, TypeOK, Joined, Ops
<1>3. /\ call'[q][0].pc = "queued" /\ call'[q][0].op = o /\ call'[q][0].node = n
      /\ \A e \in Depths : e # 0 => call'[q][e].pc = "none"
      /\ \A p \in Requests, e \in Depths : p # q => call'[p][e] = call[p][e]
  <2>1. /\ call'[q][0] = [node |-> n, op |-> o, pc |-> "queued", result |-> Missing]
        /\ \A p \in Requests, e \in Depths : ~(p = q /\ e = 0) => call'[p][e] = call[p][e]
    BY DEF Begun
  <2> QED
    BY <1>1, <2>1
<1>3a. \A e \in Depths :
         call'[q][e].pc \in {"queued", "none"} /\ call'[q][e].pc \notin Waiting
  BY <1>0, <1>3 DEF Waiting
<1>4. LabelOfOp'
  <2> SUFFICES ASSUME NEW p \in Requests, NEW e \in Depths
               PROVE  LET c == call'[p][e]
                      IN  /\ c.pc \in {"replicate", "rollback"} => c.op = "PUT"
                          /\ c.pc = "fallback" => c.op = "GET"
                          /\ c.pc \in {"probe", "remove", "unreplicate"} => c.op = "DELETE"
    BY DEF LabelOfOp
  <2>1. CASE p = q
    BY <1>3a, <2>1
  <2>2. CASE p # q
    BY <1>3, <2>2 DEF LabelOfOp
  <2> QED
    BY <2>1, <2>2
<1>5. NotBegun'
  BY <1>2, <1>3 DEF NotBegun, Active
<1>6. OpOfRequest'
  BY <1>0, <1>2, <1>3 DEF OpOfRequest, Active, Ops
<1>7. DoneIsAwaited'
  <2> SUFFICES ASSUME NEW p \in Requests, NEW e \in Depths, call'[p][e].pc = "done"
               PROVE  e > 0 /\ call'[p][e - 1].pc \in Waiting
    BY DEF DoneIsAwaited
  <2>1. p # q
    BY <1>3a
  <2>2. e > 0 /\ call[p][e - 1].pc \in Waiting
    BY <1>3, <2>1 DEF DoneIsAwaited
  <2>3. e - 1 \in Depths
    BY <1>0, <2>2
  <2> QED
    BY <1>3, <2>1, <2>2, <2>3
<1>8. Nearer'
  <2>1. n + 0 <= MaxNode
    BY <1>0
  <2> QED
    BY <1>0, <1>3, <2>1 DEF Nearer, Active
<1>9. RootIsLast'
  BY <1>3, <1>3a DEF RootIsLast
<1>10. NothingBelow'
  <2> SUFFICES ASSUME NEW p \in Requests, NEW d \in Depths, NEW e \in Depths, e > d,
                      \/ call'[p][d].pc \in {"queued", "start", "remove"}
                      \/ /\ call'[p][d].pc = "done" /\ call'[p][d].op = "GET"
                         /\ call'[p][d].result # Missing
               PROVE  call'[p][e].pc = "none"
    BY DEF NothingBelow, Active
  <2>1. e # 0
    BY <1>0
  <2>2. CASE p = q
    BY <1>3, <2>1, <2>2
  <2>3. CASE p # q
    BY <1>3, <2>3 DEF NothingBelow, Active
  <2> QED
    BY <2>2, <2>3
<1>11. WaitsForReplica'
  <2> SUFFICES ASSUME NEW p \in Requests, NEW e \in 0 .. MaxNode,
                      call'[p][e].pc \in Waiting, call'[p][e + 1].pc # "none"
               PROVE  /\ call'[p][e + 1].node = successor[call'[p][e].node]
                      /\ call'[p][e + 1].op = AskedFor[call'[p][e].pc]
    BY <1>2 DEF WaitsForReplica, Active
  <2>1. e \in Depths /\ e + 1 \in Depths
    BY <1>0
  <2>2. p # q
    BY <1>3a, <2>1
  <2>3. call'[p][e] = call[p][e] /\ call'[p][e + 1] = call[p][e + 1]
    BY <1>3, <2>1, <2>2
  <2> QED
    BY <2>3 DEF WaitsForReplica, Active
<1>12. LostIsFailed'
  <2> SUFFICES ASSUME NEW p \in Requests, NEW e \in 0 .. MaxNode,
                      call'[p][e].pc \in Waiting, call'[p][e + 1].pc = "none"
               PROVE  failed'[p]
    BY DEF LostIsFailed, Active
  <2>1. e \in Depths /\ e + 1 \in Depths /\ p # q
    BY <1>0, <1>3a
  <2>2. call'[p][e] = call[p][e] /\ call'[p][e + 1] = call[p][e + 1]
    BY <1>3, <2>1
  <2> QED
    BY <1>2, <2>2 DEF LostIsFailed, Active
<1>13. OnPath'
  <2>1. successor \in [Nodes -> Nodes]
    BY DEF TypeOK
  <2>2. n \in PathOver(successor, n)
    BY <2>1, PathFacts
  <2> QED
    BY <1>2, <1>3, <2>2 DEF OnPath, Path, Active
<1>14. BeforeSettled'
  <2>1. \A p \in Requests : Settled(p) => p # q /\ Settled(p)'
    BY <1>1, <1>2, <1>3 DEF Settled
  <2>2. \A g \in Requests : before[g] \subseteq Requests
    BY DEF TypeOK
  <2> QED
    BY <1>2, <2>1, <2>2 DEF BeforeSettled
<1> QED
  BY <1>2, <1>4, <1>5, <1>6, <1>7, <1>8, <1>9, <1>10, <1>11, <1>12, <1>13, <1>14

(* A restart loses calls but keeps the invariant of the others. *)
LEMMA RestartKeepsCalls ==
  ASSUME CallInv, TypeOK', NEW n \in Nodes, Restarted(n)
  PROVE  CallInv'
<1> USE DEF CallInv
<1> DEFINE lost(q, d) == call[q][d].node = n /\ call[q][d].pc \notin {"none", "done"}
<1>0. /\ 0 \in Depths
      /\ \A e \in Depths : e \in Nat /\ (e > 0 => e - 1 \in 0 .. MaxNode /\ (e - 1) + 1 = e)
      /\ \A e \in 0 .. MaxNode : e \in Depths /\ e + 1 \in Depths /\ e + 1 > 0 /\ (e + 1) - 1 = e
  BY Numbers DEF Depths
<1>1. /\ successor' = successor /\ op' = op /\ entry' = entry /\ before' = before
      /\ applied' = applied /\ Joined'
  BY DEF Restarted, history, Joined
<1>2. \A p \in Requests, e \in Depths :
        \/ /\ call'[p][e] = Idle /\ call'[p][e].pc = "none"
           /\ lost(p, e) \/ (call[p][e].pc = "done" /\ lost(p, e - 1))
        \/ /\ call'[p][e] = call[p][e]
           /\ ~lost(p, e) /\ ~(call[p][e].pc = "done" /\ lost(p, e - 1))
  BY DEF Restarted, Idle
<1>3. \A p \in Requests :
        /\ failed'[p] = (failed[p] \/ \E e \in Depths : lost(p, e))
        /\ answer'[p] = IF lost(p, 0) THEN Missing ELSE answer[p]
  BY DEF Restarted
<1> HIDE DEF lost
<1>4. \A p \in Requests, e \in Depths :
        call'[p][e] = call[p][e] \/ call'[p][e].pc = "none"
  BY <1>2
<1>5. LabelOfOp'
  BY <1>4 DEF LabelOfOp
<1>6. NotBegun'
  <2> SUFFICES ASSUME NEW p \in Requests, op[p] = "none"
               PROVE  /\ answer'[p] = NoAnswer /\ ~failed'[p] /\ applied'[p] = {}
                      /\ \A e \in Depths : call'[p][e].pc = "none"
    BY <1>1 DEF NotBegun, Active
  <2>1. \A e \in Depths : call[p][e].pc = "none" /\ ~lost(p, e)
    BY DEF NotBegun, Active, lost
  <2> QED
    BY <1>0, <1>1, <1>3, <1>4, <2>1 DEF NotBegun
<1>7. OpOfRequest'
  BY <1>1, <1>4 DEF OpOfRequest, Active
<1>8. DoneIsAwaited'
  <2> SUFFICES ASSUME NEW p \in Requests, NEW e \in Depths, call'[p][e].pc = "done"
               PROVE  e > 0 /\ call'[p][e - 1].pc \in Waiting
    BY DEF DoneIsAwaited
  <2>1. call[p][e].pc = "done" /\ ~lost(p, e - 1)
    BY <1>2
  <2>2. e > 0 /\ call[p][e - 1].pc \in Waiting
    BY <2>1 DEF DoneIsAwaited
  <2>3. e - 1 \in Depths
    BY <1>0, <2>2
  <2>4. call'[p][e - 1] = call[p][e - 1]
    BY <1>2, <2>1, <2>2, <2>3 DEF Waiting
  <2> QED
    BY <2>2, <2>4
<1>9. Nearer'
  BY <1>4 DEF Nearer, Active
<1>10. RootIsLast'
  BY <1>4 DEF RootIsLast, Waiting
<1>11. NothingBelow'
  BY <1>4 DEF NothingBelow, Active
<1>12. WaitsForReplica'
  BY <1>0, <1>1, <1>4 DEF WaitsForReplica, Active, Waiting
<1>13. LostIsFailed'
  <2> SUFFICES ASSUME NEW p \in Requests, NEW e \in 0 .. MaxNode,
                      call'[p][e].pc \in Waiting, call'[p][e + 1].pc = "none"
               PROVE  failed'[p]
    BY DEF LostIsFailed, Active
  <2>1. call'[p][e] = call[p][e] /\ ~lost(p, e)
    BY <1>0, <1>2 DEF Waiting
  <2>2. CASE call[p][e + 1].pc = "none"
    BY <1>3, <2>1, <2>2 DEF LostIsFailed, Active
  <2>3. CASE call[p][e + 1].pc # "none"
    <3>1. lost(p, e + 1) \/ lost(p, (e + 1) - 1)
      BY <1>0, <1>2, <2>3
    <3>2. (e + 1) - 1 = e /\ e + 1 \in Depths
      BY <1>0
    <3>3. lost(p, e + 1)
      BY <2>1, <3>1, <3>2
    <3> QED
      BY <1>3, <3>2, <3>3
  <2> QED
    BY <2>2, <2>3
<1>14. OnPath'
  BY <1>1, <1>4 DEF OnPath, Path, Active
<1>15. BeforeSettled'
  <2>1. \A p \in Requests : Settled(p) => Settled(p)'
    BY <1>1, <1>4 DEF Settled
  <2>2. \A g \in Requests : before[g] \subseteq Requests
    BY DEF TypeOK
  <2> QED
    BY <1>1, <2>1, <2>2 DEF BeforeSettled
<1> QED
  BY <1>1, <1>5, <1>6, <1>7, <1>8, <1>9, <1>10, <1>11, <1>12, <1>13, <1>14, <1>15

(* The invariant of the calls holds initially. *)
LEMMA CallsInit == Init => CallInv
<1> SUFFICES ASSUME Init
             PROVE  CallInv
  OBVIOUS
<1>1. TypeOK /\ Joined
  BY TypeInit
<1>2. \A q \in Requests, d \in Depths : call[q][d].pc = "none"
  BY DEF Init, Idle
<1>3. \A q \in Requests : op[q] = "none" /\ answer[q] = NoAnswer /\ ~failed[q]
                          /\ applied[q] = {} /\ before[q] = {}
  BY DEF Init
<1>4. \A d \in 0 .. MaxNode : d \in Depths
  BY Numbers
<1> QED
  BY <1>1, <1>2, <1>3, <1>4
  DEF CallInv, LabelOfOp, NotBegun, OpOfRequest, DoneIsAwaited, Nearer, RootIsLast,
      NothingBelow, WaitsForReplica, LostIsFailed, OnPath, BeforeSettled, Active, Waiting

(* A step of the system is one of four kinds, and each keeps the invariant. *)
LEMMA CallsStep ==
  ASSUME CallInv, [Next]_vars
  PROVE  /\ CallInv'
         /\ \/ UNCHANGED vars
            \/ \E q \in Requests, o \in Ops, n \in Nodes : Begun(q, o, n)
            \/ \E q \in Requests, d \in 0 .. MaxNode : CallStep(q, d) /\ Changes(q, d)
            \/ \E n \in Nodes : Restarted(n)
<1>0. TypeOK /\ Joined /\ LabelOfOp /\ TypeOK'
  BY TypeStep DEF CallInv
<1>1. CASE UNCHANGED vars
  BY <1>1
  DEF CallInv, TypeOK, Joined, LabelOfOp, NotBegun, OpOfRequest, DoneIsAwaited, Nearer,
      RootIsLast, NothingBelow, WaitsForReplica, LostIsFailed, OnPath, Path, BeforeSettled,
      Settled, Active, vars, history
<1>2. ASSUME NEW q \in Requests, NEW o \in Ops, NEW n \in Nodes, Begin(q, o, n)
      PROVE  Begun(q, o, n) /\ CallInv'
  BY <1>0, <1>2, BeginTyped, BeginKeepsCalls
<1>3. ASSUME NEW q \in Requests, NEW d \in 0 .. MaxNode, Work(q, d) \/ TimeOut(q, d)
      PROVE  CallStep(q, d) /\ Changes(q, d) /\ CallInv'
  BY <1>0, <1>3, WorkSteps, StepChanges, CallsKept
<1>4. ASSUME NEW n \in Nodes, Restart(n)
      PROVE  Restarted(n) /\ CallInv'
  BY <1>0, <1>4, RestartTyped, RestartKeepsCalls
<1> QED
  BY <1>1, <1>2, <1>3, <1>4 DEF Next

(* The invariant of the calls holds in every reachable state. *)
LEMMA CallsInvariant == Spec => []CallInv
<1>1. CallInv /\ [Next]_vars => CallInv'
  BY CallsStep
<1> QED
  BY <1>1, CallsInit, PTL DEF Spec
-----------------------------------------------------------------------------
(* No deadlock of the pools.                                               *)

(* The call at the node nearest to the root can move: its pool is not full *)
(* of calls that wait, because these would wait for a node still nearer.   *)
LEMMA SomeCallMoves ==
  ASSUME CallInv
  PROVE  NoPoolDeadlock
<1> USE DEF CallInv
<1> DEFINE canMove(q, d) ==
             \/ call[q][d].pc = "queued" /\ Cardinality(Busy(call[q][d].node)) < Workers
             \/ call[q][d].pc \in InWorker \ Waiting
             \/ call[q][d].pc \in Waiting /\ call[q][d + 1].pc \in {"none", "done"}
           open(q, d) == call[q][d].pc \notin {"none", "done"}
<1>0. /\ Nodes \subseteq Nat /\ Root \in Nodes /\ MaxNode \in Nat
      /\ \A e \in Depths : e \in Nat /\ (e > 0 => e - 1 \in 0 .. MaxNode /\ (e - 1) + 1 = e)
      /\ \A e \in 0 .. MaxNode : e \in Depths /\ e + 1 \in Depths
      /\ \A p \in Requests, e \in Depths :
           call[p][e] \in CallRecord /\ call[p][e].node \in Nodes /\ call[p][e].pc \in Labels
  BY Numbers, CallTyped DEF CallRecord
<1>1. \A q \in Requests, d \in Depths : call[q][d].pc # "none" => d \in 0 .. MaxNode
  <2> SUFFICES ASSUME NEW q \in Requests, NEW d \in Depths, call[q][d].pc # "none"
               PROVE  d \in 0 .. MaxNode
    OBVIOUS
  <2>1. call[q][d].node + d <= MaxNode /\ call[q][d].node \in Nat /\ d \in Nat
    BY <1>0 DEF Nearer, Active
  <2> QED
    BY <1>0, <2>1
<1> SUFFICES ASSUME NEW q0 \in Requests, op[q0] # "none", ~Settled(q0),
                    \A q \in Requests : \A d \in 0 .. MaxNode : ~canMove(q, d)
             PROVE  FALSE
  BY DEF NoPoolDeadlock
<1>2. PICK d0 \in Depths : call[q0][d0].pc # "none"
  BY DEF Settled
<1> HIDE DEF canMove
<1>3. \E d \in Depths : open(q0, d)
  <2>1. CASE call[q0][d0].pc = "done"
    <3>1. d0 > 0 /\ call[q0][d0 - 1].pc \in Waiting
      BY <2>1 DEF DoneIsAwaited
    <3>2. d0 - 1 \in Depths /\ open(q0, d0 - 1)
      BY <1>0, <3>1 DEF Waiting
    <3> QED
      BY <3>2
  <2> QED
    BY <1>2, <2>1
<1> DEFINE T == {n \in Nodes : \E q \in Requests, d \in Depths : open(q, d) /\ call[q][d].node = n}
<1>4. PICK x \in T : \A y \in T : x <= y
  <2>1. T \subseteq Nat /\ T # {}
    BY <1>0, <1>3
  <2> HIDE DEF T
  <2> QED
    BY <2>1, LeastNumber
<1>5. \E q \in Requests, d \in Depths : call[q][d].pc \in InWorker /\ call[q][d].node = x
  <2>1. PICK q \in Requests, d \in Depths : open(q, d) /\ call[q][d].node = x
    BY <1>4
  <2>2. CASE call[q][d].pc = "queued"
    <3>1. ~(Cardinality(Busy(x)) < Workers)
      BY <1>1, <2>1, <2>2 DEF canMove
    <3>2. Busy(x) # {}
      <4>1. Workers \in Nat \ {0}
        BY RingAssumption
      <4>2. Cardinality({}) = 0
        BY FS_EmptySet
      <4> QED
        BY <3>1, <4>1, <4>2
    <3> QED
      BY <3>2 DEF Busy
  <2> QED
    BY <1>0, <2>1, <2>2 DEF Labels
<1>6. PICK q \in Requests, d \in Depths : call[q][d].pc \in InWorker /\ call[q][d].node = x
  BY <1>5
<1>7. d \in 0 .. MaxNode
  BY <1>1, <1>6 DEF InWorker, Waiting
<1>8. call[q][d].pc \in Waiting /\ call[q][d + 1].pc \notin {"none", "done"}
  BY <1>6, <1>7 DEF canMove
<1>9. call[q][d + 1].node = successor[x] /\ d + 1 \in Depths
  BY <1>0, <1>6, <1>7, <1>8 DEF WaitsForReplica, Active
<1>10. x # Root /\ x \in Nodes
  BY <1>4, <1>6, <1>8 DEF RootIsLast
<1>11. successor[x] < x /\ successor[x] \in Nodes
  BY <1>10, PathToRoot
<1>12. successor[x] \in T
  BY <1>8, <1>9, <1>11
<1>13. x <= successor[x] /\ x \in Nat /\ successor[x] \in Nat
  <2> HIDE DEF T
  <2> QED
    BY <1>0, <1>4, <1>10, <1>11, <1>12
<1> QED
  BY <1>11, <1>13

(* The pools of the nodes never wait for each other in a circle. *)
THEOREM PoolsNeverDeadlock == Spec => []NoPoolDeadlock
<1>1. CallInv => NoPoolDeadlock
  BY SomeCallMoves
<1> QED
  BY <1>1, CallsInvariant, PTL
-----------------------------------------------------------------------------
(* An acknowledged PUT is on the path.                                     *)

(* A step of a call keeps the invariant of acknowledged PUTs. *)
LEMMA PutKept ==
  ASSUME CallInv, CallInv', PutInv, NEW q \in Requests, NEW d \in 0 .. MaxNode,
         CallStep(q, d), Changes(q, d)
  PROVE  PutInv'
<1> USE DEF CallInv
<1> DEFINE n == call[q][d].node
<1>0. /\ d \in Depths /\ d + 1 \in Depths /\ d + 1 # d /\ n \in Nodes
      /\ successor \in [Nodes -> Nodes] /\ answer \in Answered
      /\ applied \in [Requests -> SUBSET Nodes]
  BY Numbers, CallTyped DEF CallRecord, TypeOK, Answered
<1>1. /\ successor' = successor /\ op' = op /\ entry' = entry
      /\ \A p \in Requests, e \in Depths : ~(p = q /\ e \in {d, d + 1}) => call'[p][e] = call[p][e]
      /\ \A p \in Requests : p # q => applied'[p] = applied[p]
  BY <1>0 DEF Changes, Same, Only, history
<1>2. applied[q] \subseteq applied'[q]
  BY <1>0 DEF CallStep, Starts, Finds, Asks, Answers, Resumes, Passes, Gets
<1>3. ASSUME NEW r \in Results, op[q] = "PUT", r # Missing,
             Answers(q, d, r) \/ \E s \in Results, b \in CallRecord : Passes(q, d, s, b, r)
      PROVE  Path(n) \subseteq applied'[q]
  <2>1. call[q][d].op = "PUT"
    BY <1>0, <1>3 DEF Changes, OpOfRequest, Active
  <2>2. CASE Answers(q, d, r)
    <3>1. successor[n] = n /\ n \in applied'[q]
      BY <1>0, <1>3, <2>1, <2>2 DEF Answers, LabelOfOp
    <3>2. PathOver(successor, n) \subseteq {n}
      BY <1>0, <3>1, PathFacts
    <3> QED
      BY <3>1, <3>2 DEF Path
  <2>3. ASSUME NEW s \in Results, NEW b \in CallRecord, Passes(q, d, s, b, r)
        PROVE  Path(n) \subseteq applied'[q]
    <3>1. call[q][d].pc = "replicate" /\ s # Missing
      BY <1>0, <2>1, <2>3 DEF Passes, LabelOfOp
    <3>2. call[q][d + 1].pc = "done" /\ call[q][d + 1].result # Missing
      BY <2>3, <3>1 DEF Passes, Gets
    <3>3. call[q][d + 1].node = successor[n]
      BY <1>0, <3>1, <3>2 DEF WaitsForReplica, Active, Waiting
    <3>4. n \in applied[q] /\ PathOver(successor, successor[n]) \subseteq applied[q]
      BY <1>0, <1>3, <3>1, <3>2, <3>3 DEF PutInv, StoredOnTheWay, Path
    <3>5. PathOver(successor, n) \subseteq {n} \cup PathOver(successor, successor[n])
      BY <1>0, PathFacts
    <3> QED
      BY <1>2, <3>4, <3>5 DEF Path
  <2> QED
    BY <1>3, <2>2, <2>3
<1>4. \/ \E r \in Results :
           /\ ReturnTo(q, d, r, call'[q][d + 1]) /\ Ends(q, d, r)
           /\ op[q] = "PUT" /\ r # Missing => Path(n) \subseteq applied'[q]
      \/ /\ Kept(q, d) /\ answer' = answer /\ call'[q][d].pc # "done"
         /\ call'[q][d].pc = "replicate" => n \in applied'[q]
  <2>1. ASSUME NEW r \in Results, Answers(q, d, r)
        PROVE  /\ ReturnTo(q, d, r, call'[q][d + 1]) /\ Ends(q, d, r)
               /\ op[q] = "PUT" /\ r # Missing => Path(n) \subseteq applied'[q]
    BY <1>3, <2>1, ReturnFields DEF Answers
  <2>2. ASSUME NEW s \in Results, NEW b \in CallRecord, NEW r \in Results,
               Passes(q, d, s, b, r)
        PROVE  /\ ReturnTo(q, d, r, call'[q][d + 1]) /\ Ends(q, d, r)
               /\ op[q] = "PUT" /\ r # Missing => Path(n) \subseteq applied'[q]
    BY <1>3, <2>2, ReturnFields DEF Passes
  <2>3. ASSUME NEW label, NEW b, MoveTo(q, d, label, b), label # "done"
        PROVE  /\ Kept(q, d) /\ answer' = answer /\ call'[q][d].pc # "done"
               /\ call'[q][d].pc = label
    BY <2>3, MoveFields
  <2>4. CASE Starts(q, d) \/ Finds(q, d)
    BY <2>3, <2>4 DEF Starts, Finds
  <2>5. ASSUME NEW label \in Waiting, Asks(q, d, label)
        PROVE  /\ Kept(q, d) /\ answer' = answer /\ call'[q][d].pc # "done"
               /\ call'[q][d].pc = "replicate" => n \in applied'[q]
    <3>1. label # "done"
      BY DEF Waiting
    <3>2. label = "replicate" => n \in applied'[q]
      BY <1>0, <2>5 DEF Asks
    <3> QED
      BY <2>3, <2>5, <3>1, <3>2 DEF Asks
  <2>6. ASSUME NEW r \in Results, NEW b \in CallRecord, Resumes(q, d, r, b)
        PROVE  /\ Kept(q, d) /\ answer' = answer
               /\ call'[q][d].pc # "done" /\ call'[q][d].pc # "replicate"
    BY <2>3, <2>6 DEF Resumes
  <2> QED
    BY <2>1, <2>2, <2>4, <2>5, <2>6 DEF CallStep, Results, Starts, Finds
<1>5. \/ call'[q][d + 1] = call[q][d + 1] \/ call'[q][d + 1].pc \in {"none", "queued"}
  BY DEF Changes, GoesOn, Waits, Replies, Continues, Released, Sent
<1>6. StoredOnTheWay'
  <2> SUFFICES ASSUME NEW p \in Requests, NEW e \in Depths, op[p] = "PUT"
               PROVE  /\ call'[p][e].pc = "replicate" => call'[p][e].node \in applied'[p]
                      /\ call'[p][e].pc = "done" /\ call'[p][e].result # Missing =>
                           PathOver(successor, call'[p][e].node) \subseteq applied'[p]
    BY <1>1 DEF StoredOnTheWay, Path
  <2>1. CASE p = q /\ e = d
    BY <1>4, <2>1 DEF Ends, Kept, Path
  <2>2. CASE call'[p][e] = call[p][e]
    <3>1. applied[p] \subseteq applied'[p]
      BY <1>1, <1>2
    <3> QED
      BY <2>2, <3>1 DEF PutInv, StoredOnTheWay, Path
  <2> QED
    BY <1>1, <1>5, <2>1, <2>2
<1>7. AckedPutOnPath'
  <2> SUFFICES ASSUME NEW p \in Requests, op[p] = "PUT", answer'[p] \notin {NoAnswer, Missing}
               PROVE  PathOver(successor, entry[p]) \subseteq applied'[p]
    BY <1>1 DEF AckedPutOnPath, Acked, Path
  <2>1. CASE answer'[p] = answer[p]
    <3>1. applied[p] \subseteq applied'[p]
      BY <1>1, <1>2
    <3> QED
      BY <2>1, <3>1 DEF PutInv, AckedPutOnPath, Acked, Path
  <2>2. CASE answer'[p] # answer[p]
    <3>1. PICK r \in Results : /\ Ends(q, d, r)
                               /\ op[q] = "PUT" /\ r # Missing => Path(n) \subseteq applied'[q]
      BY <1>4, <2>2
    <3>2. d = 0 /\ answer' = [answer EXCEPT ![q] = r]
      BY <2>2, <3>1 DEF Ends
    <3>3. p = q /\ r # Missing
      BY <1>0, <2>2, <3>2 DEF Answered
    <3>4. n = entry[q]
      BY <1>0, <3>2 DEF Changes, OpOfRequest, Active
    <3> QED
      BY <3>1, <3>3, <3>4 DEF Path
  <2> QED
    BY <2>1, <2>2
<1> QED
  BY <1>6, <1>7 DEF PutInv

(* Every step keeps the invariant of acknowledged PUTs. *)
LEMMA PutStep ==
  ASSUME CallInv, PutInv, [Next]_vars
  PROVE  PutInv'
<1>0. CallInv'
  BY CallsStep
<1>1. CASE UNCHANGED vars
  BY <1>1 DEF PutInv, StoredOnTheWay, AckedPutOnPath, Acked, Path, vars, history
<1>2. ASSUME NEW q \in Requests, NEW o \in Ops, NEW n \in Nodes, Begun(q, o, n)
      PROVE  PutInv'
  <2>1. /\ successor' = successor /\ answer' = answer /\ applied' = applied
        /\ op'[q] = o /\ \A p \in Requests : p # q => op'[p] = op[p] /\ entry'[p] = entry[p]
        /\ answer[q] = NoAnswer
    BY <1>2 DEF Begun, CallInv, TypeOK, NotBegun
  <2>2. \A e \in Depths : call'[q][e].pc \in {"none", "queued"}
    BY <1>2 DEF Begun, CallInv, NotBegun, Active
  <2>3. \A p \in Requests, e \in Depths : p # q => call'[p][e] = call[p][e]
    BY <1>2 DEF Begun
  <2> QED
    BY <2>1, <2>2, <2>3 DEF PutInv, StoredOnTheWay, AckedPutOnPath, Acked, Path
<1>3. ASSUME NEW n \in Nodes, Restarted(n)
      PROVE  PutInv'
  <2>1. /\ successor' = successor /\ op' = op /\ entry' = entry /\ applied' = applied
        /\ \A p \in Requests : answer'[p] \in {answer[p], Missing}
        /\ \A p \in Requests, e \in Depths :
             call'[p][e] = call[p][e] \/ call'[p][e].pc = "none"
    BY <1>3 DEF Restarted, history, Idle
  <2> QED
    BY <2>1 DEF PutInv, StoredOnTheWay, AckedPutOnPath, Acked, Path
<1> QED
  BY <1>0, <1>1, <1>2, <1>3, CallsStep, PutKept

(* A PUT that a node acknowledges is stored at every node on the path from *)
(* it to the root, for every tree of nodes and whatever calls were lost.   *)
THEOREM AckedPutStored == Spec => []AckedPutOnPath
<1>1. Init => CallInv /\ PutInv
  BY CallsInit
  DEF Init, PutInv, StoredOnTheWay, AckedPutOnPath, Acked
<1>2. CallInv /\ PutInv /\ [Next]_vars => (CallInv /\ PutInv)'
  BY CallsStep, PutStep
<1>3. CallInv /\ PutInv => AckedPutOnPath
  BY DEF PutInv
<1> QED
  BY <1>1, <1>2, <1>3, PTL DEF Spec
-----------------------------------------------------------------------------
(* An acknowledged PUT is found.                                           *)

(* The result of a call of a GET or DELETE, and how a call that goes on    *)
(* differs from one that ends.                                             *)
LEMMA StepEnds ==
  ASSUME CallInv, NEW q \in Requests, NEW d \in 0 .. MaxNode, CallStep(q, d)
  PROVE  \/ \E r \in Results : Answers(q, d, r) /\ Ends(q, d, r)
         \/ \E r \in Results, s \in Results, b \in CallRecord :
              Passes(q, d, s, b, r) /\ Ends(q, d, r)
         \/ answer' = answer /\ call'[q][d].pc # "done"
<1> USE DEF CallInv
<1>1. ASSUME NEW r \in Results, Answers(q, d, r)
      PROVE  Ends(q, d, r)
  BY <1>1, ReturnFields DEF Answers
<1>2. ASSUME NEW r \in Results, NEW s \in Results, NEW b \in CallRecord, Passes(q, d, s, b, r)
      PROVE  Ends(q, d, r)
  BY <1>2, ReturnFields DEF Passes
<1>3. ASSUME NEW label, NEW b, MoveTo(q, d, label, b), label # "done"
      PROVE  answer' = answer /\ call'[q][d].pc # "done"
  BY <1>3, MoveFields
<1>4. CASE Starts(q, d) \/ Finds(q, d)
  BY <1>3, <1>4 DEF Starts, Finds
<1>5. ASSUME NEW label \in Waiting, Asks(q, d, label)
      PROVE  answer' = answer /\ call'[q][d].pc # "done"
  <2>1. label # "done"
    BY DEF Waiting
  <2> QED
    BY <1>3, <1>5, <2>1 DEF Asks
<1>6. ASSUME NEW r \in Results, NEW b \in CallRecord, Resumes(q, d, r, b)
      PROVE  answer' = answer /\ call'[q][d].pc # "done"
  BY <1>3, <1>6 DEF Resumes
<1> QED
  BY <1>1, <1>2, <1>4, <1>5, <1>6 DEF CallStep, Results

(* Only the step's own request changes, and it had begun; what had settled *)
(* before is not touched.                                                  *)
LEMMA OthersKept ==
  ASSUME CallInv, NEW q \in Requests, NEW d \in 0 .. MaxNode, Changes(q, d)
  PROVE  /\ op' = op /\ entry' = entry /\ before' = before /\ successor' = successor
         /\ op[q] # "none" /\ \A g \in Requests : q \notin before[g]
         /\ \A p \in Requests : failed[p] => failed'[p]
         /\ \A p \in Requests : p # q =>
              /\ answer'[p] = answer[p] /\ failed'[p] = failed[p] /\ applied'[p] = applied[p]
              /\ \A e \in Depths : call'[p][e] = call[p][e]
         /\ \A e \in Depths : e \notin {d, d + 1} => call'[q][e] = call[q][e]
         /\ \/ call'[q][d + 1] = call[q][d + 1] \/ call'[q][d + 1].pc \in {"none", "queued"}
<1> USE DEF CallInv
<1>0. d \in Depths /\ failed \in [Requests -> BOOLEAN] /\ answer \in Answered
      /\ applied \in [Requests -> SUBSET Nodes]
  BY Numbers DEF TypeOK, Answered
<1>1. op' = op /\ entry' = entry /\ before' = before /\ successor' = successor
  BY DEF Changes, Same, history
<1>2. op[q] # "none" /\ \A g \in Requests : q \notin before[g]
  BY <1>0 DEF Changes, NotBegun, BeforeSettled, Settled, Active
<1>3. \A p \in Requests :
        /\ failed[p] => failed'[p]
        /\ p # q => answer'[p] = answer[p] /\ failed'[p] = failed[p] /\ applied'[p] = applied[p]
  BY <1>0 DEF Changes, GoesOn, Waits, Replies, Ends, Continues, Released, Answered
<1>4. /\ \A p \in Requests : p # q => \A e \in Depths : call'[p][e] = call[p][e]
      /\ \A e \in Depths : e \notin {d, d + 1} => call'[q][e] = call[q][e]
  BY DEF Changes, Only
<1>5. \/ call'[q][d + 1] = call[q][d + 1] \/ call'[q][d + 1].pc \in {"none", "queued"}
  BY DEF Changes, GoesOn, Waits, Replies, Continues, Released, Sent
<1> QED
  BY <1>1, <1>2, <1>3, <1>4, <1>5

(* Without a DELETE the root loses nothing. *)
LEMMA RootStep ==
  ASSUME CallInv, RootKeeps, [Next]_vars
  PROVE  RootKeeps'
<1> USE DEF CallInv
<1> SUFFICES ASSUME NoDelete', NEW a \in Requests, Root \in applied'[a]
             PROVE  stored'[Root] # Missing
  BY DEF RootKeeps
<1>0. /\ Root \in Nodes /\ Requests \subseteq Nat \ {0}
      /\ stored \in [Nodes -> Requests \cup {Missing}]
  BY Numbers DEF TypeOK
<1>1. CASE UNCHANGED vars
  BY <1>1 DEF RootKeeps, NoDelete, vars, history
<1>2. ASSUME NEW q \in Requests, NEW o \in Ops, NEW n \in Nodes, Begun(q, o, n)
      PROVE  stored'[Root] # Missing
  <2>1. NoDelete /\ applied' = applied /\ stored' = stored
    BY <1>2 DEF NoDelete, Begun, TypeOK
  <2> QED
    BY <2>1 DEF RootKeeps
<1>3. ASSUME NEW n \in Nodes, Restarted(n)
      PROVE  stored'[Root] # Missing
  <2>1. NoDelete /\ applied' = applied /\ stored'[Root] = stored[Root]
    BY <1>0, <1>3 DEF NoDelete, Restarted, remove, history
  <2> QED
    BY <2>1 DEF RootKeeps
<1>4. ASSUME NEW q \in Requests, NEW d \in 0 .. MaxNode, CallStep(q, d), Changes(q, d)
      PROVE  stored'[Root] # Missing
  <2> DEFINE n == call[q][d].node
  <2>1. NoDelete
    BY <1>4, OthersKept DEF NoDelete
  <2>2. /\ d \in Depths /\ n \in Nodes /\ applied \in [Requests -> SUBSET Nodes]
        /\ call[q][d].pc \notin {"none", "done"}
    BY <1>4, Numbers, CallTyped DEF CallRecord, TypeOK, Changes
  <2>3. call[q][d].op # "DELETE"
    <3>1. op[q] \in {"PUT", "GET"}
      BY <1>4, <2>1, OthersKept DEF NoDelete, TypeOK, Ops
    <3> QED
      BY <2>2, <3>1 DEF OpOfRequest, Active
  <2>4. \/ stored' = stored /\ applied' = applied
        \/ put(n, q) /\ applied' = [applied EXCEPT ![q] = @ \cup {n}]
        \/ n # Root /\ remove(n) /\ applied' = applied
    BY <1>4, <2>2, <2>3
    DEF CallStep, Starts, Finds, Asks, Answers, Resumes, Passes, Gets, LabelOfOp, RootIsLast
  <2>5. CASE stored' = stored /\ applied' = applied
    BY <2>1, <2>5 DEF RootKeeps
  <2>6. CASE put(n, q) /\ applied' = [applied EXCEPT ![q] = @ \cup {n}]
    <3>1. CASE n = Root
      BY <1>0, <2>6, <3>1 DEF put, Missing
    <3>2. CASE n # Root
      BY <1>0, <2>1, <2>2, <2>6, <3>2 DEF put, RootKeeps
    <3> QED
      BY <3>1, <3>2
  <2>7. CASE n # Root /\ remove(n) /\ applied' = applied
    BY <1>0, <2>1, <2>2, <2>7 DEF remove, RootKeeps
  <2> QED
    BY <2>4, <2>5, <2>6, <2>7
<1> QED
  BY <1>1, <1>2, <1>3, <1>4, CallsStep

(* Every step keeps the answers of GETs after an acknowledged PUT. *)
LEMMA FoundStep ==
  ASSUME CallInv, PutInv, GetInv, [Next]_vars
  PROVE  FoundOnTheWay'
<1> USE DEF CallInv
<1> SUFFICES ASSUME NEW p \in Requests, NEW g \in Requests, NoDelete', Acked(p, "PUT")',
                    p \in before'[g], op'[g] = "GET", ~failed'[g]
             PROVE  /\ answer'[g] # Missing
                    /\ \A e \in Depths : call'[g][e].pc = "done" => call'[g][e].result # Missing
  BY DEF FoundOnTheWay
<1> DEFINE Before == /\ NoDelete /\ Acked(p, "PUT") /\ p \in before[g]
                     /\ op[g] = "GET" /\ ~failed[g]
           Good == /\ answer[g] # Missing
                   /\ \A e \in Depths : call[g][e].pc = "done" => call[g][e].result # Missing
<1>0. Before => Good
  BY DEF GetInv, FoundOnTheWay
<1>1. CASE UNCHANGED vars
  <2>1. Before
    BY <1>1 DEF Acked, NoDelete, vars, history
  <2> QED
    BY <1>0, <1>1, <2>1 DEF vars
<1>2. ASSUME NEW q \in Requests, NEW o \in Ops, NEW n \in Nodes, Begun(q, o, n)
      PROVE  Good'
  <2>1. /\ answer' = answer /\ failed' = failed /\ answer[q] = NoAnswer
        /\ \A k \in Requests : k # q => op'[k] = op[k] /\ before'[k] = before[k]
        /\ NoDelete
    BY <1>2 DEF Begun, NotBegun, TypeOK, NoDelete
  <2>2. p # q
    BY <2>1 DEF Acked
  <2>3. CASE g = q
    <3>1. \A e \in Depths : call'[g][e].pc # "done"
      BY <1>2, <2>3 DEF Begun, NotBegun, Active
    <3> QED
      BY <2>1, <2>3, <3>1 DEF NoAnswer, Missing
  <2>4. CASE g # q
    <3>1. Before
      BY <2>1, <2>2, <2>4 DEF Acked
    <3>2. \A e \in Depths : call'[g][e] = call[g][e]
      BY <1>2, <2>4 DEF Begun
    <3> QED
      BY <1>0, <2>1, <3>1, <3>2
  <2> QED
    BY <2>3, <2>4
<1>3. ASSUME NEW n \in Nodes, Restarted(n)
      PROVE  Good'
  <2> DEFINE lost(k, e) == call[k][e].node = n /\ call[k][e].pc \notin {"none", "done"}
  <2>1. /\ op' = op /\ before' = before
        /\ \A k \in Requests : /\ answer'[k] = IF lost(k, 0) THEN Missing ELSE answer[k]
                               /\ failed'[k] = (failed[k] \/ \E e \in Depths : lost(k, e))
    BY <1>3 DEF Restarted, history
  <2>2. \A e \in Depths : call'[g][e] = call[g][e] \/ call'[g][e].pc = "none"
    BY <1>3 DEF Restarted, Idle
  <2>3. 0 \in Depths
    BY Numbers DEF Depths
  <2> HIDE DEF lost
  <2>4. Before
    BY <2>1 DEF Acked, NoDelete
  <2>5. answer'[g] = answer[g]
    BY <2>1, <2>3
  <2> QED
    BY <1>0, <2>2, <2>4, <2>5
<1>4. ASSUME NEW q \in Requests, NEW d \in 0 .. MaxNode, CallStep(q, d), Changes(q, d)
      PROVE  Good'
  <2> DEFINE n == call[q][d].node
  <2>0. /\ d \in Depths /\ d + 1 \in Depths /\ n \in Nodes /\ call[q][d].pc \notin {"none", "done"}
        /\ answer \in Answered /\ failed \in [Requests -> BOOLEAN]
    BY <1>4, Numbers, CallTyped DEF CallRecord, Changes, TypeOK, Answered
  <2>1. Before /\ p # q
    BY <1>4, OthersKept DEF Acked, NoDelete
  <2>2. CASE g # q
    BY <1>0, <1>4, <2>1, <2>2, OthersKept
  <2>3. CASE g = q
    <3>1. call[q][d].op = "GET"
      BY <2>0, <2>1, <2>3 DEF OpOfRequest, Active
    <3>2. ASSUME NEW r \in Results, Answers(q, d, r)
          PROVE  r # Missing
      <4>1. r = stored[n] /\ (r # Missing \/ successor[n] = n)
        BY <2>0, <3>1, <3>2 DEF Answers, LabelOfOp
      <4>2. stored[Root] # Missing
        <5>1. entry[p] \in Nodes
          BY DEF TypeOK
        <5>2. Root \in PathOver(successor, entry[p])
          BY <5>1, PathToRoot
        <5>3. Root \in applied[p]
          BY <2>1, <5>2 DEF PutInv, AckedPutOnPath, Path
        <5> QED
          BY <2>1, <5>3 DEF GetInv, RootKeeps
      <4>3. successor[n] = n => n = Root
        BY <2>0, PathToRoot
      <4> QED
        BY <4>1, <4>2, <4>3
    <3>3. ASSUME NEW r \in Results, NEW s \in Results, NEW b \in CallRecord,
                 Passes(q, d, s, b, r)
          PROVE  r # Missing
      <4>1. call[q][d].pc = "fallback" /\ r = s
        BY <2>0, <3>1, <3>3 DEF Passes, LabelOfOp
      <4>2. CASE call[q][d + 1].pc = "done"
        BY <1>0, <2>0, <2>1, <2>3, <3>3, <4>1, <4>2 DEF Passes, Gets
      <4>3. CASE call[q][d + 1].pc = "none"
        BY <2>1, <2>3, <4>1, <4>3 DEF LostIsFailed, Active, Waiting
      <4>4. CASE call[q][d + 1].pc \notin {"none", "done"}
        BY <2>0, <2>3, <3>3, <4>4 DEF Passes, Gets
      <4> QED
        BY <4>2, <4>3, <4>4
    <3>4. /\ answer'[q] # Missing
          /\ call'[q][d].pc = "done" => call'[q][d].result # Missing
      <4>1. ASSUME NEW r \in Results, Ends(q, d, r), r # Missing
            PROVE  /\ answer'[q] # Missing
                   /\ call'[q][d].pc = "done" => call'[q][d].result # Missing
        BY <1>0, <2>0, <2>1, <2>3, <4>1 DEF Ends, Answered
      <4>2. CASE answer' = answer /\ call'[q][d].pc # "done"
        BY <1>0, <2>1, <2>3, <4>2
      <4> QED
        BY <1>4, <3>2, <3>3, <4>1, <4>2, StepEnds
    <3>5. \A e \in Depths : e # d =>
            call'[q][e] = call[q][e] \/ call'[q][e].pc \in {"none", "queued"}
      BY <1>4, OthersKept
    <3> QED
      BY <1>0, <2>1, <2>3, <3>4, <3>5
  <2> QED
    BY <2>2, <2>3
<1> QED
  BY <1>1, <1>2, <1>3, <1>4, CallsStep

(* As long as nobody deletes the key, a GET that begins after a PUT was    *)
(* acknowledged and settled answers KEY_NOT_FOUND only when it lost a call *)
(* of its own, at any node of any tree.                                    *)
THEOREM AckedReadable == Spec => []AckedKeyReadable
<1>1. Init => CallInv /\ PutInv /\ GetInv
  BY CallsInit
  DEF Init, PutInv, StoredOnTheWay, AckedPutOnPath, Acked, GetInv, RootKeeps, FoundOnTheWay
<1>2. CallInv /\ PutInv /\ GetInv /\ [Next]_vars => (CallInv /\ PutInv /\ GetInv)'
  BY CallsStep, PutStep, RootStep, FoundStep DEF GetInv
<1>3. GetInv => AckedKeyReadable
  BY DEF GetInv, FoundOnTheWay, NoDelete, AckedKeyReadable
<1> QED
  BY <1>1, <1>2, <1>3, PTL DEF Spec
-----------------------------------------------------------------------------
(* A deleted value is gone.                                                *)

(* A node without a value that had settled does not get it back. *)
LEMMA ClearedStays ==
  ASSUME CallInv, [Next]_vars, NEW q \in Requests, NEW m \in Nodes, op[q] # "none",
         Cleared(q, m)
  PROVE  Cleared(q, m)'
<1> USE DEF CallInv
<1>0. /\ before[q] \subseteq Requests /\ Requests \subseteq Nat \ {0}
      /\ stored \in [Nodes -> Requests \cup {Missing}]
  BY Numbers DEF TypeOK
<1>1. \A p \in before[q] : p # Missing
  BY <1>0 DEF Missing
<1>2. CASE UNCHANGED vars
  BY <1>2 DEF Cleared, vars, history
<1>3. ASSUME NEW k \in Requests, NEW o \in Ops, NEW n \in Nodes, Begun(k, o, n)
      PROVE  Cleared(q, m)'
  <2>1. k # q /\ before'[q] = before[q] /\ stored' = stored
    BY <1>3 DEF Begun, TypeOK
  <2> QED
    BY <2>1 DEF Cleared
<1>4. ASSUME NEW n \in Nodes, Restarted(n)
      PROVE  Cleared(q, m)'
  <2>1. before' = before /\ (stored'[m] = stored[m] \/ stored'[m] = Missing)
    BY <1>0, <1>4 DEF Restarted, history, remove
  <2> QED
    BY <1>1, <2>1 DEF Cleared
<1>5. ASSUME NEW k \in Requests, NEW d \in 0 .. MaxNode, CallStep(k, d), Changes(k, d)
      PROVE  Cleared(q, m)'
  <2>1. before' = before /\ k \notin before[q]
    BY <1>5, OthersKept
  <2>2. call[k][d].node \in Nodes
    BY Numbers, CallTyped DEF CallRecord
  <2>3. stored' = stored \/ put(call[k][d].node, k) \/ remove(call[k][d].node)
    BY <1>5 DEF CallStep, Starts, Finds, Asks, Answers, Resumes, Passes, Gets
  <2>4. stored'[m] \in {stored[m], k, Missing}
    BY <1>0, <2>2, <2>3 DEF put, remove
  <2> QED
    BY <1>1, <2>1, <2>4 DEF Cleared
<1> QED
  BY <1>2, <1>3, <1>4, <1>5, CallsStep

(* A call that ends for a DELETE without a loss leaves its path cleared,   *)
(* unless it is a probe that found something.                              *)
LEMMA EndClears ==
  ASSUME CallInv, ClearedOnTheWay, [Next]_vars, NEW q \in Requests, NEW d \in 0 .. MaxNode,
         NEW r \in Results, Changes(q, d), op[q] = "DELETE", ~failed'[q],
         Answers(q, d, r) \/ \E s \in Results, b \in CallRecord : Passes(q, d, s, b, r),
         call[q][d].op = "DELETE" \/ r = Missing,
         NEW m \in PathOver(successor, call[q][d].node)
  PROVE  Cleared(q, m)'
<1> USE DEF CallInv
<1> DEFINE n == call[q][d].node
<1>0. /\ d \in Depths /\ d + 1 \in Depths /\ n \in Nodes /\ call[q][d].pc \notin {"none", "done"}
      /\ successor \in [Nodes -> Nodes] /\ stored \in [Nodes -> Requests \cup {Missing}]
      /\ before[q] \subseteq Requests /\ Requests \subseteq Nat \ {0} /\ before' = before
      /\ failed \in [Requests -> BOOLEAN]
  BY Numbers, CallTyped, OthersKept DEF CallRecord, Changes, TypeOK
<1>1. \A p \in before[q] : p # Missing
  BY <1>0 DEF Missing
<1>2. call[q][d].op \in {"DELETE", "GET"} /\ ~failed[q]
  BY <1>0, OthersKept DEF OpOfRequest, Active
<1>3. /\ m \in Nodes /\ (m = n \/ m \in PathOver(successor, successor[n]))
      /\ successor[n] = n => m = n
  BY <1>0, PathFacts
<1>4. CASE Answers(q, d, r)
  <2>1. successor[n] = n /\ ((stored' = stored /\ stored[n] = Missing) \/ remove(n))
    BY <1>0, <1>2, <1>4 DEF Answers, LabelOfOp
  <2>2. m = n /\ stored'[m] = Missing
    BY <1>0, <1>3, <2>1 DEF remove
  <2> QED
    BY <1>0, <1>1, <2>2 DEF Cleared
<1>5. ASSUME NEW s \in Results, NEW b \in CallRecord, Passes(q, d, s, b, r)
      PROVE  Cleared(q, m)'
  <2>1. /\ call[q][d].pc \in {"fallback", "probe", "unreplicate"}
        /\ call[q][d].pc = "unreplicate" \/ s = Missing
    BY <1>0, <1>2, <1>5 DEF Passes, LabelOfOp
  <2>2. call[q][d + 1].pc # "none"
    BY <1>0, <1>2, <2>1 DEF LostIsFailed, Active, Waiting
  <2>3. call[q][d + 1].pc = "done" /\ call[q][d + 1].result = s
    BY <1>0, <1>5, <2>2 DEF Passes, Gets
  <2>4. /\ call[q][d + 1].node = successor[n]
        /\ call[q][d].pc = "unreplicate" => call[q][d + 1].op = "DELETE"
    BY <1>0, <2>1, <2>2 DEF WaitsForReplica, Active, Waiting, AskedFor
  <2>5. Cleared(q, n) /\ \A k \in PathOver(successor, successor[n]) : Cleared(q, k)
    BY <1>0, <1>2, <2>1, <2>3, <2>4 DEF ClearedOnTheWay, Path
  <2>6. Cleared(q, m)
    BY <1>3, <2>5
  <2> QED
    BY <1>3, <2>6, ClearedStays
<1> QED
  BY <1>4, <1>5

(* Every step keeps the path behind a DELETE cleared. *)
LEMMA ClearedStep ==
  ASSUME CallInv, ClearedOnTheWay, [Next]_vars
  PROVE  ClearedOnTheWay'
<1> USE DEF CallInv
<1> SUFFICES ASSUME NEW q \in Requests, op'[q] = "DELETE", ~failed'[q]
             PROVE  /\ \A e \in Depths :
                         /\ call'[q][e].pc \in {"fallback", "probe", "unreplicate"} =>
                              Cleared(q, call[q][e].node)'
                         /\ call'[q][e].pc = "done" /\ (call'[q][e].op = "DELETE" \/ call'[q][e].result = Missing)
                              => \A m \in PathOver(successor', call'[q][e].node) : Cleared(q, m)'
                    /\ answer'[q] \notin {NoAnswer, Missing} =>
                         \A m \in PathOver(successor', entry'[q]) : Cleared(q, m)'
  BY DEF ClearedOnTheWay, Acked, Path, Cleared
<1> DEFINE Way(e) == /\ call[q][e].pc \in {"fallback", "probe", "unreplicate"} =>
                          Cleared(q, call[q][e].node)
                     /\ call[q][e].pc = "done" /\ (call[q][e].op = "DELETE" \/ call[q][e].result = Missing)
                          => \A m \in PathOver(successor, call[q][e].node) : Cleared(q, m)
           End == answer[q] \notin {NoAnswer, Missing} =>
                    \A m \in PathOver(successor, entry[q]) : Cleared(q, m)
<1>0. /\ successor \in [Nodes -> Nodes] /\ entry[q] \in Nodes
      /\ \A e \in Depths : call[q][e].node \in Nodes
  BY CallTyped DEF TypeOK, CallRecord
<1>1. ASSUME op[q] = "DELETE", ~failed[q]
      PROVE  End /\ \A e \in Depths : Way(e)
  <2>1. End
    BY <1>1 DEF ClearedOnTheWay, Acked, Path
  <2>2. ASSUME NEW e \in Depths
        PROVE  Way(e)
    <3>1. /\ call[q][e].pc \in {"fallback", "probe", "unreplicate"} =>
               Cleared(q, call[q][e].node)
          /\ call[q][e].pc = "done" /\ (call[q][e].op = "DELETE" \/ call[q][e].result = Missing)
               => \A m \in Path(call[q][e].node) : Cleared(q, m)
      BY <1>1 DEF ClearedOnTheWay
    <3> QED
      BY <3>1 DEF Path
  <2> QED
    BY <2>1, <2>2
<1>2. ASSUME op[q] = "DELETE", NEW m \in Nodes, Cleared(q, m)
      PROVE  Cleared(q, m)'
  BY <1>2, ClearedStays
<1>3. ASSUME op[q] = "DELETE", ~failed[q], successor' = successor, entry'[q] = entry[q]
      PROVE  /\ answer'[q] = answer[q] => End'
             /\ \A e \in Depths : call'[q][e] = call[q][e] => Way(e)'
  <2>1. \A k \in Nodes : PathOver(successor, k) \subseteq Nodes
    BY <1>0, PathFacts
  <2>2. answer'[q] = answer[q] => End'
    BY <1>0, <1>1, <1>2, <1>3, <2>1
  <2>3. ASSUME NEW e \in Depths, call'[q][e] = call[q][e]
        PROVE  Way(e)'
    <3>1. Way(e) /\ call[q][e].node \in Nodes
      BY <1>0, <1>1, <1>3
    <3>2. call'[q][e].pc \in {"fallback", "probe", "unreplicate"} => Cleared(q, call[q][e].node)'
      BY <1>2, <1>3, <2>3, <3>1 DEF Cleared
    <3>3. call'[q][e].pc = "done" /\ (call'[q][e].op = "DELETE" \/ call'[q][e].result = Missing)
            => \A m \in PathOver(successor', call'[q][e].node) : Cleared(q, m)'
      BY <1>2, <1>3, <2>1, <2>3, <3>1
    <3> QED
      BY <3>2, <3>3
  <2> QED
    BY <2>2, <2>3
<1>4. CASE UNCHANGED vars
  BY <1>3, <1>4 DEF vars, history
<1>5. ASSUME NEW k \in Requests, NEW o \in Ops, NEW n \in Nodes, Begun(k, o, n)
      PROVE  End' /\ \A e \in Depths : Way(e)'
  <2>1. CASE k = q
    <3>1. /\ answer'[q] = NoAnswer
          /\ \A e \in Depths : call'[q][e].pc \in {"none", "queued"}
      BY <1>5, <2>1 DEF Begun, NotBegun, Active
    <3> QED
      BY <3>1
  <2>2. CASE k # q
    <3>1. /\ successor' = successor /\ answer'[q] = answer[q] /\ failed'[q] = failed[q]
          /\ op'[q] = op[q] /\ entry'[q] = entry[q]
          /\ \A e \in Depths : call'[q][e] = call[q][e]
      BY <1>5, <2>2 DEF Begun, TypeOK
    <3> QED
      BY <1>3, <3>1
  <2> QED
    BY <2>1, <2>2
<1>6. ASSUME NEW n \in Nodes, Restarted(n)
      PROVE  End' /\ \A e \in Depths : Way(e)'
  <2>1. /\ successor' = successor /\ op' = op /\ entry' = entry
        /\ answer'[q] = Missing \/ answer'[q] = answer[q]
        /\ \A e \in Depths : call'[q][e] = call[q][e] \/ call'[q][e].pc = "none"
    BY <1>6 DEF Restarted, history, Idle
  <2>1a. ~failed[q]
    BY <1>6 DEF Restarted, TypeOK
  <2>2. \A e \in Depths : call'[q][e].pc = "none" => Way(e)'
    OBVIOUS
  <2>3. answer'[q] = Missing => End'
    OBVIOUS
  <2> QED
    BY <1>3, <2>1, <2>1a, <2>2, <2>3
<1>7. ASSUME NEW k \in Requests, NEW d \in 0 .. MaxNode, CallStep(k, d), Changes(k, d)
      PROVE  End' /\ \A e \in Depths : Way(e)'
  <2>1. op[q] = "DELETE" /\ ~failed[q] /\ successor' = successor /\ entry'[q] = entry[q]
    BY <1>7, OthersKept
  <2>2. CASE k # q
    <3>1. answer'[q] = answer[q] /\ \A e \in Depths : call'[q][e] = call[q][e]
      BY <1>7, <2>2, OthersKept
    <3> QED
      BY <1>3, <2>1, <3>1
  <2>3. CASE k = q
    <3>0. /\ d \in Depths /\ call[q][d].pc \notin {"none", "done"} /\ before' = before
          /\ call[q][d] \in CallRecord /\ call[q][d].node \in Nodes
          /\ stored \in [Nodes -> Requests \cup {Missing}] /\ answer \in Answered
          /\ before[q] \subseteq Requests /\ Requests \subseteq Nat \ {0}
      BY <1>7, <2>3, Numbers, CallTyped, OthersKept DEF CallRecord, Changes, TypeOK, Answered
    <3>1. ASSUME NEW r \in Results, Ends(q, d, r),
                 \/ Answers(q, d, r)
                 \/ \E s \in Results, b \in CallRecord : Passes(q, d, s, b, r)
          PROVE  End' /\ Way(d)'
      <4>1. call[q][d].op = "DELETE" \/ r = Missing =>
              \A m \in PathOver(successor, call[q][d].node) : Cleared(q, m)'
        BY <1>7, <2>1, <2>3, <3>1, EndClears
      <4>2. d = 0 => call[q][d].op = "DELETE" /\ call[q][d].node = entry[q]
        BY <2>1, <3>0 DEF OpOfRequest, Active
      <4>3. End'
        <5>1. CASE answer' = answer
          BY <1>3, <2>1, <5>1
        <5>2. CASE d = 0
          BY <2>1, <4>1, <4>2, <5>2
        <5> QED
          BY <3>1, <5>1, <5>2 DEF Ends
      <4>4. Way(d)'
        BY <2>1, <3>1, <4>1 DEF Ends, Kept
      <4> QED
        BY <4>3, <4>4
    <3>2. ASSUME answer' = answer, call'[q][d].pc # "done"
          PROVE  End' /\ Way(d)'
      <4>1. End'
        BY <1>3, <2>1, <3>2
      <4>2. ASSUME call'[q][d].pc \in {"fallback", "probe", "unreplicate"}
            PROVE  Cleared(q, call[q][d].node)'
        <5>1. PICK label \in Waiting : Asks(q, d, label) /\ call'[q][d].pc = label
          <6>1. ASSUME NEW label, NEW b, MoveTo(q, d, label, b)
                PROVE  call'[q][d].pc = label
            BY <6>1, MoveFields
          <6>2. ASSUME NEW r, NEW b, ReturnTo(q, d, r, b)
                PROVE  call'[q][d].pc \in {"done", "none"}
            BY <6>2, ReturnFields DEF Ends
          <6> QED
            BY <1>7, <2>3, <4>2, <6>1, <6>2
            DEF CallStep, Starts, Finds, Asks, Answers, Resumes, Passes
        <5>2. Kept(q, d)
          BY <5>1, MoveFields DEF Asks
        <5>3. stored'[call[q][d].node] = Missing
          BY <3>0, <4>2, <5>1 DEF Asks, remove
        <5>4. \A p \in before[q] : p # Missing
          BY <3>0 DEF Missing
        <5> QED
          BY <3>0, <5>2, <5>3, <5>4 DEF Cleared, Kept
      <4> QED
        BY <3>2, <4>1, <4>2
    <3>3. End' /\ Way(d)'
      BY <1>7, <2>3, <3>1, <3>2, StepEnds
    <3>4. ASSUME NEW e \in Depths, e # d
          PROVE  Way(e)'
      <4>1. call'[q][e] = call[q][e] \/ call'[q][e].pc \in {"none", "queued"}
        BY <1>7, <2>3, <3>4, OthersKept
      <4> QED
        BY <1>3, <2>1, <4>1
    <3> QED
      BY <3>3, <3>4
  <2> QED
    BY <2>2, <2>3
<1> QED
  BY <1>4, <1>5, <1>6, <1>7, CallsStep

(* No step lets a GET begun after the DELETE find the key. *)
LEMMA NotReadStep ==
  ASSUME CallInv, DeleteInv, [Next]_vars
  PROVE  NotReadAgain'
<1> USE DEF CallInv
<1> SUFFICES ASSUME NEW p \in Requests, NEW d \in Requests, NEW g \in Requests,
                    Acked(d, "DELETE")', ~failed'[d], p \in before'[d], d \in before'[g],
                    op'[g] = "GET", entry'[g] = entry'[d]
             PROVE  /\ answer'[g] # p
                    /\ \A e \in Depths : call'[g][e].pc = "done" => call'[g][e].result # p
  BY DEF NotReadAgain
<1> DEFINE Before == /\ Acked(d, "DELETE") /\ ~failed[d] /\ p \in before[d] /\ d \in before[g]
                     /\ op[g] = "GET" /\ entry[g] = entry[d]
           Good == /\ answer[g] # p
                   /\ \A e \in Depths : call[g][e].pc = "done" => call[g][e].result # p
<1>0. (Before => Good) /\ p # Missing /\ p # NoAnswer
  BY Numbers DEF DeleteInv, NotReadAgain, Missing, NoAnswer
<1>1. CASE UNCHANGED vars
  <2>1. Before
    BY <1>1 DEF Acked, vars, history
  <2> QED
    BY <1>0, <1>1, <2>1 DEF vars
<1>2. ASSUME NEW q \in Requests, NEW o \in Ops, NEW n \in Nodes, Begun(q, o, n)
      PROVE  Good'
  <2>1. /\ answer' = answer /\ failed' = failed /\ answer[q] = NoAnswer
        /\ \A k \in Requests : k # q =>
             op'[k] = op[k] /\ before'[k] = before[k] /\ entry'[k] = entry[k]
    BY <1>2 DEF Begun, NotBegun, TypeOK
  <2>2. d # q
    BY <2>1 DEF Acked
  <2>3. CASE g = q
    <3>1. \A e \in Depths : call'[g][e].pc # "done"
      BY <1>2, <2>3 DEF Begun, NotBegun, Active
    <3> QED
      BY <1>0, <2>1, <2>3, <3>1
  <2>4. CASE g # q
    <3>1. Before
      BY <2>1, <2>2, <2>4 DEF Acked
    <3>2. \A e \in Depths : call'[g][e] = call[g][e]
      BY <1>2, <2>4 DEF Begun
    <3> QED
      BY <1>0, <2>1, <3>1, <3>2
  <2> QED
    BY <2>3, <2>4
<1>3. ASSUME NEW n \in Nodes, Restarted(n)
      PROVE  Good'
  <2>1. /\ op' = op /\ before' = before /\ entry' = entry
        /\ \A k \in Requests : answer'[k] \in {Missing, answer[k]}
    BY <1>3 DEF Restarted, history
  <2>2. \A e \in Depths : call'[g][e] = call[g][e] \/ call'[g][e].pc = "none"
    BY <1>3 DEF Restarted, Idle
  <2>3. ~failed[d]
    BY <1>3 DEF Restarted, TypeOK
  <2>4. Before
    BY <2>1, <2>3 DEF Acked
  <2> QED
    BY <1>0, <2>1, <2>2, <2>4
<1>4. ASSUME NEW q \in Requests, NEW f \in 0 .. MaxNode, CallStep(q, f), Changes(q, f)
      PROVE  Good'
  <2> DEFINE n == call[q][f].node
  <2>0. /\ f \in Depths /\ f + 1 \in Depths /\ call[q][f].pc \notin {"none", "done"}
        /\ answer \in Answered
    BY <1>4, Numbers DEF Changes, TypeOK, Answered
  <2>1. Before /\ d # q
    BY <1>4, OthersKept DEF Acked
  <2>2. CASE g # q
    BY <1>0, <1>4, <2>1, <2>2, OthersKept
  <2>3. CASE g = q
    <3>1. call[q][f].op = "GET" /\ n \in PathOver(successor, entry[d])
      BY <2>0, <2>1, <2>3 DEF OpOfRequest, OnPath, Path, Active
    <3>2. ASSUME NEW r \in Results, Answers(q, f, r)
          PROVE  r # p
      <4>1. r = stored[n]
        BY <2>0, <3>1, <3>2 DEF Answers, LabelOfOp
      <4>2. Cleared(d, n)
        BY <2>1, <3>1 DEF DeleteInv, ClearedOnTheWay, Acked, Path
      <4> QED
        BY <2>1, <4>1, <4>2 DEF Cleared
    <3>3. ASSUME NEW r \in Results, NEW s \in Results, NEW b \in CallRecord,
                 Passes(q, f, s, b, r)
          PROVE  r # p
      <4>1. call[q][f].pc = "fallback" /\ r = s
        BY <2>0, <3>1, <3>3 DEF Passes, LabelOfOp
      <4>2. (call[q][f + 1].pc = "done" /\ s = call[q][f + 1].result) \/ s = Missing
        BY <3>3 DEF Passes, Gets
      <4> QED
        BY <1>0, <2>0, <2>1, <2>3, <4>1, <4>2
    <3>4. answer'[q] # p /\ (call'[q][f].pc = "done" => call'[q][f].result # p)
      <4>1. ASSUME NEW r \in Results, Ends(q, f, r), r # p
            PROVE  answer'[q] # p /\ (call'[q][f].pc = "done" => call'[q][f].result # p)
        BY <1>0, <2>0, <2>1, <2>3, <4>1 DEF Ends, Answered
      <4>2. CASE answer' = answer /\ call'[q][f].pc # "done"
        BY <1>0, <2>1, <2>3, <4>2
      <4> QED
        BY <1>4, <3>2, <3>3, <4>1, <4>2, StepEnds
    <3>5. \A e \in Depths : e # f =>
            call'[q][e] = call[q][e] \/ call'[q][e].pc \in {"none", "queued"}
      BY <1>4, OthersKept
    <3> QED
      BY <1>0, <2>1, <2>3, <3>4, <3>5
  <2> QED
    BY <2>2, <2>3
<1> QED
  BY <1>1, <1>2, <1>3, <1>4, CallsStep

(* A value that had settled when a DELETE began is not read again at the   *)
(* node that acknowledged the DELETE, unless the DELETE lost a call.       *)
THEOREM DeletedGone == Spec => []DeletedStaysDeleted
<1>1. Init => CallInv /\ DeleteInv
  BY CallsInit DEF Init, DeleteInv, ClearedOnTheWay, NotReadAgain, Acked
<1>2. CallInv /\ DeleteInv /\ [Next]_vars => (CallInv /\ DeleteInv)'
  BY CallsStep, ClearedStep, NotReadStep DEF DeleteInv
<1>3. DeleteInv => DeletedStaysDeleted
  BY DEF DeleteInv, NotReadAgain, DeletedStaysDeleted
<1> QED
  BY <1>1, <1>2, <1>3, PTL DEF Spec
=============================================================================
