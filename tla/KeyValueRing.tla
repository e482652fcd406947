---------------------------- MODULE KeyValueRing -----------------------------
(***************************************************************************)
(* The path of a GET, PUT or DELETE through several nodes: ChordServer's   *)
(* handler, store_key, retrieve_key and remove_key of ChordNode, the       *)
(* synchronous ReplicationManager and Storage.                             *)
(*                                                                         *)
(* Nodes are as the program leaves them after they have joined: nothing in *)
(* src/ sends NOTIFY, so no node has a predecessor and each takes itself   *)
(* to be responsible for every key; successor_list[0] is the node it       *)
(* joined through and the other entries are itself, so that node is its    *)
(* only replica.  A replica receives an ordinary client request and serves *)
(* it like one: it replicates on to the node it joined through.  (What     *)
(* NOTIFY changes is in ChordNode.)                                        *)
(*                                                                         *)
(* One key is followed.  A request is numbered in the order of its start   *)
(* and its number is the value a PUT writes.  The calls of a request nest: *)
(* depth 0 runs at the node the client chose, depth d + 1 at the node that *)
(* depth d waits for, each in a worker of its node's pool.                 *)
(***************************************************************************)
EXTENDS Integers, FiniteSets, FiniteSetsExt

CONSTANTS
  MaxNode,          \* nodes are 0 .. MaxNode, in the order they started
  Workers,          \* threads of each node's pool
  MaxRequests,      \* bound: requests of a behaviour
  MaxOpen,          \* bound: requests under way at the same time
  MaxRestarts       \* bound: restarts of a behaviour

ASSUME RingAssumption ==
  /\ MaxNode \in Nat /\ MaxRequests \in Nat /\ MaxOpen \in Nat
  /\ MaxRestarts \in Nat
  /\ Workers \in Nat \ {0}

Nodes == 0 .. MaxNode
Root == 0
Requests == 1 .. MaxRequests
Depths == 0 .. MaxNode + 1
Ops == {"PUT", "GET", "DELETE"}

Missing == 0          \* no value, and the failure of a PUT or DELETE
Success == 1          \* the answer of a PUT or DELETE that succeeded
NoAnswer == -1

VARIABLES
  successor,        \* successor_list[0] of each node
  stored,           \* local_storage of each node: the value of the key
  call,             \* the calls of each request, by depth
  restarts,
  op, entry,        \* history: the request and the node it was sent to
  answer,           \* history: what that node answered
  failed,           \* history: some call of the request was not answered
  applied,          \* history: the nodes where a PUT was stored
  before            \* history: the requests settled when this one started

history == <<op, entry, before>>
vars == <<successor, stored, call, restarts, history, answer, failed, applied>>

(* Where a call is: not made, in the pool's queue, in a worker, answered. *)
Waiting == {"replicate", "fallback", "probe", "unreplicate"}
InWorker == {"start", "rollback", "remove"} \cup Waiting
Labels == {"none", "queued", "done"} \cup InWorker

Idle == [node |-> Root, op |-> "GET", pc |-> "none", result |-> Missing]

TypeOK ==
  /\ successor \in [Nodes -> Nodes]
  /\ stored \in [Nodes -> Requests \cup {Missing}]
  /\ call \in [Requests -> [Depths ->
       [node : Nodes, op : Ops, pc : Labels, result : Requests \cup {Missing, Success}]]]
  /\ restarts \in 0 .. MaxRestarts
  /\ op \in [Requests -> Ops \cup {"none"}] /\ entry \in [Requests -> Nodes]
  /\ answer \in [Requests -> Requests \cup {NoAnswer, Missing, Success}]
  /\ failed \in [Requests -> BOOLEAN]
  /\ applied \in [Requests -> SUBSET Nodes] /\ before \in [Requests -> SUBSET Requests]

(* Every node but the first has joined through one that was there.  (join  *)
(* checks nothing: nodes that are started again, or before the node they   *)
(* name, may form a cycle, in which a PUT would be replicated without end. *)
(* Such rings are left out.)                                               *)
Init ==
  /\ successor \in {s \in [Nodes -> Nodes] :
       s[Root] = Root /\ \A n \in Nodes \ {Root} : s[n] < n}
  /\ stored = [n \in Nodes |-> Missing]
  /\ call = [q \in Requests |-> [d \in Depths |-> Idle]]
  /\ restarts = 0
  /\ op = [q \in Requests |-> "none"] /\ entry = [q \in Requests |-> Root]
  /\ answer = [q \in Requests |-> NoAnswer]
  /\ failed = [q \in Requests |-> FALSE]
  /\ applied = [q \in Requests |-> {}] /\ before = [q \in Requests |-> {}]
-----------------------------------------------------------------------------
(* Mutant of remove: the entry stays behind without a value. *)
removeLeavesEntry(n) == stored' = [stored EXCEPT ![n] = NoAnswer]

(* Storage: each operation is one critical section. *)
get(n) == stored[n]
put(n, v) == stored' = [stored EXCEPT ![n] = v]
remove(n) == stored' = [stored EXCEPT ![n] = Missing]

(* Mutant of ReplicaNodes: the node itself is not left out. *)
ReplicasWithSelf(n) == {successor[n]}

(* get_replica_nodes: the entries of the successor list that are not self. *)
ReplicaNodes(n) == {successor[n]} \ {n}

(* The calls that hold a worker of node n. *)
Busy(n) == {c \in Requests \X Depths :
             call[c[1]][c[2]].pc \in InWorker /\ call[c[1]][c[2]].node = n}

(* No call of the request is left, in particular none that was given up. *)
Settled(q) == op[q] # "none" /\ \A d \in Depths : call[q][d].pc = "none"

(* The calls after call d of request q has returned r: the result waits    *)
(* for a caller that still waits itself, and is lost on any other.         *)
Returned(calls, q, d, r) ==
  [calls EXCEPT ![q][d] =
     IF d > 0 /\ calls[q][d - 1].pc \in Waiting
       THEN [@ EXCEPT !.pc = "done", !.result = r] ELSE Idle]

Return(calls, q, d, r) ==
  /\ call' = Returned(calls, q, d, r)
  /\ answer' = IF d = 0 THEN [answer EXCEPT ![q] = r] ELSE answer

(* A Client of call d sends the request o to the replica and call d waits  *)
(* at label; or the connection is refused, and it finds nothing to wait    *)
(* for.                                                                    *)
Ask(q, d, o, label) ==
  \/ /\ call' = [call EXCEPT
          ![q][d].pc = label,
          ![q][d + 1] = [node |-> successor[call[q][d].node], op |-> o,
                         pc |-> "queued", result |-> Missing]]
     /\ UNCHANGED <<failed, answer>>
  \/ /\ call' = [call EXCEPT ![q][d].pc = label]
     /\ failed' = [failed EXCEPT ![q] = TRUE]
     /\ UNCHANGED answer
-----------------------------------------------------------------------------
(* A client sends its request to any node. *)
Begin(q, o, n) ==
  /\ op[q] = "none" /\ \A p \in Requests : p < q => op[p] # "none"
  /\ Cardinality({p \in 1 .. q - 1 : ~Settled(p)}) < MaxOpen
  /\ op' = [op EXCEPT ![q] = o] /\ entry' = [entry EXCEPT ![q] = n]
  /\ before' = [before EXCEPT ![q] = {p \in Requests : Settled(p)}]
  /\ call' = [call EXCEPT ![q][0] = [node |-> n, op |-> o, pc |-> "queued",
                                     result |-> Missing]]
  /\ UNCHANGED <<successor, stored, restarts, answer, failed, applied>>

(* A worker takes the connection from the queue of its pool and reads the  *)
(* request, also when the caller has given up meanwhile.                   *)
Take(q, d) ==
  /\ call[q][d].pc = "queued"
  /\ Cardinality(Busy(call[q][d].node)) < Workers
  /\ call' = [call EXCEPT ![q][d].pc = "start"]
  /\ UNCHANGED <<successor, stored, restarts, history, answer, failed, applied>>

(* Mutant of StorePut: replication is left to later. *)
StorePutUnreplicated(q, d) ==
  /\ call[q][d].pc = "start" /\ call[q][d].op = "PUT"
  /\ put(call[q][d].node, q)
  /\ applied' = [applied EXCEPT ![q] = @ \cup {call[q][d].node}]
  /\ Return(call, q, d, Success) /\ UNCHANGED failed
  /\ UNCHANGED <<successor, restarts, history>>

(* store_key: store, then replicate_put. *)
StorePut(q, d) ==
  LET n == call[q][d].node
  IN  /\ call[q][d].pc = "start" /\ call[q][d].op = "PUT"
      /\ put(n, q)
      /\ applied' = [applied EXCEPT ![q] = @ \cup {n}]
      /\ IF ReplicaNodes(n) = {} THEN Return(call, q, d, Success) /\ UNCHANGED failed
                                 ELSE Ask(q, d, "PUT", "replicate")
      /\ UNCHANGED <<successor, restarts, history>>

(* store_key after a failed replication. *)
Rollback(q, d) ==
  /\ call[q][d].pc = "rollback"
  /\ remove(call[q][d].node)
  /\ Return(call, q, d, Missing)
  /\ UNCHANGED <<successor, restarts, history, failed, applied>>

(* Mutant of RetrieveGet: without the fallback. *)
RetrieveLocally(q, d) ==
  /\ call[q][d].pc = "start" /\ call[q][d].op = "GET"
  /\ Return(call, q, d, get(call[q][d].node)) /\ UNCHANGED failed
  /\ UNCHANGED <<successor, stored, restarts, history, applied>>

(* retrieve_key: local storage, then get_from_replicas. *)
RetrieveGet(q, d) ==
  LET n == call[q][d].node
  IN  /\ call[q][d].pc = "start" /\ call[q][d].op = "GET"
      /\ IF get(n) # Missing \/ ReplicaNodes(n) = {}
           THEN Return(call, q, d, get(n)) /\ UNCHANGED failed
           ELSE Ask(q, d, "GET", "fallback")
      /\ UNCHANGED <<successor, stored, restarts, history, applied>>

(* remove_key: the key exists here, or the replicas are asked for it. *)
FindForRemove(q, d) ==
  LET n == call[q][d].node
  IN  /\ call[q][d].pc = "start" /\ call[q][d].op = "DELETE"
      /\ IF get(n) # Missing
           THEN call' = [call EXCEPT ![q][d].pc = "remove"] /\ UNCHANGED <<answer, failed>>
           ELSE IF ReplicaNodes(n) = {}
             THEN Return(call, q, d, Missing) /\ UNCHANGED failed
             ELSE Ask(q, d, "GET", "probe")
      /\ UNCHANGED <<successor, stored, restarts, history, applied>>

(* Mutant of RemoveKey: the replicas are not told. *)
RemoveLocally(q, d) ==
  /\ call[q][d].pc = "remove"
  /\ remove(call[q][d].node)
  /\ Return(call, q, d, Success) /\ UNCHANGED failed
  /\ UNCHANGED <<successor, restarts, history, applied>>

(* remove_key: remove, then replicate_delete. *)
RemoveKey(q, d) ==
  LET n == call[q][d].node
  IN  /\ call[q][d].pc = "remove"
      /\ remove(n)
      /\ IF ReplicaNodes(n) = {} THEN Return(call, q, d, Success) /\ UNCHANGED failed
                                 ELSE Ask(q, d, "DELETE", "unreplicate")
      /\ UNCHANGED <<successor, restarts, history, applied>>

(* How a caller goes on when its Client has returned r (Missing also for   *)
(* an error): a PUT reports the failure after its rollback, a DELETE only  *)
(* logs it.                                                                *)
Resume(calls, q, d, r) ==
  LET at == calls[q][d].pc
      goto(label) == call' = [calls EXCEPT ![q][d].pc = label] /\ UNCHANGED answer
  IN  \/ at = "replicate" /\ r # Missing /\ Return(calls, q, d, Success)
      \/ at = "replicate" /\ r = Missing /\ goto("rollback")
      \/ at = "fallback" /\ Return(calls, q, d, r)
      \/ at = "probe" /\ r # Missing /\ goto("remove")
      \/ at = "probe" /\ r = Missing /\ Return(calls, q, d, Missing)
      \/ at = "unreplicate" /\ Return(calls, q, d, Success)

(* The answer arrives. *)
Receive(q, d) ==
  /\ call[q][d].pc \in Waiting /\ call[q][d + 1].pc = "done"
  /\ Resume([call EXCEPT ![q][d + 1] = Idle], q, d, call[q][d + 1].result)
  /\ UNCHANGED <<successor, stored, restarts, history, failed, applied>>

(* There is no connection: it was refused, or the other node has gone. *)
Disconnected(q, d) ==
  /\ call[q][d].pc \in Waiting /\ call[q][d + 1].pc = "none"
  /\ Resume(call, q, d, Missing)
  /\ UNCHANGED <<successor, stored, restarts, history, failed, applied>>

(* recv fails after five seconds; the call goes on without its caller. *)
TimeOut(q, d) ==
  /\ call[q][d].pc \in Waiting /\ call[q][d + 1].pc \notin {"none", "done"}
  /\ Resume(call, q, d, Missing)
  /\ failed' = [failed EXCEPT ![q] = TRUE]
  /\ UNCHANGED <<successor, stored, restarts, history, applied>>

(* A node that joined is restarted with the same arguments before anybody  *)
(* notices: its storage is empty, what it was doing is lost, and its       *)
(* clients' connections are closed.                                        *)
Restart(n) ==
  LET lost(q, d) == call[q][d].node = n /\ call[q][d].pc \notin {"none", "done"}
      unread(q, d) == call[q][d].pc = "done" /\ lost(q, d - 1)
  IN  /\ n # Root /\ restarts < MaxRestarts
      /\ restarts' = restarts + 1
      /\ remove(n)
      /\ call' = [q \in Requests |-> [d \in Depths |->
                    IF lost(q, d) \/ unread(q, d) THEN Idle ELSE call[q][d]]]
      /\ failed' = [q \in Requests |-> failed[q] \/ \E d \in Depths : lost(q, d)]
      /\ answer' = [q \in Requests |-> IF lost(q, 0) THEN Missing ELSE answer[q]]
      /\ UNCHANGED <<successor, history, applied>>
-----------------------------------------------------------------------------
(* A step of the worker that runs a call, and its taking from the queue. *)
Work(q, d) ==
  \/ Take(q, d)
  \/ StorePut(q, d) \/ Rollback(q, d)
  \/ RetrieveGet(q, d)
  \/ FindForRemove(q, d) \/ RemoveKey(q, d)
  \/ Receive(q, d) \/ Disconnected(q, d)

Next ==
  \/ \E q \in Requests : \E o \in Ops, n \in Nodes : Begin(q, o, n)
  \/ \E q \in Requests : \E d \in 0 .. MaxNode : Work(q, d) \/ TimeOut(q, d)
  \/ \E n \in Nodes : Restart(n)

(* Workers run; nothing is assumed of timeouts, requests or restarts. *)
Spec ==
  /\ Init /\ [][Next]_vars
  /\ \A q \in Requests : \A d \in 0 .. MaxNode : WF_vars(Work(q, d))
-----------------------------------------------------------------------------
(* The nodes from n to the root over the successors s: those that lie in   *)
(* every set which contains n and which no replication leaves.             *)
PathOver(s, n) ==
  {m \in Nodes : \A S \in SUBSET Nodes : n \in S /\ (\A k \in S : s[k] \in S) => m \in S}

(* The nodes that a replication which starts at n cannot avoid. *)
Path(n) == PathOver(successor, n)

Acked(q, o) == op[q] = o /\ answer[q] \notin {NoAnswer, Missing}

(* A PUT is acknowledged only when the node asked and all nodes its        *)
(* replication passes through have stored it, although any of the calls    *)
(* may be given up, answered late or rolled back.                          *)
AckedPutOnPath == \A q \in Requests : Acked(q, "PUT") => Path(entry[q]) \subseteq applied[q]

(* As long as nobody deletes the key, a GET that starts after a PUT was    *)
(* acknowledged, at any node, finds a value: neither the rollback of       *)
(* another PUT nor the restart of a node that joined hides it.  Only a GET *)
(* that lost a call of its own may answer KEY_NOT_FOUND.                   *)
AckedKeyReadable ==
  \A p, g \in Requests :
    (Acked(p, "PUT") /\ p \in before[g] /\ op[g] = "GET" /\ answer[g] = Missing)
      => failed[g] \/ \E d \in Requests : op[d] = "DELETE"

(* A value that was there when a DELETE began is not seen at the same node *)
(* after that DELETE was acknowledged without losing a call: the fallback  *)
(* of retrieve_key finds no copy left on the path.                         *)
DeletedStaysDeleted ==
  \A p, d, g \in Requests :
    (Acked(d, "DELETE") /\ ~failed[d] /\ p \in before[d] /\ d \in before[g]
       /\ op[g] = "GET" /\ entry[g] = entry[d])
      => answer[g] # p

(* The pools never wait for each other in a circle: while a request is     *)
(* under way some worker can take a step without the help of a timeout,    *)
(* because nodes wait only towards the root and the root for nobody.       *)
NoPoolDeadlock ==
  LET canMove(q, d) ==
        LET c == call[q][d]
        IN  \/ c.pc = "queued" /\ Cardinality(Busy(c.node)) < Workers
            \/ c.pc \in InWorker \ Waiting
            \/ c.pc \in Waiting /\ call[q][d + 1].pc \in {"none", "done"}
  IN  (\E q \in Requests : op[q] # "none" /\ ~Settled(q))
        => \E q \in Requests : \E d \in 0 .. MaxNode : canMove(q, d)

(* DESIGN.md calls replication eventually consistent: once all requests    *)
(* have ended the nodes that hold the key hold the same value.             *)
EventuallyConsistent ==
  (\A q \in Requests : Settled(q)) ~>
    (\A n, m \in Nodes : stored[n] = stored[m] \/ Missing \in {stored[n], stored[m]})
=============================================================================
