------------------------------ MODULE ChordNode ------------------------------
(***************************************************************************)
(* One ChordNode (src/chord.cpp) and the threads that share it: the main   *)
(* thread that creates, joins, leaves and stops; the three maintenance     *)
(* threads; and the pool workers that run the handlers of ChordServer      *)
(* (src/chord_server.cpp).  Peers are environment: they answer a           *)
(* connection, or may not when they are in Faulty.                         *)
(*                                                                         *)
(* routing_mutex is a std::mutex, which is not recursive: a thread that    *)
(* locks it while holding it waits for itself.  A critical section that    *)
(* neither calls out nor locks again is one step, enabled when no thread   *)
(* holds the mutex.  The code has two kinds of critical section that lock  *)
(* again (find_successor around closest_preceding_node, and                *)
(* handle_node_failure around find_successor and trigger_re_replication):  *)
(* there the thread becomes the holder and its pc is "relock".             *)
(* handle_node_failure also waits, as the holder, for Storage's mutex.     *)
(*                                                                         *)
(* An exception that no one catches and the dereference of a null pointer  *)
(* end the process: the thread is then at "crashed" and nothing more       *)
(* happens.                                                                *)
(*                                                                         *)
(* A node is its identifier, a key is the hash of the key: the code        *)
(* compares NodeInfo by id and routes by key_id.  Values are left out: this *)
(* module is about which node holds a key and who answers.                 *)
(***************************************************************************)
EXTENDS Hash

CONSTANTS
  Self,                 \* self_info.id
  Peers,                \* identifiers of the other nodes
  Existing,             \* the node given to join; Self stands for none
  Notifiers,            \* peers that send NOTIFY
  Faulty,               \* peers that may not answer
  Workers,              \* threads of the server's pool
  Keys,                 \* identifiers of the keys clients use
  Lookups,              \* identifiers clients send in FIND_SUCCESSOR
  SUCCESSOR_LIST_SIZE,  \* 8 in the code
  replication_factor,   \* 3 in the code
  MayLeave,             \* whether leave_ring is ever called
  MalformedNotify       \* whether a NOTIFY without a port number may come

ASSUME NodeAssumption ==
  /\ Self \in Hash160
  /\ Peers \subseteq Hash160 \ {Self}
  /\ Existing \in Peers \cup {Self}
  /\ Notifiers \subseteq Peers
  /\ Faulty \subseteq Peers
  /\ Keys \subseteq Hash160
  /\ Lookups \subseteq Hash160
  /\ SUCCESSOR_LIST_SIZE \in Nat \ {0}
  /\ replication_factor \in Nat \ {0}
  /\ MayLeave \in BOOLEAN /\ MalformedNotify \in BOOLEAN
  /\ Workers \cap {"main", "stabilize", "fix_fingers", "failure_detection"} = {}
  /\ "nobody" \notin Workers

FINGER_TABLE_SIZE == Bits          \* 160 of 160 bits in the code

nullptr == -1
Nodes == Peers \cup {Self}
NodeOrNull == Nodes \cup {nullptr}

Maintenance == {"stabilize", "fix_fingers", "failure_detection"}
Threads == Workers \cup Maintenance \cup {"main"}
Nobody == "nobody"

VARIABLES
  predecessor, successor_list, finger_table, next_finger_to_fix,
  running,
  local_storage,        \* keys held
  detected,             \* peers is_node_failed answers true for
  holder,               \* the thread that holds routing_mutex between steps
  pc,                   \* where each thread is
  loc,                  \* its local variables
  nodes_to_check,       \* locals of failure_detection_loop
  failed_nodes

routing == <<predecessor, successor_list, finger_table, next_finger_to_fix>>
checking == <<nodes_to_check, failed_nodes>>
shared == <<routing, running, local_storage, detected, holder, checking>>
vars == <<shared, pc, loc>>

Requests == {"FIND_SUCCESSOR", "NOTIFY", "PUT", "GET", "DELETE"}

(* Locals of one thread: op, the request; arg, the key or finger start;    *)
(* node, the node a call is about; res, what find_successor or contact_node *)
(* returned; ret, where find_successor or transfer_keys_to_node returns to; *)
(* todo, the keys a scan has still to look at; moving, keys_to_transfer.   *)
Labels ==
  {"none", "loop", "exited", "relock", "crashed",
   "st_read", "st_contact", "st_adopt", "st_notify",
   "ff_next", "ff_call", "ff_set",
   "fd_copy", "fd_ping", "fd_handle", "fd_update", "fd_keys",
   "fs_check", "fs_lookup",
   "idle", "answer", "nt_update", "tr_scan", "tr_test", "tr_deref", "tr_send", "tr_remove",
   "gate", "redirect", "check", "forward", "local", "remove", "probe",
   "replicate", "rollback",
   "constructed", "ringed", "serving", "lv_read", "lv_reset", "stopping", "stopped"}

Locals == [op : Requests \cup {"-"}, arg : Hash160, node : NodeOrNull, res : NodeOrNull,
           ret : Labels, todo : SUBSET Hash160, moving : SUBSET Hash160]

NoLocals == [op |-> "-", arg |-> 0, node |-> nullptr, res |-> nullptr,
             ret |-> "none", todo |-> {}, moving |-> {}]

TypeOK ==
  /\ predecessor \in NodeOrNull
  /\ successor_list \in [0 .. (SUCCESSOR_LIST_SIZE - 1) -> Nodes]
  /\ finger_table \in [0 .. (FINGER_TABLE_SIZE - 1) -> Nodes]
  /\ next_finger_to_fix \in 0 .. (FINGER_TABLE_SIZE - 1)
  /\ running \in BOOLEAN
  /\ local_storage \in SUBSET Hash160
  /\ detected \in SUBSET Faulty
  /\ holder \in Threads \cup {Nobody}
  /\ pc \in [Threads -> Labels]
  /\ loc \in [Threads -> Locals]
  /\ nodes_to_check \in SUBSET Peers
  /\ failed_nodes \in SUBSET Faulty
-----------------------------------------------------------------------------
(* The constructor: a single-node ring, no thread started. *)
Init ==
  /\ predecessor = nullptr
  /\ successor_list = [i \in 0 .. (SUCCESSOR_LIST_SIZE - 1) |-> Self]
  /\ finger_table = [i \in 0 .. (FINGER_TABLE_SIZE - 1) |-> Self]
  /\ next_finger_to_fix = 0
  /\ running = FALSE
  /\ local_storage = {}
  /\ detected = {}
  /\ holder = Nobody
  /\ pc = [t \in Threads |-> IF t = "main" THEN "constructed"
                             ELSE IF t \in Workers THEN "idle" ELSE "none"]
  /\ loc = [t \in Threads |-> NoLocals]
  /\ nodes_to_check = {}
  /\ failed_nodes = {}

(* Thread t is at label l, and at a label behind a lock_guard of routing_mutex. *)
At(t, l) == pc[t] = l
Locks(t, l) == pc[t] = l /\ holder = Nobody

(* Thread t goes on at label l, with new local variables or its old ones.  *)
GotoWith(t, l, locals) == pc' = [pc EXCEPT ![t] = l] /\ loc' = [loc EXCEPT ![t] = locals]
Goto(t, l) == pc' = [pc EXCEPT ![t] = l] /\ UNCHANGED loc

(* No scan of get_keys_in_range is under way, which holds Storage's mutex. *)
StorageFree == \A t \in Threads : pc[t] \notin {"tr_test", "tr_deref"}

(* is_responsible_for_key, evaluated inside its critical section. *)
Responsible(id) == predecessor = nullptr \/ in_range(id, predecessor, Self, TRUE)

(* get_finger_start *)
FingerStart(index) == add_power_of_two(Self, index)

(* get_replica_nodes: the first replication_factor - 1 successors but self. *)
ReplicaNodes == {successor_list[i] : i \in {j \in DOMAIN successor_list :
                                             j < replication_factor - 1}} \ {Self}

(* Whether a connection to p, or a ping of p, is answered within its timeout. *)
Answers(p) == IF p \in Faulty THEN BOOLEAN ELSE {TRUE}

(* contact_node(p): one refused connection makes the detector report p, a  *)
(* successful one clears it; every operation returns p itself when the     *)
(* connection succeeds.                                                    *)
Contact(p, ok) == detected' = IF ok THEN detected \ {p} ELSE detected \cup {p}
-----------------------------------------------------------------------------
(* Main thread: create_ring / join_ring, start_maintenance, stop, leave.   *)

(* create, also reached by join with no other node. *)
Create ==
  /\ Existing = Self
  /\ Locks("main", "constructed")
  /\ predecessor' = nullptr
  /\ successor_list' = [i \in DOMAIN successor_list |-> Self]
  /\ finger_table' = [i \in DOMAIN finger_table |-> Self]
  /\ Goto("main", "ringed")
  /\ UNCHANGED <<next_finger_to_fix, running, local_storage, detected, holder,
                 checking>>

(* Mutant of Join: the fingers are filled, the successor is forgotten. *)
JoinForgetsSuccessor ==
  /\ Existing # Self
  /\ Locks("main", "constructed")
  /\ predecessor' = nullptr
  /\ finger_table' = [i \in DOMAIN finger_table |-> Existing]
  /\ Goto("main", "ringed")
  /\ UNCHANGED <<successor_list, next_finger_to_fix, running, local_storage, detected,
                 holder, checking>>

(* join records the known node as its successor without contacting it, and *)
(* initialize_finger_table copies it to every finger.                      *)
Join ==
  /\ Existing # Self
  /\ Locks("main", "constructed")
  /\ predecessor' = nullptr
  /\ successor_list' = [successor_list EXCEPT ![0] = Existing]
  /\ finger_table' = [i \in DOMAIN finger_table |-> Existing]
  /\ Goto("main", "ringed")
  /\ UNCHANGED <<next_finger_to_fix, running, local_storage, detected, holder,
                 checking>>

(* start_maintenance starts the three threads; the server accepts requests *)
(* from here on.                                                           *)
StartMaintenance ==
  /\ At("main", "ringed")
  /\ running' = TRUE
  /\ pc' = [t \in Threads |-> IF t = "main" THEN "serving"
                              ELSE IF t \in Maintenance THEN "loop" ELSE pc[t]]
  /\ UNCHANGED <<routing, local_storage, detected, holder, loc, checking>>

(* stop_maintenance detaches the threads and only tells them to exit. *)
StopMaintenance ==
  /\ At("main", "serving")
  /\ running' = FALSE
  /\ \/ Goto("main", "stopping")
     \/ MayLeave /\ Goto("main", "lv_read")
  /\ UNCHANGED <<routing, local_storage, detected, holder, checking>>

LeaveReadSuccessor ==
  /\ Locks("main", "lv_read")
  /\ IF successor_list[0] # Self
       THEN GotoWith("main", "tr_scan", [loc["main"] EXCEPT !.node = successor_list[0],
                                                            !.ret = "lv_reset"])
       ELSE Goto("main", "lv_reset")
  /\ UNCHANGED shared

(* Mutant of LeaveReset: the reset without the lock_guard. *)
LeaveResetUnlocked ==
  /\ At("main", "lv_reset")
  /\ predecessor' = nullptr
  /\ successor_list' = [i \in DOMAIN successor_list |-> Self]
  /\ finger_table' = [i \in DOMAIN finger_table |-> Self]
  /\ Goto("main", "stopping")
  /\ UNCHANGED <<next_finger_to_fix, running, local_storage, detected, holder,
                 checking>>

(* leave resets to a ring of one after the transfer. *)
LeaveReset ==
  /\ Locks("main", "lv_reset")
  /\ predecessor' = nullptr
  /\ successor_list' = [i \in DOMAIN successor_list |-> Self]
  /\ finger_table' = [i \in DOMAIN finger_table |-> Self]
  /\ Goto("main", "stopping")
  /\ UNCHANGED <<next_finger_to_fix, running, local_storage, detected, holder,
                 checking>>

(* disable_chord clears chord_enabled: later requests go to the base server. *)
DisableChord ==
  /\ At("main", "stopping")
  /\ Goto("main", "stopped")
  /\ UNCHANGED shared

ChordEnabled == pc["main"] \notin {"constructed", "ringed", "stopped"}
-----------------------------------------------------------------------------
(* find_successor(loc[t].arg), called by a worker or by fix_fingers with   *)
(* the mutex free; it returns to loc[t].ret.                               *)

(* Mutants: a responsible node answers its predecessor; the successor's    *)
(* range without its end; a lookup that returns without unlocking, or that *)
(* answers this node for the successor's range.                            *)
CheckAnswersPredecessor(t) ==
  /\ Locks(t, "fs_check")
  /\ IF Responsible(loc[t].arg)
       THEN GotoWith(t, loc[t].ret, [loc[t] EXCEPT !.res = predecessor])
       ELSE Goto(t, "fs_lookup")
  /\ UNCHANGED shared

LookupSwapped(t) ==
  /\ Locks(t, "fs_lookup")
  /\ IF in_range(loc[t].arg, successor_list[0], Self, TRUE)
       THEN /\ GotoWith(t, loc[t].ret, [loc[t] EXCEPT !.res = successor_list[0]])
            /\ UNCHANGED holder
       ELSE holder' = t /\ Goto(t, "relock")
  /\ UNCHANGED <<routing, running, local_storage, detected, checking>>

LookupAnswersSelf(t) ==
  /\ Locks(t, "fs_lookup")
  /\ IF in_range(loc[t].arg, Self, successor_list[0], TRUE)
       THEN /\ GotoWith(t, loc[t].ret, [loc[t] EXCEPT !.res = Self])
            /\ UNCHANGED holder
       ELSE holder' = t /\ Goto(t, "relock")
  /\ UNCHANGED <<routing, running, local_storage, detected, checking>>

(* The first critical section: is_responsible_for_key. *)
FindSuccessorCheck(t) ==
  /\ Locks(t, "fs_check")
  /\ IF Responsible(loc[t].arg)
       THEN GotoWith(t, loc[t].ret, [loc[t] EXCEPT !.res = Self])
       ELSE Goto(t, "fs_lookup")
  /\ UNCHANGED shared

(* The second critical section.  When the identifier is past the successor *)
(* it calls closest_preceding_node, which locks routing_mutex again: the   *)
(* rest of find_successor is unreachable.                                  *)
FindSuccessorLookup(t) ==
  /\ Locks(t, "fs_lookup")
  /\ IF in_range(loc[t].arg, Self, successor_list[0], TRUE)
       THEN /\ GotoWith(t, loc[t].ret, [loc[t] EXCEPT !.res = successor_list[0]])
            /\ UNCHANGED holder
       ELSE holder' = t /\ Goto(t, "relock")
  /\ UNCHANGED <<routing, running, local_storage, detected, checking>>
-----------------------------------------------------------------------------
(* The maintenance threads.  "loop" is the test of running at the head of  *)
(* each loop, the interruptible_sleep before it included.                  *)

FirstLabel(t) == IF t = "stabilize" THEN "st_read"
                 ELSE IF t = "fix_fingers" THEN "ff_next"
                 ELSE "fd_copy"

(* Mutant of Loop: the threads do not look at running. *)
LoopIgnoresRunning(t) ==
  /\ t \in Maintenance
  /\ At(t, "loop")
  /\ Goto(t, FirstLabel(t))
  /\ UNCHANGED shared

Loop(t) ==
  /\ t \in Maintenance
  /\ At(t, "loop")
  /\ Goto(t, IF running THEN FirstLabel(t) ELSE "exited")
  /\ UNCHANGED shared

(* stabilize *)
StabilizeRead ==
  /\ Locks("stabilize", "st_read")
  /\ IF successor_list[0] = Self
       THEN Goto("stabilize", "loop")
       ELSE GotoWith("stabilize", "st_contact",
                     [loc["stabilize"] EXCEPT !.node = successor_list[0]])
  /\ UNCHANGED shared

(* contact_node(successor, "get_predecessor") answers successor itself, or *)
(* nullptr.                                                                *)
StabilizeContact ==
  /\ At("stabilize", "st_contact")
  /\ IF running
       THEN LET succ == loc["stabilize"].node
            IN  \E ok \in Answers(succ) :
                  /\ Contact(succ, ok)
                  /\ GotoWith("stabilize", "st_adopt",
                       [loc["stabilize"] EXCEPT !.res = IF ok THEN succ ELSE nullptr])
       ELSE Goto("stabilize", "loop") /\ UNCHANGED detected
  /\ UNCHANGED <<routing, running, local_storage, holder, checking>>

StabilizeAdopt ==
  /\ Locks("stabilize", "st_adopt")
  /\ LET x == loc["stabilize"].res
         succ == loc["stabilize"].node
         adopt == x # nullptr /\ x # Self /\ in_range(x, Self, succ, FALSE)
     IN  /\ successor_list' = IF adopt THEN [successor_list EXCEPT ![0] = x]
                                       ELSE successor_list
         /\ GotoWith("stabilize", "st_notify",
                     [loc["stabilize"] EXCEPT !.node = IF adopt THEN x ELSE succ])
  /\ UNCHANGED <<predecessor, finger_table, next_finger_to_fix, running, local_storage,
                 detected, holder, checking>>

(* contact_node(successor, "notify") connects and pings; no NOTIFY is sent. *)
StabilizeNotify ==
  /\ At("stabilize", "st_notify")
  /\ IF running
       THEN \E ok \in Answers(loc["stabilize"].node) : Contact(loc["stabilize"].node, ok)
       ELSE UNCHANGED detected
  /\ GotoWith("stabilize", "loop", NoLocals)
  /\ UNCHANGED <<routing, running, local_storage, holder, checking>>

(* Mutant of FixFingersNext: the index does not wrap. *)
NextFingerUnwrapped ==
  /\ Locks("fix_fingers", "ff_next")
  /\ next_finger_to_fix' = next_finger_to_fix + 1
  /\ GotoWith("fix_fingers", "ff_call",
              [NoLocals EXCEPT !.arg = FingerStart(next_finger_to_fix'), !.ret = "ff_set"])
  /\ UNCHANGED <<predecessor, successor_list, finger_table, running, local_storage,
                 detected, holder, checking>>

(* fix_fingers *)
FixFingersNext ==
  /\ Locks("fix_fingers", "ff_next")
  /\ next_finger_to_fix' = (next_finger_to_fix + 1) % FINGER_TABLE_SIZE
  /\ GotoWith("fix_fingers", "ff_call",
              [NoLocals EXCEPT !.arg = FingerStart(next_finger_to_fix'), !.ret = "ff_set"])
  /\ UNCHANGED <<predecessor, successor_list, finger_table, running, local_storage,
                 detected, holder, checking>>

FixFingersCall ==
  /\ At("fix_fingers", "ff_call")
  /\ Goto("fix_fingers", IF running THEN "fs_check" ELSE "loop")
  /\ UNCHANGED shared

(* finger_index is next_finger_to_fix: only this thread writes it. *)
FixFingersSet ==
  /\ Locks("fix_fingers", "ff_set")
  /\ finger_table' = IF loc["fix_fingers"].res = nullptr THEN finger_table
                     ELSE [finger_table EXCEPT ![next_finger_to_fix] = loc["fix_fingers"].res]
  /\ GotoWith("fix_fingers", "loop", NoLocals)
  /\ UNCHANGED <<predecessor, successor_list, next_finger_to_fix, running, local_storage,
                 detected, holder, checking>>

(* failure_detection_loop.  The vectors are sets here: in which order the  *)
(* nodes are pinged and handled is left open, and a node that is successor *)
(* and predecessor at once is pinged once (what a second ping writes to    *)
(* detected is read again only after FailuresDone, which may forget it).   *)
CopyNodesToCheck ==
  /\ Locks("failure_detection", "fd_copy")
  /\ nodes_to_check' = ({successor_list[i] : i \in DOMAIN successor_list}
                           \cup {predecessor}) \ {Self, nullptr}
  /\ Goto("failure_detection", "fd_ping")
  /\ UNCHANGED <<routing, running, local_storage, detected, holder, failed_nodes>>

(* FailureDetector::ping_node, then is_node_failed.  An unanswered ping is *)
(* counted, and makes the detector report the node when the count reaches  *)
(* failure_threshold: some time, the count is left open.                   *)
PingNode ==
  /\ At("failure_detection", "fd_ping") /\ running
  /\ \E n \in nodes_to_check :
       /\ nodes_to_check' = nodes_to_check \ {n}
       /\ \E ok \in Answers(n) :
            \/ ok /\ detected' = detected \ {n}
            \/ ~ok /\ detected' \in {detected, detected \cup {n}}
       /\ failed_nodes' = IF n \in detected' THEN failed_nodes \cup {n} ELSE failed_nodes
  /\ UNCHANGED <<routing, running, local_storage, holder, pc, loc>>

PingsDone ==
  /\ At("failure_detection", "fd_ping") /\ (nodes_to_check = {} \/ ~running)
  /\ nodes_to_check' = {}
  /\ Goto("failure_detection", "fd_handle")
  /\ UNCHANGED <<routing, running, local_storage, detected, holder, failed_nodes>>

HandleFailed ==
  /\ At("failure_detection", "fd_handle") /\ running /\ failed_nodes # {}
  /\ Goto("failure_detection", "fd_update")
  /\ UNCHANGED shared

(* handle_node_failure for a node of the successor list: the list is       *)
(* shifted, then find_successor locks routing_mutex again.                 *)
HandleSuccessorFailure ==
  /\ Locks("failure_detection", "fd_update")
  /\ \E failed \in failed_nodes, i \in DOMAIN successor_list :
       /\ successor_list[i] = failed
       /\ \A j \in DOMAIN successor_list : j < i => successor_list[j] # failed
       /\ successor_list' = [j \in DOMAIN successor_list |->
            IF j >= i /\ j + 1 \in DOMAIN successor_list THEN successor_list[j + 1]
                                                         ELSE successor_list[j]]
  /\ holder' = "failure_detection"
  /\ Goto("failure_detection", "relock")
  /\ UNCHANGED <<predecessor, finger_table, next_finger_to_fix, running, local_storage,
                 detected, checking>>

(* handle_node_failure for any other node, up to trigger_re_replication.   *)
HandleOtherFailure ==
  /\ Locks("failure_detection", "fd_update")
  /\ \E failed \in failed_nodes :
       /\ \A i \in DOMAIN successor_list : successor_list[i] # failed
       /\ predecessor' = IF predecessor = failed THEN nullptr ELSE predecessor
       /\ finger_table' = [i \in DOMAIN finger_table |->
            IF finger_table[i] = failed THEN successor_list[0] ELSE finger_table[i]]
       /\ failed_nodes' = failed_nodes \ {failed}
  /\ holder' = "failure_detection"
  /\ Goto("failure_detection", "fd_keys")
  /\ UNCHANGED <<successor_list, next_finger_to_fix, running, local_storage, detected,
                 nodes_to_check>>

(* trigger_re_replication and verify_and_repair_replicas ask               *)
(* is_responsible_for_key, which locks again, for the first key held; with *)
(* no key they do nothing.                                                 *)
TriggerReReplication ==
  /\ At("failure_detection", "fd_keys") /\ StorageFree
  /\ IF local_storage # {}
       THEN Goto("failure_detection", "relock") /\ UNCHANGED holder
       ELSE Goto("failure_detection", "fd_handle") /\ holder' = Nobody
  /\ UNCHANGED <<routing, running, local_storage, detected, checking>>

(* cleanup_old_entries forgets the nodes last seen before its cutoff: any  *)
(* of those reported, time is left open.                                   *)
FailuresDone ==
  /\ At("failure_detection", "fd_handle") /\ (failed_nodes = {} \/ ~running)
  /\ detected' \in SUBSET detected
  /\ failed_nodes' = {}
  /\ Goto("failure_detection", "loop")
  /\ UNCHANGED <<routing, running, local_storage, holder, nodes_to_check>>
-----------------------------------------------------------------------------
(* Workers: handle_chord_operation, one request at a time.                 *)

Begin(t, label, locals) ==
  /\ t \in Workers
  /\ ChordEnabled
  /\ At(t, "idle")
  /\ GotoWith(t, label, locals)
  /\ UNCHANGED shared

ReceiveFindSuccessor(t) ==
  \E id \in Lookups :
    Begin(t, "fs_check", [NoLocals EXCEPT !.op = "FIND_SUCCESSOR", !.arg = id,
                                          !.ret = "answer"])

ReceiveNotify(t) ==
  \E n \in Notifiers :
    Begin(t, "nt_update", [NoLocals EXCEPT !.op = "NOTIFY", !.node = n])

(* std::stoi throws on what follows the colon, and no one catches it.  (A  *)
(* NOTIFY without a colon is answered and changes nothing.)                *)
ReceiveMalformedNotify(t) ==
  /\ MalformedNotify
  /\ Begin(t, "crashed", NoLocals)

ReceiveKeyRequest(t) ==
  \E op \in {"PUT", "GET", "DELETE"}, k \in Keys :
    Begin(t, "gate", [NoLocals EXCEPT !.op = op, !.arg = k])

(* TRANSFER_KEY: receive_transferred_key stores without a check. *)
ReceiveTransferKey(t) ==
  /\ t \in Workers
  /\ ChordEnabled
  /\ At(t, "idle") /\ StorageFree
  /\ \E k \in Keys : local_storage' = local_storage \cup {k}
  /\ UNCHANGED <<routing, running, detected, holder, pc, loc, checking>>

(* The handler sends its answer and the worker takes the next request.     *)
(* What it answers is said where it is called; no state keeps it.          *)
Reply(t) == GotoWith(t, "idle", NoLocals)

(* FIND_SUCCESSOR answers loc[t].res, NOTIFY success. *)
Answer(t) ==
  /\ At(t, "answer")
  /\ Reply(t)
  /\ UNCHANGED shared

(* notify.  The two shared_ptr compared outside the lock are never the     *)
(* same object, so a changed predecessor always leads to a transfer.       *)
Notify(t) ==
  /\ Locks(t, "nt_update")
  /\ LET n == loc[t].node
     IN  IF predecessor = nullptr \/ in_range(n, predecessor, Self, FALSE)
           THEN /\ predecessor' = n
                /\ GotoWith(t, "tr_scan", [loc[t] EXCEPT !.ret = "answer"])
           ELSE Goto(t, "answer") /\ UNCHANGED predecessor
  /\ UNCHANGED <<successor_list, finger_table, next_finger_to_fix, running, local_storage,
                 detected, holder, checking>>

(* transfer_keys_to_node(loc[t].node): get_keys_in_range asks, for every   *)
(* key, a predicate that tests predecessor and then reads through it, both *)
(* without routing_mutex.                                                  *)
ScanLabel(todo) == IF todo = {} THEN "tr_send" ELSE "tr_test"

TransferScan(t) ==
  /\ At(t, "tr_scan") /\ StorageFree
  /\ GotoWith(t, ScanLabel(local_storage), [loc[t] EXCEPT !.todo = local_storage, !.moving = {}])
  /\ UNCHANGED shared

(* if (predecessor) *)
TransferTest(t) ==
  /\ At(t, "tr_test")
  /\ \E k \in loc[t].todo :
       LET rest == loc[t].todo \ {k}
       IN  IF predecessor = nullptr
             THEN GotoWith(t, ScanLabel(rest), [loc[t] EXCEPT !.todo = rest])
             ELSE GotoWith(t, "tr_deref", [loc[t] EXCEPT !.todo = rest, !.arg = k])
  /\ UNCHANGED shared

(* predecessor->id, whatever other threads have made of it meanwhile. *)
TransferRead(t) ==
  /\ At(t, "tr_deref")
  /\ IF predecessor = nullptr
       THEN Goto(t, "crashed")
       ELSE GotoWith(t, ScanLabel(loc[t].todo), [loc[t] EXCEPT !.moving =
              IF in_range(loc[t].arg, predecessor, loc[t].node, TRUE)
                THEN @ \cup {loc[t].arg} ELSE @])
  /\ UNCHANGED shared

(* send_key_transfer of the next key; the target may refuse it. *)
TransferSend(t) ==
  /\ At(t, "tr_send")
  /\ \E k \in loc[t].moving :
       \/ GotoWith(t, "tr_remove", [loc[t] EXCEPT !.moving = @ \ {k}, !.arg = k])
       \/ GotoWith(t, "tr_send", [loc[t] EXCEPT !.moving = @ \ {k}])
  /\ UNCHANGED shared

TransferRemove(t) ==
  /\ At(t, "tr_remove") /\ StorageFree
  /\ local_storage' = local_storage \ {loc[t].arg}
  /\ Goto(t, "tr_send")
  /\ UNCHANGED <<routing, running, detected, holder, checking>>

TransferDone(t) ==
  /\ At(t, "tr_send")
  /\ loc[t].moving = {}
  /\ Goto(t, loc[t].ret)
  /\ UNCHANGED shared
-----------------------------------------------------------------------------
(* PUT, GET and DELETE: the gate of handle_chord_operation, then store_key, *)
(* retrieve_key or remove_key, which checks responsibility again.          *)

CallFindSuccessor(t, ret) == GotoWith(t, "fs_check", [loc[t] EXCEPT !.ret = ret])

Gate(t) ==
  /\ Locks(t, "gate")
  /\ IF Responsible(loc[t].arg) THEN Goto(t, "check")
                                ELSE CallFindSuccessor(t, "redirect")
  /\ UNCHANGED shared

(* REDIRECT to the node found, unless that is this one. *)
Redirect(t) ==
  /\ At(t, "redirect")
  /\ IF loc[t].res \notin {nullptr, Self}
       THEN Reply(t)
       ELSE GotoWith(t, "check", [loc[t] EXCEPT !.res = nullptr, !.ret = "none"])
  /\ UNCHANGED shared

CheckResponsible(t) ==
  /\ Locks(t, "check")
  /\ IF Responsible(loc[t].arg) THEN Goto(t, "local")
                                ELSE CallFindSuccessor(t, "forward")
  /\ UNCHANGED shared

(* The request is sent on to the node found, whose answer is the answer;   *)
(* failure when that is this node.                                         *)
Forward(t) ==
  /\ At(t, "forward")
  /\ Reply(t)
  /\ UNCHANGED shared

StoreLocally(t) ==
  /\ At(t, "local") /\ loc[t].op = "PUT" /\ StorageFree
  /\ local_storage' = local_storage \cup {loc[t].arg}
  /\ Goto(t, "replicate")
  /\ UNCHANGED <<routing, running, detected, holder, checking>>

GetLocally(t) ==
  /\ At(t, "local") /\ loc[t].op = "GET" /\ StorageFree
  /\ IF loc[t].arg \in local_storage THEN Reply(t)
                                     ELSE Goto(t, "replicate")
  /\ UNCHANGED shared

ExistsLocally(t) ==
  /\ At(t, "local") /\ loc[t].op = "DELETE" /\ StorageFree
  /\ Goto(t, IF loc[t].arg \in local_storage THEN "remove" ELSE "probe")
  /\ UNCHANGED shared

(* get_from_replicas before a DELETE of a key not held here. *)
ProbeReplicas(t) ==
  /\ Locks(t, "probe")
  /\ \/ ReplicaNodes # {} /\ Goto(t, "remove")
     \/ Reply(t)                                       \* KEY_NOT_FOUND
  /\ UNCHANGED shared

RemoveLocally(t) ==
  /\ At(t, "remove") /\ StorageFree
  /\ local_storage' = local_storage \ {loc[t].arg}
  /\ Goto(t, "replicate")
  /\ UNCHANGED <<routing, running, detected, holder, checking>>

(* get_replica_nodes under the lock, then replicate_put, get_from_replicas *)
(* or replicate_delete on the nodes read.  The calls touch no state of this *)
(* node, so they are part of the step that reads the list.  A failed       *)
(* replicate_delete is only logged.                                        *)
Replicate(t) ==
  /\ Locks(t, "replicate")
  /\ \/ Reply(t)
     \/ /\ loc[t].op = "PUT" /\ ReplicaNodes # {}      \* some replica failed
        /\ Goto(t, "rollback")
  /\ UNCHANGED shared

RollbackAndRetry(t) ==
  /\ At(t, "rollback") /\ StorageFree
  /\ local_storage' = local_storage \ {loc[t].arg}
  /\ Goto(t, "local")
  /\ UNCHANGED <<routing, running, detected, holder, checking>>

(* store_key undoes the local put by removing the key, and answers an error. *)
Rollback(t) ==
  /\ At(t, "rollback") /\ StorageFree
  /\ local_storage' = local_storage \ {loc[t].arg}
  /\ Reply(t)
  /\ UNCHANGED <<routing, running, detected, holder, checking>>
-----------------------------------------------------------------------------
MainStep ==
  \/ Create \/ Join \/ StartMaintenance \/ StopMaintenance
  \/ LeaveReadSuccessor \/ LeaveReset \/ DisableChord

Transfer(t) ==
  \/ TransferScan(t) \/ TransferTest(t) \/ TransferRead(t)
  \/ TransferSend(t) \/ TransferRemove(t) \/ TransferDone(t)

FindSuccessor(t) == FindSuccessorCheck(t) \/ FindSuccessorLookup(t)

StabilizeStep == StabilizeRead \/ StabilizeContact \/ StabilizeAdopt \/ StabilizeNotify

FixFingersStep ==
  FixFingersNext \/ FixFingersCall \/ FixFingersSet \/ FindSuccessor("fix_fingers")

FailureDetectionStep ==
  CopyNodesToCheck \/ PingNode \/ PingsDone \/ HandleFailed \/ HandleSuccessorFailure
  \/ HandleOtherFailure \/ TriggerReReplication \/ FailuresDone

Receive(t) ==
  \/ ReceiveFindSuccessor(t) \/ ReceiveNotify(t) \/ ReceiveMalformedNotify(t)
  \/ ReceiveKeyRequest(t) \/ ReceiveTransferKey(t)

(* A step of a request already received. *)
Serve(t) ==
  \/ Answer(t) \/ Notify(t) \/ Transfer(t) \/ FindSuccessor(t)
  \/ Gate(t) \/ Redirect(t) \/ CheckResponsible(t) \/ Forward(t)
  \/ StoreLocally(t) \/ GetLocally(t) \/ ExistsLocally(t) \/ ProbeReplicas(t)
  \/ RemoveLocally(t) \/ Replicate(t) \/ Rollback(t)

(* The process has ended by a null pointer or an exception no one catches. *)
Crashed == \E t \in Threads : pc[t] = "crashed"

(* A thread waits for the routing_mutex it holds, and will for ever. *)
Wedged == \E t \in Threads : pc[t] = "relock"

(* The stopped node: any other state without a successor is a deadlock. *)
Stopped ==
  /\ pc["main"] = "stopped"
  /\ \A t \in Maintenance : pc[t] = "exited"
  /\ \A t \in Workers : pc[t] = "idle"
  /\ UNCHANGED vars

Next ==
  \/ /\ ~Crashed
     /\ \/ MainStep \/ Transfer("main")
        \/ \E t \in Maintenance : Loop(t)
        \/ StabilizeStep \/ FixFingersStep \/ FailureDetectionStep
        \/ \E t \in Workers : Receive(t) \/ Serve(t)
  \/ Stopped

Spec == Init /\ [][Next]_vars

(* A thread that can take a step eventually takes one: the scheduler runs  *)
(* it, and its waits for the network end by the timeouts of Client.  New   *)
(* requests and the order to stop are not fair.                            *)
FairSpec ==
  /\ Spec
  /\ WF_vars(/\ ~Crashed
             /\ \/ Create \/ Join \/ StartMaintenance \/ LeaveReadSuccessor \/ LeaveReset
                \/ DisableChord \/ Transfer("main"))
  /\ WF_vars(~Crashed /\ (StabilizeStep \/ Loop("stabilize")))
  /\ WF_vars(~Crashed /\ (FixFingersStep \/ Loop("fix_fingers")))
  /\ WF_vars(~Crashed /\ (FailureDetectionStep \/ Loop("failure_detection")))
  /\ \A t \in Workers : WF_vars(~Crashed /\ Serve(t))
-----------------------------------------------------------------------------
(* A two-node neighbourhood: peers that send NOTIFY lie between this node  *)
(* and its successor (or are the successor), the successor always answers, *)
(* a node that can see failures holds no key, and the node does not leave. *)
(* Inside it the node is free of self-deadlock.                            *)
TwoNodeEnvelope ==
  /\ \A n \in Notifiers : in_range(n, Self, Existing, TRUE)
  /\ Existing \notin Faulty
  /\ Faulty # {} => Keys = {}
  /\ ~MayLeave

(* No thread waits for a routing_mutex it holds: neither find_successor    *)
(* reaches closest_preceding_node nor handle_node_failure its nested calls. *)
NoSelfDeadlock == \A t \in Threads : ~(holder = t /\ pc[t] = "relock")

(* While the node takes part in a ring, the ranges (predecessor, self] and *)
(* (self, successor] cover every identifier: this is what keeps            *)
(* find_successor from needing closest_preceding_node.                     *)
RingCovered ==
  \A id \in Hash160 : Responsible(id) \/ in_range(id, Self, successor_list[0], TRUE)

(* find_successor answers with this node or the node it joined through,    *)
(* and the fingers it fills name no other node: lookups never leave the    *)
(* two-node neighbourhood, whatever NOTIFY and failures did meanwhile.     *)
LookupsStayLocal ==
  /\ \A i \in DOMAIN finger_table : finger_table[i] \in {Self, Existing}
  /\ \A t \in Threads :
       (pc[t] \in {"redirect", "forward", "ff_set"} \/
         (pc[t] = "answer" /\ loc[t].op = "FIND_SUCCESSOR"))
       => loc[t].res \in {Self, Existing}

(* A request that passed the gate and finds the node responsible no longer *)
(* is sent on to another node: find_successor, which tests responsibility  *)
(* a third time, never answers this node, upon which store_key,            *)
(* retrieve_key and remove_key would refuse the request.                   *)
ForwardsElsewhere ==
  \A t \in Workers : pc[t] = "forward" => loc[t].res \notin {nullptr, Self}

(* Once a thread waits for itself the routing state is frozen: no thread,  *)
(* nor a leave or a failure handled meanwhile, writes it again.            *)
WedgeIsFinal == [][Wedged => UNCHANGED <<holder, routing>>]_vars

(* "If we have a new predecessor, transfer keys that now belong to them":  *)
(* no key is removed that this node is responsible for at that moment.     *)
TransferKeepsOwnKeys ==
  [][\A t \in Workers : TransferRemove(t) => ~Responsible(loc[t].arg)]_vars

(* Every request received is answered. *)
RequestsAnswered == \A t \in Workers : pc[t] # "idle" ~> pc[t] = "idle"

(* After stop_maintenance, "the threads will check running.load() and exit *)
(* naturally", although nobody joins them.                                 *)
StoppedThreadsExit ==
  (pc["main"] = "stopping") ~> (\A t \in Maintenance : pc[t] = "exited")
=============================================================================
