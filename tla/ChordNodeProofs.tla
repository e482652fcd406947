--------------------------- MODULE ChordNodeProofs ---------------------------
(***************************************************************************)
(* Theorems about ChordNode, for every ring size, position of the nodes,   *)
(* set of workers, keys and peers.                                         *)
(***************************************************************************)
EXTENDS ChordNode, TLAPS

-----------------------------------------------------------------------------
(* Lemmas about the ring.                                                  *)

(* in_range answers a Boolean, whatever the branch. *)
LEMMA InRangeBoolean ==
  ASSUME NEW id \in Int, NEW start \in Int, NEW end \in Int, NEW incl \in BOOLEAN
  PROVE  in_range(id, start, end, incl) \in BOOLEAN
BY DEF in_range

(* When p lies in (s, e], the ranges (p, s] and (s, e] leave no identifier *)
(* out: the fact behind find_successor in a two-node neighbourhood.        *)
LEMMA RangesCover ==
  ASSUME NEW id \in Int, NEW p \in Int, NEW s \in Int, NEW e \in Int,
         p # s, in_range(p, s, e, TRUE)
  PROVE  in_range(id, p, s, TRUE) \/ in_range(id, s, e, TRUE)
BY DEF in_range

(* A placeholder answer, the successor itself, is never adopted by         *)
(* stabilize: (s, e) does not contain e.                                   *)
LEMMA EndNotInside ==
  ASSUME NEW s \in Int, NEW e \in Int
  PROVE  ~in_range(e, s, e, FALSE)
BY DEF in_range

(* Identifiers are integers, and arithmetic on the ring stays in it. *)
LEMMA RingIds == /\ Hash160 \subseteq Int
                 /\ Nodes \subseteq Hash160
                 /\ nullptr \notin Hash160
                 /\ 0 \in Hash160
                 /\ \A i \in 0 .. (FINGER_TABLE_SIZE - 1) : FingerStart(i) \in Hash160
<1>1. 2^Bits \in Nat \ {0} /\ 2^Bits - 1 \in Nat
  BY BitsAssumption
<1>2. /\ Hash160 \subseteq Int /\ Nodes \subseteq Hash160 /\ nullptr \notin Hash160
      /\ 0 \in Hash160
  BY <1>1, NodeAssumption DEF Hash160, Nodes, nullptr
<1>3. ASSUME NEW i \in 0 .. (Bits - 1)
      PROVE  (Self + 2^i) % 2^Bits \in 0 .. (2^Bits - 1)
  <2>1. 2^i \in Int
    BY BitsAssumption
  <2>2. Self + 2^i \in Int
    BY <2>1, <1>2, NodeAssumption
  <2> DEFINE m == 2^Bits
             a == Self + 2^i
  <2>3. m \in Nat \ {0} /\ a \in Int
    BY <1>1, <2>2
  <2> HIDE DEF m, a
  <2>4. a % m \in 0 .. (m - 1)
    BY <2>3
  <2> QED
    BY <2>4 DEF m, a
<1> QED
  BY <1>2, <1>3 DEF FingerStart, add_power_of_two, FINGER_TABLE_SIZE, Hash160
-----------------------------------------------------------------------------
(* Type correctness.  TypeOK is inductive.                                 *)

(* What every step of a thread relies on. *)
LEMMA ThreadNames ==
  /\ Workers \subseteq Threads /\ Maintenance \subseteq Threads /\ "main" \in Threads
  /\ "stabilize" \in Threads /\ "fix_fingers" \in Threads /\ "failure_detection" \in Threads
BY DEF Threads, Maintenance

(* The nodes that appear by name are nodes. *)
LEMMA NodeTypes == /\ Self \in NodeOrNull /\ nullptr \in NodeOrNull /\ Self \in Nodes
                   /\ Nodes \subseteq NodeOrNull /\ Existing \in Nodes
                   /\ Notifiers \subseteq NodeOrNull
BY NodeAssumption DEF Nodes, NodeOrNull

(* The updates of local variables that the actions make keep their type. *)
LEMMA LocalsClosed ==
  ASSUME NEW r \in Locals, NEW n \in NodeOrNull, NEW l \in Labels, NEW k \in Hash160,
         NEW K \in SUBSET Hash160
  PROVE  /\ [r EXCEPT !.res = n] \in Locals
         /\ [r EXCEPT !.node = n] \in Locals
         /\ [r EXCEPT !.ret = l] \in Locals
         /\ [r EXCEPT !.node = n, !.ret = l] \in Locals
         /\ [r EXCEPT !.res = n, !.ret = l] \in Locals
         /\ [r EXCEPT !.arg = k, !.ret = l] \in Locals
         /\ [r EXCEPT !.moving = K] \in Locals
         /\ [r EXCEPT !.moving = K, !.arg = k] \in Locals
         /\ [r EXCEPT !.todo = K] \in Locals
         /\ [r EXCEPT !.todo = K, !.moving = {}] \in Locals
         /\ [r EXCEPT !.todo = K, !.arg = k] \in Locals
BY DEF Locals

(* The locals of an idle thread have their type. *)
LEMMA NoLocalsType ==
  /\ NoLocals \in Locals
  /\ \A op \in Requests, k \in Hash160, n \in NodeOrNull, l \in Labels :
       /\ [NoLocals EXCEPT !.op = op, !.arg = k] \in Locals
       /\ [NoLocals EXCEPT !.op = op, !.node = n] \in Locals
       /\ [NoLocals EXCEPT !.op = op, !.arg = k, !.ret = l] \in Locals
<1>1. 0 \in Hash160 /\ "none" \in Labels /\ nullptr \in NodeOrNull
  BY RingIds, NodeTypes DEF Labels
<1>2. NoLocals \in Locals
  BY <1>1 DEF NoLocals, Locals
<1>3. ASSUME NEW op \in Requests, NEW k \in Hash160, NEW n \in NodeOrNull, NEW l \in Labels
      PROVE  /\ [NoLocals EXCEPT !.op = op, !.arg = k] \in Locals
             /\ [NoLocals EXCEPT !.op = op, !.node = n] \in Locals
             /\ [NoLocals EXCEPT !.op = op, !.arg = k, !.ret = l] \in Locals
  BY <1>2 DEF Locals
<1> QED
  BY <1>2, <1>3

(* A thread that goes on at a label of the program keeps the types. *)
LEMMA GotoType ==
  ASSUME TypeOK, NEW t \in Threads, NEW l \in Labels, NEW r \in Locals,
         Goto(t, l) \/ GotoWith(t, l, r)
  PROVE  pc' \in [Threads -> Labels] /\ loc' \in [Threads -> Locals]
BY DEF Goto, GotoWith, TypeOK

(* The types hold at the start. *)
LEMMA TypeInit == Init => TypeOK
<1> SUFFICES ASSUME Init PROVE TypeOK
  OBVIOUS
<1>1. pc \in [Threads -> Labels]
  BY DEF Init, Labels
<1>2. loc \in [Threads -> Locals]
  BY NoLocalsType DEF Init
<1>3. next_finger_to_fix \in 0 .. (FINGER_TABLE_SIZE - 1)
  BY BitsAssumption DEF Init, FINGER_TABLE_SIZE
<1>4. holder \in Threads \cup {Nobody}
  BY DEF Init
<1> QED
  BY <1>1, <1>2, <1>3, <1>4, NodeTypes DEF Init, TypeOK

(* The main thread. *)
LEMMA TypeMain == TypeOK /\ MainStep => TypeOK'
<1> SUFFICES ASSUME TypeOK, MainStep PROVE TypeOK'
  OBVIOUS
<1> USE ThreadNames, NodeTypes, NodeAssumption
<1>0. loc["main"] \in Locals /\ successor_list[0] \in Nodes
  BY DEF TypeOK
<1>1. CASE Create
  <2>1. pc' \in [Threads -> Labels] /\ loc' \in [Threads -> Locals]
    BY <1>0, <1>1, GotoType DEF Create, Labels
  <2> QED
    BY <1>1, <2>1 DEF Create, TypeOK, checking
<1>2. CASE Join
  <2>1. pc' \in [Threads -> Labels] /\ loc' \in [Threads -> Locals]
    BY <1>0, <1>2, GotoType DEF Join, Labels
  <2> QED
    BY <1>2, <2>1 DEF Join, TypeOK, checking
<1>3. CASE StartMaintenance
  <2>1. pc' \in [Threads -> Labels] /\ loc' \in [Threads -> Locals]
    BY <1>3 DEF StartMaintenance, Labels, TypeOK
  <2> QED
    BY <1>3, <2>1 DEF StartMaintenance, TypeOK, routing, checking
<1>4. CASE StopMaintenance
  <2>1. pc' \in [Threads -> Labels] /\ loc' \in [Threads -> Locals]
    BY <1>0, <1>4, GotoType DEF StopMaintenance, Labels
  <2> QED
    BY <1>4, <2>1 DEF StopMaintenance, TypeOK, routing, checking
<1>5. CASE LeaveReadSuccessor
  <2>1. [loc["main"] EXCEPT !.node = successor_list[0], !.ret = "lv_reset"] \in Locals
    BY <1>0, RingIds, LocalsClosed DEF Labels
  <2>2. pc' \in [Threads -> Labels] /\ loc' \in [Threads -> Locals]
    BY <1>0, <1>5, <2>1, GotoType DEF LeaveReadSuccessor, Labels
  <2> QED
    BY <1>5, <2>2 DEF LeaveReadSuccessor, TypeOK, shared, routing, checking
<1>6. CASE LeaveReset
  <2>1. pc' \in [Threads -> Labels] /\ loc' \in [Threads -> Locals]
    BY <1>0, <1>6, GotoType DEF LeaveReset, Labels
  <2> QED
    BY <1>6, <2>1 DEF LeaveReset, TypeOK, checking
<1>7. CASE DisableChord
  <2>1. pc' \in [Threads -> Labels] /\ loc' \in [Threads -> Locals]
    BY <1>0, <1>7, GotoType DEF DisableChord, Labels
  <2> QED
    BY <1>7, <2>1 DEF DisableChord, TypeOK, shared, routing, checking
<1> QED
  BY <1>1, <1>2, <1>3, <1>4, <1>5, <1>6, <1>7 DEF MainStep

(* find_successor and transfer_keys_to_node, in whichever thread. *)
LEMMA TypeCalls ==
  ASSUME TypeOK, NEW t \in Threads, FindSuccessor(t) \/ Transfer(t)
  PROVE  TypeOK'
<1> USE NodeTypes
<1>0. /\ loc[t] \in Locals /\ loc[t].ret \in Labels /\ loc[t].moving \subseteq Hash160
      /\ loc[t].todo \subseteq Hash160 /\ loc[t].arg \in Hash160
      /\ successor_list[0] \in NodeOrNull
      /\ {"relock", "fs_lookup", "tr_deref", "tr_send", "tr_remove", "crashed"} \subseteq Labels
      /\ \A K : ScanLabel(K) \in Labels
  BY NodeAssumption DEF TypeOK, Locals, Labels, ScanLabel
<1>1. CASE FindSuccessorCheck(t)
  <2>1. [loc[t] EXCEPT !.res = Self] \in Locals
    BY <1>0, RingIds, LocalsClosed
  <2>2. pc' \in [Threads -> Labels] /\ loc' \in [Threads -> Locals]
    BY <1>0, <1>1, <2>1, GotoType DEF FindSuccessorCheck
  <2> QED
    BY <1>1, <2>2 DEF FindSuccessorCheck, TypeOK, shared, routing, checking
<1>2. CASE FindSuccessorLookup(t)
  <2>1. [loc[t] EXCEPT !.res = successor_list[0]] \in Locals
    BY <1>0, RingIds, LocalsClosed
  <2>2. pc' \in [Threads -> Labels] /\ loc' \in [Threads -> Locals]
    BY <1>0, <1>2, <2>1, GotoType DEF FindSuccessorLookup
  <2> QED
    BY <1>2, <2>2 DEF FindSuccessorLookup, TypeOK, routing, checking
<1>3. CASE TransferScan(t)
  <2>1. [loc[t] EXCEPT !.todo = local_storage, !.moving = {}] \in Locals
    BY <1>0, RingIds, LocalsClosed DEF TypeOK
  <2>2. pc' \in [Threads -> Labels] /\ loc' \in [Threads -> Locals]
    BY <1>0, <1>3, <2>1, GotoType DEF TransferScan
  <2> QED
    BY <1>3, <2>2 DEF TransferScan, TypeOK, shared, routing, checking
<1>7. CASE TransferTest(t)
  <2>1. ASSUME NEW k \in loc[t].todo
        PROVE  /\ [loc[t] EXCEPT !.todo = loc[t].todo \ {k}] \in Locals
               /\ [loc[t] EXCEPT !.todo = loc[t].todo \ {k}, !.arg = k] \in Locals
    <3>1. loc[t].todo \ {k} \in SUBSET Hash160 /\ k \in Hash160
      BY <1>0
    <3> QED
      BY <1>0, <3>1, LocalsClosed
  <2>2. pc' \in [Threads -> Labels] /\ loc' \in [Threads -> Locals]
    BY <1>0, <1>7, <2>1, GotoType DEF TransferTest
  <2> QED
    BY <1>7, <2>2 DEF TransferTest, TypeOK, shared, routing, checking
<1>8. CASE TransferRead(t)
  <2> DEFINE K == IF in_range(loc[t].arg, predecessor, loc[t].node, TRUE)
                    THEN loc[t].moving \cup {loc[t].arg} ELSE loc[t].moving
  <2>1. K \in SUBSET Hash160
    BY <1>0
  <2>2. [loc[t] EXCEPT !.moving = K] \in Locals
    BY <1>0, <2>1, LocalsClosed
  <2>3. pc' \in [Threads -> Labels] /\ loc' \in [Threads -> Locals]
    BY <1>0, <1>8, <2>2, GotoType DEF TransferRead
  <2> QED
    BY <1>8, <2>3 DEF TransferRead, TypeOK, shared, routing, checking
<1>4. CASE TransferSend(t)
  <2>1. ASSUME NEW k \in loc[t].moving
        PROVE  /\ [loc[t] EXCEPT !.moving = @ \ {k}, !.arg = k] \in Locals
               /\ [loc[t] EXCEPT !.moving = @ \ {k}] \in Locals
    <3>1. loc[t].moving \ {k} \in SUBSET Hash160 /\ k \in Hash160
      BY <1>0
    <3> QED
      BY <1>0, <3>1, LocalsClosed
  <2>2. pc' \in [Threads -> Labels] /\ loc' \in [Threads -> Locals]
    BY <1>0, <1>4, <2>1, GotoType DEF TransferSend
  <2> QED
    BY <1>4, <2>2 DEF TransferSend, TypeOK, shared, routing, checking
<1>5. CASE TransferRemove(t)
  <2>1. pc' \in [Threads -> Labels] /\ loc' \in [Threads -> Locals]
    BY <1>0, <1>5, GotoType DEF TransferRemove
  <2> QED
    BY <1>5, <2>1 DEF TransferRemove, TypeOK, routing, checking
<1>6. CASE TransferDone(t)
  <2>1. pc' \in [Threads -> Labels] /\ loc' \in [Threads -> Locals]
    BY <1>0, <1>6, GotoType DEF TransferDone
  <2> QED
    BY <1>6, <2>1 DEF TransferDone, TypeOK, shared, routing, checking
<1> QED
  BY <1>1, <1>2, <1>3, <1>4, <1>5, <1>6, <1>7, <1>8 DEF FindSuccessor, Transfer

(* The maintenance threads. *)
LEMMA TypeStabilize ==
  ASSUME TypeOK, StabilizeStep
  PROVE  TypeOK'
<1> DEFINE t == "stabilize"
<1> USE NodeTypes, ThreadNames
<1>s. successor_list[0] \in Nodes
  BY NodeAssumption DEF TypeOK
<1>t. loc[t] \in Locals
  BY DEF TypeOK
<1>a. loc[t] \in Locals /\ successor_list[0] \in NodeOrNull /\ 0 \in Hash160
  BY <1>s, <1>t, RingIds
<1>b. loc[t].node \in NodeOrNull /\ loc[t].res \in NodeOrNull
  BY <1>a DEF Locals
<1>c. {"loop", "st_contact", "st_adopt", "st_notify"} \subseteq Labels
  BY DEF Labels
<1>0. /\ loc[t] \in Locals /\ loc[t].node \in NodeOrNull /\ loc[t].res \in NodeOrNull
      /\ successor_list[0] \in NodeOrNull /\ 0 \in Hash160
      /\ {"loop", "st_contact", "st_adopt", "st_notify"} \subseteq Labels
  BY <1>a, <1>b, <1>c
<1>1. CASE StabilizeRead
  <2>1. [loc[t] EXCEPT !.node = successor_list[0]] \in Locals
    BY <1>0, LocalsClosed
  <2>2. pc' \in [Threads -> Labels] /\ loc' \in [Threads -> Locals]
    BY <1>0, <1>1, <2>1, GotoType DEF StabilizeRead
  <2> QED
    BY <1>1, <2>2 DEF StabilizeRead, TypeOK, shared, routing, checking
<1>2. CASE StabilizeContact
  <2>1. ASSUME NEW ok \in BOOLEAN
        PROVE  [loc[t] EXCEPT !.res = IF ok THEN loc[t].node ELSE nullptr] \in Locals
    BY <1>0, LocalsClosed
  <2>2. pc' \in [Threads -> Labels] /\ loc' \in [Threads -> Locals]
    BY <1>0, <1>2, <2>1, GotoType DEF StabilizeContact, Answers
  <2>3. detected' \in SUBSET Faulty
    BY <1>2 DEF StabilizeContact, Contact, Answers, TypeOK
  <2> QED
    BY <1>2, <2>2, <2>3 DEF StabilizeContact, TypeOK, routing, checking
<1>3. CASE StabilizeAdopt
  <2>1. ASSUME NEW n \in {loc[t].res, loc[t].node}
        PROVE  [loc[t] EXCEPT !.node = n] \in Locals
    BY <1>0, LocalsClosed
  <2>2. pc' \in [Threads -> Labels] /\ loc' \in [Threads -> Locals]
    BY <1>0, <1>3, <2>1, GotoType DEF StabilizeAdopt
  <2>3. successor_list' \in [0 .. (SUCCESSOR_LIST_SIZE - 1) -> Nodes]
    BY <1>0, <1>3 DEF StabilizeAdopt, TypeOK, NodeOrNull
  <2> QED
    BY <1>3, <2>2, <2>3 DEF StabilizeAdopt, TypeOK, checking
<1>4. CASE StabilizeNotify
  <2>1. pc' \in [Threads -> Labels] /\ loc' \in [Threads -> Locals]
    BY <1>0, <1>4, NoLocalsType, GotoType DEF StabilizeNotify
  <2>2. detected' \in SUBSET Faulty
    BY <1>4 DEF StabilizeNotify, Contact, Answers, TypeOK
  <2> QED
    BY <1>4, <2>1, <2>2 DEF StabilizeNotify, TypeOK, routing, checking
<1> QED
  BY <1>1, <1>2, <1>3, <1>4 DEF StabilizeStep

(* The steps of fix_fingers keep the types. *)
LEMMA TypeFixFingers ==
  ASSUME TypeOK, FixFingersStep
  PROVE  TypeOK'
<1> DEFINE t == "fix_fingers"
<1> USE NodeTypes, ThreadNames
<1>a. loc[t] \in Locals /\ NoLocals \in Locals
  BY NoLocalsType DEF TypeOK
<1>b. loc[t].res \in NodeOrNull
  BY <1>a DEF Locals
<1>c. {"loop", "ff_call", "ff_set", "fs_check"} \subseteq Labels
  BY DEF Labels
<1>0. /\ loc[t] \in Locals /\ loc[t].res \in NodeOrNull /\ NoLocals \in Locals
      /\ {"loop", "ff_call", "ff_set", "fs_check"} \subseteq Labels
  BY <1>a, <1>b, <1>c
<1>1. CASE FixFingersNext
  <2>1. next_finger_to_fix' \in 0 .. (FINGER_TABLE_SIZE - 1)
    BY <1>1, BitsAssumption DEF FixFingersNext, TypeOK, FINGER_TABLE_SIZE
  <2>2. [NoLocals EXCEPT !.arg = FingerStart(next_finger_to_fix'), !.ret = "ff_set"] \in Locals
    <3>1. FingerStart(next_finger_to_fix') \in Hash160
      BY <2>1, RingIds
    <3> QED
      BY <3>1, <1>0, LocalsClosed
  <2>3. pc' \in [Threads -> Labels] /\ loc' \in [Threads -> Locals]
    BY <1>0, <1>1, <2>2, GotoType DEF FixFingersNext
  <2> QED
    BY <1>1, <2>1, <2>3 DEF FixFingersNext, TypeOK, checking
<1>2. CASE FixFingersCall
  <2>1. pc' \in [Threads -> Labels] /\ loc' \in [Threads -> Locals]
    BY <1>0, <1>2, GotoType DEF FixFingersCall
  <2> QED
    BY <1>2, <2>1 DEF FixFingersCall, TypeOK, shared, routing, checking
<1>3. CASE FixFingersSet
  <2>1. pc' \in [Threads -> Labels] /\ loc' \in [Threads -> Locals]
    BY <1>0, <1>3, GotoType DEF FixFingersSet
  <2>2. finger_table' \in [0 .. (FINGER_TABLE_SIZE - 1) -> Nodes]
    BY <1>0, <1>3 DEF FixFingersSet, TypeOK, NodeOrNull
  <2> QED
    BY <1>3, <2>1, <2>2 DEF FixFingersSet, TypeOK, checking
<1>4. CASE FindSuccessor(t)
  BY <1>4, TypeCalls
<1> QED
  BY <1>1, <1>2, <1>3, <1>4 DEF FixFingersStep

(* The steps of failure_detection_loop keep the types. *)
LEMMA TypeFailureDetection ==
  ASSUME TypeOK, FailureDetectionStep
  PROVE  TypeOK'
<1> DEFINE t == "failure_detection"
<1> USE NodeTypes, ThreadNames
<1>0. /\ loc[t] \in Locals
      /\ {"loop", "fd_ping", "fd_handle", "fd_update", "fd_keys", "relock"} \subseteq Labels
  BY DEF TypeOK, Labels
<1>1. CASE CopyNodesToCheck
  <2>1. pc' \in [Threads -> Labels] /\ loc' \in [Threads -> Locals]
    BY <1>0, <1>1, GotoType DEF CopyNodesToCheck
  <2>2. nodes_to_check' \in SUBSET Peers
    BY <1>1 DEF CopyNodesToCheck, TypeOK, NodeOrNull, Nodes
  <2> QED
    BY <1>1, <2>1, <2>2 DEF CopyNodesToCheck, TypeOK, routing
<1>2. CASE PingNode
  <2>1. detected' \in SUBSET Faulty
    BY <1>2 DEF PingNode, Answers, TypeOK
  <2>2. failed_nodes' \in SUBSET Faulty /\ nodes_to_check' \in SUBSET Peers
    BY <1>2, <2>1 DEF PingNode, TypeOK
  <2> QED
    BY <1>2, <2>1, <2>2 DEF PingNode, TypeOK, routing
<1>3. CASE PingsDone
  <2>1. pc' \in [Threads -> Labels] /\ loc' \in [Threads -> Locals]
    BY <1>0, <1>3, GotoType DEF PingsDone
  <2> QED
    BY <1>3, <2>1 DEF PingsDone, TypeOK, routing
<1>4. CASE HandleFailed
  <2>1. pc' \in [Threads -> Labels] /\ loc' \in [Threads -> Locals]
    BY <1>0, <1>4, GotoType DEF HandleFailed
  <2> QED
    BY <1>4, <2>1 DEF HandleFailed, TypeOK, shared, routing, checking
<1>5. CASE HandleSuccessorFailure
  <2>1. pc' \in [Threads -> Labels] /\ loc' \in [Threads -> Locals]
    BY <1>0, <1>5, GotoType DEF HandleSuccessorFailure
  <2>2. successor_list' \in [0 .. (SUCCESSOR_LIST_SIZE - 1) -> Nodes]
    BY <1>5 DEF HandleSuccessorFailure, TypeOK
  <2> QED
    BY <1>5, <2>1, <2>2 DEF HandleSuccessorFailure, TypeOK, checking
<1>6. CASE HandleOtherFailure
  <2>1. pc' \in [Threads -> Labels] /\ loc' \in [Threads -> Locals]
    BY <1>0, <1>6, GotoType DEF HandleOtherFailure
  <2>2. successor_list[0] \in Nodes
    BY NodeAssumption DEF TypeOK
  <2>3. /\ predecessor' \in NodeOrNull
        /\ finger_table' \in [0 .. (FINGER_TABLE_SIZE - 1) -> Nodes]
        /\ failed_nodes' \in SUBSET Faulty
        /\ holder' \in Threads \cup {Nobody}
    BY <1>6, <2>2 DEF HandleOtherFailure, TypeOK
  <2> QED
    BY <1>6, <2>1, <2>3 DEF HandleOtherFailure, TypeOK
<1>7. CASE FailuresDone
  <2>1. pc' \in [Threads -> Labels] /\ loc' \in [Threads -> Locals]
    BY <1>0, <1>7, GotoType DEF FailuresDone
  <2> QED
    BY <1>7, <2>1 DEF FailuresDone, TypeOK, routing
<1>8. CASE TriggerReReplication
  <2>1. pc' \in [Threads -> Labels] /\ loc' \in [Threads -> Locals]
    BY <1>0, <1>8, GotoType DEF TriggerReReplication
  <2>2. holder' \in Threads \cup {Nobody}
    BY <1>8 DEF TriggerReReplication, TypeOK
  <2> QED
    BY <1>8, <2>1, <2>2 DEF TriggerReReplication, TypeOK, routing, checking
<1> QED
  BY <1>1, <1>2, <1>3, <1>4, <1>5, <1>6, <1>7, <1>8 DEF FailureDetectionStep

(* The maintenance loops and their start and stop keep the types. *)
LEMMA TypeLoop ==
  ASSUME TypeOK, NEW t \in Maintenance, Loop(t)
  PROVE  TypeOK'
<1>1. t \in Threads /\ loc[t] \in Locals /\ {"exited", FirstLabel(t)} \subseteq Labels
  BY ThreadNames DEF TypeOK, Labels, FirstLabel
<1>2. pc' \in [Threads -> Labels] /\ loc' \in [Threads -> Locals]
  BY <1>1, GotoType DEF Loop
<1> QED
  BY <1>2 DEF Loop, TypeOK, shared, routing, checking

(* The workers. *)
LEMMA TypeReceive ==
  ASSUME TypeOK, NEW t \in Workers, Receive(t)
  PROVE  TypeOK'
<1>a. t \in Threads
  BY ThreadNames
<1>0. /\ {"gate", "nt_update", "fs_check", "answer", "crashed"} \subseteq Labels
      /\ {"FIND_SUCCESSOR", "NOTIFY", "PUT", "GET", "DELETE"} \subseteq Requests
      /\ Keys \subseteq Hash160 /\ Lookups \subseteq Hash160
      /\ Notifiers \subseteq NodeOrNull
  BY NodeTypes, NodeAssumption DEF Labels, Requests
<1>b. ASSUME NEW l \in Labels, NEW r \in Locals, Begin(t, l, r)
      PROVE  TypeOK'
  <2>1. pc' \in [Threads -> Labels] /\ loc' \in [Threads -> Locals]
    BY <1>a, <1>b, GotoType DEF Begin
  <2> QED
    BY <1>b, <2>1 DEF Begin, TypeOK, shared, routing, checking
<1>1. CASE ReceiveFindSuccessor(t)
  <2>1. PICK id \in Lookups :
          Begin(t, "fs_check", [NoLocals EXCEPT !.op = "FIND_SUCCESSOR", !.arg = id,
                                                !.ret = "answer"])
    BY <1>1 DEF ReceiveFindSuccessor
  <2>2. [NoLocals EXCEPT !.op = "FIND_SUCCESSOR", !.arg = id, !.ret = "answer"] \in Locals
    BY <1>0, NodeTypes, NoLocalsType
  <2> QED
    BY <1>0, <1>b, <2>1, <2>2
<1>2. CASE ReceiveNotify(t)
  <2>1. PICK n \in Notifiers :
          Begin(t, "nt_update", [NoLocals EXCEPT !.op = "NOTIFY", !.node = n])
    BY <1>2 DEF ReceiveNotify
  <2>2. [NoLocals EXCEPT !.op = "NOTIFY", !.node = n] \in Locals
    BY <1>0, RingIds, NoLocalsType
  <2> QED
    BY <1>0, <1>b, <2>1, <2>2
<1>3. CASE ReceiveKeyRequest(t)
  <2>1. PICK op \in {"PUT", "GET", "DELETE"}, k \in Keys :
          Begin(t, "gate", [NoLocals EXCEPT !.op = op, !.arg = k])
    BY <1>3 DEF ReceiveKeyRequest
  <2>2. [NoLocals EXCEPT !.op = op, !.arg = k] \in Locals
    BY <1>0, NodeTypes, NoLocalsType
  <2> QED
    BY <1>0, <1>b, <2>1, <2>2
<1>4. CASE ReceiveTransferKey(t)
  BY <1>0, <1>4 DEF ReceiveTransferKey, TypeOK, routing, checking
<1>5. CASE ReceiveMalformedNotify(t)
  BY <1>0, <1>b, <1>5, NoLocalsType DEF ReceiveMalformedNotify
<1> QED
  BY <1>1, <1>2, <1>3, <1>4, <1>5 DEF Receive

(* The handlers of requests keep the types. *)
LEMMA TypeServe ==
  ASSUME TypeOK, NEW t \in Workers, Serve(t)
  PROVE  TypeOK'
<1>a. t \in Threads /\ loc[t] \in Locals /\ NoLocals \in Locals /\ 0 \in Hash160
  BY ThreadNames, NoLocalsType, RingIds DEF TypeOK
<1>b. loc[t].node \in NodeOrNull /\ loc[t].arg \in Hash160
  BY <1>a DEF Locals
<1>c. {"idle", "answer", "tr_scan", "fs_check", "redirect", "check", "forward", "local",
       "remove", "probe", "replicate", "rollback", "none"} \subseteq Labels
  BY DEF Labels
<1>d. /\ \A l \in Labels : [loc[t] EXCEPT !.ret = l] \in Locals
      /\ [loc[t] EXCEPT !.res = nullptr, !.ret = "none"] \in Locals
  BY <1>a, <1>c, NodeTypes, LocalsClosed
<1> DEFINE Types == pc' \in [Threads -> Labels] /\ loc' \in [Threads -> Locals]
<1>e. ASSUME Reply(t) PROVE Types
  BY <1>a, <1>c, <1>e, GotoType DEF Reply
<1>f. ASSUME NEW l \in Labels, CallFindSuccessor(t, l) PROVE Types
  BY <1>a, <1>c, <1>d, <1>f, GotoType DEF CallFindSuccessor
<1>1. CASE Answer(t)
  BY <1>1, <1>e DEF Answer, TypeOK, shared, routing, checking
<1>2. CASE Notify(t)
  <2>1. Types
    BY <1>2, <1>a, <1>c, <1>d, GotoType DEF Notify
  <2> QED
    BY <1>2, <1>b, <2>1 DEF Notify, TypeOK, checking
<1>3. CASE Gate(t)
  <2>1. Types
    BY <1>3, <1>a, <1>c, <1>f, GotoType DEF Gate
  <2> QED
    BY <1>3, <2>1 DEF Gate, TypeOK, shared, routing, checking
<1>4. CASE Redirect(t)
  <2>1. Types
    BY <1>4, <1>a, <1>c, <1>d, <1>e, GotoType DEF Redirect
  <2> QED
    BY <1>4, <2>1 DEF Redirect, TypeOK, shared, routing, checking
<1>5. CASE CheckResponsible(t)
  <2>1. Types
    BY <1>5, <1>a, <1>c, <1>f, GotoType DEF CheckResponsible
  <2> QED
    BY <1>5, <2>1 DEF CheckResponsible, TypeOK, shared, routing, checking
<1>6. CASE Forward(t)
  BY <1>6, <1>e DEF Forward, TypeOK, shared, routing, checking
<1>7. CASE StoreLocally(t)
  <2>1. Types
    BY <1>7, <1>a, <1>c, GotoType DEF StoreLocally
  <2>2. local_storage' \in SUBSET Hash160
    BY <1>7, <1>b DEF StoreLocally, TypeOK
  <2> QED
    BY <1>7, <2>1, <2>2 DEF StoreLocally, TypeOK, routing, checking
<1>8. CASE GetLocally(t)
  <2>1. Types
    BY <1>8, <1>a, <1>c, <1>e, GotoType DEF GetLocally
  <2> QED
    BY <1>8, <2>1 DEF GetLocally, TypeOK, shared, routing, checking
<1>9. CASE ExistsLocally(t)
  <2>1. Types
    BY <1>9, <1>a, <1>c, GotoType DEF ExistsLocally
  <2> QED
    BY <1>9, <2>1 DEF ExistsLocally, TypeOK, shared, routing, checking
<1>10. CASE ProbeReplicas(t)
  <2>1. Types
    BY <1>10, <1>a, <1>c, <1>e, GotoType DEF ProbeReplicas
  <2> QED
    BY <1>10, <2>1 DEF ProbeReplicas, TypeOK, shared, routing, checking
<1>11. CASE RemoveLocally(t)
  <2>1. Types
    BY <1>11, <1>a, <1>c, GotoType DEF RemoveLocally
  <2> QED
    BY <1>11, <2>1 DEF RemoveLocally, TypeOK, routing, checking
<1>12. CASE Replicate(t)
  <2>1. Types
    BY <1>12, <1>a, <1>c, <1>e, GotoType DEF Replicate
  <2> QED
    BY <1>12, <2>1 DEF Replicate, TypeOK, shared, routing, checking
<1>13. CASE Rollback(t)
  BY <1>13, <1>e DEF Rollback, TypeOK, routing, checking
<1>14. CASE Transfer(t) \/ FindSuccessor(t)
  BY <1>14, <1>a, TypeCalls
<1> QED
  BY <1>1, <1>2, <1>3, <1>4, <1>5, <1>6, <1>7, <1>8, <1>9, <1>10, <1>11, <1>12, <1>13,
     <1>14 DEF Serve

(* Every step keeps the types. *)
LEMMA TypeStep == TypeOK /\ [Next]_vars => TypeOK'
<1> SUFFICES ASSUME TypeOK, [Next]_vars PROVE TypeOK'
  OBVIOUS
<1>1. CASE UNCHANGED vars
  BY <1>1 DEF vars, shared, routing, checking, TypeOK
<1>2. CASE MainStep \/ Transfer("main")
  BY <1>2, TypeMain, TypeCalls, ThreadNames
<1>3. CASE \E t \in Maintenance : Loop(t)
  BY <1>3, TypeLoop
<1>4. CASE StabilizeStep \/ FixFingersStep \/ FailureDetectionStep
  BY <1>4, TypeStabilize, TypeFixFingers, TypeFailureDetection
<1>5. CASE \E t \in Workers : Receive(t) \/ Serve(t)
  BY <1>5, TypeReceive, TypeServe
<1>6. CASE Stopped
  BY <1>1, <1>6 DEF Stopped
<1> QED
  BY <1>1, <1>2, <1>3, <1>4, <1>5, <1>6 DEF Next

(* Every value the routing state, the key store, the failure detector and  *)
(* the threads' local variables take is of the type the program declares:  *)
(* in particular stabilize, fix_fingers and the shift of the successor     *)
(* list in handle_node_failure never store a null node, and a wedged or    *)
(* racing thread never continues at an undefined place.                    *)
THEOREM TypeCorrect == Spec => []TypeOK
<1>1. Init => TypeOK
  BY TypeInit
<1>2. TypeOK /\ [Next]_vars => TypeOK'
  BY TypeStep
<1> QED
  BY <1>1, <1>2, PTL DEF Spec
-----------------------------------------------------------------------------
(***************************************************************************)
(* What a thread that locks routing_mutex twice does to the others, for    *)
(* every set of peers, faults, requests and every way to leave: the wedge  *)
(* is final.                                                               *)
(***************************************************************************)

(* The main thread has not yet called start_maintenance. *)
BeforeStart == pc["main"] \in {"constructed", "ringed"}

(* The labels at which a thread keeps routing_mutex between two steps. *)
Held == {"relock", "fd_keys"}

(* The inductive invariant: who is at such a label holds the mutex and     *)
(* nobody else does, no call returns there or into a new start, and until  *)
(* start_maintenance only the main thread acts.                            *)
MutexInv ==
  /\ \A t \in Threads : holder = t <=> pc[t] \in Held
  /\ \A t \in Threads : loc[t].ret \notin {"relock", "fd_keys", "constructed", "ringed"}
  /\ BeforeStart => \A t \in Threads \ {"main"} : pc[t] \in {"none", "idle"}

(* A thread that goes on without taking or giving back the mutex. *)
LEMMA MutexGoto ==
  ASSUME TypeOK, MutexInv, NEW t \in Threads, NEW l, NEW r,
         pc[t] # "relock", pc[t] # "fd_keys", l # "relock", l # "fd_keys",
         r.ret \notin {"relock", "fd_keys", "constructed", "ringed"},
         IF t = "main" THEN l \in {"constructed", "ringed"} => BeforeStart
                       ELSE BeforeStart => pc[t] \notin {"none", "idle"},
         Goto(t, l) \/ GotoWith(t, l, r),
         holder' = holder
  PROVE  MutexInv'
<1>1. /\ pc' = [pc EXCEPT ![t] = l]
      /\ \A u \in Threads : u # t => loc'[u] = loc[u]
      /\ loc'[t] \in {loc[t], r}
      /\ holder # t
  BY DEF Goto, GotoWith, TypeOK, MutexInv, Held
<1>2. \A u \in Threads : holder' = u <=> pc'[u] \in Held
  BY <1>1 DEF MutexInv, TypeOK, Held
<1>3. \A u \in Threads : loc'[u].ret \notin {"relock", "fd_keys", "constructed", "ringed"}
  BY <1>1 DEF MutexInv
<1>4. BeforeStart' => \A u \in Threads \ {"main"} : pc'[u] \in {"none", "idle"}
  BY <1>1, ThreadNames DEF MutexInv, BeforeStart, TypeOK
<1> QED
  BY <1>2, <1>3, <1>4 DEF MutexInv

(* A thread that takes the mutex and keeps it. *)
LEMMA MutexTake ==
  ASSUME TypeOK, MutexInv, NEW t \in Threads, NEW l \in Held, holder = Nobody,
         holder' = t, Goto(t, l), t # "main", pc[t] \notin {"none", "idle"}
  PROVE  MutexInv'
<1>1. pc' = [pc EXCEPT ![t] = l] /\ loc' = loc
  BY DEF Goto
<1>2. \A u \in Threads : pc[u] \notin Held
  BY NodeAssumption DEF MutexInv, Threads, Maintenance, Nobody
<1>3. \A u \in Threads : holder' = u <=> pc'[u] \in Held
  BY <1>1, <1>2 DEF TypeOK
<1>4. ~BeforeStart'
  BY <1>1, ThreadNames DEF MutexInv, BeforeStart, TypeOK
<1> QED
  BY <1>1, <1>3, <1>4 DEF MutexInv

(* It holds at the start. *)
LEMMA MutexInit == Init => MutexInv
<1> SUFFICES ASSUME Init PROVE MutexInv
  OBVIOUS
<1>1. \A t \in Threads : pc[t] \notin Held /\ holder # t
  BY NodeAssumption DEF Init, Threads, Maintenance, Nobody, Held
<1>2. \A t \in Threads : loc[t].ret = "none"
  BY DEF Init, NoLocals
<1>3. \A t \in Threads \ {"main"} : pc[t] \in {"none", "idle"}
  BY DEF Init
<1> QED
  BY <1>1, <1>2, <1>3 DEF MutexInv, Held

(* The main thread. *)
LEMMA MutexMain == TypeOK /\ MutexInv /\ MainStep => MutexInv'
<1> SUFFICES ASSUME TypeOK, MutexInv, MainStep PROVE MutexInv'
  OBVIOUS
<1>0. /\ "main" \in Threads /\ loc["main"] \in Locals
      /\ loc["main"].ret \notin {"relock", "fd_keys", "constructed", "ringed"}
  BY ThreadNames DEF MutexInv, TypeOK
<1>1. CASE Create \/ Join
  BY <1>0, <1>1, MutexGoto DEF Create, Join, Locks, BeforeStart
<1>2. CASE LeaveReset \/ DisableChord \/ StopMaintenance
  BY <1>0, <1>2, MutexGoto DEF LeaveReset, DisableChord, StopMaintenance,
     Locks, At, shared, routing
<1>3. CASE LeaveReadSuccessor
  <2>1. [loc["main"] EXCEPT !.node = successor_list[0], !.ret = "lv_reset"].ret = "lv_reset"
    BY <1>0 DEF Locals
  <2> QED
    BY <1>0, <1>3, <2>1, MutexGoto DEF LeaveReadSuccessor, Locks, shared, routing
<1>4. CASE StartMaintenance
  <2>1. \A t \in Threads : pc[t] \notin Held /\ holder # t
    BY <1>4 DEF MutexInv, StartMaintenance, At, BeforeStart, Held
  <2>2. \A t \in Threads : pc'[t] \notin Held /\ holder' # t
    BY <1>4, <2>1 DEF StartMaintenance, Held
  <2>3. ~BeforeStart'
    BY <1>0, <1>4 DEF StartMaintenance, BeforeStart
  <2> QED
    BY <1>4, <2>2, <2>3 DEF MutexInv, StartMaintenance
<1> QED
  BY <1>1, <1>2, <1>3, <1>4 DEF MainStep

(* find_successor and transfer_keys_to_node, in whichever thread. *)
LEMMA MutexCalls ==
  ASSUME TypeOK, MutexInv, NEW t \in Threads,
         Transfer(t) \/ (t # "main" /\ FindSuccessor(t))
  PROVE  MutexInv'
<1>0. loc[t] \in Locals /\ loc[t].ret \notin {"relock", "fd_keys", "constructed", "ringed"}
  BY DEF MutexInv, TypeOK
<1>1. \A n, K, k : /\ [loc[t] EXCEPT !.res = n].ret = loc[t].ret
                   /\ [loc[t] EXCEPT !.moving = K].ret = loc[t].ret
                   /\ [loc[t] EXCEPT !.moving = K, !.arg = k].ret = loc[t].ret
                   /\ [loc[t] EXCEPT !.todo = K].ret = loc[t].ret
                   /\ [loc[t] EXCEPT !.todo = K, !.moving = {}].ret = loc[t].ret
                   /\ [loc[t] EXCEPT !.todo = K, !.arg = k].ret = loc[t].ret
                   /\ ScanLabel(K) \notin {"relock", "fd_keys", "constructed", "ringed"}
  BY <1>0 DEF Locals, ScanLabel
<1>2. CASE FindSuccessorCheck(t) /\ t # "main"
  BY <1>0, <1>1, <1>2, MutexGoto DEF FindSuccessorCheck, Locks, shared, routing
<1>3. CASE FindSuccessorLookup(t) /\ t # "main"
  <2>1. CASE in_range(loc[t].arg, Self, successor_list[0], TRUE)
    BY <1>0, <1>1, <1>3, <2>1, MutexGoto DEF FindSuccessorLookup, Locks, routing
  <2>2. CASE ~in_range(loc[t].arg, Self, successor_list[0], TRUE)
    BY <1>0, <1>3, <2>2, MutexTake DEF Held, FindSuccessorLookup, Locks, routing
  <2> QED
    BY <2>1, <2>2
<1>4. CASE TransferScan(t)
  BY <1>0, <1>1, <1>4, MutexGoto DEF TransferScan, At, shared, routing
<1>5. CASE TransferSend(t)
  BY <1>0, <1>1, <1>5, MutexGoto DEF TransferSend, At, shared, routing
<1>6. CASE TransferRemove(t)
  BY <1>0, <1>6, MutexGoto DEF TransferRemove, At, routing
<1>7. CASE TransferDone(t)
  BY <1>0, <1>7, MutexGoto DEF TransferDone, At, shared, routing
<1>8. CASE TransferTest(t)
  BY <1>0, <1>1, <1>8, MutexGoto DEF TransferTest, At, shared, routing
<1>9. CASE TransferRead(t)
  <2>1. PICK l \in {"crashed", "tr_send", "tr_test"} :
          \E K : Goto(t, l) \/ GotoWith(t, l, [loc[t] EXCEPT !.moving = K])
    BY <1>9 DEF TransferRead, ScanLabel
  <2>2. PICK K : Goto(t, l) \/ GotoWith(t, l, [loc[t] EXCEPT !.moving = K])
    BY <2>1
  <2> QED
    BY <1>0, <1>1, <1>9, <2>2, MutexGoto DEF TransferRead, At, shared
<1> QED
  BY <1>2, <1>3, <1>4, <1>5, <1>6, <1>7, <1>8, <1>9 DEF FindSuccessor, Transfer

(* The maintenance threads. *)
LEMMA MutexStabilize == TypeOK /\ MutexInv /\ StabilizeStep => MutexInv'
<1> SUFFICES ASSUME TypeOK, MutexInv, StabilizeStep PROVE MutexInv'
  OBVIOUS
<1> DEFINE t == "stabilize"
<1>0. /\ t \in Threads /\ t # "main" /\ loc[t] \in Locals
      /\ loc[t].ret \notin {"relock", "fd_keys", "constructed", "ringed"}
      /\ NoLocals.ret = "none"
  BY ThreadNames DEF MutexInv, TypeOK, NoLocals
<1>1. \A n : /\ [loc[t] EXCEPT !.res = n].ret = loc[t].ret
             /\ [loc[t] EXCEPT !.node = n].ret = loc[t].ret
  BY <1>0 DEF Locals
<1>2. CASE StabilizeRead
  BY <1>0, <1>1, <1>2, MutexGoto DEF StabilizeRead, Locks, shared, routing
<1>3. CASE StabilizeContact
  BY <1>0, <1>1, <1>3, MutexGoto DEF StabilizeContact, At, routing
<1>4. CASE StabilizeAdopt
  BY <1>0, <1>1, <1>4, MutexGoto DEF StabilizeAdopt, Locks
<1>5. CASE StabilizeNotify
  BY <1>0, <1>5, MutexGoto DEF StabilizeNotify, At, routing
<1> QED
  BY <1>2, <1>3, <1>4, <1>5 DEF StabilizeStep

(* The steps of fix_fingers keep it. *)
LEMMA MutexFixFingers == TypeOK /\ MutexInv /\ FixFingersStep => MutexInv'
<1> SUFFICES ASSUME TypeOK, MutexInv, FixFingersStep PROVE MutexInv'
  OBVIOUS
<1> DEFINE t == "fix_fingers"
<1>0. /\ t \in Threads /\ t # "main"
      /\ loc[t].ret \notin {"relock", "fd_keys", "constructed", "ringed"}
      /\ NoLocals.ret = "none"
      /\ \A k : [NoLocals EXCEPT !.arg = k, !.ret = "ff_set"].ret = "ff_set"
  BY ThreadNames DEF MutexInv, NoLocals
<1>1. CASE FixFingersNext
  BY <1>0, <1>1, MutexGoto DEF FixFingersNext, Locks
<1>2. CASE FixFingersCall
  BY <1>0, <1>2, MutexGoto DEF FixFingersCall, At, shared, routing
<1>3. CASE FixFingersSet
  BY <1>0, <1>3, MutexGoto DEF FixFingersSet, Locks
<1>4. CASE FindSuccessor(t)
  BY <1>0, <1>4, MutexCalls
<1> QED
  BY <1>1, <1>2, <1>3, <1>4 DEF FixFingersStep

(* The steps of failure_detection_loop keep it. *)
LEMMA MutexFailureDetection == TypeOK /\ MutexInv /\ FailureDetectionStep => MutexInv'
<1> SUFFICES ASSUME TypeOK, MutexInv, FailureDetectionStep PROVE MutexInv'
  OBVIOUS
<1> DEFINE t == "failure_detection"
<1>0. /\ t \in Threads /\ t # "main"
      /\ loc[t].ret \notin {"relock", "fd_keys", "constructed", "ringed"}
  BY ThreadNames DEF MutexInv
<1>1. CASE CopyNodesToCheck
  BY <1>0, <1>1, MutexGoto DEF CopyNodesToCheck, Locks, routing
<1>2. CASE PingNode
  BY <1>2 DEF PingNode, routing, MutexInv, BeforeStart
<1>3. CASE PingsDone \/ FailuresDone
  BY <1>0, <1>3, MutexGoto DEF PingsDone, FailuresDone, At, routing
<1>4. CASE HandleFailed
  BY <1>0, <1>4, MutexGoto DEF HandleFailed, At, shared, routing
<1>5. CASE HandleSuccessorFailure
  BY <1>0, <1>5, MutexTake DEF Held, HandleSuccessorFailure, Locks
<1>6. CASE HandleOtherFailure
  BY <1>0, <1>6, MutexTake DEF Held, HandleOtherFailure, Locks
<1>7. CASE TriggerReReplication
  <2>1. holder = t /\ pc[t] = "fd_keys"
    BY <1>0, <1>7 DEF MutexInv, TriggerReReplication, At, Held
  <2>2. \A u \in Threads : u # t => pc[u] \notin Held
    BY <2>1 DEF MutexInv
  <2>3. PICK l \in {"relock", "fd_handle"} :
          pc' = [pc EXCEPT ![t] = l] /\ loc' = loc /\ (holder' = t <=> l = "relock")
          /\ holder' \in {t, Nobody}
    BY <1>7, <2>1, NodeAssumption DEF TriggerReReplication, Goto, Nobody
  <2>4. \A u \in Threads : holder' = u <=> pc'[u] \in Held
    BY <1>0, <2>2, <2>3, NodeAssumption DEF TypeOK, Held, Nobody, Threads, Maintenance
  <2>5. ~BeforeStart'
    BY <1>0, <2>1, <2>3, ThreadNames DEF MutexInv, BeforeStart, TypeOK
  <2> QED
    BY <2>3, <2>4, <2>5 DEF MutexInv
<1> QED
  BY <1>1, <1>2, <1>3, <1>4, <1>5, <1>6, <1>7 DEF FailureDetectionStep

(* The maintenance loops and their start and stop keep it. *)
LEMMA MutexLoop ==
  ASSUME TypeOK, MutexInv, NEW t \in Maintenance, Loop(t)
  PROVE  MutexInv'
<1>1. /\ t \in Threads /\ t # "main" /\ FirstLabel(t) # "relock" /\ FirstLabel(t) # "fd_keys"
      /\ loc[t].ret \notin {"relock", "fd_keys", "constructed", "ringed"}
  BY ThreadNames DEF MutexInv, Maintenance, FirstLabel, Held
<1> QED
  BY <1>1, MutexGoto DEF Loop, At, shared, routing

(* The workers. *)
LEMMA MutexReceive ==
  ASSUME TypeOK, MutexInv, NEW t \in Workers, Receive(t)
  PROVE  MutexInv'
<1>0. t \in Threads /\ t # "main"
  BY ThreadNames, NodeAssumption
<1>a. /\ "answer" \in Labels /\ {"FIND_SUCCESSOR", "NOTIFY", "PUT", "GET", "DELETE"} \subseteq Requests
      /\ Keys \subseteq Hash160 /\ Lookups \subseteq Hash160
  BY NodeAssumption DEF Labels, Requests
<1>1. ASSUME NEW l \in {"fs_check", "nt_update", "gate", "crashed"}, NEW r \in Locals,
             r.ret \in {"none", "answer"}, Begin(t, l, r)
      PROVE  MutexInv'
  BY <1>0, <1>1, MutexGoto DEF Begin, At, ChordEnabled, BeforeStart, shared, routing
<1>2. \A op, k, n :
        /\ [NoLocals EXCEPT !.op = op, !.arg = k].ret = "none"
        /\ [NoLocals EXCEPT !.op = op, !.node = n].ret = "none"
        /\ [NoLocals EXCEPT !.op = op, !.arg = k, !.ret = "answer"].ret = "answer"
  BY DEF NoLocals
<1>3. CASE ReceiveFindSuccessor(t)
  <2>1. PICK id \in Lookups :
          Begin(t, "fs_check", [NoLocals EXCEPT !.op = "FIND_SUCCESSOR", !.arg = id,
                                                !.ret = "answer"])
    BY <1>3 DEF ReceiveFindSuccessor
  <2> DEFINE r == [NoLocals EXCEPT !.op = "FIND_SUCCESSOR", !.arg = id, !.ret = "answer"]
  <2>2. r \in Locals /\ r.ret = "answer"
    BY <1>2, <1>a, NodeTypes, NoLocalsType
  <2> QED
    BY <1>1, <2>1, <2>2
<1>4. CASE ReceiveNotify(t)
  <2>1. PICK n \in Notifiers :
          Begin(t, "nt_update", [NoLocals EXCEPT !.op = "NOTIFY", !.node = n])
    BY <1>4 DEF ReceiveNotify
  <2> DEFINE r == [NoLocals EXCEPT !.op = "NOTIFY", !.node = n]
  <2>2. r \in Locals /\ r.ret = "none"
    BY <1>2, <1>a, NodeTypes, RingIds, NoLocalsType
  <2> QED
    BY <1>1, <2>1, <2>2
<1>5. CASE ReceiveKeyRequest(t)
  <2>1. PICK op \in {"PUT", "GET", "DELETE"}, k \in Keys :
          Begin(t, "gate", [NoLocals EXCEPT !.op = op, !.arg = k])
    BY <1>5 DEF ReceiveKeyRequest
  <2> DEFINE r == [NoLocals EXCEPT !.op = op, !.arg = k]
  <2>2. r \in Locals /\ r.ret = "none"
    BY <1>2, <1>a, NodeTypes, NoLocalsType
  <2> QED
    BY <1>1, <2>1, <2>2
<1>6. CASE ReceiveTransferKey(t)
  BY <1>6 DEF ReceiveTransferKey, routing, MutexInv, BeforeStart
<1>7. CASE ReceiveMalformedNotify(t)
  <2>1. NoLocals \in Locals /\ NoLocals.ret = "none"
    BY NoLocalsType DEF NoLocals
  <2> QED
    BY <1>1, <1>7, <2>1 DEF ReceiveMalformedNotify
<1> QED
  BY <1>3, <1>4, <1>5, <1>6, <1>7 DEF Receive

(* The handlers of requests keep it. *)
LEMMA MutexServe ==
  ASSUME TypeOK, MutexInv, NEW t \in Workers, Serve(t)
  PROVE  MutexInv'
<1>0. /\ t \in Threads /\ t # "main" /\ loc[t] \in Locals
      /\ loc[t].ret \notin {"relock", "fd_keys", "constructed", "ringed"}
      /\ NoLocals.ret = "none"
  BY ThreadNames, NodeAssumption DEF MutexInv, TypeOK, NoLocals
<1>1. /\ \A l : [loc[t] EXCEPT !.ret = l].ret = l
      /\ [loc[t] EXCEPT !.res = nullptr, !.ret = "none"].ret = "none"
  BY <1>0 DEF Locals
<1>2. CASE Answer(t) \/ Forward(t)
  BY <1>0, <1>2, MutexGoto DEF Answer, Forward, Reply, At, shared, routing
<1>3. CASE Notify(t)
  BY <1>0, <1>1, <1>3, MutexGoto DEF Notify, Locks
<1>4. CASE Gate(t) \/ CheckResponsible(t)
  BY <1>0, <1>1, <1>4, MutexGoto
     DEF Gate, CheckResponsible, CallFindSuccessor, Locks, shared, routing
<1>5. CASE Redirect(t)
  BY <1>0, <1>1, <1>5, MutexGoto DEF Redirect, Reply, At, shared, routing
<1>6. CASE StoreLocally(t) \/ RemoveLocally(t) \/ Rollback(t)
  BY <1>0, <1>6, MutexGoto DEF StoreLocally, RemoveLocally, Rollback, Reply, At, routing
<1>7. CASE GetLocally(t) \/ ExistsLocally(t)
  BY <1>0, <1>7, MutexGoto DEF GetLocally, ExistsLocally, Reply, At, shared, routing
<1>8. CASE ProbeReplicas(t) \/ Replicate(t)
  BY <1>0, <1>8, MutexGoto DEF ProbeReplicas, Replicate, Reply, Locks, shared, routing
<1>9. CASE Transfer(t) \/ FindSuccessor(t)
  BY <1>0, <1>9, MutexCalls
<1> QED
  BY <1>2, <1>3, <1>4, <1>5, <1>6, <1>7, <1>8, <1>9 DEF Serve

(* Every step keeps it. *)
LEMMA MutexNext == TypeOK /\ MutexInv /\ [Next]_vars => MutexInv'
<1> SUFFICES ASSUME TypeOK, MutexInv, [Next]_vars PROVE MutexInv'
  OBVIOUS
<1>1. CASE UNCHANGED vars
  BY <1>1 DEF vars, shared, routing, MutexInv, BeforeStart
<1>2. CASE MainStep \/ Transfer("main")
  BY <1>2, MutexMain, MutexCalls, ThreadNames
<1>3. CASE \E t \in Maintenance : Loop(t)
  BY <1>3, MutexLoop
<1>4. CASE StabilizeStep \/ FixFingersStep \/ FailureDetectionStep
  BY <1>4, MutexStabilize, MutexFixFingers, MutexFailureDetection
<1>5. CASE \E t \in Workers : Receive(t) \/ Serve(t)
  BY <1>5, MutexReceive, MutexServe
<1>6. CASE Stopped
  BY <1>1, <1>6 DEF Stopped
<1> QED
  BY <1>1, <1>2, <1>3, <1>4, <1>5, <1>6 DEF Next

(* MutexInv holds of every behaviour; with TypeOK it is inductive. *)
LEMMA MutexInvariant == Spec => []MutexInv
<1>1. Init => MutexInv
  BY MutexInit
<1>2. TypeOK /\ MutexInv /\ [Next]_vars => MutexInv'
  BY MutexNext
<1> QED
  BY <1>1, <1>2, TypeCorrect, PTL DEF Spec
-----------------------------------------------------------------------------
(* Every write of the routing state is behind a lock of the mutex, and a   *)
(* thread that waits for itself does not unlock it.                        *)
LEMMA RoutingNeedsMutex ==
  ASSUME TypeOK, MutexInv, Next, Wedged
  PROVE  UNCHANGED <<holder, routing>>
<1>0. holder # Nobody /\ pc["failure_detection"] # "fd_keys"
  BY ThreadNames, NodeAssumption DEF MutexInv, Wedged, Held, Threads, Maintenance, Nobody
<1>1. CASE MainStep
  BY <1>0, <1>1 DEF MainStep, Create, Join, StartMaintenance, StopMaintenance,
     LeaveReadSuccessor, LeaveReset, DisableChord, Locks, shared
<1>2. ASSUME NEW t \in Threads, Transfer(t) \/ FindSuccessor(t)
      PROVE  UNCHANGED <<holder, routing>>
  BY <1>0, <1>2 DEF Transfer, TransferScan, TransferTest, TransferRead, TransferSend, TransferRemove, TransferDone,
     FindSuccessor, FindSuccessorCheck, FindSuccessorLookup, Locks, shared
<1>3. CASE \E t \in Maintenance : Loop(t)
  BY <1>3 DEF Loop, shared
<1>4. CASE StabilizeStep
  BY <1>0, <1>4 DEF StabilizeStep, StabilizeRead, StabilizeContact, StabilizeAdopt,
     StabilizeNotify, Locks, shared
<1>5. CASE FixFingersStep
  BY <1>0, <1>2, <1>5, ThreadNames DEF FixFingersStep, FixFingersNext, FixFingersCall,
     FixFingersSet, Locks, shared
<1>6. CASE FailureDetectionStep
  BY <1>0, <1>6 DEF FailureDetectionStep, CopyNodesToCheck, PingNode, PingsDone, HandleFailed,
     HandleSuccessorFailure, HandleOtherFailure, TriggerReReplication, FailuresDone,
     Locks, At, shared
<1>7. ASSUME NEW t \in Workers, Receive(t)
      PROVE  UNCHANGED <<holder, routing>>
  BY <1>7 DEF Receive, ReceiveFindSuccessor, ReceiveNotify, ReceiveMalformedNotify, ReceiveKeyRequest,
     ReceiveTransferKey, Begin, shared
<1>8. ASSUME NEW t \in Workers, Serve(t)
      PROVE  UNCHANGED <<holder, routing>>
  BY <1>0, <1>2, <1>8, ThreadNames DEF Serve, Answer, Notify, Gate, Redirect, CheckResponsible,
     Forward, StoreLocally, GetLocally, ExistsLocally, ProbeReplicas, RemoveLocally,
     Replicate, Rollback, Locks, shared
<1>9. CASE Stopped
  BY <1>9 DEF Stopped, vars, shared
<1> QED
  BY <1>1, <1>2, <1>3, <1>4, <1>5, <1>6, <1>7, <1>8, <1>9, ThreadNames DEF Next

(* A wedge is for ever: once a thread waits for itself, no step of any     *)
(* thread releases routing_mutex or changes predecessor, the successor     *)
(* list or the fingers.  stop_maintenance and leave do not help.           *)
THEOREM WedgeFinal == Spec => WedgeIsFinal
<1>1. TypeOK /\ MutexInv /\ [Next]_vars => [Wedged => UNCHANGED <<holder, routing>>]_vars
  BY RoutingNeedsMutex
<1> QED
  BY <1>1, TypeCorrect, MutexInvariant, PTL DEF Spec, WedgeIsFinal
-----------------------------------------------------------------------------
(***************************************************************************)
(* Inside TwoNodeEnvelope no thread of the node ever waits for itself, for *)
(* every ring size, place of the nodes on the ring, number of workers and  *)
(* set of keys and requests.                                               *)
(***************************************************************************)

Lookup == {"redirect", "forward", "ff_set"}
Transferring == {"tr_scan", "tr_test", "tr_deref", "tr_send", "tr_remove"}

(* What is known of a thread with locals r at label l. *)
ThreadInv(l, r) ==
  /\ l \notin {"relock", "lv_read", "lv_reset"}
  /\ r.ret \in {"none", "answer"} \cup Lookup
  \* find_successor gets past its first check only for the successor's range
  /\ l = "fs_lookup" => in_range(r.arg, Self, Existing, TRUE)
  \* what find_successor answers
  /\ (l \in Lookup \/ (l = "answer" /\ r.op = "FIND_SUCCESSOR"))
       => r.res \in {Self, Existing}
  \* a transfer comes from a NOTIFY
  /\ l = "nt_update" => r.op = "NOTIFY" /\ r.node \in Notifiers
  /\ l \in Transferring => r.op = "NOTIFY" /\ r.ret = "answer"
  \* a failure is handled only of a faulty peer
  /\ l = "fd_keys" => Faulty # {}
  \* stabilize only ever talks to the node joined through
  /\ l \in {"st_contact", "st_adopt", "st_notify"} => r.node = Existing
  /\ l = "st_adopt" => r.res \in {nullptr, Existing}
  /\ l = "ff_call" => r.ret = "ff_set"
  \* a key request carries a key
  /\ l \in {"gate", "check", "local", "redirect", "forward"} => r.arg \in Keys
  /\ (l \in {"fs_check", "fs_lookup"} /\ r.ret \in {"redirect", "forward"})
       => r.arg \in Keys

(* The inductive invariant, with TypeOK and MutexInv. *)
RingInv ==
  /\ predecessor \in Notifiers \cup {nullptr}
  /\ \A i \in DOMAIN successor_list : successor_list[i] \in {Self, Existing}
  /\ \A i \in DOMAIN finger_table : finger_table[i] \in {Self, Existing}
  /\ IF pc["main"] = "constructed" THEN predecessor = nullptr
                                   ELSE successor_list[0] = Existing
  /\ pc["main"] \notin Transferring                  \* the node does not leave
  /\ local_storage \subseteq Keys
  /\ \A t \in Threads : ThreadInv(pc[t], loc[t])

-----------------------------------------------------------------------------
(* The environment's conditions, as the steps use them. *)
LEMMA EnvelopeFacts ==
  ASSUME TwoNodeEnvelope
  PROVE  /\ \A n \in Notifiers : /\ n \in Int /\ n # Self /\ n # nullptr
                                 /\ in_range(n, Self, Existing, TRUE)
         /\ Self \in Int /\ Existing \in Int
         /\ Self \notin Faulty /\ Existing \notin Faulty
         /\ ~MayLeave
         /\ Faulty # {} => Keys = {}
<1>1. Notifiers \subseteq Hash160 /\ Self \in Hash160 /\ Existing \in Hash160
  BY NodeAssumption
<1> QED
  BY <1>1, RingIds, NodeAssumption DEF TwoNodeEnvelope

(* An identifier the node is not responsible for is the successor's: the   *)
(* two ranges cover the ring.                                              *)
LEMMA NotOursIsSuccessors ==
  ASSUME TwoNodeEnvelope, RingInv, NEW id \in Hash160, ~Responsible(id)
  PROVE  in_range(id, Self, Existing, TRUE)
<1>1. predecessor \in Notifiers
  BY DEF RingInv, Responsible
<1>2. id \in Int /\ ~in_range(id, predecessor, Self, TRUE)
  BY RingIds DEF Responsible
<1> QED
  BY <1>1, <1>2, EnvelopeFacts, RangesCover

(* Only the main thread moves before the ring is made. *)
LEMMA RingMade ==
  ASSUME MutexInv, NEW t \in Threads, t # "main", pc[t] \notin {"none", "idle"}
  PROVE  pc["main"] # "constructed"
BY DEF MutexInv, BeforeStart

(* A thread but the main one that goes on where ThreadInv holds. *)
LEMMA RingGoto ==
  ASSUME TypeOK, RingInv, NEW t \in Threads, t # "main", pc["main"] # "constructed",
         NEW l, NEW r,
         \/ Goto(t, l) /\ ThreadInv(l, loc[t])
         \/ GotoWith(t, l, r) /\ ThreadInv(l, r),
         successor_list' = successor_list,
         predecessor' \in Notifiers \cup {nullptr},
         \A i \in DOMAIN finger_table' : finger_table'[i] \in {Self, Existing},
         local_storage' \subseteq Keys
  PROVE  RingInv'
<1>1. pc' = [pc EXCEPT ![t] = l] /\ pc \in [Threads -> Labels]
  BY DEF Goto, GotoWith, TypeOK
<1>2. \A u \in Threads : u # t => loc'[u] = loc[u]
  BY DEF Goto, GotoWith, TypeOK
<1>3. ThreadInv(l, loc'[t])
  BY DEF Goto, GotoWith, TypeOK
<1>4. \A u \in Threads : ThreadInv(pc'[u], loc'[u])
  BY <1>1, <1>2, <1>3 DEF RingInv
<1>5. pc'["main"] = pc["main"]
  BY <1>1, ThreadNames
<1> QED
  BY <1>4, <1>5 DEF RingInv

(* The same when nothing but the thread itself changes. *)
LEMMA RingGotoOnly ==
  ASSUME TypeOK, RingInv, NEW t \in Threads, t # "main", pc["main"] # "constructed",
         NEW l, NEW r,
         \/ Goto(t, l) /\ ThreadInv(l, loc[t])
         \/ GotoWith(t, l, r) /\ ThreadInv(l, r),
         UNCHANGED <<routing, local_storage>>
  PROVE  RingInv'
<1>1. /\ successor_list' = successor_list
      /\ predecessor' \in Notifiers \cup {nullptr}
      /\ \A i \in DOMAIN finger_table' : finger_table'[i] \in {Self, Existing}
      /\ local_storage' \subseteq Keys
  BY DEF RingInv, routing
<1> QED
  BY <1>1, RingGoto

(* The invariant holds at the start. *)
LEMMA RingInit == TwoNodeEnvelope /\ Init => RingInv
<1> SUFFICES ASSUME TwoNodeEnvelope, Init PROVE RingInv
  OBVIOUS
<1>1. \A t \in Threads : pc[t] \in {"constructed", "idle", "none"} /\ loc[t] = NoLocals
  BY DEF Init
<1>2. ThreadInv("constructed", NoLocals) /\ ThreadInv("idle", NoLocals)
      /\ ThreadInv("none", NoLocals)
  BY DEF ThreadInv, NoLocals, Lookup, Transferring
<1>3. \A t \in Threads : ThreadInv(pc[t], loc[t])
  BY <1>1, <1>2
<1>4. pc["main"] = "constructed"
  BY ThreadNames DEF Init
<1> QED
  BY <1>3, <1>4 DEF Init, RingInv, Transferring

(* The main thread: it makes the ring once and does not leave it. *)
LEMMA RingMain ==
  ASSUME TwoNodeEnvelope, TypeOK, RingInv, MainStep
  PROVE  RingInv'
<1>0. /\ "main" \in Threads /\ ThreadInv(pc["main"], loc["main"]) /\ ~MayLeave
      /\ pc \in [Threads -> Labels]
      /\ 0 \in DOMAIN successor_list
  BY ThreadNames, EnvelopeFacts, NodeAssumption DEF RingInv, TypeOK
<1>1. ASSUME NEW l \in {"ringed", "stopping", "stopped"}, Goto("main", l)
      PROVE  pc'["main"] = l /\ \A t \in Threads : ThreadInv(pc'[t], loc'[t])
  <2>1. ThreadInv(l, loc["main"])
    BY <1>0 DEF ThreadInv, Lookup, Transferring
  <2> QED
    BY <1>0, <1>1, <2>1 DEF RingInv, Goto
<1>2. CASE Create
  BY <1>0, <1>1, <1>2 DEF Create, RingInv, Transferring
<1>3. CASE Join
  BY <1>0, <1>1, <1>3 DEF Join, RingInv, Transferring
<1>4. CASE StopMaintenance
  BY <1>0, <1>1, <1>4 DEF StopMaintenance, RingInv, routing, At, Transferring
<1>5. CASE DisableChord
  BY <1>0, <1>1, <1>5 DEF DisableChord, RingInv, shared, routing, At, Transferring
<1>6. CASE StartMaintenance
  <2>1. \A t \in Threads : ThreadInv(pc'[t], loc'[t])
    <3>1. SUFFICES ASSUME NEW t \in Threads PROVE ThreadInv(pc'[t], loc[t])
      BY <1>6 DEF StartMaintenance
    <3>2. pc'[t] \in {"serving", "loop", pc[t]} /\ ThreadInv(pc[t], loc[t])
      BY <1>6 DEF StartMaintenance, RingInv
    <3> QED
      BY <3>2 DEF ThreadInv, Lookup, Transferring
  <2>2. pc'["main"] = "serving" /\ pc["main"] = "ringed"
    BY <1>0, <1>6 DEF StartMaintenance, At
  <2> QED
    BY <1>6, <2>1, <2>2 DEF StartMaintenance, RingInv, routing, Transferring
<1>7. CASE LeaveReadSuccessor \/ LeaveReset
  BY <1>0, <1>7 DEF LeaveReadSuccessor, LeaveReset, Locks, ThreadInv
<1> QED
  BY <1>2, <1>3, <1>4, <1>5, <1>6, <1>7 DEF MainStep

(* find_successor and transfer_keys_to_node, in whichever thread. *)
LEMMA RingCalls ==
  ASSUME TwoNodeEnvelope, TypeOK, MutexInv, RingInv, NEW t \in Threads, t # "main",
         Transfer(t) \/ FindSuccessor(t)
  PROVE  RingInv'
<1>0. loc[t] \in Locals /\ loc[t].arg \in Hash160 /\ ThreadInv(pc[t], loc[t])
  BY DEF RingInv, TypeOK, Locals
<1>1. pc["main"] # "constructed"
  BY RingMade DEF Transfer, TransferScan, TransferTest, TransferRead, TransferSend, TransferRemove, TransferDone,
     FindSuccessor, FindSuccessorCheck, FindSuccessorLookup, Locks, At
<1>2. CASE FindSuccessorCheck(t)
  <2>1. CASE Responsible(loc[t].arg)
    <3>1. ThreadInv(loc[t].ret, [loc[t] EXCEPT !.res = Self])
      BY <1>0, <1>2 DEF FindSuccessorCheck, Locks, ThreadInv, Locals, Lookup, Transferring
    <3> QED
      BY <1>1, <1>2, <2>1, <3>1, RingGotoOnly DEF FindSuccessorCheck, shared
  <2>2. CASE ~Responsible(loc[t].arg)
    <3>1. in_range(loc[t].arg, Self, Existing, TRUE)
      BY <1>0, <2>2, NotOursIsSuccessors
    <3>2. ThreadInv("fs_lookup", loc[t])
      BY <1>0, <1>2, <3>1 DEF FindSuccessorCheck, Locks, ThreadInv, Lookup, Transferring
    <3> QED
      BY <1>1, <1>2, <2>2, <3>2, RingGotoOnly DEF FindSuccessorCheck, shared
  <2> QED
    BY <2>1, <2>2
<1>3. CASE FindSuccessorLookup(t)
  <2>1. successor_list[0] = Existing
    BY <1>1 DEF RingInv
  <2>2. in_range(loc[t].arg, Self, successor_list[0], TRUE)
    BY <1>0, <1>3, <2>1 DEF FindSuccessorLookup, Locks, ThreadInv
  <2>3. ThreadInv(loc[t].ret, [loc[t] EXCEPT !.res = Existing])
    BY <1>0, <1>3 DEF FindSuccessorLookup, Locks, ThreadInv, Locals, Lookup, Transferring
  <2> QED
    BY <1>1, <1>3, <2>1, <2>2, <2>3, RingGotoOnly DEF FindSuccessorLookup
<1>4. CASE TransferScan(t)
  <2>1. \A K : ThreadInv(ScanLabel(K), [loc[t] EXCEPT !.todo = K, !.moving = {}])
    BY <1>0, <1>4 DEF TransferScan, At, ThreadInv, Locals, Lookup, Transferring, ScanLabel
  <2> QED
    BY <1>1, <1>4, <2>1, RingGotoOnly DEF TransferScan, shared
<1>8. CASE TransferTest(t)
  <2>1. \A K, k : /\ ThreadInv(ScanLabel(K), [loc[t] EXCEPT !.todo = K])
                  /\ ThreadInv("tr_deref", [loc[t] EXCEPT !.todo = K, !.arg = k])
    BY <1>0, <1>8 DEF TransferTest, At, ThreadInv, Locals, Lookup, Transferring, ScanLabel
  <2> QED
    BY <1>1, <1>8, <2>1, RingGotoOnly DEF TransferTest, shared
<1>9. CASE TransferRead(t)
  <2>1. ThreadInv("crashed", loc[t])
    BY <1>0, <1>9 DEF TransferRead, At, ThreadInv, Lookup, Transferring
  <2>2. \A J, K : ThreadInv(ScanLabel(J), [loc[t] EXCEPT !.moving = K])
    BY <1>0, <1>9 DEF TransferRead, At, ThreadInv, Locals, Lookup, Transferring, ScanLabel
  <2> QED
    BY <1>1, <1>9, <2>1, <2>2, RingGotoOnly DEF TransferRead, shared
<1>5. CASE TransferSend(t)
  <2>1. \A K, k : /\ ThreadInv("tr_remove", [loc[t] EXCEPT !.moving = K, !.arg = k])
                  /\ ThreadInv("tr_send", [loc[t] EXCEPT !.moving = K])
    BY <1>0, <1>5 DEF TransferSend, At, ThreadInv, Locals, Lookup, Transferring
  <2> QED
    BY <1>1, <1>5, <2>1, RingGotoOnly DEF TransferSend, shared
<1>6. CASE TransferRemove(t)
  <2>1. ThreadInv("tr_send", loc[t])
    BY <1>0, <1>6 DEF TransferRemove, At, ThreadInv, Lookup, Transferring
  <2> QED
    BY <1>1, <1>6, <2>1, RingGoto DEF TransferRemove, RingInv, routing
<1>7. CASE TransferDone(t)
  <2>1. ThreadInv(loc[t].ret, loc[t])
    BY <1>0, <1>7 DEF TransferDone, At, ThreadInv, Lookup, Transferring
  <2> QED
    BY <1>1, <1>7, <2>1, RingGotoOnly DEF TransferDone, shared
<1> QED
  BY <1>2, <1>3, <1>4, <1>5, <1>6, <1>7, <1>8, <1>9 DEF FindSuccessor, Transfer

(* The maintenance threads. *)
LEMMA RingStabilize ==
  ASSUME TwoNodeEnvelope, TypeOK, MutexInv, RingInv, StabilizeStep
  PROVE  RingInv'
<1> DEFINE t == "stabilize"
<1>0. t \in Threads /\ t # "main" /\ loc[t] \in Locals /\ ThreadInv(pc[t], loc[t])
  BY ThreadNames DEF RingInv, TypeOK
<1>1. pc["main"] # "constructed" /\ successor_list[0] = Existing
  BY <1>0, RingMade DEF RingInv, StabilizeStep, StabilizeRead, StabilizeContact,
     StabilizeAdopt, StabilizeNotify, Locks, At
<1>2. ThreadInv("loop", loc[t]) /\ ThreadInv("loop", NoLocals)
  BY <1>0 DEF ThreadInv, NoLocals, Lookup, Transferring
<1>3. CASE StabilizeRead
  <2>1. ThreadInv("st_contact", [loc[t] EXCEPT !.node = Existing])
    BY <1>0, <1>3 DEF StabilizeRead, Locks, ThreadInv, Locals, Lookup, Transferring
  <2> QED
    BY <1>0, <1>1, <1>2, <1>3, <2>1, RingGotoOnly DEF StabilizeRead, shared
<1>4. CASE StabilizeContact
  <2>1. ASSUME NEW ok \in BOOLEAN
        PROVE  ThreadInv("st_adopt", [loc[t] EXCEPT !.res = IF ok THEN loc[t].node ELSE nullptr])
    BY <1>0, <1>4 DEF StabilizeContact, At, ThreadInv, Locals, Lookup, Transferring
  <2> QED
    BY <1>0, <1>1, <1>2, <1>4, <2>1, RingGotoOnly DEF StabilizeContact, Answers
<1>5. CASE StabilizeAdopt
  <2>1. loc[t].node = Existing /\ loc[t].res \in {nullptr, Existing}
    BY <1>0, <1>5 DEF StabilizeAdopt, Locks, ThreadInv
  <2>2. ~in_range(Existing, Self, Existing, FALSE)
    BY EnvelopeFacts, EndNotInside
  <2>3. successor_list' = successor_list
        /\ GotoWith(t, "st_notify", [loc[t] EXCEPT !.node = Existing])
    BY <1>5, <2>1, <2>2 DEF StabilizeAdopt
  <2>4. ThreadInv("st_notify", [loc[t] EXCEPT !.node = Existing])
    BY <1>0, <1>5 DEF StabilizeAdopt, Locks, ThreadInv, Locals, Lookup, Transferring
  <2> QED
    BY <1>0, <1>1, <1>5, <2>3, <2>4, RingGotoOnly DEF StabilizeAdopt, routing
<1>6. CASE StabilizeNotify
  BY <1>0, <1>1, <1>2, <1>6, RingGotoOnly DEF StabilizeNotify
<1> QED
  BY <1>3, <1>4, <1>5, <1>6 DEF StabilizeStep

(* The steps of fix_fingers keep it. *)
LEMMA RingFixFingers ==
  ASSUME TwoNodeEnvelope, TypeOK, MutexInv, RingInv, FixFingersStep
  PROVE  RingInv'
<1> DEFINE t == "fix_fingers"
<1>0. t \in Threads /\ t # "main" /\ loc[t] \in Locals /\ ThreadInv(pc[t], loc[t])
  BY ThreadNames DEF RingInv, TypeOK
<1>1. CASE FixFingersNext
  <2>1. \A k : ThreadInv("ff_call", [NoLocals EXCEPT !.arg = k, !.ret = "ff_set"])
    BY DEF ThreadInv, NoLocals, Lookup, Transferring
  <2>2. pc["main"] # "constructed"
    BY <1>0, <1>1, RingMade DEF FixFingersNext, Locks
  <2> QED
    BY <1>0, <1>1, <2>1, <2>2, RingGoto DEF FixFingersNext, RingInv
<1>2. CASE FixFingersCall
  <2>1. pc["main"] # "constructed"
    BY <1>0, <1>2, RingMade DEF FixFingersCall, At
  <2>2. ThreadInv("loop", loc[t])
    BY <1>0 DEF ThreadInv, Lookup, Transferring
  <2>3. ThreadInv("fs_check", loc[t])
    BY <1>0, <1>2 DEF FixFingersCall, At, ThreadInv, Lookup, Transferring
  <2> QED
    BY <1>0, <1>2, <2>1, <2>2, <2>3, RingGotoOnly DEF FixFingersCall, shared
<1>3. CASE FixFingersSet
  <2>1. pc["main"] # "constructed"
    BY <1>0, <1>3, RingMade DEF FixFingersSet, Locks
  <2>2. ThreadInv("loop", NoLocals)
    BY DEF ThreadInv, NoLocals, Lookup, Transferring
  <2>3. loc[t].res \in {Self, Existing}
    BY <1>0, <1>3 DEF FixFingersSet, Locks, ThreadInv, Lookup
  <2>4. \A i \in DOMAIN finger_table' : finger_table'[i] \in {Self, Existing}
    BY <1>3, <2>3 DEF FixFingersSet, RingInv
  <2> QED
    BY <1>0, <1>3, <2>1, <2>2, <2>4, RingGoto DEF FixFingersSet, RingInv
<1>4. CASE FindSuccessor(t)
  BY <1>0, <1>4, RingCalls
<1> QED
  BY <1>1, <1>2, <1>3, <1>4 DEF FixFingersStep

(* A node of the successor list never fails here, and a failure of any     *)
(* other node finds no key to replicate again.                             *)
LEMMA RingFailureDetection ==
  ASSUME TwoNodeEnvelope, TypeOK, MutexInv, RingInv, FailureDetectionStep
  PROVE  RingInv'
<1> DEFINE t == "failure_detection"
<1>0. t \in Threads /\ t # "main" /\ ThreadInv(pc[t], loc[t])
  BY ThreadNames DEF RingInv
<1>1. \A l \in {"loop", "fd_ping", "fd_handle", "fd_update"} : ThreadInv(l, loc[t])
  BY <1>0 DEF ThreadInv, Lookup, Transferring
<1>2. CASE CopyNodesToCheck
  <2>1. pc["main"] # "constructed"
    BY <1>0, <1>2, RingMade DEF CopyNodesToCheck, Locks
  <2> QED
    BY <1>0, <1>1, <1>2, <2>1, RingGotoOnly DEF CopyNodesToCheck
<1>3. CASE PingNode
  BY <1>3 DEF PingNode, RingInv, routing
<1>4. CASE PingsDone \/ FailuresDone
  <2>1. pc["main"] # "constructed"
    BY <1>0, <1>4, RingMade DEF PingsDone, FailuresDone, At
  <2> QED
    BY <1>0, <1>1, <1>4, <2>1, RingGotoOnly DEF PingsDone, FailuresDone
<1>5. CASE HandleFailed
  <2>1. pc["main"] # "constructed"
    BY <1>0, <1>5, RingMade DEF HandleFailed, At
  <2> QED
    BY <1>0, <1>1, <1>5, <2>1, RingGotoOnly DEF HandleFailed, shared
<1>6. CASE HandleSuccessorFailure
  <2>1. failed_nodes \subseteq Faulty
    BY DEF TypeOK
  <2> QED
    BY <1>6, <2>1, EnvelopeFacts DEF HandleSuccessorFailure, RingInv
<1>7. CASE HandleOtherFailure
  <2>1. pc["main"] # "constructed" /\ successor_list[0] = Existing
    BY <1>0, <1>7, RingMade DEF HandleOtherFailure, Locks, RingInv
  <2>2. Faulty # {}
    BY <1>7 DEF HandleOtherFailure, TypeOK
  <2>3. ThreadInv("fd_keys", loc[t])
    BY <1>0, <2>2 DEF ThreadInv, Lookup, Transferring
  <2>4. /\ predecessor' \in Notifiers \cup {nullptr}
        /\ \A i \in DOMAIN finger_table' : finger_table'[i] \in {Self, Existing}
    BY <1>7, <2>1 DEF HandleOtherFailure, RingInv
  <2>5. Goto(t, "fd_keys") /\ successor_list' = successor_list /\ local_storage' \subseteq Keys
    BY <1>7 DEF HandleOtherFailure, RingInv
  <2> QED
    BY <1>0, <2>1, <2>3, <2>4, <2>5, RingGoto
<1>8. CASE TriggerReReplication
  <2>1. pc["main"] # "constructed"
    BY <1>0, <1>8, RingMade DEF TriggerReReplication, At
  <2>2. Faulty # {}
    BY <1>0, <1>8 DEF TriggerReReplication, At, ThreadInv
  <2>3. local_storage = {}
    BY <2>2, EnvelopeFacts DEF RingInv
  <2> QED
    BY <1>0, <1>1, <1>8, <2>1, <2>3, RingGotoOnly DEF TriggerReReplication
<1> QED
  BY <1>2, <1>3, <1>4, <1>5, <1>6, <1>7, <1>8 DEF FailureDetectionStep

(* The maintenance loops and their start and stop keep it. *)
LEMMA RingLoop ==
  ASSUME TypeOK, MutexInv, RingInv, NEW t \in Maintenance, Loop(t)
  PROVE  RingInv'
<1>0. t \in Threads /\ t # "main" /\ ThreadInv(pc[t], loc[t])
  BY ThreadNames DEF RingInv, Maintenance
<1>1. ThreadInv("exited", loc[t]) /\ ThreadInv(FirstLabel(t), loc[t])
  BY <1>0 DEF ThreadInv, Lookup, Transferring, FirstLabel
<1>2. pc["main"] # "constructed"
  BY <1>0, RingMade DEF Loop, At
<1> QED
  BY <1>0, <1>1, <1>2, RingGotoOnly DEF Loop, shared

(* The workers. *)
LEMMA RingReceive ==
  ASSUME TypeOK, RingInv, NEW t \in Workers, Receive(t)
  PROVE  RingInv'
<1>0. t \in Threads /\ t # "main"
  BY ThreadNames, NodeAssumption
<1>1. ASSUME NEW l, NEW r, ThreadInv(l, r), Begin(t, l, r)
      PROVE  RingInv'
  <2>1. pc["main"] # "constructed" /\ GotoWith(t, l, r) /\ UNCHANGED shared
    BY <1>1 DEF Begin, ChordEnabled
  <2> QED
    BY <1>0, <1>1, <2>1, RingGotoOnly DEF shared
<1>2. CASE ReceiveFindSuccessor(t)
  <2>1. PICK id \in Lookups :
          Begin(t, "fs_check", [NoLocals EXCEPT !.op = "FIND_SUCCESSOR", !.arg = id,
                                                !.ret = "answer"])
    BY <1>2 DEF ReceiveFindSuccessor
  <2> DEFINE r == [NoLocals EXCEPT !.op = "FIND_SUCCESSOR", !.arg = id, !.ret = "answer"]
  <2>2. ThreadInv("fs_check", r)
    BY DEF ThreadInv, NoLocals, Lookup, Transferring
  <2>3. Begin(t, "fs_check", r)
    BY <2>1
  <2> HIDE DEF r
  <2> QED
    BY <1>1, <2>2, <2>3
<1>3. CASE ReceiveNotify(t)
  <2>1. PICK n \in Notifiers :
          Begin(t, "nt_update", [NoLocals EXCEPT !.op = "NOTIFY", !.node = n])
    BY <1>3 DEF ReceiveNotify
  <2> DEFINE r == [NoLocals EXCEPT !.op = "NOTIFY", !.node = n]
  <2>2. ThreadInv("nt_update", r)
    BY DEF ThreadInv, NoLocals, Lookup, Transferring
  <2>3. Begin(t, "nt_update", r)
    BY <2>1
  <2> HIDE DEF r
  <2> QED
    BY <1>1, <2>2, <2>3
<1>4. CASE ReceiveKeyRequest(t)
  <2>1. PICK op \in {"PUT", "GET", "DELETE"}, k \in Keys :
          Begin(t, "gate", [NoLocals EXCEPT !.op = op, !.arg = k])
    BY <1>4 DEF ReceiveKeyRequest
  <2> DEFINE r == [NoLocals EXCEPT !.op = op, !.arg = k]
  <2>2. ThreadInv("gate", r)
    BY DEF ThreadInv, NoLocals, Lookup, Transferring
  <2>3. Begin(t, "gate", r)
    BY <2>1
  <2> HIDE DEF r
  <2> QED
    BY <1>1, <2>2, <2>3
<1>5. CASE ReceiveTransferKey(t)
  BY <1>5 DEF ReceiveTransferKey, routing, RingInv
<1>6. CASE ReceiveMalformedNotify(t)
  <2>1. ThreadInv("crashed", NoLocals)
    BY DEF ThreadInv, NoLocals, Lookup, Transferring
  <2> QED
    BY <1>1, <1>6, <2>1 DEF ReceiveMalformedNotify
<1> QED
  BY <1>2, <1>3, <1>4, <1>5, <1>6 DEF Receive

(* The handlers of requests keep it. *)
LEMMA RingServe ==
  ASSUME TwoNodeEnvelope, TypeOK, MutexInv, RingInv, NEW t \in Workers, Serve(t)
  PROVE  RingInv'
<1>0. t \in Threads /\ t # "main" /\ loc[t] \in Locals /\ ThreadInv(pc[t], loc[t])
  BY ThreadNames, NodeAssumption DEF RingInv, TypeOK
<1>1. CASE Transfer(t) \/ FindSuccessor(t)
  BY <1>0, <1>1, RingCalls
<1> SUFFICES ASSUME ~(Transfer(t) \/ FindSuccessor(t)) PROVE RingInv'
  BY <1>1
<1>2. pc["main"] # "constructed"
  BY <1>0, RingMade DEF Serve, Answer, Notify, Gate, Redirect, CheckResponsible, Forward,
     StoreLocally, GetLocally, ExistsLocally, ProbeReplicas, RemoveLocally, Replicate,
     Rollback, Locks, At
<1>3. /\ ThreadInv("idle", NoLocals)
      /\ \A l \in {"remove", "probe", "replicate", "rollback"} : ThreadInv(l, loc[t])
  BY <1>0 DEF ThreadInv, NoLocals, Lookup, Transferring
<1>4. CASE Answer(t) \/ Forward(t)
  BY <1>0, <1>2, <1>3, <1>4, RingGotoOnly DEF Answer, Forward, Reply, shared
<1>5. CASE Notify(t)
  <2>1. /\ ThreadInv("tr_scan", [loc[t] EXCEPT !.ret = "answer"])
        /\ ThreadInv("answer", loc[t])
        /\ loc[t].node \in Notifiers
    BY <1>0, <1>5 DEF Notify, Locks, ThreadInv, Locals, Lookup, Transferring
  <2>2. predecessor' \in Notifiers \cup {nullptr}
    BY <1>5, <2>1 DEF Notify, RingInv
  <2> QED
    BY <1>0, <1>2, <1>5, <2>1, <2>2, RingGoto DEF Notify, RingInv
<1>6. CASE Gate(t)
  <2>1. /\ ThreadInv("check", loc[t])
        /\ ThreadInv("fs_check", [loc[t] EXCEPT !.ret = "redirect"])
    BY <1>0, <1>6 DEF Gate, Locks, ThreadInv, Locals, Lookup, Transferring
  <2> QED
    BY <1>0, <1>2, <1>6, <2>1, RingGotoOnly DEF Gate, CallFindSuccessor, shared
<1>7. CASE Redirect(t)
  <2>1. ThreadInv("check", [loc[t] EXCEPT !.res = nullptr, !.ret = "none"])
    BY <1>0, <1>7 DEF Redirect, At, ThreadInv, Locals, Lookup, Transferring
  <2> QED
    BY <1>0, <1>2, <1>3, <1>7, <2>1, RingGotoOnly DEF Redirect, Reply, shared
<1>8. CASE CheckResponsible(t)
  <2>1. /\ ThreadInv("local", loc[t])
        /\ ThreadInv("fs_check", [loc[t] EXCEPT !.ret = "forward"])
    BY <1>0, <1>8 DEF CheckResponsible, Locks, ThreadInv, Locals, Lookup, Transferring
  <2> QED
    BY <1>0, <1>2, <1>8, <2>1, RingGotoOnly DEF CheckResponsible, CallFindSuccessor, shared
<1>9. CASE StoreLocally(t)
  <2>1. loc[t].arg \in Keys
    BY <1>0, <1>9 DEF StoreLocally, At, ThreadInv
  <2> QED
    BY <1>0, <1>2, <1>3, <1>9, <2>1, RingGoto DEF StoreLocally, RingInv, routing
<1>10. CASE GetLocally(t) \/ ExistsLocally(t)
  BY <1>0, <1>2, <1>3, <1>10, RingGotoOnly DEF GetLocally, ExistsLocally, Reply, shared
<1>11. CASE ProbeReplicas(t) \/ Replicate(t)
  BY <1>0, <1>2, <1>3, <1>11, RingGotoOnly DEF ProbeReplicas, Replicate, Reply, shared
<1>12. CASE RemoveLocally(t)
  BY <1>0, <1>2, <1>3, <1>12, RingGoto DEF RemoveLocally, RingInv, routing
<1>13. CASE Rollback(t)
  BY <1>0, <1>2, <1>3, <1>13, RingGoto DEF Rollback, Reply, RingInv, routing
<1> QED
  BY <1>4, <1>5, <1>6, <1>7, <1>8, <1>9, <1>10, <1>11, <1>12, <1>13 DEF Serve

(* Every step keeps it, in the envelope. *)
LEMMA RingNext == TwoNodeEnvelope /\ TypeOK /\ MutexInv /\ RingInv /\ [Next]_vars => RingInv'
<1> SUFFICES ASSUME TwoNodeEnvelope, TypeOK, MutexInv, RingInv, [Next]_vars
             PROVE  RingInv'
  OBVIOUS
<1>1. CASE UNCHANGED vars
  BY <1>1 DEF vars, shared, routing, RingInv
<1>2. CASE MainStep
  BY <1>2, RingMain
<1>3. CASE Transfer("main")
  BY <1>3 DEF Transfer, TransferScan, TransferTest, TransferRead, TransferSend,
     TransferRemove, TransferDone, At,
     RingInv, Transferring
<1>4. CASE \E t \in Maintenance : Loop(t)
  BY <1>4, RingLoop
<1>5. CASE StabilizeStep \/ FixFingersStep \/ FailureDetectionStep
  BY <1>5, RingStabilize, RingFixFingers, RingFailureDetection
<1>6. CASE \E t \in Workers : Receive(t) \/ Serve(t)
  BY <1>6, RingReceive, RingServe
<1>7. CASE Stopped
  BY <1>1, <1>7 DEF Stopped
<1> QED
  BY <1>1, <1>2, <1>3, <1>4, <1>5, <1>6, <1>7 DEF Next

(* It is an invariant of the node, in the envelope. *)
LEMMA RingInvariant == ASSUME TwoNodeEnvelope PROVE Spec => []RingInv
<1>1. Init => RingInv
  BY RingInit
<1>2. TypeOK /\ MutexInv /\ RingInv /\ [Next]_vars => RingInv'
  BY RingNext
<1> QED
  BY <1>1, <1>2, TypeCorrect, MutexInvariant, PTL DEF Spec

(* Inside the two-node neighbourhood, whatever the interleaving of lookups, *)
(* notifications, failures of other peers, key requests and maintenance,   *)
(* no thread locks routing_mutex twice.                                    *)
THEOREM NoSelfDeadlockInEnvelope == ASSUME TwoNodeEnvelope PROVE Spec => []NoSelfDeadlock
<1>1. RingInv => NoSelfDeadlock
  BY DEF RingInv, ThreadInv, NoSelfDeadlock
<1> QED
  BY <1>1, RingInvariant, PTL

(* There the ranges of this node and of its successor cover the ring at    *)
(* all times, join and notify included: every lookup is decided by         *)
(* find_successor's two checks.                                            *)
THEOREM RingCoveredInEnvelope == ASSUME TwoNodeEnvelope PROVE Spec => []RingCovered
<1>1. RingInv => RingCovered
  <2> SUFFICES ASSUME RingInv, NEW id \in Hash160, ~Responsible(id)
               PROVE  in_range(id, Self, successor_list[0], TRUE)
    BY DEF RingCovered
  <2>1. successor_list[0] = Existing
    BY DEF RingInv, Responsible
  <2> QED
    BY <2>1, NotOursIsSuccessors
<1> QED
  BY <1>1, RingInvariant, PTL

(* There find_successor answers only this node or the node it joined       *)
(* through, also when the predecessor failed or changed meanwhile.         *)
THEOREM LookupsLocalInEnvelope == ASSUME TwoNodeEnvelope PROVE Spec => []LookupsStayLocal
<1>1. RingInv => LookupsStayLocal
  BY DEF RingInv, ThreadInv, Lookup, LookupsStayLocal
<1> QED
  BY <1>1, RingInvariant, PTL
-----------------------------------------------------------------------------
(* A request that is sent on.  Between the test of store_key, retrieve_key *)
(* or remove_key and those of find_successor another thread may run notify, *)
(* which only ever moves the predecessor towards this node.                *)

(* A predecessor nearer to s leaves s responsible for no new identifier.   *)
LEMMA NearerOwnsLess ==
  ASSUME NEW id \in Int, NEW p \in Int, NEW n \in Int, NEW s \in Int,
         in_range(n, p, s, FALSE), ~in_range(id, p, s, TRUE)
  PROVE  ~in_range(id, n, s, TRUE)
BY DEF in_range

(* What a worker that is sending a request on knows. *)
SentOn(t) ==
  /\ (pc[t] \in {"fs_check", "fs_lookup"} /\ loc[t].ret = "forward")
       => ~Responsible(loc[t].arg)
  /\ pc[t] = "forward" => loc[t].res # Self

ForwardInv == \A t \in Workers : SentOn(t)

(* An identifier that is not this node's does not become its own again: a  *)
(* predecessor is forgotten only where no key is used.                     *)
LEMMA StaysElsewhere ==
  ASSUME TwoNodeEnvelope, TypeOK, RingInv, Next, pc["main"] # "constructed", Keys # {},
         NEW id \in Hash160, ~Responsible(id)
  PROVE  ~Responsible(id)'
<1> SUFFICES ASSUME predecessor' # predecessor PROVE ~Responsible(id)'
  BY DEF Responsible
<1>0. /\ predecessor \in Notifiers /\ predecessor \in Int /\ id \in Int /\ Self \in Int
      /\ ~in_range(id, predecessor, Self, TRUE)
  BY EnvelopeFacts, RingIds DEF RingInv, Responsible
<1>1. ASSUME NEW t \in Workers, Notify(t) PROVE ~Responsible(id)'
  <2>1. /\ predecessor' = loc[t].node /\ in_range(loc[t].node, predecessor, Self, FALSE)
    BY <1>0, <1>1, EnvelopeFacts DEF Notify
  <2>2. ThreadInv("nt_update", loc[t])
    BY <1>1, ThreadNames DEF Notify, Locks, RingInv
  <2>3. loc[t].node \in Int /\ loc[t].node # nullptr
    BY <2>2, EnvelopeFacts DEF ThreadInv
  <2> QED
    BY <1>0, <2>1, <2>3, NearerOwnsLess DEF Responsible
<1>2. ASSUME NEW t \in Threads, Transfer(t) \/ FindSuccessor(t) PROVE FALSE
  BY <1>2 DEF Transfer, TransferScan, TransferTest, TransferRead, TransferSend, TransferRemove,
     TransferDone, FindSuccessor, FindSuccessorCheck, FindSuccessorLookup, shared, routing
<1>3. ASSUME NEW t \in Workers, Serve(t) PROVE ~Responsible(id)'
  BY <1>1, <1>2, <1>3, ThreadNames DEF Serve, Answer, Gate, Redirect, CheckResponsible, Forward,
     StoreLocally, GetLocally, ExistsLocally, ProbeReplicas, RemoveLocally, Replicate,
     Rollback, shared, routing
<1>4. ASSUME NEW t \in Workers, Receive(t) PROVE FALSE
  BY <1>4 DEF Receive, ReceiveFindSuccessor, ReceiveNotify, ReceiveMalformedNotify,
     ReceiveKeyRequest, ReceiveTransferKey, Begin, shared, routing
<1>5. CASE FailureDetectionStep
  <2>1. Faulty = {} /\ failed_nodes = {}
    BY EnvelopeFacts DEF TypeOK
  <2> QED
    BY <1>5, <2>1 DEF FailureDetectionStep, CopyNodesToCheck, PingNode, PingsDone, HandleFailed,
       HandleSuccessorFailure, HandleOtherFailure, TriggerReReplication, FailuresDone,
       shared, routing
<1>6. CASE StabilizeStep \/ FixFingersStep
  BY <1>2, <1>6, ThreadNames DEF StabilizeStep, StabilizeRead, StabilizeContact, StabilizeAdopt,
     StabilizeNotify, FixFingersStep, FixFingersNext, FixFingersCall, FixFingersSet, shared,
     routing
<1>7. CASE MainStep
  <2>1. pc["main"] # "lv_reset"
    BY ThreadNames DEF RingInv, ThreadInv
  <2> QED
    BY <1>7, <2>1 DEF MainStep, Create, Join, StartMaintenance, StopMaintenance,
       LeaveReadSuccessor, LeaveReset, DisableChord, Locks, shared, routing
<1>8. CASE \E t \in Maintenance : Loop(t)
  BY <1>8 DEF Loop, shared, routing
<1>9. CASE Stopped
  BY <1>9 DEF Stopped, vars, shared, routing
<1> QED
  BY <1>2, <1>3, <1>4, <1>5, <1>6, <1>7, <1>8, <1>9, ThreadNames DEF Next

(* Nobody but a worker itself moves it on. *)
LEMMA OwnSteps ==
  ASSUME TypeOK, Next, NEW t \in Workers
  PROVE  Receive(t) \/ Serve(t) \/ (pc'[t] = pc[t] /\ loc'[t] = loc[t])
<1>0. /\ t \in Threads /\ t \notin Maintenance /\ t # "main"
      /\ pc \in [Threads -> Labels] /\ loc \in [Threads -> Locals]
  BY ThreadNames, NodeAssumption DEF Maintenance, TypeOK
<1>1. ASSUME NEW u \in Threads, u # t, NEW l, NEW r, Goto(u, l) \/ GotoWith(u, l, r)
      PROVE  pc'[t] = pc[t] /\ loc'[t] = loc[t]
  BY <1>0, <1>1 DEF Goto, GotoWith
<1>2. ASSUME NEW u \in Threads, u # t, Transfer(u) \/ FindSuccessor(u)
      PROVE  pc'[t] = pc[t] /\ loc'[t] = loc[t]
  BY <1>1, <1>2 DEF Transfer, TransferScan, TransferTest, TransferRead, TransferSend,
     TransferRemove, TransferDone, FindSuccessor, FindSuccessorCheck, FindSuccessorLookup
<1>3. CASE MainStep
  BY <1>0, <1>1, <1>3, ThreadNames DEF MainStep, Create, Join, StartMaintenance,
     StopMaintenance, LeaveReadSuccessor, LeaveReset, DisableChord
<1>4. CASE \E u \in Maintenance : Loop(u)
  BY <1>0, <1>1, <1>4, ThreadNames DEF Loop
<1>5. CASE StabilizeStep
  BY <1>0, <1>1, <1>5, ThreadNames DEF Maintenance, StabilizeStep, StabilizeRead,
     StabilizeContact, StabilizeAdopt, StabilizeNotify
<1>6. CASE FixFingersStep
  BY <1>0, <1>1, <1>2, <1>6, ThreadNames DEF Maintenance, FixFingersStep, FixFingersNext,
     FixFingersCall, FixFingersSet
<1>7. CASE FailureDetectionStep
  BY <1>0, <1>1, <1>7, ThreadNames DEF Maintenance, FailureDetectionStep, CopyNodesToCheck,
     PingNode, PingsDone, HandleFailed, HandleSuccessorFailure, HandleOtherFailure,
     TriggerReReplication, FailuresDone
<1>8. ASSUME NEW u \in Workers, u # t, Receive(u)
      PROVE  pc'[t] = pc[t] /\ loc'[t] = loc[t]
  BY <1>1, <1>8, ThreadNames DEF Receive, ReceiveFindSuccessor, ReceiveNotify,
     ReceiveMalformedNotify, ReceiveKeyRequest, ReceiveTransferKey, Begin
<1>9. ASSUME NEW u \in Workers, u # t, Serve(u)
      PROVE  pc'[t] = pc[t] /\ loc'[t] = loc[t]
  BY <1>1, <1>2, <1>9, ThreadNames DEF Serve, Answer, Notify, Gate, Redirect,
     CheckResponsible, CallFindSuccessor, Forward, StoreLocally, GetLocally, ExistsLocally,
     ProbeReplicas, RemoveLocally, Replicate, Rollback, Reply
<1>10. CASE Stopped
  BY <1>10 DEF Stopped, vars
<1> QED
  BY <1>0, <1>2, <1>3, <1>4, <1>5, <1>6, <1>7, <1>8, <1>9, <1>10, ThreadNames DEF Next

(* A worker's own steps. *)
LEMMA ForwardServe ==
  ASSUME TwoNodeEnvelope, TypeOK, MutexInv, RingInv, NEW t \in Workers, SentOn(t),
         Receive(t) \/ Serve(t)
  PROVE  SentOn(t)'
<1>0. /\ t \in Threads /\ t # "main" /\ loc[t] \in Locals /\ ThreadInv(pc[t], loc[t])
      /\ pc \in [Threads -> Labels] /\ loc \in [Threads -> Locals]
  BY ThreadNames, NodeAssumption DEF RingInv, TypeOK
<1>1. ASSUME NEW l, NEW r, l # "forward", l \in {"fs_check", "fs_lookup"} => r.ret # "forward",
             \/ GotoWith(t, l, r)
             \/ Goto(t, l) /\ r = loc[t]
      PROVE  SentOn(t)'
  BY <1>0, <1>1 DEF SentOn, Goto, GotoWith
<1>10. pc'[t] \notin {"forward", "fs_check", "fs_lookup"} => SentOn(t)'
  BY DEF SentOn
<1>2. CASE Receive(t)
  <2>1. ASSUME NEW l, NEW r, l # "forward", r.ret # "forward", Begin(t, l, r)
        PROVE  SentOn(t)'
    BY <1>1, <2>1 DEF Begin
  <2>2. CASE ReceiveFindSuccessor(t)
    <3>1. PICK id \in Lookups :
            Begin(t, "fs_check", [NoLocals EXCEPT !.op = "FIND_SUCCESSOR", !.arg = id,
                                                  !.ret = "answer"])
      BY <2>2 DEF ReceiveFindSuccessor
    <3>2. [NoLocals EXCEPT !.op = "FIND_SUCCESSOR", !.arg = id, !.ret = "answer"].ret = "answer"
      BY DEF NoLocals
    <3> QED
      BY <2>1, <3>1, <3>2
  <2>3. CASE ReceiveNotify(t) \/ ReceiveMalformedNotify(t) \/ ReceiveKeyRequest(t)
    BY <1>0, <1>10, <2>3 DEF ReceiveNotify, ReceiveMalformedNotify, ReceiveKeyRequest, Begin,
       GotoWith
  <2>4. CASE ReceiveTransferKey(t)
    BY <2>4 DEF ReceiveTransferKey, SentOn, Responsible, routing
  <2> QED
    BY <1>2, <2>2, <2>3, <2>4 DEF Receive
<1>3. CASE FindSuccessorCheck(t)
  <2>1. CASE Responsible(loc[t].arg)
    <3>1. loc[t].ret \in {"none", "answer", "redirect", "ff_set"}
      BY <1>0, <1>3, <2>1 DEF FindSuccessorCheck, Locks, SentOn, ThreadInv, Lookup
    <3> QED
      BY <1>1, <1>3, <2>1, <3>1 DEF FindSuccessorCheck
  <2>2. CASE ~Responsible(loc[t].arg)
    BY <1>0, <1>3, <2>2 DEF FindSuccessorCheck, Goto, SentOn, Responsible, shared, routing
  <2> QED
    BY <2>1, <2>2
<1>4. CASE FindSuccessorLookup(t)
  <2>1. pc["main"] # "constructed" /\ successor_list[0] = Existing
    BY <1>0, <1>4, RingMade DEF FindSuccessorLookup, Locks, RingInv
  <2>2. GotoWith(t, loc[t].ret, [loc[t] EXCEPT !.res = Existing])
    BY <1>0, <1>4, <2>1 DEF FindSuccessorLookup, Locks, ThreadInv
  <2>3. loc[t].ret \in {"none", "answer", "redirect", "ff_set", "forward"}
    BY <1>0 DEF ThreadInv, Lookup
  <2>4. CASE loc[t].ret # "forward"
    BY <1>1, <2>2, <2>3, <2>4
  <2>5. CASE loc[t].ret = "forward"
    <3>1. predecessor \in Notifiers
      BY <1>4, <2>5 DEF FindSuccessorLookup, Locks, SentOn, Responsible, RingInv
    <3>2. Existing # Self
      BY <3>1, EnvelopeFacts DEF in_range
    <3>3. pc'[t] = "forward" /\ loc'[t].res = Existing
      BY <1>0, <2>2, <2>5 DEF GotoWith, Locals
    <3> QED
      BY <3>2, <3>3 DEF SentOn
  <2> QED
    BY <2>4, <2>5
<1>5. CASE CheckResponsible(t)
  <2>1. CASE Responsible(loc[t].arg)
    BY <1>1, <1>5, <2>1 DEF CheckResponsible
  <2>2. CASE ~Responsible(loc[t].arg)
    <3>1. pc'[t] = "fs_check" /\ loc'[t] = [loc[t] EXCEPT !.ret = "forward"]
      BY <1>0, <1>5, <2>2 DEF CheckResponsible, CallFindSuccessor, GotoWith
    <3>2. loc'[t].arg = loc[t].arg /\ predecessor' = predecessor
      BY <1>0, <1>5, <3>1 DEF Locals, CheckResponsible, shared, routing
    <3> QED
      BY <2>2, <3>1, <3>2 DEF SentOn, Responsible
  <2> QED
    BY <2>1, <2>2
<1>6. CASE Gate(t)
  <2>1. [loc[t] EXCEPT !.ret = "redirect"].ret = "redirect"
    BY <1>0 DEF Locals
  <2> QED
    BY <1>1, <1>6, <2>1 DEF Gate, CallFindSuccessor
<1>7. CASE Transfer(t)
  <2>1. pc[t] \in Transferring => loc[t].ret = "answer"
    BY <1>0 DEF ThreadInv
  <2> QED
    BY <1>0, <1>10, <1>7, <2>1 DEF Transfer, TransferScan, TransferTest, TransferRead,
       TransferSend, TransferRemove, TransferDone, Goto, GotoWith, ScanLabel, At, Transferring
<1>8. CASE Answer(t) \/ Notify(t) \/ Redirect(t) \/ Forward(t)
  BY <1>0, <1>10, <1>8 DEF Answer, Notify, Redirect, Forward, Reply, Goto, GotoWith
<1>9. CASE StoreLocally(t) \/ GetLocally(t) \/ ExistsLocally(t) \/ ProbeReplicas(t)
           \/ RemoveLocally(t) \/ Replicate(t) \/ Rollback(t)
  BY <1>0, <1>10, <1>9 DEF Goto, GotoWith, StoreLocally, GetLocally, ExistsLocally, ProbeReplicas, RemoveLocally,
     Replicate, Rollback, Reply
<1> QED
  BY <1>2, <1>3, <1>4, <1>5, <1>6, <1>7, <1>8, <1>9 DEF Serve, FindSuccessor

(* Every step keeps what the workers know. *)
LEMMA ForwardNext ==
  ASSUME TwoNodeEnvelope, TypeOK, MutexInv, RingInv, ForwardInv, [Next]_vars
  PROVE  ForwardInv'
<1>1. CASE UNCHANGED vars
  BY <1>1 DEF vars, shared, routing, ForwardInv, SentOn, Responsible
<1>2. CASE Next
  <2> SUFFICES ASSUME NEW t \in Workers PROVE SentOn(t)'
    BY DEF ForwardInv
  <2>0. SentOn(t) /\ t \in Threads /\ t # "main" /\ ThreadInv(pc[t], loc[t])
        /\ loc[t].arg \in Hash160
    BY ThreadNames, NodeAssumption DEF ForwardInv, RingInv, TypeOK, Locals
  <2>1. CASE Receive(t) \/ Serve(t)
    BY <2>0, <2>1, ForwardServe
  <2>2. CASE pc'[t] = pc[t] /\ loc'[t] = loc[t]
    <3>1. CASE pc[t] \in {"fs_check", "fs_lookup"} /\ loc[t].ret = "forward"
      <4>1. Keys # {} /\ pc["main"] # "constructed" /\ ~Responsible(loc[t].arg)
        BY <2>0, <3>1, RingMade DEF ThreadInv, SentOn
      <4>2. ~Responsible(loc[t].arg)'
        <5>1. ASSUME NEW id \in Hash160, id = loc[t].arg PROVE ~Responsible(id)'
          BY <1>2, <4>1, <5>1, StaysElsewhere
        <5> QED
          BY <2>0, <2>2, <5>1 DEF Responsible
      <4> QED
        BY <2>2, <3>1, <4>2 DEF SentOn, Responsible
    <3>2. CASE ~(pc[t] \in {"fs_check", "fs_lookup"} /\ loc[t].ret = "forward")
      BY <2>0, <2>2, <3>2 DEF SentOn
    <3> QED
      BY <3>1, <3>2
  <2> QED
    BY <1>2, <2>1, <2>2, OwnSteps
<1> QED
  BY <1>1, <1>2

(* There a request that loses its node on the way, by a NOTIFY between the *)
(* gate of handle_chord_operation and the test of store_key, retrieve_key  *)
(* or remove_key, is always sent to another node, never refused: with any  *)
(* number of workers and of peers that notify.                             *)
THEOREM ForwardsElsewhereInEnvelope == ASSUME TwoNodeEnvelope PROVE Spec => []ForwardsElsewhere
<1>1. Init => ForwardInv
  BY ThreadNames, NodeAssumption DEF Init, ForwardInv, SentOn
<1>2. TypeOK /\ MutexInv /\ RingInv /\ ForwardInv /\ [Next]_vars => ForwardInv'
  BY ForwardNext
<1>3. RingInv /\ ForwardInv => ForwardsElsewhere
  <2> SUFFICES ASSUME RingInv, ForwardInv, NEW t \in Workers, pc[t] = "forward"
               PROVE  loc[t].res \notin {nullptr, Self}
    BY DEF ForwardsElsewhere
  <2>1. loc[t].res \in {Self, Existing} /\ loc[t].res # Self
    BY ThreadNames DEF RingInv, ThreadInv, Lookup, ForwardInv, SentOn
  <2>2. Existing # nullptr
    BY NodeAssumption, RingIds DEF Nodes
  <2> QED
    BY <2>1, <2>2
<1> QED
  BY <1>1, <1>2, <1>3, TypeCorrect, MutexInvariant, RingInvariant, PTL DEF Spec
=============================================================================
