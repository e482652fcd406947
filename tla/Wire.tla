-------------------------------- MODULE Wire ---------------------------------
(***************************************************************************)
(* Client, Protocol and the connection handling of Server on byte streams: *)
(* one Client object makes calls, one after the other, to its server,      *)
(* which sends requests for keys it is not responsible for elsewhere       *)
(* (REDIRECT); Client follows one redirect with a Client of its own.       *)
(*                                                                         *)
(* TCP delivers the bytes of a connection in order and in any portions.    *)
(* What a closed socket had sent is still read by the other end; a send to *)
(* a closed end is accepted until the reset has come back, then raises     *)
(* SIGPIPE, which src/ neither ignores nor suppresses: the process ends.   *)
(*                                                                         *)
(* Lengths are written big-endian in LengthBytes digits of base Radix (4   *)
(* and 256 in the code); TLC uses three binary digits, so that the keys    *)
(* and values of a model need more than one.                               *)
(***************************************************************************)
EXTENDS Integers, Sequences, FiniteSetsExt

CONSTANTS
  Radix, LengthBytes,
  Keys,             \* keys, as sequences of bytes
  Redirected,       \* the keys that the caller's server redirects
  MaxCalls,         \* bound: calls of a behaviour
  MaxConnections,   \* bound: connections of a behaviour
  MaxShort          \* bound: sends and receives that stop short

ASSUME WireAssumption ==
  /\ Radix \in Nat \ {0, 1} /\ LengthBytes \in Nat \ {0}
  /\ Keys \subseteq Seq(Nat) /\ Redirected \subseteq Keys
  /\ MaxCalls \in Nat /\ MaxConnections \in Nat /\ MaxShort \in Nat
  \* the lengths that occur fit their LengthBytes digits, and key_len + 4,
  \* a uint32_t in handle_client, does not wrap
  /\ 2 < Radix ^ LengthBytes
  /\ \A k \in Keys : Len(k) + LengthBytes < Radix ^ LengthBytes

(* Arithmetic the provers do not know. *)
ASSUME PowerAssumption ==
  /\ Radix ^ 0 = 1
  /\ \A k \in 0 .. LengthBytes - 1 : /\ Radix ^ k \in Nat \ {0}
                                     /\ Radix ^ (k + 1) = Radix * Radix ^ k

(* OpCode and StatusCode *)
GET == 1
PUT == 2
DELETE == 3
PING == 19
SUCCESS == 0
KEY_NOT_FOUND == 1
ERROR == 2
REDIRECT == 3

Servers == {"own", "other"}
Connections == 1 .. MaxConnections
NoValue == <<>>
HeaderSize == 1 + LengthBytes
-----------------------------------------------------------------------------
(* Protocol *)
writeUint32(n) ==
  [i \in 1 .. LengthBytes |-> (n \div Radix ^ (LengthBytes - i)) % Radix]

Short == -1

(* The number at offset (of a vector whose first index is 0), or Short. *)
readUint32(data, offset) ==
  IF offset + LengthBytes > Len(data) THEN Short
  ELSE LET value[i \in 0 .. LengthBytes] ==
             IF i = 0 THEN 0 ELSE value[i - 1] * Radix + data[offset + i]
       IN  value[LengthBytes]

Request(op, key, value) == [opcode |-> op, key |-> key, value |-> value]

Response(status, value) == [status |-> status, value |-> value]

encodeRequest(req) ==
  <<req.opcode>> \o writeUint32(Len(req.key)) \o req.key
                 \o writeUint32(Len(req.value)) \o req.value

(* What the decoders return for bytes they refuse. *)
Refused == Request(0, <<>>, <<>>)
RefusedResponse == Response(4, <<>>)

(* The size of a request up to the value, and of the whole of it, as far   *)
(* as data tells; Short where it does not.                                 *)
KeyEnd(data) ==
  LET keyLen == readUint32(data, 1)
  IN  IF keyLen = Short \/ HeaderSize + keyLen > Len(data) THEN Short ELSE HeaderSize + keyLen

(* Mutant of decodeRequest: the value starts at its length's last byte. *)
decodeRequestEarly(data) ==
  LET end == KeyEnd(data)
      valueLen == readUint32(data, end)
  IN  Request(data[1], SubSeq(data, HeaderSize + 1, end),
              SubSeq(data, end + LengthBytes, end + LengthBytes + valueLen - 1))

decodeRequest(data) ==
  LET end == KeyEnd(data)
      valueLen == readUint32(data, end)
  IN  IF \/ end = Short \/ valueLen = Short
         \/ end + LengthBytes + valueLen > Len(data)
      THEN Refused
      ELSE Request(data[1], SubSeq(data, HeaderSize + 1, end),
                   SubSeq(data, end + LengthBytes + 1, end + LengthBytes + valueLen))

encodeResponse(resp) == <<resp.status>> \o writeUint32(Len(resp.value)) \o resp.value

decodeResponse(data) ==
  LET valueLen == readUint32(data, 1)
  IN  IF valueLen = Short \/ HeaderSize + valueLen > Len(data) THEN RefusedResponse
      ELSE Response(data[1], SubSeq(data, HeaderSize + 1, HeaderSize + valueLen))
-----------------------------------------------------------------------------
VARIABLES
  \* the Client object and the call it is in
  socket,           \* its connection, 0 when not connected
  pc,               \* "idle", "connect", "send", "header", "payload", "killed"
  active,           \* the connection of send_request: socket, or the redirect's
  request,
  output, input,    \* what is left to send, what has been received
  calls,            \* how many were made
  \* the connections
  opened,           \* how many there have been
  conn,
  \* the servers
  storage,
  copies,           \* what a server's replicas may hold
  killed,           \* by SIGPIPE
  short,            \* how often a transfer stopped short
  \* history
  possible,         \* what the answered calls leave a key with
  unsure,           \* what the calls without an answer may still make of it
  wrong             \* the calls that returned what they should not

caller == <<socket, pc, active, request, output, input, calls>>
servers == <<storage, copies, killed>>
history == <<possible, unsure, wrong>>
vars == <<caller, opened, conn, servers, short, history>>

(* A connection: the server it leads to, the state of both ends, whether   *)
(* the client end has timeouts, the bytes under way, handle_client's       *)
(* request so far and where it is, the reply still to send, whether part   *)
(* of that was sent, whether the reset has come back; and, as a history,   *)
(* the request that waits for its answer, and that answer.                 *)
NewConnection(s, t, req) ==
  [server |-> s, client |-> "open", worker |-> "open", timeouts |-> t,
   up |-> <<>>, down |-> <<>>, buffer |-> <<>>, stage |-> "header",
   reply |-> <<>>, part |-> FALSE, reset |-> FALSE,
   asked |-> req, answer |-> RefusedResponse]

Init ==
  /\ socket = 0 /\ pc = "idle" /\ active = 0 /\ request = Refused
  /\ output = <<>> /\ input = <<>> /\ calls = 0
  /\ opened = 0 /\ conn = <<>>
  /\ storage = [s \in Servers |-> [k \in Keys |-> NoValue]]
  /\ copies = [s \in Servers |-> [k \in Keys |-> {}]]
  /\ killed = [s \in Servers |-> FALSE]
  /\ short = 0
  /\ possible = [k \in Keys |-> {NoValue}] /\ unsure = [k \in Keys |-> {}]
  /\ wrong = {}

(* How many of n bytes a send or recv moves: any number, at least one. *)
Portions(n) == IF short < MaxShort THEN 1 .. n ELSE {n}
Moves(k, n) == short' = IF k < n THEN short + 1 ELSE short
-----------------------------------------------------------------------------
(* connect: ::connect succeeds at once, and then no timeouts are set, or   *)
(* after poll, and then they are.  (A failure changes nothing.)            *)
OpenConnection(s, req) ==
  /\ opened < MaxConnections /\ ~killed[s]
  /\ opened' = opened + 1
  /\ \E t \in BOOLEAN : conn' = Append(conn, NewConnection(s, t, req))

connect ==
  /\ pc = "idle" /\ socket = 0
  /\ OpenConnection("own", Refused)
  /\ socket' = opened'
  /\ UNCHANGED <<pc, active, request, output, input, calls, servers, short, history>>

(* The connections after the client end of c is closed. *)
Closed(c) ==
  [conn EXCEPT ![c].client = "closed", ![c].down = <<>>, ![c].timeouts = FALSE,
               ![c].answer = RefusedResponse]

(* disconnect, also by ~Client, between two calls. *)
disconnect ==
  /\ pc = "idle" /\ socket # 0
  /\ socket' = 0
  /\ conn' = Closed(socket)
  /\ UNCHANGED <<pc, active, request, output, input, calls, opened, servers, short, history>>

(* Client::put, get, remove and ping up to send_request's first byte.  The *)
(* number of the call is part of the value a PUT writes.                   *)
Begin(op, key) ==
  /\ pc = "idle" /\ socket # 0 /\ calls < MaxCalls
  /\ calls' = calls + 1
  /\ request' = Request(op, key, IF op = PUT THEN <<0, calls'>> ELSE <<>>)
  /\ pc' = "send" /\ active' = socket
  /\ output' = encodeRequest(request') /\ input' = <<>>
  /\ conn' = [conn EXCEPT ![socket].asked = request',
                          ![socket].answer = RefusedResponse]
  /\ UNCHANGED <<socket, opened, servers, short, history>>
-----------------------------------------------------------------------------
(* The call is over. *)
Goto(label) ==
  /\ pc' = label /\ active' = 0 /\ request' = Refused
  /\ input' = <<>> /\ output' = <<>>

(* What a GET of k may return.  Where the key may be gone, the server asks *)
(* its replicas, and those may have kept any value that was sent to them.  *)
Explained(k) ==
  LET known == possible[k] \cup unsure[k]
  IN  known \cup (IF NoValue \in known THEN UNION {copies[s][k] : s \in Servers} ELSE {})

(* What the answer r to the call in progress tells about its key: a PUT    *)
(* that is answered with ERROR was taken back.                             *)
Note(r) ==
  /\ possible' = IF request.opcode \in {PUT, DELETE}
                 THEN [possible EXCEPT ![request.key] =
                         {IF r.status = ERROR THEN NoValue ELSE request.value}]
                 ELSE possible
  /\ wrong' = IF r # conn[active].answer THEN wrong \cup {"answer"}
              ELSE IF request.opcode = GET /\ r.value \notin Explained(request.key)
                   THEN wrong \cup {"read"}
                   ELSE wrong
  /\ UNCHANGED unsure

(* The call ends without an answer: a change may be made, now or later,    *)
(* and taken back.                                                         *)
NoteFailure ==
  /\ unsure' = IF request.opcode \in {PUT, DELETE}
               THEN [unsure EXCEPT ![request.key] = @ \cup {request.value, NoValue}]
               ELSE unsure
  /\ UNCHANGED <<possible, wrong>>

(* Mutant of Fail: no disconnect when it is recv that failed. *)
FailConnected ==
  /\ Goto("idle")
  /\ IF pc = "send" THEN socket' = 0 /\ conn' = Closed(active)
                    ELSE UNCHANGED <<socket, conn>>
  /\ NoteFailure

(* A failed send or recv: disconnect, and the call returns false. *)
Fail ==
  /\ Goto("idle")
  /\ socket' = IF active = socket THEN 0 ELSE socket
  /\ conn' = Closed(active)
  /\ NoteFailure

(* The process ends, and with it every socket it has. *)
Killed ==
  /\ Goto("killed") /\ socket' = 0
  /\ conn' = [c \in DOMAIN conn |-> Closed(c)[c]]
  /\ NoteFailure

WaitForReply ==
  /\ pc' = "header"
  /\ UNCHANGED history

(* Mutant of AfterSend: a PING is sent and not waited for. *)
PingAndGo ==
  IF request.opcode = PING
    THEN pc' = "idle" /\ UNCHANGED history
    ELSE WaitForReply

AfterSend == WaitForReply

ServerClosed(c) == conn[c].worker = "closed"

(* send_data.  When the server has closed, the bytes are lost and the next *)
(* send raises SIGPIPE.                                                    *)
ClientSend ==
  /\ pc = "send" /\ ~(ServerClosed(active) /\ conn[active].reset)
  /\ \E k \in Portions(Len(output)) :
       /\ Moves(k, Len(output))
       /\ output' = SubSeq(output, k + 1, Len(output))
       /\ conn' = [conn EXCEPT ![active].up = IF ServerClosed(active) THEN @
                                              ELSE @ \o SubSeq(output, 1, k),
                               ![active].reset = @ \/ ServerClosed(active)]
  /\ IF output' = <<>> THEN AfterSend ELSE UNCHANGED <<pc, history>>
  /\ UNCHANGED <<socket, active, request, input, calls, opened, servers>>

ClientSendKilled ==
  /\ pc = "send" /\ ServerClosed(active) /\ conn[active].reset
  /\ Killed
  /\ UNCHANGED <<calls, opened, servers, short>>

(* What receive_data still waits for. *)
ClientExpects ==
  IF pc = "header" THEN HeaderSize - Len(input)
  ELSE HeaderSize + readUint32(input, 1) - Len(input)

(* receive_data: after the header the value, if there is one. *)
ClientReceive ==
  /\ pc \in {"header", "payload"} /\ ClientExpects > 0 /\ conn[active].down # <<>>
  /\ LET down == conn[active].down
         most == Min({ClientExpects, Len(down)})
     IN  \E k \in Portions(most) :
           /\ Moves(k, most)
           /\ input' = input \o SubSeq(down, 1, k)
           /\ conn' = [conn EXCEPT ![active].down = SubSeq(@, k + 1, Len(@))]
  /\ pc' = IF pc = "header" /\ Len(input') = HeaderSize THEN "payload" ELSE pc
  /\ UNCHANGED <<socket, active, request, output, calls, opened, servers, history>>

(* The response is complete: the call returns, or follows a redirect, once. *)
Return ==
  /\ pc = "payload" /\ ClientExpects = 0
  /\ LET r == decodeResponse(input)
     IN  CASE r = RefusedResponse -> Fail
           [] r.status = REDIRECT /\ active = socket ->
                /\ pc' = "connect"
                /\ UNCHANGED <<socket, conn, active, request, input, output, history>>
           [] OTHER -> /\ Goto("idle")
                       /\ conn' = IF active = socket THEN conn ELSE Closed(active)   \* ~Client
                       /\ UNCHANGED socket
                       /\ Note(r)
  /\ UNCHANGED <<calls, opened, servers, short>>

(* The redirect's Client connects and sends the same request, or fails. *)
Redirect ==
  /\ pc = "connect"
  /\ \/ /\ OpenConnection("other", request)
        /\ pc' = "send" /\ active' = opened'
        /\ output' = encodeRequest(request) /\ input' = <<>>
        /\ UNCHANGED <<request, history>>
     \/ Goto("idle") /\ UNCHANGED <<opened, conn, history>>
  /\ UNCHANGED <<socket, calls, servers, short>>

(* Mutant of TimeOut: the value of a response is waited for without limit. *)
TimeOutHeader ==
  /\ \/ pc = "send"
     \/ pc = "header" /\ conn[active].down = <<>>
  /\ conn[active].timeouts
  /\ Fail
  /\ UNCHANGED <<calls, opened, servers, short>>

(* Five seconds without progress, where the timeouts are set. *)
TimeOut ==
  /\ \/ pc = "send"
     \/ pc = "header" /\ conn[active].down = <<>>
     \/ pc = "payload" /\ ClientExpects > 0 /\ conn[active].down = <<>>
  /\ conn[active].timeouts
  /\ Fail
  /\ UNCHANGED <<calls, opened, servers, short>>

(* recv or send reports that the server has closed. *)
ConnectionLost ==
  /\ \/ pc \in {"header", "payload"} /\ ClientExpects > 0
     \/ pc = "send" /\ conn[active].reset
  /\ ServerClosed(active)
  /\ Fail
  /\ UNCHANGED <<calls, opened, servers, short>>
-----------------------------------------------------------------------------
(* handle_client, in a worker of c's server. *)
CallerUnchanged == UNCHANGED <<caller, opened, history>>

Open(c) == conn[c].worker = "open"
Gone(c) == conn[c].client = "closed"

(* x after close(client_fd). *)
WorkerClosed(x) ==
  [x EXCEPT !.worker = "closed", !.up = <<>>, !.buffer = <<>>, !.stage = "header",
            !.reply = <<>>, !.asked = Refused]

(* Mutant of Expected: the value is left in the stream. *)
ExpectedNoValue(stage, buffer) ==
  IF stage = "header" THEN HeaderSize
  ELSE HeaderSize + readUint32(buffer, 1) + LengthBytes

(* The size of the request up to the end of each of the three receives. *)
Expected(stage, buffer) ==
  CASE stage = "header" -> HeaderSize
    [] stage = "key"    -> HeaderSize + readUint32(buffer, 1) + LengthBytes
    [] stage = "value"  -> KeyEnd(buffer) + LengthBytes + readUint32(buffer, KeyEnd(buffer))

NextStage(stage, buffer) ==
  IF Len(buffer) < Expected(stage, buffer) THEN stage
  ELSE CASE stage = "header" -> "key"
         [] stage = "key" /\ Expected("value", buffer) > Len(buffer) -> "value"
         [] OTHER -> "process"

ServerReceive(c) ==
  /\ Open(c) /\ conn[c].stage \in {"header", "key", "value"} /\ conn[c].up # <<>>
  /\ LET up == conn[c].up
         buffer == conn[c].buffer
         most == Min({Expected(conn[c].stage, buffer) - Len(buffer), Len(up)})
     IN  \E k \in Portions(most) :
           /\ Moves(k, most)
           /\ conn' = [conn EXCEPT ![c].up = SubSeq(@, k + 1, Len(@)),
                                   ![c].buffer = @ \o SubSeq(up, 1, k),
                                   ![c].stage = NextStage(@, buffer \o SubSeq(up, 1, k))]
  /\ UNCHANGED servers /\ CallerUnchanged

(* recv fails: the client has closed, or five seconds have passed. *)
ServerGivesUp(c) ==
  /\ Open(c) /\ conn[c].stage \in {"header", "key", "value"}
  /\ conn[c].up = <<>> \/ Gone(c)
  /\ conn' = [conn EXCEPT ![c] = WorkerClosed(conn[c])]
  /\ UNCHANGED <<servers, short>> /\ CallerUnchanged

(* Where s is not responsible for the key of req. *)
Elsewhere(s, req) == s = "own" /\ req.key \in Redirected

(* Mutant of Redirects: only a PUT is redirected. *)
RedirectsPuts(s, req) == req.opcode = PUT /\ Elsewhere(s, req)

Redirects(s, req) == req.opcode # PING /\ Elsewhere(s, req)

(* What retrieve_key finds: a key that is not here is looked for at the    *)
(* replicas, which may be down or hold what they missed the removal of.    *)
Found(s, key) ==
  IF storage[s][key] # NoValue THEN {storage[s][key]} ELSE {NoValue} \cup copies[s][key]

(* The answers process_request may give.  A PUT fails when a replica does  *)
(* not take it.                                                            *)
Answers(s, req) ==
  LET status(v) == IF v = NoValue THEN KEY_NOT_FOUND ELSE SUCCESS
  IN  IF Redirects(s, req) THEN {Response(REDIRECT, <<1>>)}
      ELSE CASE req.opcode = PING   -> {Response(SUCCESS, <<>>)}
             [] req.opcode = PUT    -> {Response(SUCCESS, <<>>), Response(ERROR, <<>>)}
             [] req.opcode = GET    -> {Response(status(v), v) : v \in Found(s, req.key)}
             [] req.opcode = DELETE -> {Response(status(v), <<>>) : v \in Found(s, req.key)}

(* What a request answered with r changes at s: store_key takes the value  *)
(* back, with whatever was there before, when replication failed.  (The    *)
(* interleavings inside store_key are KeyValueRing's.)                     *)
Execute(s, req, r) ==
  IF req.opcode \in {PUT, DELETE} /\ r.status # REDIRECT
  THEN /\ storage' = [storage EXCEPT ![s][req.key] =
                        IF r.status = ERROR THEN NoValue ELSE req.value]
       /\ copies' = [copies EXCEPT ![s][req.key] =
                       IF req.opcode = PUT THEN @ \cup {req.value} ELSE @]
  ELSE UNCHANGED <<storage, copies>>

(* decodeRequest and process_request up to the reply; a request that is    *)
(* refused is answered with ERROR.                                         *)
process_request(c) ==
  /\ Open(c) /\ conn[c].stage = "process"
  /\ LET s == conn[c].server
         req == decodeRequest(conn[c].buffer)
     IN  \E r \in IF req = Refused THEN {Response(ERROR, <<>>)} ELSE Answers(s, req) :
           /\ conn' = [conn EXCEPT ![c].stage = IF req = Refused THEN "refuse" ELSE "reply",
                                   ![c].reply = encodeResponse(r), ![c].part = FALSE,
                                   ![c].buffer = <<>>, ![c].asked = Refused,
                                   ![c].answer = IF Gone(c) THEN @ ELSE r]
           /\ Execute(s, req, r)
  /\ UNCHANGED <<killed, short>> /\ CallerUnchanged

(* What handle_client does after send_data, whatever that returned. *)
AfterReply(x) ==
  IF x.stage = "refuse" THEN WorkerClosed(x)
  ELSE [x EXCEPT !.reply = <<>>, !.buffer = <<>>, !.stage = "header"]

(* send_data of the server. *)
ServerSend(c) ==
  /\ Open(c) /\ conn[c].stage \in {"reply", "refuse"} /\ ~(Gone(c) /\ conn[c].reset)
  /\ LET x == conn[c]
     IN  \E k \in Portions(Len(x.reply)) :
           /\ Moves(k, Len(x.reply))
           /\ LET y == [x EXCEPT !.down = IF Gone(c) THEN <<>> ELSE @ \o SubSeq(x.reply, 1, k),
                                 !.reset = @ \/ Gone(c),
                                 !.reply = SubSeq(@, k + 1, Len(@)),
                                 !.part = k < Len(x.reply)]
              IN  conn' = [conn EXCEPT ![c] = IF y.reply = <<>> THEN AfterReply(y) ELSE y]
  /\ UNCHANGED servers /\ CallerUnchanged

(* send fails after five seconds or because the client has closed: the     *)
(* rest of the reply is dropped, and handle_client reads on.               *)
ServerSendFails(c) ==
  /\ Open(c) /\ conn[c].stage \in {"reply", "refuse"} /\ (conn[c].reset \/ ~Gone(c))
  /\ conn' = [conn EXCEPT ![c] = AfterReply(conn[c])]
  /\ UNCHANGED <<servers, short>> /\ CallerUnchanged

ServerSendKilled(c) ==
  /\ Open(c) /\ conn[c].stage \in {"reply", "refuse"} /\ Gone(c) /\ conn[c].reset
  /\ killed' = [killed EXCEPT ![conn[c].server] = TRUE]
  /\ conn' = [d \in DOMAIN conn |-> IF conn[d].server = conn[c].server
                                     THEN WorkerClosed(conn[d])
                                     ELSE conn[d]]
  /\ UNCHANGED <<storage, copies, short>> /\ CallerUnchanged
-----------------------------------------------------------------------------
ClientStep ==
  \/ ClientSend \/ ClientSendKilled \/ ClientReceive \/ Return \/ Redirect
  \/ TimeOut \/ ConnectionLost

handle_client(c) ==
  \/ ServerReceive(c) \/ ServerGivesUp(c) \/ process_request(c)
  \/ ServerSend(c) \/ ServerSendFails(c) \/ ServerSendKilled(c)

Next ==
  \/ connect \/ disconnect
  \/ \E key \in Keys, op \in {GET, PUT, DELETE} : Begin(op, key)
  \/ Begin(PING, <<>>)
  \/ ClientStep
  \/ \E c \in DOMAIN conn : handle_client(c)

(* The caller's thread runs and its timeouts expire.  Nothing is assumed   *)
(* of the servers: their workers may all be busy or stuck.                 *)
Spec == Init /\ [][Next]_vars /\ WF_vars(ClientStep)
-----------------------------------------------------------------------------
TypeOK ==
  /\ socket \in 0 .. opened /\ active \in 0 .. opened
  /\ pc \in {"idle", "connect", "send", "header", "payload", "killed"}
  /\ request.opcode \in {0, GET, PUT, DELETE, PING} /\ request.key \in Keys \cup {<<>>}
  /\ calls \in 0 .. MaxCalls /\ opened \in 0 .. MaxConnections /\ Len(conn) = opened
  /\ short \in 0 .. MaxShort
  /\ \A c \in DOMAIN conn :
       /\ conn[c].client \in {"open", "closed"} /\ conn[c].worker \in {"open", "closed"}
       /\ conn[c].stage \in {"header", "key", "value", "process", "reply", "refuse"}
  /\ LET values == {NoValue} \cup {<<0, i>> : i \in 1 .. MaxCalls}
     IN  /\ storage \in [Servers -> [Keys -> values]]
         /\ copies \in [Servers -> [Keys -> SUBSET values]]
  /\ killed \in [Servers -> BOOLEAN]

(* Framing: however the bytes were cut, what handle_client takes for one   *)
(* request is the next one the client issued on the connection, and        *)
(* decodeRequest, which parses the lengths again, agrees.                  *)
FramesDecode ==
  \A c \in DOMAIN conn :
    conn[c].stage = "process" =>
      decodeRequest(conn[c].buffer) = conn[c].asked

(* A call returns the answer to its own request, never what was left in    *)
(* the stream by an earlier one: whoever gives up on an answer, client or  *)
(* server, the connection carries no further request.                      *)
AnswerIsOwn == "answer" \notin wrong

(* A GET returns what the last answered PUT or DELETE of its key left, or  *)
(* what a call that was given up has made of it: such a request may still  *)
(* be executed, after later ones.  Only where the key may be gone, by a    *)
(* DELETE, a call given up or a PUT answered with ERROR, can it be another *)
(* value, one that the replicas kept.                                      *)
ReadsExplained == "read" \notin wrong

(* A server is ended by SIGPIPE only in the middle of a reply whose caller *)
(* gave up: after a whole reply it reads, and sees that the caller left.   *)
KilledOnlyMidReply ==
  \A s \in Servers : killed[s] => \E c \in DOMAIN conn : conn[c].server = s /\ conn[c].part

(* Every call returns, whatever the server does, except on a connection    *)
(* that was made at once and so has no timeouts.                           *)
CallReturns ==
  (pc \notin {"idle", "killed"}) ~> (pc \in {"idle", "killed"} \/ ~conn[active].timeouts)
=============================================================================
