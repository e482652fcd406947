----------------------------- MODULE WireProofs ------------------------------
(***************************************************************************)
(* Theorems about Wire, for every set of keys, number of calls and         *)
(* connections, radix and number of digits of a length, and every way TCP  *)
(* cuts the streams.                                                       *)
(***************************************************************************)
EXTENDS Wire, NumberTheorems, SequenceTheorems, TLAPS

Values == {NoValue} \cup {<<0, i>> : i \in 1 .. MaxCalls}

(* The requests a Client sends and the answers a server gives to them. *)
Requests ==
  [opcode : {GET, PUT, DELETE}, key : Keys, value : Values]
    \cup {Request(PING, <<>>, <<>>)}
Responses == [status : {SUCCESS, KEY_NOT_FOUND, ERROR, REDIRECT}, value : Values \cup {<<1>>}]

Stages == {"header", "key", "value", "process", "reply"}

Connection ==
  [server : Servers, client : {"open", "closed"}, worker : {"open", "closed"},
   timeouts : BOOLEAN, up : Seq(Nat), down : Seq(Nat), buffer : Seq(Nat),
   stage : Stages, reply : Seq(Nat), part : BOOLEAN, reset : BOOLEAN,
   asked : Requests \cup {Refused}, answer : Responses \cup {RefusedResponse}]

(* How far handle_client is when it has a bytes of req. *)
StageAt(req, a) ==
  IF a < HeaderSize THEN "header"
  ELSE IF a < HeaderSize + Len(req.key) + LengthBytes THEN "key"
  ELSE IF a < Len(encodeRequest(req)) THEN "value"
  ELSE "process"

(* s is what e holds from position i to position j, where that is in e. *)
Slice(s, e, i, j) == i <= j + 1 /\ j <= Len(e) /\ s = SubSeq(e, i, j)

Received(x) == Len(x.buffer)
Sent(x) == Len(x.buffer) + Len(x.up)

(* The request side of a connection: what handle_client has and what is    *)
(* under way are the first bytes of the request that was asked.            *)
RequestSide(x) ==
  /\ x.worker = "closed" => /\ x.buffer = <<>> /\ x.up = <<>> /\ x.reply = <<>>
                            /\ x.stage = "header"
  /\ x.asked = Refused => /\ x.buffer = <<>> /\ x.up = <<>>
                          /\ x.stage \in {"header", "reply"}
  /\ (x.worker = "open" /\ x.asked # Refused) =>
        /\ Slice(x.buffer, encodeRequest(x.asked), 1, Received(x))
        /\ Slice(x.up, encodeRequest(x.asked), Received(x) + 1, Sent(x))
        /\ x.stage = StageAt(x.asked, Received(x))
  /\ x.stage = "reply" <=> x.reply # <<>>

(* Nothing is under way on a connection, in neither direction. *)
Quiet(x) ==
  /\ x.asked = Refused /\ x.down = <<>> /\ x.reply = <<>> /\ x.stage = "header"

InCall == pc \in {"connect", "send", "header", "payload"}

(* The caller and its connections: what is left to send is the rest of the *)
(* request, and a connection in no call is quiet.                          *)
CallerSide ==
  /\ IF InCall THEN /\ active \in DOMAIN conn /\ request \in Requests
                    /\ ~Gone(active)
               ELSE active = 0 /\ request = Refused /\ input = <<>>
  /\ IF pc = "send" THEN output # <<>> ELSE output = <<>>
  /\ pc = "send" /\ Open(active) =>
       /\ conn[active].asked = request
       /\ Slice(output, encodeRequest(request),
                Sent(conn[active]) + 1, Len(encodeRequest(request)))
  /\ pc \in {"header", "payload"} /\ Open(active) =>
       \/ conn[active].asked = Refused
       \/ /\ conn[active].asked = request
          /\ Sent(conn[active]) = Len(encodeRequest(request))
  /\ pc = "connect" => active = socket
  /\ socket # 0 => ~Gone(socket) /\ (active = socket \/ Quiet(conn[socket]))
  /\ \A c \in DOMAIN conn : c \in {socket, active} \/ Gone(c)

(* The answer side of the connection of the call in progress: what the     *)
(* caller has, what is under way and what is still to be sent are the      *)
(* bytes of the answer to this very call, in this order.                   *)
AnswerOf(x, at, received) ==
  LET bytes == encodeResponse(x.answer)
      known == Len(received) + Len(x.down)
  IN  IF x.answer # RefusedResponse
      THEN /\ at # "send" /\ x.asked = Refused
           /\ Slice(received, bytes, 1, Len(received))
           /\ Slice(x.down, bytes, Len(received) + 1, known)
           /\ x.stage = "reply" => Slice(x.reply, bytes, known + 1, Len(bytes))
           /\ IF at = "header" THEN Len(received) < HeaderSize ELSE Len(received) >= HeaderSize
           /\ at = "connect" => Len(received) = Len(bytes) /\ x.answer.status = REDIRECT
      ELSE /\ at \in {"send", "header"}
           /\ received = <<>> /\ x.down = <<>> /\ x.reply = <<>>
           /\ x.asked = Refused => x.worker = "closed"

AnswerSide == InCall => AnswerOf(conn[active], pc, input)

Answered == conn[active].answer # RefusedResponse

(* After a reset, which a server that reads sees, there is only the rest   *)
(* of a reply; and a server that was ended has no worker.                  *)
ResetSide ==
  /\ \A c \in DOMAIN conn :
       (Open(c) /\ conn[c].reset) =>
         Gone(c) /\ conn[c].asked = Refused /\ (conn[c].stage = "reply" => conn[c].part)
  /\ \A s \in Servers : killed[s] =>
       /\ \E c \in DOMAIN conn : conn[c].server = s /\ conn[c].part
       /\ \A c \in DOMAIN conn : conn[c].server = s => ~Open(c)

(* The server that keeps the value of a key. *)
Home(k) == IF k \in Redirected THEN "other" ELSE "own"

Changes(req) == req.opcode \in {PUT, DELETE}

(* The call in progress has changed its key. *)
Executed(k) ==
  /\ InCall /\ Changes(request) /\ request.key = k
  /\ Answered /\ conn[active].answer.status # REDIRECT

(* What it made of it: a PUT that is answered with ERROR was taken back. *)
Outcome == IF conn[active].answer.status = ERROR THEN NoValue ELSE request.value

(* What is stored is what the answered calls left, what a call given up    *)
(* has made of it or what the call in progress has just made of it.        *)
Stored ==
  \A k \in Keys :
    storage[Home(k)][k] \in unsure[k] \cup (IF Executed(k) THEN {Outcome} ELSE possible[k])

(* A change still under way, of a call given up, is noted as unsure, and   *)
(* so is that it is taken back.                                            *)
Pending ==
  \A c \in DOMAIN conn :
    (Open(c) /\ c # active /\ Changes(conn[c].asked)) =>
      {conn[c].asked.value, NoValue} \subseteq unsure[conn[c].asked.key]

(* Who asks whom: the other server only what was redirected to it. *)
OtherAsked ==
  \A c \in DOMAIN conn :
    (conn[c].server = "other" /\ conn[c].asked # Refused) =>
      conn[c].asked.opcode # PING /\ conn[c].asked.key \in Redirected
OtherCalled ==
  (InCall /\ active # socket) =>
    conn[active].server = "other" /\ request.opcode # PING /\ request.key \in Redirected
OwnSocket == socket # 0 => conn[socket].server = "own"

(* The answer to the call in progress: a redirect for a key kept elsewhere *)
(* and the answer of the key's own server otherwise.                       *)
AnswerKnown ==
  (InCall /\ Answered) =>
    IF conn[active].answer.status = REDIRECT
    THEN active = socket /\ request.opcode # PING /\ request.key \in Redirected
    ELSE /\ request.opcode # PING => conn[active].server = Home(request.key)
         /\ request.opcode = GET => conn[active].answer.value \in Explained(request.key)

StorageSide == Stored /\ Pending /\ OtherAsked /\ OtherCalled /\ OwnSocket /\ AnswerKnown

(* The types of all variables. *)
Types ==
  /\ socket \in 0 .. opened /\ active \in 0 .. opened
  /\ pc \in {"idle", "connect", "send", "header", "payload", "killed"}
  /\ request \in Requests \cup {Refused}
  /\ output \in Seq(Nat) /\ input \in Seq(Nat)
  /\ calls \in 0 .. MaxCalls /\ opened \in 0 .. MaxConnections
  /\ short \in 0 .. MaxShort
  /\ conn \in Seq(Connection) /\ Len(conn) = opened
  /\ storage \in [Servers -> [Keys -> Values]]
  /\ copies \in [Servers -> [Keys -> SUBSET Values]]
  /\ killed \in [Servers -> BOOLEAN]
  /\ possible \in [Keys -> SUBSET Values] /\ unsure \in [Keys -> SUBSET Values]

(* The inductive invariant of the framing. *)
FrameInv ==
  /\ Types
  /\ \A c \in DOMAIN conn : RequestSide(conn[c])
  /\ CallerSide
-----------------------------------------------------------------------------
(* Numbers: digits of a length.                                            *)

(* Dividing by p and then by r is dividing by r * p. *)
LEMMA QuotientOfQuotient ==
  ASSUME NEW n \in Nat, NEW p \in Nat \ {0}, NEW r \in Nat \ {0}
  PROVE  /\ n \div p \in Nat /\ n \div (r * p) \in Nat
         /\ n \div p = (n \div (r * p)) * r + ((n \div p) % r)
<1> DEFINE q == n \div p
           m == n % p
           t == q \div r
           d == q % r
<1>1. q \in Nat /\ m \in 0 .. (p - 1) /\ n = p * q + m
  OBVIOUS
<1>2. t \in Nat /\ d \in 0 .. (r - 1) /\ q = r * t + d
  BY <1>1
<1> HIDE DEF q, m, t, d
<1>3. r * p \in Nat \ {0}
  OBVIOUS
<1>4. d * p + m \in Nat /\ d * p + m < r * p
  <2>1. (r - 1 - d) * p >= 0
    BY <1>2
  <2>2. (r - 1 - d) * p = r * p - p - d * p
    BY <1>2
  <2>3. d * p \in Nat /\ r * p \in Nat
    BY <1>2
  <2> QED
    BY <1>1, <2>1, <2>2, <2>3
<1>5. n = t * (r * p) + (d * p + m)
  <2>1. n = p * (r * t + d) + m
    BY <1>1, <1>2
  <2> QED
    BY <1>1, <1>2, <2>1
<1>6. n \div (r * p) = t
  BY <1>2, <1>3, <1>4, <1>5, DivisionUnique
<1>7. q = n \div p /\ d = q % r
  BY DEF q, d
<1>8. q = t * r + d
  BY <1>2
<1> QED
  BY <1>1, <1>2, <1>6, <1>7, <1>8

(* The digits of a number, read again, are the number: readUint32 of what  *)
(* writeUint32 wrote.                                                      *)
LEMMA ReadWritten ==
  ASSUME NEW data \in Seq(Nat), NEW offset \in Nat, NEW n \in Nat,
         n < Radix ^ LengthBytes, offset + LengthBytes <= Len(data),
         \A i \in 1 .. LengthBytes : data[offset + i] = writeUint32(n)[i]
  PROVE  readUint32(data, offset) = n
<1> DEFINE Pow(k) == Radix ^ k
           f == [i \in 0 .. LengthBytes |-> n \div Pow(LengthBytes - i)]
           Step(g) == [i \in 0 .. LengthBytes |->
                         IF i = 0 THEN 0 ELSE g[i - 1] * Radix + data[offset + i]]
<1>1. LengthBytes \in Nat \ {0} /\ Radix \in Nat \ {0, 1}
  BY WireAssumption
<1>2. /\ Pow(0) = 1
      /\ \A k \in 0 .. LengthBytes - 1 : Pow(k) \in Nat \ {0} /\ Pow(k + 1) = Radix * Pow(k)
  BY PowerAssumption
<1>3. Pow(LengthBytes) \in Nat \ {0} /\ n < Pow(LengthBytes)
  <2>1. LengthBytes - 1 \in 0 .. LengthBytes - 1 /\ (LengthBytes - 1) + 1 = LengthBytes
    BY <1>1
  <2>2. Pow(LengthBytes) = Radix * Pow(LengthBytes - 1) /\ Pow(LengthBytes - 1) \in Nat \ {0}
    BY <1>2, <2>1
  <2> HIDE DEF Pow
  <2>3. Radix * Pow(LengthBytes - 1) \in Nat \ {0}
    BY <1>1, <2>2
  <2>4. n < Pow(LengthBytes)
    BY DEF Pow
  <2> QED
    BY <2>2, <2>3, <2>4
<1>4. \A i \in 1 .. LengthBytes : data[offset + i] = (n \div Pow(LengthBytes - i)) % Radix
  BY DEF writeUint32
<1> HIDE DEF Pow
<1>5. f[0] = 0 /\ f[LengthBytes] = n
  <2>1. 0 \in 0 .. LengthBytes /\ LengthBytes \in 0 .. LengthBytes
    BY <1>1
  <2>2. f[0] = n \div Pow(LengthBytes) /\ f[LengthBytes] = n \div Pow(0)
    BY <2>1, <1>1
  <2>3. n \div Pow(LengthBytes) = 0
    <3>1. n = 0 * Pow(LengthBytes) + n
      BY <1>3
    <3> QED
      BY <1>3, <3>1, DivisionUnique
  <2>4. n \div Pow(0) = n
    BY <1>2, DivisionUnique
  <2> QED
    BY <2>2, <2>3, <2>4
<1>6. \A i \in 1 .. LengthBytes : f[i] = f[i - 1] * Radix + data[offset + i]
  <2> SUFFICES ASSUME NEW i \in 1 .. LengthBytes
               PROVE  f[i] = f[i - 1] * Radix + data[offset + i]
    OBVIOUS
  <2>0. i \in 0 .. LengthBytes /\ i - 1 \in 0 .. LengthBytes
    BY <1>1
  <2>1. f[i] = n \div Pow(LengthBytes - i) /\ f[i - 1] = n \div Pow(LengthBytes - (i - 1))
    BY <2>0
  <2>2. LengthBytes - i \in 0 .. LengthBytes - 1 /\ LengthBytes - (i - 1) = (LengthBytes - i) + 1
    BY <1>1
  <2> DEFINE p == Pow(LengthBytes - i)
  <2>3. p \in Nat \ {0} /\ Pow(LengthBytes - (i - 1)) = Radix * p
    BY <1>2, <2>2
  <2>4. f[i - 1] = n \div (Radix * p) /\ data[offset + i] = (n \div p) % Radix /\ f[i] = n \div p
    BY <1>4, <2>1, <2>3
  <2> HIDE DEF p, f
  <2>5. n \div p = (n \div (Radix * p)) * Radix + ((n \div p) % Radix)
    BY <1>1, <2>3, QuotientOfQuotient
  <2> QED
    BY <2>4, <2>5
<1>7. f = Step(f)
  <2>1. \A i \in 0 .. LengthBytes : f[i] = Step(f)[i]
    <3> SUFFICES ASSUME NEW i \in 0 .. LengthBytes PROVE f[i] = Step(f)[i]
      OBVIOUS
    <3>1. Step(f)[i] = IF i = 0 THEN 0 ELSE f[i - 1] * Radix + data[offset + i]
      OBVIOUS
    <3>2. i = 0 \/ i \in 1 .. LengthBytes
      BY <1>1
    <3> HIDE DEF f, Step
    <3> QED
      BY <1>5, <1>6, <3>1, <3>2
  <2> QED
    BY <2>1
<1>8. ASSUME NEW g, g = Step(g)
      PROVE  g[LengthBytes] = n
  <2>1. \A i \in 0 .. LengthBytes :
          g[i] = IF i = 0 THEN 0 ELSE g[i - 1] * Radix + data[offset + i]
    <3> DEFINE h == Step(g)
    <3>1. \A i \in 0 .. LengthBytes :
            h[i] = IF i = 0 THEN 0 ELSE g[i - 1] * Radix + data[offset + i]
      OBVIOUS
    <3>2. g = h
      BY <1>8
    <3> HIDE DEF h
    <3> QED
      BY <3>1, <3>2
  <2> DEFINE T == {i \in 0 .. LengthBytes : g[i] # f[i]}
  <2>2. T = {}
    <3> SUFFICES ASSUME T # {} PROVE FALSE
      OBVIOUS
    <3> HIDE DEF f
    <3>1. T \subseteq Nat
      BY <1>1
    <3>2. PICK i \in T : \A j \in T : i <= j
      BY <3>1, LeastNumber
    <3>3. i \in 0 .. LengthBytes /\ g[i] # f[i]
      BY <3>2
    <3>4. i # 0
      BY <1>5, <2>1, <3>3
    <3>5. i - 1 \in 0 .. LengthBytes /\ i \in 1 .. LengthBytes /\ ~(i <= i - 1)
      BY <1>1, <3>3, <3>4
    <3>6. g[i - 1] = f[i - 1]
      BY <3>2, <3>5
    <3> QED
      BY <1>6, <2>1, <3>3, <3>4, <3>5, <3>6
  <2>3. LengthBytes \in 0 .. LengthBytes
    BY <1>1
  <2>4. g[LengthBytes] = f[LengthBytes]
    BY <2>2, <2>3
  <2> HIDE DEF f
  <2> QED
    BY <1>5, <2>4
<1> DEFINE v == CHOOSE g : g = Step(g)
<1>9. v = Step(v)
  <2> HIDE DEF f, Step
  <2> QED
    BY <1>7 
<1>10. ~(offset + LengthBytes > Len(data))
  BY <1>1, LenProperties
<1>11. readUint32(data, offset) = v[LengthBytes]
  BY <1>10 DEF readUint32
<1> HIDE DEF v, Step
<1> QED
  BY <1>8, <1>9, <1>11
-----------------------------------------------------------------------------
(* Slices of a byte string.                                                *)

(* The bytes of a slice. *)
LEMMA SliceBytes ==
  ASSUME NEW e \in Seq(Nat), NEW i \in Nat \ {0}, NEW j \in Nat, NEW s, Slice(s, e, i, j)
  PROVE  /\ s \in Seq(Nat) /\ Len(s) = j - i + 1
         /\ \A k \in 1 .. Len(s) : s[k] = e[i + k - 1]
<1>1. i <= j + 1 /\ j <= Len(e) /\ s = SubSeq(e, i, j) /\ Len(e) \in Nat
  BY LenProperties DEF Slice
<1>2. \A k \in i .. j : e[k] \in Nat
  BY <1>1, ElementOfSeq
<1>3. /\ SubSeq(e, i, j) \in Seq(Nat)
      /\ Len(SubSeq(e, i, j)) = IF i <= j THEN j - i + 1 ELSE 0
      /\ \A k \in 1 .. j - i + 1 : SubSeq(e, i, j)[k] = e[i + k - 1]
  BY <1>2, SubSeqProperties
<1>4. Len(s) = j - i + 1
  BY <1>1, <1>3
<1> QED
  BY <1>1, <1>3, <1>4

(* A string with the bytes of a slice is that slice. *)
LEMMA SliceFromBytes ==
  ASSUME NEW e \in Seq(Nat), NEW i \in Nat \ {0}, NEW j \in Nat, i <= j + 1, j <= Len(e),
         NEW s \in Seq(Nat), Len(s) = j - i + 1,
         \A k \in 1 .. Len(s) : s[k] = e[i + k - 1]
  PROVE  Slice(s, e, i, j)
<1> DEFINE t == SubSeq(e, i, j)
<1>1. Slice(t, e, i, j)
  BY DEF Slice
<1> HIDE DEF t
<1>2. t \in Seq(Nat) /\ Len(t) = Len(s) /\ \A k \in 1 .. Len(t) : t[k] = e[i + k - 1]
  BY <1>1, SliceBytes
<1>3. s = t
  BY <1>2, SeqEqual
<1> QED
  BY <1>1, <1>3

(* Adjacent slices make one: what recv appends to what it has. *)
LEMMA SliceJoin ==
  ASSUME NEW e \in Seq(Nat), NEW i \in Nat \ {0}, NEW j \in Nat, NEW k \in Nat,
         NEW s, NEW t, Slice(s, e, i, j), Slice(t, e, j + 1, k)
  PROVE  Slice(s \o t, e, i, k)
<1>1. s \in Seq(Nat) /\ Len(s) = j - i + 1 /\ \A m \in 1 .. Len(s) : s[m] = e[i + m - 1]
  BY SliceBytes
<1>2. t \in Seq(Nat) /\ Len(t) = k - j /\ \A m \in 1 .. Len(t) : t[m] = e[j + m]
  <2> DEFINE h == j + 1
  <2>0. h \in Nat \ {0} /\ Slice(t, e, h, k)
    OBVIOUS
  <2> HIDE DEF h
  <2>3. t \in Seq(Nat) /\ Len(t) = k - h + 1 /\ \A m \in 1 .. Len(t) : t[m] = e[h + m - 1]
    BY <2>0, SliceBytes
  <2>1. t \in Seq(Nat) /\ Len(t) = k - (j + 1) + 1 /\ \A m \in 1 .. Len(t) : t[m] = e[(j + 1) + m - 1]
    BY <2>3 DEF h
  <2>2. Len(t) = k - j /\ \A m \in 1 .. Len(t) : (j + 1) + m - 1 = j + m
    BY <2>1
  <2> QED
    BY <2>1, <2>2
<1>3. i <= j + 1 /\ j + 1 <= k + 1 /\ k <= Len(e) /\ Len(e) \in Nat
  BY LenProperties DEF Slice
<1>4. /\ s \o t \in Seq(Nat) /\ Len(s \o t) = Len(s) + Len(t)
      /\ \A m \in 1 .. Len(s) + Len(t) :
           (s \o t)[m] = IF m <= Len(s) THEN s[m] ELSE t[m - Len(s)]
  BY <1>1, <1>2, ConcatProperties
<1>5. Len(s \o t) = k - i + 1
  BY <1>1, <1>2, <1>4
<1>6. \A m \in 1 .. Len(s \o t) : (s \o t)[m] = e[i + m - 1]
  <2> SUFFICES ASSUME NEW m \in 1 .. Len(s \o t) PROVE (s \o t)[m] = e[i + m - 1]
    OBVIOUS
  <2>1. CASE m <= Len(s)
    BY <1>1, <1>2, <1>4, <2>1
  <2>2. CASE m > Len(s)
    <3>1. m - Len(s) \in 1 .. Len(t) /\ j + (m - Len(s)) = i + m - 1
      BY <1>1, <1>2, <1>4, <2>2
    <3>2. (s \o t)[m] = t[m - Len(s)]
      BY <1>1, <1>2, <1>4, <2>2
    <3> QED
      BY <1>2, <3>1, <3>2
  <2>3. m \in Int /\ Len(s) \in Int
    BY <1>1
  <2> QED
    BY <2>1, <2>2, <2>3
<1>7. i <= k + 1
  BY <1>3
<1> HIDE DEF Slice
<1> QED
  BY <1>3, <1>4, <1>5, <1>6, <1>7, SliceFromBytes

(* A slice cut in two: what a send or recv moves and what it leaves. *)
LEMMA SliceCut ==
  ASSUME NEW e \in Seq(Nat), NEW i \in Nat \ {0}, NEW j \in Nat, NEW s, Slice(s, e, i, j),
         NEW k \in Nat, k <= Len(s)
  PROVE  /\ Slice(SubSeq(s, 1, k), e, i, i + k - 1)
         /\ Slice(SubSeq(s, k + 1, Len(s)), e, i + k, j)
         /\ SubSeq(s, 1, k) \in Seq(Nat) /\ Len(SubSeq(s, 1, k)) = k
         /\ SubSeq(s, k + 1, Len(s)) \in Seq(Nat)
         /\ Len(SubSeq(s, k + 1, Len(s))) = Len(s) - k
<1>1. s \in Seq(Nat) /\ Len(s) = j - i + 1 /\ \A m \in 1 .. Len(s) : s[m] = e[i + m - 1]
  BY SliceBytes
<1>2. i <= j + 1 /\ j <= Len(e) /\ Len(e) \in Nat
  BY LenProperties DEF Slice
<1>3. Slice(SubSeq(s, 1, k), s, 1, k) /\ Slice(SubSeq(s, k + 1, Len(s)), s, k + 1, Len(s))
  BY <1>1 DEF Slice
<1> DEFINE u == SubSeq(s, 1, k)
           v == SubSeq(s, k + 1, Len(s))
<1> HIDE DEF u, v
<1>4. u \in Seq(Nat) /\ Len(u) = k /\ \A m \in 1 .. Len(u) : u[m] = s[m]
  <2>1. Slice(u, s, 1, k)
    BY <1>3 DEF u
  <2>2. u \in Seq(Nat) /\ Len(u) = k - 1 + 1 /\ \A m \in 1 .. Len(u) : u[m] = s[1 + m - 1]
    BY <1>1, <2>1, SliceBytes
  <2> QED
    BY <2>2
<1>5. v \in Seq(Nat) /\ Len(v) = Len(s) - k /\ \A m \in 1 .. Len(v) : v[m] = s[k + m]
  <2>1. Slice(v, s, k + 1, Len(s)) /\ Len(s) \in Nat
    BY <1>1, <1>3, LenProperties DEF v
  <2> DEFINE h == k + 1
  <2>0. h \in Nat \ {0} /\ Slice(v, s, h, Len(s)) /\ s \in Seq(Nat) /\ Len(s) \in Nat
    BY <1>1, <2>1
  <2> HIDE DEF h
  <2>2. v \in Seq(Nat) /\ Len(v) = Len(s) - h + 1 /\ \A m \in 1 .. Len(v) : v[m] = s[h + m - 1]
    BY <2>0, SliceBytes
  <2> USE DEF h
  <2>3. \A m \in 1 .. Len(v) : (k + 1) + m - 1 = k + m
    BY <2>2
  <2> QED
    BY <2>1, <2>2, <2>3
<1>6. Slice(u, e, i, i + k - 1)
  <2>1. /\ i + k - 1 \in Nat /\ i <= (i + k - 1) + 1 /\ i + k - 1 <= Len(e)
        /\ Len(u) = (i + k - 1) - i + 1
    BY <1>1, <1>2, <1>4
  <2>2. \A m \in 1 .. Len(u) : m \in 1 .. Len(s)
    BY <1>1, <1>4
  <2>3. \A m \in 1 .. Len(u) : u[m] = e[i + m - 1]
    BY <1>1, <1>4, <2>2
  <2> QED
    BY <1>4, <2>1, <2>3, SliceFromBytes
<1>7. Slice(v, e, i + k, j)
  <2>1. i + k \in Nat \ {0} /\ i + k <= j + 1 /\ Len(v) = j - (i + k) + 1
    BY <1>1, <1>2, <1>5
  <2>2. \A m \in 1 .. Len(v) : v[m] = e[(i + k) + m - 1]
    <3> SUFFICES ASSUME NEW m \in 1 .. Len(v) PROVE v[m] = e[(i + k) + m - 1]
      OBVIOUS
    <3>1. k + m \in 1 .. Len(s) /\ i + (k + m) - 1 = (i + k) + m - 1 /\ v[m] = s[k + m]
      BY <1>1, <1>5
    <3> QED
      BY <1>1, <3>1
  <2> QED
    BY <1>2, <1>5, <2>1, <2>2, SliceFromBytes
<1> QED
  BY <1>4, <1>5, <1>6, <1>7 DEF u, v
-----------------------------------------------------------------------------
(* Protocol: what is encoded is decoded again, from any prefix that is     *)
(* long enough.                                                            *)

(* The same, of a whole sequence. *)
LEMMA CutSeq ==
  ASSUME NEW s \in Seq(Nat), NEW k \in Nat, k <= Len(s)
  PROVE  /\ SubSeq(s, 1, k) \in Seq(Nat) /\ Len(SubSeq(s, 1, k)) = k
         /\ SubSeq(s, k + 1, Len(s)) \in Seq(Nat)
         /\ Len(SubSeq(s, k + 1, Len(s))) = Len(s) - k
<1> DEFINE n == Len(s)
           u == SubSeq(s, 1, k)
           v == SubSeq(s, k + 1, n)
           h == k + 1
<1>1. n \in Nat /\ h \in Nat \ {0}
  BY LenProperties
<1>2. Slice(u, s, 1, k) /\ Slice(v, s, h, n)
  BY <1>1 DEF Slice
<1> HIDE DEF u, v, h, n
<1>3. u \in Seq(Nat) /\ Len(u) = k - 1 + 1
  BY <1>2, SliceBytes
<1>4. v \in Seq(Nat) /\ Len(v) = n - h + 1
  BY <1>1, <1>2, SliceBytes
<1>5. Len(u) = k /\ Len(v) = n - k
  BY <1>1, <1>3, <1>4 DEF h
<1> QED
  BY <1>3, <1>4, <1>5 DEF u, v, n

(* A length takes LengthBytes bytes. *)
LEMMA WrittenBytes ==
  ASSUME NEW n \in Nat
  PROVE  writeUint32(n) \in Seq(Nat) /\ Len(writeUint32(n)) = LengthBytes
<1>1. LengthBytes \in Nat \ {0} /\ Radix \in Nat \ {0, 1}
  BY WireAssumption
<1> DEFINE D(i) == (n \div Radix ^ (LengthBytes - i)) % Radix
<1>2. ASSUME NEW i \in 1 .. LengthBytes
      PROVE  D(i) \in Nat
  <2> DEFINE p == Radix ^ (LengthBytes - i)
  <2>1. LengthBytes - i \in 0 .. LengthBytes - 1
    BY <1>1
  <2>2. p \in Nat \ {0}
    BY <2>1, PowerAssumption
  <2> HIDE DEF p
  <2>3. n \div p \in Nat
    BY <2>2
  <2>4. (n \div p) % Radix \in Nat
    BY <1>1, <2>3
  <2> QED
    BY <2>4 DEF p
<1>3. writeUint32(n) = [i \in 1 .. LengthBytes |-> D(i)]
  BY DEF writeUint32
<1> HIDE DEF D
<1>4. [i \in 1 .. LengthBytes |-> D(i)] \in Seq(Nat)
  BY <1>1, <1>2
<1>5. Len([i \in 1 .. LengthBytes |-> D(i)]) = LengthBytes
  BY <1>1, <1>2
<1> QED
  BY <1>3, <1>4, <1>5

(* Where the parts of two strings put together are. *)
LEMMA JoinedBytes ==
  ASSUME NEW s \in Seq(Nat), NEW t \in Seq(Nat)
  PROVE  /\ s \o t \in Seq(Nat) /\ Len(s \o t) = Len(s) + Len(t)
         /\ Len(s) \in Nat /\ Len(t) \in Nat
         /\ \A i \in 1 .. Len(s) : (s \o t)[i] = s[i]
         /\ \A i \in 1 .. Len(t) : (s \o t)[Len(s) + i] = t[i]
<1>1. /\ s \o t \in Seq(Nat) /\ Len(s \o t) = Len(s) + Len(t)
      /\ \A i \in 1 .. Len(s) + Len(t) :
           (s \o t)[i] = IF i <= Len(s) THEN s[i] ELSE t[i - Len(s)]
  BY ConcatProperties
<1>2. Len(s) \in Nat /\ Len(t) \in Nat
  BY LenProperties
<1>3. \A i \in 1 .. Len(s) : (s \o t)[i] = s[i]
  BY <1>1, <1>2
<1>4. ASSUME NEW i \in 1 .. Len(t) PROVE (s \o t)[Len(s) + i] = t[i]
  <2>1. Len(s) + i \in 1 .. Len(s) + Len(t) /\ ~(Len(s) + i <= Len(s)) /\ (Len(s) + i) - Len(s) = i
    BY <1>2
  <2> QED
    BY <1>1, <2>1
<1> QED
  BY <1>1, <1>2, <1>3, <1>4

(* The layout of a response. *)
LEMMA ResponseLayout ==
  ASSUME NEW status \in Nat, NEW value \in Seq(Nat)
  PROVE  LET e == <<status>> \o writeUint32(Len(value)) \o value
         IN  /\ e \in Seq(Nat) /\ Len(value) \in Nat
             /\ Len(e) = HeaderSize + Len(value)
             /\ e[1] = status
             /\ \A i \in 1 .. LengthBytes : e[1 + i] = writeUint32(Len(value))[i]
             /\ \A i \in 1 .. Len(value) : e[HeaderSize + i] = value[i]
<1> DEFINE w == writeUint32(Len(value))
           h == <<status>> \o w
<1>1. Len(value) \in Nat /\ LengthBytes \in Nat
  BY LenProperties, WireAssumption
<1>2. w \in Seq(Nat) /\ Len(w) = LengthBytes
  BY <1>1, WrittenBytes
<1> HIDE DEF w
<1>3. <<status>> \in Seq(Nat) /\ Len(<<status>>) = 1 /\ <<status>>[1] = status
  OBVIOUS
<1> DEFINE u == <<status>>
<1> HIDE DEF u
<1>4. /\ u \o w \in Seq(Nat) /\ Len(u \o w) = Len(u) + Len(w)
      /\ \A i \in 1 .. Len(u) : (u \o w)[i] = u[i]
      /\ \A i \in 1 .. Len(w) : (u \o w)[Len(u) + i] = w[i]
  <2>1. u \in Seq(Nat)
    BY <1>3 DEF u
  <2> QED
    BY <1>2, <2>1, JoinedBytes
<1>5. /\ h \in Seq(Nat) /\ Len(h) = HeaderSize
      /\ h[1] = status /\ \A i \in 1 .. LengthBytes : h[1 + i] = w[i]
  <2>1. Len(u) = 1 /\ u[1] = status /\ h = u \o w
    BY <1>3 DEF u
  <2> HIDE DEF h
  <2>2. 1 \in 1 .. Len(u)
    BY <2>1
  <2> QED
    BY <1>1, <1>2, <1>4, <2>1, <2>2 DEF HeaderSize
<1> HIDE DEF h
<1> DEFINE e == h \o value
<1>6. /\ e \in Seq(Nat) /\ Len(e) = Len(h) + Len(value)
      /\ \A i \in 1 .. Len(h) : e[i] = h[i]
      /\ \A i \in 1 .. Len(value) : e[Len(h) + i] = value[i]
  BY <1>5, JoinedBytes
<1> HIDE DEF e
<1>7. /\ e[1] = status
      /\ \A i \in 1 .. LengthBytes : e[1 + i] = w[i]
  <2>1. 1 \in 1 .. Len(h) /\ \A i \in 1 .. LengthBytes : 1 + i \in 1 .. Len(h)
    BY <1>1, <1>5 DEF HeaderSize
  <2> QED
    BY <1>5, <1>6, <2>1
<1>8. /\ e \in Seq(Nat) /\ Len(value) \in Nat
      /\ Len(e) = HeaderSize + Len(value)
      /\ \A i \in 1 .. Len(value) : e[HeaderSize + i] = value[i]
  BY <1>1, <1>5, <1>6
<1>9. e = <<status>> \o writeUint32(Len(value)) \o value
  BY DEF e, h, w
<1> QED
  BY <1>7, <1>8, <1>9 DEF w

(* The layout of a request: it starts like a response whose value is the   *)
(* key.                                                                    *)
LEMMA RequestLayout ==
  ASSUME NEW req, req.opcode \in Nat, req.key \in Seq(Nat), req.value \in Seq(Nat)
  PROVE  LET e == encodeRequest(req)
             end == HeaderSize + Len(req.key)
         IN  /\ e \in Seq(Nat) /\ Len(req.key) \in Nat /\ Len(req.value) \in Nat
             /\ Len(e) = end + LengthBytes + Len(req.value)
             /\ e[1] = req.opcode
             /\ \A i \in 1 .. LengthBytes : e[1 + i] = writeUint32(Len(req.key))[i]
             /\ \A i \in 1 .. Len(req.key) : e[HeaderSize + i] = req.key[i]
             /\ \A i \in 1 .. LengthBytes : e[end + i] = writeUint32(Len(req.value))[i]
             /\ \A i \in 1 .. Len(req.value) : e[end + LengthBytes + i] = req.value[i]
<1> DEFINE end == HeaderSize + Len(req.key)
           v == writeUint32(Len(req.key))
           w == writeUint32(Len(req.value))
           p == <<req.opcode>> \o v \o req.key
           q == p \o w
           e == q \o req.value
<1>1. Len(req.key) \in Nat /\ Len(req.value) \in Nat /\ LengthBytes \in Nat
  BY LenProperties, WireAssumption
<1>2. w \in Seq(Nat) /\ Len(w) = LengthBytes
  BY <1>1, WrittenBytes
<1>3. /\ p \in Seq(Nat) /\ Len(p) = end /\ p[1] = req.opcode
      /\ \A i \in 1 .. LengthBytes : p[1 + i] = v[i]
      /\ \A i \in 1 .. Len(req.key) : p[HeaderSize + i] = req.key[i]
  BY ResponseLayout
<1> HIDE DEF p, v, w
<1>4. /\ q \in Seq(Nat) /\ Len(q) = Len(p) + Len(w)
      /\ \A i \in 1 .. Len(p) : q[i] = p[i]
      /\ \A i \in 1 .. Len(w) : q[Len(p) + i] = w[i]
  BY <1>2, <1>3, JoinedBytes
<1> HIDE DEF q
<1>5. /\ e \in Seq(Nat) /\ Len(e) = Len(q) + Len(req.value)
      /\ \A i \in 1 .. Len(q) : e[i] = q[i]
      /\ \A i \in 1 .. Len(req.value) : e[Len(q) + i] = req.value[i]
  BY <1>4, JoinedBytes
<1> HIDE DEF e
<1> DEFINE n == Len(req.key)
<1>0. n \in Nat /\ end = HeaderSize + n
  BY <1>1
<1> HIDE DEF n, end
<1>6. end \in Nat /\ HeaderSize = 1 + LengthBytes /\ Len(q) = end + LengthBytes
  <2>1. HeaderSize = 1 + LengthBytes /\ LengthBytes \in Nat
    BY <1>1 DEF HeaderSize
  <2>2. Len(p) = end /\ Len(w) = LengthBytes /\ Len(q) = Len(p) + Len(w)
    BY <1>2, <1>3, <1>4
  <2> QED
    BY <1>0, <2>1, <2>2
<1>7. \A i \in 1 .. end : e[i] = p[i]
  <2>1. \A i \in 1 .. end : i \in 1 .. Len(p) /\ i \in 1 .. Len(q)
    BY <1>1, <1>3, <1>6
  <2> QED
    BY <1>4, <1>5, <2>1
<1>8. /\ 1 \in 1 .. end
      /\ \A i \in 1 .. LengthBytes : 1 + i \in 1 .. end
      /\ \A i \in 1 .. n : HeaderSize + i \in 1 .. end
  BY <1>0, <1>1, <1>6
<1>9. \A i \in 1 .. LengthBytes : e[end + i] = w[i]
  <2>1. \A i \in 1 .. LengthBytes : end + i \in 1 .. Len(q)
    BY <1>1, <1>6
  <2> QED
    BY <1>2, <1>3, <1>4, <1>5, <2>1
<1>10. \A i \in 1 .. Len(req.value) : e[end + LengthBytes + i] = req.value[i]
  BY <1>5, <1>6
<1>11. /\ e[1] = req.opcode
       /\ \A i \in 1 .. LengthBytes : e[1 + i] = v[i]
       /\ \A i \in 1 .. Len(req.key) : e[HeaderSize + i] = req.key[i]
  BY <1>3, <1>7, <1>8 DEF n
<1>12. e \in Seq(Nat) /\ Len(e) = end + LengthBytes + Len(req.value)
  BY <1>5, <1>6
<1>13. encodeRequest(req) = e
  BY DEF encodeRequest, e, q, p, v, w
<1>14. /\ encodeRequest(req) \in Seq(Nat) /\ Len(req.key) \in Nat /\ Len(req.value) \in Nat
       /\ Len(encodeRequest(req)) = end + LengthBytes + Len(req.value)
       /\ encodeRequest(req)[1] = req.opcode
       /\ \A i \in 1 .. LengthBytes : encodeRequest(req)[1 + i] = v[i]
       /\ \A i \in 1 .. Len(req.key) : encodeRequest(req)[HeaderSize + i] = req.key[i]
       /\ \A i \in 1 .. LengthBytes : encodeRequest(req)[end + i] = w[i]
       /\ \A i \in 1 .. Len(req.value) : encodeRequest(req)[end + LengthBytes + i] = req.value[i]
  BY <1>1, <1>9, <1>10, <1>11, <1>12, <1>13
<1> QED
  BY <1>14 DEF end, v, w

(* The lengths that a request or response can carry. *)
Fits(s) == s \in Seq(Nat) /\ Len(s) < Radix ^ LengthBytes

(* What the first a bytes of a request tell: its lengths, as soon as they  *)
(* are there, and in the end the request.                                  *)
LEMMA RequestPrefix ==
  ASSUME NEW req, req.opcode \in Nat, Fits(req.key), Fits(req.value),
         NEW a \in Nat, NEW b, Slice(b, encodeRequest(req), 1, a)
  PROVE  LET end == HeaderSize + Len(req.key)
         IN  /\ b \in Seq(Nat) /\ Len(b) = a
             /\ a >= HeaderSize => readUint32(b, 1) = Len(req.key)
             /\ a >= end + LengthBytes => /\ KeyEnd(b) = end
                                          /\ readUint32(b, end) = Len(req.value)
<1> DEFINE e == encodeRequest(req)
           end == HeaderSize + Len(req.key)
<1>1. /\ e \in Seq(Nat) /\ Len(req.key) \in Nat /\ Len(req.value) \in Nat
      /\ \A i \in 1 .. LengthBytes : e[1 + i] = writeUint32(Len(req.key))[i]
      /\ \A i \in 1 .. LengthBytes : e[end + i] = writeUint32(Len(req.value))[i]
  BY RequestLayout DEF Fits
<1> HIDE DEF e
<1>2. b \in Seq(Nat) /\ Len(b) = a /\ \A k \in 1 .. a : b[k] = e[k]
  <2>1. Slice(b, e, 1, a)
    BY DEF e
  <2>2. b \in Seq(Nat) /\ Len(b) = a - 1 + 1 /\ \A k \in 1 .. Len(b) : b[k] = e[1 + k - 1]
    BY <1>1, <2>1, SliceBytes
  <2> QED
    BY <2>2
<1>3. LengthBytes \in Nat \ {0} /\ HeaderSize = 1 + LengthBytes
  BY WireAssumption DEF HeaderSize
<1>4. ASSUME a >= HeaderSize
      PROVE  readUint32(b, 1) = Len(req.key)
  <2>1. \A i \in 1 .. LengthBytes : 1 + i \in 1 .. a
    BY <1>3, <1>4
  <2>2. \A i \in 1 .. LengthBytes : b[1 + i] = writeUint32(Len(req.key))[i]
    BY <1>1, <1>2, <2>1
  <2>3. 1 + LengthBytes <= Len(b)
    BY <1>2, <1>3, <1>4
  <2> QED
    BY <1>1, <1>2, <2>2, <2>3, ReadWritten DEF Fits
<1>5. ASSUME a >= end + LengthBytes
      PROVE  KeyEnd(b) = end /\ readUint32(b, end) = Len(req.value)
  <2>1. a >= HeaderSize /\ end \in Nat /\ end <= a
    <3> DEFINE n == Len(req.key)
    <3>1. n \in Nat /\ end = HeaderSize + n
      BY <1>1
    <3> HIDE DEF n, end
    <3> QED
      BY <1>3, <1>5, <3>1
  <2>2. readUint32(b, 1) = Len(req.key)
    BY <1>4, <2>1
  <2>3. Len(req.key) # Short /\ ~(HeaderSize + Len(req.key) > Len(b))
    BY <1>1, <1>2, <2>1 DEF Short
  <2>4. KeyEnd(b) = end
    BY <2>2, <2>3 DEF KeyEnd
  <2> HIDE DEF end
  <2>5. \A i \in 1 .. LengthBytes : end + i \in 1 .. a
    BY <1>3, <1>5, <2>1
  <2>6. \A i \in 1 .. LengthBytes : b[end + i] = writeUint32(Len(req.value))[i]
    BY <1>1, <1>2, <2>5
  <2>7. end + LengthBytes <= Len(b)
    BY <1>2, <1>5
  <2>8. readUint32(b, end) = Len(req.value)
    BY <1>1, <1>2, <2>1, <2>6, <2>7, ReadWritten DEF Fits
  <2> QED
    BY <2>4, <2>8
<1> QED
  BY <1>2, <1>4, <1>5

(* decodeRequest is the inverse of encodeRequest. *)
LEMMA DecodeRequest ==
  ASSUME NEW op \in Nat, NEW k, NEW v, Fits(k), Fits(v)
  PROVE  decodeRequest(encodeRequest(Request(op, k, v))) = Request(op, k, v)
<1> DEFINE req == Request(op, k, v)
           e == encodeRequest(req)
           end == HeaderSize + Len(k)
<1>1. req.opcode = op /\ req.key = k /\ req.value = v
  BY DEF Request
<1> HIDE DEF req
<1>2. /\ e \in Seq(Nat) /\ Len(k) \in Nat /\ Len(v) \in Nat
      /\ Len(e) = end + LengthBytes + Len(v)
      /\ e[1] = op
      /\ \A i \in 1 .. Len(k) : e[HeaderSize + i] = k[i]
      /\ \A i \in 1 .. Len(v) : e[end + LengthBytes + i] = v[i]
  BY <1>1, RequestLayout DEF Fits
<1>3. LengthBytes \in Nat \ {0} /\ HeaderSize = 1 + LengthBytes
  BY WireAssumption DEF HeaderSize
<1>4. Len(e) \in Nat /\ Len(e) >= end + LengthBytes /\ end \in Nat
  BY <1>2, <1>3
<1>5. Slice(e, e, 1, Len(e))
  <2> HIDE DEF e
  <2>1. e = SubSeq(e, 1, Len(e))
    BY <1>2, SubSeqFull
  <2> QED
    BY <1>4, <2>1 DEF Slice
<1>6. KeyEnd(e) = end /\ readUint32(e, end) = Len(v)
  BY <1>1, <1>4, <1>5, RequestPrefix
<1> HIDE DEF e
<1>7. SubSeq(e, HeaderSize + 1, end) = k
  <2>1. Slice(k, e, HeaderSize + 1, end)
    <3>1. /\ HeaderSize + 1 \in Nat \ {0} /\ HeaderSize + 1 <= end + 1 /\ end <= Len(e)
          /\ Len(k) = end - (HeaderSize + 1) + 1
      BY <1>2, <1>3, <1>4
    <3>2. \A i \in 1 .. Len(k) : (HeaderSize + 1) + i - 1 = HeaderSize + i
      BY <1>2, <1>3
    <3>3. \A i \in 1 .. Len(k) : k[i] = e[(HeaderSize + 1) + i - 1]
      BY <1>2, <3>2
    <3> DEFINE m == HeaderSize + 1
    <3> HIDE DEF m
    <3>4. Slice(k, e, m, end)
      BY <1>2, <1>4, <3>1, <3>3, SliceFromBytes DEF Fits, m
    <3> QED
      BY <3>4 DEF m
  <2> QED
    BY <2>1 DEF Slice
<1>8. SubSeq(e, end + LengthBytes + 1, end + LengthBytes + Len(v)) = v
  <2> DEFINE m == end + LengthBytes + 1
             n == end + LengthBytes + Len(v)
  <2>1. m \in Nat \ {0} /\ n \in Nat /\ m <= n + 1 /\ n <= Len(e) /\ Len(v) = n - m + 1
    BY <1>2, <1>3, <1>4
  <2>2. \A i \in 1 .. Len(v) : m + i - 1 = end + LengthBytes + i
    BY <1>2, <1>3, <1>4
  <2> HIDE DEF m, n
  <2>3. \A i \in 1 .. Len(v) : v[i] = e[m + i - 1]
    BY <1>2, <2>2
  <2>4. Slice(v, e, m, n)
    BY <1>2, <2>1, <2>3, SliceFromBytes DEF Fits
  <2> QED
    BY <2>4 DEF Slice, m, n
<1>9. /\ end # Short /\ Len(v) # Short /\ ~(end + LengthBytes + Len(v) > Len(e))
  BY <1>2, <1>3, <1>4 DEF Short
<1> HIDE DEF end
<1>10. decodeRequest(e) = Request(op, k, v)
  BY <1>2, <1>6, <1>7, <1>8, <1>9 DEF decodeRequest
<1> QED
  BY <1>10 DEF e, req

(* The lengths of responses, from any prefix with a whole header. *)
LEMMA ResponsePrefix ==
  ASSUME NEW resp, resp.status \in Nat, Fits(resp.value),
         NEW a \in Nat, NEW b, Slice(b, encodeResponse(resp), 1, a)
  PROVE  /\ b \in Seq(Nat) /\ Len(b) = a
         /\ a >= HeaderSize => readUint32(b, 1) = Len(resp.value)
<1> DEFINE e == encodeResponse(resp)
<1>1. /\ e \in Seq(Nat) /\ Len(resp.value) \in Nat
      /\ \A i \in 1 .. LengthBytes : e[1 + i] = writeUint32(Len(resp.value))[i]
  BY ResponseLayout DEF Fits, encodeResponse
<1> HIDE DEF e
<1>2. b \in Seq(Nat) /\ Len(b) = a /\ \A k \in 1 .. a : b[k] = e[k]
  <2>1. Slice(b, e, 1, a)
    BY DEF e
  <2>2. b \in Seq(Nat) /\ Len(b) = a - 1 + 1 /\ \A k \in 1 .. Len(b) : b[k] = e[1 + k - 1]
    BY <1>1, <2>1, SliceBytes
  <2> QED
    BY <2>2
<1>3. LengthBytes \in Nat \ {0} /\ HeaderSize = 1 + LengthBytes
  BY WireAssumption DEF HeaderSize
<1>4. ASSUME a >= HeaderSize
      PROVE  readUint32(b, 1) = Len(resp.value)
  <2>1. \A i \in 1 .. LengthBytes : 1 + i \in 1 .. a
    BY <1>3, <1>4
  <2>2. \A i \in 1 .. LengthBytes : b[1 + i] = writeUint32(Len(resp.value))[i]
    BY <1>1, <1>2, <2>1
  <2>3. 1 + LengthBytes <= Len(b)
    BY <1>2, <1>3, <1>4
  <2> QED
    BY <1>1, <1>2, <2>2, <2>3, ReadWritten DEF Fits
<1> QED
  BY <1>2, <1>4

(* decodeResponse is the inverse of encodeResponse. *)
LEMMA DecodeResponse ==
  ASSUME NEW status \in Nat, NEW v, Fits(v)
  PROVE  decodeResponse(encodeResponse(Response(status, v))) = Response(status, v)
<1> DEFINE r == Response(status, v)
           e == encodeResponse(r)
           end == HeaderSize + Len(v)
<1>1. r.status = status /\ r.value = v
  BY DEF Response
<1> HIDE DEF r
<1>2. /\ e \in Seq(Nat) /\ Len(v) \in Nat /\ Len(e) = end /\ e[1] = status
      /\ \A i \in 1 .. Len(v) : e[HeaderSize + i] = v[i]
  <2>1. e = <<status>> \o writeUint32(Len(v)) \o v
    BY <1>1 DEF encodeResponse
  <2> HIDE DEF e
  <2> QED
    BY <2>1, ResponseLayout DEF Fits
<1>3. LengthBytes \in Nat \ {0} /\ HeaderSize = 1 + LengthBytes
  BY WireAssumption DEF HeaderSize
<1>4. Len(e) \in Nat /\ Len(e) >= HeaderSize /\ end \in Nat
  BY <1>2, <1>3
<1>5. Slice(e, e, 1, Len(e))
  <2> HIDE DEF e
  <2>1. e = SubSeq(e, 1, Len(e))
    BY <1>2, SubSeqFull
  <2> QED
    BY <1>4, <2>1 DEF Slice
<1>6. readUint32(e, 1) = Len(v)
  BY <1>1, <1>4, <1>5, ResponsePrefix
<1> HIDE DEF e
<1>7. SubSeq(e, HeaderSize + 1, end) = v
  <2> DEFINE m == HeaderSize + 1
  <2>1. m \in Nat \ {0} /\ m <= end + 1 /\ end <= Len(e) /\ Len(v) = end - m + 1
    BY <1>2, <1>3, <1>4
  <2>2. \A i \in 1 .. Len(v) : m + i - 1 = HeaderSize + i
    BY <1>2, <1>3
  <2> HIDE DEF m, end
  <2>3. \A i \in 1 .. Len(v) : v[i] = e[m + i - 1]
    BY <1>2, <2>2
  <2>4. Slice(v, e, m, end)
    BY <1>2, <1>4, <2>1, <2>3, SliceFromBytes DEF Fits
  <2> QED
    BY <2>4 DEF Slice, m
<1>8. Len(v) # Short /\ ~(end > Len(e))
  BY <1>2, <1>4 DEF Short
<1>9. decodeResponse(e) = Response(status, v)
  BY <1>2, <1>6, <1>7, <1>8 DEF decodeResponse
<1> QED
  BY <1>9 DEF e, r
-----------------------------------------------------------------------------
(* The requests and responses of the model fit the format.                 *)

(* The lengths of the values in play fit their digits. *)
LEMMA ValuesFit == \A v \in Values \cup {<<1>>} : Fits(v)
<1> TAKE v \in Values \cup {<<1>>}
<1>1. 2 < Radix ^ LengthBytes /\ MaxCalls \in Nat
  BY WireAssumption
<1> DEFINE m == Radix ^ LengthBytes
<1>2. m \in Int
  <2>1. LengthBytes - 1 \in 0 .. LengthBytes - 1 /\ (LengthBytes - 1) + 1 = LengthBytes
    BY WireAssumption
  <2>2. Radix ^ LengthBytes = Radix * Radix ^ (LengthBytes - 1) /\ Radix ^ (LengthBytes - 1) \in Nat
    BY <2>1, PowerAssumption
  <2> QED
    BY <2>2, WireAssumption
<1> HIDE DEF m
<1>3. CASE v = <<>>
  BY <1>1, <1>2, <1>3 DEF Fits, m
<1>4. CASE v = <<1>>
  BY <1>1, <1>2, <1>4 DEF Fits, m
<1>5. CASE v \in {<<0, i>> : i \in 1 .. MaxCalls}
  <2>1. PICK i \in 1 .. MaxCalls : v = <<0, i>>
    BY <1>5
  <2>2. v \in Seq(Nat) /\ Len(v) = 2
    BY <1>1, <2>1
  <2> QED
    BY <1>1, <2>2 DEF Fits
<1> QED
  BY <1>3, <1>4, <1>5 DEF Values, NoValue

(* What a Client asks can be encoded, and is never taken for no request. *)
LEMMA RequestsFit ==
  ASSUME NEW req \in Requests
  PROVE  /\ req.opcode \in Nat /\ Fits(req.key) /\ Fits(req.value) /\ req # Refused
         /\ req.opcode \in {GET, PUT, DELETE, PING} /\ req.key \in Keys \cup {<<>>}
         /\ req.value \in Values
         /\ req.opcode # PING => req.key \in Keys
         /\ req = Request(req.opcode, req.key, req.value)
<1> USE DEF GET, PUT, DELETE, PING, Request, Refused
<1>1. CASE req \in [opcode : {GET, PUT, DELETE}, key : Keys, value : Values]
  <2>1. req.key \in Keys /\ req.value \in Values /\ req.opcode \in {GET, PUT, DELETE}
    BY <1>1
  <2>2. Fits(req.key)
    BY <2>1, WireAssumption DEF Fits
  <2>3. Fits(req.value)
    BY <2>1, ValuesFit
  <2> QED
    BY <1>1, <2>1, <2>2, <2>3
<1>2. CASE req = Request(PING, <<>>, <<>>)
  <2>1. req.opcode = PING /\ req.key = <<>> /\ req.value = <<>>
    BY <1>2
  <2>2. <<>> \in Values
    BY DEF Values, NoValue
  <2>3. Fits(<<>>)
    BY <2>2, ValuesFit
  <2> QED
    BY <1>2, <2>1, <2>2, <2>3
<1> QED
  BY <1>1, <1>2 DEF Requests

(* So can what a server answers. *)
LEMMA ResponsesFit ==
  ASSUME NEW r \in Responses
  PROVE  /\ r.status \in Nat /\ Fits(r.value) /\ r # RefusedResponse
         /\ r.status \in {SUCCESS, KEY_NOT_FOUND, ERROR, REDIRECT}
         /\ r = Response(r.status, r.value)
<1> USE DEF SUCCESS, KEY_NOT_FOUND, ERROR, REDIRECT, Response, RefusedResponse
<1>1. r.value \in Values \cup {<<1>>} /\ r.status \in {SUCCESS, KEY_NOT_FOUND, ERROR, REDIRECT}
  BY DEF Responses
<1>2. Fits(r.value)
  BY <1>1, ValuesFit
<1> QED
  BY <1>1, <1>2 DEF Responses

(* What the lemmas on the format say about a request of the model. *)
LEMMA RequestBytes ==
  ASSUME NEW req \in Requests
  PROVE  LET e == encodeRequest(req)
         IN  /\ e \in Seq(Nat) /\ Len(e) \in Nat /\ e # <<>>
             /\ Len(req.key) \in Nat /\ Len(req.value) \in Nat
             /\ Len(e) = HeaderSize + Len(req.key) + LengthBytes + Len(req.value)
             /\ decodeRequest(e) = req
             /\ Slice(e, e, 1, Len(e))
<1> DEFINE e == encodeRequest(req)
<1>1. /\ req.opcode \in Nat /\ Fits(req.key) /\ Fits(req.value)
      /\ req = Request(req.opcode, req.key, req.value)
  BY RequestsFit
<1>2. /\ e \in Seq(Nat) /\ Len(req.key) \in Nat /\ Len(req.value) \in Nat
      /\ Len(e) = HeaderSize + Len(req.key) + LengthBytes + Len(req.value)
  BY <1>1, RequestLayout DEF Fits
<1>3. decodeRequest(e) = req
  BY <1>1, DecodeRequest
<1> HIDE DEF e
<1>4. Len(e) \in Nat /\ e = SubSeq(e, 1, Len(e))
  BY <1>2, SubSeqFull, LenProperties
<1>5. Slice(e, e, 1, Len(e))
  BY <1>4 DEF Slice
<1>6. e # <<>>
  <2> DEFINE m == Len(req.key)
             n == Len(req.value)
  <2>1. m \in Nat /\ n \in Nat /\ Len(e) = HeaderSize + m + LengthBytes + n
    BY <1>2
  <2> HIDE DEF m, n
  <2>2. Len(e) > 0
    BY <2>1, WireAssumption DEF HeaderSize
  <2> QED
    BY <1>2, <2>2
<1> QED
  BY <1>2, <1>3, <1>4, <1>5, <1>6 DEF e

(* An encoded answer: its length, and that it decodes to the answer. *)
LEMMA ResponseBytes ==
  ASSUME NEW r \in Responses
  PROVE  LET e == encodeResponse(r)
         IN  /\ e \in Seq(Nat) /\ Len(e) \in Nat /\ e # <<>>
             /\ Len(r.value) \in Nat /\ Len(e) = HeaderSize + Len(r.value)
             /\ decodeResponse(e) = r
             /\ Slice(e, e, 1, Len(e))
<1> DEFINE e == encodeResponse(r)
<1>1. r.status \in Nat /\ Fits(r.value) /\ r = Response(r.status, r.value)
  BY ResponsesFit
<1>2. e \in Seq(Nat) /\ Len(r.value) \in Nat /\ Len(e) = HeaderSize + Len(r.value)
  BY <1>1, ResponseLayout DEF Fits, encodeResponse
<1>3. decodeResponse(e) = r
  BY <1>1, DecodeResponse
<1> HIDE DEF e
<1>4. Len(e) \in Nat /\ e = SubSeq(e, 1, Len(e))
  BY <1>2, SubSeqFull, LenProperties
<1>5. Slice(e, e, 1, Len(e))
  BY <1>4 DEF Slice
<1>6. e # <<>>
  <2> DEFINE n == Len(r.value)
  <2>1. n \in Nat /\ Len(e) = HeaderSize + n
    BY <1>2
  <2> HIDE DEF n
  <2>2. Len(e) > 0
    BY <2>1, WireAssumption DEF HeaderSize
  <2> QED
    BY <1>2, <2>2
<1> QED
  BY <1>2, <1>3, <1>4, <1>5, <1>6 DEF e
-----------------------------------------------------------------------------
(* What a step of handle_client does to a connection.                      *)

(* A worker keeps the request side of its connection, and takes no request *)
(* from it before all of the request has come.                             *)
ServerMove(x, y) ==
  /\ y \in Connection /\ RequestSide(y)
  /\ y.client = x.client /\ y.server = x.server
  /\ y.worker = "open" =>
       /\ x.worker = "open"
       /\ \/ y.asked = x.asked /\ Sent(y) = Sent(x)
          \/ /\ y.asked = Refused
             /\ x.asked = Refused \/ Sent(x) = Len(encodeRequest(x.asked))
  /\ Quiet(x) => Quiet(y)

(* A server that does nothing keeps the request side. *)
LEMMA MoveNothing ==
  ASSUME NEW x \in Connection, RequestSide(x)
  PROVE  ServerMove(x, x)
BY DEF ServerMove

(* close(client_fd). *)
LEMMA MoveClose ==
  ASSUME NEW x \in Connection, RequestSide(x)
  PROVE  ServerMove(x, WorkerClosed(x))
<1> DEFINE y == WorkerClosed(x)
<1>1. /\ y \in Connection
      /\ y.worker = "closed" /\ y.up = <<>> /\ y.buffer = <<>> /\ y.stage = "header"
      /\ y.reply = <<>> /\ y.asked = Refused
      /\ y.client = x.client /\ y.server = x.server /\ y.down = x.down
  <2>1. <<>> \in Seq(Nat) /\ "header" \in Stages
    BY DEF Stages
  <2> QED
    BY <2>1 DEF WorkerClosed, Connection
<1> HIDE DEF y
<1>2. RequestSide(y)
  BY <1>1 DEF RequestSide
<1>3. Quiet(x) => Quiet(y)
  BY <1>1 DEF Quiet
<1>4. ServerMove(x, y)
  BY <1>1, <1>2, <1>3 DEF ServerMove
<1> QED
  BY <1>4 DEF y

(* The sizes of the three receives, once what they are read from is there. *)
LEMMA ExpectedSizes ==
  ASSUME NEW req \in Requests, NEW a \in Nat, NEW b, Slice(b, encodeRequest(req), 1, a)
  PROVE  /\ Len(b) = a /\ b \in Seq(Nat)
         /\ Expected("header", b) = HeaderSize
         /\ a >= HeaderSize => Expected("key", b) = HeaderSize + Len(req.key) + LengthBytes
         /\ a >= HeaderSize + Len(req.key) + LengthBytes =>
              Expected("value", b) = Len(encodeRequest(req))
<1>1. /\ req.opcode \in Nat /\ Fits(req.key) /\ Fits(req.value)
      /\ Len(encodeRequest(req)) = HeaderSize + Len(req.key) + LengthBytes + Len(req.value)
  BY RequestsFit, RequestBytes
<1>2. /\ b \in Seq(Nat) /\ Len(b) = a
      /\ a >= HeaderSize => readUint32(b, 1) = Len(req.key)
      /\ a >= HeaderSize + Len(req.key) + LengthBytes =>
           /\ KeyEnd(b) = HeaderSize + Len(req.key)
           /\ readUint32(b, HeaderSize + Len(req.key)) = Len(req.value)
  BY <1>1, RequestPrefix
<1> QED
  BY <1>1, <1>2 DEF Expected

(* recv of any portion of what is under way keeps buffer and stage those   *)
(* of the request.                                                         *)
LEMMA MoveReceive ==
  ASSUME NEW x \in Connection, RequestSide(x), x.worker = "open",
         x.stage \in {"header", "key", "value"}, x.up # <<>>,
         NEW m, m = Min({Expected(x.stage, x.buffer) - Len(x.buffer), Len(x.up)})
  PROVE  /\ m \in Nat \ {0}
         /\ \A k \in 1 .. m :
              ServerMove(x, [x EXCEPT !.up = SubSeq(@, k + 1, Len(@)),
                                      !.buffer = @ \o SubSeq(x.up, 1, k),
                                      !.stage = NextStage(@, x.buffer \o SubSeq(x.up, 1, k))])
<1> DEFINE req == x.asked
           e == encodeRequest(req)
           a == Len(x.buffer)
           K == HeaderSize
           V == HeaderSize + Len(req.key) + LengthBytes
           l == Len(x.up)
           n == Len(encodeRequest(x.asked))
<1>1. x.up \in Seq(Nat) /\ x.buffer \in Seq(Nat) /\ a \in Nat /\ l \in Nat
  BY LenProperties DEF Connection
<1>2. req \in Requests /\ req # Refused
  BY DEF Connection, RequestSide
<1>3. /\ e \in Seq(Nat) /\ Len(e) = n /\ n \in Nat /\ Len(req.key) \in Nat /\ Len(req.value) \in Nat
      /\ n = V + Len(req.value)
  BY <1>2, RequestBytes
<1>4. K \in Nat \ {0} /\ V \in Nat /\ K < V /\ V <= n
  <2> DEFINE p == Len(req.key)
             q == Len(req.value)
  <2>1. p \in Nat /\ q \in Nat /\ V = HeaderSize + p + LengthBytes /\ n = V + q
    BY <1>3
  <2> HIDE DEF p, q, V
  <2> QED
    BY <2>1, WireAssumption DEF HeaderSize
<1>5. /\ Slice(x.buffer, e, 1, a) /\ Slice(x.up, e, a + 1, a + l)
      /\ x.stage = StageAt(req, a)
  BY <1>2 DEF RequestSide, Received, Sent
<1> HIDE DEF V, e, req, K, a, l, n
<1>6. x.stage = IF a < K THEN "header" ELSE IF a < V THEN "key"
                ELSE IF a < n THEN "value" ELSE "process"
  BY <1>5 DEF StageAt, V, K, n, req
<1> DEFINE z == IF a < K THEN K ELSE IF a < V THEN V ELSE n
<1>7. Expected(x.stage, x.buffer) = z /\ z \in Nat /\ a < z /\ z <= n
  <2>1. /\ Expected("header", x.buffer) = K
        /\ a >= K => Expected("key", x.buffer) = V
        /\ a >= V => Expected("value", x.buffer) = n
    BY <1>1, <1>2, <1>5, ExpectedSizes DEF V, K, e, n, req
  <2>2. CASE a < K
    <3>1. x.stage = "header" /\ z = K
      BY <1>6, <2>2 DEF z
    <3>2. K \in Nat /\ V \in Nat /\ n \in Nat /\ K < V /\ V <= n
      BY <1>3, <1>4
    <3>3. K <= n
      BY <3>2
    <3> QED
      BY <2>1, <2>2, <3>1, <3>2, <3>3
  <2>3. CASE a >= K /\ a < V
    BY <1>1, <1>4, <1>6, <2>1, <2>3 DEF z
  <2>4. CASE a >= V
    BY <1>1, <1>3, <1>4, <1>6, <2>1, <2>4
  <2> QED
    BY <1>1, <1>4, <2>2, <2>3, <2>4
<1> HIDE DEF z
<1>0. m \in Nat \ {0} /\ m <= z - a /\ m <= l
  <2>1. z - a \in Int /\ l \in Int /\ m = Min({z - a, l})
    BY <1>1, <1>7 DEF a, l
  <2>2. m = IF z - a <= l THEN z - a ELSE l
    BY <2>1, MinOfTwo
  <2>3. l # 0
    BY <1>1, EmptySeq DEF l
  <2> QED
    BY <1>1, <1>7, <2>2, <2>3
<1> SUFFICES ASSUME NEW k \in 1 .. m
             PROVE  ServerMove(x, [x EXCEPT !.up = SubSeq(@, k + 1, Len(@)),
                                      !.buffer = @ \o SubSeq(x.up, 1, k),
                                      !.stage = NextStage(@, x.buffer \o SubSeq(x.up, 1, k))])
  BY <1>0
<1>8. k \in Nat \ {0} /\ k <= z - a /\ k <= l
  BY <1>0, <1>1, <1>7
<1> DEFINE b == x.buffer \o SubSeq(x.up, 1, k)
           u == SubSeq(x.up, k + 1, Len(x.up))
           y == [x EXCEPT !.up = u, !.buffer = b, !.stage = NextStage(x.stage, b)]
<1>9. /\ Slice(b, e, 1, a + k) /\ Slice(u, e, (a + k) + 1, a + l)
      /\ u \in Seq(Nat) /\ Len(u) = l - k
  <2> DEFINE i == a + 1
             j == a + l
  <2>1. i \in Nat \ {0} /\ j \in Nat /\ Slice(x.up, e, i, j) /\ k \in Nat /\ k <= Len(x.up)
    <3>1. k <= Len(x.up)
      BY <1>8 DEF l
    <3> QED
      BY <1>1, <1>5, <3>1
  <2>2. i + k - 1 = a + k /\ i + k = (a + k) + 1
    BY <1>1
  <2> HIDE DEF i, j
  <2>3. /\ Slice(SubSeq(x.up, 1, k), e, i, i + k - 1)
        /\ Slice(u, e, i + k, j)
        /\ u \in Seq(Nat) /\ Len(u) = l - k
    <3>1. e \in Seq(Nat)
      BY <1>3
    <3> HIDE DEF e
    <3>2. /\ Slice(SubSeq(x.up, 1, k), e, i, i + k - 1)
          /\ Slice(SubSeq(x.up, k + 1, Len(x.up)), e, i + k, j)
          /\ SubSeq(x.up, k + 1, Len(x.up)) \in Seq(Nat)
          /\ Len(SubSeq(x.up, k + 1, Len(x.up))) = Len(x.up) - k
      BY <2>1, <3>1, SliceCut
    <3> QED
      BY <3>2 DEF l
  <2>4. Slice(SubSeq(x.up, 1, k), e, a + 1, a + k)
    BY <2>2, <2>3 DEF i
  <2>5. 1 \in Nat \ {0} /\ a + k \in Nat
    BY <1>1
  <2>6. Slice(b, e, 1, a + k)
    BY <1>1, <1>3, <1>5, <2>4, <2>5, SliceJoin
  <2> QED
    BY <2>2, <2>3, <2>6 DEF j
<1> HIDE DEF b, u
<1>10. /\ Len(b) = a + k /\ b \in Seq(Nat) /\ a + k \in Nat
       /\ Expected("header", b) = K
       /\ a + k >= K => Expected("key", b) = V
       /\ a + k >= V => Expected("value", b) = n
  <2>1. a + k \in Nat
    BY <1>1
  <2> QED
    BY <1>2, <1>9, <2>1, ExpectedSizes DEF V, K, e, n, req
<1>11. NextStage(x.stage, b) = StageAt(req, a + k)
  <2>1. StageAt(req, a + k) = IF a + k < K THEN "header" ELSE IF a + k < V THEN "key"
                              ELSE IF a + k < n THEN "value" ELSE "process"
    BY DEF StageAt, V, K, n, req
  <2>2. CASE a < K
    <3>1. x.stage = "header" /\ a + k <= K
      BY <1>1, <1>4, <1>6, <1>8, <2>2 DEF z
    <3>2. CASE a + k < K
      <4>1. Len(b) < Expected(x.stage, b)
        BY <1>10, <3>1, <3>2
      <4>2. NextStage(x.stage, b) = "header"
        BY <3>1, <4>1 DEF NextStage
      <4> QED
        BY <2>1, <3>2, <4>2
    <3>3. CASE a + k = K
      <4>1. ~(Len(b) < Expected(x.stage, b))
        BY <1>10, <1>4, <3>1, <3>3
      <4>2. NextStage(x.stage, b) = "key"
        BY <3>1, <4>1 DEF NextStage
      <4> QED
        BY <1>4, <2>1, <3>3, <4>2
    <3> QED
      BY <1>1, <1>4, <3>1, <3>2, <3>3
  <2>3. CASE a >= K /\ a < V
    <3>1. x.stage = "key" /\ a + k <= V /\ a + k > K
      BY <1>1, <1>4, <1>6, <1>8, <2>3 DEF z
    <3>2. CASE a + k < V
      <4>1. Len(b) < Expected(x.stage, b)
        BY <1>1, <1>4, <1>10, <3>1, <3>2
      <4>2. NextStage(x.stage, b) = "key"
        BY <3>1, <4>1 DEF NextStage
      <4>3. ~(a + k < K)
        BY <1>1, <1>4, <3>1
      <4> QED
        BY <2>1, <3>2, <4>2, <4>3
    <3>3. CASE a + k = V
      <4>1. ~(Len(b) < Expected(x.stage, b)) /\ Expected("value", b) = n
        BY <1>1, <1>4, <1>10, <3>1, <3>3
      <4>2. NextStage(x.stage, b) = IF n > Len(b) THEN "value" ELSE "process"
        BY <3>1, <4>1 DEF NextStage
      <4> QED
        BY <1>1, <1>3, <1>4, <1>10, <2>1, <3>3, <4>2
    <3> QED
      BY <1>1, <1>4, <3>1, <3>2, <3>3
  <2>4. CASE a >= V
    <3>1. x.stage = "value" /\ a + k <= n /\ a + k > V
      <4>1. ~(a < K) /\ ~(a < V) /\ z = n
        BY <1>1, <1>4, <2>4 DEF z
      <4>2. a < n /\ k <= n - a
        BY <1>7, <1>8, <4>1
      <4>3. x.stage = "value"
        BY <1>6, <4>1, <4>2
      <4> QED
        BY <1>1, <1>3, <1>4, <2>4, <4>2, <4>3
    <3>2. Expected(x.stage, b) = n /\ Len(b) = a + k
      BY <1>1, <1>4, <1>10, <3>1
    <3>3. NextStage(x.stage, b) = IF a + k < n THEN "value" ELSE "process"
      BY <3>1, <3>2 DEF NextStage
    <3> QED
      BY <1>1, <1>3, <1>4, <2>1, <3>1, <3>3
  <2> QED
    BY <1>1, <1>4, <2>2, <2>3, <2>4
<1>12. /\ y \in Connection /\ y.up = u /\ y.buffer = b /\ y.stage = StageAt(req, a + k)
       /\ y.client = x.client /\ y.server = x.server /\ y.worker = "open"
       /\ y.asked = req /\ y.reply = x.reply
  <2>1. StageAt(req, a + k) \in Stages
    BY DEF StageAt, Stages
  <2> QED
    BY <1>9, <1>10, <1>11, <2>1 DEF Connection, req
<1> HIDE DEF y
<1>13. Received(y) = a + k /\ Sent(y) = a + l /\ Sent(y) = Sent(x)
  <2>1. Received(y) = Len(b) /\ Sent(y) = Len(b) + Len(u) /\ Sent(x) = a + l
    BY <1>12 DEF Received, Sent, a, l
  <2> QED
    BY <1>1, <1>9, <1>10, <2>1
<1>14. x.reply = <<>>
  BY DEF RequestSide
<1>15. y.stage # "reply"
  BY <1>12 DEF StageAt
<1>16. RequestSide(y)
  BY <1>2, <1>9, <1>12, <1>13, <1>14, <1>15 DEF RequestSide, e
<1>17. ~Quiet(x)
  BY <1>2 DEF Quiet, req
<1>18. ServerMove(x, y)
  BY <1>12, <1>13, <1>16, <1>17 DEF ServerMove, req
<1> QED
  BY <1>18 DEF y, b, u

(* A request that handle_client has taken for complete is the one asked,   *)
(* and nothing follows it.                                                 *)
LEMMA WholeRequest ==
  ASSUME NEW x \in Connection, RequestSide(x), x.stage = "process"
  PROVE  /\ x.worker = "open" /\ x.asked \in Requests /\ x.up = <<>> /\ x.reply = <<>>
         /\ x.buffer = encodeRequest(x.asked) /\ decodeRequest(x.buffer) = x.asked
         /\ Sent(x) = Len(encodeRequest(x.asked))
<1> DEFINE e == encodeRequest(x.asked)
           a == Len(x.buffer)
           l == Len(x.up)
           n == Len(e)
<1>1. x.worker = "open" /\ x.asked \in Requests /\ x.asked # Refused /\ x.reply = <<>>
  BY DEF Connection, RequestSide
<1>2. e \in Seq(Nat) /\ n \in Nat /\ decodeRequest(e) = x.asked /\ Slice(e, e, 1, n)
  BY <1>1, RequestBytes
<1>3. /\ Slice(x.buffer, e, 1, a) /\ Slice(x.up, e, a + 1, a + l)
      /\ StageAt(x.asked, a) = "process"
  BY <1>1 DEF RequestSide, Received, Sent
<1>4. a \in Nat /\ l \in Nat /\ x.up \in Seq(Nat)
  BY LenProperties DEF Connection
<1>5. ~(a < n)
  BY <1>3 DEF StageAt
<1>6. a <= n /\ a + l <= n
  BY <1>3 DEF Slice
<1> HIDE DEF a, l, n
<1>7. a = n /\ l = 0
  BY <1>2, <1>4, <1>5, <1>6
<1>8. x.buffer = e
  BY <1>2, <1>3, <1>7 DEF Slice
<1>9. x.up = <<>>
  BY <1>4, <1>7, EmptySeq DEF l
<1>10. Sent(x) = n
  <2>1. Sent(x) = a + l
    BY DEF Sent, a, l
  <2> QED
    BY <1>2, <1>4, <1>7, <2>1
<1> QED
  BY <1>1, <1>2, <1>8, <1>9, <1>10 DEF n

(* Processing a request leaves nothing of it and the whole reply to send. *)
LEMMA MoveProcess ==
  ASSUME NEW x \in Connection, RequestSide(x), x.stage = "process",
         NEW r \in Responses, NEW ans \in Responses \cup {RefusedResponse}
  PROVE  ServerMove(x, [x EXCEPT !.stage = "reply", !.reply = encodeResponse(r),
                                 !.part = FALSE, !.buffer = <<>>, !.asked = Refused,
                                 !.answer = ans])
<1> DEFINE y == [x EXCEPT !.stage = "reply", !.reply = encodeResponse(r),
                          !.part = FALSE, !.buffer = <<>>, !.asked = Refused,
                          !.answer = ans]
<1>1. /\ x.worker = "open" /\ x.asked \in Requests /\ x.up = <<>>
      /\ Sent(x) = Len(encodeRequest(x.asked))
  BY WholeRequest
<1>2. encodeResponse(r) \in Seq(Nat) /\ encodeResponse(r) # <<>>
  BY ResponseBytes
<1>3. /\ y \in Connection
      /\ y.worker = "open" /\ y.up = <<>> /\ y.buffer = <<>> /\ y.stage = "reply"
      /\ y.reply # <<>> /\ y.asked = Refused
      /\ y.client = x.client /\ y.server = x.server
  <2>1. <<>> \in Seq(Nat) /\ "reply" \in Stages
    BY DEF Stages
  <2> QED
    BY <1>1, <1>2, <2>1 DEF Connection
<1> HIDE DEF y
<1>4. RequestSide(y)
  BY <1>3 DEF RequestSide
<1>5. ~Quiet(x)
  BY DEF Quiet
<1>6. ServerMove(x, y)
  BY <1>1, <1>3, <1>4, <1>5 DEF ServerMove
<1> QED
  BY <1>6 DEF y

(* A reply sent on, dropped or finished. *)
LEMMA MoveReply ==
  ASSUME NEW x \in Connection, RequestSide(x), x.stage = "reply", NEW y \in Connection,
         y.client = x.client, y.server = x.server, y.worker = x.worker,
         y.up = x.up, y.buffer = x.buffer, y.asked = x.asked,
         y.stage \in {"header", "reply"}, y.stage = "reply" <=> y.reply # <<>>
  PROVE  ServerMove(x, y)
<1>1. x.worker = "open" /\ x.asked = Refused /\ x.up = <<>> /\ x.buffer = <<>>
  <2>1. x.worker = "open"
    BY DEF RequestSide, Connection
  <2>2. x.asked = Refused
    BY <2>1 DEF RequestSide, StageAt
  <2> QED
    BY <2>1, <2>2 DEF RequestSide
<1>2. RequestSide(y)
  BY <1>1 DEF RequestSide
<1>3. ~Quiet(x)
  BY DEF Quiet
<1>4. Sent(y) = Sent(x)
  BY DEF Sent
<1> QED
  BY <1>1, <1>2, <1>3, <1>4 DEF ServerMove

(* Steps of the servers keep the invariant. *)
LEMMA ServerSteps ==
  ASSUME FrameInv, CallerUnchanged, conn' \in Seq(Connection), Len(conn') = Len(conn),
         \A c \in DOMAIN conn : ServerMove(conn[c], conn'[c]),
         storage' \in [Servers -> [Keys -> Values]],
         copies' \in [Servers -> [Keys -> SUBSET Values]], killed' \in [Servers -> BOOLEAN],
         short' \in 0 .. MaxShort
  PROVE  FrameInv'
<1> USE DEF CallerUnchanged, caller, history
<1>1. DOMAIN conn' = DOMAIN conn /\ DOMAIN conn = 1 .. opened
  BY LenProperties DEF FrameInv, Types
<1>2. Types'
  BY DEF FrameInv, Types
<1>3. \A c \in DOMAIN conn' : RequestSide(conn[c])'
  <2>1. \A c \in DOMAIN conn : RequestSide(conn'[c])
    BY DEF ServerMove
  <2> QED
    BY <1>1, <2>1 DEF RequestSide, Received, Sent
<1>4. CallerSide'
  <2>0. CallerSide /\ Types
    BY DEF FrameInv
  <2>1. \A c \in DOMAIN conn : Gone(c)' <=> Gone(c)
    BY DEF ServerMove, Gone
  <2>2. (IF InCall THEN active \in DOMAIN conn /\ request \in Requests /\ ~Gone(active)
                   ELSE active = 0 /\ request = Refused /\ input = <<>>)'
    <3>1. CASE InCall
      BY <1>1, <2>0, <2>1, <3>1 DEF CallerSide, InCall
    <3>2. CASE ~InCall
      BY <2>0, <3>2 DEF CallerSide, InCall
    <3> QED
      BY <3>1, <3>2
  <2>3. (IF pc = "send" THEN output # <<>> ELSE output = <<>>)'
    BY <2>0 DEF CallerSide
  <2>4. (pc = "send" /\ Open(active))' =>
          /\ conn'[active].asked = request
          /\ Slice(output, encodeRequest(request),
                   Sent(conn'[active]) + 1, Len(encodeRequest(request)))
    <3> SUFFICES ASSUME pc = "send", conn'[active].worker = "open"
                 PROVE  /\ conn'[active].asked = request
                        /\ Slice(output, encodeRequest(request),
                                 Sent(conn'[active]) + 1, Len(encodeRequest(request)))
      BY DEF Open
    <3>1. active \in DOMAIN conn /\ request \in Requests /\ output # <<>>
      BY <2>0 DEF CallerSide, InCall
    <3> DEFINE x == conn[active]
               y == conn'[active]
               e == encodeRequest(request)
    <3>2. ServerMove(x, y)
      BY <3>1
    <3>3. Open(active)
      BY <3>2 DEF ServerMove, Open
    <3>4. x.asked = request /\ Slice(output, e, Sent(x) + 1, Len(e))
      BY <2>0, <3>3 DEF CallerSide
    <3>5. request # Refused /\ Len(e) \in Nat
      BY <3>1, RequestsFit, RequestBytes
    <3>6. Sent(x) # Len(e)
      <4> SUFFICES ASSUME Sent(x) = Len(e) PROVE FALSE
        OBVIOUS
      <4>1. output = SubSeq(e, Len(e) + 1, Len(e))
        BY <3>4 DEF Slice
      <4> HIDE DEF e
      <4>2. Len(e) + 1 \in Int /\ Len(e) \in Int /\ Len(e) < Len(e) + 1
        BY <3>5
      <4>3. SubSeq(e, Len(e) + 1, Len(e)) = <<>>
        BY <4>2, SubSeqEmpty
      <4> QED
        BY <3>1, <4>1, <4>3
    <3>7. y.asked = x.asked /\ Sent(y) = Sent(x)
      BY <3>2, <3>4, <3>5, <3>6 DEF ServerMove
    <3> QED
      BY <3>4, <3>7
  <2>5. (pc \in {"header", "payload"} /\ Open(active))' =>
          \/ conn'[active].asked = Refused
          \/ conn'[active].asked = request /\ Sent(conn'[active]) = Len(encodeRequest(request))
    <3> SUFFICES ASSUME pc \in {"header", "payload"}, conn'[active].worker = "open"
                 PROVE  \/ conn'[active].asked = Refused
                        \/ /\ conn'[active].asked = request
                           /\ Sent(conn'[active]) = Len(encodeRequest(request))
      BY DEF Open
    <3>1. active \in DOMAIN conn
      BY <2>0 DEF CallerSide, InCall
    <3>2. ServerMove(conn[active], conn'[active])
      BY <3>1
    <3>3. Open(active)
      BY <3>2 DEF ServerMove, Open
    <3>4. \/ conn[active].asked = Refused
          \/ conn[active].asked = request /\ Sent(conn[active]) = Len(encodeRequest(request))
      BY <2>0, <3>3 DEF CallerSide
    <3> QED
      BY <3>2, <3>3, <3>4 DEF ServerMove
  <2>6. (pc = "connect" => active = socket)'
    BY <2>0 DEF CallerSide
  <2>7. (socket # 0 => ~Gone(socket) /\ (active = socket \/ Quiet(conn[socket])))'
    <3> SUFFICES ASSUME socket # 0
                 PROVE  ~Gone(socket)' /\ (active = socket \/ Quiet(conn'[socket]))
      BY DEF Quiet
    <3>1. socket \in DOMAIN conn
      BY <1>1, <2>0 DEF Types
    <3> QED
      BY <2>0, <2>1, <3>1 DEF CallerSide, ServerMove
  <2>8. (\A c \in DOMAIN conn : c \in {socket, active} \/ Gone(c))'
    BY <1>1, <2>0, <2>1 DEF CallerSide
  <2>9. /\ Sent(conn'[active]) = Sent(conn[active])'
        /\ encodeRequest(request)' = encodeRequest(request)
    BY DEF Sent
  <2> QED
    BY <2>2, <2>3, <2>4, <2>5, <2>6, <2>7, <2>8, <2>9 DEF CallerSide, Slice
<1> QED
  BY <1>2, <1>3, <1>4 DEF FrameInv

(* A send or recv of n bytes moves some of them. *)
LEMMA PortionsMove ==
  ASSUME short \in 0 .. MaxShort, NEW n \in Nat \ {0}, NEW k \in Portions(n)
  PROVE  k \in 1 .. n /\ (Moves(k, n) => short' \in 0 .. MaxShort)
<1>1. MaxShort \in Nat
  BY WireAssumption
<1>2. CASE short < MaxShort
  BY <1>1, <1>2 DEF Portions, Moves
<1>3. CASE ~(short < MaxShort)
  BY <1>1, <1>3 DEF Portions, Moves
<1> QED
  BY <1>2, <1>3

(* A step of one worker. *)
LEMMA WorkerStep ==
  ASSUME FrameInv, CallerUnchanged, NEW c \in DOMAIN conn, NEW y,
         ServerMove(conn[c], y), conn' = [conn EXCEPT ![c] = y],
         storage' \in [Servers -> [Keys -> Values]],
         copies' \in [Servers -> [Keys -> SUBSET Values]], killed' \in [Servers -> BOOLEAN],
         short' \in 0 .. MaxShort
  PROVE  FrameInv'
<1>1. conn \in Seq(Connection) /\ c \in 1 .. Len(conn) /\ y \in Connection
  BY LenProperties DEF FrameInv, Types, ServerMove
<1>2. /\ conn' \in Seq(Connection) /\ Len(conn') = Len(conn)
      /\ \A d \in 1 .. Len(conn) : conn'[d] = IF d = c THEN y ELSE conn[d]
  BY <1>1, ExceptSeq
<1>3. \A d \in DOMAIN conn : conn[d] \in Connection /\ RequestSide(conn[d])
  BY <1>1, LenProperties, ElementOfSeq DEF FrameInv
<1>4. \A d \in DOMAIN conn : ServerMove(conn[d], conn'[d])
  BY <1>1, <1>2, <1>3, MoveNothing, LenProperties
<1> QED
  BY <1>2, <1>4, ServerSteps

(* What FrameInv says of connections and storages. *)
LEMMA ConnectionsTyped ==
  ASSUME FrameInv
  PROVE  /\ conn \in Seq(Connection) /\ DOMAIN conn = 1 .. opened /\ opened \in Nat
         /\ short \in 0 .. MaxShort
         /\ storage \in [Servers -> [Keys -> Values]]
         /\ copies \in [Servers -> [Keys -> SUBSET Values]] /\ killed \in [Servers -> BOOLEAN]
         /\ \A c \in DOMAIN conn : conn[c] \in Connection /\ RequestSide(conn[c])
<1>1. conn \in Seq(Connection) /\ Len(conn) = opened
  BY DEF FrameInv, Types
<1>2. DOMAIN conn = 1 .. opened /\ \A c \in DOMAIN conn : conn[c] \in Connection
  BY <1>1, LenProperties, ElementOfSeq
<1> QED
  BY <1>1, <1>2, WireAssumption DEF FrameInv, Types

(* ServerReceive reads on in the request. *)
LEMMA FrameServerReceive ==
  ASSUME FrameInv, NEW c \in DOMAIN conn, ServerReceive(c)
  PROVE  FrameInv'
<1> DEFINE x == conn[c]
           m == Min({Expected(x.stage, x.buffer) - Len(x.buffer), Len(x.up)})
           Y(k) == [x EXCEPT !.up = SubSeq(@, k + 1, Len(@)),
                             !.buffer = @ \o SubSeq(x.up, 1, k),
                             !.stage = NextStage(@, x.buffer \o SubSeq(x.up, 1, k))]
<1>1. PICK k \in Portions(m) :
        /\ Moves(k, m)
        /\ conn' = [conn EXCEPT ![c].up = SubSeq(@, k + 1, Len(@)),
                                ![c].buffer = @ \o SubSeq(x.up, 1, k),
                                ![c].stage = NextStage(@, x.buffer \o SubSeq(x.up, 1, k))]
  BY DEF ServerReceive
<1>2. x \in Connection /\ RequestSide(x)
  BY ConnectionsTyped
<1>3. x.worker = "open" /\ x.stage \in {"header", "key", "value"} /\ x.up # <<>>
  BY DEF ServerReceive, Open
<1>4. m \in Nat \ {0} /\ \A j \in 1 .. m : ServerMove(x, Y(j))
  BY <1>2, <1>3, MoveReceive
<1> HIDE DEF m
<1>5. k \in 1 .. m /\ short' \in 0 .. MaxShort
  BY <1>1, <1>4, PortionsMove, ConnectionsTyped
<1>6. ServerMove(x, Y(k))
  BY <1>4, <1>5
<1>7. conn' = [conn EXCEPT ![c] = Y(k)]
  BY <1>1, <1>2 DEF Connection
<1>8. storage' = storage /\ copies' = copies /\ killed' = killed /\ CallerUnchanged
  BY DEF ServerReceive, servers
<1> HIDE DEF Y
<1> QED
  BY <1>5, <1>6, <1>7, <1>8, ConnectionsTyped, WorkerStep

(* ServerGivesUp forgets the request with its connection. *)
LEMMA FrameServerGivesUp ==
  ASSUME FrameInv, NEW c \in DOMAIN conn, ServerGivesUp(c)
  PROVE  FrameInv'
<1>1. conn' = [conn EXCEPT ![c] = WorkerClosed(conn[c])] /\ CallerUnchanged
  BY DEF ServerGivesUp
<1>2. storage' = storage /\ copies' = copies /\ killed' = killed /\ short' = short
  BY DEF ServerGivesUp, servers
<1>3. ServerMove(conn[c], WorkerClosed(conn[c]))
  BY ConnectionsTyped, MoveClose
<1> QED
  BY <1>1, <1>2, <1>3, ConnectionsTyped, WorkerStep

(* What a server answers to a request of the model. *)
LEMMA AnswerTyped ==
  ASSUME FrameInv, NEW s \in Servers, NEW req \in Requests, NEW r \in Answers(s, req)
  PROVE  r \in Responses
<1>1. /\ req.opcode \in {GET, PUT, DELETE, PING} /\ (req.opcode # PING => req.key \in Keys)
      /\ <<>> \in Values /\ NoValue \in Values
  BY RequestsFit DEF Values, NoValue
<1>2. ASSUME req.opcode # PING PROVE Found(s, req.key) \subseteq Values
  <2>1. storage[s][req.key] \in Values /\ copies[s][req.key] \subseteq Values
    BY <1>1, <1>2, ConnectionsTyped
  <2> QED
    BY <1>1, <2>1 DEF Found
<1>3. \A a \in {SUCCESS, KEY_NOT_FOUND, ERROR, REDIRECT}, v \in Values \cup {<<1>>} :
        Response(a, v) \in Responses
  BY DEF Responses, Response
<1>4. CASE Redirects(s, req)
  BY <1>3, <1>4 DEF Answers
<1>5. CASE ~Redirects(s, req) /\ req.opcode \in {PING, PUT}
  BY <1>1, <1>3, <1>5 DEF Answers, PING, PUT, GET, DELETE
<1>6. CASE ~Redirects(s, req) /\ req.opcode \in {GET, DELETE}
  <2>1. PICK v \in Found(s, req.key) :
          r = Response(IF v = NoValue THEN KEY_NOT_FOUND ELSE SUCCESS,
                       IF req.opcode = GET THEN v ELSE <<>>)
    BY <1>6 DEF Answers, PING, PUT, GET, DELETE
  <2>2. v \in Values
    BY <1>2, <1>6, <2>1 DEF PING, GET, DELETE
  <2> QED
    BY <1>1, <1>3, <2>1, <2>2
<1> QED
  BY <1>1, <1>4, <1>5, <1>6

(* process_request, for the request that was asked. *)
LEMMA ProcessRequest ==
  ASSUME FrameInv, NEW c \in DOMAIN conn, process_request(c)
  PROVE  LET req == conn[c].asked
         IN  /\ req \in Requests /\ req # Refused
             /\ conn[c].worker = "open" /\ conn[c].stage = "process"
             /\ conn[c].reply = <<>> /\ conn[c].up = <<>>
             /\ Sent(conn[c]) = Len(encodeRequest(req))
             /\ killed' = killed /\ short' = short /\ CallerUnchanged
             /\ \E r \in Responses :
                  /\ r \in Answers(conn[c].server, req) /\ Execute(conn[c].server, req, r)
                  /\ conn' = [conn EXCEPT ![c] = [conn[c] EXCEPT
                                !.stage = "reply", !.reply = encodeResponse(r), !.part = FALSE,
                                !.buffer = <<>>, !.asked = Refused,
                                !.answer = IF Gone(c) THEN conn[c].answer ELSE r]]
<1> DEFINE req == conn[c].asked
<1>1. conn[c] \in Connection /\ RequestSide(conn[c]) /\ conn[c].stage = "process"
  BY ConnectionsTyped DEF process_request
<1>2. /\ conn[c].worker = "open" /\ req \in Requests /\ decodeRequest(conn[c].buffer) = req
      /\ conn[c].reply = <<>> /\ conn[c].up = <<>>
      /\ Sent(conn[c]) = Len(encodeRequest(req))
  BY <1>1, WholeRequest
<1>3. req # Refused /\ conn[c].server \in Servers
  BY <1>1, <1>2, RequestsFit DEF Connection
<1>5. /\ killed' = killed /\ short' = short /\ CallerUnchanged
  BY DEF process_request
<1>7. PICK r \in Answers(conn[c].server, req) :
        /\ conn' = [conn EXCEPT ![c].stage = "reply",
                                ![c].reply = encodeResponse(r), ![c].part = FALSE,
                                ![c].buffer = <<>>, ![c].asked = Refused,
                                ![c].answer = IF Gone(c) THEN @ ELSE r]
        /\ Execute(conn[c].server, req, r)
  <2> DEFINE m == decodeRequest(conn[c].buffer)
  <2>1. PICK r \in IF m = Refused THEN {Response(ERROR, <<>>)} ELSE Answers(conn[c].server, m) :
          /\ conn' = [conn EXCEPT ![c].stage = IF m = Refused THEN "refuse" ELSE "reply",
                                  ![c].reply = encodeResponse(r), ![c].part = FALSE,
                                  ![c].buffer = <<>>, ![c].asked = Refused,
                                  ![c].answer = IF Gone(c) THEN @ ELSE r]
          /\ Execute(conn[c].server, m, r)
    BY DEF process_request
  <2>2. m = req /\ m # Refused
    BY <1>2, <1>3
  <2> HIDE DEF m
  <2> QED
    BY <2>1, <2>2
<1>4. r \in Responses
  BY <1>2, <1>3, <1>7, AnswerTyped
<1>6. conn' = [conn EXCEPT ![c] = [conn[c] EXCEPT
                 !.stage = "reply", !.reply = encodeResponse(r), !.part = FALSE,
                 !.buffer = <<>>, !.asked = Refused,
                 !.answer = IF Gone(c) THEN conn[c].answer ELSE r]]
  BY <1>1, <1>7 DEF Connection
<1> QED
  BY <1>1, <1>2, <1>3, <1>4, <1>5, <1>6, <1>7

(* What a request makes of storages and copies. *)
LEMMA ExecuteTyped ==
  ASSUME FrameInv, NEW s \in Servers, NEW req \in Requests, NEW r, Execute(s, req, r)
  PROVE  /\ storage' \in [Servers -> [Keys -> Values]]
         /\ copies' \in [Servers -> [Keys -> SUBSET Values]]
         /\ \A a \in Servers, k \in Keys : copies[a][k] \subseteq copies'[a][k]
<1>1. /\ storage \in [Servers -> [Keys -> Values]]
      /\ copies \in [Servers -> [Keys -> SUBSET Values]]
  BY ConnectionsTyped
<1>2. CASE ~(req.opcode \in {PUT, DELETE} /\ r.status # REDIRECT)
  BY <1>1, <1>2 DEF Execute
<1>3. CASE req.opcode \in {PUT, DELETE} /\ r.status # REDIRECT
  <2>1. req.key \in Keys /\ req.value \in Values /\ NoValue \in Values
    BY <1>3, RequestsFit DEF PING, PUT, DELETE, Values
  <2>2. /\ storage' = [storage EXCEPT ![s][req.key] =
                         IF r.status = ERROR THEN NoValue ELSE req.value]
        /\ copies' = [copies EXCEPT ![s][req.key] =
                        IF req.opcode = PUT THEN @ \cup {req.value} ELSE @]
    BY <1>3 DEF Execute
  <2>3. storage' \in [Servers -> [Keys -> Values]]
    BY <1>1, <2>1, <2>2
  <2>4. copies' \in [Servers -> [Keys -> SUBSET Values]]
    BY <1>1, <2>1, <2>2
  <2>5. \A a \in Servers, k \in Keys : copies[a][k] \subseteq copies'[a][k]
    BY <1>1, <2>1, <2>2
  <2> QED
    BY <2>3, <2>4, <2>5
<1> QED
  BY <1>2, <1>3

(* Process takes exactly the request that was asked. *)
LEMMA FrameProcess ==
  ASSUME FrameInv, NEW c \in DOMAIN conn, process_request(c)
  PROVE  FrameInv'
<1> DEFINE x == conn[c]
           req == x.asked
<1>1. /\ req \in Requests /\ x.stage = "process"
      /\ killed' = killed /\ short' = short /\ CallerUnchanged
  BY ProcessRequest
<1>6. PICK r \in Responses :
        /\ Execute(x.server, req, r)
        /\ conn' = [conn EXCEPT ![c] = [x EXCEPT
                      !.stage = "reply", !.reply = encodeResponse(r), !.part = FALSE,
                      !.buffer = <<>>, !.asked = Refused,
                      !.answer = IF Gone(c) THEN x.answer ELSE r]]
  BY ProcessRequest
<1> DEFINE ans == IF Gone(c) THEN x.answer ELSE r
<1>2. x \in Connection /\ RequestSide(x) /\ x.server \in Servers
  BY ConnectionsTyped DEF Connection
<1>3. ans \in Responses \cup {RefusedResponse}
  BY <1>2 DEF Connection
<1>7. conn' = [conn EXCEPT ![c] = [x EXCEPT
                 !.stage = "reply", !.reply = encodeResponse(r), !.part = FALSE,
                 !.buffer = <<>>, !.asked = Refused, !.answer = ans]]
  BY <1>6
<1> HIDE DEF ans
<1>4. ServerMove(x, [x EXCEPT !.stage = "reply", !.reply = encodeResponse(r),
                              !.part = FALSE, !.buffer = <<>>, !.asked = Refused,
                              !.answer = ans])
  BY <1>1, <1>2, <1>3, MoveProcess
<1>5. /\ storage' \in [Servers -> [Keys -> Values]]
      /\ copies' \in [Servers -> [Keys -> SUBSET Values]]
  BY <1>1, <1>2, <1>6, ExecuteTyped
<1> QED
  BY <1>1, <1>4, <1>5, <1>7, ConnectionsTyped, WorkerStep

(* send_data of the server, by what it makes of the connection. *)
SendEffect(x, k) ==
  LET y == [x EXCEPT !.down = IF x.client = "closed" THEN <<>> ELSE @ \o SubSeq(x.reply, 1, k),
                     !.reset = @ \/ x.client = "closed",
                     !.reply = SubSeq(@, k + 1, Len(@)),
                     !.part = k < Len(x.reply)]
  IN  IF y.reply = <<>> THEN AfterReply(y) ELSE y

(* Its fields. *)
LEMMA SendFields ==
  ASSUME NEW x \in Connection, x.stage = "reply", NEW k \in 1 .. Len(x.reply),
         NEW z, z = SendEffect(x, k)
  PROVE  /\ z \in Connection
         /\ z.server = x.server /\ z.client = x.client /\ z.worker = x.worker
         /\ z.up = x.up /\ z.asked = x.asked /\ z.answer = x.answer
         /\ z.down = (IF x.client = "closed" THEN <<>> ELSE x.down \o SubSeq(x.reply, 1, k))
         /\ z.reset = (x.reset \/ x.client = "closed")
         /\ z.part = (k < Len(x.reply))
         /\ z.reply = SubSeq(x.reply, k + 1, Len(x.reply))
         /\ IF k < Len(x.reply) THEN z.stage = "reply" /\ z.reply # <<>> /\ z.buffer = x.buffer
                                ELSE z.stage = "header" /\ z.reply = <<>> /\ z.buffer = <<>>
<1> DEFINE n == Len(x.reply)
           w == SubSeq(x.reply, k + 1, n)
           d == IF x.client = "closed" THEN <<>> ELSE x.down \o SubSeq(x.reply, 1, k)
           y == [x EXCEPT !.down = d, !.reset = @ \/ x.client = "closed",
                          !.reply = w, !.part = k < n]
<1>1. x.reply \in Seq(Nat) /\ x.down \in Seq(Nat) /\ n \in Nat
  BY LenProperties DEF Connection
<1>2. k \in Nat /\ k <= Len(x.reply)
  BY <1>1
<1>3. SubSeq(x.reply, 1, k) \in Seq(Nat) /\ w \in Seq(Nat) /\ Len(w) = n - k
  BY <1>1, <1>2, CutSeq
<1>4. d \in Seq(Nat)
  BY <1>1, <1>3, ConcatProperties, EmptySeq
<1>5. w = <<>> <=> ~(k < n)
  <2>1. k \in Nat /\ k <= n
    BY <1>1
  <2> HIDE DEF n, w
  <2>2. w = <<>> <=> Len(w) = 0
    BY <1>3, EmptySeq
  <2> QED
    BY <1>1, <1>3, <2>1, <2>2
<1> HIDE DEF n, w, d
<1>6. /\ y \in Connection
      /\ y.server = x.server /\ y.client = x.client /\ y.worker = x.worker
      /\ y.up = x.up /\ y.asked = x.asked /\ y.answer = x.answer /\ y.buffer = x.buffer
      /\ y.down = d /\ y.reset = (x.reset \/ x.client = "closed") /\ y.part = (k < n)
      /\ y.reply = w /\ y.stage = "reply"
  <2>1. (x.reset \/ x.client = "closed") \in BOOLEAN /\ (k < n) \in BOOLEAN
    BY DEF Connection
  <2> QED
    BY <1>3, <1>4, <2>1 DEF Connection
<1>7. z = IF w = <<>> THEN AfterReply(y) ELSE y
  BY <1>6 DEF SendEffect, n, w, d
<1> HIDE DEF y
<1>8. CASE k < n
  BY <1>5, <1>6, <1>7, <1>8 DEF n, w, d
<1>9. CASE ~(k < n)
  <2>1. z = [y EXCEPT !.reply = <<>>, !.buffer = <<>>, !.stage = "header"]
    BY <1>5, <1>6, <1>7, <1>9 DEF AfterReply
  <2>2. <<>> \in Seq(Nat) /\ "header" \in Stages
    BY DEF Stages
  <2>3. /\ z \in Connection
        /\ z.server = y.server /\ z.client = y.client /\ z.worker = y.worker
        /\ z.up = y.up /\ z.asked = y.asked /\ z.answer = y.answer /\ z.buffer = <<>>
        /\ z.down = y.down /\ z.reset = y.reset /\ z.part = y.part
        /\ z.reply = <<>> /\ z.stage = "header"
    BY <1>6, <2>1, <2>2 DEF Connection
  <2> QED
    BY <1>5, <1>6, <1>9, <2>3 DEF n, w, d
<1> QED
  BY <1>8, <1>9

(* A connection that replies. *)
LEMMA ReplyingConnection ==
  ASSUME NEW x \in Connection, RequestSide(x), x.stage \in {"reply", "refuse"}
  PROVE  /\ x.stage = "reply" /\ x.reply # <<>> /\ x.reply \in Seq(Nat)
         /\ Len(x.reply) \in Nat \ {0}
         /\ x.worker = "open" /\ x.asked = Refused /\ x.buffer = <<>> /\ x.up = <<>>
<1>1. x.stage = "reply" /\ x.reply # <<>> /\ x.reply \in Seq(Nat)
  BY DEF Connection, Stages, RequestSide
<1>2. x.worker = "open"
  BY <1>1 DEF RequestSide, Connection
<1>3. x.asked = Refused
  BY <1>1, <1>2 DEF RequestSide, StageAt
<1> QED
  BY <1>1, <1>2, <1>3, EmptySeq DEF RequestSide

(* ServerSend sends some first bytes of the reply. *)
LEMMA ServerSendMoves ==
  ASSUME FrameInv, NEW c \in DOMAIN conn, ServerSend(c)
  PROVE  \E k \in 1 .. Len(conn[c].reply) :
           /\ conn' = [conn EXCEPT ![c] = SendEffect(conn[c], k)]
           /\ short' \in 0 .. MaxShort
<1> DEFINE x == conn[c]
<1>1. x \in Connection /\ RequestSide(x) /\ x.stage \in {"reply", "refuse"}
  BY ConnectionsTyped DEF ServerSend
<1>2. Len(x.reply) \in Nat \ {0}
  BY <1>1, ReplyingConnection
<1>3. PICK k \in Portions(Len(x.reply)) :
        /\ Moves(k, Len(x.reply))
        /\ conn' = [conn EXCEPT ![c] = SendEffect(x, k)]
  BY DEF ServerSend, SendEffect, Gone
<1>4. k \in 1 .. Len(x.reply) /\ short' \in 0 .. MaxShort
  BY <1>2, <1>3, PortionsMove, ConnectionsTyped
<1> QED
  BY <1>3, <1>4

(* ServerSend touches the reply only. *)
LEMMA FrameServerSend ==
  ASSUME FrameInv, NEW c \in DOMAIN conn, ServerSend(c)
  PROVE  FrameInv'
<1> DEFINE x == conn[c]
<1>1. x \in Connection /\ RequestSide(x) /\ x.stage \in {"reply", "refuse"}
  BY ConnectionsTyped DEF ServerSend
<1>2. x.stage = "reply" /\ x.buffer = <<>>
  BY <1>1, ReplyingConnection
<1>3. PICK k \in 1 .. Len(x.reply) :
        conn' = [conn EXCEPT ![c] = SendEffect(x, k)] /\ short' \in 0 .. MaxShort
  BY ServerSendMoves
<1> DEFINE z == SendEffect(x, k)
<1>4. /\ z \in Connection
      /\ z.server = x.server /\ z.client = x.client /\ z.worker = x.worker
      /\ z.up = x.up /\ z.asked = x.asked
      /\ IF k < Len(x.reply) THEN z.stage = "reply" /\ z.reply # <<>> /\ z.buffer = x.buffer
                             ELSE z.stage = "header" /\ z.reply = <<>> /\ z.buffer = <<>>
  BY <1>1, <1>2, SendFields
<1> HIDE DEF z
<1>5. ServerMove(x, z)
  BY <1>1, <1>2, <1>4, MoveReply
<1>6. storage' = storage /\ copies' = copies /\ killed' = killed /\ CallerUnchanged
  BY DEF ServerSend, servers
<1>7. conn' = [conn EXCEPT ![c] = z]
  BY <1>3 DEF z
<1> QED
  BY <1>3, <1>5, <1>6, <1>7, ConnectionsTyped, WorkerStep

(* The connection after the rest of a reply was dropped. *)
LEMMA AfterReplyFields ==
  ASSUME NEW x \in Connection, x.stage = "reply", NEW z, z = AfterReply(x)
  PROVE  /\ z \in Connection
         /\ z.server = x.server /\ z.client = x.client /\ z.worker = x.worker
         /\ z.up = x.up /\ z.asked = x.asked /\ z.answer = x.answer /\ z.down = x.down
         /\ z.reset = x.reset /\ z.part = x.part
         /\ z.stage = "header" /\ z.reply = <<>> /\ z.buffer = <<>>
<1>1. <<>> \in Seq(Nat) /\ "header" \in Stages
  BY DEF Stages
<1>2. z = [x EXCEPT !.reply = <<>>, !.buffer = <<>>, !.stage = "header"]
  BY DEF AfterReply
<1> QED
  BY <1>1, <1>2 DEF Connection

(* ServerSendFails drops the rest of the reply. *)
LEMMA FrameServerSendFails ==
  ASSUME FrameInv, NEW c \in DOMAIN conn, ServerSendFails(c)
  PROVE  FrameInv'
<1> DEFINE x == conn[c]
           z == AfterReply(x)
<1>1. x \in Connection /\ RequestSide(x) /\ x.stage \in {"reply", "refuse"}
  BY ConnectionsTyped DEF ServerSendFails
<1>2. x.stage = "reply" /\ x.buffer = <<>>
  BY <1>1, ReplyingConnection
<1>3. /\ z \in Connection
      /\ z.server = x.server /\ z.client = x.client /\ z.worker = x.worker
      /\ z.up = x.up /\ z.asked = x.asked
      /\ z.stage = "header" /\ z.reply = <<>> /\ z.buffer = <<>>
  BY <1>1, <1>2, AfterReplyFields
<1> HIDE DEF z
<1>4. ServerMove(x, z)
  BY <1>1, <1>2, <1>3, MoveReply
<1>5. /\ storage' = storage /\ copies' = copies /\ killed' = killed /\ short' = short /\ CallerUnchanged
      /\ conn' = [conn EXCEPT ![c] = z]
  BY DEF ServerSendFails, servers, z
<1> QED
  BY <1>4, <1>5, ConnectionsTyped, WorkerStep

(* Every connection after a step that gives each its value. *)
LEMMA AllConnections ==
  ASSUME FrameInv, NEW F(_), conn' = [d \in DOMAIN conn |-> F(d)],
         \A d \in DOMAIN conn : F(d) \in Connection
  PROVE  /\ conn' \in Seq(Connection) /\ Len(conn') = Len(conn)
         /\ DOMAIN conn' = DOMAIN conn /\ \A d \in DOMAIN conn : conn'[d] = F(d)
<1>1. DOMAIN conn = 1 .. opened /\ opened \in Nat /\ Len(conn) = opened
  BY ConnectionsTyped DEF FrameInv, Types
<1> QED
  BY <1>1

(* ServerSendKilled closes all connections of the server. *)
LEMMA FrameServerSendKilled ==
  ASSUME FrameInv, NEW c \in DOMAIN conn, ServerSendKilled(c)
  PROVE  FrameInv'
<1> DEFINE F(d) == IF conn[d].server = conn[c].server THEN WorkerClosed(conn[d]) ELSE conn[d]
<1>1. /\ conn' = [d \in DOMAIN conn |-> F(d)] /\ CallerUnchanged
      /\ killed' = [killed EXCEPT ![conn[c].server] = TRUE]
      /\ storage' = storage /\ copies' = copies /\ short' = short
  BY DEF ServerSendKilled
<1>2. \A d \in DOMAIN conn : ServerMove(conn[d], F(d))
  BY ConnectionsTyped, MoveNothing, MoveClose
<1>3. \A d \in DOMAIN conn : F(d) \in Connection
  BY <1>2 DEF ServerMove
<1> HIDE DEF F
<1>4. /\ conn' \in Seq(Connection) /\ Len(conn') = Len(conn)
      /\ \A d \in DOMAIN conn : conn'[d] = F(d)
  BY <1>1, <1>3, AllConnections
<1>5. killed' \in [Servers -> BOOLEAN]
  BY <1>1, ConnectionsTyped
<1> QED
  BY <1>1, <1>2, <1>4, <1>5, ConnectionsTyped, ServerSteps
-----------------------------------------------------------------------------
(* The steps of the caller.                                                *)

(* A connection after its client end was closed. *)
ClosedEnd(x) ==
  [x EXCEPT !.client = "closed", !.down = <<>>, !.timeouts = FALSE, !.answer = RefusedResponse]

(* What closing the end of a client changes. *)
LEMMA ClosedFields ==
  ASSUME NEW x \in Connection, NEW y, y = ClosedEnd(x)
  PROVE  /\ y \in Connection /\ y.client = "closed" /\ y.down = <<>>
         /\ y.answer = RefusedResponse
         /\ y.server = x.server /\ y.worker = x.worker /\ y.up = x.up /\ y.buffer = x.buffer
         /\ y.stage = x.stage /\ y.reply = x.reply /\ y.part = x.part /\ y.reset = x.reset
         /\ y.asked = x.asked
<1>1. <<>> \in Seq(Nat)
  OBVIOUS
<1> QED
  BY <1>1 DEF ClosedEnd, Connection

(* The request side of a connection is a matter of these fields. *)
LEMMA SameRequestSide ==
  ASSUME NEW x, NEW y, RequestSide(x),
         y.worker = x.worker, y.up = x.up, y.buffer = x.buffer, y.stage = x.stage,
         y.reply = x.reply, y.asked = x.asked
  PROVE  RequestSide(y) /\ Sent(y) = Sent(x)
BY DEF RequestSide, Received, Sent

(* One connection changed. *)
LEMMA OneChanged ==
  ASSUME FrameInv, NEW c \in DOMAIN conn, NEW y \in Connection, RequestSide(y),
         conn' = [conn EXCEPT ![c] = y]
  PROVE  /\ conn' \in Seq(Connection) /\ Len(conn') = Len(conn) /\ DOMAIN conn' = DOMAIN conn
         /\ conn'[c] = y /\ \A d \in DOMAIN conn : d # c => conn'[d] = conn[d]
         /\ \A d \in DOMAIN conn : RequestSide(conn'[d])
<1>1. conn \in Seq(Connection) /\ c \in 1 .. Len(conn)
  BY LenProperties DEF FrameInv, Types
<1>2. /\ conn' \in Seq(Connection) /\ Len(conn') = Len(conn)
      /\ \A d \in 1 .. Len(conn) : conn'[d] = IF d = c THEN y ELSE conn[d]
  BY <1>1, ExceptSeq
<1>3. DOMAIN conn = 1 .. Len(conn) /\ DOMAIN conn' = 1 .. Len(conn)
  BY <1>1, <1>2, LenProperties
<1> QED
  BY <1>1, <1>2, <1>3 DEF FrameInv

(* Closing one client end. *)
LEMMA ClosedOne ==
  ASSUME FrameInv, NEW c \in DOMAIN conn
  PROVE  Closed(c) = [conn EXCEPT ![c] = ClosedEnd(conn[c])]
<1>1. conn[c] \in Connection
  BY ConnectionsTyped
<1> QED
  BY <1>1 DEF Closed, ClosedEnd, Connection

(* A call, or what comes between two calls, ends: the invariant holds when *)
(* the client ends that were not kept are closed and the one kept, if any, *)
(* is quiet.                                                               *)
LEMMA EndOfCall ==
  ASSUME FrameInv,
         pc' \in {"idle", "killed"}, active' = 0, request' = Refused, input' = <<>>, output' = <<>>,
         conn' \in Seq(Connection), Len(conn') = Len(conn),
         \A d \in DOMAIN conn : conn'[d] = conn[d] \/ conn'[d] = ClosedEnd(conn[d]),
         socket' \in {0, socket},
         socket' # 0 => Quiet(conn[socket]) /\ conn'[socket] = conn[socket],
         \A d \in DOMAIN conn : d \in {socket, active} =>
           d = socket' \/ conn'[d] = ClosedEnd(conn[d]),
         UNCHANGED <<calls, opened, servers, short>>,
         possible' \in [Keys -> SUBSET Values], unsure' \in [Keys -> SUBSET Values]
  PROVE  FrameInv'
<1>1. /\ DOMAIN conn' = DOMAIN conn /\ DOMAIN conn = 1 .. opened
      /\ \A d \in DOMAIN conn : conn[d] \in Connection /\ RequestSide(conn[d])
  BY ConnectionsTyped, LenProperties
<1>2. Types'
  <2>1. Types /\ storage' = storage /\ copies' = copies /\ killed' = killed
    BY DEF FrameInv, servers
  <2>2. <<>> \in Seq(Nat) /\ 0 \in 0 .. opened
    BY ConnectionsTyped
  <2> QED
    BY <2>1, <2>2 DEF Types
<1>3. \A d \in DOMAIN conn' : RequestSide(conn'[d])
  <2> SUFFICES ASSUME NEW d \in DOMAIN conn PROVE RequestSide(conn'[d])
    BY <1>1
  <2> DEFINE x == conn[d]
             y == conn'[d]
  <2>1. x \in Connection /\ RequestSide(x)
    BY <1>1
  <2>2. CASE y = x
    BY <2>1, <2>2
  <2>3. CASE y = ClosedEnd(x)
    BY <2>1, <2>3, ClosedFields, SameRequestSide
  <2> QED
    BY <2>2, <2>3
<1>4. \A d \in DOMAIN conn : conn'[d] = ClosedEnd(conn[d]) => conn'[d].client = "closed"
  BY <1>1, ClosedFields
<1>5. \A d \in DOMAIN conn : Gone(d) => conn'[d].client = "closed"
  BY <1>4 DEF Gone
<1>6. CallerSide'
  <2>0. CallerSide /\ socket \in 0 .. opened /\ opened \in Nat
    BY ConnectionsTyped DEF FrameInv, Types
  <2>1. (~InCall)' /\ pc' \notin {"send", "header", "payload", "connect"}
    BY DEF InCall
  <2>2. (socket # 0 => ~Gone(socket) /\ (active = socket \/ Quiet(conn[socket])))'
    <3> SUFFICES ASSUME socket' # 0
                 PROVE  conn'[socket'].client # "closed" /\ Quiet(conn'[socket'])
      BY DEF Gone, Quiet
    <3>1. socket' = socket /\ conn'[socket] = conn[socket] /\ Quiet(conn[socket])
      OBVIOUS
    <3>2. ~Gone(socket)
      BY <2>0, <3>1 DEF CallerSide
    <3> QED
      BY <3>1, <3>2 DEF Gone
  <2>3. (\A c \in DOMAIN conn : c \in {socket, active} \/ Gone(c))'
    <3> SUFFICES ASSUME NEW d \in DOMAIN conn
                 PROVE  d = socket' \/ conn'[d].client = "closed"
      BY <1>1 DEF Gone
    <3>1. d \in {socket, active} \/ Gone(d)
      BY <2>0 DEF CallerSide
    <3> QED
      BY <1>4, <1>5, <3>1
  <2> QED
    BY <2>1, <2>2, <2>3 DEF CallerSide
<1>7. \A c \in DOMAIN conn' : RequestSide(conn[c])'
  BY <1>3 DEF RequestSide, Received, Sent
<1> QED
  BY <1>2, <1>6, <1>7 DEF FrameInv

(* disconnect outside a call leaves no connection behind. *)
LEMMA FrameDisconnect ==
  ASSUME FrameInv, disconnect
  PROVE  FrameInv'
<1>1. /\ pc = "idle" /\ socket # 0 /\ socket' = 0 /\ conn' = Closed(socket)
      /\ UNCHANGED <<pc, active, request, output, input, calls, opened, servers, short>>
      /\ possible' = possible /\ unsure' = unsure
  BY DEF disconnect, history
<1>2. /\ active = 0 /\ request = Refused /\ input = <<>> /\ output = <<>>
      /\ socket \in DOMAIN conn /\ DOMAIN conn = 1 .. opened
  BY <1>1, ConnectionsTyped DEF FrameInv, CallerSide, InCall, Types
<1> DEFINE y == ClosedEnd(conn[socket])
<1>3. conn' = [conn EXCEPT ![socket] = y] /\ conn[socket] \in Connection /\ RequestSide(conn[socket])
  BY <1>1, <1>2, ClosedOne, ConnectionsTyped
<1>4. y \in Connection /\ RequestSide(y)
  BY <1>3, ClosedFields, SameRequestSide
<1> HIDE DEF y
<1>5. /\ conn' \in Seq(Connection) /\ Len(conn') = Len(conn)
      /\ conn'[socket] = y /\ \A d \in DOMAIN conn : d # socket => conn'[d] = conn[d]
  BY <1>2, <1>3, <1>4, OneChanged
<1>6. possible \in [Keys -> SUBSET Values] /\ unsure \in [Keys -> SUBSET Values]
  BY DEF FrameInv, Types
<1>7. \A d \in DOMAIN conn : conn'[d] = conn[d] \/ conn'[d] = ClosedEnd(conn[d])
  BY <1>5 DEF y
<1>8. \A d \in DOMAIN conn : d \in {socket, active} => conn'[d] = ClosedEnd(conn[d])
  BY <1>2, <1>5 DEF y
<1> QED
  BY <1>1, <1>2, <1>5, <1>6, <1>7, <1>8, EndOfCall

(* The histories after a call without answer. *)
LEMMA NoteFailureTyped ==
  ASSUME FrameInv, request \in Requests, NoteFailure
  PROVE  possible' \in [Keys -> SUBSET Values] /\ unsure' \in [Keys -> SUBSET Values]
<1>1. possible \in [Keys -> SUBSET Values] /\ unsure \in [Keys -> SUBSET Values]
  BY DEF FrameInv, Types
<1>2. /\ request.opcode \in {PUT, DELETE} => request.key \in Keys /\ request.value \in Values
      /\ NoValue \in Values
  BY RequestsFit DEF PING, PUT, DELETE, Values
<1> QED
  BY <1>1, <1>2 DEF NoteFailure

(* A call that fails closes its connection, whatever was under way. *)
LEMMA FrameFail ==
  ASSUME FrameInv, InCall, Fail, UNCHANGED <<calls, opened, servers, short>>
  PROVE  FrameInv'
<1>1. /\ active \in DOMAIN conn /\ request \in Requests /\ active # 0
      /\ socket # 0 => active = socket \/ Quiet(conn[socket])
      /\ socket # 0 => socket \in DOMAIN conn
  BY ConnectionsTyped DEF FrameInv, CallerSide, Types
<1>2. /\ pc' = "idle" /\ active' = 0 /\ request' = Refused /\ input' = <<>> /\ output' = <<>>
      /\ socket' = IF active = socket THEN 0 ELSE socket
      /\ conn' = Closed(active) /\ NoteFailure
  BY DEF Fail, Goto
<1> DEFINE y == ClosedEnd(conn[active])
<1>3. conn' = [conn EXCEPT ![active] = y] /\ conn[active] \in Connection /\ RequestSide(conn[active])
  BY <1>1, <1>2, ClosedOne, ConnectionsTyped
<1>4. y \in Connection /\ RequestSide(y)
  BY <1>3, ClosedFields, SameRequestSide
<1> HIDE DEF y
<1>5. /\ conn' \in Seq(Connection) /\ Len(conn') = Len(conn)
      /\ conn'[active] = y /\ \A d \in DOMAIN conn : d # active => conn'[d] = conn[d]
  BY <1>1, <1>3, <1>4, OneChanged
<1>6. possible' \in [Keys -> SUBSET Values] /\ unsure' \in [Keys -> SUBSET Values]
  BY <1>1, <1>2, NoteFailureTyped
<1>7. \A d \in DOMAIN conn : conn'[d] = conn[d] \/ conn'[d] = ClosedEnd(conn[d])
  BY <1>5 DEF y
<1>8. \A d \in DOMAIN conn : d \in {socket, active} =>
        d = socket' \/ conn'[d] = ClosedEnd(conn[d])
  BY <1>2, <1>5 DEF y
<1>9. socket' # 0 => Quiet(conn[socket]) /\ conn'[socket] = conn[socket]
  BY <1>1, <1>2, <1>5
<1> QED
  BY <1>2, <1>5, <1>6, <1>7, <1>8, <1>9, EndOfCall

(* The end of the client ends its call. *)
LEMMA FrameClientSendKilled ==
  ASSUME FrameInv, ClientSendKilled
  PROVE  FrameInv'
<1>1. /\ pc' = "killed" /\ active' = 0 /\ request' = Refused /\ input' = <<>> /\ output' = <<>>
      /\ socket' = 0 /\ conn' = [c \in DOMAIN conn |-> Closed(c)[c]] /\ NoteFailure
      /\ UNCHANGED <<calls, opened, servers, short>> /\ pc = "send"
  BY DEF ClientSendKilled, Killed, Goto
<1>2. request \in Requests
  BY <1>1 DEF FrameInv, CallerSide, InCall
<1>3. \A c \in DOMAIN conn : Closed(c)[c] = ClosedEnd(conn[c]) /\ Closed(c)[c] \in Connection
  <2> SUFFICES ASSUME NEW c \in DOMAIN conn
               PROVE  Closed(c)[c] = ClosedEnd(conn[c]) /\ ClosedEnd(conn[c]) \in Connection
    OBVIOUS
  <2> QED
    BY ClosedOne, ClosedFields, ConnectionsTyped
<1> DEFINE F(c) == Closed(c)[c]
<1>4. conn' = [c \in DOMAIN conn |-> F(c)] /\ \A c \in DOMAIN conn : F(c) \in Connection
  BY <1>1, <1>3
<1> HIDE DEF F
<1>5. conn' \in Seq(Connection) /\ Len(conn') = Len(conn) /\ \A d \in DOMAIN conn : conn'[d] = F(d)
  BY <1>4, AllConnections
<1>6. \A d \in DOMAIN conn : conn'[d] = ClosedEnd(conn[d])
  BY <1>3, <1>5 DEF F
<1>7. possible' \in [Keys -> SUBSET Values] /\ unsure' \in [Keys -> SUBSET Values]
  BY <1>1, <1>2, NoteFailureTyped
<1> QED
  BY <1>1, <1>5, <1>6, <1>7, EndOfCall

(* A call that is timed out fails. *)
LEMMA FrameTimeOut ==
  ASSUME FrameInv, TimeOut
  PROVE  FrameInv'
<1>1. InCall /\ Fail /\ UNCHANGED <<calls, opened, servers, short>>
  BY DEF TimeOut, InCall
<1> QED
  BY <1>1, FrameFail

(* So does one whose server has closed. *)
LEMMA FrameConnectionLost ==
  ASSUME FrameInv, ConnectionLost
  PROVE  FrameInv'
<1>1. InCall /\ Fail /\ UNCHANGED <<calls, opened, servers, short>>
  BY DEF ConnectionLost, InCall
<1> QED
  BY <1>1, FrameFail

(* A connection just made, or one that was quiet, with a request to come. *)
LEMMA FreshRequestSide ==
  ASSUME NEW x \in Connection, x.asked \in Requests, x.buffer = <<>>, x.up = <<>>,
         x.reply = <<>>, x.stage = "header"
  PROVE  RequestSide(x) /\ Sent(x) = 0 /\ Slice(<<>>, encodeRequest(x.asked), 1, 0)
<1> DEFINE e == encodeRequest(x.asked)
<1>1. e \in Seq(Nat) /\ Len(e) \in Nat /\ x.asked # Refused
  BY RequestBytes, RequestsFit
<1> HIDE DEF e
<1>2. Slice(<<>>, e, 1, 0)
  <2>1. SubSeq(e, 1, 0) = <<>>
    BY SubSeqEmpty
  <2> QED
    BY <1>1, <2>1 DEF Slice
<1>3. Received(x) = 0 /\ Sent(x) = 0
  BY DEF Received, Sent
<1>4. StageAt(x.asked, 0) = "header"
  <2>1. 0 < HeaderSize
    BY WireAssumption DEF HeaderSize
  <2> QED
    BY <2>1 DEF StageAt
<1>5. Slice(x.buffer, e, 1, Received(x)) /\ Slice(x.up, e, Received(x) + 1, Sent(x))
  BY <1>2, <1>3
<1> QED
  BY <1>1, <1>2, <1>3, <1>4, <1>5 DEF RequestSide, e

(* A new connection is empty and the others stay as they were. *)
LEMMA NewFields ==
  ASSUME FrameInv, NEW s \in Servers, NEW req \in Requests \cup {Refused}, OpenConnection(s, req)
  PROVE  /\ opened' = opened + 1 /\ opened' \in 0 .. MaxConnections /\ opened \in Nat
         /\ ~killed[s]
         /\ conn' \in Seq(Connection) /\ Len(conn') = opened'
         /\ DOMAIN conn' = 1 .. opened' /\ DOMAIN conn = 1 .. opened
         /\ \A d \in DOMAIN conn : conn'[d] = conn[d]
         /\ LET y == conn'[opened']
            IN  /\ RequestSide(y) /\ Sent(y) = 0
                /\ y.server = s /\ y.client = "open" /\ y.worker = "open" /\ y.up = <<>>
                /\ y.down = <<>> /\ y.buffer = <<>> /\ y.stage = "header" /\ y.reply = <<>>
                /\ y.part = FALSE /\ y.reset = FALSE /\ y.asked = req /\ y.answer = RefusedResponse
<1>1. /\ conn \in Seq(Connection) /\ Len(conn) = opened /\ opened \in Nat
      /\ opened < MaxConnections /\ opened' = opened + 1 /\ ~killed[s] /\ MaxConnections \in Nat
  BY ConnectionsTyped, WireAssumption DEF FrameInv, Types, OpenConnection
<1>2. PICK t \in BOOLEAN : conn' = Append(conn, NewConnection(s, t, req))
  BY DEF OpenConnection
<1> DEFINE y == NewConnection(s, t, req)
<1>3. /\ y \in Connection
      /\ y.server = s /\ y.client = "open" /\ y.worker = "open" /\ y.up = <<>>
      /\ y.down = <<>> /\ y.buffer = <<>> /\ y.stage = "header" /\ y.reply = <<>>
      /\ y.part = FALSE /\ y.reset = FALSE /\ y.asked = req /\ y.answer = RefusedResponse
  <2>1. <<>> \in Seq(Nat) /\ "header" \in Stages
    BY DEF Stages
  <2> QED
    BY <2>1 DEF NewConnection, Connection
<1> HIDE DEF y
<1>4. RequestSide(y) /\ Sent(y) = 0
  <2>1. CASE req \in Requests
    BY <1>3, <2>1, FreshRequestSide
  <2>2. CASE req = Refused
    BY <1>3, <2>2 DEF RequestSide, Sent
  <2> QED
    BY <2>1, <2>2
<1>5. /\ conn' \in Seq(Connection) /\ Len(conn') = opened + 1
      /\ \A d \in 1 .. opened : conn'[d] = conn[d]
      /\ conn'[opened + 1] = y
  BY <1>1, <1>2, <1>3, AppendProperties DEF y
<1>6. DOMAIN conn = 1 .. opened /\ DOMAIN conn' = 1 .. (opened + 1)
  BY <1>1, <1>5, LenProperties
<1>7. opened' \in 0 .. MaxConnections
  BY <1>1
<1>8. conn'[opened'] = y
  BY <1>1, <1>5
<1> QED
  BY <1>1, <1>3, <1>4, <1>5, <1>6, <1>7, <1>8

(* connect opens a quiet connection. *)
LEMMA FrameConnect ==
  ASSUME FrameInv, connect
  PROVE  FrameInv'
<1> DEFINE y == conn'[opened']
<1>1. /\ pc = "idle" /\ socket = 0 /\ OpenConnection("own", Refused) /\ socket' = opened'
      /\ UNCHANGED <<pc, active, request, output, input, calls, servers, short, history>>
  BY DEF connect
<1>2. /\ opened' = opened + 1 /\ opened' \in 0 .. MaxConnections /\ opened \in Nat
      /\ conn' \in Seq(Connection) /\ Len(conn') = opened'
      /\ DOMAIN conn' = 1 .. opened' /\ DOMAIN conn = 1 .. opened
      /\ \A d \in DOMAIN conn : conn'[d] = conn[d]
      /\ RequestSide(y)
      /\ y.client = "open" /\ y.down = <<>> /\ y.stage = "header" /\ y.reply = <<>>
      /\ y.asked = Refused
  BY <1>1, NewFields DEF Servers
<1>3. /\ Types /\ CallerSide /\ active = 0 /\ \A d \in DOMAIN conn : RequestSide(conn[d])
  BY <1>1 DEF FrameInv, CallerSide, InCall
<1>4. Types'
  <2>1. socket' \in 0 .. opened' /\ active' \in 0 .. opened'
    BY <1>1, <1>2, <1>3
  <2> QED
    BY <1>1, <1>2, <1>3, <2>1 DEF Types, servers, history
<1>5. \A d \in DOMAIN conn' : RequestSide(conn'[d])
  <2>1. \A d \in DOMAIN conn' : d \in DOMAIN conn \/ d = opened'
    BY <1>2
  <2> QED
    BY <1>2, <1>3, <2>1
<1>6. CallerSide'
  <2>1. (\A c \in DOMAIN conn : c \in {socket, active} \/ Gone(c))'
    <3> SUFFICES ASSUME NEW d \in DOMAIN conn', d # opened'
                 PROVE  conn'[d].client = "closed"
      BY <1>1 DEF Gone
    <3>1. d \in DOMAIN conn /\ d # 0
      BY <1>2
    <3> QED
      BY <1>1, <1>2, <1>3, <3>1 DEF CallerSide, Gone
  <2>2. (socket # 0 => ~Gone(socket) /\ (active = socket \/ Quiet(conn[socket])))'
    BY <1>1, <1>2 DEF Gone, Quiet
  <2> QED
    BY <1>1, <1>3, <2>1, <2>2 DEF CallerSide, InCall
<1>7. \A c \in DOMAIN conn' : RequestSide(conn[c])'
  BY <1>5 DEF RequestSide, Received, Sent
<1> QED
  BY <1>4, <1>6, <1>7 DEF FrameInv

(* The call Begin makes. *)
LEMMA BeginRequest ==
  ASSUME FrameInv, NEW op \in {GET, PUT, DELETE, PING}, NEW key, Begin(op, key),
         IF op = PING THEN key = <<>> ELSE key \in Keys
  PROVE  /\ request' \in Requests /\ calls' \in 0 .. MaxCalls
         /\ request'.opcode = op /\ request'.key = key
<1>1. /\ calls < MaxCalls /\ calls' = calls + 1 /\ calls \in 0 .. MaxCalls /\ MaxCalls \in Nat
      /\ request' = Request(op, key, IF op = PUT THEN <<0, calls'>> ELSE <<>>)
  BY WireAssumption DEF Begin, FrameInv, Types
<1>2. calls' \in 1 .. MaxCalls /\ calls' \in 0 .. MaxCalls
  BY <1>1
<1>3. <<0, calls'>> \in Values /\ <<>> \in Values
  BY <1>2 DEF Values, NoValue
<1>4. CASE op = PING
  BY <1>1, <1>2, <1>4 DEF Requests, Request, PING, PUT
<1>5. CASE op # PING
  BY <1>1, <1>2, <1>3, <1>5 DEF Requests, Request
<1> QED
  BY <1>4, <1>5

(* A call begins with its whole request to send. *)
LEMMA FrameBegin ==
  ASSUME FrameInv, NEW op \in {GET, PUT, DELETE, PING}, NEW key, Begin(op, key),
         IF op = PING THEN key = <<>> ELSE key \in Keys
  PROVE  /\ FrameInv'
         /\ conn' = [conn EXCEPT ![socket] = [conn[socket] EXCEPT
                       !.asked = request', !.answer = RefusedResponse]]
         /\ socket \in DOMAIN conn
<1> DEFINE x == conn[socket]
           y == [x EXCEPT !.asked = request', !.answer = RefusedResponse]
           e == encodeRequest(request')
<1>1. /\ pc = "idle" /\ socket # 0 /\ pc' = "send" /\ active' = socket
      /\ output' = e /\ input' = <<>> /\ socket' = socket /\ opened' = opened
      /\ conn' = [conn EXCEPT ![socket].asked = request', ![socket].answer = RefusedResponse]
      /\ storage' = storage /\ copies' = copies /\ killed' = killed /\ short' = short
      /\ possible' = possible /\ unsure' = unsure
  BY DEF Begin, servers, history
<1>2. Types /\ CallerSide /\ active = 0 /\ socket \in DOMAIN conn /\ Quiet(x) /\ ~Gone(socket)
  BY <1>1, ConnectionsTyped DEF FrameInv, CallerSide, InCall, Types
<1>3. request' \in Requests /\ calls' \in 0 .. MaxCalls
  BY BeginRequest
<1>4. x \in Connection /\ RequestSide(x)
  BY <1>2, ConnectionsTyped
<1>5. /\ y \in Connection /\ y.asked = request' /\ y.client = x.client /\ y.worker = x.worker
      /\ y.up = <<>> /\ y.buffer = <<>> /\ y.stage = "header" /\ y.reply = <<>>
  <2>1. x.up = <<>> /\ x.buffer = <<>> /\ x.stage = "header" /\ x.reply = <<>>
    BY <1>2, <1>4 DEF Quiet, RequestSide
  <2> QED
    BY <1>3, <1>4, <2>1 DEF Connection
<1>6. conn' = [conn EXCEPT ![socket] = y]
  BY <1>1, <1>2, <1>4 DEF Connection
<1> HIDE DEF y
<1>7. RequestSide(y) /\ Sent(y) = 0
  BY <1>3, <1>5, FreshRequestSide
<1>8. /\ conn' \in Seq(Connection) /\ Len(conn') = Len(conn) /\ DOMAIN conn' = DOMAIN conn
      /\ conn'[socket] = y /\ \A d \in DOMAIN conn : d # socket => conn'[d] = conn[d]
      /\ \A d \in DOMAIN conn : RequestSide(conn'[d])
  BY <1>2, <1>5, <1>6, <1>7, OneChanged
<1>9. e \in Seq(Nat) /\ e # <<>> /\ Slice(e, e, 1, Len(e))
  BY <1>3, RequestBytes
<1> HIDE DEF e
<1>10. Types'
  <2>1. <<>> \in Seq(Nat)
    OBVIOUS
  <2> QED
    BY <1>1, <1>2, <1>3, <1>8, <1>9, <2>1 DEF Types
<1>11. CallerSide'
  <2>1. (pc = "send" /\ Open(active) =>
           /\ conn[active].asked = request
           /\ Slice(output, encodeRequest(request),
                    Sent(conn[active]) + 1, Len(encodeRequest(request))))'
    <3>1. Slice(output', e, 0 + 1, Len(e))
      BY <1>1, <1>9
    <3>2. Sent(conn[active])' = 0 /\ conn'[active'].asked = request'
      <4>1. conn'[active'] = y
        BY <1>1, <1>8
      <4>2. Sent(conn[active])' = Sent(y)
        BY <4>1 DEF Sent
      <4> QED
        BY <1>5, <1>7, <4>1, <4>2
    <3> QED
      BY <3>1, <3>2 DEF Slice, e
  <2>2. (\A c \in DOMAIN conn : c \in {socket, active} \/ Gone(c))'
    <3> SUFFICES ASSUME NEW d \in DOMAIN conn, d # socket
                 PROVE  conn'[d].client = "closed"
      BY <1>1, <1>8 DEF Gone
    <3>1. d # 0
      BY ConnectionsTyped
    <3> QED
      BY <1>2, <1>8, <3>1 DEF CallerSide, Gone
  <2>3. ~Gone(active)' /\ ~Gone(socket)'
    BY <1>1, <1>2, <1>5, <1>8 DEF Gone
  <2> QED
    BY <1>1, <1>2, <1>3, <1>8, <1>9, <2>1, <2>2, <2>3 DEF CallerSide, InCall
<1>12. \A c \in DOMAIN conn' : RequestSide(conn[c])'
  BY <1>8 DEF RequestSide, Received, Sent
<1> QED
  BY <1>2, <1>6, <1>10, <1>11, <1>12 DEF FrameInv, y

(* What receive_data waits for, in terms of the answer. *)
LEMMA AnswerBytes ==
  ASSUME FrameInv, AnswerSide, pc \in {"header", "payload"}
  PROVE  /\ ClientExpects \in Int /\ Len(input) \in Nat
         /\ pc = "header" => ClientExpects = HeaderSize - Len(input)
         /\ pc = "payload" =>
              /\ Answered /\ conn[active].answer \in Responses
              /\ ClientExpects = Len(encodeResponse(conn[active].answer)) - Len(input)
<1> DEFINE r == conn[active].answer
           e == encodeResponse(r)
           m == Len(input)
<1>1. m \in Nat /\ HeaderSize \in Nat /\ InCall
  BY LenProperties, WireAssumption DEF FrameInv, Types, HeaderSize, InCall
<1>2. CASE pc = "header"
  <2>1. ClientExpects = HeaderSize - m
    BY <1>2 DEF ClientExpects
  <2> HIDE DEF m
  <2>2. HeaderSize - m \in Int
    BY <1>1
  <2> QED
    BY <1>1, <1>2, <2>1, <2>2 DEF m
<1>3. CASE pc = "payload"
  <2>1. Answered /\ Slice(input, e, 1, m) /\ m >= HeaderSize
    BY <1>1, <1>3 DEF AnswerSide, AnswerOf, Answered
  <2>2. r \in Responses
    <3>1. conn[active] \in Connection
      BY <1>1, ConnectionsTyped DEF FrameInv, CallerSide
    <3> QED
      BY <2>1, <3>1 DEF Connection, Answered
  <2>3. /\ Len(r.value) \in Nat /\ Len(e) = HeaderSize + Len(r.value)
        /\ r.status \in Nat /\ Fits(r.value)
    BY <2>2, ResponseBytes, ResponsesFit
  <2>4. readUint32(input, 1) = Len(r.value)
    BY <1>1, <2>1, <2>3, ResponsePrefix
  <2>5. ClientExpects = HeaderSize + Len(r.value) - m
    BY <1>3, <2>4 DEF ClientExpects
  <2> HIDE DEF m
  <2>6. HeaderSize + Len(r.value) - m \in Int
    <3> DEFINE l == Len(r.value)
    <3>1. l \in Nat
      BY <2>3
    <3> HIDE DEF l
    <3>2. HeaderSize + l - m \in Int
      BY <1>1, <3>1
    <3> QED
      BY <3>2 DEF l
  <2> QED
    BY <1>1, <1>3, <2>1, <2>2, <2>3, <2>5, <2>6 DEF m
<1> QED
  BY <1>2, <1>3

(* An answer that has come as a whole: it is the answer, and the           *)
(* connection is quiet.                                                    *)
LEMMA WholeAnswer ==
  ASSUME FrameInv, AnswerSide, InCall, Answered,
         Len(input) = Len(encodeResponse(conn[active].answer))
  PROVE  /\ conn[active].answer \in Responses
         /\ decodeResponse(input) = conn[active].answer
         /\ Quiet(conn[active])
<1> DEFINE x == conn[active]
           r == x.answer
           e == encodeResponse(r)
           n == Len(e)
<1>1. x \in Connection /\ RequestSide(x)
  BY ConnectionsTyped DEF FrameInv, CallerSide
<1>2. r \in Responses
  BY <1>1 DEF Connection, Answered
<1>3. e \in Seq(Nat) /\ n \in Nat /\ decodeResponse(e) = r /\ Slice(e, e, 1, n)
  BY <1>2, ResponseBytes
<1>4. /\ x.asked = Refused /\ Slice(input, e, 1, n) /\ Slice(x.down, e, n + 1, n + Len(x.down))
      /\ x.stage = "reply" => Slice(x.reply, e, n + Len(x.down) + 1, n)
  BY DEF AnswerSide, AnswerOf, Answered
<1>5. input = e
  BY <1>3, <1>4 DEF Slice
<1>6. x.down \in Seq(Nat) /\ Len(x.down) \in Nat /\ x.reply \in Seq(Nat)
  BY <1>1, LenProperties DEF Connection
<1> DEFINE l == Len(x.down)
<1> HIDE DEF n, l, e
<1>7. n + l <= n
  BY <1>4 DEF Slice, l, n
<1>8. l = 0
  BY <1>3, <1>6, <1>7 DEF l
<1>9. x.down = <<>>
  BY <1>6, <1>8, EmptySeq DEF l
<1>10. x.stage # "reply"
  <2> SUFFICES ASSUME x.stage = "reply" PROVE FALSE
    OBVIOUS
  <2>1. x.reply = SubSeq(e, n + l + 1, n)
    BY <1>4 DEF Slice, l
  <2>2. n + l + 1 \in Int /\ n \in Int /\ n < n + l + 1
    BY <1>3, <1>8
  <2>3. x.reply = <<>>
    BY <2>1, <2>2, SubSeqEmpty
  <2> QED
    BY <1>1, <2>3 DEF RequestSide
<1>11. x.stage = "header" /\ x.reply = <<>>
  BY <1>1, <1>4, <1>10 DEF RequestSide
<1> QED
  BY <1>2, <1>3, <1>4, <1>5, <1>9, <1>11 DEF Quiet, e

(* Return, where the whole answer is there. *)
LEMMA ReturnAnswer ==
  ASSUME FrameInv, AnswerSide, pc = "payload", ClientExpects = 0
  PROVE  /\ InCall /\ Answered /\ conn[active].answer \in Responses
         /\ Len(input) = Len(encodeResponse(conn[active].answer))
         /\ decodeResponse(input) = conn[active].answer /\ Quiet(conn[active])
         /\ decodeResponse(input) # RefusedResponse
<1>1. InCall
  BY DEF InCall
<1>2. /\ Answered /\ conn[active].answer \in Responses /\ Len(input) \in Nat
      /\ 0 = Len(encodeResponse(conn[active].answer)) - Len(input)
  BY AnswerBytes
<1> DEFINE n == Len(encodeResponse(conn[active].answer))
           m == Len(input)
<1>3. n \in Nat
  BY <1>2, ResponseBytes
<1> HIDE DEF n, m
<1>4. m = n
  <2>1. 0 = n - m /\ m \in Nat
    BY <1>2 DEF n, m
  <2> QED
    BY <1>3, <2>1
<1>5. Len(input) = Len(encodeResponse(conn[active].answer))
  BY <1>4 DEF n, m
<1>6. decodeResponse(input) = conn[active].answer /\ Quiet(conn[active])
  BY <1>1, <1>2, <1>5, WholeAnswer
<1> QED
  BY <1>1, <1>2, <1>5, <1>6, ResponsesFit

(* A return leaves its connection quiet, or closed, or has a redirect. *)
LEMMA FrameReturn ==
  ASSUME FrameInv, AnswerSide, Return
  PROVE  FrameInv'
<1> DEFINE r == decodeResponse(input)
<1>1. pc = "payload" /\ ClientExpects = 0 /\ UNCHANGED <<calls, opened, servers, short>>
  BY DEF Return
<1>2. InCall /\ Quiet(conn[active]) /\ r # RefusedResponse /\ r = conn[active].answer
  BY <1>1, ReturnAnswer
<1>3. /\ active \in DOMAIN conn /\ active # 0 /\ request \in Requests
      /\ socket # 0 => socket \in DOMAIN conn /\ (active = socket \/ Quiet(conn[socket]))
  BY <1>2, ConnectionsTyped DEF FrameInv, CallerSide, Types
<1>4. CASE r.status = REDIRECT /\ active = socket
  <2>1. /\ pc' = "connect"
        /\ UNCHANGED <<socket, conn, active, request, input, output, history>>
    BY <1>2, <1>4 DEF Return
  <2>2. Types'
    BY <1>1, <2>1 DEF FrameInv, Types, servers, history
  <2>3. CallerSide'
    <3>1. CallerSide
      BY DEF FrameInv
    <3>2. \A c : (Gone(c)' <=> Gone(c)) /\ (Open(c)' <=> Open(c))
      BY <2>1 DEF Gone, Open
    <3>3. Quiet(conn[socket])' <=> Quiet(conn[socket])
      BY <2>1 DEF Quiet
    <3> QED
      BY <1>1, <1>4, <2>1, <3>1, <3>2, <3>3 DEF CallerSide, InCall
  <2>4. \A c \in DOMAIN conn' : RequestSide(conn[c])'
    BY <2>1 DEF FrameInv, RequestSide, Received, Sent
  <2> QED
    BY <2>2, <2>3, <2>4 DEF FrameInv
<1>5. CASE ~(r.status = REDIRECT /\ active = socket)
  <2>1. /\ Goto("idle") /\ conn' = (IF active = socket THEN conn ELSE Closed(active))
        /\ socket' = socket /\ Note(r)
    BY <1>2, <1>5 DEF Return
  <2>2. pc' = "idle" /\ active' = 0 /\ request' = Refused /\ input' = <<>> /\ output' = <<>>
    BY <2>1 DEF Goto
  <2>3. possible' \in [Keys -> SUBSET Values] /\ unsure' \in [Keys -> SUBSET Values]
    <3>1. possible \in [Keys -> SUBSET Values] /\ unsure \in [Keys -> SUBSET Values]
      BY DEF FrameInv, Types
    <3>2. /\ request.opcode \in {PUT, DELETE} => request.key \in Keys /\ request.value \in Values
          /\ NoValue \in Values
      BY <1>3, RequestsFit DEF PING, PUT, DELETE, Values
    <3> QED
      BY <2>1, <3>1, <3>2 DEF Note
  <2>4. CASE active = socket
    <3>1. conn' = conn /\ conn \in Seq(Connection)
      BY <2>1, <2>4, ConnectionsTyped
    <3>2. \A d \in DOMAIN conn : d \in {socket, active} => d = socket'
      BY <2>1, <2>4
    <3> QED
      BY <1>1, <1>2, <2>1, <2>2, <2>3, <2>4, <3>1, <3>2, EndOfCall
  <2>5. CASE active # socket
    <3> DEFINE y == ClosedEnd(conn[active])
    <3>1. conn' = [conn EXCEPT ![active] = y] /\ conn[active] \in Connection /\ RequestSide(conn[active])
      BY <1>3, <2>1, <2>5, ClosedOne, ConnectionsTyped
    <3>2. y \in Connection /\ RequestSide(y)
      BY <3>1, ClosedFields, SameRequestSide
    <3> HIDE DEF y
    <3>3. /\ conn' \in Seq(Connection) /\ Len(conn') = Len(conn)
          /\ conn'[active] = y /\ \A d \in DOMAIN conn : d # active => conn'[d] = conn[d]
      BY <1>3, <3>1, <3>2, OneChanged
    <3>4. \A d \in DOMAIN conn : conn'[d] = conn[d] \/ conn'[d] = ClosedEnd(conn[d])
      BY <3>3 DEF y
    <3>5. \A d \in DOMAIN conn : d \in {socket, active} =>
            d = socket' \/ conn'[d] = ClosedEnd(conn[d])
      BY <2>1, <3>3 DEF y
    <3>6. socket' # 0 => Quiet(conn[socket]) /\ conn'[socket] = conn[socket]
      BY <1>3, <2>1, <2>5, <3>3
    <3> QED
      BY <1>1, <2>1, <2>2, <2>3, <3>3, <3>4, <3>5, <3>6, EndOfCall
  <2> QED
    BY <2>4, <2>5
<1> QED
  BY <1>4, <1>5

(* Redirect's two outcomes. *)
LEMMA RedirectQuiet ==
  ASSUME FrameInv, AnswerSide, pc = "connect"
  PROVE  /\ InCall /\ active = socket /\ socket \in DOMAIN conn /\ request \in Requests
         /\ Answered /\ Quiet(conn[socket]) /\ ~Gone(socket)
         /\ conn[active].answer.status = REDIRECT
<1>1. InCall
  BY DEF InCall
<1>2. active = socket /\ active \in DOMAIN conn /\ request \in Requests /\ ~Gone(active)
  BY <1>1 DEF FrameInv, CallerSide
<1>3. /\ Answered /\ Len(input) = Len(encodeResponse(conn[active].answer))
      /\ conn[active].answer.status = REDIRECT
  BY <1>1 DEF AnswerSide, AnswerOf, Answered
<1> QED
  BY <1>1, <1>2, <1>3, WholeAnswer

(* The second call starts on a connection of its own. *)
LEMMA FrameRedirect ==
  ASSUME FrameInv, AnswerSide, Redirect
  PROVE  FrameInv'
<1>1. pc = "connect" /\ UNCHANGED <<socket, calls, servers, short>>
  BY DEF Redirect
<1>2. /\ InCall /\ active = socket /\ socket \in DOMAIN conn /\ request \in Requests
      /\ Quiet(conn[socket]) /\ ~Gone(socket)
  BY <1>1, RedirectQuiet
<1>3. CASE /\ OpenConnection("other", request)
           /\ pc' = "send" /\ active' = opened'
           /\ output' = encodeRequest(request) /\ input' = <<>>
           /\ UNCHANGED <<request, history>>
  <2> DEFINE y == conn'[opened']
             e == encodeRequest(request)
  <2>1. /\ opened' = opened + 1 /\ opened' \in 0 .. MaxConnections /\ opened \in Nat
        /\ conn' \in Seq(Connection) /\ Len(conn') = opened'
        /\ DOMAIN conn' = 1 .. opened' /\ DOMAIN conn = 1 .. opened
        /\ \A d \in DOMAIN conn : conn'[d] = conn[d]
        /\ RequestSide(y) /\ Sent(y) = 0
        /\ y.client = "open" /\ y.worker = "open" /\ y.asked = request
    BY <1>2, <1>3, NewFields DEF Servers
  <2>2. Types /\ CallerSide /\ \A d \in DOMAIN conn : RequestSide(conn[d])
    BY DEF FrameInv
  <2>3. e \in Seq(Nat) /\ e # <<>> /\ Slice(e, e, 1, Len(e))
    BY <1>2, RequestBytes
  <2> HIDE DEF e
  <2>4. socket' \in 0 .. opened' /\ active' \in 0 .. opened' /\ socket # opened' /\ socket # 0
    BY <1>1, <1>2, <1>3, <2>1
  <2>5. Types'
    <3>1. <<>> \in Seq(Nat) /\ output' \in Seq(Nat)
      BY <1>3, <2>3 DEF e
    <3> QED
      BY <1>1, <1>2, <1>3, <2>1, <2>2, <2>4, <3>1 DEF Types, servers, history
  <2>6. \A d \in DOMAIN conn' : RequestSide(conn'[d])
    <3>1. \A d \in DOMAIN conn' : d \in DOMAIN conn \/ d = opened'
      BY <2>1
    <3> QED
      BY <2>1, <2>2, <3>1
  <2>7. CallerSide'
    <3>1. (\A c \in DOMAIN conn : c \in {socket, active} \/ Gone(c))'
      <4> SUFFICES ASSUME NEW d \in DOMAIN conn', d # opened', d # socket
                   PROVE  conn'[d].client = "closed"
        BY <1>1, <1>3 DEF Gone
      <4>1. d \in DOMAIN conn
        BY <2>1
      <4> QED
        BY <1>2, <2>1, <2>2, <4>1 DEF CallerSide, Gone
    <3>2. (socket # 0 => ~Gone(socket) /\ (active = socket \/ Quiet(conn[socket])))'
      BY <1>1, <1>2, <2>1 DEF Gone, Quiet
    <3>3. (pc = "send" /\ Open(active) =>
             /\ conn[active].asked = request
             /\ Slice(output, encodeRequest(request),
                      Sent(conn[active]) + 1, Len(encodeRequest(request))))'
      <4>1. Slice(output', e, 0 + 1, Len(e))
        BY <1>3, <2>3 DEF e
      <4>2. Sent(conn[active])' = 0 /\ conn'[active'].asked = request'
        <5>1. Sent(conn[active])' = Sent(y)
          BY <1>3 DEF Sent
        <5> QED
          BY <1>3, <2>1, <5>1
      <4> QED
        BY <1>3, <4>1, <4>2 DEF Slice, e
    <3>4. active' \in DOMAIN conn' /\ ~Gone(active)'
      BY <1>3, <2>1 DEF Gone
    <3>5. output' # <<>>
      BY <1>3, <2>3 DEF e
    <3> QED
      BY <1>2, <1>3, <3>1, <3>2, <3>3, <3>4, <3>5 DEF CallerSide, InCall
  <2>8. \A c \in DOMAIN conn' : RequestSide(conn[c])'
    BY <2>6 DEF RequestSide, Received, Sent
  <2> QED
    BY <2>5, <2>7, <2>8 DEF FrameInv
<1>4. CASE Goto("idle") /\ UNCHANGED <<opened, conn, history>>
  <2>1. pc' = "idle" /\ active' = 0 /\ request' = Refused /\ input' = <<>> /\ output' = <<>>
    BY <1>4 DEF Goto
  <2>2. possible' \in [Keys -> SUBSET Values] /\ unsure' \in [Keys -> SUBSET Values]
    BY <1>4 DEF FrameInv, Types, history
  <2>3. conn \in Seq(Connection)
    BY ConnectionsTyped
  <2>4. UNCHANGED <<calls, opened, servers, short>> /\ conn' = conn
    BY <1>1, <1>4
  <2> QED
    BY <1>1, <1>2, <2>1, <2>2, <2>3, <2>4, EndOfCall
<1> QED
  BY <1>3, <1>4 DEF Redirect

(* Steps that leave the caller in its call. *)
LEMMA StillInCall ==
  ASSUME FrameInv, InCall, InCall', NEW y \in Connection, RequestSide(y), y.client = "open",
         conn' = [conn EXCEPT ![active] = y],
         UNCHANGED <<socket, active, request, calls, opened, servers, possible, unsure>>,
         pc' # "connect", short' \in 0 .. MaxShort,
         input' \in Seq(Nat), output' \in Seq(Nat),
         IF pc' = "send" THEN output' # <<>> ELSE output' = <<>>,
         (pc' = "send" /\ y.worker = "open") =>
            /\ y.asked = request
            /\ Slice(output', encodeRequest(request), Sent(y) + 1, Len(encodeRequest(request))),
         (pc' \in {"header", "payload"} /\ y.worker = "open") =>
            \/ y.asked = Refused
            \/ y.asked = request /\ Sent(y) = Len(encodeRequest(request))
  PROVE  /\ FrameInv' /\ DOMAIN conn' = DOMAIN conn
         /\ conn'[active] = y /\ \A d \in DOMAIN conn : d # active => conn'[d] = conn[d]
<1>1. Types /\ CallerSide /\ active \in DOMAIN conn /\ request \in Requests
  BY DEF FrameInv, CallerSide
<1>2. /\ conn' \in Seq(Connection) /\ Len(conn') = Len(conn) /\ DOMAIN conn' = DOMAIN conn
      /\ conn'[active] = y /\ \A d \in DOMAIN conn : d # active => conn'[d] = conn[d]
      /\ \A d \in DOMAIN conn : RequestSide(conn'[d])
  BY <1>1, OneChanged
<1>3. Types'
  <2>1. pc' \in {"idle", "connect", "send", "header", "payload", "killed"}
    BY DEF InCall
  <2> QED
    BY <1>1, <1>2, <2>1 DEF Types, servers
<1>4. CallerSide'
  <2>1. Sent(conn[active])' = Sent(y) /\ conn'[active'] = y
    BY <1>2 DEF Sent
  <2>2. (\A c \in DOMAIN conn : c \in {socket, active} \/ Gone(c))'
    BY <1>1, <1>2 DEF CallerSide, Gone
  <2>3. (socket # 0 => ~Gone(socket) /\ (active = socket \/ Quiet(conn[socket])))'
    <3> SUFFICES ASSUME socket # 0
                 PROVE  conn'[socket].client # "closed" /\ (active = socket \/ Quiet(conn'[socket]))
      BY DEF Gone, Quiet
    <3>1. socket \in DOMAIN conn
      BY <1>1, ConnectionsTyped DEF Types
    <3>2. CASE active = socket
      BY <1>2, <3>2
    <3>3. CASE active # socket
      BY <1>1, <1>2, <3>1, <3>3 DEF CallerSide, Gone
    <3> QED
      BY <3>2, <3>3
  <2>4. (pc = "send" /\ Open(active) =>
           /\ conn[active].asked = request
           /\ Slice(output, encodeRequest(request),
                    Sent(conn[active]) + 1, Len(encodeRequest(request))))'
    BY <2>1 DEF Open, Slice
  <2>5. (pc \in {"header", "payload"} /\ Open(active) =>
           \/ conn[active].asked = Refused
           \/ /\ conn[active].asked = request
              /\ Sent(conn[active]) = Len(encodeRequest(request)))'
    BY <2>1 DEF Open
  <2>6. ~Gone(active)'
    BY <2>1 DEF Gone
  <2> QED
    BY <1>1, <1>2, <2>1, <2>2, <2>3, <2>4, <2>5, <2>6 DEF CallerSide
<1>5. \A c \in DOMAIN conn' : RequestSide(conn[c])'
  BY <1>2 DEF RequestSide, Received, Sent
<1> QED
  BY <1>2, <1>3, <1>4, <1>5 DEF FrameInv

(* send_data of the client: only these fields change. *)
LEMMA ClientSendFields ==
  ASSUME FrameInv, ClientSend
  PROVE  \E k \in 1 .. Len(output), y \in Connection :
           /\ conn' = [conn EXCEPT ![active] = y] /\ short' \in 0 .. MaxShort
           /\ output' = SubSeq(output, k + 1, Len(output))
           /\ pc' = IF output' = <<>> THEN "header" ELSE "send"
           /\ y.up = (IF conn[active].worker = "closed" THEN conn[active].up
                      ELSE conn[active].up \o SubSeq(output, 1, k))
           /\ y.reset = (conn[active].reset \/ conn[active].worker = "closed")
           /\ y.server = conn[active].server /\ y.client = conn[active].client
           /\ y.worker = conn[active].worker /\ y.down = conn[active].down
           /\ y.buffer = conn[active].buffer /\ y.stage = conn[active].stage
           /\ y.reply = conn[active].reply /\ y.part = conn[active].part
           /\ y.asked = conn[active].asked /\ y.answer = conn[active].answer
<1> DEFINE x == conn[active]
           n == Len(output)
           U(k) == IF x.worker = "closed" THEN x.up ELSE x.up \o SubSeq(output, 1, k)
           Y(k) == [x EXCEPT !.up = U(k), !.reset = @ \/ x.worker = "closed"]
<1>1. pc = "send" /\ InCall
  BY DEF ClientSend, InCall
<1>2. active \in DOMAIN conn /\ output # <<>> /\ output \in Seq(Nat)
  BY <1>1 DEF FrameInv, CallerSide, Types
<1>3. x \in Connection /\ n \in Nat \ {0}
  BY <1>2, ConnectionsTyped, EmptySeq
<1>4. PICK k \in Portions(n) :
        /\ Moves(k, n)
        /\ output' = SubSeq(output, k + 1, n)
        /\ conn' = [conn EXCEPT ![active].up = IF x.worker = "closed" THEN @
                                               ELSE @ \o SubSeq(output, 1, k),
                                ![active].reset = @ \/ x.worker = "closed"]
  BY DEF ClientSend, ServerClosed
<1>5. k \in 1 .. n /\ short' \in 0 .. MaxShort
  BY <1>3, <1>4, PortionsMove, ConnectionsTyped
<1>6. pc' = IF output' = <<>> THEN "header" ELSE "send"
  BY <1>1 DEF ClientSend, AfterSend, WaitForReply
<1>7. conn' = [conn EXCEPT ![active] = Y(k)]
  BY <1>2, <1>3, <1>4 DEF Connection
<1>8. U(k) \in Seq(Nat)
  <2>1. x.up \in Seq(Nat)
    BY <1>3 DEF Connection
  <2>2. k \in Nat /\ k <= Len(output)
    BY <1>3, <1>5
  <2>3. SubSeq(output, 1, k) \in Seq(Nat)
    BY <1>2, <2>2, CutSeq
  <2> QED
    BY <2>1, <2>3, ConcatProperties
<1> DEFINE u == U(k)
           y == Y(k)
<1> HIDE DEF U
<1>9. /\ y \in Connection /\ y.up = u
      /\ y.reset = (x.reset \/ x.worker = "closed")
      /\ y.server = x.server /\ y.client = x.client
      /\ y.worker = x.worker /\ y.down = x.down
      /\ y.buffer = x.buffer /\ y.stage = x.stage
      /\ y.reply = x.reply /\ y.part = x.part
      /\ y.asked = x.asked /\ y.answer = x.answer
  <2>1. (x.reset \/ x.worker = "closed") \in BOOLEAN
    BY <1>3 DEF Connection
  <2> QED
    BY <1>3, <1>8, <2>1 DEF Connection
<1> HIDE DEF y, Y
<1>10. conn' = [conn EXCEPT ![active] = y]
  BY <1>7 DEF y
<1> QED
  BY <1>4, <1>5, <1>6, <1>9, <1>10 DEF U

(* ClientSend moves the next bytes of the request. *)
LEMMA FrameClientSend ==
  ASSUME FrameInv, ClientSend
  PROVE  FrameInv'
<1> DEFINE x == conn[active]
           e == encodeRequest(request)
<1>1. pc = "send" /\ InCall /\ input' = input
      /\ UNCHANGED <<socket, active, request, calls, opened, servers>>
  BY DEF ClientSend, InCall
<1>2. possible' = possible /\ unsure' = unsure
  BY DEF ClientSend, AfterSend, WaitForReply, history
<1>3. PICK k \in 1 .. Len(output), y \in Connection :
           /\ conn' = [conn EXCEPT ![active] = y] /\ short' \in 0 .. MaxShort
           /\ output' = SubSeq(output, k + 1, Len(output))
           /\ pc' = IF output' = <<>> THEN "header" ELSE "send"
           /\ y.up = (IF x.worker = "closed" THEN x.up ELSE x.up \o SubSeq(output, 1, k))
           /\ y.client = x.client /\ y.worker = x.worker
           /\ y.buffer = x.buffer /\ y.stage = x.stage
           /\ y.reply = x.reply /\ y.asked = x.asked
  BY ClientSendFields
<1>4. /\ active \in DOMAIN conn /\ output # <<>> /\ output \in Seq(Nat) /\ input \in Seq(Nat)
      /\ request \in Requests /\ x \in Connection /\ RequestSide(x) /\ x.client # "closed"
  BY <1>1, ConnectionsTyped DEF FrameInv, CallerSide, Types, Gone
<1>5. Len(output) \in Nat /\ output' \in Seq(Nat)
  <2>1. Len(output) \in Nat
    BY <1>4, LenProperties
  <2>2. k \in Nat /\ k <= Len(output)
    BY <2>1
  <2>3. SubSeq(output, k + 1, Len(output)) \in Seq(Nat)
    BY <1>4, <2>2, CutSeq
  <2> QED
    BY <1>3, <2>1, <2>3
<1>6. CASE x.worker = "closed"
  <2>1. RequestSide(y) /\ y.client = "open"
    BY <1>3, <1>4, <1>6, SameRequestSide DEF Connection
  <2>2. y.worker = "closed" /\ InCall' /\ pc' # "connect"
    BY <1>3, <1>6 DEF InCall
  <2>3. IF pc' = "send" THEN output' # <<>> ELSE output' = <<>>
    BY <1>3
  <2> QED
    BY <1>1, <1>2, <1>3, <1>4, <1>5, <2>1, <2>2, <2>3, StillInCall
<1>7. CASE x.worker = "open"
  <2> DEFINE a == Len(x.buffer)
             b == Sent(x)
             n == Len(e)
             u == SubSeq(output, 1, k)
  <2>1. x.asked = request /\ Slice(output, e, b + 1, n) /\ request # Refused
    BY <1>1, <1>4, <1>7, RequestsFit DEF FrameInv, CallerSide, Open
  <2>2. /\ Slice(x.buffer, e, 1, a) /\ Slice(x.up, e, a + 1, b)
        /\ x.stage = StageAt(request, a) /\ x.reply = <<>>
    BY <1>4, <1>7, <2>1 DEF RequestSide, Received, StageAt
  <2>3. e \in Seq(Nat) /\ n \in Nat
    BY <1>4, RequestBytes
  <2>4. a \in Nat /\ b \in Nat /\ Len(x.up) \in Nat /\ b = a + Len(x.up) /\ x.up \in Seq(Nat)
    <3>1. a \in Nat /\ Len(x.up) \in Nat /\ x.up \in Seq(Nat)
      BY <1>4, LenProperties DEF Connection
    <3> DEFINE l == Len(x.up)
    <3>2. b = a + l
      BY DEF Sent
    <3> HIDE DEF b, a, l
    <3>3. a \in Nat /\ l \in Nat
      BY <3>1 DEF a, l
    <3>4. b \in Nat
      BY <3>2, <3>3
    <3> QED
      BY <3>1, <3>2, <3>4 DEF a, l
  <2> HIDE DEF e, n, b, a
  <2>5. /\ Slice(u, e, b + 1, b + k) /\ Slice(output', e, (b + k) + 1, n)
        /\ u \in Seq(Nat) /\ Len(u) = k
    <3> DEFINE i == b + 1
    <3>1. i \in Nat \ {0} /\ Slice(output, e, i, n) /\ k \in Nat /\ k <= Len(output)
      BY <1>5, <2>1, <2>4
    <3>2. i + k - 1 = b + k /\ i + k = (b + k) + 1
      BY <1>5, <2>4
    <3> HIDE DEF i
    <3>3. /\ Slice(u, e, i, i + k - 1) /\ Slice(output', e, i + k, n)
          /\ u \in Seq(Nat) /\ Len(u) = k
      BY <1>3, <2>3, <3>1, SliceCut
    <3> QED
      BY <3>2, <3>3 DEF i
  <2> HIDE DEF u
  <2>6. y.up = x.up \o u
    BY <1>3, <1>7 DEF u
  <2>7. b + k \in Nat /\ a + 1 \in Nat \ {0}
    BY <1>5, <2>4
  <2>8. Slice(y.up, e, a + 1, b + k)
    BY <2>2, <2>3, <2>4, <2>5, <2>6, <2>7, SliceJoin
  <2>9. Received(y) = a /\ Sent(y) = b + k
    <3>1. Len(y.up) = Len(x.up) + k /\ y.buffer = x.buffer
      <4>1. Len(x.up \o u) = Len(x.up) + Len(u)
        BY <2>4, <2>5, ConcatProperties
      <4> QED
        BY <1>3, <2>5, <2>6, <4>1
    <3>2. Received(y) = a /\ Sent(y) = a + Len(y.up)
      BY <3>1 DEF Received, Sent, a
    <3> QED
      BY <1>5, <2>4, <3>1, <3>2
  <2>10. RequestSide(y)
    <3>1. y.asked = request /\ y.worker = "open" /\ y.stage = StageAt(request, a) /\ y.reply = <<>>
      BY <1>3, <1>7, <2>1, <2>2
    <3>2. y.stage # "reply"
      BY <3>1 DEF StageAt
    <3>3. Slice(y.buffer, e, 1, Received(y)) /\ Slice(y.up, e, Received(y) + 1, Sent(y))
      BY <1>3, <2>2, <2>8, <2>9
    <3> QED
      BY <2>1, <2>9, <3>1, <3>2, <3>3 DEF RequestSide, e
  <2>11. output' = <<>> => Sent(y) = n
    <3> SUFFICES ASSUME output' = <<>> PROVE Sent(y) = n
      OBVIOUS
    <3> DEFINE j == (b + k) + 1
    <3>1. Slice(output', e, j, n) /\ j \in Nat \ {0}
      BY <2>5, <2>7
    <3> HIDE DEF j
    <3>2. Len(output') = n - j + 1
      BY <2>3, <3>1, SliceBytes
    <3>3. Len(output') = 0
      OBVIOUS
    <3> QED
      BY <2>3, <2>7, <2>9, <3>2, <3>3 DEF j
  <2>12. Slice(output', e, Sent(y) + 1, n)
    BY <2>5, <2>9
  <2>13. y.client = "open" /\ y.asked = request /\ InCall' /\ pc' # "connect"
    BY <1>3, <1>4, <2>1 DEF Connection, InCall
  <2> QED
    BY <1>1, <1>2, <1>3, <1>4, <1>5, <2>10, <2>11, <2>12, <2>13, StillInCall DEF e, n
<1> QED
  BY <1>4, <1>6, <1>7 DEF Connection

(* receive_data of the client. *)
LEMMA ClientReceiveFields ==
  ASSUME FrameInv, AnswerSide, ClientReceive
  PROVE  \E k \in Nat, y \in Connection :
           /\ 1 <= k /\ k <= ClientExpects /\ k <= Len(conn[active].down)
           /\ conn' = [conn EXCEPT ![active] = y] /\ short' \in 0 .. MaxShort
           /\ input' = input \o SubSeq(conn[active].down, 1, k)
           /\ input' \in Seq(Nat) /\ Len(input') = Len(input) + k
           /\ y.down = SubSeq(conn[active].down, k + 1, Len(conn[active].down))
           /\ y.server = conn[active].server /\ y.client = conn[active].client
           /\ y.worker = conn[active].worker /\ y.up = conn[active].up
           /\ y.buffer = conn[active].buffer /\ y.stage = conn[active].stage
           /\ y.reply = conn[active].reply /\ y.part = conn[active].part
           /\ y.reset = conn[active].reset
           /\ y.asked = conn[active].asked /\ y.answer = conn[active].answer
<1> DEFINE x == conn[active]
           l == Len(x.down)
           q == ClientExpects
           m == Min({q, l})
           Y(k) == [x EXCEPT !.down = SubSeq(@, k + 1, Len(@))]
<1>1. pc \in {"header", "payload"} /\ InCall /\ q > 0 /\ x.down # <<>>
  BY DEF ClientReceive, InCall
<1>2. active \in DOMAIN conn /\ input \in Seq(Nat)
  BY <1>1 DEF FrameInv, CallerSide, Types
<1>3. x \in Connection /\ x.down \in Seq(Nat) /\ l \in Nat \ {0}
  BY <1>1, <1>2, ConnectionsTyped, EmptySeq DEF Connection
<1>4. q \in Int
  BY <1>1, AnswerBytes
<1>5. PICK k \in Portions(m) :
        /\ Moves(k, m)
        /\ input' = input \o SubSeq(x.down, 1, k)
        /\ conn' = [conn EXCEPT ![active].down = SubSeq(@, k + 1, Len(@))]
  BY DEF ClientReceive
<1> HIDE DEF q
<1>6. m \in Nat \ {0} /\ m <= q /\ m <= l
  <2>1. m = IF q <= l THEN q ELSE l
    BY <1>3, <1>4, MinOfTwo
  <2> QED
    BY <1>1, <1>3, <1>4, <2>1
<1> HIDE DEF m
<1>7. k \in 1 .. m /\ short' \in 0 .. MaxShort
  BY <1>5, <1>6, PortionsMove, ConnectionsTyped
<1>8. k \in Nat /\ 1 <= k /\ k <= q /\ k <= l
  BY <1>3, <1>4, <1>6, <1>7
<1>9. conn' = [conn EXCEPT ![active] = Y(k)]
  BY <1>2, <1>3, <1>5 DEF Connection
<1> DEFINE w == SubSeq(x.down, k + 1, Len(x.down))
           v == SubSeq(x.down, 1, k)
           y == [x EXCEPT !.down = w]
<1>10. w \in Seq(Nat) /\ v \in Seq(Nat) /\ Len(v) = k
  BY <1>3, <1>8, CutSeq
<1>11. conn' = [conn EXCEPT ![active] = y]
  BY <1>9
<1> HIDE DEF w, v
<1>12. /\ y \in Connection /\ y.down = w
       /\ y.server = x.server /\ y.client = x.client
       /\ y.worker = x.worker /\ y.up = x.up
       /\ y.buffer = x.buffer /\ y.stage = x.stage
       /\ y.reply = x.reply /\ y.part = x.part /\ y.reset = x.reset
       /\ y.asked = x.asked /\ y.answer = x.answer
  BY <1>3, <1>10 DEF Connection
<1>13. input' \in Seq(Nat) /\ Len(input') = Len(input) + k /\ input' = input \o v
  BY <1>2, <1>5, <1>10, ConcatProperties DEF v
<1> HIDE DEF y
<1> QED
  BY <1>7, <1>8, <1>11, <1>12, <1>13 DEF q, v, w

(* ClientReceive touches the answer only. *)
LEMMA FrameClientReceive ==
  ASSUME FrameInv, AnswerSide, ClientReceive
  PROVE  FrameInv'
<1> DEFINE x == conn[active]
<1>1. /\ pc \in {"header", "payload"} /\ pc' \in {"header", "payload"} /\ InCall /\ InCall'
      /\ UNCHANGED <<socket, active, request, output, calls, opened, servers>>
      /\ possible' = possible /\ unsure' = unsure
  BY DEF ClientReceive, InCall, history
<1>2. PICK k \in Nat, y \in Connection :
           /\ conn' = [conn EXCEPT ![active] = y] /\ short' \in 0 .. MaxShort
           /\ input' \in Seq(Nat)
           /\ y.client = x.client /\ y.worker = x.worker /\ y.up = x.up
           /\ y.buffer = x.buffer /\ y.stage = x.stage
           /\ y.reply = x.reply /\ y.asked = x.asked
  BY ClientReceiveFields
<1>3. /\ x \in Connection /\ RequestSide(x) /\ x.client # "closed" /\ output = <<>>
      /\ x.worker = "open" => \/ x.asked = Refused
                              \/ x.asked = request /\ Sent(x) = Len(encodeRequest(request))
  BY <1>1, ConnectionsTyped DEF FrameInv, CallerSide, Gone, Open
<1>4. RequestSide(y) /\ Sent(y) = Sent(x) /\ y.client = "open"
  BY <1>2, <1>3, SameRequestSide DEF Connection
<1>5. <<>> \in Seq(Nat)
  OBVIOUS
<1> QED
  BY <1>1, <1>2, <1>3, <1>4, <1>5, StillInCall
-----------------------------------------------------------------------------
(* The answer side.                                                        *)

(* The fields that a recv of the server leaves alone. *)
LEMMA ServerReceiveFields ==
  ASSUME FrameInv, NEW c \in DOMAIN conn, ServerReceive(c)
  PROVE  LET x == conn[c]
             y == conn'[c]
         IN  /\ x.up # <<>> /\ x.worker = "open" /\ x.asked # Refused
             /\ y.server = x.server /\ y.client = x.client /\ y.worker = x.worker
             /\ y.down = x.down /\ y.reply = x.reply /\ y.part = x.part /\ y.reset = x.reset
             /\ y.asked = x.asked /\ y.answer = x.answer
             /\ \A d \in DOMAIN conn : d # c => conn'[d] = conn[d]
             /\ DOMAIN conn' = DOMAIN conn
<1>1. conn[c] \in Connection /\ RequestSide(conn[c])
  BY ConnectionsTyped
<1>2. conn[c].up # <<>> /\ conn[c].worker = "open"
  BY DEF ServerReceive, Open
<1>3. conn[c].asked # Refused
  BY <1>1, <1>2 DEF RequestSide
<1>4. PICK k :
        conn' = [conn EXCEPT ![c].up = SubSeq(@, k + 1, Len(@)),
                             ![c].buffer = @ \o SubSeq(conn[c].up, 1, k),
                             ![c].stage = NextStage(@, conn[c].buffer \o SubSeq(conn[c].up, 1, k))]
  BY DEF ServerReceive
<1> QED
  BY <1>1, <1>2, <1>3, <1>4 DEF Connection

(* When all of the request has been sent the caller has left send_data. *)
LEMMA SentIsSent ==
  ASSUME FrameInv, InCall, Open(active),
         Sent(conn[active]) = Len(encodeRequest(conn[active].asked))
  PROVE  pc # "send"
<1> SUFFICES ASSUME pc = "send" PROVE FALSE
  OBVIOUS
<1> DEFINE e == encodeRequest(request)
<1>1. /\ conn[active].asked = request /\ output # <<>> /\ request \in Requests
      /\ Slice(output, e, Sent(conn[active]) + 1, Len(e))
  BY DEF FrameInv, CallerSide
<1>2. Len(e) \in Nat
  BY <1>1, RequestBytes
<1>3. output = SubSeq(e, Len(e) + 1, Len(e))
  BY <1>1 DEF Slice
<1> HIDE DEF e
<1>4. Len(e) + 1 \in Int /\ Len(e) \in Int /\ Len(e) < Len(e) + 1
  BY <1>2
<1>5. output = <<>>
  BY <1>3, <1>4, SubSeqEmpty
<1> QED
  BY <1>1, <1>5

(* What is known of the connection of the call in progress. *)
LEMMA ActiveTyped ==
  ASSUME FrameInv, InCall
  PROVE  /\ active \in DOMAIN conn /\ active # 0 /\ request \in Requests
         /\ conn[active] \in Connection /\ RequestSide(conn[active])
         /\ conn[active].client = "open"
         /\ input \in Seq(Nat) /\ Len(input) \in Nat
<1>1. active \in DOMAIN conn /\ request \in Requests /\ ~Gone(active) /\ input \in Seq(Nat)
  BY DEF FrameInv, CallerSide, Types
<1>2. conn[active] \in Connection /\ RequestSide(conn[active]) /\ active # 0
  BY <1>1, ConnectionsTyped
<1> QED
  BY <1>1, <1>2, LenProperties DEF Connection, Gone

(* A worker's step, by what it does to the connection of the call. *)
LEMMA AnswerStep ==
  ASSUME AnswerSide, CallerUnchanged, InCall => AnswerOf(conn'[active], pc, input)
  PROVE  AnswerSide'
BY DEF AnswerSide, AnswerOf, InCall, CallerUnchanged, caller, Slice

(* Reading a request leaves the answer side alone. *)
LEMMA AnswerServerReceive ==
  ASSUME FrameInv, AnswerSide, NEW c \in DOMAIN conn, ServerReceive(c)
  PROVE  AnswerSide'
<1>1. CallerUnchanged
  BY DEF ServerReceive
<1> SUFFICES ASSUME InCall PROVE AnswerOf(conn'[active], pc, input)
  BY <1>1, AnswerStep
<1>2. active \in DOMAIN conn /\ AnswerOf(conn[active], pc, input)
  BY ActiveTyped DEF AnswerSide
<1>3. CASE c # active
  BY <1>2, <1>3, ServerReceiveFields
<1>4. CASE c = active
  <2>1. LET x == conn[active]
            y == conn'[active]
        IN  /\ x.asked # Refused /\ y.worker = x.worker /\ y.down = x.down
            /\ y.reply = x.reply /\ y.asked = x.asked /\ y.answer = x.answer
    BY <1>4, ServerReceiveFields
  <2> QED
    BY <1>2, <2>1 DEF AnswerOf
<1> QED
  BY <1>3, <1>4

(* close(client_fd) on any connection. *)
LEMMA AnswerClosed ==
  ASSUME NEW x \in Connection, NEW at, NEW received, AnswerOf(x, at, received)
  PROVE  AnswerOf(WorkerClosed(x), at, received)
<1> DEFINE y == WorkerClosed(x)
<1>1. /\ y.worker = "closed" /\ y.stage = "header" /\ y.reply = <<>> /\ y.asked = Refused
      /\ y.down = x.down /\ y.answer = x.answer
  BY DEF WorkerClosed, Connection
<1> HIDE DEF y
<1>2. AnswerOf(y, at, received)
  BY <1>1 DEF AnswerOf
<1> QED
  BY <1>2 DEF y

(* A server that gives up has no answer and gives none later. *)
LEMMA AnswerServerGivesUp ==
  ASSUME FrameInv, AnswerSide, NEW c \in DOMAIN conn, ServerGivesUp(c)
  PROVE  AnswerSide'
<1>1. CallerUnchanged /\ conn' = [conn EXCEPT ![c] = WorkerClosed(conn[c])]
  BY DEF ServerGivesUp
<1> SUFFICES ASSUME InCall PROVE AnswerOf(conn'[active], pc, input)
  BY <1>1, AnswerStep
<1>2. active \in DOMAIN conn /\ AnswerOf(conn[active], pc, input) /\ conn[active] \in Connection
  BY ActiveTyped DEF AnswerSide
<1>3. conn'[active] \in {conn[active], WorkerClosed(conn[active])}
  BY <1>1, <1>2
<1> QED
  BY <1>2, <1>3, AnswerClosed

(* Process makes the answer to the call in progress, all of it to be sent. *)
LEMMA AnswerProcess ==
  ASSUME FrameInv, AnswerSide, NEW c \in DOMAIN conn, process_request(c)
  PROVE  AnswerSide'
<1> DEFINE x == conn[c]
           req == x.asked
           y(r) == [x EXCEPT !.stage = "reply", !.reply = encodeResponse(r), !.part = FALSE,
                             !.buffer = <<>>, !.asked = Refused,
                             !.answer = IF Gone(c) THEN x.answer ELSE r]
<1>0. PICK r \in Responses : conn' = [conn EXCEPT ![c] = y(r)]
  BY ProcessRequest
<1>1. /\ req \in Requests /\ req # Refused /\ r \in Responses /\ x.worker = "open"
      /\ Sent(x) = Len(encodeRequest(req)) /\ CallerUnchanged
      /\ conn' = [conn EXCEPT ![c] = y(r)]
  BY <1>0, ProcessRequest
<1> SUFFICES ASSUME InCall PROVE AnswerOf(conn'[active], pc, input)
  BY <1>1, AnswerStep
<1>2. /\ active \in DOMAIN conn /\ AnswerOf(conn[active], pc, input)
      /\ conn[active] \in Connection /\ conn[active].client = "open"
  BY ActiveTyped DEF AnswerSide
<1>3. CASE c # active
  BY <1>1, <1>2, <1>3
<1>4. CASE c = active
  <2>1. /\ pc = "header" /\ input = <<>> /\ x.down = <<>>
    <3>1. pc # "send"
      BY <1>1, <1>4, SentIsSent DEF Open
    <3> QED
      BY <1>1, <1>2, <1>4, <3>1 DEF AnswerOf
  <2>2. conn'[active] = y(r) /\ ~Gone(c)
    BY <1>1, <1>2, <1>4 DEF Gone
  <2> DEFINE e == encodeResponse(r)
  <2>3. /\ y(r).answer = r /\ y(r).asked = Refused /\ y(r).down = <<>> /\ y(r).reply = e /\ y(r).stage = "reply"
    BY <1>2, <1>4, <2>1, <2>2 DEF Connection
  <2>4. e \in Seq(Nat) /\ Len(e) \in Nat /\ Slice(e, e, 1, Len(e)) /\ r # RefusedResponse
    BY <1>1, ResponseBytes, ResponsesFit
  <2> HIDE DEF e, y
  <2>5. Slice(<<>>, e, 1, 0)
    <3>1. SubSeq(e, 1, 0) = <<>>
      BY SubSeqEmpty
    <3> QED
      BY <2>4, <3>1 DEF Slice
  <2>6. 0 < HeaderSize
    BY WireAssumption DEF HeaderSize
  <2>7. /\ Len(<<>>) = 0 /\ 0 + 1 = 1 /\ 0 + 0 = 0
    OBVIOUS
  <2>8. AnswerOf(y(r), "header", <<>>)
    BY <2>3, <2>4, <2>5, <2>6, <2>7 DEF AnswerOf, e
  <2> QED
    BY <2>1, <2>2, <2>8
<1> QED
  BY <1>3, <1>4

(* ServerSend moves the next bytes of the answer. *)
LEMMA AnswerServerSend ==
  ASSUME FrameInv, AnswerSide, NEW c \in DOMAIN conn, ServerSend(c)
  PROVE  AnswerSide'
<1>1. CallerUnchanged
  BY DEF ServerSend
<1> SUFFICES ASSUME InCall PROVE AnswerOf(conn'[active], pc, input)
  BY <1>1, AnswerStep
<1>2. /\ active \in DOMAIN conn /\ AnswerOf(conn[active], pc, input)
      /\ conn[active] \in Connection /\ conn[active].client = "open"
      /\ RequestSide(conn[active]) /\ Len(input) \in Nat
  BY ActiveTyped DEF AnswerSide
<1>3. PICK k \in 1 .. Len(conn[c].reply) : conn' = [conn EXCEPT ![c] = SendEffect(conn[c], k)]
  BY ServerSendMoves
<1>4. CASE c # active
  BY <1>2, <1>3, <1>4
<1>5. CASE c = active
  <2> DEFINE x == conn[active]
             z == SendEffect(x, k)
             e == encodeResponse(x.answer)
             n == Len(e)
             m == Len(input)
             d == Len(x.down)
             v == SubSeq(x.reply, 1, k)
             w == SubSeq(x.reply, k + 1, Len(x.reply))
  <2>1. /\ x.stage = "reply" /\ x.reply # <<>> /\ Len(x.reply) \in Nat /\ x.reply \in Seq(Nat)
    <3>1. x.stage \in {"reply", "refuse"}
      BY <1>5 DEF ServerSend
    <3> QED
      BY <1>2, <3>1, ReplyingConnection
  <2>3. conn'[active] = z /\ z = SendEffect(x, k)
    BY <1>2, <1>3, <1>5
  <2> HIDE DEF z
  <2>2. /\ z.asked = x.asked /\ z.answer = x.answer
        /\ z.down = x.down \o v /\ z.reply = w
    <3>1. k \in 1 .. Len(x.reply) /\ x \in Connection /\ x.client # "closed"
      BY <1>2, <1>3, <1>5
    <3>3. x.stage = "reply" /\ z = SendEffect(x, k)
      BY <2>1, <2>3
    <3> HIDE DEF x
    <3>2. z.asked = x.asked /\ z.answer = x.answer
      BY <3>1, <3>3, SendFields
    <3>4. z.down = (IF x.client = "closed" THEN <<>> ELSE x.down \o SubSeq(x.reply, 1, k))
      BY <3>1, <3>3, SendFields
    <3>5. z.reply = SubSeq(x.reply, k + 1, Len(x.reply))
      BY <3>1, <3>3, SendFields
    <3> QED
      BY <3>1, <3>2, <3>4, <3>5
  <2>4. x.answer # RefusedResponse
    BY <1>2, <2>1 DEF AnswerOf
  <2>5. /\ pc # "send" /\ x.asked = Refused /\ Slice(input, e, 1, m)
        /\ Slice(x.down, e, m + 1, m + d) /\ Slice(x.reply, e, m + d + 1, n)
        /\ IF pc = "header" THEN m < HeaderSize ELSE m >= HeaderSize
        /\ pc = "connect" => m = n /\ x.answer.status = REDIRECT
    BY <1>2, <2>1, <2>4 DEF AnswerOf
  <2>6. e \in Seq(Nat) /\ n \in Nat /\ d \in Nat /\ m \in Nat /\ x.down \in Seq(Nat)
    BY <1>2, <2>4, ResponseBytes, LenProperties DEF Connection
  <2> HIDE DEF e, n, m, d
  <2>7. /\ Slice(v, e, m + d + 1, m + d + k) /\ Slice(w, e, (m + d + k) + 1, n)
        /\ v \in Seq(Nat) /\ Len(v) = k
    <3> DEFINE i == m + d + 1
    <3>0. k \in Nat /\ k <= Len(x.reply)
      BY <1>3, <1>5, <2>1
    <3>1. i \in Nat \ {0} /\ Slice(x.reply, e, i, n) /\ k \in Nat /\ k <= Len(x.reply)
      BY <2>5, <2>6, <3>0
    <3>2. i + k - 1 = m + d + k /\ i + k = (m + d + k) + 1
      BY <2>6, <3>1
    <3> HIDE DEF i
    <3>3. /\ Slice(v, e, i, i + k - 1) /\ Slice(w, e, i + k, n) /\ v \in Seq(Nat) /\ Len(v) = k
      BY <2>6, <3>1, SliceCut
    <3> QED
      BY <3>2, <3>3 DEF i
  <2> HIDE DEF v, w
  <2>8. k \in Nat /\ m + 1 \in Nat \ {0} /\ m + d \in Nat /\ m + d + k \in Nat
    <3>1. k \in Nat
      BY <1>3, <1>5, <2>1
    <3> QED
      BY <2>6, <3>1
  <2>9. Slice(x.down \o v, e, m + 1, m + d + k)
    BY <2>5, <2>6, <2>7, <2>8, SliceJoin
  <2>10. Len(z.down) = d + k
    <3>1. Len(x.down \o v) = Len(x.down) + Len(v)
      BY <2>6, <2>7, ConcatProperties
    <3> QED
      BY <2>2, <2>7, <3>1 DEF d
  <2>11. m + Len(z.down) = m + d + k
    BY <2>6, <2>8, <2>10
  <2>12. Slice(z.down, e, m + 1, m + Len(z.down)) /\ Slice(z.reply, e, m + Len(z.down) + 1, n)
    BY <2>2, <2>7, <2>9, <2>11
  <2>13. AnswerOf(z, pc, input)
    BY <2>2, <2>4, <2>5, <2>12 DEF AnswerOf, e, n, m
  <2> QED
    BY <2>3, <2>13
<1> QED
  BY <1>4, <1>5

(* A failed send leaves what was sent of the answer. *)
LEMMA AnswerServerSendFails ==
  ASSUME FrameInv, AnswerSide, NEW c \in DOMAIN conn, ServerSendFails(c)
  PROVE  AnswerSide'
<1>1. CallerUnchanged /\ conn' = [conn EXCEPT ![c] = AfterReply(conn[c])]
  BY DEF ServerSendFails
<1> SUFFICES ASSUME InCall PROVE AnswerOf(conn'[active], pc, input)
  BY <1>1, AnswerStep
<1>2. /\ active \in DOMAIN conn /\ AnswerOf(conn[active], pc, input)
      /\ conn[active] \in Connection /\ RequestSide(conn[active])
  BY ActiveTyped DEF AnswerSide
<1>3. CASE c # active
  BY <1>1, <1>2, <1>3
<1>4. CASE c = active
  <2> DEFINE x == conn[active]
             z == AfterReply(x)
  <2>1. x.stage = "reply" /\ x.reply # <<>>
    <3>1. x.stage \in {"reply", "refuse"}
      BY <1>4 DEF ServerSendFails
    <3> QED
      BY <1>2, <3>1, ReplyingConnection
  <2>2. /\ z.asked = x.asked /\ z.answer = x.answer /\ z.down = x.down
        /\ z.stage = "header" /\ z.reply = <<>>
    BY <1>2, <2>1, AfterReplyFields
  <2>3. conn'[active] = z
    BY <1>1, <1>2, <1>4
  <2> HIDE DEF z
  <2>4. AnswerOf(z, pc, input)
    BY <1>2, <2>1, <2>2 DEF AnswerOf
  <2> QED
    BY <2>3, <2>4
<1> QED
  BY <1>3, <1>4

(* So does the end of the server. *)
LEMMA AnswerServerSendKilled ==
  ASSUME FrameInv, AnswerSide, NEW c \in DOMAIN conn, ServerSendKilled(c)
  PROVE  AnswerSide'
<1>1. CallerUnchanged /\ conn' = [d \in DOMAIN conn |-> IF conn[d].server = conn[c].server
                                                        THEN WorkerClosed(conn[d])
                                                        ELSE conn[d]]
  BY DEF ServerSendKilled
<1> SUFFICES ASSUME InCall PROVE AnswerOf(conn'[active], pc, input)
  BY <1>1, AnswerStep
<1>2. active \in DOMAIN conn /\ AnswerOf(conn[active], pc, input) /\ conn[active] \in Connection
  BY ActiveTyped DEF AnswerSide
<1>3. conn'[active] \in {conn[active], WorkerClosed(conn[active])}
  BY <1>1, <1>2
<1> QED
  BY <1>2, <1>3, AnswerClosed

(* A step, by what it makes of the call in progress after it. *)
LEMMA AnswerAfter ==
  ASSUME InCall' => AnswerOf(conn'[active'], pc', input')
  PROVE  AnswerSide'
BY DEF AnswerSide, AnswerOf, Slice

(* No call is in progress after the step. *)
LEMMA AnswerNone ==
  ASSUME pc' \in {"idle", "killed"}
  PROVE  AnswerSide'
BY DEF AnswerSide, InCall

(* A call begins with no answer. *)
LEMMA AnswerBegin ==
  ASSUME FrameInv, NEW op \in {GET, PUT, DELETE, PING}, NEW key, Begin(op, key),
         IF op = PING THEN key = <<>> ELSE key \in Keys
  PROVE  AnswerSide'
<1> DEFINE x == conn[socket]
           y == [x EXCEPT !.asked = request', !.answer = RefusedResponse]
<1>1. conn' = [conn EXCEPT ![socket] = y] /\ socket \in DOMAIN conn
  BY FrameBegin
<1>2. pc = "idle" /\ socket # 0 /\ pc' = "send" /\ active' = socket /\ input' = <<>>
  BY DEF Begin
<1>3. Quiet(x) /\ x \in Connection
  BY <1>1, <1>2, ConnectionsTyped DEF FrameInv, CallerSide, InCall
<1>4. request' \in Requests /\ request' # Refused
  BY BeginRequest, RequestsFit
<1>5. y.asked = request' /\ y.answer = RefusedResponse /\ y.down = <<>> /\ y.reply = <<>>
  BY <1>3 DEF Connection, Quiet
<1>6. conn'[active'] = y
  BY <1>1, <1>2
<1> HIDE DEF y
<1>7. AnswerOf(y, "send", <<>>)
  BY <1>4, <1>5 DEF AnswerOf
<1> QED
  BY <1>2, <1>6, <1>7, AnswerAfter

(* There is no answer before the request is sent. *)
LEMMA AnswerClientSend ==
  ASSUME FrameInv, AnswerSide, ClientSend
  PROVE  AnswerSide'
<1>1. pc = "send" /\ InCall /\ active' = active /\ input' = input
  BY DEF ClientSend, InCall
<1>2. active \in DOMAIN conn /\ AnswerOf(conn[active], "send", input)
  BY <1>1, ActiveTyped DEF AnswerSide
<1>3. PICK k \in 1 .. Len(output), y \in Connection :
        /\ conn' = [conn EXCEPT ![active] = y]
        /\ pc' = IF output' = <<>> THEN "header" ELSE "send"
        /\ y.worker = conn[active].worker /\ y.down = conn[active].down
        /\ y.reply = conn[active].reply
        /\ y.asked = conn[active].asked /\ y.answer = conn[active].answer
  BY ClientSendFields
<1>4. conn'[active'] = y /\ pc' \in {"send", "header"}
  BY <1>1, <1>2, <1>3
<1>5. AnswerOf(y, pc', input')
  BY <1>1, <1>2, <1>3, <1>4 DEF AnswerOf
<1> QED
  BY <1>4, <1>5, AnswerAfter

(* ClientReceive moves the next bytes of the answer to the caller. *)
LEMMA AnswerClientReceive ==
  ASSUME FrameInv, AnswerSide, ClientReceive
  PROVE  AnswerSide'
<1> DEFINE x == conn[active]
           e == encodeResponse(x.answer)
           n == Len(e)
           m == Len(input)
           d == Len(x.down)
<1>1. /\ pc \in {"header", "payload"} /\ InCall /\ active' = active /\ x.down # <<>>
      /\ pc' = IF pc = "header" /\ Len(input') = HeaderSize THEN "payload" ELSE pc
  BY DEF ClientReceive, InCall
<1>2. /\ active \in DOMAIN conn /\ AnswerOf(x, pc, input) /\ x \in Connection
      /\ m \in Nat /\ input \in Seq(Nat)
  BY <1>1, ActiveTyped DEF AnswerSide
<1>3. PICK k \in Nat, y \in Connection :
        /\ 1 <= k /\ k <= ClientExpects /\ k <= d
        /\ conn' = [conn EXCEPT ![active] = y]
        /\ input' = input \o SubSeq(x.down, 1, k)
        /\ Len(input') = m + k
        /\ y.down = SubSeq(x.down, k + 1, d)
        /\ y.stage = x.stage /\ y.reply = x.reply
        /\ y.asked = x.asked /\ y.answer = x.answer
  BY ClientReceiveFields
<1>4. x.answer # RefusedResponse
  BY <1>1, <1>2 DEF AnswerOf
<1>5. /\ x.asked = Refused /\ Slice(input, e, 1, m) /\ Slice(x.down, e, m + 1, m + d)
      /\ x.stage = "reply" => Slice(x.reply, e, m + d + 1, n)
      /\ IF pc = "header" THEN m < HeaderSize ELSE m >= HeaderSize
  BY <1>2, <1>4 DEF AnswerOf
<1>6. e \in Seq(Nat) /\ n \in Nat /\ d \in Nat /\ x.down \in Seq(Nat) /\ HeaderSize \in Nat
  <2>1. x.answer \in Responses /\ x.down \in Seq(Nat)
    BY <1>2, <1>4 DEF Connection
  <2>2. e \in Seq(Nat) /\ n \in Nat /\ d \in Nat
    BY <2>1, ResponseBytes, LenProperties
  <2>3. HeaderSize \in Nat
    BY WireAssumption DEF HeaderSize
  <2> QED
    BY <2>1, <2>2, <2>3
<1>7. pc = "header" => k <= HeaderSize - m
  BY <1>1, <1>3, AnswerBytes
<1>8. conn'[active'] = y
  BY <1>1, <1>2, <1>3
<1> DEFINE l == Len(input')
           q == Len(y.down)
<1> HIDE DEF x, e, n, m, d, l, q
<1>16. k \in Nat /\ 1 <= k /\ k <= d /\ l = m + k /\ y.down = SubSeq(x.down, k + 1, d)
  BY <1>3 DEF l
<1>17. input' = input \o SubSeq(x.down, 1, k)
  BY <1>3
<1>9. /\ Slice(SubSeq(x.down, 1, k), e, m + 1, m + k)
      /\ Slice(y.down, e, (m + k) + 1, m + d) /\ q = d - k
  <2> DEFINE i == m + 1
             j == m + d
  <2>1. i \in Nat \ {0} /\ j \in Nat /\ Slice(x.down, e, i, j)
    BY <1>2, <1>5, <1>6
  <2>2. i + k - 1 = m + k /\ i + k = (m + k) + 1
    BY <1>2, <1>16
  <2>3. k \in Nat /\ k <= Len(x.down)
    BY <1>16 DEF d
  <2> HIDE DEF i, j
  <2>4. /\ Slice(SubSeq(x.down, 1, k), e, i, i + k - 1)
        /\ Slice(SubSeq(x.down, k + 1, Len(x.down)), e, i + k, j)
        /\ Len(SubSeq(x.down, k + 1, Len(x.down))) = Len(x.down) - k
    BY <1>6, <2>1, <2>3, SliceCut
  <2> QED
    BY <1>16, <2>2, <2>4 DEF i, j, d, q
<1>10. Slice(input', e, 1, m + k)
  <2>1. m + k \in Nat /\ 1 \in Nat \ {0}
    BY <1>2, <1>16
  <2>2. Slice(input \o SubSeq(x.down, 1, k), e, 1, m + k)
    BY <1>2, <1>5, <1>6, <1>9, <2>1, SliceJoin
  <2> QED
    BY <1>17, <2>2
<1>11. l + q = m + d
  BY <1>2, <1>6, <1>9, <1>16
<1>12. IF pc' = "header" THEN l < HeaderSize ELSE l >= HeaderSize
  <2>1. pc' = IF pc = "header" /\ l = HeaderSize THEN "payload" ELSE pc
    BY <1>1 DEF l
  <2>2. CASE pc = "header"
    BY <1>2, <1>6, <1>7, <1>16, <2>1, <2>2
  <2>3. CASE pc = "payload"
    BY <1>2, <1>5, <1>6, <1>16, <2>1, <2>3
  <2> QED
    BY <1>1, <2>2, <2>3
<1>13. pc' \in {"header", "payload"}
  BY <1>1
<1>14. /\ Slice(input', e, 1, l) /\ Slice(y.down, e, l + 1, l + q)
       /\ y.stage = "reply" => Slice(y.reply, e, l + q + 1, n)
  BY <1>3, <1>5, <1>9, <1>10, <1>11, <1>16
<1>18. y.answer = x.answer /\ y.asked = Refused
  BY <1>3, <1>5
<1>15. AnswerOf(y, pc', input')
  BY <1>4, <1>12, <1>13, <1>14, <1>18 DEF AnswerOf, e, n, l, q
<1> QED
  BY <1>8, <1>15, AnswerAfter

(* A return ends the call, or has the whole of a redirect. *)
LEMMA AnswerReturn ==
  ASSUME FrameInv, AnswerSide, Return
  PROVE  AnswerSide'
<1> DEFINE r == decodeResponse(input)
<1>1. pc = "payload" /\ ClientExpects = 0
  BY DEF Return
<1>2. /\ InCall /\ Answered /\ r # RefusedResponse /\ r = conn[active].answer
      /\ Len(input) = Len(encodeResponse(conn[active].answer))
  BY <1>1, ReturnAnswer
<1>3. CASE r.status = REDIRECT /\ active = socket
  <2>1. pc' = "connect" /\ UNCHANGED <<conn, active, input>>
    BY <1>2, <1>3 DEF Return
  <2>2. AnswerOf(conn[active], "payload", input)
    BY <1>1, <1>2 DEF AnswerSide
  <2>3. AnswerOf(conn[active], "connect", input)
    BY <1>2, <1>3, <2>2 DEF AnswerOf, Answered
  <2> QED
    BY <2>1, <2>3, AnswerAfter
<1>4. CASE ~(r.status = REDIRECT /\ active = socket)
  <2>1. pc' = "idle"
    BY <1>2, <1>4 DEF Return, Goto
  <2> QED
    BY <2>1, AnswerNone
<1> QED
  BY <1>3, <1>4

(* The second call begins with no answer. *)
LEMMA AnswerRedirect ==
  ASSUME FrameInv, AnswerSide, Redirect
  PROVE  AnswerSide'
<1>1. pc = "connect"
  BY DEF Redirect
<1>2. request \in Requests /\ request # Refused
  BY <1>1, RedirectQuiet, RequestsFit
<1>3. CASE /\ OpenConnection("other", request)
           /\ pc' = "send" /\ active' = opened' /\ input' = <<>>
  <2> DEFINE y == conn'[opened']
  <2>1. /\ y.down = <<>> /\ y.reply = <<>> /\ y.asked = request /\ y.answer = RefusedResponse
    BY <1>2, <1>3, NewFields DEF Servers
  <2>2. AnswerOf(y, "send", <<>>)
    BY <1>2, <2>1 DEF AnswerOf
  <2> QED
    BY <1>3, <2>2, AnswerAfter
<1>4. CASE Goto("idle")
  BY <1>4, AnswerNone DEF Goto
<1> QED
  BY <1>3, <1>4 DEF Redirect
-----------------------------------------------------------------------------
(* The inductive invariant of the calls. *)
CallInv == FrameInv /\ AnswerSide


(* Nothing is under way at first. *)
LEMMA CallInvInit ==
  ASSUME Init
  PROVE  CallInv
<1> USE DEF Init
<1>1. conn = <<>> /\ opened = 0 /\ pc = "idle" /\ <<>> \in Seq(Connection) /\ <<>> \in Seq(Nat)
  OBVIOUS
<1>2. DOMAIN conn = {} /\ Len(conn) = 0
  BY <1>1
<1>3. Types
  <2>1. MaxCalls \in Nat /\ MaxConnections \in Nat /\ MaxShort \in Nat
    BY WireAssumption
  <2>2. NoValue \in Values
    BY DEF Values
  <2> QED
    BY <1>1, <1>2, <2>1, <2>2 DEF Types
<1>4. CallerSide
  BY <1>1, <1>2 DEF CallerSide, InCall
<1>5. AnswerSide
  BY <1>1 DEF AnswerSide, InCall
<1> QED
  BY <1>2, <1>3, <1>4, <1>5 DEF CallInv, FrameInv

(* Begin, with each of its four operations. *)
LEMMA SomeBegin ==
  ASSUME (\E key \in Keys, op \in {GET, PUT, DELETE} : Begin(op, key)) \/ Begin(PING, <<>>)
  PROVE  \E op \in {GET, PUT, DELETE, PING}, key \in Keys \cup {<<>>} :
           Begin(op, key) /\ IF op = PING THEN key = <<>> ELSE key \in Keys
<1>1. CASE \E key \in Keys, op \in {GET, PUT, DELETE} : Begin(op, key)
  <2>1. PICK key \in Keys, op \in {GET, PUT, DELETE} : Begin(op, key)
    BY <1>1
  <2>2. op # PING
    BY DEF GET, PUT, DELETE, PING
  <2> QED
    BY <2>1, <2>2
<1>2. CASE Begin(PING, <<>>)
  BY <1>2
<1> QED
  BY <1>1, <1>2

(* Every step keeps both sides. *)
LEMMA CallInvNext ==
  ASSUME CallInv, [Next]_vars
  PROVE  CallInv'
<1> SUFFICES FrameInv' /\ AnswerSide'
  BY DEF CallInv
<1>0. FrameInv /\ AnswerSide
  BY DEF CallInv
<1>1. CASE connect
  <2>1. pc' = "idle"
    BY <1>1 DEF connect
  <2> QED
    BY <1>0, <1>1, <2>1, FrameConnect, AnswerNone
<1>2. CASE disconnect
  <2>1. pc' = "idle"
    BY <1>2 DEF disconnect
  <2> QED
    BY <1>0, <1>2, <2>1, FrameDisconnect, AnswerNone
<1>3. CASE (\E key \in Keys, op \in {GET, PUT, DELETE} : Begin(op, key)) \/ Begin(PING, <<>>)
  <2>1. PICK op \in {GET, PUT, DELETE, PING}, key \in Keys \cup {<<>>} :
          Begin(op, key) /\ IF op = PING THEN key = <<>> ELSE key \in Keys
    BY <1>3, SomeBegin
  <2> QED
    BY <1>0, <2>1, FrameBegin, AnswerBegin
<1>4. CASE ClientSend
  BY <1>0, <1>4, FrameClientSend, AnswerClientSend
<1>5. CASE ClientSendKilled
  <2>1. pc' = "killed"
    BY <1>5 DEF ClientSendKilled, Killed, Goto
  <2> QED
    BY <1>0, <1>5, <2>1, FrameClientSendKilled, AnswerNone
<1>6. CASE ClientReceive
  BY <1>0, <1>6, FrameClientReceive, AnswerClientReceive
<1>7. CASE Return
  BY <1>0, <1>7, FrameReturn, AnswerReturn
<1>8. CASE Redirect
  BY <1>0, <1>8, FrameRedirect, AnswerRedirect
<1>9. CASE TimeOut
  <2>1. pc' = "idle"
    BY <1>9 DEF TimeOut, Fail, Goto
  <2> QED
    BY <1>0, <1>9, <2>1, FrameTimeOut, AnswerNone
<1>10. CASE ConnectionLost
  <2>1. pc' = "idle"
    BY <1>10 DEF ConnectionLost, Fail, Goto
  <2> QED
    BY <1>0, <1>10, <2>1, FrameConnectionLost, AnswerNone
<1>11. ASSUME NEW c \in DOMAIN conn, handle_client(c)
       PROVE  FrameInv' /\ AnswerSide'
  <2>1. CASE ServerReceive(c)
    BY <1>0, <2>1, FrameServerReceive, AnswerServerReceive
  <2>2. CASE ServerGivesUp(c)
    BY <1>0, <2>2, FrameServerGivesUp, AnswerServerGivesUp
  <2>3. CASE process_request(c)
    BY <1>0, <2>3, FrameProcess, AnswerProcess
  <2>4. CASE ServerSend(c)
    BY <1>0, <2>4, FrameServerSend, AnswerServerSend
  <2>5. CASE ServerSendFails(c)
    BY <1>0, <2>5, FrameServerSendFails, AnswerServerSendFails
  <2>6. CASE ServerSendKilled(c)
    BY <1>0, <2>6, FrameServerSendKilled, AnswerServerSendKilled
  <2> QED
    BY <1>11, <2>1, <2>2, <2>3, <2>4, <2>5, <2>6 DEF handle_client
<1>12. CASE UNCHANGED vars
  <2>1. UNCHANGED <<socket, pc, active, request, output, input, calls, opened, conn, storage,
                    copies, killed, short, possible, unsure>>
    BY <1>12 DEF vars, caller, servers, history
  <2> QED
    BY <1>0, <2>1 DEF FrameInv, Types, CallerSide, AnswerSide, AnswerOf, RequestSide, Received,
                      Sent, InCall, Gone, Open, Quiet, Slice
<1> QED
  BY <1>1, <1>2, <1>3, <1>4, <1>5, <1>6, <1>7, <1>8, <1>9, <1>10, <1>11, <1>12
     DEF Next, ClientStep

(* The two sides of the invariant hold throughout. *)
THEOREM CallInvariant == Spec => []CallInv
<1>1. Init => CallInv
  BY CallInvInit
<1>2. CallInv /\ [Next]_vars => CallInv'
  BY CallInvNext
<1> QED
  BY <1>1, <1>2, PTL DEF Spec

(* Type correctness of client, servers and connections. *)
THEOREM TypeCorrect == Spec => []TypeOK
<1>1. CallInv => TypeOK
  <2> SUFFICES ASSUME CallInv PROVE TypeOK
    OBVIOUS
  <2>1. Types /\ FrameInv
    BY DEF CallInv, FrameInv
  <2>2. request.opcode \in {0, GET, PUT, DELETE, PING} /\ request.key \in Keys \cup {<<>>}
    <3>1. CASE request \in Requests
      BY <3>1, RequestsFit
    <3>2. CASE request = Refused
      BY <3>2 DEF Refused, Request
    <3> QED
      BY <2>1, <3>1, <3>2 DEF Types
  <2>3. \A c \in DOMAIN conn :
          /\ conn[c].client \in {"open", "closed"} /\ conn[c].worker \in {"open", "closed"}
          /\ conn[c].stage \in {"header", "key", "value", "process", "reply", "refuse"}
    BY <2>1, ConnectionsTyped DEF Connection, Stages
  <2> QED
    BY <2>1, <2>2, <2>3 DEF TypeOK, Types, Values
<1> QED
  BY <1>1, CallInvariant, PTL

(* Framing: what handle_client takes for one request is the request that   *)
(* was asked, however TCP cut the bytes of this request and of the others. *)
THEOREM Framing == Spec => []FramesDecode
<1>1. CallInv => FramesDecode
  <2> SUFFICES ASSUME CallInv, NEW c \in DOMAIN conn, conn[c].stage = "process"
               PROVE  decodeRequest(conn[c].buffer) = conn[c].asked
    BY DEF FramesDecode
  <2>1. conn[c] \in Connection /\ RequestSide(conn[c])
    BY ConnectionsTyped DEF CallInv
  <2> QED
    BY <2>1, WholeRequest
<1> QED
  BY <1>1, CallInvariant, PTL

(* What a step adds to the calls that returned what they should not. *)
LEMMA WrongStep ==
  ASSUME CallInv, [Next]_vars
  PROVE  \/ wrong' = wrong
         \/ /\ Return /\ InCall /\ Answered /\ request.opcode = GET
            /\ ~(conn[active].answer.status = REDIRECT /\ active = socket)
            /\ conn[active].answer.value \notin Explained(request.key)
            /\ wrong' = wrong \cup {"read"}
<1>0. FrameInv /\ AnswerSide
  BY DEF CallInv
<1>1. CASE Return
  <2> DEFINE r == decodeResponse(input)
  <2>1. /\ InCall /\ Answered /\ r # RefusedResponse /\ r = conn[active].answer
    BY <1>0, <1>1, ReturnAnswer DEF Return
  <2>2. CASE r.status = REDIRECT /\ active = socket
    BY <1>1, <2>1, <2>2 DEF Return, history
  <2>3. CASE ~(r.status = REDIRECT /\ active = socket)
    <3>1. Note(r)
      BY <1>1, <2>1, <2>3 DEF Return
    <3> QED
      BY <1>1, <2>1, <2>3, <3>1 DEF Note
  <2> QED
    BY <2>2, <2>3
<1>2. CASE connect \/ disconnect
  BY <1>2 DEF connect, disconnect, history
<1>3. CASE (\E key \in Keys, op \in {GET, PUT, DELETE} : Begin(op, key)) \/ Begin(PING, <<>>)
  BY <1>3 DEF Begin, history
<1>4. CASE ClientSend \/ ClientReceive
  BY <1>4 DEF ClientSend, ClientReceive, AfterSend, WaitForReply, history
<1>5. CASE ClientSendKilled \/ TimeOut \/ ConnectionLost
  BY <1>5 DEF ClientSendKilled, Killed, TimeOut, ConnectionLost, Fail, NoteFailure
<1>6. CASE Redirect
  BY <1>6 DEF Redirect, history
<1>7. ASSUME NEW c \in DOMAIN conn, handle_client(c) PROVE wrong' = wrong
  BY <1>7 DEF handle_client, ServerReceive, ServerGivesUp, process_request, ServerSend,
              ServerSendFails, ServerSendKilled, CallerUnchanged, history
<1>8. CASE UNCHANGED vars
  BY <1>8 DEF vars, history
<1> QED
  BY <1>1, <1>2, <1>3, <1>4, <1>5, <1>6, <1>7, <1>8 DEF Next, ClientStep

(* A call returns the answer the server gave to this very call, or none:   *)
(* whatever was given up before it, by either side and at whichever byte.  *)
THEOREM AnswersAreOwn == Spec => []AnswerIsOwn
<1>1. Init => AnswerIsOwn
  BY DEF Init, AnswerIsOwn
<1>2. AnswerIsOwn /\ CallInv /\ [Next]_vars => AnswerIsOwn'
  <2> SUFFICES ASSUME AnswerIsOwn, CallInv, [Next]_vars PROVE AnswerIsOwn'
    OBVIOUS
  <2>1. wrong' = wrong \/ wrong' = wrong \cup {"read"}
    BY WrongStep
  <2> QED
    BY <2>1 DEF AnswerIsOwn
<1> QED
  BY <1>1, <1>2, CallInvariant, PTL DEF Spec
-----------------------------------------------------------------------------
(* Resets and the servers they end.                                        *)

ResetOf(x) ==
  (x.worker = "open" /\ x.reset) =>
    x.client = "closed" /\ x.asked = Refused /\ (x.stage = "reply" => x.part)

(* Between the states x and y of a connection, no server ended. *)
ResetMove(x, y) ==
  /\ y.server = x.server
  /\ x.worker = "closed" => y.worker = "closed" /\ y.part = x.part
  /\ ResetOf(y)

(* ResetSide, connection by connection and server by server. *)
LEMMA ResetSplit ==
  ResetSide <=> /\ \A c \in DOMAIN conn : ResetOf(conn[c])
                /\ \A s \in Servers : killed[s] =>
                     /\ \E c \in DOMAIN conn : conn[c].server = s /\ conn[c].part
                     /\ \A c \in DOMAIN conn : conn[c].server = s => conn[c].worker # "open"
BY DEF ResetSide, ResetOf, Open, Gone

(* Steps that end no server: every connection moves as ResetMove says, and *)
(* no new one leads to a server that was ended.                            *)
LEMMA ResetStep ==
  ASSUME FrameInv, ResetSide, killed' = killed,
         \A d \in DOMAIN conn : d \in DOMAIN conn' /\ ResetMove(conn[d], conn'[d]),
         \A d \in DOMAIN conn' : d \in DOMAIN conn \/ (~killed[conn'[d].server] /\ ResetOf(conn'[d]))
  PROVE  ResetSide'
<1>1. /\ \A c \in DOMAIN conn : ResetOf(conn[c]) /\ conn[c].worker \in {"open", "closed"}
      /\ \A s \in Servers : killed[s] =>
           /\ \E c \in DOMAIN conn : conn[c].server = s /\ conn[c].part
           /\ \A c \in DOMAIN conn : conn[c].server = s => conn[c].worker # "open"
  BY ResetSplit, ConnectionsTyped DEF Connection
<1>2. \A c \in DOMAIN conn' : ResetOf(conn'[c])
  BY <1>1 DEF ResetMove
<1>3. ASSUME NEW s \in Servers, killed[s]
      PROVE  /\ \E c \in DOMAIN conn' : conn'[c].server = s /\ conn'[c].part
             /\ \A c \in DOMAIN conn' : conn'[c].server = s => conn'[c].worker # "open"
  <2>1. PICK c \in DOMAIN conn : conn[c].server = s /\ conn[c].part
    BY <1>1, <1>3
  <2>2. conn[c].worker = "closed"
    BY <1>1, <1>3, <2>1
  <2>3. c \in DOMAIN conn' /\ conn'[c].server = s /\ conn'[c].part
    BY <2>1, <2>2 DEF ResetMove
  <2>4. ASSUME NEW d \in DOMAIN conn', conn'[d].server = s PROVE conn'[d].worker # "open"
    <3>1. d \in DOMAIN conn /\ ResetMove(conn[d], conn'[d])
      BY <1>3, <2>4
    <3>2. conn[d].worker = "closed"
      BY <1>1, <1>3, <2>4, <3>1 DEF ResetMove
    <3> QED
      BY <3>1, <3>2 DEF ResetMove
  <2> QED
    BY <2>3, <2>4
<1> QED
  BY <1>2, <1>3 DEF ResetSide, ResetOf, Open, Gone

(* The same where one connection changes. *)
LEMMA ResetOne ==
  ASSUME FrameInv, ResetSide, killed' = killed, NEW c \in DOMAIN conn, NEW y,
         conn' = [conn EXCEPT ![c] = y], ResetMove(conn[c], y)
  PROVE  ResetSide'
<1>1. \A d \in DOMAIN conn : ResetMove(conn[d], conn[d])
  BY ResetSplit DEF ResetMove
<1>2. DOMAIN conn' = DOMAIN conn /\ \A d \in DOMAIN conn : ResetMove(conn[d], conn'[d])
  BY <1>1
<1> QED
  BY <1>2, ResetStep

(* A close at either end keeps it. *)
LEMMA ResetClosed ==
  ASSUME NEW x \in Connection, ResetOf(x)
  PROVE  ResetMove(x, ClosedEnd(x)) /\ ResetMove(x, x) /\ ResetMove(x, WorkerClosed(x))
<1> DEFINE y == ClosedEnd(x)
           z == WorkerClosed(x)
<1>1. /\ y.client = "closed" /\ y.server = x.server /\ y.worker = x.worker /\ y.stage = x.stage
      /\ y.part = x.part /\ y.reset = x.reset /\ y.asked = x.asked
  BY DEF ClosedEnd, Connection
<1>2. z.server = x.server /\ z.worker = "closed" /\ z.part = x.part
  BY DEF WorkerClosed, Connection
<1> HIDE DEF y, z
<1>3. ResetMove(x, y) /\ ResetMove(x, z) /\ ResetMove(x, x)
  BY <1>1, <1>2 DEF ResetMove, ResetOf
<1> QED
  BY <1>3 DEF y, z

(* Client ends that are closed. *)
LEMMA ResetEnd ==
  ASSUME FrameInv, ResetSide, killed' = killed, DOMAIN conn' = DOMAIN conn,
         \A d \in DOMAIN conn : conn'[d] \in {conn[d], ClosedEnd(conn[d])}
  PROVE  ResetSide'
<1>1. \A d \in DOMAIN conn : ResetMove(conn[d], conn[d]) /\ ResetMove(conn[d], ClosedEnd(conn[d]))
  BY ResetSplit, ResetClosed, ConnectionsTyped
<1>2. \A d \in DOMAIN conn : ResetMove(conn[d], conn'[d])
  BY <1>1
<1> QED
  BY <1>2, ResetStep

(* A new connection has seen no reset, and none leads to a server that was *)
(* ended.                                                                  *)
LEMMA ResetNew ==
  ASSUME FrameInv, ResetSide, killed' = killed,
         NEW s \in Servers, NEW req \in Requests \cup {Refused}, OpenConnection(s, req)
  PROVE  ResetSide'
<1> DEFINE y == conn'[opened']
<1>1. /\ opened' = opened + 1 /\ opened \in Nat /\ ~killed[s]
      /\ DOMAIN conn' = 1 .. opened' /\ DOMAIN conn = 1 .. opened
      /\ \A d \in DOMAIN conn : conn'[d] = conn[d]
      /\ y.server = s /\ y.reset = FALSE
  BY NewFields
<1>2. ResetOf(y) /\ ~killed[y.server]
  BY <1>1 DEF ResetOf
<1>3. \A d \in DOMAIN conn' : d \in DOMAIN conn \/ d = opened'
  BY <1>1
<1>4. \A d \in DOMAIN conn : d \in DOMAIN conn'
  BY <1>1
<1>5. \A d \in DOMAIN conn : ResetMove(conn[d], conn'[d])
  BY <1>1, ResetSplit DEF ResetMove
<1> QED
  BY <1>2, <1>3, <1>4, <1>5, ResetStep

(* The steps of the caller. *)
LEMMA ResetCaller ==
  ASSUME CallInv, ResetSide,
         \/ connect \/ disconnect \/ ClientStep
         \/ (\E key \in Keys, op \in {GET, PUT, DELETE} : Begin(op, key)) \/ Begin(PING, <<>>)
  PROVE  ResetSide'
<1>0. FrameInv /\ AnswerSide
  BY DEF CallInv
<1>1. CASE connect
  BY <1>0, <1>1, ResetNew DEF connect, servers, Servers
<1>2. CASE disconnect
  <2>1. socket \in DOMAIN conn /\ killed' = killed /\ conn' = Closed(socket)
    BY <1>0, <1>2, ConnectionsTyped DEF disconnect, servers, FrameInv, Types
  <2>2. conn' = [conn EXCEPT ![socket] = ClosedEnd(conn[socket])]
    BY <1>0, <2>1, ClosedOne
  <2> QED
    BY <1>0, <2>1, <2>2, ResetEnd
<1>3. CASE (\E key \in Keys, op \in {GET, PUT, DELETE} : Begin(op, key)) \/ Begin(PING, <<>>)
  <2>1. PICK op \in {GET, PUT, DELETE, PING}, key \in Keys \cup {<<>>} :
          Begin(op, key) /\ IF op = PING THEN key = <<>> ELSE key \in Keys
    BY <1>3, SomeBegin
  <2> DEFINE x == conn[socket]
             y == [x EXCEPT !.asked = request', !.answer = RefusedResponse]
  <2>2. conn' = [conn EXCEPT ![socket] = y] /\ socket \in DOMAIN conn
    BY <1>0, <2>1, FrameBegin
  <2>3. killed' = killed /\ socket # 0
    BY <2>1 DEF Begin, servers
  <2>4. x \in Connection /\ x.client # "closed" /\ ResetOf(x)
    BY <1>0, <2>2, <2>3, ConnectionsTyped, ResetSplit DEF FrameInv, CallerSide, Gone
  <2>5. y.server = x.server /\ y.worker = x.worker /\ y.part = x.part /\ y.reset = x.reset
    BY <2>4 DEF Connection
  <2> HIDE DEF y
  <2>6. ResetMove(x, y)
    BY <2>4, <2>5 DEF ResetMove, ResetOf
  <2> QED
    BY <1>0, <2>2, <2>3, <2>6, ResetOne
<1>4. CASE ClientSend
  <2>1. InCall /\ killed' = killed
    BY <1>4 DEF ClientSend, InCall, servers
  <2> DEFINE x == conn[active]
  <2>2. active \in DOMAIN conn /\ x \in Connection /\ x.client = "open" /\ ResetOf(x)
    BY <1>0, <2>1, ActiveTyped, ResetSplit
  <2>3. PICK k \in 1 .. Len(output), y \in Connection :
          /\ conn' = [conn EXCEPT ![active] = y]
          /\ y.reset = (x.reset \/ x.worker = "closed")
          /\ y.server = x.server /\ y.worker = x.worker /\ y.part = x.part
    BY <1>0, <1>4, ClientSendFields
  <2>4. ResetMove(x, y)
    BY <2>2, <2>3 DEF ResetMove, ResetOf
  <2> QED
    BY <1>0, <2>1, <2>2, <2>3, <2>4, ResetOne
<1>5. CASE ClientReceive
  <2>1. InCall /\ killed' = killed
    BY <1>5 DEF ClientReceive, InCall, servers
  <2> DEFINE x == conn[active]
  <2>2. active \in DOMAIN conn /\ x \in Connection /\ ResetOf(x)
    BY <1>0, <2>1, ActiveTyped, ResetSplit
  <2>3. PICK k \in Nat, y \in Connection :
          /\ conn' = [conn EXCEPT ![active] = y]
          /\ y.server = x.server /\ y.client = x.client /\ y.worker = x.worker
          /\ y.stage = x.stage /\ y.part = x.part /\ y.reset = x.reset /\ y.asked = x.asked
    BY <1>0, <1>5, ClientReceiveFields
  <2>4. ResetMove(x, y)
    BY <2>2, <2>3 DEF ResetMove, ResetOf
  <2> QED
    BY <1>0, <2>1, <2>2, <2>3, <2>4, ResetOne
<1>6. CASE ClientSendKilled
  <2>1. killed' = killed /\ conn' = [c \in DOMAIN conn |-> Closed(c)[c]]
    BY <1>6 DEF ClientSendKilled, Killed, servers
  <2>2. \A c \in DOMAIN conn : Closed(c)[c] = ClosedEnd(conn[c])
    BY <1>0, ClosedOne
  <2> QED
    BY <1>0, <2>1, <2>2, ResetEnd
<1>7. CASE TimeOut \/ ConnectionLost \/ Return
  <2>1. InCall /\ killed' = killed
    BY <1>7 DEF TimeOut, ConnectionLost, Return, InCall, servers
  <2>2. active \in DOMAIN conn /\ Closed(active) = [conn EXCEPT ![active] = ClosedEnd(conn[active])]
    BY <1>0, <2>1, ActiveTyped, ClosedOne
  <2>3. conn' = conn \/ conn' = Closed(active)
    BY <1>7 DEF TimeOut, ConnectionLost, Return, Fail
  <2> QED
    BY <1>0, <2>1, <2>2, <2>3, ResetEnd
<1>8. CASE Redirect
  <2>1. killed' = killed /\ request \in Requests
    BY <1>0, <1>8, RedirectQuiet DEF Redirect, servers
  <2>2. CASE OpenConnection("other", request)
    BY <1>0, <2>1, <2>2, ResetNew DEF Servers
  <2>3. CASE conn' = conn
    BY <1>0, <2>1, <2>3, ResetEnd
  <2> QED
    BY <1>8, <2>2, <2>3 DEF Redirect
<1> QED
  BY <1>1, <1>2, <1>3, <1>4, <1>5, <1>6, <1>7, <1>8 DEF ClientStep

(* The steps of the workers. *)
LEMMA ResetWorker ==
  ASSUME CallInv, ResetSide, NEW c \in DOMAIN conn, handle_client(c)
  PROVE  ResetSide'
<1> DEFINE x == conn[c]
<1>0. FrameInv /\ AnswerSide
  BY DEF CallInv
<1>1. x \in Connection /\ RequestSide(x) /\ ResetOf(x)
  BY <1>0, ConnectionsTyped, ResetSplit
<1>2. CASE ServerReceive(c)
  <2>1. killed' = killed
    BY <1>2 DEF ServerReceive, servers
  <2> DEFINE y == conn'[c]
  <2>2. /\ x.worker = "open" /\ x.asked # Refused
        /\ y.server = x.server /\ y.worker = x.worker /\ y.reset = x.reset
        /\ \A d \in DOMAIN conn : d # c => conn'[d] = conn[d]
        /\ DOMAIN conn' = DOMAIN conn
    BY <1>0, <1>2, ServerReceiveFields
  <2>3. ResetMove(x, y)
    BY <1>1, <2>2 DEF ResetMove, ResetOf
  <2>4. \A d \in DOMAIN conn : ResetMove(conn[d], conn'[d])
    BY <2>2, <2>3, ResetSplit DEF ResetMove
  <2> QED
    BY <1>0, <2>1, <2>2, <2>4, ResetStep
<1>3. CASE ServerGivesUp(c)
  <2>1. killed' = killed /\ conn' = [conn EXCEPT ![c] = WorkerClosed(x)]
    BY <1>3 DEF ServerGivesUp, servers
  <2> QED
    BY <1>0, <1>1, <2>1, ResetClosed, ResetOne
<1>4. CASE process_request(c)
  <2> DEFINE z(r) == [x EXCEPT !.stage = "reply", !.reply = encodeResponse(r), !.part = FALSE,
                               !.buffer = <<>>, !.asked = Refused,
                               !.answer = IF Gone(c) THEN x.answer ELSE r]
  <2>0. PICK r \in Responses : conn' = [conn EXCEPT ![c] = z(r)]
    BY <1>0, <1>4, ProcessRequest
  <2> DEFINE y == z(r)
  <2>1. /\ x.asked # Refused /\ x.worker = "open" /\ conn' = [conn EXCEPT ![c] = y]
    BY <1>0, <1>4, <2>0, ProcessRequest
  <2>2. killed' = killed
    BY <1>4 DEF process_request
  <2>3. y.server = x.server /\ y.worker = x.worker /\ y.reset = x.reset
    BY <1>1 DEF Connection
  <2> HIDE DEF y
  <2>4. ResetMove(x, y)
    BY <1>1, <2>1, <2>3 DEF ResetMove, ResetOf
  <2> QED
    BY <1>0, <2>1, <2>2, <2>4, ResetOne
<1>5. CASE ServerSend(c) \/ ServerSendFails(c) \/ ServerSendKilled(c)
  <2>0. /\ x.stage \in {"reply", "refuse"} /\ x.worker = "open"
    BY <1>5 DEF ServerSend, ServerSendFails, ServerSendKilled, Open
  <2>1. x.stage = "reply" /\ x.asked = Refused
    <3>1. x.stage = "reply"
      BY <1>1, <2>0 DEF Connection, Stages
    <3> QED
      BY <1>1, <2>0, <3>1 DEF RequestSide, StageAt
  <2>2. CASE ServerSend(c)
    <3>1. PICK k \in 1 .. Len(x.reply) : conn' = [conn EXCEPT ![c] = SendEffect(x, k)]
      BY <1>0, <2>2, ServerSendMoves
    <3>2. killed' = killed
      BY <2>2 DEF ServerSend, servers
    <3> DEFINE y == SendEffect(x, k)
    <3>3. y = SendEffect(x, k) /\ conn' = [conn EXCEPT ![c] = y]
      BY <3>1
    <3> HIDE DEF y
    <3>4. /\ y.server = x.server /\ y.client = x.client /\ y.worker = x.worker
          /\ y.asked = x.asked /\ y.reset = (x.reset \/ x.client = "closed")
          /\ y.part = (k < Len(x.reply))
          /\ (k < Len(x.reply)) \/ y.stage = "header"
      <4> HIDE DEF x
      <4> QED
        BY <1>1, <2>1, <3>1, <3>3, SendFields
    <3>5. ResetMove(x, y)
      BY <1>1, <2>0, <2>1, <3>4 DEF ResetMove, ResetOf
    <3> QED
      BY <1>0, <3>2, <3>3, <3>5, ResetOne
  <2>3. CASE ServerSendFails(c)
    <3>1. killed' = killed /\ conn' = [conn EXCEPT ![c] = AfterReply(x)]
      BY <2>3 DEF ServerSendFails, servers
    <3> DEFINE y == AfterReply(x)
    <3>2. /\ y.server = x.server /\ y.client = x.client /\ y.worker = x.worker
          /\ y.asked = x.asked /\ y.reset = x.reset /\ y.stage = "header"
      BY <1>1, <2>1 DEF AfterReply, Connection
    <3> HIDE DEF y
    <3>3. ResetMove(x, y)
      BY <1>1, <2>0, <3>2 DEF ResetMove, ResetOf
    <3> QED
      BY <1>0, <3>1, <3>3, ResetOne DEF y
  <2>4. CASE ServerSendKilled(c)
    <3>1. /\ killed' = [killed EXCEPT ![x.server] = TRUE] /\ x.reset /\ x.client = "closed"
          /\ conn' = [d \in DOMAIN conn |-> IF conn[d].server = x.server
                                            THEN WorkerClosed(conn[d])
                                            ELSE conn[d]]
      BY <2>4 DEF ServerSendKilled, Gone
    <3>2. x.part
      BY <1>1, <2>0, <2>1, <3>1 DEF ResetOf
    <3>3. /\ killed \in [Servers -> BOOLEAN]
          /\ \A d \in DOMAIN conn : conn[d] \in Connection /\ ResetOf(conn[d])
      BY <1>0, ConnectionsTyped, ResetSplit
    <3>4. \A d \in DOMAIN conn : LET y == WorkerClosed(conn[d])
            IN  y.server = conn[d].server /\ y.worker = "closed" /\ y.part = conn[d].part
      BY <3>3 DEF WorkerClosed, Connection
    <3>5. DOMAIN conn' = DOMAIN conn
      BY <3>1
    <3>6. \A d \in DOMAIN conn : /\ conn'[d].server = conn[d].server
                                 /\ conn'[d].part = conn[d].part
                                 /\ conn[d].server = x.server => conn'[d].worker = "closed"
                                 /\ conn[d].server # x.server => conn'[d] = conn[d]
      BY <3>1, <3>4
    <3>7. \A d \in DOMAIN conn : ResetOf(conn'[d])
      BY <3>3, <3>6 DEF ResetOf
    <3>8. ASSUME NEW s \in Servers, killed'[s]
          PROVE  /\ \E d \in DOMAIN conn : conn'[d].server = s /\ conn'[d].part
                 /\ \A d \in DOMAIN conn : conn'[d].server = s => conn'[d].worker # "open"
      <4>1. CASE s = x.server
        BY <3>2, <3>6, <4>1
      <4>2. CASE s # x.server
        <5>1. killed[s]
          BY <3>1, <3>3, <3>8, <4>2
        <5>2. /\ \E d \in DOMAIN conn : conn[d].server = s /\ conn[d].part
              /\ \A d \in DOMAIN conn : conn[d].server = s => conn[d].worker # "open"
          BY <5>1, ResetSplit
        <5> QED
          BY <3>6, <4>2, <5>2
      <4> QED
        BY <4>1, <4>2
    <3> QED
      BY <3>5, <3>7, <3>8 DEF ResetSide, ResetOf, Open, Gone
  <2> QED
    BY <1>5, <2>2, <2>3, <2>4
<1> QED
  BY <1>2, <1>3, <1>4, <1>5 DEF handle_client

(* Every step keeps ResetSide. *)
LEMMA ResetInvNext ==
  ASSUME CallInv, ResetSide, [Next]_vars
  PROVE  ResetSide'
<1>1. CASE UNCHANGED vars
  BY <1>1 DEF vars, servers, ResetSide, Open, Gone
<1> QED
  BY <1>1, ResetCaller, ResetWorker DEF Next

(* A server is ended by SIGPIPE only in the middle of a reply: after the   *)
(* last byte of one its worker reads and sees that the caller has left.    *)
THEOREM EndedMidReply == Spec => []KilledOnlyMidReply
<1>1. Init => ResetSide
  <2> SUFFICES ASSUME Init PROVE ResetSide
    OBVIOUS
  <2>1. DOMAIN conn = {} /\ \A s \in Servers : ~killed[s]
    BY DEF Init
  <2> QED
    BY <2>1 DEF ResetSide
<1>2. ResetSide /\ CallInv /\ [Next]_vars => ResetSide'
  BY ResetInvNext
<1>3. ResetSide => KilledOnlyMidReply
  BY DEF ResetSide, KilledOnlyMidReply
<1> QED
  BY <1>1, <1>2, <1>3, CallInvariant, PTL DEF Spec
-----------------------------------------------------------------------------
(* What is stored and what a GET returns.                                  *)

(* The request on the connection of the call in progress is that call's,   *)
(* as long as it has not been executed.                                    *)
LEMMA ActiveAsked ==
  ASSUME FrameInv, AnswerSide, InCall, Open(active)
  PROVE  conn[active].asked \in {request, Refused}
<1>1. CASE pc = "connect"
  BY <1>1, RedirectQuiet DEF Quiet
<1>2. CASE pc # "connect"
  BY <1>2 DEF FrameInv, CallerSide, InCall
<1> QED
  BY <1>1, <1>2

(* Steps after which the same call is in progress, with the same answer,   *)
(* or none is, as before.                                                  *)
LEMMA StorageSame ==
  ASSUME StorageSide, UNCHANGED <<socket, active, request, possible, unsure, storage, copies>>,
         InCall' <=> InCall, DOMAIN conn' = DOMAIN conn,
         InCall => active \in DOMAIN conn, socket # 0 => socket \in DOMAIN conn,
         \A d \in DOMAIN conn :
           /\ conn'[d].server = conn[d].server /\ conn'[d].answer = conn[d].answer
           /\ conn'[d].asked \in {conn[d].asked, Refused}
           /\ conn'[d].worker = "open" => conn[d].worker = "open"
  PROVE  StorageSide'
<1>1. ~Changes(Refused)
  BY DEF Changes, Refused, Request, PUT, DELETE
<1>2. InCall => conn'[active].answer = conn[active].answer /\ conn'[active].server = conn[active].server
  OBVIOUS
<1>3. \A k : /\ Executed(k)' <=> Executed(k)
             /\ Executed(k) => Outcome' = Outcome
  BY <1>2 DEF Executed, Answered, Changes, Outcome
<1>4. Stored'
  BY <1>3 DEF StorageSide, Stored
<1>5. Pending'
  BY <1>1 DEF StorageSide, Pending, Open, Changes
<1>6. OtherAsked'
  BY DEF StorageSide, OtherAsked
<1>7. OtherCalled' /\ OwnSocket'
  BY <1>2 DEF StorageSide, OtherCalled, OwnSocket
<1>8. AnswerKnown'
  BY <1>2 DEF StorageSide, AnswerKnown, Answered, Explained
<1> QED
  BY <1>4, <1>5, <1>6, <1>7, <1>8 DEF StorageSide

(* The end of a call, of one kind or another. *)
LEMMA StorageEnd ==
  ASSUME StorageSide, storage' = storage /\ copies' = copies, pc' \in {"idle", "killed"}, active' = 0,
         socket' \in {0, socket}, DOMAIN conn' = DOMAIN conn, 0 \notin DOMAIN conn,
         socket # 0 => socket \in DOMAIN conn,
         \A d \in DOMAIN conn :
           /\ conn'[d].server = conn[d].server /\ conn'[d].worker = conn[d].worker
           /\ conn'[d].asked = conn[d].asked,
         \A k \in Keys : unsure[k] \subseteq unsure'[k],
         \A k \in Keys : (IF Executed(k) THEN {Outcome} ELSE possible[k])
                           \subseteq unsure'[k] \cup possible'[k],
         \A d \in DOMAIN conn : Changes(conn[d].asked) => conn[d].asked.key \in Keys,
         active \in DOMAIN conn /\ Open(active) /\ Changes(conn[active].asked) =>
           {conn[active].asked.value, NoValue} \subseteq unsure'[conn[active].asked.key]
  PROVE  StorageSide'
<1>1. ~InCall'
  BY DEF InCall
<1>2. Stored'
  <2> SUFFICES ASSUME NEW k \in Keys PROVE storage[Home(k)][k] \in unsure'[k] \cup possible'[k]
    BY <1>1 DEF Stored, Executed, Home
  <2> QED
    BY DEF StorageSide, Stored
<1>3. Pending'
  BY DEF StorageSide, Pending, Open, Changes
<1>4. OtherAsked' /\ OwnSocket'
  BY DEF StorageSide, OtherAsked, OwnSocket
<1>5. OtherCalled' /\ AnswerKnown'
  BY <1>1 DEF OtherCalled, AnswerKnown
<1> QED
  BY <1>2, <1>3, <1>4, <1>5 DEF StorageSide

(* The connections, as StorageEnd needs them. *)
LEMMA StorageConnections ==
  ASSUME FrameInv
  PROVE  /\ 0 \notin DOMAIN conn /\ (socket # 0 => socket \in DOMAIN conn)
         /\ \A d \in DOMAIN conn : Changes(conn[d].asked) => conn[d].asked.key \in Keys
         /\ possible \in [Keys -> SUBSET Values] /\ unsure \in [Keys -> SUBSET Values]
         /\ \A d \in DOMAIN conn :
              LET y == ClosedEnd(conn[d])
              IN  /\ y.server = conn[d].server /\ y.worker = conn[d].worker
                  /\ y.asked = conn[d].asked
<1>1. /\ DOMAIN conn = 1 .. opened /\ socket \in 0 .. opened /\ opened \in Nat
      /\ possible \in [Keys -> SUBSET Values] /\ unsure \in [Keys -> SUBSET Values]
  BY ConnectionsTyped DEF FrameInv, Types
<1>2. \A d \in DOMAIN conn : conn[d] \in Connection
  BY ConnectionsTyped
<1>3. ASSUME NEW d \in DOMAIN conn, Changes(conn[d].asked) PROVE conn[d].asked.key \in Keys
  <2>1. conn[d].asked \in Requests
    BY <1>2, <1>3 DEF Connection, Changes, Refused, Request, PUT, DELETE
  <2> QED
    BY <1>3, <2>1, RequestsFit DEF Changes, PING, PUT, DELETE
<1>4. \A d \in DOMAIN conn :
        LET y == ClosedEnd(conn[d])
        IN  /\ y.server = conn[d].server /\ y.worker = conn[d].worker
            /\ y.asked = conn[d].asked
  BY <1>2 DEF ClosedEnd, Connection
<1>5. 0 \notin DOMAIN conn /\ (socket # 0 => socket \in DOMAIN conn)
  BY <1>1
<1> QED
  BY <1>1, <1>3, <1>4, <1>5

(* A call without answer. *)
LEMMA StorageFailure ==
  ASSUME FrameInv, AnswerSide, StorageSide, InCall, NoteFailure, storage' = storage /\ copies' = copies,
         pc' \in {"idle", "killed"}, active' = 0, socket' \in {0, socket},
         DOMAIN conn' = DOMAIN conn,
         \A d \in DOMAIN conn : conn'[d] \in {conn[d], ClosedEnd(conn[d])}
  PROVE  StorageSide'
<1>1. /\ 0 \notin DOMAIN conn /\ (socket # 0 => socket \in DOMAIN conn)
      /\ \A d \in DOMAIN conn : Changes(conn[d].asked) => conn[d].asked.key \in Keys
      /\ possible \in [Keys -> SUBSET Values] /\ unsure \in [Keys -> SUBSET Values]
      /\ \A d \in DOMAIN conn :
           /\ conn'[d].server = conn[d].server /\ conn'[d].worker = conn[d].worker
           /\ conn'[d].asked = conn[d].asked
  BY StorageConnections
<1>2. /\ unsure' = IF Changes(request)
                   THEN [unsure EXCEPT ![request.key] = @ \cup {request.value, NoValue}]
                   ELSE unsure
      /\ possible' = possible
  BY DEF NoteFailure, Changes
<1>3. Changes(request) => request.key \in Keys
  BY ActiveTyped, RequestsFit DEF Changes, PING, PUT, DELETE
<1>4. \A k \in Keys : unsure[k] \subseteq unsure'[k]
  BY <1>1, <1>2
<1>5. Changes(request) => {request.value, NoValue} \subseteq unsure'[request.key]
  BY <1>1, <1>2, <1>3
<1>6. \A k \in Keys : (IF Executed(k) THEN {Outcome} ELSE possible[k])
                        \subseteq unsure'[k] \cup possible'[k]
  BY <1>2, <1>5 DEF Executed, Outcome
<1>7. active \in DOMAIN conn /\ Open(active) /\ Changes(conn[active].asked) =>
        {conn[active].asked.value, NoValue} \subseteq unsure'[conn[active].asked.key]
  BY <1>5, ActiveAsked DEF Changes, Refused, Request, PUT, DELETE
<1> QED
  BY <1>1, <1>4, <1>6, <1>7, StorageEnd

(* Return. *)
LEMMA StorageReturn ==
  ASSUME FrameInv, AnswerSide, StorageSide, Return
  PROVE  StorageSide'
<1> DEFINE r == decodeResponse(input)
<1>1. storage' = storage /\ copies' = copies /\ pc = "payload"
  BY DEF Return, servers
<1>2. /\ InCall /\ Answered /\ r # RefusedResponse /\ r = conn[active].answer
      /\ Quiet(conn[active])
  BY <1>1, ReturnAnswer DEF Return
<1>3. /\ 0 \notin DOMAIN conn /\ (socket # 0 => socket \in DOMAIN conn)
      /\ \A d \in DOMAIN conn : Changes(conn[d].asked) => conn[d].asked.key \in Keys
      /\ possible \in [Keys -> SUBSET Values] /\ unsure \in [Keys -> SUBSET Values]
      /\ active \in DOMAIN conn
  BY <1>2, StorageConnections, ActiveTyped
<1>4. CASE r.status = REDIRECT /\ active = socket
  <2>1. pc' = "connect" /\ UNCHANGED <<socket, conn, active, request, possible, unsure>>
    BY <1>2, <1>4 DEF Return, history
  <2>2. InCall'
    BY <2>1 DEF InCall
  <2> QED
    BY <1>1, <1>2, <1>3, <2>1, <2>2, StorageSame
<1>5. CASE ~(r.status = REDIRECT /\ active = socket)
  <2>1. /\ Goto("idle") /\ conn' = (IF active = socket THEN conn ELSE Closed(active))
        /\ socket' = socket /\ Note(r)
    BY <1>2, <1>5 DEF Return
  <2>2. pc' = "idle" /\ active' = 0
    BY <2>1 DEF Goto
  <2>3. r.status # REDIRECT
    BY <1>2, <1>5 DEF StorageSide, AnswerKnown
  <2>4. /\ possible' = IF Changes(request)
                       THEN [possible EXCEPT ![request.key] = {Outcome}]
                       ELSE possible
        /\ unsure' = unsure
    BY <1>2, <2>1 DEF Note, Changes, Outcome
  <2>5. \A k \in Keys : (IF Executed(k) THEN {Outcome} ELSE possible[k])
                          \subseteq unsure'[k] \cup possible'[k]
    <3> SUFFICES ASSUME NEW k \in Keys
                 PROVE  (IF Executed(k) THEN {Outcome} ELSE possible[k])
                          \subseteq possible'[k]
      OBVIOUS
    <3>1. CASE Changes(request) /\ request.key = k
      BY <1>2, <1>3, <2>3, <2>4, <3>1 DEF Executed
    <3>2. CASE ~(Changes(request) /\ request.key = k)
      BY <1>3, <2>4, <3>2 DEF Executed
    <3> QED
      BY <3>1, <3>2
  <2>6. Closed(active) = [conn EXCEPT ![active] = ClosedEnd(conn[active])]
    BY <1>3, ClosedOne
  <2>7. DOMAIN conn' = DOMAIN conn /\ \A d \in DOMAIN conn : conn'[d] \in {conn[d], ClosedEnd(conn[d])}
    BY <2>1, <2>6
  <2>8. \A d \in DOMAIN conn :
           /\ conn'[d].server = conn[d].server /\ conn'[d].worker = conn[d].worker
           /\ conn'[d].asked = conn[d].asked
    BY <2>7, StorageConnections
  <2>9. ~Changes(conn[active].asked)
    BY <1>2 DEF Quiet, Changes, Refused, Request, PUT, DELETE
  <2>10. \A k \in Keys : unsure[k] \subseteq unsure'[k]
    BY <2>4
  <2> QED
    BY <1>1, <1>3, <2>1, <2>2, <2>5, <2>7, <2>8, <2>9, <2>10, StorageEnd
<1> QED
  BY <1>4, <1>5

(* A new connection, before any call or to follow a redirect. *)
LEMMA StorageConnect ==
  ASSUME FrameInv, StorageSide, connect
  PROVE  StorageSide'
<1> DEFINE y == conn'[opened']
<1>1. /\ pc = "idle" /\ OpenConnection("own", Refused) /\ socket' = opened'
      /\ pc' = "idle" /\ UNCHANGED <<active, request, storage, copies, possible, unsure>>
  BY DEF connect, servers, history
<1>2. /\ opened' = opened + 1 /\ opened \in Nat
      /\ DOMAIN conn' = 1 .. opened' /\ DOMAIN conn = 1 .. opened
      /\ \A d \in DOMAIN conn : conn'[d] = conn[d]
      /\ y.server = "own" /\ y.asked = Refused
  BY <1>1, NewFields DEF Servers
<1>3. \A d \in DOMAIN conn' : d \in DOMAIN conn \/ d = opened'
  BY <1>2
<1>4. ~InCall /\ ~InCall' /\ ~Changes(Refused)
  BY <1>1 DEF InCall, Changes, Refused, Request, PUT, DELETE
<1>5. Stored'
  BY <1>1, <1>4 DEF StorageSide, Stored, Executed
<1>6. Pending'
  <2> SUFFICES ASSUME NEW d \in DOMAIN conn', conn'[d].worker = "open", d # active',
                      Changes(conn'[d].asked)
               PROVE  {conn'[d].asked.value, NoValue} \subseteq unsure'[conn'[d].asked.key]
    BY DEF Pending, Open, Changes
  <2>1. d \in DOMAIN conn /\ conn'[d] = conn[d]
    BY <1>2, <1>3, <1>4
  <2> QED
    BY <1>1, <2>1 DEF StorageSide, Pending, Open
<1>7. OtherAsked'
  BY <1>2, <1>3 DEF StorageSide, OtherAsked
<1>8. OtherCalled' /\ OwnSocket' /\ AnswerKnown'
  BY <1>1, <1>2, <1>4 DEF OtherCalled, OwnSocket, AnswerKnown
<1> QED
  BY <1>5, <1>6, <1>7, <1>8 DEF StorageSide

(* disconnect leaves the storages and what is known of them alone. *)
LEMMA StorageDisconnect ==
  ASSUME FrameInv, StorageSide, disconnect
  PROVE  StorageSide'
<1>1. /\ pc = "idle" /\ socket # 0 /\ pc' = "idle" /\ socket' = 0 /\ conn' = Closed(socket)
      /\ UNCHANGED <<active, request, storage, copies, possible, unsure>>
  BY DEF disconnect, servers, history
<1>2. /\ 0 \notin DOMAIN conn /\ socket \in DOMAIN conn /\ active = 0 /\ ~InCall
      /\ \A d \in DOMAIN conn : Changes(conn[d].asked) => conn[d].asked.key \in Keys
  BY <1>1, StorageConnections DEF FrameInv, CallerSide, InCall
<1>3. conn' = [conn EXCEPT ![socket] = ClosedEnd(conn[socket])]
  BY <1>1, <1>2, ClosedOne
<1>4. DOMAIN conn' = DOMAIN conn /\ \A d \in DOMAIN conn : conn'[d] \in {conn[d], ClosedEnd(conn[d])}
  BY <1>3
<1>5. \A d \in DOMAIN conn :
         /\ conn'[d].server = conn[d].server /\ conn'[d].worker = conn[d].worker
         /\ conn'[d].asked = conn[d].asked
  BY <1>4, StorageConnections
<1>6. \A k \in Keys : (IF Executed(k) THEN {Outcome} ELSE possible[k])
                        \subseteq unsure'[k] \cup possible'[k]
  BY <1>1, <1>2 DEF Executed
<1> QED
  BY <1>1, <1>2, <1>4, <1>5, <1>6, StorageEnd

(* A call begins with no change made. *)
LEMMA StorageBegin ==
  ASSUME FrameInv, StorageSide,
         NEW op \in {GET, PUT, DELETE, PING}, NEW key, Begin(op, key),
         IF op = PING THEN key = <<>> ELSE key \in Keys
  PROVE  StorageSide'
<1> DEFINE x == conn[socket]
           y == [x EXCEPT !.asked = request', !.answer = RefusedResponse]
<1>1. conn' = [conn EXCEPT ![socket] = y] /\ socket \in DOMAIN conn
  BY FrameBegin
<1>2. /\ pc = "idle" /\ pc' = "send" /\ active' = socket /\ socket' = socket /\ socket # 0
      /\ UNCHANGED <<storage, copies, possible, unsure>>
  BY DEF Begin, servers, history
<1>3. active = 0 /\ ~InCall /\ x \in Connection /\ 0 \notin DOMAIN conn
  BY <1>1, <1>2, ConnectionsTyped, StorageConnections DEF FrameInv, CallerSide, InCall
<1>4. y.server = "own" /\ y.answer = RefusedResponse
  BY <1>2, <1>3 DEF StorageSide, OwnSocket, Connection
<1> HIDE DEF y
<1>5. conn'[socket] = y /\ DOMAIN conn' = DOMAIN conn /\ \A d \in DOMAIN conn : d # socket => conn'[d] = conn[d]
  BY <1>1
<1>6. ~Answered'
  BY <1>2, <1>4, <1>5 DEF Answered
<1>7. Stored'
  BY <1>2, <1>3, <1>6 DEF StorageSide, Stored, Executed
<1>8. Pending'
  <2> SUFFICES ASSUME NEW d \in DOMAIN conn, conn'[d].worker = "open", d # socket,
                      Changes(conn'[d].asked)
               PROVE  {conn'[d].asked.value, NoValue} \subseteq unsure'[conn'[d].asked.key]
    BY <1>2, <1>5 DEF Pending, Open, Changes
  <2> QED
    BY <1>2, <1>3, <1>5 DEF StorageSide, Pending, Open
<1>9. OtherAsked'
  BY <1>4, <1>5 DEF StorageSide, OtherAsked
<1>10. OtherCalled' /\ OwnSocket' /\ AnswerKnown'
  BY <1>2, <1>4, <1>5, <1>6 DEF OtherCalled, OwnSocket, AnswerKnown
<1> QED
  BY <1>7, <1>8, <1>9, <1>10 DEF StorageSide

(* A redirect is followed to the server that keeps the key. *)
LEMMA StorageRedirect ==
  ASSUME FrameInv, AnswerSide, StorageSide, Redirect
  PROVE  StorageSide'
<1>1. pc = "connect" /\ socket' = socket /\ storage' = storage /\ copies' = copies
  BY DEF Redirect, servers
<1>2. /\ InCall /\ active = socket /\ socket \in DOMAIN conn /\ request \in Requests
      /\ Answered /\ Quiet(conn[socket]) /\ conn[active].answer.status = REDIRECT
  BY <1>1, RedirectQuiet
<1>3. /\ 0 \notin DOMAIN conn /\ socket # 0
      /\ \A d \in DOMAIN conn : Changes(conn[d].asked) => conn[d].asked.key \in Keys
  BY <1>2, StorageConnections
<1>4. request.opcode # PING /\ request.key \in Redirected
  BY <1>2 DEF StorageSide, AnswerKnown
<1>5. \A k : ~Executed(k)
  BY <1>2 DEF Executed
<1>6. ~Changes(conn[active].asked)
  BY <1>2 DEF Quiet, Changes, Refused, Request, PUT, DELETE
<1>7. CASE /\ OpenConnection("other", request) /\ pc' = "send" /\ active' = opened'
           /\ UNCHANGED <<request, history>>
  <2> DEFINE y == conn'[opened']
  <2>1. /\ opened' = opened + 1 /\ opened \in Nat
        /\ DOMAIN conn' = 1 .. opened' /\ DOMAIN conn = 1 .. opened
        /\ \A d \in DOMAIN conn : conn'[d] = conn[d]
        /\ y.server = "other" /\ y.asked = request /\ y.answer = RefusedResponse
    BY <1>2, <1>7, NewFields DEF Servers
  <2>2. \A d \in DOMAIN conn' : d \in DOMAIN conn \/ d = opened'
    BY <2>1
  <2>3. /\ UNCHANGED <<request, possible, unsure>> /\ ~Answered'
    BY <1>7, <2>1 DEF history, Answered
  <2>4. Stored'
    BY <1>1, <1>5, <2>3 DEF StorageSide, Stored, Executed
  <2>5. Pending'
    <3> SUFFICES ASSUME NEW d \in DOMAIN conn', conn'[d].worker = "open", d # opened',
                        Changes(conn'[d].asked)
                 PROVE  {conn'[d].asked.value, NoValue} \subseteq unsure'[conn'[d].asked.key]
      BY <1>7 DEF Pending, Open, Changes
    <3>1. d \in DOMAIN conn /\ conn'[d] = conn[d]
      BY <2>1, <2>2
    <3>2. d # active
      BY <1>6, <3>1
    <3> QED
      BY <2>3, <3>1, <3>2 DEF StorageSide, Pending, Open
  <2>6. OtherAsked'
    BY <1>4, <2>1, <2>2 DEF StorageSide, OtherAsked
  <2>7. OtherCalled' /\ OwnSocket' /\ AnswerKnown'
    BY <1>1, <1>2, <1>4, <1>7, <2>1, <2>3 DEF StorageSide, OtherCalled, OwnSocket, AnswerKnown
  <2> QED
    BY <2>4, <2>5, <2>6, <2>7 DEF StorageSide
<1>8. CASE Goto("idle") /\ UNCHANGED <<opened, conn, history>>
  <2>1. pc' = "idle" /\ active' = 0 /\ conn' = conn /\ possible' = possible /\ unsure' = unsure
    BY <1>8 DEF Goto, history
  <2>2. \A k \in Keys : (IF Executed(k) THEN {Outcome} ELSE possible[k])
                          \subseteq unsure'[k] \cup possible'[k]
    BY <1>5, <2>1
  <2> QED
    BY <1>1, <1>2, <1>3, <1>6, <2>1, <2>2, StorageEnd
<1> QED
  BY <1>7, <1>8 DEF Redirect

(* The steps of the caller. *)
LEMMA StorageCaller ==
  ASSUME CallInv, StorageSide,
         \/ connect \/ disconnect \/ ClientStep
         \/ (\E key \in Keys, op \in {GET, PUT, DELETE} : Begin(op, key)) \/ Begin(PING, <<>>)
  PROVE  StorageSide'
<1>0. FrameInv /\ AnswerSide /\ (socket # 0 => socket \in DOMAIN conn)
  BY StorageConnections DEF CallInv
<1>1. CASE connect \/ disconnect
  BY <1>0, <1>1, StorageConnect, StorageDisconnect
<1>2. CASE (\E key \in Keys, op \in {GET, PUT, DELETE} : Begin(op, key)) \/ Begin(PING, <<>>)
  <2>1. PICK op \in {GET, PUT, DELETE, PING}, key \in Keys \cup {<<>>} :
          Begin(op, key) /\ IF op = PING THEN key = <<>> ELSE key \in Keys
    BY <1>2, SomeBegin
  <2> QED
    BY <1>0, <2>1, StorageBegin
<1>3. CASE Return \/ Redirect
  BY <1>0, <1>3, StorageReturn, StorageRedirect
<1>4. CASE ClientSend
  <2>1. /\ InCall /\ UNCHANGED <<socket, active, request, storage, copies>>
        /\ possible' = possible /\ unsure' = unsure
    BY <1>4 DEF ClientSend, InCall, servers, AfterSend, WaitForReply, history
  <2>2. PICK k \in 1 .. Len(output), y \in Connection :
          /\ conn' = [conn EXCEPT ![active] = y]
          /\ pc' = IF output' = <<>> THEN "header" ELSE "send"
          /\ y.server = conn[active].server /\ y.worker = conn[active].worker
          /\ y.asked = conn[active].asked /\ y.answer = conn[active].answer
    BY <1>0, <1>4, ClientSendFields
  <2>3. InCall'
    BY <2>2 DEF InCall
  <2>4. active \in DOMAIN conn
    BY <1>0, <2>1, ActiveTyped
  <2>5. DOMAIN conn' = DOMAIN conn /\ \A d \in DOMAIN conn :
           /\ conn'[d].server = conn[d].server /\ conn'[d].answer = conn[d].answer
           /\ conn'[d].asked = conn[d].asked /\ conn'[d].worker = conn[d].worker
    BY <2>2, <2>4
  <2> QED
    BY <1>0, <2>1, <2>3, <2>4, <2>5, StorageSame
<1>5. CASE ClientReceive
  <2>1. /\ InCall /\ InCall' /\ UNCHANGED <<socket, active, request, storage, copies>>
        /\ possible' = possible /\ unsure' = unsure
    BY <1>5 DEF ClientReceive, InCall, servers, history
  <2>2. PICK k \in Nat, y \in Connection :
          /\ conn' = [conn EXCEPT ![active] = y]
          /\ y.server = conn[active].server /\ y.worker = conn[active].worker
          /\ y.asked = conn[active].asked /\ y.answer = conn[active].answer
    BY <1>0, <1>5, ClientReceiveFields
  <2>4. active \in DOMAIN conn
    BY <1>0, <2>1, ActiveTyped
  <2>5. DOMAIN conn' = DOMAIN conn /\ \A d \in DOMAIN conn :
           /\ conn'[d].server = conn[d].server /\ conn'[d].answer = conn[d].answer
           /\ conn'[d].asked = conn[d].asked /\ conn'[d].worker = conn[d].worker
    BY <2>2, <2>4
  <2> QED
    BY <1>0, <2>1, <2>4, <2>5, StorageSame
<1>6. CASE ClientSendKilled
  <2>1. /\ InCall /\ NoteFailure /\ storage' = storage /\ copies' = copies /\ pc' = "killed" /\ active' = 0 /\ socket' = 0
        /\ conn' = [c \in DOMAIN conn |-> Closed(c)[c]]
    BY <1>6 DEF ClientSendKilled, Killed, Goto, InCall, servers
  <2>2. \A c \in DOMAIN conn : Closed(c)[c] = ClosedEnd(conn[c])
    BY <1>0, ClosedOne
  <2> QED
    BY <1>0, <2>1, <2>2, StorageFailure
<1>7. CASE TimeOut \/ ConnectionLost
  <2>1. /\ InCall /\ NoteFailure /\ storage' = storage /\ copies' = copies /\ pc' = "idle" /\ active' = 0
        /\ socket' \in {0, socket} /\ conn' = Closed(active)
    BY <1>7 DEF TimeOut, ConnectionLost, Fail, Goto, InCall, servers
  <2>2. active \in DOMAIN conn /\ Closed(active) = [conn EXCEPT ![active] = ClosedEnd(conn[active])]
    BY <1>0, <2>1, ActiveTyped, ClosedOne
  <2> QED
    BY <1>0, <2>1, <2>2, StorageFailure
<1> QED
  BY <1>1, <1>2, <1>3, <1>4, <1>5, <1>6, <1>7 DEF ClientStep

(* The server that executes a request keeps its key, and what it answers   *)
(* to a GET is what it stores or, without that, what a replica kept.       *)
LEMMA ExecutedAtHome ==
  ASSUME FrameInv, StorageSide, NEW c \in DOMAIN conn, NEW s, s = conn[c].server,
         NEW req \in Requests, req = conn[c].asked, NEW r \in Answers(s, req)
  PROVE  IF Redirects(s, req)
         THEN r.status = REDIRECT /\ s = "own" /\ req.opcode # PING /\ req.key \in Redirected
         ELSE /\ r.status # REDIRECT
              /\ req.opcode # PING => s = Home(req.key)
              /\ req.opcode = GET => r.value \in Found(s, req.key)
<1>1. /\ req # Refused /\ req.opcode \in {GET, PUT, DELETE, PING} /\ s \in Servers
  BY RequestsFit, ConnectionsTyped DEF Connection
<1>2. CASE Redirects(s, req)
  BY <1>2 DEF Answers, Response, Redirects, Elsewhere
<1>3. CASE ~Redirects(s, req)
  <2> USE DEF SUCCESS, KEY_NOT_FOUND, ERROR, REDIRECT, GET, PUT, DELETE, PING
  <2>2. req.opcode # PING => s = Home(req.key)
    BY <1>1, <1>3 DEF Redirects, Elsewhere, Home, Servers, StorageSide, OtherAsked
  <2>3. CASE req.opcode \in {GET, DELETE}
    <3>1. PICK v \in Found(s, req.key) :
            r = Response(IF v = NoValue THEN KEY_NOT_FOUND ELSE SUCCESS,
                         IF req.opcode = GET THEN v ELSE <<>>)
      BY <1>3, <2>3 DEF Answers
    <3> QED
      BY <1>3, <2>2, <3>1 DEF Response
  <2>4. req.opcode \in {PING, PUT} => r.status # REDIRECT
    BY <1>3 DEF Answers, Response
  <2> QED
    BY <1>1, <1>3, <2>2, <2>3, <2>4
<1> QED
  BY <1>2, <1>3

(* Process changes the storage of the server of the key, or redirects. *)
LEMMA StorageProcess ==
  ASSUME FrameInv, AnswerSide, StorageSide, NEW c \in DOMAIN conn, process_request(c)
  PROVE  StorageSide'
<1> DEFINE x == conn[c]
           s == x.server
           req == x.asked
           z(r) == [x EXCEPT !.stage = "reply", !.reply = encodeResponse(r), !.part = FALSE,
                             !.buffer = <<>>, !.asked = Refused,
                             !.answer = IF Gone(c) THEN x.answer ELSE r]
<1>0. PICK r \in Responses : /\ conn' = [conn EXCEPT ![c] = z(r)]
                             /\ r \in Answers(s, req) /\ Execute(s, req, r)
  BY ProcessRequest
<1> DEFINE y == z(r)
           writes == Changes(req) /\ ~Redirects(s, req)
           made == IF r.status = ERROR THEN NoValue ELSE req.value
<1>1. /\ req \in Requests /\ x.worker = "open" /\ req # Refused
      /\ Sent(x) = Len(encodeRequest(req))
      /\ conn' = [conn EXCEPT ![c] = y] /\ CallerUnchanged
  BY <1>0, ProcessRequest
<1>2. /\ storage \in [Servers -> [Keys -> Values]] /\ s \in Servers /\ x \in Connection
      /\ 0 \notin DOMAIN conn /\ (socket # 0 => socket \in DOMAIN conn)
      /\ Changes(req) => req.key \in Keys
  BY StorageConnections, ConnectionsTyped DEF Connection
<1>3. /\ UNCHANGED <<socket, pc, active, request, possible, unsure>>
  BY <1>1 DEF CallerUnchanged, caller, history
<1>4. /\ y.server = s /\ y.worker = "open" /\ y.asked = Refused
      /\ y.answer = IF Gone(c) THEN x.answer ELSE r
  BY <1>1, <1>2 DEF Connection
<1> HIDE DEF y, z, made
<1>5. conn'[c] = y /\ DOMAIN conn' = DOMAIN conn /\ \A d \in DOMAIN conn : d # c => conn'[d] = conn[d]
  BY <1>1
<1>6. IF Redirects(s, req)
      THEN r.status = REDIRECT /\ s = "own" /\ req.opcode # PING /\ req.key \in Redirected
      ELSE /\ r.status # REDIRECT
           /\ req.opcode # PING => s = Home(req.key)
           /\ req.opcode = GET => r.value \in Found(s, req.key)
  BY <1>0, <1>1, ExecutedAtHome
<1>7. ~Changes(Refused) /\ (InCall' <=> InCall) /\ (Changes(req) => req.opcode # PING)
  BY <1>3 DEF InCall, Changes, Refused, Request, PUT, DELETE, PING
<1>8. Pending'
  <2> SUFFICES ASSUME NEW d \in DOMAIN conn, conn'[d].worker = "open", d # active,
                      Changes(conn'[d].asked)
               PROVE  {conn'[d].asked.value, NoValue} \subseteq unsure[conn'[d].asked.key]
    BY <1>3, <1>5 DEF Pending, Open, Changes
  <2>1. d # c
    BY <1>4, <1>5, <1>7
  <2> QED
    BY <1>5, <2>1 DEF StorageSide, Pending, Open
<1>9. OtherAsked'
  BY <1>4, <1>5 DEF StorageSide, OtherAsked
<1>10. OwnSocket'
  BY <1>2, <1>3, <1>4, <1>5 DEF StorageSide, OwnSocket
<1>11. InCall => active \in DOMAIN conn
  BY ActiveTyped
<1>12. OtherCalled'
  BY <1>3, <1>4, <1>5, <1>7, <1>11 DEF StorageSide, OtherCalled
<1>13. writes => s = Home(req.key) /\ req.key \in Keys
  BY <1>2, <1>6, <1>7
<1>17. storage' = IF writes THEN [storage EXCEPT ![s][req.key] = made] ELSE storage
  BY <1>0, <1>6 DEF Execute, Changes, made
<1>18. \A a \in Servers, k \in Keys : copies[a][k] \subseteq copies'[a][k]
  BY <1>0, <1>1, <1>2, ExecuteTyped
<1>19. \A k \in Keys : Explained(k) \subseteq Explained(k)'
  BY <1>3, <1>18 DEF Explained
<1>14. \A k \in Keys : storage'[Home(k)][k] = IF writes /\ k = req.key THEN made
                                              ELSE storage[Home(k)][k]
  <2>1. \A k \in Keys : Home(k) \in Servers
    BY DEF Home, Servers
  <2>2. CASE writes
    BY <1>2, <1>13, <1>17, <2>1, <2>2
  <2>3. CASE ~writes
    BY <1>17, <2>3
  <2> QED
    BY <2>2, <2>3
<1>15. CASE c # active
  <2>1. InCall => conn'[active] = conn[active]
    BY <1>5, <1>11, <1>15
  <2>2. \A k : /\ Executed(k)' <=> Executed(k)
               /\ Executed(k) => Outcome' = Outcome
    BY <1>3, <1>7, <2>1 DEF Executed, Answered, Changes, Outcome
  <2>3. Stored'
    <3> SUFFICES ASSUME NEW k \in Keys
                 PROVE  storage'[Home(k)][k] \in unsure[k]
                          \cup (IF Executed(k) THEN {Outcome} ELSE possible[k])
      BY <1>3, <2>2 DEF Stored, Home
    <3>1. CASE writes /\ k = req.key
      <4>1. made \in unsure[k]
        BY <1>1, <1>15, <3>1 DEF StorageSide, Pending, Open, made
      <4> QED
        BY <1>14, <3>1, <4>1
    <3>2. CASE ~(writes /\ k = req.key)
      BY <1>14, <3>2 DEF StorageSide, Stored
    <3> QED
      BY <3>1, <3>2
  <2>4. AnswerKnown'
    <3>1. InCall /\ request.opcode = GET => request.key \in Keys
      BY ActiveTyped, RequestsFit DEF GET, PING
    <3> QED
      BY <1>3, <1>7, <1>19, <2>1, <3>1 DEF StorageSide, AnswerKnown, Answered
  <2> QED
    BY <1>8, <1>9, <1>10, <1>12, <2>3, <2>4 DEF StorageSide
<1>16. CASE c = active
  <2>1. InCall
    BY <1>2, <1>16 DEF FrameInv, CallerSide
  <2>2. req = request /\ x.answer = RefusedResponse /\ ~Gone(c)
    <3>1. req = request
      BY <1>1, <1>16, <2>1, ActiveAsked DEF Open
    <3>2. AnswerOf(x, pc, input) /\ x.client = "open"
      BY <1>16, <2>1, ActiveTyped DEF AnswerSide
    <3> QED
      BY <1>1, <3>1, <3>2 DEF AnswerOf, Gone
  <2>3. y.answer = r /\ conn'[active'] = y /\ r # RefusedResponse
    BY <1>1, <1>3, <1>4, <1>5, <1>16, <2>2, ResponsesFit
  <2>4. \A k : ~Executed(k)
    BY <1>16, <2>2 DEF Executed, Answered
  <2>5. \A k \in Keys : storage[Home(k)][k] \in unsure[k] \cup possible[k]
    BY <2>4 DEF StorageSide, Stored
  <2>6. \A k : Executed(k)' <=> (writes /\ k = req.key)
    <3>1. Answered' /\ InCall' /\ request' = req
      BY <1>3, <1>7, <2>1, <2>2, <2>3 DEF Answered
    <3>2. r.status # REDIRECT <=> ~Redirects(s, req)
      BY <1>6
    <3> QED
      BY <2>3, <3>1, <3>2 DEF Executed, Changes
  <2>7. Stored'
    <3> SUFFICES ASSUME NEW k \in Keys
                 PROVE  storage'[Home(k)][k] \in unsure[k]
                          \cup (IF writes /\ k = req.key THEN {made} ELSE possible[k])
      <4>1. Outcome' = made
        BY <1>3, <2>2, <2>3 DEF Outcome, made
      <4> QED
        BY <1>3, <2>6, <4>1 DEF Stored, Home
    <3> QED
      BY <1>14, <2>5
  <2>8. AnswerKnown'
    <3>1. CASE Redirects(s, req)
      <4>1. active = socket
        BY <1>6, <1>16, <2>1, <3>1 DEF StorageSide, OtherCalled
      <4> QED
        BY <1>3, <1>6, <2>2, <2>3, <3>1, <4>1 DEF AnswerKnown
    <3>2. CASE ~Redirects(s, req)
      <4>1. req.opcode = GET => req.key \in Keys
        BY <1>1, RequestsFit DEF GET, PING
      <4>2. req.opcode = GET => r.value \in Explained(req.key)
        <5> SUFFICES ASSUME req.opcode = GET PROVE r.value \in Explained(req.key)
          OBVIOUS
        <5>1. r.value \in Found(s, req.key) /\ s = Home(req.key)
          BY <1>6, <3>2 DEF GET, PING
        <5>2. storage[s][req.key] \in unsure[req.key] \cup possible[req.key]
          BY <2>5, <4>1, <5>1
        <5> QED
          BY <1>2, <5>1, <5>2 DEF Found, Explained
      <4>3. request'.opcode = GET => conn'[active'].answer.value \in Explained(request.key)'
        <5> SUFFICES ASSUME req.opcode = GET PROVE r.value \in Explained(request.key)'
          BY <1>3, <2>2, <2>3
        <5>1. \A k : k = req.key => r.value \in Explained(k)'
          BY <1>19, <4>1, <4>2
        <5> QED
          BY <1>3, <2>2, <5>1 DEF Explained
      <4>4. conn'[active'].answer.status # REDIRECT
        BY <1>6, <2>3, <3>2
      <4>5. request'.opcode # PING => conn'[active'].server = Home(request.key)'
        BY <1>3, <1>4, <1>6, <2>2, <2>3, <3>2 DEF Home
      <4> QED
        BY <4>3, <4>4, <4>5 DEF AnswerKnown
    <3> QED
      BY <3>1, <3>2
  <2> QED
    BY <1>8, <1>9, <1>10, <1>12, <2>7, <2>8 DEF StorageSide
<1> QED
  BY <1>15, <1>16

(* The steps of the workers. *)
LEMMA StorageWorker ==
  ASSUME CallInv, StorageSide, NEW c \in DOMAIN conn, handle_client(c)
  PROVE  StorageSide'
<1> DEFINE x == conn[c]
<1>0. FrameInv /\ AnswerSide
  BY DEF CallInv
<1>1. /\ x \in Connection /\ RequestSide(x)
      /\ (socket # 0 => socket \in DOMAIN conn) /\ (InCall => active \in DOMAIN conn)
  BY <1>0, ConnectionsTyped, StorageConnections, ActiveTyped
<1>2. CASE process_request(c)
  BY <1>0, <1>2, StorageProcess
<1>3. CASE ~process_request(c)
  <2>1. /\ UNCHANGED <<socket, active, request, possible, unsure, storage, copies>> /\ (InCall' <=> InCall)
    BY <1>3 DEF handle_client, ServerReceive, ServerGivesUp, ServerSend, ServerSendFails,
                ServerSendKilled, CallerUnchanged, caller, servers, history, InCall
  <2>2. \A d \in DOMAIN conn :
          LET y == WorkerClosed(conn[d])
          IN  /\ y.server = conn[d].server /\ y.answer = conn[d].answer
              /\ y.asked = Refused /\ y.worker = "closed"
    <3>1. \A d \in DOMAIN conn : conn[d] \in Connection
      BY <1>0, ConnectionsTyped
    <3> QED
      BY <3>1 DEF WorkerClosed, Connection
  <2>3. DOMAIN conn' = DOMAIN conn /\
        \A d \in DOMAIN conn :
           /\ conn'[d].server = conn[d].server /\ conn'[d].answer = conn[d].answer
           /\ conn'[d].asked \in {conn[d].asked, Refused}
           /\ conn'[d].worker = "open" => conn[d].worker = "open"
    <3>1. CASE ServerReceive(c)
      BY <1>0, <3>1, ServerReceiveFields
    <3>2. CASE ServerGivesUp(c)
      BY <2>2, <3>2 DEF ServerGivesUp
    <3>3. CASE ServerSendKilled(c)
      BY <2>2, <3>3 DEF ServerSendKilled
    <3>4. CASE ServerSend(c)
      <4>1. PICK k \in 1 .. Len(x.reply) : conn' = [conn EXCEPT ![c] = SendEffect(x, k)]
        BY <1>0, <3>4, ServerSendMoves
      <4>2. x.stage = "reply"
        BY <1>1, <3>4 DEF ServerSend, Connection, Stages
      <4> DEFINE y == SendEffect(x, k)
      <4>3. y = SendEffect(x, k) /\ conn' = [conn EXCEPT ![c] = y]
        BY <4>1
      <4> HIDE DEF y
      <4>4. y.server = x.server /\ y.worker = x.worker /\ y.asked = x.asked /\ y.answer = x.answer
        <5> HIDE DEF x
        <5> QED
          BY <1>1, <4>1, <4>2, <4>3, SendFields
      <4> QED
        BY <4>3, <4>4
    <3>5. CASE ServerSendFails(c)
      <4>1. x.stage = "reply"
        BY <1>1, <3>5 DEF ServerSendFails, Connection, Stages
      <4> DEFINE y == AfterReply(x)
      <4>2. y.server = x.server /\ y.worker = x.worker /\ y.asked = x.asked /\ y.answer = x.answer
        BY <1>1, <4>1 DEF AfterReply, Connection
      <4>3. conn' = [conn EXCEPT ![c] = y]
        BY <3>5 DEF ServerSendFails
      <4> HIDE DEF y
      <4> QED
        BY <4>2, <4>3
    <3> QED
      BY <1>3, <3>1, <3>2, <3>3, <3>4, <3>5 DEF handle_client
  <2> QED
    BY <1>1, <2>1, <2>3, StorageSame
<1> QED
  BY <1>2, <1>3

(* Every step keeps StorageSide. *)
LEMMA StorageInvNext ==
  ASSUME CallInv, StorageSide, [Next]_vars
  PROVE  StorageSide'
<1>1. CASE UNCHANGED vars
  <2>1. UNCHANGED <<socket, pc, active, request, conn, storage, copies, possible, unsure>>
    BY <1>1 DEF vars, caller, servers, history
  <2> QED
    BY <2>1 DEF StorageSide, Stored, Pending, OtherAsked, OtherCalled, OwnSocket, AnswerKnown,
                Executed, InCall, Answered, Open, Changes, Home, Outcome, Explained
<1> QED
  BY <1>1, StorageCaller, StorageWorker DEF Next

(* The storages start empty, as the history says. *)
LEMMA StorageInvInit ==
  ASSUME Init
  PROVE  StorageSide
<1>1. DOMAIN conn = {} /\ socket = 0 /\ ~InCall
  BY DEF Init, InCall
<1>2. Stored
  BY <1>1 DEF Init, Stored, Executed, Home, Servers
<1> QED
  BY <1>1, <1>2 DEF StorageSide, Pending, OtherAsked, OtherCalled, OwnSocket, AnswerKnown

(* What is stored, where, and what the answer on its way says. *)
THEOREM StorageInvariant == Spec => []StorageSide
<1>1. Init => StorageSide
  BY StorageInvInit
<1>2. StorageSide /\ CallInv /\ [Next]_vars => StorageSide'
  BY StorageInvNext
<1> QED
  BY <1>1, <1>2, CallInvariant, PTL DEF Spec

(* A GET returns what the last answered PUT or DELETE of its key left, or  *)
(* what a call that was given up has made of it, also where its answer     *)
(* comes from the server it was redirected to; and another value, kept by  *)
(* a replica, only where the key may be gone.                              *)
THEOREM ReadsAreExplained == Spec => []ReadsExplained
<1>1. Init => ReadsExplained
  BY DEF Init, ReadsExplained
<1>2. ReadsExplained /\ CallInv /\ StorageSide /\ [Next]_vars => ReadsExplained'
  <2> SUFFICES ASSUME ReadsExplained, CallInv, StorageSide, [Next]_vars PROVE ReadsExplained'
    OBVIOUS
  <2>1. wrong' = wrong
    BY WrongStep DEF StorageSide, AnswerKnown
  <2> QED
    BY <2>1 DEF ReadsExplained
<1> QED
  BY <1>1, <1>2, CallInvariant, StorageInvariant, PTL DEF Spec
=============================================================================
