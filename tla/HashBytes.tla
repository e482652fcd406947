------------------------------ MODULE HashBytes ------------------------------
(***************************************************************************)
(* The byte-wise algorithms of src/hash.cpp on identifiers of Size bytes of *)
(* ByteBits bits each (20 bytes of 8 bits in the code), checked against    *)
(* the arithmetic of module Hash.  A run evaluates every function on every *)
(* input: one action per function, one call per behaviour.                 *)
(***************************************************************************)
EXTENDS Integers

CONSTANTS Size, ByteBits

ASSUME BytesAssumption == Size \in Nat \ {0} /\ ByteBits \in Nat \ {0}

Bits == Size * ByteBits
Base == 2^ByteBits
Byte == 0 .. (Base - 1)
Last == Size - 1

(* Laws of exponents, which the provers do not know. *)
ASSUME PowerAssumption ==
  /\ Base \in Nat \ {0} /\ Base^0 = 1 /\ Base^Size = 2^Bits
  /\ \A n \in 0 .. Last : Base^n \in Nat \ {0} /\ Base^(n + 1) = Base * Base^n
  /\ \A p \in 0 .. (Bits - 1) : /\ 2^p = 2^(p % ByteBits) * Base^(p \div ByteBits)
                                /\ 2^(p % ByteBits) \in Byte

Bytes == [0 .. Last -> Byte]          \* index 0 is the most significant byte

H == INSTANCE Hash

(* The numbers that the bytes 0 .. i spell, and the one all of them do. *)
Prefix(b) ==
  LET value[i \in 0 .. Last] == (IF i = 0 THEN 0 ELSE value[i - 1] * Base) + b[i]
  IN  value
Num(b) == Prefix(b)[Last]

(* memcmp(a, b) < 0, the order of operator< and its companions. *)
Less(a, b) == \E i \in 0 .. Last : /\ a[i] < b[i]
                                   /\ \A j \in 0 .. (i - 1) : a[j] = b[j]
LessEq(a, b) == a = b \/ Less(a, b)
-----------------------------------------------------------------------------
(* Mutant of CarryLoop: the carry enters the next byte and stops there. *)
CarryOnce(base, byte_index, addend) ==
  LET sum == base[byte_index] + addend
      low == [base EXCEPT ![byte_index] = sum % Base]
  IN  IF sum < Base \/ byte_index = 0 THEN low
      ELSE [low EXCEPT ![byte_index - 1] = (@ + 1) % Base]

(* The loop of add_power_of_two: state of the result after the bytes       *)
(* byte_index, byte_index - 1, ..., i have been visited.                   *)
CarryLoop(base, byte_index, addend) ==
  LET step[i \in 0 .. byte_index] ==
        LET before == IF i = byte_index THEN [result |-> base, carry |-> TRUE]
                      ELSE step[i + 1]
            sum == before.result[i] + (IF i = byte_index THEN addend ELSE 1)
        IN  IF ~before.carry THEN before
            ELSE [result |-> [before.result EXCEPT ![i] = sum % Base],
                  carry  |-> sum >= Base]
  IN  step[0].result

add_power_of_two(base, power) ==
  IF power \notin 0 .. (Bits - 1) THEN base
  ELSE CarryLoop(base, Last - (power \div ByteBits), 2^(power % ByteBits))

(* Mutant of in_range: both conditions also in the range across zero. *)
InRangeNoWrap(id, start, end, inclusive_end) ==
  IF start = end THEN inclusive_end /\ id = start
  ELSE Less(start, id) /\ (IF inclusive_end THEN LessEq(id, end) ELSE Less(id, end))

(* in_range of Hash, on bytes. *)
in_range(id, start, end, inclusive_end) ==
  LET before_end == IF inclusive_end THEN LessEq(id, end) ELSE Less(id, end)
  IN  IF start = end THEN inclusive_end /\ id = start
      ELSE IF Less(start, end) THEN Less(start, id) /\ before_end
      ELSE Less(start, id) \/ before_end

(* Mutant of BorrowLoop: the borrow is not passed on. *)
BorrowDropped(from, to) ==
  [i \in 0 .. Last |-> (to[i] - from[i]) % Base]

(* The loop of distance when to >= from: schoolbook subtraction. *)
BorrowLoop(from, to) ==
  LET step[i \in 0 .. Size] ==
        IF i = Size THEN [result |-> [j \in 0 .. Last |-> 0], borrow |-> 0]
        ELSE LET diff == to[i] - from[i] - step[i + 1].borrow
             IN  [result |-> [step[i + 1].result EXCEPT ![i] = diff % Base],
                  borrow |-> IF diff < 0 THEN 1 ELSE 0]
  IN  step[0].result

(* The wrap-around branch computes distance(from, max_hash), drops it, and *)
(* returns distance({}, to) + 1.                                           *)
distance(from, to) ==
  IF LessEq(from, to) THEN BorrowLoop(from, to)
  ELSE add_power_of_two(BorrowLoop([i \in 0 .. Last |-> 0], to), 0)
-----------------------------------------------------------------------------
VARIABLE call          \* the call made: its function, arguments and result

vars == <<call>>

NoCall == [fn |-> "none"]

Init == call = NoCall

CallAddPowerOfTwo(base, power) ==
  call' = [fn |-> "add_power_of_two", base |-> base, power |-> power,
           result |-> add_power_of_two(base, power)]

CallInRange(id, start, end, incl) ==
  call' = [fn |-> "in_range", id |-> id, start |-> start, end |-> end,
           incl |-> incl, result |-> in_range(id, start, end, incl)]

CallDistance(from, to) ==
  call' = [fn |-> "distance", from |-> from, to |-> to,
           result |-> distance(from, to)]

Next ==
  /\ call = NoCall
  /\ \/ \E base \in Bytes, power \in -1 .. Bits : CallAddPowerOfTwo(base, power)
     \/ \E id, start, end \in Bytes, incl \in BOOLEAN : CallInRange(id, start, end, incl)
     \/ \E from, to \in Bytes : CallDistance(from, to)

Spec == Init /\ [][Next]_vars
-----------------------------------------------------------------------------
(* Clockwise distance on the ring, the reference of the properties. *)
Clockwise(from, to) == (Num(to) - Num(from)) % 2^Bits

(* The carry loop of add_power_of_two adds 2^power modulo the ring size,   *)
(* whatever run of full bytes the carry crosses, the wrap past the largest *)
(* identifier included; an invalid power returns base.                     *)
CarryLoopAddsOnRing ==
  call.fn = "add_power_of_two" =>
    Num(call.result) = H!add_power_of_two(Num(call.base), call.power)

(* in_range with different bounds is "at most (less than) as far clockwise *)
(* from start as end is", on both sides of zero, and on every input agrees *)
(* with the number-level operator the other modules use.                   *)
InRangeIsClockwise ==
  call.fn = "in_range" =>
    LET toId  == Clockwise(call.start, call.id)
        toEnd == Clockwise(call.start, call.end)
    IN  /\ call.result = H!in_range(Num(call.id), Num(call.start), Num(call.end), call.incl)
        /\ call.start # call.end =>
             (call.result <=> toId > 0 /\ IF call.incl THEN toId <= toEnd ELSE toId < toEnd)

(* The borrow loop of distance is the clockwise distance when the target   *)
(* does not lie past zero.                                                 *)
DistanceForward ==
  (call.fn = "distance" /\ Num(call.from) <= Num(call.to)) =>
    Num(call.result) = Clockwise(call.from, call.to)
=============================================================================
