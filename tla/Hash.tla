-------------------------------- MODULE Hash --------------------------------
(***************************************************************************)
(* The identifier ring of include/hash.h and src/hash.cpp.                 *)
(*                                                                         *)
(* A Hash160 is an array of 20 bytes, most significant first, compared     *)
(* with memcmp: the order is that of the 160-bit number the bytes spell,   *)
(* and an identifier is modelled by that number.  The module HashBytes     *)
(* translates the byte loops of hash.cpp and checks that they compute the  *)
(* operators below.  Bits is 160 in the code.                              *)
(***************************************************************************)
EXTENDS Integers

CONSTANT Bits

(* The second conjunct is arithmetic the provers do not know. *)
ASSUME BitsAssumption == Bits \in Nat \ {0} /\ 2^Bits > 0

Hash160 == 0 .. (2^Bits - 1)

(* base + 2^power on the ring; a power outside the word leaves base alone. *)
add_power_of_two(base, power) ==
  IF power \in 0 .. (Bits - 1) THEN (base + 2^power) % 2^Bits ELSE base

(* Whether id lies clockwise after start and before end: (start, end] or   *)
(* (start, end).  Equal bounds name one point or nothing, never the whole  *)
(* ring.                                                                   *)
in_range(id, start, end, inclusive_end) ==
  LET before_end == IF inclusive_end THEN id <= end ELSE id < end
  IN  IF start = end THEN inclusive_end /\ id = start
      ELSE IF start < end THEN id > start /\ before_end
      ELSE id > start \/ before_end
=============================================================================
