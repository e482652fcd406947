--------------------------- MODULE NumberTheorems ----------------------------
(***************************************************************************)
(* Facts about sets of numbers that the proofs of several components use.  *)
(* LeastNumber is how they argue by induction: it is an instance of WFMin, *)
(* whose parameters are sets.                                              *)
(***************************************************************************)
EXTENDS Integers, FiniteSetsExt, WellFoundedInduction, TLAPS

(* A nonempty set of natural numbers has a least element. *)
LEMMA LeastNumber ==
  ASSUME NEW T, T \subseteq Nat, T # {}
  PROVE  \E x \in T : \A y \in T : x <= y
<1>1. PICK x \in T : \A y \in T : ~(<<y, x>> \in OpToRel(<, Nat))
  BY NatLessThanWellFounded, WFMin
<1>2. \A y \in T : ~(y < x)
  BY <1>1 DEF OpToRel
<1> QED
  BY <1>2

(* Min of the community modules, on two numbers. *)
LEMMA MinOfTwo ==
  ASSUME NEW a \in Int, NEW b \in Int
  PROVE  Min({a, b}) = IF a <= b THEN a ELSE b
<1>1. \E x \in {a, b} : \A y \in {a, b} : x =< y
  OBVIOUS
<1> DEFINE m == CHOOSE x \in {a, b} : \A y \in {a, b} : x =< y
<1>2. m \in {a, b} /\ \A y \in {a, b} : m =< y
  BY <1>1
<1>3. Min({a, b}) = m
  BY DEF Min
<1> HIDE DEF m
<1> QED
  BY <1>2, <1>3

(* Max of the community modules, on a bounded set of numbers. *)
LEMMA MaxOfBounded ==
  ASSUME NEW b \in Nat, NEW S, S \subseteq 0 .. b, S # {}
  PROVE  Max(S) \in S /\ \A y \in S : y <= Max(S)
<1> DEFINE T == {b - x : x \in S}
<1>1. T \subseteq Nat /\ T # {}
  <2>1. \A x \in S : b - x \in Nat
    OBVIOUS
  <2>2. PICK x \in S : TRUE
    OBVIOUS
  <2>3. b - x \in T
    OBVIOUS
  <2> QED
    BY <2>1, <2>3
<1>2. PICK m \in T : \A y \in T : m <= y
  BY <1>1, LeastNumber
<1>3. PICK x \in S : m = b - x
  BY <1>2
<1>4. \A y \in S : x >= y
  <2> SUFFICES ASSUME NEW y \in S
               PROVE  x >= y
    OBVIOUS
  <2>1. m <= b - y
    BY <1>2
  <2> QED
    BY <1>3, <2>1
<1> HIDE DEF T
<1> DEFINE q == CHOOSE z \in S : \A y \in S : z >= y
<1>5. q \in S /\ \A y \in S : q >= y
  BY <1>4
<1>6. Max(S) = q
  BY DEF Max
<1> HIDE DEF q
<1> QED
  BY <1>5, <1>6

(* Max on two numbers. *)
LEMMA MaxOfTwo ==
  ASSUME NEW a \in Nat, NEW b \in Nat
  PROVE  Max({a, b}) = IF a >= b THEN a ELSE b
<1>1. \E x \in {a, b} : \A y \in {a, b} : x >= y
  OBVIOUS
<1> DEFINE m == CHOOSE x \in {a, b} : \A y \in {a, b} : x >= y
<1>2. m \in {a, b} /\ \A y \in {a, b} : m >= y
  BY <1>1
<1>3. Max({a, b}) = m
  BY DEF Max
<1> HIDE DEF m
<1> QED
  BY <1>2, <1>3

(* A quotient and a remainder are the only ones. *)
LEMMA DivisionUnique ==
  ASSUME NEW n \in Int, NEW p \in Nat \ {0}, NEW q \in Int, NEW r \in Nat,
         n = q * p + r, r < p
  PROVE  n \div p = q /\ n % p = r
<1> DEFINE d == n \div p
           m == n % p
<1>1. d \in Int /\ m \in 0 .. (p - 1) /\ n = p * d + m
  OBVIOUS
<1> HIDE DEF d, m
<1>2. p * (d - q) = r - m
  BY <1>1
<1>3. ~(d - q >= 1)
  <2> SUFFICES ASSUME d - q >= 1 PROVE FALSE
    OBVIOUS
  <2>1. p * (d - q) >= p
    BY <1>1
  <2> QED
    BY <1>1, <1>2, <2>1
<1>4. ~(d - q <= -1)
  <2> SUFFICES ASSUME d - q <= -1 PROVE FALSE
    OBVIOUS
  <2>1. p * (d - q) <= -p
    BY <1>1
  <2> QED
    BY <1>1, <1>2, <2>1
<1>5. d = q
  BY <1>1, <1>3, <1>4
<1>6. m = r
  BY <1>1, <1>2, <1>5
<1> QED
  BY <1>5, <1>6 DEF d, m

(* Induction along 0 .. N, for a set of numbers. *)
LEMMA CountUp ==
  ASSUME NEW N \in Nat, NEW T, 0 \in T, \A i \in 1 .. N : i - 1 \in T => i \in T
  PROVE  \A i \in 0 .. N : i \in T
<1> DEFINE U == {i \in 0 .. N : i \notin T}
<1> SUFFICES ASSUME U # {} PROVE FALSE
  OBVIOUS
<1>1. U \subseteq Nat
  OBVIOUS
<1>2. PICK i \in U : \A j \in U : i <= j
  BY <1>1, LeastNumber
<1>3. i \in 1 .. N /\ i - 1 \in 0 .. N /\ ~(i <= i - 1)
  BY <1>2
<1>4. i - 1 \in T
  BY <1>2, <1>3
<1> QED
  BY <1>2, <1>3, <1>4

(* The same from N down to 0. *)
LEMMA CountDown ==
  ASSUME NEW N \in Nat, NEW T, N \in T, \A i \in 0 .. (N - 1) : i + 1 \in T => i \in T
  PROVE  \A i \in 0 .. N : i \in T
<1> DEFINE U == {n \in 0 .. N : N - n \in T}
<1>1. 0 \in U
  OBVIOUS
<1>2. \A n \in 1 .. N : n - 1 \in U => n \in U
  <2> SUFFICES ASSUME NEW n \in 1 .. N, n - 1 \in U PROVE n \in U
    OBVIOUS
  <2>1. N - n \in 0 .. (N - 1) /\ (N - n) + 1 = N - (n - 1) /\ n \in 0 .. N
    OBVIOUS
  <2> QED
    BY <2>1
<1> HIDE DEF U
<1>3. \A n \in 0 .. N : n \in U
  BY <1>1, <1>2, CountUp
<1> SUFFICES ASSUME NEW i \in 0 .. N PROVE i \in T
  OBVIOUS
<1>4. N - i \in 0 .. N /\ N - (N - i) = i
  OBVIOUS
<1> QED
  BY <1>3, <1>4 DEF U

(* f starts with x0 and goes from f[n - 1] to f[n] by the function G[n]. *)
Solves(f, N, X, x0, G) ==
  f \in [0 .. N -> X] /\ f[0] = x0 /\ \A n \in 1 .. N : f[n] = G[n][f[n - 1]]

(* A recursive definition along 1 .. N has a solution. *)
LEMMA Recursion ==
  ASSUME NEW N \in Nat, NEW X, NEW x0 \in X, NEW G \in [1 .. N -> [X -> X]]
  PROVE  \E f : Solves(f, N, X, x0, G)
<1> DEFINE Upto(f, m) == /\ f \in [0 .. m -> X] /\ f[0] = x0
                         /\ \A n \in 1 .. m : f[n] = G[n][f[n - 1]]
           T == {m \in 0 .. N : ~\E f : Upto(f, m)}
<1>1. T = {}
  <2> SUFFICES ASSUME T # {} PROVE FALSE
    OBVIOUS
  <2>1. T \subseteq Nat
    OBVIOUS
  <2>2. PICK m \in T : \A y \in T : m <= y
    BY <2>1, LeastNumber
  <2>3. m \in 0 .. N /\ ~\E f : Upto(f, m)
    BY <2>2
  <2>4. CASE m = 0
    <3> DEFINE f == [i \in 0 .. 0 |-> x0]
    <3>1. f \in [0 .. m -> X] /\ f[0] = x0 /\ \A n \in 1 .. m : f[n] = G[n][f[n - 1]]
      BY <2>4
    <3> QED
      BY <2>3, <3>1
  <2>5. CASE m # 0
    <3>1. m - 1 \in 0 .. N /\ ~(m <= m - 1) /\ m \in 1 .. N
      BY <2>3, <2>5
    <3>2. m - 1 \notin T
      BY <2>2, <3>1
    <3>3. PICK g : Upto(g, m - 1)
      BY <3>1, <3>2
    <3>4. g \in [0 .. m - 1 -> X] /\ g[m - 1] \in X
      BY <3>1, <3>3
    <3> DEFINE x == G[m][g[m - 1]]
               f == [i \in 0 .. m |-> IF i = m THEN x ELSE g[i]]
    <3>5. x \in X
      BY <3>1, <3>4
    <3> HIDE DEF x
    <3>6. f \in [0 .. m -> X] /\ f[m] = x /\ \A i \in 0 .. m - 1 : f[i] = g[i]
      BY <3>1, <3>4, <3>5
    <3> HIDE DEF f
    <3>7. f[0] = x0
      BY <3>1, <3>3, <3>6
    <3>8. \A n \in 1 .. m : f[n] = G[n][f[n - 1]]
      <4> SUFFICES ASSUME NEW n \in 1 .. m PROVE f[n] = G[n][f[n - 1]]
        OBVIOUS
      <4>1. n - 1 \in 0 .. m - 1 /\ f[n - 1] = g[n - 1]
        BY <3>1, <3>6
      <4>2. CASE n = m
        BY <3>6, <4>1, <4>2 DEF x
      <4>3. CASE n # m
        <5>1. n \in 1 .. m - 1 /\ n \in 0 .. m - 1
          BY <3>1, <4>3
        <5> QED
          BY <3>3, <3>6, <4>1, <5>1
      <4> QED
        BY <4>2, <4>3
    <3> QED
      BY <2>3, <3>6, <3>7, <3>8
  <2> QED
    BY <2>4, <2>5
<1>2. N \in 0 .. N
  OBVIOUS
<1>3. \E f : Upto(f, N)
  BY <1>1, <1>2
<1> QED
  BY <1>3 DEF Solves

(* The same along N - 1, N - 2, ..., 0. *)
SolvesDown(f, N, X, x0, G) ==
  f \in [0 .. N -> X] /\ f[N] = x0 /\ \A i \in 0 .. (N - 1) : f[i] = G[i][f[i + 1]]

(* Such a definition has a solution, too. *)
LEMMA RecursionDown ==
  ASSUME NEW N \in Nat, NEW X, NEW x0 \in X, NEW G \in [0 .. (N - 1) -> [X -> X]]
  PROVE  \E f : SolvesDown(f, N, X, x0, G)
<1> DEFINE K == [n \in 1 .. N |-> G[N - n]]
<1>1. K \in [1 .. N -> [X -> X]] /\ \A n \in 1 .. N : K[n] = G[N - n]
  <2>1. \A n \in 1 .. N : N - n \in 0 .. (N - 1)
    OBVIOUS
  <2> QED
    BY <2>1
<1> HIDE DEF K
<1>2. PICK g : Solves(g, N, X, x0, K)
  BY <1>1, Recursion
<1>3. g \in [0 .. N -> X] /\ g[0] = x0 /\ \A n \in 1 .. N : g[n] = K[n][g[n - 1]]
  BY <1>2 DEF Solves
<1> DEFINE f == [i \in 0 .. N |-> g[N - i]]
<1>4. f \in [0 .. N -> X] /\ f[N] = x0 /\ \A i \in 0 .. N : f[i] = g[N - i]
  <2>1. N \in 0 .. N /\ N - N = 0 /\ \A i \in 0 .. N : N - i \in 0 .. N
    OBVIOUS
  <2> QED
    BY <1>3, <2>1
<1> HIDE DEF f
<1>5. \A i \in 0 .. (N - 1) : f[i] = G[i][f[i + 1]]
  <2> SUFFICES ASSUME NEW i \in 0 .. (N - 1) PROVE f[i] = G[i][f[i + 1]]
    OBVIOUS
  <2>1. /\ i \in 0 .. N /\ i + 1 \in 0 .. N /\ N - i \in 1 .. N
        /\ (N - i) - 1 = N - (i + 1) /\ N - (N - i) = i
    OBVIOUS
  <2>2. g[N - i] = K[N - i][g[(N - i) - 1]] /\ K[N - i] = G[N - (N - i)]
    BY <1>1, <1>3, <2>1
  <2>3. f[i] = g[N - i] /\ f[i + 1] = g[N - (i + 1)]
    BY <1>4, <2>1
  <2>4. g[(N - i) - 1] = f[i + 1] /\ G[N - (N - i)] = G[i]
    BY <2>1, <2>3
  <2> QED
    BY <2>2, <2>3, <2>4
<1> QED
  BY <1>4, <1>5 DEF SolvesDown
=============================================================================
