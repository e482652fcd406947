-------------------------- MODULE HashBytesProofs ----------------------------
(***************************************************************************)
(* The byte loops of hash.cpp compute on the ring, for every number of     *)
(* bytes and of bits in a byte: Num, the number that the bytes spell, is a *)
(* homomorphism.                                                           *)
(***************************************************************************)
EXTENDS HashBytes, NumberTheorems, TLAPS

(* Powers of Base, by an operator of their own. *)
Pow(n) == Base^n

(* The constants and the powers of Base that occur. *)
LEMMA Powers ==
  /\ Size \in Nat \ {0} /\ Last \in Nat /\ Size = Last + 1 /\ Last \in 0 .. Last
  /\ Base \in Nat \ {0} /\ Pow(0) = 1 /\ Pow(Size) = 2^Bits /\ 2^Bits \in Nat \ {0}
  /\ \A n \in 0 .. Last : Pow(n) \in Nat \ {0} /\ Pow(n + 1) = Base * Pow(n)
<1>1. Size \in Nat \ {0} /\ Last \in Nat /\ Size = Last + 1 /\ Last \in 0 .. Last
  BY BytesAssumption DEF Last
<1>2. /\ Base \in Nat \ {0} /\ Pow(0) = 1 /\ Pow(Size) = 2^Bits
      /\ \A n \in 0 .. Last : Pow(n) \in Nat \ {0} /\ Pow(n + 1) = Base * Pow(n)
  BY PowerAssumption DEF Pow
<1> HIDE DEF Base
<1>3. Pow(Last) \in Nat \ {0} /\ Pow(Size) = Base * Pow(Last)
  BY <1>1, <1>2
<1>4. Base * Pow(Last) \in Nat \ {0}
  BY <1>2, <1>3
<1>5. 2^Bits \in Nat \ {0}
  BY <1>2, <1>3, <1>4
<1> QED
  BY <1>1, <1>2, <1>5

(* The recursion of Prefix has its solution. *)
LEMMA PrefixSteps ==
  ASSUME NEW b \in Bytes
  PROVE  /\ Prefix(b) \in [0 .. Last -> Nat] /\ Prefix(b)[0] = b[0]
         /\ \A i \in 1 .. Last : Prefix(b)[i] = Prefix(b)[i - 1] * Base + b[i]
<1>1. Last \in Nat /\ Base \in Nat \ {0} /\ \A i \in 0 .. Last : b[i] \in Nat /\ b[i] <= Base - 1
  BY Powers DEF Bytes, Byte
<1> HIDE DEF Base
<1> DEFINE G == [i \in 1 .. Last |-> [x \in Nat |-> x * Base + b[i]]]
           Step(f) == [i \in 0 .. Last |-> (IF i = 0 THEN 0 ELSE f[i - 1] * Base) + b[i]]
           c == b[0]
<1>2. G \in [1 .. Last -> [Nat -> Nat]]
  <2>1. \A i \in 1 .. Last : \A x \in Nat : x * Base + b[i] \in Nat
    <3> SUFFICES ASSUME NEW i \in 1 .. Last, NEW x \in Nat PROVE x * Base + b[i] \in Nat
      OBVIOUS
    <3> DEFINE y == b[i]
    <3>1. y \in Nat /\ Base \in Nat
      BY <1>1
    <3> HIDE DEF y
    <3>2. x * Base + y \in Nat
      BY <3>1
    <3> QED
      BY <3>2 DEF y
  <2> QED
    BY <2>1
<1>3. \A i \in 1 .. Last : \A x \in Nat : G[i][x] = x * Base + b[i]
  OBVIOUS
<1>4. b[0] \in Nat /\ c \in Nat /\ Last \in Nat
  BY <1>1
<1> HIDE DEF c, G
<1>5. PICK f : Solves(f, Last, Nat, c, G)
  BY <1>2, <1>4, Recursion
<1> USE DEF c
<1>5a. /\ f \in [0 .. Last -> Nat] /\ f[0] = b[0]
       /\ \A i \in 1 .. Last : f[i] = G[i][f[i - 1]]
  BY <1>5 DEF Solves
<1>6. \A i \in 1 .. Last : f[i] = f[i - 1] * Base + b[i]
  <2> SUFFICES ASSUME NEW i \in 1 .. Last PROVE f[i] = f[i - 1] * Base + b[i]
    OBVIOUS
  <2>1. i - 1 \in 0 .. Last
    BY <1>1
  <2>2. f[i - 1] \in Nat /\ f[i] = G[i][f[i - 1]]
    BY <1>5a, <2>1
  <2> QED
    BY <1>3, <2>2
<1>7. f = Step(f)
  <2>1. \A i \in 0 .. Last : f[i] = (IF i = 0 THEN 0 ELSE f[i - 1] * Base) + b[i]
    <3> SUFFICES ASSUME NEW i \in 0 .. Last
                 PROVE  f[i] = (IF i = 0 THEN 0 ELSE f[i - 1] * Base) + b[i]
      OBVIOUS
    <3>1. CASE i = 0
      BY <1>1, <1>5a, <3>1
    <3>2. CASE i # 0
      BY <1>1, <1>6, <3>2
    <3> QED
      BY <3>1, <3>2
  <2> QED
    BY <1>5a, <2>1
<1> DEFINE v == CHOOSE g : g = Step(g)
<1>8. v = Step(v)
  <2> HIDE DEF Step
  <2> QED
    BY <1>7
<1>9. Prefix(b) = v
  BY DEF Prefix
<1> HIDE DEF v
<1>10. v[0] = b[0] /\ \A i \in 1 .. Last : v[i] = v[i - 1] * Base + b[i]
  <2> DEFINE h == Step(v)
  <2>1. \A i \in 0 .. Last : h[i] = (IF i = 0 THEN 0 ELSE v[i - 1] * Base) + b[i]
    OBVIOUS
  <2>2. v = h
    BY <1>8
  <2> HIDE DEF h, Step
  <2>3. v[0] = 0 + b[0]
    BY <1>1, <2>1, <2>2
  <2>4. \A i \in 1 .. Last : v[i] = v[i - 1] * Base + b[i]
    <3> SUFFICES ASSUME NEW i \in 1 .. Last PROVE v[i] = v[i - 1] * Base + b[i]
      OBVIOUS
    <3>1. i \in 0 .. Last /\ i # 0
      BY <1>1
    <3> QED
      BY <2>1, <2>2, <3>1
  <2> QED
    BY <1>4, <2>3, <2>4
<1>11. v \in [0 .. Last -> Nat]
  <2> DEFINE T == {i \in 0 .. Last : v[i] \notin Nat}
  <2>1. T = {}
    <3> SUFFICES ASSUME T # {} PROVE FALSE
      OBVIOUS
    <3>1. T \subseteq Nat
      OBVIOUS
    <3>2. PICK i \in T : \A j \in T : i <= j
      BY <3>1, LeastNumber
    <3>3. i \in 0 .. Last /\ v[i] \notin Nat /\ i # 0
      BY <1>4, <1>10, <3>2
    <3>4. i - 1 \in 0 .. Last /\ ~(i <= i - 1) /\ i \in 1 .. Last
      BY <1>1, <3>3
    <3>5. v[i - 1] \in Nat
      BY <3>2, <3>4
    <3>6. v[i - 1] * Base + b[i] \in Nat
      <4> DEFINE x == v[i - 1]
                 y == b[i]
      <4>1. x \in Nat /\ y \in Nat /\ Base \in Nat
        BY <1>1, <3>3, <3>5
      <4> HIDE DEF x, y
      <4>2. x * Base + y \in Nat
        BY <4>1
      <4> QED
        BY <4>2 DEF x, y
    <3> QED
      BY <1>10, <3>3, <3>4, <3>6
  <2>2. v = [i \in 0 .. Last |-> v[i]]
    <3> DEFINE h == Step(v)
    <3>1. h = [i \in 0 .. Last |-> h[i]]
      OBVIOUS
    <3>2. v = h
      BY <1>8
    <3> HIDE DEF h, Step
    <3> QED
      BY <3>1, <3>2
  <2>3. \A i \in 0 .. Last : v[i] \in Nat
    BY <2>1
  <2> QED
    BY <2>2, <2>3
<1> QED
  BY <1>9, <1>10, <1>11

(* Bytes and the digits they hold. *)
LEMMA Digits ==
  ASSUME NEW b \in Bytes
  PROVE  \A i \in 0 .. Last : b[i] \in Nat /\ b[i] <= Base - 1
BY Powers DEF Bytes, Byte

(* The first i + 1 bytes spell a number below Base^(i + 1). *)
LEMMA PrefixBounded ==
  ASSUME NEW b \in Bytes
  PROVE  \A i \in 0 .. Last : Prefix(b)[i] \in Nat /\ Prefix(b)[i] < Pow(i + 1)
<1> DEFINE P == Prefix(b)
           T == {i \in 0 .. Last : P[i] < Pow(i + 1)}
<1>1. /\ P \in [0 .. Last -> Nat] /\ P[0] = b[0] /\ Last \in Nat
      /\ \A i \in 1 .. Last : P[i] = P[i - 1] * Base + b[i]
  BY PrefixSteps, Powers
<1> HIDE DEF P
<1>2. 0 \in T
  <2>1. 0 \in 0 .. Last /\ b[0] \in Nat /\ b[0] <= Base - 1
    BY <1>1, Digits
  <2>2. Pow(0 + 1) = Base * 1 /\ Base \in Nat
    BY <2>1, Powers
  <2> QED
    BY <1>1, <2>1, <2>2
<1>3. \A i \in 1 .. Last : i - 1 \in T => i \in T
  <2> SUFFICES ASSUME NEW i \in 1 .. Last, i - 1 \in T PROVE P[i] < Pow(i + 1)
    BY <1>1
  <2> DEFINE p == P[i - 1]
             d == b[i]
             w == Pow(i)
  <2>1. i \in 0 .. Last /\ i - 1 \in 0 .. Last /\ (i - 1) + 1 = i
    BY <1>1
  <2>2. /\ p \in Nat /\ d \in Nat /\ d <= Base - 1 /\ w \in Nat /\ Base \in Nat
        /\ p < w /\ P[i] = p * Base + d /\ Pow(i + 1) = Base * w
    BY <1>1, <2>1, Digits, Powers
  <2> HIDE DEF p, d, w
  <2>3. (w - 1 - p) * Base >= 0
    BY <2>2
  <2>4. (w - 1 - p) * Base = Base * w - Base - p * Base
    BY <2>2
  <2>5. p * Base + d < Base * w
    BY <2>2, <2>3, <2>4
  <2> QED
    BY <2>2, <2>5
<1> HIDE DEF T
<1>4. \A i \in 0 .. Last : i \in T
  BY <1>1, <1>2, <1>3, CountUp
<1> QED
  BY <1>1, <1>4 DEF T, P

(* Bytes spell a number of Bits bits. *)
LEMMA NumBounded ==
  ASSUME NEW b \in Bytes
  PROVE  Num(b) \in Nat /\ Num(b) < 2^Bits
BY PrefixBounded, Powers DEF Num

(* Column addition of x and z: r and the carries e, from the last byte.    *)
AddsUp(x, z, r, e) ==
  /\ e \in [0 .. Size -> {0, 1}]
  /\ \A i \in 0 .. Last : r[i] + Base * e[i] = x[i] + z[i] + e[i + 1]

(* It adds the numbers, up to the carry out of the first byte. *)
LEMMA AddBytes ==
  ASSUME NEW x \in Bytes, NEW z \in Bytes, NEW r \in Bytes, NEW e, AddsUp(x, z, r, e)
  PROVE  Num(r) + e[0] * 2^Bits = Num(x) + Num(z) + e[Size]
<1> DEFINE X == Prefix(x)
           Z == Prefix(z)
           R == Prefix(r)
           T == {i \in 0 .. Last : R[i] + e[0] * Pow(i + 1) = X[i] + Z[i] + e[i + 1]}
<1>1. /\ X \in [0 .. Last -> Nat] /\ X[0] = x[0] /\ Last \in Nat
      /\ \A i \in 1 .. Last : X[i] = X[i - 1] * Base + x[i]
      /\ Z \in [0 .. Last -> Nat] /\ Z[0] = z[0]
      /\ \A i \in 1 .. Last : Z[i] = Z[i - 1] * Base + z[i]
      /\ R \in [0 .. Last -> Nat] /\ R[0] = r[0]
      /\ \A i \in 1 .. Last : R[i] = R[i - 1] * Base + r[i]
  BY PrefixSteps, Powers
<1> HIDE DEF X, Z, R
<1>2. /\ \A i \in 0 .. Last : e[i] \in Nat /\ e[i + 1] \in Nat
      /\ e[0] \in Nat /\ Base \in Nat
      /\ \A i \in 0 .. Last : r[i] + Base * e[i] = x[i] + z[i] + e[i + 1]
  <2>1. e \in [0 .. Size -> {0, 1}] /\ Size = Last + 1 /\ Last \in Nat /\ Base \in Nat
    BY Powers DEF AddsUp
  <2>2. \A i \in 0 .. Last : i \in 0 .. Size /\ i + 1 \in 0 .. Size
    BY <2>1
  <2>3. \A i \in 0 .. Size : e[i] \in Nat
    BY <2>1
  <2>4. 0 \in 0 .. Size
    BY <2>1
  <2>5. \A i \in 0 .. Last : r[i] + Base * e[i] = x[i] + z[i] + e[i + 1]
    BY DEF AddsUp
  <2> QED
    BY <2>1, <2>2, <2>3, <2>4, <2>5
<1>3. \A i \in 0 .. Last : x[i] \in Nat /\ z[i] \in Nat /\ r[i] \in Nat
  BY Digits
<1>4. 0 \in T
  <2>1. 0 \in 0 .. Last
    BY <1>1
  <2>2. Pow(0 + 1) = Base * 1
    BY <2>1, Powers
  <2>3. r[0] + Base * e[0] = x[0] + z[0] + e[0 + 1]
    BY <1>2, <2>1
  <2>4. e[0] * Pow(0 + 1) = Base * e[0]
    BY <1>2, <2>2
  <2> QED
    BY <1>1, <2>1, <2>3, <2>4
<1>5. \A i \in 1 .. Last : i - 1 \in T => i \in T
  <2> SUFFICES ASSUME NEW i \in 1 .. Last, i - 1 \in T
               PROVE  R[i] + e[0] * Pow(i + 1) = X[i] + Z[i] + e[i + 1]
    BY <1>1
  <2> DEFINE X0 == X[i - 1]
             Z0 == Z[i - 1]
             R0 == R[i - 1]
             w == Pow(i)
             c == e[0]
             c0 == e[i]
             c1 == e[i + 1]
             dx == x[i]
             dz == z[i]
             dr == r[i]
  <2>1. i \in 0 .. Last /\ i - 1 \in 0 .. Last /\ (i - 1) + 1 = i
    BY <1>1
  <2>2. R0 + c * w = X0 + Z0 + c0
    BY <2>1
  <2>3. dr + Base * c0 = dx + dz + c1
    BY <1>2, <2>1
  <2>4. R[i] = R0 * Base + dr /\ X[i] = X0 * Base + dx /\ Z[i] = Z0 * Base + dz
    BY <1>1
  <2>5. Pow(i + 1) = Base * w /\ w \in Nat
    BY <2>1, Powers
  <2>6. /\ X0 \in Nat /\ Z0 \in Nat /\ R0 \in Nat /\ c \in Nat /\ c0 \in Nat
        /\ c1 \in Nat /\ dx \in Nat /\ dz \in Nat /\ dr \in Nat /\ Base \in Nat
    BY <1>1, <1>2, <1>3, <2>1
  <2> HIDE DEF X0, Z0, R0, w, c, c0, c1, dx, dz, dr
  <2>7. (R0 + c * w) * Base = (X0 + Z0 + c0) * Base
    BY <2>2
  <2>8. (R0 + c * w) * Base = R0 * Base + c * (Base * w)
    BY <2>5, <2>6
  <2>9. (X0 + Z0 + c0) * Base = X0 * Base + Z0 * Base + Base * c0
    BY <2>6
  <2>10. (R0 * Base + dr) + c * (Base * w) = (X0 * Base + dx) + (Z0 * Base + dz) + c1
    <3> DEFINE a1 == R0 * Base
               a2 == c * (Base * w)
               a3 == X0 * Base
               a4 == Z0 * Base
               a5 == Base * c0
    <3>1. a1 \in Int /\ a2 \in Int /\ a3 \in Int /\ a4 \in Int /\ a5 \in Int
      BY <2>5, <2>6
    <3>2. a1 + a2 = a3 + a4 + a5 /\ dr + a5 = dx + dz + c1
      BY <2>3, <2>7, <2>8, <2>9
    <3> HIDE DEF a1, a2, a3, a4, a5
    <3>3. (a1 + dr) + a2 = (a3 + dx) + (a4 + dz) + c1
      BY <2>6, <3>1, <3>2
    <3> QED
      BY <3>3 DEF a1, a2, a3, a4, a5
  <2>11. R[i] + c * Pow(i + 1) = X[i] + Z[i] + c1
    BY <2>4, <2>5, <2>10, Zenon
  <2> QED
    BY <2>11 DEF c, c1
<1> HIDE DEF T
<1>6. \A i \in 0 .. Last : i \in T
  BY <1>1, <1>4, <1>5, CountUp
<1>7. R[Last] + e[0] * Pow(Last + 1) = X[Last] + Z[Last] + e[Last + 1]
  BY <1>1, <1>6 DEF T
<1> QED
  BY <1>7, Powers DEF Num, X, Z, R
-----------------------------------------------------------------------------
(* memcmp orders identifiers as the numbers they spell. *)
LEMMA LessIsSmaller ==
  ASSUME NEW a \in Bytes, NEW b \in Bytes, Less(a, b)
  PROVE  Num(a) < Num(b)
<1> DEFINE A == Prefix(a)
           B == Prefix(b)
<1>1. /\ A \in [0 .. Last -> Nat] /\ A[0] = a[0] /\ Last \in Nat
      /\ \A i \in 1 .. Last : A[i] = A[i - 1] * Base + a[i]
      /\ B \in [0 .. Last -> Nat] /\ B[0] = b[0]
      /\ \A i \in 1 .. Last : B[i] = B[i - 1] * Base + b[i]
  BY PrefixSteps, Powers
<1> HIDE DEF A, B
<1>2. PICK i \in 0 .. Last : a[i] < b[i] /\ \A j \in 0 .. (i - 1) : a[j] = b[j]
  BY DEF Less
<1> DEFINE T == {j \in 0 .. Last : IF j < i THEN A[j] = B[j] ELSE A[j] < B[j]}
<1>3. 0 \in T
  <2>1. 0 \in 0 .. Last /\ (0 < i => 0 \in 0 .. (i - 1)) /\ (~(0 < i) => i = 0)
    BY <1>1, <1>2
  <2> QED
    BY <1>1, <1>2, <2>1
<1>4. \A j \in 1 .. Last : j - 1 \in T => j \in T
  <2> SUFFICES ASSUME NEW j \in 1 .. Last, j - 1 \in T PROVE j \in T
    OBVIOUS
  <2> DEFINE A0 == A[j - 1]
             B0 == B[j - 1]
             da == a[j]
             db == b[j]
             A1 == A[j]
             B1 == B[j]
  <2>1. j \in 0 .. Last /\ j - 1 \in 0 .. Last
    BY <1>1
  <2>2. /\ A0 \in Nat /\ B0 \in Nat /\ A1 = A0 * Base + da /\ B1 = B0 * Base + db
        /\ A1 \in Nat /\ B1 \in Nat
    BY <1>1, <2>1
  <2>3. da \in Nat /\ db \in Nat /\ da <= Base - 1 /\ db <= Base - 1 /\ Base \in Nat
    BY <2>1, Digits, Powers
  <2>4. IF j - 1 < i THEN A0 = B0 ELSE A0 < B0
    OBVIOUS
  <2>5. /\ j < i => j - 1 < i /\ j \in 0 .. (i - 1)
        /\ j = i => j - 1 < i
        /\ j > i => ~(j - 1 < i)
        /\ j < i \/ j = i \/ j > i
    BY <1>1, <1>2
  <2>6. (j < i => da = db) /\ (j = i => da < db)
    BY <1>2, <2>5
  <2> HIDE DEF A0, B0, da, db
  <2>7. CASE j < i
    <3>1. A0 = B0 /\ da = db
      BY <2>4, <2>5, <2>6, <2>7
    <3> QED
      BY <2>1, <2>2, <2>7, <3>1
  <2>8. CASE j = i
    <3>1. A0 = B0 /\ da < db
      BY <2>4, <2>5, <2>6, <2>8
    <3>2. A1 < B1
      <4> HIDE DEF A1, B1
      <4> DEFINE m == B0 * Base
      <4>1. m \in Int /\ A1 = m + da /\ B1 = m + db
        BY <2>2, <2>3, <3>1
      <4> HIDE DEF m
      <4> QED
        BY <2>3, <3>1, <4>1
    <3>3. ~(j < i)
      BY <2>8
    <3> QED
      BY <2>1, <3>2, <3>3
  <2>9. CASE j > i
    <3>1. A0 < B0
      BY <2>4, <2>5, <2>9
    <3>2. A1 < B1
      <4> HIDE DEF A1, B1
      <4>1. (B0 - 1 - A0) * Base >= 0
        BY <2>2, <2>3, <3>1
      <4>2. (B0 - 1 - A0) * Base = B0 * Base - Base - A0 * Base
        BY <2>2, <2>3
      <4> QED
        BY <2>2, <2>3, <4>1, <4>2
    <3>3. ~(j < i)
      BY <1>2, <2>9
    <3> QED
      BY <2>1, <3>2, <3>3
  <2> QED
    BY <2>5, <2>7, <2>8, <2>9
<1> HIDE DEF T
<1>5. \A j \in 0 .. Last : j \in T
  BY <1>1, <1>3, <1>4, CountUp
<1>6. Last \in T /\ ~(Last < i)
  BY <1>1, <1>2, <1>5
<1> QED
  BY <1>6 DEF T, Num, A, B

(* Of two different identifiers one is the smaller. *)
LEMMA Comparable ==
  ASSUME NEW a \in Bytes, NEW b \in Bytes, a # b
  PROVE  Less(a, b) \/ Less(b, a)
<1> DEFINE D == {i \in 0 .. Last : a[i] # b[i]}
<1>1. D # {} /\ D \subseteq Nat
  <2>1. a = [i \in 0 .. Last |-> a[i]] /\ b = [i \in 0 .. Last |-> b[i]]
    BY DEF Bytes
  <2>2. PICK i \in 0 .. Last : a[i] # b[i]
    BY <2>1
  <2>3. D \subseteq Nat
    OBVIOUS
  <2> QED
    BY <2>2, <2>3
<1>2. PICK i \in D : \A j \in D : i <= j
  BY <1>1, LeastNumber
<1>3. i \in 0 .. Last /\ a[i] \in Nat /\ b[i] \in Nat /\ a[i] # b[i]
  BY <1>2, Digits
<1>4. \A j \in 0 .. (i - 1) : a[j] = b[j]
  <2> SUFFICES ASSUME NEW j \in 0 .. (i - 1) PROVE a[j] = b[j]
    OBVIOUS
  <2>1. j \in 0 .. Last /\ ~(i <= j)
    BY <1>3, Powers
  <2> QED
    BY <1>2, <2>1
<1>5. a[i] < b[i] \/ b[i] < a[i]
  BY <1>3
<1> QED
  BY <1>3, <1>4, <1>5 DEF Less

(* Order and equality of identifiers are those of the numbers. *)
LEMMA OrderIsNumeric ==
  ASSUME NEW a \in Bytes, NEW b \in Bytes
  PROVE  /\ Less(a, b) <=> Num(a) < Num(b)
         /\ LessEq(a, b) <=> Num(a) <= Num(b)
         /\ a = b <=> Num(a) = Num(b)
<1>1. Num(a) \in Nat /\ Num(b) \in Nat
  BY NumBounded
<1>2. Less(a, b) => Num(a) < Num(b)
  BY LessIsSmaller
<1>3. Less(b, a) => Num(b) < Num(a)
  BY LessIsSmaller
<1>4. a # b => Less(a, b) \/ Less(b, a)
  BY Comparable
<1> QED
  BY <1>1, <1>2, <1>3, <1>4 DEF LessEq

(* The clockwise distance without the modulus. *)
LEMMA ClockwiseByCases ==
  ASSUME NEW a \in Bytes, NEW b \in Bytes
  PROVE  Clockwise(a, b) = IF Num(a) <= Num(b) THEN Num(b) - Num(a)
                           ELSE Num(b) - Num(a) + 2^Bits
<1> DEFINE x == Num(a)
           y == Num(b)
           p == 2^Bits
<1>1. x \in Nat /\ y \in Nat /\ x < p /\ y < p /\ p \in Nat \ {0}
  BY NumBounded, Powers
<1>2. Clockwise(a, b) = (y - x) % p
  BY DEF Clockwise
<1> HIDE DEF x, y, p
<1>3. CASE x <= y
  <2>1. y - x \in Nat /\ y - x < p /\ y - x = 0 * p + (y - x) /\ y - x \in Int
    BY <1>1, <1>3
  <2>2. (y - x) % p = y - x
    BY <1>1, <2>1, DivisionUnique
  <2> QED
    BY <1>2, <1>3, <2>2 DEF x, y, p
<1>4. CASE ~(x <= y)
  <2> DEFINE r == y - x + p
             n == y - x
             q == -1
  <2>1. r \in Nat /\ r < p /\ n = q * p + r /\ n \in Int /\ q \in Int
    BY <1>1, <1>4
  <2> HIDE DEF r, n, q
  <2>2. n % p = r
    BY <1>1, <2>1, DivisionUnique
  <2> QED
    BY <1>2, <1>4, <2>2 DEF x, y, p, r, n
<1> QED
  BY <1>3, <1>4

(* in_range on bytes is in_range on numbers, and the clockwise condition. *)
LEMMA InRangeCorrect ==
  ASSUME NEW id \in Bytes, NEW start \in Bytes, NEW end \in Bytes, NEW incl \in BOOLEAN
  PROVE  /\ in_range(id, start, end, incl) = H!in_range(Num(id), Num(start), Num(end), incl)
         /\ start # end =>
              (in_range(id, start, end, incl) <=>
                 /\ Clockwise(start, id) > 0
                 /\ IF incl THEN Clockwise(start, id) <= Clockwise(start, end)
                    ELSE Clockwise(start, id) < Clockwise(start, end))
<1> DEFINE i == Num(id)
           s == Num(start)
           e == Num(end)
           p == 2^Bits
           ci == Clockwise(start, id)
           ce == Clockwise(start, end)
<1>1. /\ i \in Nat /\ s \in Nat /\ e \in Nat /\ i < p /\ s < p /\ e < p /\ p \in Nat
  BY NumBounded, Powers
<1>2. /\ Less(start, id) <=> s < i
      /\ Less(start, end) <=> s < e
      /\ Less(id, end) <=> i < e
      /\ LessEq(id, end) <=> i <= e
      /\ start = end <=> s = e
      /\ id = start <=> i = s
  BY OrderIsNumeric
<1>3. ci = (IF s <= i THEN i - s ELSE i - s + p) /\ ce = (IF s <= e THEN e - s ELSE e - s + p)
  BY ClockwiseByCases
<1>4. in_range(id, start, end, incl) =
        IF start = end THEN incl /\ id = start
        ELSE IF Less(start, end)
             THEN Less(start, id) /\ (IF incl THEN LessEq(id, end) ELSE Less(id, end))
             ELSE Less(start, id) \/ (IF incl THEN LessEq(id, end) ELSE Less(id, end))
  BY DEF in_range
<1>5. H!in_range(i, s, e, incl) =
        IF s = e THEN incl /\ i = s
        ELSE IF s < e
             THEN i > s /\ (IF incl THEN i <= e ELSE i < e)
             ELSE i > s \/ (IF incl THEN i <= e ELSE i < e)
  BY DEF H!in_range
<1> HIDE DEF i, s, e, p, ci, ce
<1>6. in_range(id, start, end, incl) = H!in_range(i, s, e, incl)
  BY <1>1, <1>2, <1>4, <1>5
<1>7. ASSUME start # end
      PROVE  in_range(id, start, end, incl)
               <=> ci > 0 /\ IF incl THEN ci <= ce ELSE ci < ce
  <2>1. s # e
    BY <1>2, <1>7
  <2>2. in_range(id, start, end, incl) <=>
          IF s < e THEN s < i /\ (IF incl THEN i <= e ELSE i < e)
          ELSE s < i \/ (IF incl THEN i <= e ELSE i < e)
    BY <1>2, <1>4, <1>7
  <2>3. CASE incl
    <3>1. (IF s < e THEN s < i /\ i <= e ELSE s < i \/ i <= e) <=> (ci > 0 /\ ci <= ce)
      BY <1>1, <1>3, <2>1
    <3> QED
      BY <2>2, <2>3, <3>1
  <2>4. CASE ~incl
    <3>1. (IF s < e THEN s < i /\ i < e ELSE s < i \/ i < e) <=> (ci > 0 /\ ci < ce)
      BY <1>1, <1>3, <2>1
    <3> QED
      BY <2>2, <2>4, <3>1
  <2> QED
    BY <2>3, <2>4
<1> QED
  BY <1>6, <1>7 DEF i, s, e, p, ci, ce
-----------------------------------------------------------------------------
(* What a byte keeps of a difference of two digits and a borrow. *)
LEMMA DifferenceDigit ==
  ASSUME NEW d \in Int, NEW B \in Nat \ {0}, 0 - B <= d, d < B
  PROVE  d % B \in 0 .. (B - 1) /\ d % B = IF d < 0 THEN d + B ELSE d
<1>1. CASE d < 0
  <2> DEFINE r == d + B
             q == -1
  <2>1. r \in Nat /\ r < B /\ d = q * B + r /\ q \in Int
    BY <1>1
  <2> HIDE DEF r, q
  <2>2. d % B = r
    BY <2>1, DivisionUnique
  <2> QED
    BY <1>1, <2>1, <2>2 DEF r
<1>2. CASE ~(d < 0)
  <2>1. d \in Nat /\ d = 0 * B + d /\ 0 \in Int
    BY <1>2
  <2>2. d % B = d
    BY <2>1, DivisionUnique
  <2> QED
    BY <1>2, <2>1, <2>2
<1> QED
  BY <1>1, <1>2

(* The same of a sum of two digits. *)
LEMMA SumDigit ==
  ASSUME NEW d \in Nat, NEW B \in Nat \ {0}, d < B + B
  PROVE  d % B \in 0 .. (B - 1) /\ d % B = IF d >= B THEN d - B ELSE d
<1>1. CASE d >= B
  <2> DEFINE r == d - B
             q == 1
  <2>1. r \in Nat /\ r < B /\ d = q * B + r /\ q \in Int
    BY <1>1
  <2> HIDE DEF r, q
  <2>2. d % B = r
    BY <2>1, DivisionUnique
  <2> QED
    BY <1>1, <2>1, <2>2 DEF r
<1>2. CASE ~(d >= B)
  <2>1. d \in Nat /\ d = 0 * B + d /\ 0 \in Int /\ d < B
    BY <1>2
  <2>2. d % B = d
    BY <2>1, DivisionUnique
  <2> QED
    BY <1>2, <2>1, <2>2
<1> QED
  BY <1>1, <1>2

(* One turn of the loop of distance. *)
Subtract(from, to, i, s) ==
  [result |-> [s.result EXCEPT ![i] = (to[i] - from[i] - s.borrow) % Base],
   borrow |-> IF to[i] - from[i] - s.borrow < 0 THEN 1 ELSE 0]

Difference == [result : Bytes, borrow : {0, 1}]

(* A turn settles byte i, with its borrow, and leaves the others alone. *)
LEMMA SubtractByte ==
  ASSUME NEW from \in Bytes, NEW to \in Bytes, NEW i \in 0 .. Last, NEW s \in Difference
  PROVE  /\ Subtract(from, to, i, s) \in Difference
         /\ \A j \in 0 .. Last : j # i => Subtract(from, to, i, s).result[j] = s.result[j]
         /\ to[i] + Base * Subtract(from, to, i, s).borrow
              = from[i] + Subtract(from, to, i, s).result[i] + s.borrow
<1> DEFINE t == to[i]
           f == from[i]
           w == s.borrow
           d == t - f - w
           m == d % Base
           c == IF d < 0 THEN 1 ELSE 0
           r == s.result
           n == [r EXCEPT ![i] = m]
<1>1. t \in Nat /\ f \in Nat /\ t <= Base - 1 /\ f <= Base - 1 /\ Base \in Nat \ {0}
  BY Digits, Powers
<1>2. w \in {0, 1} /\ r \in Bytes
  BY DEF Difference
<1>3. Subtract(from, to, i, s) = [result |-> n, borrow |-> c]
  BY DEF Subtract
<1> HIDE DEF t, f, w, r
<1>4. d \in Int /\ 0 - Base <= d /\ d < Base
  BY <1>1, <1>2
<1>5. m \in 0 .. (Base - 1) /\ m = IF d < 0 THEN d + Base ELSE d
  <2> HIDE DEF d
  <2> QED
    BY <1>1, <1>4, DifferenceDigit
<1>6. c \in {0, 1} /\ t + Base * c = f + m + w
  <2> HIDE DEF m
  <2>1. CASE d < 0
    <3>1. c = 1 /\ m = d + Base
      BY <1>5, <2>1
    <3>2. t + Base * 1 = f + m + w
      BY <1>1, <1>2, <1>4, <3>1
    <3> QED
      BY <3>1, <3>2
  <2>2. CASE ~(d < 0)
    <3>1. c = 0 /\ m = d
      BY <1>5, <2>2
    <3>2. t + Base * 0 = f + m + w
      BY <1>1, <1>2, <1>4, <3>1
    <3> QED
      BY <3>1, <3>2
  <2> QED
    BY <2>1, <2>2
<1> HIDE DEF c, m
<1>7. n \in Bytes /\ n[i] = m /\ \A j \in 0 .. Last : j # i => n[j] = r[j]
  BY <1>2, <1>5 DEF Bytes, Byte
<1> HIDE DEF n
<1> QED
  BY <1>3, <1>6, <1>7 DEF Difference, t, f, w, r

(* The recursion of BorrowLoop has its solution. *)
LEMMA BorrowSteps ==
  ASSUME NEW from \in Bytes, NEW to \in Bytes
  PROVE  \E v : /\ BorrowLoop(from, to) = v[0].result
                /\ v \in [0 .. Size -> Difference] /\ v[Size].borrow = 0
                /\ \A i \in 0 .. Last : v[i] = Subtract(from, to, i, v[i + 1])
<1> DEFINE zero == [result |-> [j \in 0 .. Last |-> 0], borrow |-> 0]
           G == [i \in 0 .. (Size - 1) |-> [s \in Difference |-> Subtract(from, to, i, s)]]
           Step(f) == [i \in 0 .. Size |-> IF i = Size THEN zero
                                           ELSE Subtract(from, to, i, f[i + 1])]
<1>1. Size \in Nat /\ Size - 1 = Last /\ Last \in Nat /\ Base \in Nat \ {0}
  BY Powers
<1>2. zero \in Difference /\ zero.borrow = 0
  <2>1. 0 \in 0 .. (Base - 1)
    BY <1>1
  <2> QED
    BY <2>1 DEF Difference, Bytes, Byte
<1>3. /\ G \in [0 .. (Size - 1) -> [Difference -> Difference]]
      /\ \A i \in 0 .. (Size - 1) : \A s \in Difference : G[i][s] = Subtract(from, to, i, s)
  BY <1>1, SubtractByte
<1> HIDE DEF zero, G
<1>4. PICK f : SolvesDown(f, Size, Difference, zero, G)
  BY <1>1, <1>2, <1>3, RecursionDown
<1>5. /\ f \in [0 .. Size -> Difference] /\ f[Size] = zero
      /\ \A i \in 0 .. (Size - 1) : f[i] = G[i][f[i + 1]]
  BY <1>4 DEF SolvesDown
<1>6. f = Step(f)
  <2>1. \A i \in 0 .. Size : f[i] = IF i = Size THEN zero ELSE Subtract(from, to, i, f[i + 1])
    <3> SUFFICES ASSUME NEW i \in 0 .. Size, i # Size
                 PROVE  f[i] = Subtract(from, to, i, f[i + 1])
      BY <1>5
    <3>1. i \in 0 .. (Size - 1) /\ i + 1 \in 0 .. Size
      BY <1>1
    <3> QED
      BY <1>3, <1>5, <3>1
  <2> QED
    BY <1>5, <2>1
<1> DEFINE v == CHOOSE g : g = Step(g)
<1>7. v = Step(v)
  <2> HIDE DEF Step
  <2> QED
    BY <1>6
<1>8. BorrowLoop(from, to) = v[0].result
  BY DEF BorrowLoop, Subtract, zero
<1> HIDE DEF v
<1>9. /\ v[Size] = zero /\ v = [i \in 0 .. Size |-> v[i]]
      /\ \A i \in 0 .. Last : v[i] = Subtract(from, to, i, v[i + 1])
  <2> DEFINE h == Step(v)
  <2>1. /\ \A i \in 0 .. Size : h[i] = IF i = Size THEN zero ELSE Subtract(from, to, i, v[i + 1])
        /\ h = [i \in 0 .. Size |-> h[i]]
    OBVIOUS
  <2>2. v = h
    BY <1>7
  <2> HIDE DEF h, Step
  <2>3. Size \in 0 .. Size /\ \A i \in 0 .. Last : i \in 0 .. Size /\ i # Size
    BY <1>1
  <2> QED
    BY <2>1, <2>2, <2>3
<1> DEFINE T == {i \in 0 .. Size : v[i] \in Difference}
<1>10. Size \in T
  <2>1. v[Size] = zero
    BY <1>9
  <2>2. Size \in 0 .. Size
    BY <1>1
  <2> QED
    BY <1>2, <2>1, <2>2
<1>11. \A i \in 0 .. (Size - 1) : i + 1 \in T => i \in T
  <2> SUFFICES ASSUME NEW i \in 0 .. (Size - 1), v[i + 1] \in Difference PROVE i \in T
    OBVIOUS
  <2>1. i \in 0 .. Last /\ i \in 0 .. Size
    BY <1>1
  <2>2. v[i] = Subtract(from, to, i, v[i + 1])
    BY <1>9, <2>1
  <2>3. v[i] \in Difference
    BY <2>1, <2>2, SubtractByte
  <2> QED
    BY <2>1, <2>3
<1> HIDE DEF T
<1>12. \A i \in 0 .. Size : i \in T
  BY <1>1, <1>10, <1>11, CountDown
<1>13. v \in [0 .. Size -> Difference]
  BY <1>9, <1>12 DEF T
<1> QED
  BY <1>2, <1>8, <1>9, <1>13

(* The loop of distance subtracts, up to a borrow out of the first byte. *)
LEMMA BorrowCorrect ==
  ASSUME NEW from \in Bytes, NEW to \in Bytes
  PROVE  /\ BorrowLoop(from, to) \in Bytes
         /\ \E c \in {0, 1} : Num(to) + c * 2^Bits = Num(from) + Num(BorrowLoop(from, to))
<1>1. PICK v : /\ BorrowLoop(from, to) = v[0].result
               /\ v \in [0 .. Size -> Difference] /\ v[Size].borrow = 0
               /\ \A i \in 0 .. Last : v[i] = Subtract(from, to, i, v[i + 1])
  BY BorrowSteps
<1>2. Size \in Nat /\ Size = Last + 1 /\ Last \in Nat
  BY Powers
<1>3. \A i \in 0 .. Size : v[i].result \in Bytes /\ v[i].borrow \in {0, 1}
  BY <1>1 DEF Difference
<1>4. \A i \in 0 .. Last : v[i + 1] \in Difference
  BY <1>1, <1>2
<1>5. \A i \in 0 .. Last :
        /\ \A j \in 0 .. Last : j # i => v[i].result[j] = v[i + 1].result[j]
        /\ to[i] + Base * v[i].borrow = from[i] + v[i].result[i] + v[i + 1].borrow
  BY <1>1, <1>4, SubtractByte
<1> DEFINE T == {i \in 0 .. Size : \A j \in 0 .. Last : j >= i => v[i].result[j] = v[j].result[j]}
<1>6. Size \in T
  BY <1>2
<1>7. \A i \in 0 .. (Size - 1) : i + 1 \in T => i \in T
  <2> SUFFICES ASSUME NEW i \in 0 .. (Size - 1), i + 1 \in T,
                      NEW j \in 0 .. Last, j >= i
               PROVE  v[i].result[j] = v[j].result[j]
    BY <1>2
  <2>1. i \in 0 .. Last /\ (j # i => j >= i + 1)
    BY <1>2
  <2>2. j # i => v[i].result[j] = v[i + 1].result[j]
    BY <1>5, <2>1
  <2>3. j # i => v[i + 1].result[j] = v[j].result[j]
    BY <2>1
  <2> QED
    BY <2>2, <2>3
<1> HIDE DEF T
<1>8. \A i \in 0 .. Size : i \in T
  BY <1>2, <1>6, <1>7, CountDown
<1> DEFINE r == v[0].result
           e == [i \in 0 .. Size |-> v[i].borrow]
<1>9. 0 \in 0 .. Size /\ 0 \in T
  BY <1>2, <1>8
<1>10. r \in Bytes /\ \A j \in 0 .. Last : r[j] = v[j].result[j]
  BY <1>3, <1>9 DEF T
<1>11. /\ e \in [0 .. Size -> {0, 1}] /\ e[Size] = 0 /\ e[0] \in {0, 1}
       /\ \A i \in 0 .. Last : e[i] = v[i].borrow /\ e[i + 1] = v[i + 1].borrow
  BY <1>1, <1>2, <1>3
<1> HIDE DEF r, e
<1>12. \A i \in 0 .. Last : to[i] + Base * e[i] = from[i] + r[i] + e[i + 1]
  BY <1>5, <1>10, <1>11
<1>13. AddsUp(from, r, to, e)
  BY <1>11, <1>12 DEF AddsUp
<1>14. Num(to) + e[0] * 2^Bits = Num(from) + Num(r) + e[Size]
  BY <1>10, <1>13, AddBytes
<1>15. Num(from) + Num(r) + 0 = Num(from) + Num(r)
  BY <1>10, NumBounded
<1>16. Num(to) + e[0] * 2^Bits = Num(from) + Num(r)
  BY <1>11, <1>14, <1>15
<1> QED
  BY <1>1, <1>10, <1>11, <1>16 DEF r

(* When the target does not lie past zero, nothing is borrowed. *)
LEMMA DistanceCorrect ==
  ASSUME NEW from \in Bytes, NEW to \in Bytes, Num(from) <= Num(to)
  PROVE  Num(distance(from, to)) = Clockwise(from, to)
<1>1. distance(from, to) = BorrowLoop(from, to)
  BY OrderIsNumeric DEF distance
<1> DEFINE r == BorrowLoop(from, to)
           x == Num(from)
           y == Num(to)
           z == Num(r)
           p == 2^Bits
<1>2. PICK c \in {0, 1} : y + c * p = x + z
  BY BorrowCorrect
<1>3. x \in Nat /\ y \in Nat /\ z \in Nat /\ z < p /\ p \in Nat
  BY BorrowCorrect, NumBounded, Powers
<1>4. Clockwise(from, to) = y - x
  BY ClockwiseByCases
<1> HIDE DEF r, x, y, z, p
<1>5. x <= y
  BY DEF x, y
<1>6. c = 0
  <2> SUFFICES ASSUME c = 1 PROVE FALSE
    OBVIOUS
  <2>1. y + 1 * p = x + z
    BY <1>2
  <2> QED
    BY <1>3, <1>5, <2>1
<1>7. y + 0 * p = x + z
  BY <1>2, <1>6
<1>8. z = y - x
  BY <1>3, <1>7
<1> QED
  BY <1>1, <1>4, <1>8 DEF z, r
-----------------------------------------------------------------------------
(* One turn of the loop of add_power_of_two. *)
Visit(i, s, amount) ==
  IF ~s.carry THEN s
  ELSE [result |-> [s.result EXCEPT ![i] = (s.result[i] + amount) % Base],
        carry  |-> s.result[i] + amount >= Base]

Progress == [result : Bytes, carry : BOOLEAN]

(* A carry as a digit. *)
Unit(c) == IF c THEN 1 ELSE 0

(* A turn settles byte i while there is a carry, and leaves the others     *)
(* alone.                                                                  *)
LEMMA VisitByte ==
  ASSUME NEW i \in 0 .. Last, NEW s \in Progress, NEW amount \in Nat, amount <= Base
  PROVE  /\ Visit(i, s, amount) \in Progress
         /\ \A j \in 0 .. Last : j # i => Visit(i, s, amount).result[j] = s.result[j]
         /\ s.carry => Visit(i, s, amount).result[i] + Base * Unit(Visit(i, s, amount).carry)
                         = s.result[i] + amount
         /\ ~s.carry => Visit(i, s, amount) = s
<1> DEFINE r == s.result
           d == r[i] + amount
           m == d % Base
           c == d >= Base
           n == [r EXCEPT ![i] = m]
<1>1. r \in Bytes /\ s.carry \in BOOLEAN /\ r[i] \in Nat /\ r[i] <= Base - 1 /\ Base \in Nat \ {0}
  BY Digits, Powers DEF Progress
<1>2. CASE ~s.carry
  BY <1>2 DEF Visit
<1>3. CASE s.carry
  <2>1. Visit(i, s, amount) = [result |-> n, carry |-> c]
    BY <1>3 DEF Visit
  <2> HIDE DEF r
  <2>2. d \in Nat /\ d < Base + Base
    BY <1>1
  <2>3. m \in 0 .. (Base - 1) /\ m = IF d >= Base THEN d - Base ELSE d
    <3> HIDE DEF d
    <3> QED
      BY <1>1, <2>2, SumDigit
  <2>4. c \in BOOLEAN /\ m + Base * Unit(c) = d
    <3> HIDE DEF m, d
    <3>1. CASE d >= Base
      <4>1. Unit(c) = 1 /\ m = d - Base
        BY <2>3, <3>1 DEF Unit
      <4>2. m + Base * 1 = d
        BY <1>1, <2>2, <4>1
      <4> QED
        BY <4>1, <4>2
    <3>2. CASE ~(d >= Base)
      <4>1. Unit(c) = 0 /\ m = d
        BY <2>3, <3>2 DEF Unit
      <4>2. m + Base * 0 = d
        BY <1>1, <2>2, <4>1
      <4> QED
        BY <4>1, <4>2
    <3>3. c \in BOOLEAN
      OBVIOUS
    <3> QED
      BY <3>1, <3>2, <3>3
  <2> HIDE DEF c, m
  <2>5. n \in Bytes /\ n[i] = m /\ \A j \in 0 .. Last : j # i => n[j] = r[j]
    BY <1>1, <2>3 DEF Bytes, Byte
  <2> HIDE DEF n
  <2>6. Visit(i, s, amount) \in Progress
    BY <2>1, <2>4, <2>5 DEF Progress
  <2> QED
    BY <1>3, <2>1, <2>4, <2>5, <2>6 DEF r
<1> QED
  BY <1>1, <1>2, <1>3

(* The recursion of CarryLoop has its solution. *)
LEMMA CarrySteps ==
  ASSUME NEW base \in Bytes, NEW k \in 0 .. Last, NEW addend \in Byte
  PROVE  \E v : /\ CarryLoop(base, k, addend) = v[0].result
                /\ v \in [0 .. k -> Progress]
                /\ v[k] = Visit(k, [result |-> base, carry |-> TRUE], addend)
                /\ \A i \in 0 .. (k - 1) : v[i] = Visit(i, v[i + 1], 1)
<1> DEFINE start == [result |-> base, carry |-> TRUE]
           first == Visit(k, start, addend)
           G == [i \in 0 .. (k - 1) |-> [s \in Progress |-> Visit(i, s, 1)]]
           Step(f) == [i \in 0 .. k |->
                         Visit(i, IF i = k THEN start ELSE f[i + 1], IF i = k THEN addend ELSE 1)]
<1>1. /\ k \in Nat /\ Last \in Nat /\ Base \in Nat \ {0} /\ 1 <= Base
      /\ addend \in Nat /\ addend <= Base /\ \A i \in 0 .. (k - 1) : i \in 0 .. Last
  BY Powers DEF Byte
<1>2. first \in Progress
  <2>1. start \in Progress
    BY DEF Progress
  <2> HIDE DEF start
  <2> QED
    BY <1>1, <2>1, VisitByte
<1>3. /\ G \in [0 .. (k - 1) -> [Progress -> Progress]]
      /\ \A i \in 0 .. (k - 1) : \A s \in Progress : G[i][s] = Visit(i, s, 1)
  BY <1>1, VisitByte
<1> HIDE DEF first, G
<1>4. PICK f : SolvesDown(f, k, Progress, first, G)
  BY <1>1, <1>2, <1>3, RecursionDown
<1>5. /\ f \in [0 .. k -> Progress] /\ f[k] = first
      /\ \A i \in 0 .. (k - 1) : f[i] = G[i][f[i + 1]]
  BY <1>4 DEF SolvesDown
<1>6. f = Step(f)
  <2>1. \A i \in 0 .. k : f[i] = Visit(i, IF i = k THEN start ELSE f[i + 1], IF i = k THEN addend ELSE 1)
    <3> SUFFICES ASSUME NEW i \in 0 .. k
                 PROVE  f[i] = Visit(i, IF i = k THEN start ELSE f[i + 1], IF i = k THEN addend ELSE 1)
      OBVIOUS
    <3>1. CASE i = k
      BY <1>5, <3>1 DEF first
    <3>2. CASE i # k
      <4>1. i \in 0 .. (k - 1) /\ i + 1 \in 0 .. k
        BY <1>1, <3>2
      <4> QED
        BY <1>3, <1>5, <3>2, <4>1
    <3> QED
      BY <3>1, <3>2
  <2> QED
    BY <1>5, <2>1
<1> DEFINE v == CHOOSE g : g = Step(g)
<1>7. v = Step(v)
  <2> HIDE DEF Step
  <2> QED
    BY <1>6
<1>8. CarryLoop(base, k, addend) = v[0].result
  BY DEF CarryLoop, Visit
<1> HIDE DEF v
<1>9. /\ v[k] = first /\ v = [i \in 0 .. k |-> v[i]]
      /\ \A i \in 0 .. (k - 1) : v[i] = Visit(i, v[i + 1], 1)
  <2> DEFINE h == Step(v)
  <2>1. /\ \A i \in 0 .. k : h[i] = Visit(i, IF i = k THEN start ELSE v[i + 1], IF i = k THEN addend ELSE 1)
        /\ h = [i \in 0 .. k |-> h[i]]
    OBVIOUS
  <2>2. v = h
    BY <1>7
  <2> HIDE DEF h, Step
  <2>3. k \in 0 .. k /\ \A i \in 0 .. (k - 1) : i \in 0 .. k /\ i # k
    BY <1>1
  <2>4. h[k] = first
    BY <2>1, <2>3 DEF first
  <2> QED
    BY <2>1, <2>2, <2>3, <2>4
<1> DEFINE T == {i \in 0 .. k : v[i] \in Progress}
<1>10. k \in T
  <2>1. v[k] = first
    BY <1>9
  <2>2. k \in 0 .. k
    BY <1>1
  <2> QED
    BY <1>2, <2>1, <2>2
<1>11. \A i \in 0 .. (k - 1) : i + 1 \in T => i \in T
  <2> SUFFICES ASSUME NEW i \in 0 .. (k - 1), v[i + 1] \in Progress PROVE i \in T
    OBVIOUS
  <2>1. i \in 0 .. Last /\ i \in 0 .. k
    BY <1>1
  <2>2. v[i] = Visit(i, v[i + 1], 1)
    BY <1>9
  <2>3. v[i] \in Progress
    BY <1>1, <2>1, <2>2, VisitByte
  <2> QED
    BY <2>1, <2>3
<1> HIDE DEF T
<1>12. \A i \in 0 .. k : i \in T
  BY <1>1, <1>10, <1>11, CountDown
<1>13. v \in [0 .. k -> Progress]
  BY <1>9, <1>12 DEF T
<1> QED
  BY <1>8, <1>9, <1>13 DEF first

(* The identifier with one byte set. *)
Single(k, addend) == [i \in 0 .. Last |-> IF i = k THEN addend ELSE 0]

(* It spells the byte times the power of its place. *)
LEMMA SingleNumber ==
  ASSUME NEW k \in 0 .. Last, NEW addend \in Byte
  PROVE  Single(k, addend) \in Bytes /\ Num(Single(k, addend)) = addend * Pow(Last - k)
<1> DEFINE z == Single(k, addend)
           Z == Prefix(z)
<1>1. /\ k \in Nat /\ Last \in Nat /\ addend \in Nat /\ Base \in Nat \ {0}
      /\ Pow(0) = 1 /\ \A n \in 0 .. Last : Pow(n) \in Nat /\ Pow(n + 1) = Base * Pow(n)
  BY Powers DEF Byte
<1>2. z \in Bytes /\ \A i \in 0 .. Last : z[i] = IF i = k THEN addend ELSE 0
  <2>1. 0 \in Byte
    BY <1>1 DEF Byte
  <2> QED
    BY <2>1 DEF Single, Bytes
<1> HIDE DEF z
<1>3. /\ Z \in [0 .. Last -> Nat] /\ Z[0] = z[0]
      /\ \A i \in 1 .. Last : Z[i] = Z[i - 1] * Base + z[i]
  BY <1>2, PrefixSteps
<1> HIDE DEF Z
<1> DEFINE T == {i \in 0 .. Last : Z[i] = IF i < k THEN 0 ELSE addend * Pow(i - k)}
<1>4. 0 \in T
  <2>1. 0 \in 0 .. Last
    BY <1>1
  <2>2. CASE k = 0
    <3>1. ~(0 < k) /\ 0 - k = 0 /\ Z[0] = addend
      BY <1>2, <1>3, <2>1, <2>2
    <3>2. addend * Pow(0 - k) = addend
      BY <1>1, <3>1
    <3> QED
      BY <2>1, <3>1, <3>2
  <2>3. CASE k # 0
    <3>1. 0 < k
      BY <1>1, <2>3
    <3>2. z[0] = 0
      BY <1>2, <2>1, <2>3
    <3>3. Z[0] = 0
      BY <1>3, <3>2
    <3> QED
      BY <2>1, <3>1, <3>3
  <2> QED
    BY <2>2, <2>3
<1>5. \A i \in 1 .. Last : i - 1 \in T => i \in T
  <2> SUFFICES ASSUME NEW i \in 1 .. Last, i - 1 \in T PROVE i \in T
    OBVIOUS
  <2>1. i \in 0 .. Last /\ i - 1 \in 0 .. Last
    BY <1>1
  <2>2. /\ Z[i] = Z[i - 1] * Base + z[i] /\ z[i] = (IF i = k THEN addend ELSE 0)
        /\ Z[i - 1] = IF i - 1 < k THEN 0 ELSE addend * Pow((i - 1) - k)
    BY <1>2, <1>3, <2>1
  <2>3. CASE i < k
    <3>1. i - 1 < k /\ i # k
      BY <1>1, <2>1, <2>3
    <3>2. Z[i] = 0 * Base + 0
      BY <2>2, <3>1
    <3>3. Z[i] = 0
      BY <1>1, <3>2
    <3> QED
      BY <2>1, <2>3, <3>3
  <2>4. CASE i = k
    <3>1. i - 1 < k /\ ~(i < k) /\ i - k = 0
      BY <1>1, <2>1, <2>4
    <3>2. Z[i] = 0 * Base + addend
      BY <2>2, <2>4, <3>1
    <3>3. Z[i] = addend /\ addend * Pow(i - k) = addend
      BY <1>1, <3>1, <3>2
    <3> QED
      BY <2>1, <3>1, <3>3
  <2>5. CASE i > k
    <3> DEFINE n == (i - 1) - k
               w == Pow(n)
    <3>1. ~(i - 1 < k) /\ ~(i < k) /\ i # k /\ n \in 0 .. Last /\ n + 1 = i - k
      BY <1>1, <2>1, <2>5
    <3>2. Z[i] = (addend * w) * Base + 0
      BY <2>2, <3>1
    <3>3. w \in Nat /\ Pow(i - k) = Base * w
      BY <1>1, <3>1
    <3> HIDE DEF w
    <3>4. (addend * w) * Base + 0 = addend * (Base * w)
      BY <1>1, <3>3
    <3>5. Z[i] = addend * Pow(i - k)
      BY <3>2, <3>3, <3>4
    <3> QED
      BY <2>1, <3>1, <3>5
  <2>6. i < k \/ i = k \/ i > k
    BY <1>1, <2>1
  <2> QED
    BY <2>3, <2>4, <2>5, <2>6
<1> HIDE DEF T
<1>6. \A i \in 0 .. Last : i \in T
  BY <1>1, <1>4, <1>5, CountUp
<1>7. Last \in T /\ ~(Last < k)
  BY <1>1, <1>6
<1>8. Z[Last] = addend * Pow(Last - k)
  BY <1>7 DEF T
<1> QED
  BY <1>2, <1>8 DEF Num, Z, z

(* The loop of add_power_of_two adds, up to a carry out of the first byte. *)
LEMMA CarryCorrect ==
  ASSUME NEW base \in Bytes, NEW k \in 0 .. Last, NEW addend \in Byte
  PROVE  /\ CarryLoop(base, k, addend) \in Bytes
         /\ \E c \in {0, 1} : Num(CarryLoop(base, k, addend)) + c * 2^Bits
                                = Num(base) + addend * Pow(Last - k)
<1> DEFINE start == [result |-> base, carry |-> TRUE]
<1>1. PICK v : /\ CarryLoop(base, k, addend) = v[0].result
               /\ v \in [0 .. k -> Progress]
               /\ v[k] = Visit(k, start, addend)
               /\ \A i \in 0 .. (k - 1) : v[i] = Visit(i, v[i + 1], 1)
  BY CarrySteps
<1>2. /\ k \in Nat /\ Last \in Nat /\ Base \in Nat \ {0} /\ 1 <= Base /\ Size = Last + 1
      /\ addend \in Nat /\ addend <= Base
  BY Powers DEF Byte
<1>3. start \in Progress /\ start.carry /\ start.result = base
  BY DEF Progress
<1> HIDE DEF start
<1>4. \A i \in 0 .. k : v[i] \in Progress /\ v[i].result \in Bytes /\ v[i].carry \in BOOLEAN
  BY <1>1 DEF Progress
<1>5. /\ \A j \in 0 .. Last : j # k => v[k].result[j] = base[j]
      /\ v[k].result[k] + Base * Unit(v[k].carry) = base[k] + addend
  <2> DEFINE w == Visit(k, start, addend)
  <2>1. /\ \A j \in 0 .. Last : j # k => w.result[j] = start.result[j]
        /\ w.result[k] + Base * Unit(w.carry) = start.result[k] + addend
    BY <1>2, <1>3, VisitByte
  <2>2. v[k] = w
    BY <1>1
  <2> HIDE DEF w
  <2> QED
    BY <1>3, <2>1, <2>2
<1>6. \A i \in 0 .. (k - 1) :
        /\ i \in 0 .. Last /\ i + 1 \in 0 .. k
        /\ \A j \in 0 .. Last : j # i => v[i].result[j] = v[i + 1].result[j]
        /\ v[i + 1].carry => v[i].result[i] + Base * Unit(v[i].carry) = v[i + 1].result[i] + 1
        /\ ~v[i + 1].carry => v[i] = v[i + 1]
  <2> SUFFICES ASSUME NEW i \in 0 .. (k - 1)
               PROVE  /\ i \in 0 .. Last /\ i + 1 \in 0 .. k
                      /\ \A j \in 0 .. Last : j # i => v[i].result[j] = v[i + 1].result[j]
                      /\ v[i + 1].carry => v[i].result[i] + Base * Unit(v[i].carry) = v[i + 1].result[i] + 1
                      /\ ~v[i + 1].carry => v[i] = v[i + 1]
    OBVIOUS
  <2>1. i \in 0 .. Last /\ i + 1 \in 0 .. k
    BY <1>2
  <2>2. v[i + 1] \in Progress /\ v[i] = Visit(i, v[i + 1], 1)
    BY <1>1, <1>4, <2>1
  <2> DEFINE s == v[i + 1]
             w == Visit(i, s, 1)
  <2>3. s \in Progress /\ v[i] = w
    BY <2>2
  <2> HIDE DEF s
  <2>4. /\ \A j \in 0 .. Last : j # i => w.result[j] = s.result[j]
        /\ s.carry => w.result[i] + Base * Unit(w.carry) = s.result[i] + 1
        /\ ~s.carry => w = s
    <3>1. i \in 0 .. Last /\ s \in Progress /\ 1 \in Nat /\ 1 <= Base
      BY <1>2, <2>1, <2>3
    <3> QED
      BY <3>1, VisitByte
  <2> HIDE DEF w
  <2> QED
    BY <2>1, <2>3, <2>4 DEF s
<1> DEFINE T == {i \in 0 .. k : \A j \in 0 .. Last :
                   v[i].result[j] = IF i <= j /\ j <= k THEN v[j].result[j] ELSE base[j]}
<1>7. k \in T
  <2>1. k \in 0 .. k /\ \A j \in 0 .. Last : k <= j /\ j <= k <=> j = k
    BY <1>2
  <2> QED
    BY <1>5, <2>1
<1>8. \A i \in 0 .. (k - 1) : i + 1 \in T => i \in T
  <2> SUFFICES ASSUME NEW i \in 0 .. (k - 1), i + 1 \in T, NEW j \in 0 .. Last
               PROVE  v[i].result[j] = IF i <= j /\ j <= k THEN v[j].result[j] ELSE base[j]
    BY <1>2
  <2>1. (j # i => (i <= j /\ j <= k <=> i + 1 <= j /\ j <= k)) /\ (j = i => i <= j /\ j <= k)
    BY <1>2
  <2>2. j # i => v[i].result[j] = v[i + 1].result[j]
    BY <1>6
  <2>3. v[i + 1].result[j] = IF i + 1 <= j /\ j <= k THEN v[j].result[j] ELSE base[j]
    OBVIOUS
  <2> HIDE DEF T
  <2> QED
    BY <2>1, <2>2, <2>3
<1>9. \A i \in 0 .. (k - 1) : v[i + 1].result[i] = base[i]
  <2> SUFFICES ASSUME NEW i \in 0 .. (k - 1) PROVE v[i + 1].result[i] = base[i]
    OBVIOUS
  <2> HIDE DEF T
  <2>1. i + 1 \in T
    <3>1. \A n \in 0 .. k : n \in T
      BY <1>2, <1>7, <1>8, CountDown
    <3> QED
      BY <1>6, <3>1
  <2>2. i \in 0 .. Last /\ ~(i + 1 <= i)
    BY <1>2, <1>6
  <2> QED
    BY <2>1, <2>2 DEF T
<1> DEFINE r == v[0].result
           z == Single(k, addend)
           e == [i \in 0 .. Size |-> IF i <= k THEN Unit(v[i].carry) ELSE 0]
<1>10. /\ r \in Bytes
       /\ \A j \in 0 .. Last : r[j] = IF j <= k THEN v[j].result[j] ELSE base[j]
  <2>1. 0 \in 0 .. k
    BY <1>2
  <2> HIDE DEF T
  <2>2. 0 \in T
    BY <1>2, <1>7, <1>8, <2>1, CountDown
  <2>3. \A j \in 0 .. Last : 0 <= j
    BY <1>2
  <2> QED
    BY <1>4, <2>1, <2>2, <2>3 DEF T
<1> HIDE DEF T
<1>11. e \in [0 .. Size -> {0, 1}] /\ e[Size] = 0 /\ e[0] \in {0, 1}
  <2>1. Size \in 0 .. Size /\ 0 \in 0 .. Size /\ ~(Size <= k)
    BY <1>2
  <2> QED
    BY <2>1 DEF Unit
<1>12. \A i \in 0 .. Last :
         /\ e[i] = IF i <= k THEN Unit(v[i].carry) ELSE 0
         /\ e[i + 1] = IF i + 1 <= k THEN Unit(v[i + 1].carry) ELSE 0
         /\ z[i] = IF i = k THEN addend ELSE 0
  <2>1. \A i \in 0 .. Last : i \in 0 .. Size /\ i + 1 \in 0 .. Size
    BY <1>2
  <2> QED
    BY <2>1 DEF Single
<1>13. z \in Bytes /\ Num(z) = addend * Pow(Last - k)
  BY SingleNumber
<1> HIDE DEF r, z, e
<1>14. \A i \in 0 .. Last : r[i] + Base * e[i] = base[i] + z[i] + e[i + 1]
  <2> SUFFICES ASSUME NEW i \in 0 .. Last
               PROVE  r[i] + Base * e[i] = base[i] + z[i] + e[i + 1]
    OBVIOUS
  <2>1. base[i] \in Nat /\ i \in Nat
    BY Digits
  <2>2. CASE i > k
    <3>1. ~(i <= k) /\ ~(i + 1 <= k) /\ i # k
      BY <1>2, <2>1, <2>2
    <3>2. r[i] = base[i] /\ e[i] = 0 /\ e[i + 1] = 0 /\ z[i] = 0
      BY <1>10, <1>12, <3>1
    <3>3. base[i] + Base * 0 = base[i] + 0 + 0
      BY <1>2, <2>1
    <3> QED
      BY <3>2, <3>3
  <2>3. CASE i = k
    <3>1. i <= k /\ ~(i + 1 <= k)
      BY <1>2, <2>3
    <3>2. r[i] = v[k].result[k] /\ e[i] = Unit(v[k].carry) /\ e[i + 1] = 0 /\ z[i] = addend
      BY <1>10, <1>12, <2>3, <3>1
    <3>3. r[i] + Base * e[i] = base[i] + addend
      BY <1>5, <2>3, <3>2
    <3>4. base[i] + addend = base[i] + addend + 0
      BY <1>2, <2>1
    <3> QED
      BY <3>2, <3>3, <3>4
  <2>4. CASE i < k
    <3>1. i \in 0 .. (k - 1) /\ i <= k /\ i + 1 <= k /\ i # k
      BY <1>2, <2>1, <2>4
    <3>2. /\ r[i] = v[i].result[i] /\ e[i] = Unit(v[i].carry)
          /\ e[i + 1] = Unit(v[i + 1].carry) /\ z[i] = 0 /\ v[i + 1].result[i] = base[i]
      BY <1>9, <1>10, <1>12, <3>1
    <3>3. CASE v[i + 1].carry
      <4>1. r[i] + Base * e[i] = base[i] + 1 /\ e[i + 1] = 1
        BY <1>6, <3>1, <3>2, <3>3 DEF Unit
      <4>2. base[i] + 1 = base[i] + 0 + 1
        BY <2>1
      <4> QED
        BY <3>2, <4>1, <4>2
    <3>4. CASE ~v[i + 1].carry
      <4>1. v[i] = v[i + 1]
        BY <1>6, <3>1, <3>4
      <4>2. r[i] = base[i] /\ e[i] = 0 /\ e[i + 1] = 0
        BY <3>2, <3>4, <4>1 DEF Unit
      <4>3. base[i] + Base * 0 = base[i] + 0 + 0
        BY <1>2, <2>1
      <4> QED
        BY <3>2, <4>2, <4>3
    <3> QED
      BY <3>3, <3>4
  <2>5. i > k \/ i = k \/ i < k
    BY <1>2, <2>1
  <2> QED
    BY <2>2, <2>3, <2>4, <2>5
<1>15. AddsUp(base, z, r, e)
  BY <1>11, <1>14 DEF AddsUp
<1>16. Num(r) + e[0] * 2^Bits = Num(base) + Num(z) + e[Size]
  BY <1>10, <1>13, <1>15, AddBytes
<1>17. Num(base) + Num(z) + 0 = Num(base) + Num(z)
  BY <1>13, NumBounded
<1>18. Num(r) + e[0] * 2^Bits = Num(base) + addend * Pow(Last - k)
  BY <1>11, <1>13, <1>16, <1>17
<1> QED
  BY <1>1, <1>10, <1>11, <1>18 DEF r

(* The byte that add_power_of_two starts with. *)
LEMMA ByteOfPower ==
  ASSUME NEW power \in 0 .. (Bits - 1)
  PROVE  power \div ByteBits \in 0 .. Last
<1> DEFINE q == power \div ByteBits
           m == power % ByteBits
<1>1. ByteBits \in Nat \ {0} /\ Size \in Nat /\ Last = Size - 1 /\ power \in Nat
  BY BytesAssumption DEF Last
<1>2. q \in Int /\ m \in 0 .. (ByteBits - 1) /\ power = ByteBits * q + m
  BY <1>1
<1>3. power < Size * ByteBits
  <2>1. Bits \in Int
    BY <1>1 DEF Bits
  <2>2. power < Bits
    BY <1>1, <2>1
  <2> QED
    BY <2>2 DEF Bits
<1> HIDE DEF q, m
<1>4. q >= 0
  <2> SUFFICES ASSUME q <= -1 PROVE FALSE
    BY <1>2
  <2>1. ByteBits * (0 - 1 - q) >= 0
    BY <1>1, <1>2
  <2>2. ByteBits * (0 - 1 - q) = 0 - ByteBits - ByteBits * q
    BY <1>1, <1>2
  <2> QED
    BY <1>1, <1>2, <2>1, <2>2
<1>5. q < Size
  <2> SUFFICES ASSUME q >= Size PROVE FALSE
    BY <1>1, <1>2
  <2>1. ByteBits * (q - Size) >= 0
    BY <1>1, <1>2
  <2>2. ByteBits * (q - Size) = ByteBits * q - Size * ByteBits
    BY <1>1, <1>2
  <2> QED
    BY <1>1, <1>2, <1>3, <2>1, <2>2
<1>6. q \in 0 .. Last
  BY <1>1, <1>2, <1>4, <1>5
<1> QED
  BY <1>6 DEF q

(* add_power_of_two on bytes is add_power_of_two on numbers. *)
LEMMA AddPowerCorrect ==
  ASSUME NEW base \in Bytes, NEW power \in Int
  PROVE  Num(add_power_of_two(base, power)) = H!add_power_of_two(Num(base), power)
<1>1. CASE power \notin 0 .. (Bits - 1)
  BY <1>1 DEF add_power_of_two, H!add_power_of_two
<1>2. CASE power \in 0 .. (Bits - 1)
  <2> DEFINE q == power \div ByteBits
             a == 2^(power % ByteBits)
             k == Last - q
             r == CarryLoop(base, k, a)
             p == 2^Bits
             x == Num(base)
             y == Num(r)
             t == 2^power
  <2>1. q \in 0 .. Last
    BY <1>2, ByteOfPower
  <2>2. a \in Byte /\ t = a * Pow(q)
    BY <1>2, PowerAssumption DEF Pow
  <2>3. add_power_of_two(base, power) = r /\ H!add_power_of_two(x, power) = (x + t) % p
    BY <1>2 DEF add_power_of_two, H!add_power_of_two
  <2> HIDE DEF q, a
  <2>4. k \in 0 .. Last /\ Last - k = q
    BY <2>1, Powers
  <2> HIDE DEF k
  <2>5. r \in Bytes /\ \E c \in {0, 1} : y + c * p = x + a * Pow(Last - k)
    BY <2>2, <2>4, CarryCorrect
  <2>6. \E c \in {0, 1} : y + c * p = x + t
    BY <2>2, <2>4, <2>5
  <2>7. x \in Nat /\ y \in Nat /\ y < p /\ p \in Nat \ {0}
    BY <2>5, NumBounded, Powers
  <2>8. a \in Nat /\ Pow(q) \in Nat
    BY <2>1, <2>2, Powers DEF Byte
  <2> HIDE DEF r, p, x, y, t
  <2>9. t \in Nat
    <3> DEFINE w == Pow(q)
    <3>1. w \in Nat /\ t = a * w
      BY <2>2, <2>8
    <3> HIDE DEF w
    <3> QED
      BY <2>8, <3>1
  <2>10. PICK c \in {0, 1} : y + c * p = x + t
    BY <2>6
  <2> DEFINE n == x + t
  <2>11. n \in Int /\ c \in Int /\ n = c * p + y
    BY <2>7, <2>9, <2>10
  <2> HIDE DEF n
  <2>12. n % p = y
    BY <2>7, <2>11, DivisionUnique
  <2> QED
    BY <2>3, <2>12 DEF n, x, y, r
<1> QED
  BY <1>1, <1>2
-----------------------------------------------------------------------------
(* The call made is one of the three functions' on identifiers. *)
Called ==
  \/ call = NoCall
  \/ \E base \in Bytes, power \in -1 .. Bits :
       call = [fn |-> "add_power_of_two", base |-> base, power |-> power,
               result |-> add_power_of_two(base, power)]
  \/ \E id, start, end \in Bytes, incl \in BOOLEAN :
       call = [fn |-> "in_range", id |-> id, start |-> start, end |-> end,
               incl |-> incl, result |-> in_range(id, start, end, incl)]
  \/ \E from, to \in Bytes :
       call = [fn |-> "distance", from |-> from, to |-> to, result |-> distance(from, to)]

(* Called is an invariant: the one call is made in the first step. *)
LEMMA CallMade == Spec => []Called
<1>1. Init => Called
  BY DEF Init, Called
<1>2. Called /\ [Next]_vars => Called'
  <2> SUFFICES ASSUME Called, [Next]_vars PROVE Called'
    OBVIOUS
  <2>1. ASSUME NEW base \in Bytes, NEW power \in -1 .. Bits, CallAddPowerOfTwo(base, power)
        PROVE  Called'
    BY <2>1 DEF CallAddPowerOfTwo, Called
  <2>2. ASSUME NEW id \in Bytes, NEW start \in Bytes, NEW end \in Bytes, NEW incl \in BOOLEAN,
               CallInRange(id, start, end, incl)
        PROVE  Called'
    BY <2>2 DEF CallInRange, Called
  <2>3. ASSUME NEW from \in Bytes, NEW to \in Bytes, CallDistance(from, to)
        PROVE  Called'
    BY <2>3 DEF CallDistance, Called
  <2>4. CASE UNCHANGED vars
    BY <2>4 DEF vars, Called
  <2> QED
    BY <2>1, <2>2, <2>3, <2>4 DEF Next
<1> QED
  BY <1>1, <1>2, PTL DEF Spec

(* Theorem: for every number of bytes and of bits in a byte, the carry     *)
(* loop of Hash::add_power_of_two adds 2^power modulo the size of the      *)
(* ring, and an invalid power returns base.                                *)
THEOREM CarryLoopAdds == Spec => []CarryLoopAddsOnRing
<1>1. Called => CarryLoopAddsOnRing
  <2> SUFFICES ASSUME Called, call.fn = "add_power_of_two" PROVE CarryLoopAddsOnRing
    BY DEF CarryLoopAddsOnRing
  <2>1. PICK base \in Bytes, power \in -1 .. Bits :
          call = [fn |-> "add_power_of_two", base |-> base, power |-> power,
                  result |-> add_power_of_two(base, power)]
    BY DEF Called, NoCall
  <2>2. power \in Int
    OBVIOUS
  <2>3. Num(add_power_of_two(base, power)) = H!add_power_of_two(Num(base), power)
    BY <2>2, AddPowerCorrect
  <2>4. call.result = add_power_of_two(base, power) /\ call.base = base /\ call.power = power
    BY <2>1
  <2> QED
    BY <2>3, <2>4 DEF CarryLoopAddsOnRing
<1> QED
  BY <1>1, CallMade, PTL

(* Theorem: memcmp and the two branches of Hash::in_range decide whether   *)
(* id lies clockwise between the bounds, on both sides of zero.            *)
THEOREM RangeIsClockwise == Spec => []InRangeIsClockwise
<1>1. Called => InRangeIsClockwise
  <2> SUFFICES ASSUME Called, call.fn = "in_range" PROVE InRangeIsClockwise
    BY DEF InRangeIsClockwise
  <2>1. PICK id \in Bytes, start \in Bytes, end \in Bytes, incl \in BOOLEAN :
          call = [fn |-> "in_range", id |-> id, start |-> start, end |-> end,
                  incl |-> incl, result |-> in_range(id, start, end, incl)]
    BY DEF Called, NoCall
  <2>2. /\ call.result = in_range(id, start, end, incl) /\ call.id = id
        /\ call.start = start /\ call.end = end /\ call.incl = incl
    BY <2>1
  <2>3. /\ in_range(id, start, end, incl) = H!in_range(Num(id), Num(start), Num(end), incl)
        /\ start # end =>
             (in_range(id, start, end, incl) <=>
                /\ Clockwise(start, id) > 0
                /\ IF incl THEN Clockwise(start, id) <= Clockwise(start, end)
                   ELSE Clockwise(start, id) < Clockwise(start, end))
    BY InRangeCorrect
  <2> QED
    BY <2>2, <2>3 DEF InRangeIsClockwise
<1> QED
  BY <1>1, CallMade, PTL

(* Theorem: the borrow loop of Hash::distance computes the clockwise       *)
(* distance whenever the target does not lie past zero.                    *)
THEOREM DistanceIsForward == Spec => []DistanceForward
<1>1. Called => DistanceForward
  <2> SUFFICES ASSUME Called, call.fn = "distance", Num(call.from) <= Num(call.to)
               PROVE  Num(call.result) = Clockwise(call.from, call.to)
    BY DEF DistanceForward
  <2>1. PICK from \in Bytes, to \in Bytes :
          call = [fn |-> "distance", from |-> from, to |-> to, result |-> distance(from, to)]
    BY DEF Called, NoCall
  <2>2. call.result = distance(from, to) /\ call.from = from /\ call.to = to
    BY <2>1
  <2> QED
    BY <2>2, DistanceCorrect
<1> QED
  BY <1>1, CallMade, PTL

(* Theorem: across zero, Hash::distance returns the successor of the       *)
(* target, for every from: the distance from from to the largest           *)
(* identifier, which the code computes, does not enter the result.         *)
THEOREM DistanceAcrossZero ==
  ASSUME NEW from \in Bytes, NEW to \in Bytes, Num(to) < Num(from)
  PROVE  Num(distance(from, to)) = H!add_power_of_two(Num(to), 0)
<1> DEFINE zero == [i \in 0 .. Last |-> 0]
           r == BorrowLoop(zero, to)
<1>1. Base \in Nat \ {0} /\ Last \in Nat /\ Pow(Last) \in Nat /\ 2^Bits \in Nat
  BY Powers
<1>2. 0 \in Byte /\ Last \in 0 .. Last
  BY <1>1 DEF Byte
<1>3. zero \in Bytes /\ Num(zero) = 0
  <2>1. zero = Single(Last, 0)
    BY DEF Single
  <2>2. Single(Last, 0) \in Bytes /\ Num(Single(Last, 0)) = 0 * Pow(Last - Last)
    BY <1>2, SingleNumber
  <2>3. Last - Last = 0 /\ Pow(0) = 1
    BY <1>1, Powers
  <2>4. Num(Single(Last, 0)) = 0
    BY <2>2, <2>3
  <2> QED
    BY <2>1, <2>2, <2>4
<1>4. distance(from, to) = add_power_of_two(r, 0)
  <2>1. ~LessEq(from, to)
    BY OrderIsNumeric, NumBounded
  <2> QED
    BY <2>1 DEF distance
<1> HIDE DEF zero
<1>5. r \in Bytes /\ \E c \in {0, 1} : Num(to) + c * 2^Bits = Num(zero) + Num(r)
  BY <1>3, BorrowCorrect
<1> HIDE DEF r
<1>6. Num(r) \in Nat /\ Num(r) < 2^Bits /\ Num(to) \in Nat
  BY <1>5, NumBounded
<1>7. Num(r) = Num(to)
  <2>1. PICK c \in {0, 1} : Num(to) + c * 2^Bits = Num(zero) + Num(r)
    BY <1>5
  <2>2. c = 0
    <3> SUFFICES ASSUME c = 1 PROVE FALSE
      OBVIOUS
    <3>1. Num(to) + 1 * 2^Bits = 0 + Num(r)
      BY <1>3, <2>1
    <3> QED
      BY <1>1, <1>6, <3>1
  <2>3. Num(to) + 0 * 2^Bits = 0 + Num(r)
    BY <1>3, <2>1, <2>2
  <2> QED
    BY <1>1, <1>6, <2>3
<1>8. Num(add_power_of_two(r, 0)) = H!add_power_of_two(Num(r), 0)
  BY <1>5, AddPowerCorrect
<1> QED
  BY <1>4, <1>7, <1>8
=============================================================================
