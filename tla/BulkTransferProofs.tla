------------------------- MODULE BulkTransferProofs -------------------------
(***************************************************************************)
(* Proofs about BulkTransfer, for every base, header length, payload       *)
(* limit, size and number of rounds.                                       *)
(*                                                                         *)
(* First the codec: EncodeLength and DecodeLength are inverse.  They are   *)
(* recursive functions, and the induction is over sets of numbers, from    *)
(* the well-foundedness of <.  Then the client: what it has read, what is  *)
(* in flight and what was lost make up one echo of the round's frame.      *)
(***************************************************************************)
EXTENDS BulkTransfer, Integers, SequenceTheorems, WellFoundedInduction, TLAPS

----------------------------------------------------------------------------
\* Induction over the natural numbers, for a set instead of a predicate.

LEMMA LeastElement ==
  ASSUME NEW T, T \subseteq Nat, T # {}
  PROVE  \E x \in T : \A y \in T : x <= y
  <1> DEFINE R == OpToRel(<, Nat)
  <1>1. \A x, y \in Nat : x < y => <<x, y>> \in R
    BY DEF OpToRel
  <1>2. IsWellFoundedOn(R, Nat)
    BY NatLessThanWellFounded
  <1> HIDE DEF R
  <1>3. PICK x \in T : \A y \in T : ~ (<<y, x>> \in R)
    BY <1>2, WFMin
  <1>4. \A y \in T : ~ (y < x)
    BY <1>1, <1>3
  <1> QED
    BY <1>4

LEMMA InductionUpTo ==
  ASSUME NEW m \in Nat, NEW S, 0 \in S, \A k \in 1..m : k - 1 \in S => k \in S
  PROVE  \A k \in 0..m : k \in S
  <1> DEFINE T == {k \in 0..m : k \notin S}
  <1> SUFFICES ASSUME T # {} PROVE FALSE
    OBVIOUS
  <1>1. \E x \in T : \A y \in T : x <= y
    <2>1. T \subseteq Nat
      OBVIOUS
    <2> HIDE DEF T
    <2> QED
      BY <2>1, LeastElement
  <1>2. PICK x \in T : \A y \in T : x <= y
    BY <1>1
  <1>3. x \in 1..m /\ x - 1 \in 0..m /\ x - 1 \in S
    BY <1>2
  <1> QED
    BY <1>2, <1>3

\* A function on 0..m is defined by its first value and a step.
LEMMA RecursionUpTo ==
  ASSUME NEW m \in Nat, NEW first \in Nat, NEW step \in [1..m -> [Nat -> Nat]]
  PROVE  \E f \in [0..m -> Nat] :
            f[0] = first /\ \A k \in 1..m : f[k] = step[k][f[k - 1]]
  <1> DEFINE Up(n) == {f \in [0..n -> Nat] :
                         f[0] = first /\ \A k \in 1..n : f[k] = step[k][f[k - 1]]}
             S == {n \in 0..m : Up(n) # {}}
  <1>1. 0 \in S
    <2>1. [k \in 0..0 |-> first] \in Up(0)
      OBVIOUS
    <2> QED
      BY <2>1
  <1>2. ASSUME NEW k \in 1..m, k - 1 \in S
        PROVE  k \in S
    <2>1. k \in Nat /\ k >= 1 /\ k \in 0..m /\ k - 1 \in Nat
      OBVIOUS
    <2>2. PICK f \in [0..(k - 1) -> Nat] :
            f[0] = first /\ \A i \in 1..(k - 1) : f[i] = step[i][f[i - 1]]
      BY <1>2
    <2>3. f[k - 1] \in Nat
      BY <2>1, <2>2
    <2> DEFINE new == step[k][f[k - 1]]
               g == [i \in 0..k |-> IF i = k THEN new ELSE f[i]]
    <2>4. new \in Nat
      BY <2>3
    <2>5. g \in [0..k -> Nat]
      <3> HIDE DEF new
      <3> QED
        BY <2>1, <2>2, <2>4
    <2>6. /\ g[k] = new
          /\ \A i \in 0..(k - 1) : g[i] = f[i]
      <3>1. k \in 0..k
        BY <2>1
      <3>2. ASSUME NEW i \in 0..(k - 1) PROVE i \in 0..k /\ i # k
        BY <2>1
      <3> QED
        BY <3>1, <3>2, Zenon
    <2> HIDE DEF g
    <2>7. g[0] = first
      <3>1. 0 \in 0..(k - 1)
        BY <2>1
      <3> QED
        BY <2>2, <2>6, <3>1
    <2>8. ASSUME NEW i \in 1..k PROVE g[i] = step[i][g[i - 1]]
      <3>1. CASE i = k
        <4>1. k - 1 \in 0..(k - 1)
          BY <2>1
        <4>2. g[k - 1] = f[k - 1]
          BY <2>6, <4>1
        <4> QED
          BY <2>6, <3>1, <4>2
      <3>2. CASE i \in 1..(k - 1)
        <4>1. i \in 0..(k - 1) /\ i - 1 \in 0..(k - 1)
          BY <2>1, <3>2
        <4> QED
          BY <2>2, <2>6, <3>2, <4>1
      <3> QED
        BY <2>1, <3>1, <3>2
    <2> QED
      BY <2>1, <2>5, <2>7, <2>8
  <1>3. m \in S
    <2> HIDE DEF S
    <2>1. \A k \in 0..m : k \in S
      BY <1>1, <1>2, InductionUpTo
    <2> QED
      BY <2>1
  <1> QED
    BY <1>3

----------------------------------------------------------------------------
\* The powers of the base.

LEMMA PowerDef ==
  /\ Power \in [0..HeaderBytes -> Nat \ {0}]
  /\ Power[0] = 1
  /\ \A k \in 1..HeaderBytes : Power[k] = Base * Power[k - 1]
  <1>0. HeaderBytes \in Nat /\ Base \in Nat \ {0}
    BY SizeAssumption
  <1> DEFINE step == [k \in 1..HeaderBytes |-> [v \in Nat |-> Base * v]]
             Rule(f) == f = [k \in 0..HeaderBytes |->
                               IF k = 0 THEN 1 ELSE Base * f[k - 1]]
  <1>1. step \in [1..HeaderBytes -> [Nat -> Nat]]
    BY <1>0
  <1>2. \A k \in 1..HeaderBytes : \A v \in Nat : step[k][v] = Base * v
    OBVIOUS
  <1> HIDE DEF step
  <1> DEFINE Grows(f) == \A k \in 1..HeaderBytes : f[k] = step[k][f[k - 1]]
  <1>10. \E f \in [0..HeaderBytes -> Nat] : f[0] = 1 /\ Grows(f)
    <2>1. 1 \in Nat
      OBVIOUS
    <2> QED
      BY <1>0, <1>1, <2>1, RecursionUpTo
  <1>11. PICK f \in [0..HeaderBytes -> Nat] : f[0] = 1 /\ Grows(f)
    BY <1>10
  <1>3. ASSUME NEW k \in 1..HeaderBytes PROVE f[k] = Base * f[k - 1]
    <2>1. f[k - 1] \in Nat
      BY <1>0
    <2>2. f[k] = step[k][f[k - 1]]
      BY <1>11
    <2> QED
      BY <1>2, <2>1, <2>2
  <1>4. Rule(f)
    <2>1. f = [k \in 0..HeaderBytes |-> f[k]]
      OBVIOUS
    <2>2. \A k \in 0..HeaderBytes : f[k] = IF k = 0 THEN 1 ELSE Base * f[k - 1]
      BY <1>0, <1>11, <1>3
    <2> QED
      BY <2>1, <2>2
  <1>5. Rule(Power)
    BY <1>4 DEF Power
  <1>6. \A k \in 0..HeaderBytes : Power[k] = IF k = 0 THEN 1 ELSE Base * Power[k - 1]
    <2> DEFINE P == Power
    <2> SUFFICES \A k \in 0..HeaderBytes : P[k] = IF k = 0 THEN 1 ELSE Base * P[k - 1]
      BY DEF P
    <2>1. Rule(P)
      BY <1>5
    <2> HIDE DEF P
    <2> QED
      BY <2>1
  <1> QED
    <2> DEFINE P == Power
               S == {k \in 0..HeaderBytes : P[k] \in Nat \ {0}}
    <2>1. P = [k \in 0..HeaderBytes |-> P[k]]
      BY <1>5
    <2>2. \A k \in 0..HeaderBytes : P[k] = IF k = 0 THEN 1 ELSE Base * P[k - 1]
      BY <1>6
    <2> SUFFICES /\ P \in [0..HeaderBytes -> Nat \ {0}]
                 /\ P[0] = 1 /\ \A k \in 1..HeaderBytes : P[k] = Base * P[k - 1]
      BY DEF P
    <2> HIDE DEF P
    <2>3. 0 \in S
      BY <1>0, <2>2
    <2>4. ASSUME NEW k \in 1..HeaderBytes, k - 1 \in S PROVE k \in S
      <3>1. k \in 0..HeaderBytes /\ k # 0
        BY <1>0
      <3>2. P[k] = Base * P[k - 1]
        BY <2>2, <3>1
      <3>3. P[k] \in Nat \ {0}
        BY <1>0, <2>4, <3>2
      <3> QED
        BY <3>1, <3>3
    <2>5. \A k \in 0..HeaderBytes : k \in S
      <3> HIDE DEF S
      <3> QED
        BY <1>0, <2>3, <2>4, InductionUpTo
    <2>6. P \in [0..HeaderBytes -> Nat \ {0}]
      BY <2>1, <2>5
    <2> QED
      BY <1>0, <2>2, <2>6

----------------------------------------------------------------------------
\* The length of a frame.

LEMMA DigitUnique ==
  ASSUME NEW x \in Nat, NEW y \in Nat, NEW d \in Byte, NEW e \in Byte,
         x * Base + d = y * Base + e
  PROVE  x = y /\ d = e
  <1>0. Base \in Nat \ {0} /\ d \in 0..(Base - 1) /\ e \in 0..(Base - 1)
    BY SizeAssumption DEF Byte
  <1>1. CASE x < y
    <2>1. (x + 1) * Base <= y * Base
      BY <1>0, <1>1
    <2>2. (x + 1) * Base = x * Base + Base
      BY <1>0
    <2> QED
      BY <1>0, <2>1, <2>2
  <1>2. CASE y < x
    <2>1. (y + 1) * Base <= x * Base
      BY <1>0, <1>2
    <2>2. (y + 1) * Base = y * Base + Base
      BY <1>0
    <2> QED
      BY <1>0, <2>1, <2>2
  <1>3. CASE x = y
    BY <1>0, <1>3
  <1> QED
    BY <1>1, <1>2, <1>3

LEMMA DivFacts ==
  ASSUME NEW n \in Nat, NEW m \in Nat \ {0}
  PROVE  /\ n \div m \in Nat /\ n % m \in 0..(m - 1)
         /\ n = (n \div m) * m + (n % m)
  OBVIOUS

LEMMA DivUnique ==
  ASSUME NEW n \in Nat, NEW m \in Nat \ {0}, NEW q \in Nat, NEW r \in 0..(m - 1),
         n = q * m + r
  PROVE  n \div m = q
  OBVIOUS

LEMMA DivDiv ==
  ASSUME NEW n \in Nat, NEW m \in Nat \ {0}, NEW b \in Nat \ {0}
  PROVE  n \div (b * m) = (n \div m) \div b
  <1> DEFINE q == n \div m
             p == q \div b
             r == (q % b) * m + (n % m)
  <1>1. /\ q \in Nat /\ n % m \in 0..(m - 1) /\ n = q * m + (n % m)
        /\ p \in Nat /\ q % b \in 0..(b - 1) /\ q = p * b + (q % b)
    BY DivFacts
  <1> HIDE DEF q, p
  <1>2. b * m \in Nat \ {0}
    OBVIOUS
  <1>3. n = p * (b * m) + r
    BY <1>1
  <1>4. r \in 0..(b * m - 1)
    <2>1. (q % b) * m <= (b - 1) * m
      BY <1>1
    <2>2. (b - 1) * m = b * m - m
      OBVIOUS
    <2>3. (q % b) * m \in Nat
      BY <1>1
    <2> QED
      BY <1>1, <1>2, <2>1, <2>2, <2>3
  <1> HIDE DEF r
  <1> QED
    BY <1>1, <1>2, <1>3, <1>4, DivUnique DEF p, q

LEMMA DecodeDef ==
  ASSUME NEW b \in [1..HeaderBytes -> Byte]
  PROVE  \E v \in [0..HeaderBytes -> Nat] :
           /\ v[0] = 0 /\ \A k \in 1..HeaderBytes : v[k] = v[k - 1] * Base + b[k]
           /\ DecodeLength(b) = v[HeaderBytes]
  <1>0. HeaderBytes \in Nat /\ Base \in Nat \ {0}
    BY SizeAssumption
  <1>1. \A k \in 1..HeaderBytes : b[k] \in Nat
    BY <1>0 DEF Byte
  <1> DEFINE step == [k \in 1..HeaderBytes |-> [v \in Nat |-> v * Base + b[k]]]
             Rule(f) == f = [k \in 0..HeaderBytes |->
                               IF k = 0 THEN 0 ELSE f[k - 1] * Base + b[k]]
             Adds(f) == \A k \in 1..HeaderBytes : f[k] = step[k][f[k - 1]]
             value == CHOOSE f : Rule(f)
  <1>2. step \in [1..HeaderBytes -> [Nat -> Nat]]
    BY <1>0, <1>1
  <1>3. \A k \in 1..HeaderBytes : \A v \in Nat : step[k][v] = v * Base + b[k]
    OBVIOUS
  <1> HIDE DEF step
  <1>4. \E f \in [0..HeaderBytes -> Nat] : f[0] = 0 /\ Adds(f)
    <2>1. 0 \in Nat
      OBVIOUS
    <2> QED
      BY <1>0, <1>2, <2>1, RecursionUpTo
  <1>5. PICK f \in [0..HeaderBytes -> Nat] : f[0] = 0 /\ Adds(f)
    BY <1>4
  <1>6. ASSUME NEW k \in 1..HeaderBytes PROVE f[k] = f[k - 1] * Base + b[k]
    <2>1. f[k - 1] \in Nat
      BY <1>0
    <2>2. f[k] = step[k][f[k - 1]]
      BY <1>5
    <2> QED
      BY <1>3, <2>1, <2>2
  <1>7. Rule(f)
    <2>1. f = [k \in 0..HeaderBytes |-> f[k]]
      OBVIOUS
    <2>2. \A k \in 0..HeaderBytes :
            f[k] = IF k = 0 THEN 0 ELSE f[k - 1] * Base + b[k]
      BY <1>0, <1>5, <1>6
    <2> QED
      BY <2>1, <2>2
  <1>8. Rule(value)
    BY <1>7
  <1>9. DecodeLength(b) = value[HeaderBytes]
    BY DEF DecodeLength
  <1> HIDE DEF value
  <1> DEFINE S == {k \in 0..HeaderBytes : value[k] \in Nat}
  <1>10. /\ value = [k \in 0..HeaderBytes |-> value[k]]
         /\ value[0] = 0
         /\ \A k \in 1..HeaderBytes : value[k] = value[k - 1] * Base + b[k]
    <2>1. value = [k \in 0..HeaderBytes |-> value[k]]
      BY <1>8
    <2>2. \A k \in 0..HeaderBytes :
            value[k] = IF k = 0 THEN 0 ELSE value[k - 1] * Base + b[k]
      BY <1>8
    <2>3. 0 \in 0..HeaderBytes /\ \A k \in 1..HeaderBytes : k \in 0..HeaderBytes /\ k # 0
      BY <1>0
    <2>4. value[0] = 0
      BY <2>2, <2>3
    <2>5. ASSUME NEW k \in 1..HeaderBytes
          PROVE  value[k] = value[k - 1] * Base + b[k]
      BY <2>2, <2>3
    <2> QED
      BY <2>1, <2>4, <2>5
  <1>11. \A k \in 0..HeaderBytes : value[k] \in Nat
    <2>1. 0 \in S
      BY <1>0, <1>10
    <2>2. ASSUME NEW k \in 1..HeaderBytes, k - 1 \in S PROVE k \in S
      <3>1. value[k] = value[k - 1] * Base + b[k] /\ b[k] \in Nat
        BY <1>1, <1>10
      <3>2. value[k - 1] * Base \in Nat
        BY <1>0, <2>2
      <3>3. value[k] \in Nat
        BY <3>1, <3>2
      <3> QED
        BY <1>0, <3>3
    <2>3. \A k \in 0..HeaderBytes : k \in S
      <3> HIDE DEF S
      <3> QED
        BY <1>0, <2>1, <2>2, InductionUpTo
    <2> QED
      BY <2>3
  <1>12. value \in [0..HeaderBytes -> Nat]
    BY <1>10, <1>11
  <1> QED
    BY <1>9, <1>10, <1>12

LEMMA DecodeInjective ==
  ASSUME NEW b \in [1..HeaderBytes -> Byte], NEW c \in [1..HeaderBytes -> Byte],
         DecodeLength(b) = DecodeLength(c)
  PROVE  b = c
  <1>0. HeaderBytes \in Nat /\ Base \in Nat \ {0}
    BY SizeAssumption
  <1>1. PICK v \in [0..HeaderBytes -> Nat] :
          /\ v[0] = 0 /\ \A k \in 1..HeaderBytes : v[k] = v[k - 1] * Base + b[k]
          /\ DecodeLength(b) = v[HeaderBytes]
    BY DecodeDef
  <1>2. PICK w \in [0..HeaderBytes -> Nat] :
          /\ w[0] = 0 /\ \A k \in 1..HeaderBytes : w[k] = w[k - 1] * Base + c[k]
          /\ DecodeLength(c) = w[HeaderBytes]
    BY DecodeDef
  <1>3. ASSUME NEW k \in 1..HeaderBytes, v[k] = w[k]
        PROVE  v[k - 1] = w[k - 1] /\ b[k] = c[k]
    <2>1. v[k - 1] \in Nat /\ w[k - 1] \in Nat /\ b[k] \in Byte /\ c[k] \in Byte
      BY <1>0
    <2>2. v[k - 1] * Base + b[k] = w[k - 1] * Base + c[k]
      BY <1>1, <1>2, <1>3
    <2> QED
      BY <2>1, <2>2, DigitUnique
  <1> DEFINE S == {k \in 0..HeaderBytes : v[HeaderBytes - k] = w[HeaderBytes - k]}
  <1>4. 0 \in S
    <2>1. 0 \in 0..HeaderBytes /\ HeaderBytes - 0 = HeaderBytes
      BY <1>0
    <2>2. v[HeaderBytes] = w[HeaderBytes]
      BY <1>1, <1>2
    <2> QED
      BY <2>1, <2>2
  <1>5. ASSUME NEW k \in 1..HeaderBytes, k - 1 \in S PROVE k \in S
    <2>1. /\ HeaderBytes - (k - 1) \in 1..HeaderBytes
          /\ (HeaderBytes - (k - 1)) - 1 = HeaderBytes - k
          /\ k \in 0..HeaderBytes
      BY <1>0
    <2>2. v[HeaderBytes - (k - 1)] = w[HeaderBytes - (k - 1)]
      BY <1>5
    <2>3. v[HeaderBytes - k] = w[HeaderBytes - k]
      BY <1>3, <2>1, <2>2
    <2> QED
      BY <2>1, <2>3
  <1>6. \A k \in 0..HeaderBytes : k \in S
    <2> HIDE DEF S
    <2> QED
      BY <1>0, <1>4, <1>5, InductionUpTo
  <1>7. ASSUME NEW k \in 1..HeaderBytes PROVE b[k] = c[k]
    <2>1. HeaderBytes - k \in 0..HeaderBytes /\ HeaderBytes - (HeaderBytes - k) = k
      BY <1>0
    <2>2. v[k] = w[k]
      BY <1>6, <2>1
    <2> QED
      BY <1>3, <2>2
  <1>8. b = [k \in 1..HeaderBytes |-> b[k]] /\ c = [k \in 1..HeaderBytes |-> c[k]]
    OBVIOUS
  <1> QED
    BY <1>7, <1>8

LEMMA EncodeType ==
  ASSUME NEW n \in Nat
  PROVE  EncodeLength(n) \in [1..HeaderBytes -> Byte]
  <1>0. HeaderBytes \in Nat /\ Base \in Nat \ {0}
    BY SizeAssumption
  <1>1. ASSUME NEW i \in 1..HeaderBytes
        PROVE  (n \div Power[HeaderBytes - i]) % Base \in Byte
    <2>1. Power[HeaderBytes - i] \in Nat \ {0}
      BY <1>0, PowerDef
    <2> DEFINE p == Power[HeaderBytes - i]
    <2>2. p \in Nat \ {0}
      BY <2>1
    <2> HIDE DEF p
    <2>3. n \div p \in Nat
      BY <2>2, DivFacts
    <2>4. (n \div p) % Base \in Byte
      BY <1>0, <2>3, DivFacts DEF Byte
    <2> QED
      BY <2>4 DEF p
  <1> QED
    BY <1>1 DEF EncodeLength

\* The length in a header is the length that was put there, whenever it fits.
THEOREM LengthRoundTrip ==
  ASSUME NEW n \in Nat, n < Power[HeaderBytes]
  PROVE  DecodeLength(EncodeLength(n)) = n
  <1>0. HeaderBytes \in Nat /\ Base \in Nat \ {0}
    BY SizeAssumption
  <1> DEFINE b == EncodeLength(n)
  <1>1. b \in [1..HeaderBytes -> Byte]
    BY EncodeType
  <1>2. \A i \in 1..HeaderBytes : b[i] = (n \div Power[HeaderBytes - i]) % Base
    BY DEF EncodeLength
  <1> HIDE DEF b
  <1>3. PICK v \in [0..HeaderBytes -> Nat] :
          /\ v[0] = 0 /\ \A k \in 1..HeaderBytes : v[k] = v[k - 1] * Base + b[k]
          /\ DecodeLength(b) = v[HeaderBytes]
    BY <1>1, DecodeDef
  <1> DEFINE S == {k \in 0..HeaderBytes : v[k] = n \div Power[HeaderBytes - k]}
  <1>4. 0 \in S
    <2> DEFINE p == Power[HeaderBytes]
    <2>1. p \in Nat \ {0} /\ n = 0 * p + n /\ n \in 0..(p - 1)
      BY <1>0, PowerDef
    <2> HIDE DEF p
    <2>2. n \div p = 0
      BY <2>1, DivUnique
    <2>3. HeaderBytes - 0 = HeaderBytes /\ 0 \in 0..HeaderBytes
      BY <1>0
    <2> QED
      BY <1>3, <2>2, <2>3 DEF p
  <1>5. ASSUME NEW k \in 1..HeaderBytes, k - 1 \in S PROVE k \in S
    <2> DEFINE p == Power[HeaderBytes - k]
    <2>1. /\ HeaderBytes - k \in 0..HeaderBytes
          /\ HeaderBytes - (k - 1) \in 1..HeaderBytes
          /\ (HeaderBytes - (k - 1)) - 1 = HeaderBytes - k
          /\ k \in 0..HeaderBytes
      BY <1>0
    <2>2. p \in Nat \ {0} /\ Power[HeaderBytes - (k - 1)] = Base * p
      BY <2>1, PowerDef
    <2>3. v[k] = (n \div (Base * p)) * Base + b[k]
      BY <1>3, <1>5, <2>2
    <2>4. b[k] = (n \div p) % Base
      BY <1>2
    <2> HIDE DEF p
    <2>5. n \div (Base * p) = (n \div p) \div Base
      BY <1>0, <2>2, DivDiv
    <2>6. n \div p \in Nat
      BY <2>2, DivFacts
    <2>7. n \div p = ((n \div p) \div Base) * Base + ((n \div p) % Base)
      BY <1>0, <2>6, DivFacts
    <2>8. v[k] = n \div p
      BY <2>3, <2>4, <2>5, <2>7
    <2> QED
      BY <2>1, <2>8 DEF p
  <1>6. HeaderBytes \in S
    <2> HIDE DEF S
    <2>1. \A k \in 0..HeaderBytes : k \in S
      BY <1>0, <1>4, <1>5, InductionUpTo
    <2> QED
      BY <1>0, <2>1
  <1>7. n \div 1 = n
    BY DivUnique
  <1>8. HeaderBytes - HeaderBytes = 0 /\ Power[0] = 1
    BY <1>0, PowerDef
  <1> QED
    BY <1>3, <1>6, <1>7, <1>8 DEF b
----------------------------------------------------------------------------
\* The inductive invariant.

\* A name for \o: the provers need its laws, not its definition.
s ++ t == s \o t

Frame   == EncodeFrame(payload)
Idle    == {"new", "dial", "loop"}
Waiting == {"yielded"} \cup Reading

\* What the properties are about: dialBulkTransfer, and a page whose echoes
\* have all been faithful.
Tracked == client = "page" => ~altered

\* The bytes of this round's echo that the reader has or can still get.
Got == IF pc = "yielded" THEN <<>> ELSE out
Rest == (Got ++ carry) ++ down

\* Between rounds nothing is in flight.
IdleInv == pc \in Idle /\ Tracked =>
  /\ up = <<>> /\ carry = <<>> /\ down = <<>>
  /\ ~altered /\ bytesSent = bytesRecv

\* The frame has not been echoed yet.
Unanswered ==
  /\ up = Frame /\ carry = <<>> /\ down = <<>> /\ Got = <<>>
  /\ ~altered /\ pc # "readPayload"

\* The echo is as long as the frame and differs from it exactly if it was
\* altered; head is the header that was read, and tail what was lost.
Answered(head, tail) ==
  /\ Len(head ++ (Rest ++ tail)) = Len(Frame)
  /\ altered <=> head ++ (Rest ++ tail) # Frame
  /\ IF pc = "readPayload"
       THEN Len(head) = HeaderBytes /\ DecodeLength(head) = want
       ELSE head = <<>>

Wire ==
  \/ Unanswered
  \/ up = <<>> /\ \E head, tail \in Seq(Byte) : Answered(head, tail)

WireInv == pc \in Waiting /\ Tracked =>
  /\ Wire
  /\ IF pc = "yielded"
       THEN carry = <<>> /\ bytesSent = bytesRecv
       ELSE bytesSent = bytesRecv + HeaderBytes + Len(payload)

ReadInv ==
  /\ pc \in Reading => Len(out) <= want
  /\ pc = "readHeader" => want = HeaderBytes
  /\ pc \in Waiting => rounds < MaxRounds

\* A result is final, and an intact transfer stays intact: nothing is in flight.
ResultInv ==
  /\ result # "none" => pc \in {"close", "done"}
  /\ result = "ok" /\ client = "cli" => up = <<>>
  /\ client = "cli" /\ pc \notin {"new", "done"} => sizes.min \in 1..sizes.max

IInv ==
  /\ TypeOK
  /\ IdleInv
  /\ WireInv
  /\ ReadInv
  /\ ResultInv
  /\ OkMeansIntact

----------------------------------------------------------------------------
\* Sequences of bytes.

LEMMA SplitAt ==
  ASSUME NEW s \in Seq(Byte), NEW k \in 0..Len(s)
  PROVE  /\ SubSeq(s, 1, k) \in Seq(Byte) /\ SubSeq(s, k + 1, Len(s)) \in Seq(Byte)
         /\ s = SubSeq(s, 1, k) ++ SubSeq(s, k + 1, Len(s))
         /\ Len(SubSeq(s, 1, k)) = k
  <1>1. Len(s) \in Nat /\ \A i \in 1..Len(s) : s[i] \in Byte
    BY LenProperties, ElementOfSeq
  <1>2. /\ SubSeq(s, 1, k) \in Seq(Byte)
        /\ Len(SubSeq(s, 1, k)) = IF 1 <= k THEN k - 1 + 1 ELSE 0
    <2>1. \A i \in 1..k : s[i] \in Byte
      BY <1>1
    <2>2. 1 \in Int /\ k \in Int
      BY <1>1
    <2> QED
      BY <2>1, <2>2, SubSeqProperties
  <1>3. SubSeq(s, k + 1, Len(s)) \in Seq(Byte)
    <2>1. \A i \in (k + 1)..Len(s) : s[i] \in Byte
      BY <1>1
    <2>2. k + 1 \in Int /\ Len(s) \in Int
      BY <1>1
    <2> QED
      BY <2>1, <2>2, SubSeqProperties
  <1>4. SubSeq(s, 1, k) \o SubSeq(s, k + 1, Len(s)) = SubSeq(s, 1, Len(s))
    <2>1. /\ 1 \in 1..Len(s) + 1 /\ k \in (1 - 1)..Len(s) /\ Len(s) \in k..Len(s)
      BY <1>1
    <2> QED
      BY <2>1, ConcatAdjacentSubSeq
  <1>5. SubSeq(s, 1, Len(s)) = s
    BY SubSeqFull
  <1>6. Len(SubSeq(s, 1, k)) = k
    BY <1>1, <1>2
  <1> QED
    BY <1>2, <1>3, <1>4, <1>5, <1>6 DEF ++

LEMMA EmptyIfShort ==
  ASSUME NEW s \in Seq(Byte), Len(s) = 0
  PROVE  s = <<>>
  BY EmptySeq

LEMMA PrefixEqual ==
  ASSUME NEW a \in Seq(Byte), NEW b \in Seq(Byte),
         NEW c \in Seq(Byte), NEW d \in Seq(Byte),
         a ++ b = c ++ d, Len(a) = Len(c)
  PROVE  a = c /\ b = d
  <1>0. a \o b = c \o d
    BY DEF ++
  <1>1. /\ Len(a) \in Nat
        /\ \A i \in 1..Len(a) + Len(b) :
             (a \o b)[i] = IF i <= Len(a) THEN a[i] ELSE b[i - Len(a)]
        /\ \A i \in 1..Len(c) + Len(d) :
             (c \o d)[i] = IF i <= Len(c) THEN c[i] ELSE d[i - Len(c)]
        /\ Len(b) \in Nat /\ Len(d) \in Nat
    BY ConcatProperties, LenProperties
  <1>2. ASSUME NEW i \in 1..Len(a) PROVE a[i] = c[i]
    <2>1. i \in 1..Len(a) + Len(b) /\ i \in 1..Len(c) + Len(d) /\ i <= Len(a)
      BY <1>1
    <2> QED
      BY <1>0, <1>1, <2>1
  <1>3. a = c
    BY <1>2, SeqEqual
  <1>4. b = d
    BY <1>0, <1>3, ConcatSimplifications
  <1> QED
    BY <1>3, <1>4

LEMMA JoinFacts ==
  ASSUME NEW s \in Seq(Byte), NEW t \in Seq(Byte)
  PROVE  /\ s ++ t \in Seq(Byte) /\ Len(s ++ t) = Len(s) + Len(t)
         /\ Len(s) \in Nat /\ Len(t) \in Nat
         /\ s ++ t = <<>> => s = <<>> /\ t = <<>>
  BY ConcatProperties, LenProperties, ConcatEqualIffEmpty DEF ++

LEMMA JoinEmpty ==
  ASSUME NEW s \in Seq(Byte)
  PROVE  s ++ <<>> = s /\ <<>> ++ s = s
  BY ConcatEmptySeq DEF ++

LEMMA JoinAssociative ==
  ASSUME NEW a \in Seq(Byte), NEW b \in Seq(Byte), NEW c \in Seq(Byte)
  PROVE  (a ++ b) ++ c = a ++ (b ++ c)
  BY ConcatAssociative DEF ++

\* The bytes a frame is made of.
LEMMA FrameFacts ==
  ASSUME NEW p \in Seq(Byte), Len(p) <= MaxPayload
  PROVE  /\ EncodeFrame(p) = EncodeLength(Len(p)) ++ p
         /\ EncodeFrame(p) \in Seq(Byte)
         /\ Len(EncodeFrame(p)) = HeaderBytes + Len(p)
         /\ EncodeLength(Len(p)) \in Seq(Byte) \cap [1..HeaderBytes -> Byte]
         /\ Len(EncodeLength(Len(p))) = HeaderBytes
         /\ DecodeLength(EncodeLength(Len(p))) = Len(p)
  <1>0. HeaderBytes \in Nat /\ MaxPayload \in Nat /\ MaxPayload < Power[HeaderBytes]
    BY SizeAssumption
  <1>1. Len(p) \in Nat
    BY LenProperties
  <1>2. EncodeLength(Len(p)) \in [1..HeaderBytes -> Byte]
    BY <1>1, EncodeType
  <1> DEFINE h == EncodeLength(Len(p))
  <1>3. h \in Seq(Byte) /\ Len(h) = HeaderBytes
    <2>1. h \in [1..HeaderBytes -> Byte]
      BY <1>2
    <2> HIDE DEF h
    <2> QED
      BY <1>0, <2>1
  <1>4. Power[HeaderBytes] \in Nat
    <2>1. HeaderBytes \in 0..HeaderBytes
      BY <1>0
    <2> QED
      BY <2>1, PowerDef
  <1>5. DecodeLength(h) = Len(p)
    <2>1. Len(p) < Power[HeaderBytes]
      BY <1>0, <1>1, <1>4
    <2> QED
      BY <1>1, <2>1, LengthRoundTrip
  <1>6. EncodeFrame(p) = h ++ p
    BY DEF EncodeFrame, ++
  <1> HIDE DEF h
  <1>7. h ++ p \in Seq(Byte) /\ Len(h ++ p) = HeaderBytes + Len(p)
    BY <1>3, JoinFacts
  <1> QED
    BY <1>2, <1>3, <1>5, <1>6, <1>7 DEF h

\* An echo that has the frame's length, and is the frame or carries its payload,
\* is the frame, and nothing is left behind it.
LEMMA EchoMatches ==
  ASSUME NEW p \in Seq(Byte), Len(p) <= MaxPayload,
         NEW h \in Seq(Byte), NEW q \in Seq(Byte), NEW r \in Seq(Byte),
         Len(h) = HeaderBytes, Len(q) = DecodeLength(h),
         Len(h ++ (q ++ r)) = Len(EncodeFrame(p)),
         q = p \/ h ++ (q ++ r) = EncodeFrame(p)
  PROVE  h ++ (q ++ r) = EncodeFrame(p) /\ q = p /\ r = <<>>
  <1> DEFINE e == EncodeLength(Len(p))
  <1>0. HeaderBytes \in Nat
    BY SizeAssumption
  <1>1. /\ EncodeFrame(p) = e ++ p /\ Len(EncodeFrame(p)) = HeaderBytes + Len(p)
        /\ e \in Seq(Byte) /\ e \in [1..HeaderBytes -> Byte]
        /\ Len(e) = HeaderBytes /\ DecodeLength(e) = Len(p)
    BY FrameFacts
  <1> HIDE DEF e
  <1>2. /\ q ++ r \in Seq(Byte)
        /\ Len(h ++ (q ++ r)) = HeaderBytes + (Len(q) + Len(r))
        /\ Len(p) \in Nat /\ Len(q) \in Nat /\ Len(r) \in Nat
    <2>1. q ++ r \in Seq(Byte) /\ Len(q ++ r) = Len(q) + Len(r)
      BY JoinFacts
    <2>2. Len(h ++ (q ++ r)) = Len(h) + Len(q ++ r)
      BY <2>1, JoinFacts
    <2>3. Len(p) \in Nat /\ Len(q) \in Nat /\ Len(r) \in Nat
      BY LenProperties
    <2> QED
      BY <2>1, <2>2, <2>3
  <1>3. Len(q) + Len(r) = Len(p)
    BY <1>0, <1>1, <1>2
  <1>4. h \in [1..HeaderBytes -> Byte]
    BY LenProperties
  <1>5. CASE q = p
    <2>1. r = <<>>
      BY <1>2, <1>3, <1>5, EmptyIfShort
    <2>2. h = e
      BY <1>1, <1>4, <1>5, DecodeInjective
    <2>3. q ++ r = p
      BY <1>5, <2>1, JoinEmpty
    <2> QED
      BY <1>1, <1>5, <2>1, <2>2, <2>3
  <1>6. CASE h ++ (q ++ r) = EncodeFrame(p)
    <2>1. h = e /\ q ++ r = p
      BY <1>1, <1>2, <1>6, PrefixEqual
    <2>2. Len(r) = 0
      BY <1>1, <1>2, <1>3, <2>1
    <2>3. r = <<>> /\ q ++ r = q
      BY <2>2, EmptyIfShort, JoinEmpty
    <2> QED
      BY <1>6, <2>1, <2>3
  <1> QED
    BY <1>5, <1>6

----------------------------------------------------------------------------
\* Types.

LEMMA Bounds ==
  /\ HeaderBytes \in Nat \ {0} /\ MaxPayload \in Nat /\ MaxRounds \in Nat
  /\ Quotas \in Nat /\ Quotas <= MaxPayload
  /\ Clients \subseteq {"cli", "page"}
  BY SizeAssumption DEF Quotas

LEMMA LengthsAreNat ==
  ASSUME TypeOK
  PROVE  /\ sizes.min \in Nat /\ sizes.max \in Nat
         /\ Limit \in Nat /\ Limit <= sizes.max /\ Lengths \subseteq Nat
  <1>1. sizes.min \in Nat /\ sizes.max \in Nat /\ MaxPayload \in Nat
    BY SizeAssumption DEF TypeOK
  <1>2. Limit \in Nat /\ Limit <= sizes.max
    BY <1>1 DEF Limit, Least
  <1> QED
    BY <1>1, <1>2 DEF Lengths

LEMMA InitHolds ==
  ASSUME Init
  PROVE  IInv
  <1>1. TypeOK
    <2>1. <<>> \in Seq(Byte) /\ Len(<<>>) = 0
      BY EmptySeq
    <2>2. 0 \in 0..MaxRounds /\ 0 \in 0..2 /\ Len(<<>>) <= MaxPayload
      BY <2>1, Bounds
    <2> QED
      BY <2>1, <2>2 DEF Init, TypeOK, Steps
  <1>2. IdleInv /\ ReadInv /\ OkMeansIntact
    BY DEF Init, IdleInv, ReadInv, Reading, Waiting, OkMeansIntact
  <1>3. WireInv /\ ResultInv
    BY DEF Init, WireInv, Waiting, Reading, ResultInv
  <1> QED
    BY <1>1, <1>2, <1>3 DEF IInv

\* The payload that is sent.
LEMMA SendSteps ==
  ASSUME TypeOK, Send
  PROVE  /\ payload' \in Seq(Byte) /\ Len(payload') <= MaxPayload
         /\ up' = up ++ Frame'
  <1>1. PICK n \in Lengths : \E p \in [1..n -> Byte] :
          n <= Quotas /\ payload' = p /\ up' = up \o EncodeFrame(p)
    BY DEF Send
  <1>2. PICK p \in [1..n -> Byte] :
          n <= Quotas /\ payload' = p /\ up' = up \o EncodeFrame(p)
    BY <1>1
  <1>3. n \in Nat
    BY LengthsAreNat
  <1>4. p \in Seq(Byte) /\ Len(p) = n
    BY <1>3
  <1>5. n <= MaxPayload
    BY <1>2, <1>3, Bounds
  <1> QED
    BY <1>2, <1>4, <1>5 DEF Frame, ++

LEMMA ByteUpdate ==
  ASSUME NEW s \in Seq(Byte), NEW i \in 1..Len(s), NEW b \in Byte \ {s[i]}
  PROVE  /\ [s EXCEPT ![i] = b] \in Seq(Byte)
         /\ Len([s EXCEPT ![i] = b]) = Len(s)
         /\ [s EXCEPT ![i] = b] # s
  <1>1. /\ [s EXCEPT ![i] = b] \in Seq(Byte)
        /\ Len([s EXCEPT ![i] = b]) = Len(s)
        /\ \A j \in 1..Len(s) : [s EXCEPT ![i] = b][j] = IF j = i THEN b ELSE s[j]
    BY ExceptSeq
  <1>2. [s EXCEPT ![i] = b][i] = b
    BY <1>1
  <1> QED
    BY <1>1, <1>2

\* An echo is as long as what is echoed, and the same unless it is altered.
LEMMA EchoSteps ==
  ASSUME TypeOK, Echo
  PROVE  /\ up # <<>> /\ up' = <<>>
         /\ \E e \in Seq(Byte) :
              /\ down' = down ++ e /\ Len(e) = Len(up)
              /\ \/ e = up /\ altered' = altered
                 \/ e # up /\ altered' = TRUE
         /\ UNCHANGED <<callVars, pc, clock, payload, countVars, result,
                       node, readerVars, ended>>
  <1>1. up \in Seq(Byte)
    BY DEF TypeOK
  <1>2. CASE down' = down \o up /\ UNCHANGED altered
    BY <1>1, <1>2 DEF Echo, ++
  <1>3. CASE /\ \E i \in 1..Len(up) : \E b \in Byte \ {up[i]} :
                  down' = down \o [up EXCEPT ![i] = b]
             /\ altered' = TRUE
    <2>0. PICK i \in 1..Len(up) : \E b \in Byte \ {up[i]} :
            down' = down \o [up EXCEPT ![i] = b]
      BY <1>3
    <2>1. PICK b \in Byte \ {up[i]} : down' = down \o [up EXCEPT ![i] = b]
      BY <2>0
    <2>2. /\ [up EXCEPT ![i] = b] \in Seq(Byte)
          /\ Len([up EXCEPT ![i] = b]) = Len(up) /\ [up EXCEPT ![i] = b] # up
      BY <1>1, ByteUpdate
    <2> DEFINE e == [up EXCEPT ![i] = b]
    <2>3. e \in Seq(Byte) /\ down' = down ++ e /\ Len(e) = Len(up) /\ e # up
      BY <2>1, <2>2 DEF ++
    <2> HIDE DEF e
    <2> QED
      BY <1>3, <2>3 DEF Echo
  <1> QED
    BY <1>2, <1>3 DEF Echo

\* What NextChunk moves from the stream to carry.
LEMMA ChunkSteps ==
  ASSUME TypeOK, NextChunk
  PROVE  \/ /\ carry' \in Seq(Byte) /\ down' \in Seq(Byte)
            /\ carry = <<>> /\ down = carry' ++ down'
            /\ UNCHANGED <<pc, result>>
         \/ Throw /\ UNCHANGED <<carry, down>>
  <1>1. down \in Seq(Byte) /\ Len(down) \in Nat
    BY LenProperties DEF TypeOK
  <1>2. ASSUME NEW k \in 1..Len(down),
               carry' = SubSeq(down, 1, k), down' = SubSeq(down, k + 1, Len(down))
        PROVE  /\ carry' \in Seq(Byte) /\ down' \in Seq(Byte) /\ down = carry' ++ down'
    <2>1. k \in 0..Len(down)
      BY <1>1
    <2> QED
      BY <1>1, <1>2, <2>1, SplitAt
  <1> QED
    BY <1>2 DEF NextChunk

\* What Take moves from carry to out.
LEMMA TakeSteps ==
  ASSUME TypeOK, ReadInv, Take
  PROVE  \E s \in Seq(Byte) :
           /\ out' = out ++ s /\ carry = s ++ carry' /\ carry' \in Seq(Byte)
           /\ out' \in Seq(Byte) /\ Len(out') <= want
  <1> DEFINE use == Least(want - Len(out), Len(carry))
  <1>1. /\ carry \in Seq(Byte) /\ out \in Seq(Byte) /\ want \in Nat
        /\ Len(carry) \in Nat /\ Len(out) \in Nat /\ Len(out) <= want
    BY LenProperties, Bounds DEF TypeOK, ReadInv, Take, Pending
  <1>2. use \in 0..Len(carry) /\ Len(out) + use <= want
    BY <1>1 DEF Least
  <1>3. out' = out ++ SubSeq(carry, 1, use) /\ carry' = SubSeq(carry, use + 1, Len(carry))
    BY DEF Take, ++
  <1> HIDE DEF use
  <1>4. /\ SubSeq(carry, 1, use) \in Seq(Byte) /\ carry' \in Seq(Byte)
        /\ carry = SubSeq(carry, 1, use) ++ carry' /\ Len(SubSeq(carry, 1, use)) = use
    BY <1>1, <1>2, <1>3, SplitAt
  <1> DEFINE s == SubSeq(carry, 1, use)
  <1>5. s \in Seq(Byte) /\ out' = out ++ s /\ carry = s ++ carry' /\ Len(s) = use
    BY <1>3, <1>4
  <1> HIDE DEF s
  <1>6. out ++ s \in Seq(Byte) /\ Len(out ++ s) = Len(out) + Len(s)
    BY <1>1, <1>5, JoinFacts
  <1> QED
    BY <1>2, <1>4, <1>5, <1>6

LEMMA TypeStep ==
  ASSUME IInv, [Next]_vars
  PROVE  TypeOK'
  <1>0. TypeOK /\ ReadInv
    BY DEF IInv
  <1> USE DEF TypeOK, Steps, Reading
  <1>1. CASE Start
    BY <1>0, <1>1 DEF Start, callVars, countVars, readerVars, wireVars
  <1>2. CASE Dial
    BY <1>0, <1>2 DEF Dial, Throw, callVars, countVars, readerVars, wireVars
  <1>3. CASE Close
    BY <1>0, <1>3 DEF Close, callVars, countVars, readerVars, wireVars
  <1>4. CASE LoopEnds
    BY <1>0, <1>4 DEF LoopEnds, callVars, countVars, readerVars, wireVars
  <1>5. CASE SendThrows
    BY <1>0, <1>5 DEF SendThrows, Throw, callVars, countVars, readerVars, wireVars
  <1>6. CASE Send
    <2>1. payload' \in Seq(Byte) /\ Len(payload') <= MaxPayload /\ up' = up ++ Frame'
      BY <1>0, <1>6, SendSteps
    <2>2. Frame' \in Seq(Byte)
      BY <2>1, FrameFacts DEF Frame
    <2>3. up' \in Seq(Byte)
      BY <1>0, <2>1, <2>2, JoinFacts
    <2> QED
      BY <1>0, <1>6, <2>1, <2>3 DEF Send, callVars, countVars, readerVars
  <1>7. CASE Resume
    <2>1. bytesSent + HeaderBytes + Len(payload) \in Nat
      BY <1>0, Bounds, LenProperties
    <2>2. bytesSent' \in Nat
      BY <1>0, <1>7, <2>1 DEF Resume
    <2> QED
      BY <1>0, <1>7, <2>2, EmptySeq
         DEF Resume, Throw, callVars, countVars, readerVars, wireVars
  <1>8. CASE NextChunk
    <2>1. carry' \in Seq(Byte) /\ down' \in Seq(Byte)
      BY <1>0, <1>8, ChunkSteps
    <2> QED
      BY <1>0, <1>8, <2>1 DEF NextChunk, Throw, callVars, countVars
  <1>9. CASE Take
    <2>1. carry' \in Seq(Byte) /\ out' \in Seq(Byte)
      BY <1>0, <1>9, TakeSteps
    <2> QED
      BY <1>0, <1>9, <2>1 DEF Take, callVars, countVars, wireVars
  <1>10. ASSUME NEW echo \in Seq(Byte), Echoed(echo), pc \in Reading
         PROVE  bytesRecv' \in Nat /\ rounds' \in 0..MaxRounds
                /\ pc' \in Steps /\ result' \in {"none", "ok", "error"}
    <2>1. bytesRecv + HeaderBytes + Len(echo) \in Nat
      BY <1>0, Bounds, LenProperties
    <2>2. rounds \in 0..MaxRounds /\ rounds < MaxRounds /\ MaxRounds \in Nat
      BY <1>0, <1>10, Bounds DEF ReadInv, Waiting
    <2> QED
      BY <1>0, <1>10, <2>1, <2>2 DEF Echoed, Throw
  <1>11. CASE HeaderRead
    <2>1. bytesRecv' \in Nat /\ rounds' \in 0..MaxRounds
          /\ pc' \in Steps /\ result' \in {"none", "ok", "error"}
      BY <1>0, <1>10, <1>11, EmptySeq DEF HeaderRead, Throw, countVars
    <2>2. bytesSent' = bytesSent
      BY <1>11 DEF HeaderRead, countVars
    <2>3. want' \in {0, HeaderBytes} \cup 1..MaxPayload /\ out' \in Seq(Byte)
      BY <1>0, <1>11, EmptySeq DEF HeaderRead
    <2> QED
      BY <1>0, <1>11, <2>1, <2>2, <2>3 DEF HeaderRead, callVars, wireVars
  <1>12. CASE PayloadRead
    <2>1. bytesRecv' \in Nat /\ rounds' \in 0..MaxRounds
          /\ pc' \in Steps /\ result' \in {"none", "ok", "error"}
      BY <1>0, <1>10, <1>12 DEF PayloadRead
    <2> QED
      BY <1>0, <1>12, <2>1 DEF PayloadRead, callVars, readerVars, wireVars
  <1>13. CASE Abort
    BY <1>0, <1>13 DEF Abort, countVars, readerVars, wireVars
  <1>14. CASE Echo
    <2>1. PICK e \in Seq(Byte) : down' = down ++ e
      BY <1>0, <1>14, EchoSteps
    <2>2. down' \in Seq(Byte) /\ up' \in Seq(Byte)
      BY <1>0, <1>14, <2>1, JoinFacts, EmptySeq DEF Echo
    <2>3. altered' \in BOOLEAN
      BY <1>0, <1>14 DEF Echo
    <2> QED
      BY <1>0, <1>14, <2>2, <2>3 DEF Echo, callVars, countVars, readerVars
  <1>15. CASE StreamEnds
    <2>1. PICK k \in 0..Len(down) : down' = SubSeq(down, 1, k)
      BY <1>15 DEF StreamEnds
    <2>2. down' \in Seq(Byte)
      BY <1>0, <2>1, SplitAt
    <2> QED
      BY <1>0, <1>15, <2>2 DEF StreamEnds, callVars, countVars, readerVars
  <1>16. CASE Tick
    BY <1>0, <1>16 DEF Tick, callVars, countVars, readerVars, wireVars
  <1>17. CASE UNCHANGED vars
    BY <1>0, <1>17 DEF vars, callVars, countVars, readerVars, wireVars
  <1> QED
    BY <1>1, <1>2, <1>3, <1>4, <1>5, <1>6, <1>7, <1>8, <1>9, <1>11, <1>12, <1>13,
       <1>14, <1>15, <1>16, <1>17 DEF Next, ClientStep

----------------------------------------------------------------------------
\* The conjuncts of the invariant about control.

LEMMA ReadStep ==
  ASSUME IInv, [Next]_vars
  PROVE  ReadInv'
  <1>0. TypeOK /\ ReadInv
    BY DEF IInv
  <1> USE DEF ReadInv, Waiting, Reading
  <1>1. CASE Start \/ Dial \/ Close \/ LoopEnds \/ SendThrows
    BY <1>0, <1>1 DEF Start, Dial, Close, LoopEnds, SendThrows, Throw
  <1>2. CASE Send
    BY <1>0, <1>2 DEF Send, countVars, readerVars
  <1>3. CASE Resume
    <2>1. Len(<<>>) = 0 /\ HeaderBytes \in Nat
      BY Bounds, EmptySeq
    <2> QED
      BY <1>0, <1>3, <2>1 DEF Resume, Throw, readerVars
  <1>4. CASE NextChunk
    BY <1>0, <1>4 DEF NextChunk, Throw, countVars
  <1>5. CASE Take
    <2>1. Len(out') <= want
      BY <1>0, <1>5, TakeSteps
    <2> QED
      BY <1>0, <1>5, <2>1 DEF Take, countVars
  <1>6. CASE HeaderRead
    <2>1. Len(<<>>) = 0
      BY EmptySeq
    <2>2. pc' \in Reading => pc' = "readPayload" /\ Len(out') = 0 /\ want' \in 1..MaxPayload
                             /\ rounds' = rounds
      BY <1>0, <1>6, <2>1 DEF HeaderRead, Echoed, Throw, countVars
    <2>3. pc' # "yielded"
      BY <1>0, <1>6 DEF HeaderRead, Echoed, Throw
    <2>4. rounds < MaxRounds
      BY <1>0, <1>6 DEF HeaderRead
    <2> QED
      BY <2>2, <2>3, <2>4, Bounds
  <1>7. CASE PayloadRead
    BY <1>0, <1>7 DEF PayloadRead, Echoed, Throw
  <1>8. CASE Abort \/ Echo \/ StreamEnds \/ Tick
    BY <1>0, <1>8 DEF Abort, Echo, StreamEnds, Tick, countVars, readerVars
  <1>9. CASE UNCHANGED vars
    BY <1>0, <1>9 DEF vars, countVars, readerVars
  <1> QED
    BY <1>1, <1>2, <1>3, <1>4, <1>5, <1>6, <1>7, <1>8, <1>9 DEF Next, ClientStep

LEMMA ResultStep ==
  ASSUME IInv, [Next]_vars
  PROVE  ResultInv'
  <1>0. TypeOK /\ ResultInv /\ IdleInv
    BY DEF IInv
  <1> USE DEF ResultInv, Reading
  <1>1. CASE Start
    <2>1. sizes.min \in Nat /\ sizes.max \in Nat /\ Limit \in Nat /\ Limit <= sizes.max
      BY <1>0, LengthsAreNat
    <2>2. client = "cli" /\ pc' # "done" => sizes.min \in 1..sizes.max
      BY <1>1, <2>1 DEF Start
    <2> QED
      BY <1>0, <1>1, <2>2 DEF Start, callVars, wireVars
  <1>2. CASE Dial \/ Close \/ SendThrows
    BY <1>0, <1>2 DEF Dial, Close, SendThrows, Throw, callVars, wireVars
  <1>3. CASE LoopEnds
    <2>1. client = "cli" => up = <<>>
      BY <1>0, <1>3 DEF IdleInv, Idle, Tracked, LoopEnds
    <2> QED
      BY <1>0, <1>3, <2>1 DEF LoopEnds, callVars, wireVars
  <1>4. CASE Send \/ Resume \/ NextChunk \/ Take
    BY <1>0, <1>4 DEF Send, Resume, NextChunk, Take, Pending, Throw, callVars, wireVars
  <1>5. CASE HeaderRead \/ PayloadRead
    BY <1>0, <1>5 DEF HeaderRead, PayloadRead, Echoed, Throw, callVars, wireVars, countVars
  <1>6. CASE Abort \/ StreamEnds \/ Tick
    BY <1>0, <1>6 DEF Abort, StreamEnds, Tick, callVars, wireVars
  <1>7. CASE Echo
    BY <1>0, <1>7 DEF Echo, callVars
  <1>8. CASE UNCHANGED vars
    BY <1>0, <1>8 DEF vars, callVars, wireVars
  <1> QED
    BY <1>1, <1>2, <1>3, <1>4, <1>5, <1>6, <1>7, <1>8 DEF Next, ClientStep

LEMMA OkStep ==
  ASSUME IInv, [Next]_vars
  PROVE  OkMeansIntact'
  <1>0. TypeOK /\ ResultInv /\ IdleInv /\ OkMeansIntact
    BY DEF IInv
  <1> USE DEF OkMeansIntact
  <1>1. CASE Start \/ Dial \/ SendThrows
    BY <1>0, <1>1 DEF Start, Dial, SendThrows, Throw, callVars, wireVars, ResultInv
  <1>2. CASE LoopEnds
    <2>1. client = "cli" => ~altered /\ sizes.min \in 1..sizes.max
      BY <1>0, <1>2 DEF IdleInv, Idle, Tracked, LoopEnds, ResultInv
    <2> QED
      BY <1>0, <1>2, <2>1 DEF LoopEnds, callVars, wireVars
  <1>3. CASE Close
    BY <1>0, <1>3 DEF Close, callVars, wireVars
  <1>4. CASE Send \/ Resume \/ NextChunk \/ Take
    <2>1. result # "ok"
      BY <1>0, <1>4 DEF Send, Resume, NextChunk, Take, Pending, Reading, ResultInv
    <2> QED
      BY <1>4, <2>1 DEF Send, Resume, NextChunk, Take, Throw
  <1>5. CASE HeaderRead \/ PayloadRead
    <2>1. result # "ok"
      BY <1>0, <1>5 DEF HeaderRead, PayloadRead, ResultInv
    <2> QED
      BY <1>5, <2>1 DEF HeaderRead, PayloadRead, Echoed, Throw
  <1>6. CASE Abort \/ StreamEnds
    BY <1>0, <1>6 DEF Abort, StreamEnds, callVars, wireVars
  <1>7. CASE Tick
    <2>1. clock > 0 => clock' > 0
      BY <1>0, <1>7 DEF Tick, TypeOK
    <2> QED
      BY <1>0, <1>7, <2>1 DEF Tick, callVars, wireVars
  <1>8. CASE Echo
    BY <1>0, <1>8 DEF Echo, callVars, ResultInv
  <1>9. CASE UNCHANGED vars
    BY <1>0, <1>9 DEF vars, callVars, wireVars
  <1> QED
    BY <1>1, <1>2, <1>3, <1>4, <1>5, <1>6, <1>7, <1>8, <1>9 DEF Next, ClientStep

----------------------------------------------------------------------------
\* The bytes on the wire.

LEMMA Regroup ==
  ASSUME NEW a \in Seq(Byte), NEW b \in Seq(Byte), NEW c \in Seq(Byte), NEW d \in Seq(Byte)
  PROVE  /\ ((a ++ b) ++ c) ++ d = a ++ ((b ++ c) ++ d)
         /\ ((a ++ b) ++ c) ++ d = (a ++ (b ++ c)) ++ d
         /\ ((a ++ b) ++ c) ++ d = (a ++ b) ++ (c ++ d)
         /\ (b ++ c) ++ d \in Seq(Byte)
  <1>1. a ++ b \in Seq(Byte) /\ b ++ c \in Seq(Byte) /\ (b ++ c) ++ d \in Seq(Byte)
    BY JoinFacts
  <1>2. (a ++ b) ++ c = a ++ (b ++ c)
    BY JoinAssociative
  <1>3. (a ++ (b ++ c)) ++ d = a ++ ((b ++ c) ++ d)
    BY <1>1, JoinAssociative
  <1>4. ((a ++ b) ++ c) ++ d = (a ++ b) ++ (c ++ d)
    BY <1>1, JoinAssociative
  <1> QED
    BY <1>1, <1>2, <1>3, <1>4

LEMMA StreamTypes ==
  ASSUME TypeOK
  PROVE  /\ Got \in Seq(Byte) /\ carry \in Seq(Byte) /\ down \in Seq(Byte)
         /\ Got ++ carry \in Seq(Byte) /\ Rest \in Seq(Byte)
         /\ Frame \in Seq(Byte) /\ Len(Frame) = HeaderBytes + Len(payload)
         /\ Len(Frame) \in Nat \ {0}
  <1>1. Got \in Seq(Byte) /\ carry \in Seq(Byte) /\ down \in Seq(Byte)
    BY EmptySeq DEF TypeOK, Got
  <1>2. Got ++ carry \in Seq(Byte)
    BY <1>1, JoinFacts
  <1>3. Rest \in Seq(Byte)
    BY <1>1, <1>2, JoinFacts DEF Rest
  <1>4. Frame \in Seq(Byte) /\ Len(Frame) = HeaderBytes + Len(payload)
    BY FrameFacts DEF TypeOK, Frame
  <1>5. Len(Frame) \in Nat \ {0}
    BY <1>4, Bounds, LenProperties DEF TypeOK
  <1> QED
    BY <1>1, <1>2, <1>3, <1>4, <1>5

LEMMA RestSplit ==
  ASSUME TypeOK, NEW t \in Seq(Byte)
  PROVE  /\ Rest ++ t = Got ++ ((carry ++ down) ++ t)
         /\ (carry ++ down) ++ t \in Seq(Byte)
  <1>1. Got \in Seq(Byte) /\ carry \in Seq(Byte) /\ down \in Seq(Byte)
    BY StreamTypes
  <1> QED
    BY <1>1, Regroup DEF Rest

\* Frames are only altered, never restored.
LEMMA TrackedBefore ==
  ASSUME [Next]_vars, Tracked'
  PROVE  Tracked
  <1> USE DEF Tracked, callVars, wireVars
  <1>1. CASE Start \/ Dial \/ Close \/ LoopEnds \/ SendThrows
    BY <1>1 DEF Start, Dial, Close, LoopEnds, SendThrows
  <1>2. CASE Send \/ Resume \/ NextChunk \/ Take \/ HeaderRead \/ PayloadRead
    BY <1>2 DEF Send, Resume, NextChunk, Take, HeaderRead, PayloadRead
  <1>3. CASE Abort \/ Echo \/ StreamEnds \/ Tick
    BY <1>3 DEF Abort, Echo, StreamEnds, Tick
  <1>4. CASE UNCHANGED vars
    BY <1>4 DEF vars
  <1> QED
    BY <1>1, <1>2, <1>3, <1>4 DEF Next, ClientStep

LEMMA AnsweredKept ==
  ASSUME NEW h \in Seq(Byte), NEW t \in Seq(Byte), Answered(h, t),
         NEW h2 \in Seq(Byte), NEW t2 \in Seq(Byte),
         h2 ++ (Rest' ++ t2) = h ++ (Rest ++ t),
         Frame' = Frame, altered' = altered,
         IF pc' = "readPayload"
           THEN Len(h2) = HeaderBytes /\ DecodeLength(h2) = want'
           ELSE h2 = <<>>
  PROVE  Answered(h2, t2)'
  BY DEF Answered

\* Only the page takes an echo it has not compared, and it is tracked only if
\* no echo was altered: a round is over at the end of a faithful echo.
LEMMA RoundIsOver ==
  ASSUME IInv, Tracked, NEW echo \in Seq(Byte), client = "page" \/ payload = echo,
         \/ /\ pc = "readHeader" /\ Len(out) = want /\ DecodeLength(out) = 0
            /\ echo = <<>>
         \/ pc = "readPayload" /\ Len(out) = want /\ echo = out
  PROVE  /\ up = <<>> /\ carry = <<>> /\ down = <<>> /\ ~altered
         /\ bytesSent = bytesRecv + HeaderBytes + Len(echo)
  <1>1. TypeOK /\ WireInv /\ ReadInv
    BY DEF IInv
  <1>2. pc \in Waiting /\ pc # "yielded" /\ Got = out
    BY DEF Waiting, Reading, Got
  <1>3. Wire /\ bytesSent = bytesRecv + HeaderBytes + Len(payload)
    BY <1>1, <1>2 DEF WireInv
  <1>4. ~Unanswered
    <2>1. Unanswered => pc = "readHeader" /\ out = <<>>
      BY <1>2 DEF Unanswered
    <2>2. Len(<<>>) = 0 /\ HeaderBytes # 0
      BY EmptySeq, Bounds
    <2> QED
      BY <1>1, <2>1, <2>2 DEF ReadInv
  <1>5. PICK head \in Seq(Byte), tail \in Seq(Byte) : Answered(head, tail)
    BY <1>3, <1>4 DEF Wire
  <1> DEFINE r == (carry ++ down) ++ tail
             all == head ++ (Rest ++ tail)
  <1>6. /\ Got \in Seq(Byte) /\ carry \in Seq(Byte) /\ down \in Seq(Byte)
        /\ Rest ++ tail \in Seq(Byte) /\ r \in Seq(Byte) /\ Rest ++ tail = out ++ r
    <2>1. Got \in Seq(Byte) /\ carry \in Seq(Byte) /\ down \in Seq(Byte) /\ Rest \in Seq(Byte)
      BY <1>1, StreamTypes
    <2>2. Rest ++ tail \in Seq(Byte)
      BY <2>1, JoinFacts
    <2>3. Rest ++ tail = Got ++ r /\ r \in Seq(Byte)
      BY <1>1, <1>5, RestSplit
    <2> QED
      BY <1>2, <2>1, <2>2, <2>3
  <1>7. payload \in Seq(Byte) /\ Len(payload) <= MaxPayload /\ out \in Seq(Byte)
    BY <1>1 DEF TypeOK
  <1>8. Len(all) = Len(EncodeFrame(payload)) /\ (altered <=> all # EncodeFrame(payload))
    BY <1>5 DEF Answered, Frame
  <1> HIDE DEF r
  <1>9. \E h \in Seq(Byte) : /\ all = h ++ (echo ++ r)
                             /\ Len(h) = HeaderBytes /\ Len(echo) = DecodeLength(h)
    <2>1. CASE pc = "readHeader"
      <3>1. echo = <<>> /\ DecodeLength(out) = 0 /\ Len(out) = HeaderBytes /\ head = <<>>
        BY <1>1, <1>5, <2>1 DEF ReadInv, Answered
      <3>2. echo ++ r = r /\ Len(echo) = 0 /\ all = Rest ++ tail
        BY <1>6, <3>1, JoinEmpty, EmptySeq
      <3> HIDE DEF all
      <3> QED
        BY <1>6, <1>7, <3>1, <3>2
    <2>2. CASE pc = "readPayload"
      <3>1. echo = out /\ Len(out) = want /\ Len(head) = HeaderBytes
            /\ DecodeLength(head) = want
        BY <1>5, <2>2 DEF Answered
      <3>2. all = head ++ (echo ++ r)
        BY <1>6, <3>1
      <3> HIDE DEF all
      <3> QED
        BY <3>1, <3>2
    <2> QED
      BY <2>1, <2>2
  <1>10. PICK h \in Seq(Byte) : /\ all = h ++ (echo ++ r)
                                /\ Len(h) = HeaderBytes /\ Len(echo) = DecodeLength(h)
    BY <1>9
  <1>11. echo = payload \/ all = EncodeFrame(payload)
    BY <1>8 DEF Tracked
  <1> HIDE DEF all
  <1>12. all = EncodeFrame(payload) /\ echo = payload /\ r = <<>>
    <2>1. /\ Len(h ++ (echo ++ r)) = Len(EncodeFrame(payload))
          /\ echo = payload \/ h ++ (echo ++ r) = EncodeFrame(payload)
      BY <1>8, <1>10, <1>11
    <2>2. h ++ (echo ++ r) = EncodeFrame(payload) /\ echo = payload /\ r = <<>>
      <3>1. /\ payload \in Seq(Byte) /\ Len(payload) <= MaxPayload
            /\ h \in Seq(Byte) /\ echo \in Seq(Byte) /\ r \in Seq(Byte)
            /\ Len(h) = HeaderBytes /\ Len(echo) = DecodeLength(h)
        BY <1>6, <1>7, <1>10
      <3> QED
        BY <2>1, <3>1, EchoMatches
    <2> QED
      BY <1>10, <2>2
  <1>13. carry = <<>> /\ down = <<>>
    <2>1. carry ++ down \in Seq(Byte)
      BY <1>6, JoinFacts
    <2>2. carry ++ down = <<>>
      BY <1>12, <2>1, JoinFacts DEF r
    <2> QED
      BY <1>6, <2>2, JoinFacts
  <1>14. up = <<>>
    BY <1>3, <1>4 DEF Wire
  <1> QED
    BY <1>3, <1>8, <1>12, <1>13, <1>14

LEMMA IdleStep ==
  ASSUME IInv, [Next]_vars
  PROVE  IdleInv'
  <1>0. TypeOK /\ IdleInv
    BY DEF IInv
  <1> SUFFICES ASSUME pc' \in Idle, Tracked'
               PROVE  /\ up' = <<>> /\ carry' = <<>> /\ down' = <<>>
                      /\ ~altered' /\ bytesSent' = bytesRecv'
    BY DEF IdleInv
  <1>1. Tracked
    BY TrackedBefore
  <1>2. CASE Start \/ Dial
    BY <1>0, <1>1, <1>2
       DEF Start, Dial, Throw, IdleInv, Idle, countVars, readerVars, wireVars
  <1>3. CASE Close \/ LoopEnds \/ SendThrows \/ Send \/ Resume
    BY <1>3 DEF Close, LoopEnds, SendThrows, Send, Resume, Throw, Idle
  <1>4. CASE NextChunk \/ Take
    BY <1>4 DEF NextChunk, Take, Pending, Reading, Throw, Idle
  <1>5. ASSUME NEW echo \in Seq(Byte), Echoed(echo),
               \/ /\ pc = "readHeader" /\ Len(out) = want /\ DecodeLength(out) = 0
                  /\ echo = <<>>
               \/ pc = "readPayload" /\ Len(out) = want /\ echo = out,
               UNCHANGED <<bytesSent, carry, wireVars>>
        PROVE  /\ up' = <<>> /\ carry' = <<>> /\ down' = <<>>
               /\ ~altered' /\ bytesSent' = bytesRecv'
    <2>1. client = "page" \/ payload = echo
      BY <1>5 DEF Echoed, Throw, Idle
    <2>2. /\ up = <<>> /\ carry = <<>> /\ down = <<>> /\ ~altered
          /\ bytesSent = bytesRecv + HeaderBytes + Len(echo)
      BY <1>1, <1>5, <2>1, RoundIsOver
    <2> QED
      BY <1>5, <2>2 DEF Echoed, wireVars
  <1>6. CASE HeaderRead
    <2>1. /\ pc = "readHeader" /\ Len(out) = want /\ DecodeLength(out) = 0
          /\ Echoed(<<>>) /\ UNCHANGED <<bytesSent, carry, wireVars>>
      BY <1>6 DEF HeaderRead, Throw, Idle
    <2>2. <<>> \in Seq(Byte)
      BY EmptySeq
    <2> QED
      BY <1>5, <2>1, <2>2
  <1>7. CASE PayloadRead
    BY <1>0, <1>5, <1>7 DEF PayloadRead, TypeOK, readerVars
  <1>8. CASE Abort \/ Tick
    BY <1>0, <1>1, <1>8 DEF Abort, Tick, IdleInv, countVars, readerVars, wireVars
  <1>9. CASE Echo
    BY <1>0, <1>1, <1>9 DEF Echo, IdleInv
  <1>10. CASE StreamEnds
    <2>1. PICK k \in 0..Len(down) : down' = SubSeq(down, 1, k)
      BY <1>10 DEF StreamEnds
    <2>2. /\ up = <<>> /\ carry = <<>> /\ down = <<>>
          /\ ~altered /\ bytesSent = bytesRecv
      BY <1>0, <1>1, <1>10 DEF StreamEnds, IdleInv
    <2>3. Len(down) = 0 /\ k = 0
      BY <2>2, EmptySeq
    <2>4. down' = <<>>
      BY <2>1, <2>3, SubSeqEmpty
    <2> QED
      BY <1>10, <2>2, <2>4 DEF StreamEnds, countVars, readerVars
  <1>11. CASE UNCHANGED vars
    BY <1>0, <1>1, <1>11 DEF IdleInv, vars, countVars, readerVars, wireVars
  <1> QED
    BY <1>2, <1>3, <1>4, <1>6, <1>7, <1>8, <1>9, <1>10, <1>11 DEF Next, ClientStep

LEMMA WireStep ==
  ASSUME IInv, [Next]_vars
  PROVE  WireInv'
  <1>0. TypeOK /\ IdleInv /\ WireInv /\ ReadInv
    BY DEF IInv
  <1> SUFFICES ASSUME pc' \in Waiting, Tracked'
               PROVE  /\ Wire'
                      /\ IF pc' = "yielded"
                           THEN carry' = <<>> /\ bytesSent' = bytesRecv'
                           ELSE bytesSent' = bytesRecv' + HeaderBytes + Len(payload')
    BY DEF WireInv
  <1> DEFINE Counts == IF pc = "yielded"
                         THEN carry = <<>> /\ bytesSent = bytesRecv
                         ELSE bytesSent = bytesRecv + HeaderBytes + Len(payload)
  <1>1. Tracked
    BY TrackedBefore
  <1>2. TypeOK'
    BY TypeStep
  <1>3. /\ Got \in Seq(Byte) /\ carry \in Seq(Byte) /\ down \in Seq(Byte)
        /\ Got ++ carry \in Seq(Byte) /\ Rest \in Seq(Byte)
        /\ Frame \in Seq(Byte) /\ Len(Frame) \in Nat \ {0}
    BY <1>0, StreamTypes
  <1>4. /\ Got' \in Seq(Byte) /\ carry' \in Seq(Byte) /\ down' \in Seq(Byte)
        /\ Rest' \in Seq(Byte) /\ Frame' \in Seq(Byte)
    <2>1. Got' \in Seq(Byte) /\ carry' \in Seq(Byte) /\ down' \in Seq(Byte)
      BY <1>2, EmptySeq DEF TypeOK, Got
    <2>2. Rest' \in Seq(Byte)
      BY <2>1, JoinFacts DEF Rest
    <2>3. Frame' \in Seq(Byte)
      BY <1>2, FrameFacts DEF TypeOK, Frame
    <2> QED
      BY <2>1, <2>2, <2>3
  <1>5. pc \in Waiting => Wire /\ Counts
    BY <1>0, <1>1 DEF WireInv
  <1>6. ASSUME Unanswered /\ UNCHANGED <<up, carry, down, Got, payload, altered>>,
               pc' # "readPayload"
        PROVE  Wire'
    BY <1>6 DEF Unanswered, Wire, Frame
  \* A step that only moves bytes from one place to the next.
  <1>7. ASSUME up = <<>> /\ UNCHANGED <<up, payload, altered>>,
               NEW h \in Seq(Byte), NEW t \in Seq(Byte), Answered(h, t),
               NEW h2 \in Seq(Byte), NEW t2 \in Seq(Byte),
               h2 ++ (Rest' ++ t2) = h ++ (Rest ++ t),
               IF pc' = "readPayload"
                 THEN Len(h2) = HeaderBytes /\ DecodeLength(h2) = want'
                 ELSE h2 = <<>>
        PROVE  Wire'
    <2>1. Answered(h2, t2)'
      BY <1>7, AnsweredKept DEF Frame
    <2> QED
      BY <1>7, <2>1 DEF Wire
  <1>8. ASSUME UNCHANGED <<up, carry, down, Got, payload, altered, want>>,
               pc \in Waiting, pc' = "readPayload" <=> pc = "readPayload"
        PROVE  Wire'
    <2>1. ASSUME Unanswered PROVE Wire'
      BY <1>6, <1>8, <2>1 DEF Unanswered
    <2>2. ASSUME up = <<>>, NEW h \in Seq(Byte), NEW t \in Seq(Byte), Answered(h, t)
          PROVE  Wire'
      <3>1. Rest' = Rest
        BY <1>8 DEF Rest
      <3>2. IF pc' = "readPayload"
              THEN Len(h) = HeaderBytes /\ DecodeLength(h) = want'
              ELSE h = <<>>
        BY <1>8, <2>2 DEF Answered
      <3> QED
        BY <1>7, <1>8, <2>2, <3>1, <3>2
    <2> QED
      BY <1>5, <1>8, <2>1, <2>2 DEF Wire
  <1>9. CASE Start \/ Dial \/ Close \/ LoopEnds \/ SendThrows
    BY <1>9 DEF Start, Dial, Close, LoopEnds, SendThrows, Throw, Waiting, Reading
  <1>10. CASE Send
    <2>1. /\ up = <<>> /\ carry = <<>> /\ down = <<>> /\ ~altered
          /\ bytesSent = bytesRecv
      BY <1>0, <1>1, <1>10 DEF Send, IdleInv, Idle
    <2>2. up' = up ++ Frame'
      BY <1>0, <1>10, SendSteps
    <2>3. up' = Frame'
      BY <1>4, <2>1, <2>2, JoinEmpty
    <2> QED
      BY <1>10, <2>1, <2>3 DEF Send, Wire, Unanswered, Got, countVars, readerVars
  <1>11. CASE Resume
    <2>1. /\ pc = "yielded" /\ pc' = "readHeader" /\ out' = <<>>
          /\ bytesSent' = bytesSent + HeaderBytes + Len(payload)
          /\ UNCHANGED <<payload, bytesRecv, carry, up, down, altered>>
      BY <1>11 DEF Resume, Throw, Waiting, Reading, wireVars
    <2>2. Got = <<>> /\ Got' = <<>> /\ pc \in Waiting /\ bytesSent = bytesRecv
      BY <1>5, <2>1 DEF Got, Waiting
    <2>3. ASSUME Unanswered PROVE Wire'
      BY <1>6, <2>1, <2>2, <2>3
    <2>4. ASSUME up = <<>>, NEW h \in Seq(Byte), NEW t \in Seq(Byte), Answered(h, t)
          PROVE  Wire'
      <3>1. Rest' = Rest
        BY <2>1, <2>2 DEF Rest
      <3>2. h = <<>>
        BY <2>1, <2>4 DEF Answered
      <3> QED
        BY <1>7, <2>1, <2>4, <3>1, <3>2
    <2>5. Wire'
      BY <1>5, <2>2, <2>3, <2>4 DEF Wire
    <2> QED
      BY <2>1, <2>2, <2>5
  <1>12. CASE NextChunk
    <2>1. /\ pc \in Reading /\ pc' = pc /\ carry = <<>> /\ down = carry' ++ down'
          /\ UNCHANGED <<payload, bytesSent, bytesRecv, up, altered, want, Got>>
      BY <1>0, <1>12, ChunkSteps
         DEF NextChunk, Pending, Throw, Waiting, Reading, Got, countVars
    <2>2. pc \in Waiting
      BY <2>1 DEF Waiting
    <2>3. ASSUME Unanswered PROVE Wire'
      <3>1. carry' = <<>> /\ down' = <<>>
        BY <1>4, <2>1, <2>3, JoinFacts DEF Unanswered
      <3> QED
        BY <1>6, <2>1, <2>3, <3>1 DEF Unanswered
    <2>4. ASSUME up = <<>>, NEW h \in Seq(Byte), NEW t \in Seq(Byte), Answered(h, t)
          PROVE  Wire'
      <3>1. Rest = Got ++ down
        BY <1>3, <2>1, JoinEmpty DEF Rest
      <3>2. (Got ++ carry') ++ down' = Got ++ (carry' ++ down')
        BY <1>3, <1>4, JoinAssociative
      <3>3. Rest' = Rest
        BY <2>1, <3>1, <3>2 DEF Rest
      <3> QED
        BY <1>7, <2>1, <2>4, <3>3 DEF Answered
    <2>5. Wire'
      BY <1>5, <2>2, <2>3, <2>4 DEF Wire
    <2> QED
      BY <1>5, <2>1, <2>2, <2>5 DEF Reading
  <1>13. CASE Take
    <2>1. PICK s \in Seq(Byte) : out' = out ++ s /\ carry = s ++ carry'
      BY <1>0, <1>13, TakeSteps
    <2>2. /\ pc \in Reading /\ pc' = pc /\ carry # <<>>
          /\ UNCHANGED <<payload, bytesSent, bytesRecv, up, down, altered, want>>
      BY <1>13 DEF Take, Pending, countVars, wireVars
    <2>3. Got = out /\ Got' = out' /\ pc \in Waiting
      BY <2>2 DEF Got, Reading, Waiting
    <2>4. PICK h \in Seq(Byte), t \in Seq(Byte) : up = <<>> /\ Answered(h, t)
      BY <1>5, <2>2, <2>3 DEF Wire, Unanswered
    <2>5. (out ++ s) ++ carry' = out ++ (s ++ carry')
      BY <1>0, <1>4, <2>1, JoinAssociative DEF TypeOK
    <2>6. Rest' = Rest
      BY <2>1, <2>2, <2>3, <2>5 DEF Rest
    <2>7. Wire'
      BY <1>7, <2>2, <2>4, <2>6 DEF Answered
    <2> QED
      BY <1>5, <2>2, <2>3, <2>7 DEF Reading
  <1>14. CASE HeaderRead
    <2>1. /\ pc = "readHeader" /\ Len(out) = want /\ pc' = "readPayload"
          /\ want' = DecodeLength(out) /\ out' = <<>>
          /\ UNCHANGED <<payload, bytesSent, bytesRecv, carry, up, down, altered>>
      BY <1>14 DEF HeaderRead, Echoed, Throw, Waiting, Reading, countVars, wireVars
    <2>2. Got = out /\ Got' = <<>> /\ pc \in Waiting /\ Len(out) = HeaderBytes
      BY <1>0, <2>1 DEF Got, Waiting, Reading, ReadInv
    <2>3. ~Unanswered
      BY <2>2, EmptySeq, Bounds DEF Unanswered
    <2>4. PICK h \in Seq(Byte), t \in Seq(Byte) : up = <<>> /\ Answered(h, t)
      BY <1>5, <2>2, <2>3 DEF Wire
    <2>5. h = <<>>
      BY <2>1, <2>4 DEF Answered
    <2>6. Rest' = carry ++ down
      BY <1>3, <1>4, <2>1, <2>2, JoinEmpty DEF Rest
    <2>7. Rest = out ++ (carry ++ down)
      BY <1>3, <2>2, JoinAssociative DEF Rest
    <2>8. out \in Seq(Byte) /\ carry ++ down \in Seq(Byte)
      BY <1>3, <2>2, JoinFacts
    <2>9. (out ++ (carry ++ down)) ++ t = out ++ ((carry ++ down) ++ t)
      BY <2>4, <2>8, JoinAssociative
    <2>10. <<>> ++ (Rest ++ t) = Rest ++ t
      BY <1>3, <2>4, JoinFacts, JoinEmpty
    <2>11. out ++ (Rest' ++ t) = h ++ (Rest ++ t)
      BY <2>5, <2>6, <2>7, <2>9, <2>10
    <2>12. Wire'
      BY <1>7, <2>1, <2>2, <2>4, <2>8, <2>11
    <2> QED
      BY <1>5, <2>1, <2>2, <2>12
  <1>15. CASE PayloadRead
    BY <1>15 DEF PayloadRead, Echoed, Throw, Waiting, Reading
  <1>16. CASE Abort \/ Tick \/ UNCHANGED vars
    <2>1. UNCHANGED <<pc, up, carry, down, out, payload, altered, want,
                      bytesSent, bytesRecv>>
      BY <1>16 DEF Abort, Tick, vars, countVars, readerVars, wireVars
    <2>2. UNCHANGED Got
      BY <2>1 DEF Got
    <2>3. Wire'
      BY <1>8, <2>1, <2>2
    <2> QED
      BY <1>5, <2>1, <2>3
  <1>17. CASE Echo
    <2>1. /\ up # <<>> /\ up' = <<>>
          /\ UNCHANGED <<pc, payload, bytesSent, bytesRecv, carry, out, want>>
      BY <1>0, <1>17, EchoSteps DEF countVars, readerVars
    <2>2. PICK e \in Seq(Byte) :
            /\ down' = down ++ e /\ Len(e) = Len(up)
            /\ \/ e = up /\ altered' = altered
               \/ e # up /\ altered' = TRUE
      BY <1>0, <1>17, EchoSteps
    <2>3. Unanswered /\ Counts /\ Got' = Got
      BY <1>5, <2>1 DEF Wire, Got
    <2>4. Rest' = e
      <3>1. Rest' = (<<>> ++ <<>>) ++ (<<>> ++ e)
        BY <2>1, <2>2, <2>3 DEF Rest, Unanswered
      <3>2. <<>> \in Seq(Byte)
        BY EmptySeq
      <3>3. <<>> ++ <<>> = <<>> /\ <<>> ++ e = e
        BY <2>2, <3>2, JoinEmpty
      <3> QED
        BY <3>1, <3>3
    <2>5. <<>> ++ (Rest' ++ <<>>) = e
      BY <2>2, <2>4, JoinEmpty
    <2>6. Frame' = Frame /\ up = Frame
      BY <2>1, <2>3 DEF Frame, Unanswered
    <2>7. altered' <=> e # Frame'
      BY <2>2, <2>3, <2>6 DEF Unanswered
    <2>8. Answered(<<>>, <<>>)'
      BY <2>1, <2>2, <2>3, <2>5, <2>6, <2>7 DEF Answered, Unanswered
    <2>9. Wire'
      BY <2>1, <2>8, EmptySeq DEF Wire
    <2> QED
      BY <2>1, <2>3, <2>9
  <1>18. CASE StreamEnds
    <2>1. PICK k \in 0..Len(down) : down' = SubSeq(down, 1, k)
      BY <1>18 DEF StreamEnds
    <2>2. UNCHANGED <<pc, up, carry, out, payload, altered, want, bytesSent, bytesRecv>>
      BY <1>18 DEF StreamEnds, countVars, readerVars
    <2>3. UNCHANGED Got /\ pc \in Waiting
      BY <2>2 DEF Got
    <2> DEFINE lost == SubSeq(down, k + 1, Len(down))
    <2>4. lost \in Seq(Byte) /\ down = down' ++ lost
      BY <1>3, <2>1, SplitAt
    <2> HIDE DEF lost
    <2>5. ASSUME Unanswered PROVE Wire'
      <3>1. down' = <<>>
        BY <1>4, <2>4, <2>5, JoinFacts DEF Unanswered
      <3> QED
        BY <1>5, <1>6, <2>2, <2>3, <2>5, <3>1 DEF Unanswered
    <2>6. ASSUME up = <<>>, NEW h \in Seq(Byte), NEW t \in Seq(Byte), Answered(h, t)
          PROVE  Wire'
      <3>1. (Got ++ carry) ++ (down' ++ lost) = ((Got ++ carry) ++ down') ++ lost
        BY <1>3, <1>4, <2>4, JoinAssociative
      <3>2. Rest = Rest' ++ lost
        BY <2>2, <2>3, <2>4, <3>1 DEF Rest
      <3>3. Rest ++ t = Rest' ++ (lost ++ t) /\ lost ++ t \in Seq(Byte)
        BY <1>4, <2>4, <2>6, <3>2, JoinAssociative, JoinFacts
      <3> QED
        BY <1>7, <2>2, <2>6, <3>3 DEF Answered
    <2>7. Wire'
      BY <1>5, <2>3, <2>5, <2>6 DEF Wire
    <2> QED
      BY <1>5, <2>2, <2>3, <2>7
  <1> QED
    BY <1>9, <1>10, <1>11, <1>12, <1>13, <1>14, <1>15, <1>16, <1>17, <1>18
       DEF Next, ClientStep

----------------------------------------------------------------------------
\* The theorems.

LEMMA Inductive ==
  Spec => []IInv
  <1>1. Init => IInv
    BY InitHolds
  <1>2. IInv /\ [Next]_vars => IInv'
    BY TypeStep, IdleStep, WireStep, ReadStep, ResultStep, OkStep DEF IInv
  <1> QED
    BY <1>1, <1>2, PTL DEF Spec

\* Every variable keeps its type: no counter passes its bound, no length read
\* from the wire is taken that is more than the client accepts.
THEOREM TypeCorrect ==
  Spec => []TypeOK
  <1>1. IInv => TypeOK
    BY DEF IInv
  <1> QED
    BY <1>1, Inductive, PTL

\* Between rounds the reader stands at a frame boundary, for every base, header,
\* limit and size and however the transport cuts the bytes.
THEOREM RoundsAtFrames ==
  Spec => []RoundsEndAtFrames
  <1>1. IInv => RoundsEndAtFrames
    BY DEF IInv, IdleInv, Idle, Tracked, RoundsEndAtFrames
  <1> QED
    BY <1>1, Inductive, PTL

\* A transfer is only reported ok at its end, and by dialBulkTransfer only if
\* no byte of length or payload came back altered.
THEOREM OkIsIntact ==
  Spec => []OkMeansIntact
  <1>1. IInv => OkMeansIntact
    BY DEF IInv
  <1> QED
    BY <1>1, Inductive, PTL
=============================================================================
