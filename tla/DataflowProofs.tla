---------------------------- MODULE DataflowProofs ----------------------------
(***************************************************************************)
(* What the dataflow analysis finds is true of every execution, and it     *)
(* stops only where nothing changes any more, for every kernel.            *)
(*                                                                         *)
(* Numbers wrap around, so a divisor is not kept as it is: 3 divides 6,    *)
(* but not 6 - 16.  What is kept are the powers of two in it (PassesOn),   *)
(* and these are all that is written down.  The first part is about them   *)
(* and the numbers of the operations.  The second part shows that the      *)
(* result of an operation keeps what is promised of it if its operands     *)
(* keep what is promised of them, for numbers, alias sets and the arrays   *)
(* of lists alike (ResultsKeep).  The third part is the invariant: updates *)
(* that a clean walk has passed are settled (Settled), so the promises of  *)
(* the end are those of every update, and the values of a run keep them    *)
(* (ValuesSound).                                                          *)
(***************************************************************************)
EXTENDS Dataflow, WellFoundedInduction, TLAPS

(* Divisors and powers of two. *)

Divides(q, n) == \E k \in Int : n = q * k
Powers == {q \in Nat : IsPower(q)}

LEMMA DividesMod ==
  ASSUME NEW q \in Nat \ {0}, NEW n \in Int
  PROVE  n % q = 0 <=> Divides(q, n)
<1>1. ASSUME n % q = 0 PROVE Divides(q, n)
  <2>1. n = q * (n \div q) + (n % q) /\ n \div q \in Int
    OBVIOUS
  <2>2. n = q * (n \div q)
    BY <1>1, <2>1
  <2> QED BY <2>1, <2>2 DEF Divides
<1>2. ASSUME Divides(q, n) PROVE n % q = 0
  <2>1. PICK k \in Int : n = q * k
    BY <1>2 DEF Divides
  <2>2. (q * k) % q = 0
    OBVIOUS
  <2> QED BY <2>1, <2>2
<1> QED BY <1>1, <1>2

LEMMA DividesTrans ==
  ASSUME NEW a \in Int, NEW b \in Int, NEW c \in Int, Divides(a, b), Divides(b, c)
  PROVE  Divides(a, c)
<1>1. PICK k \in Int : b = a * k
  BY DEF Divides
<1>2. PICK m \in Int : c = b * m
  BY DEF Divides
<1>3. c = a * (k * m) /\ k * m \in Int
  BY <1>1, <1>2
<1> QED BY <1>3 DEF Divides

LEMMA DividesSum ==
  ASSUME NEW q \in Int, NEW a \in Int, NEW b \in Int, Divides(q, a), Divides(q, b)
  PROVE  Divides(q, a + b) /\ Divides(q, a - b) /\ Divides(q, -a)
<1>1. PICK k \in Int : a = q * k
  BY DEF Divides
<1>2. PICK m \in Int : b = q * m
  BY DEF Divides
<1>3. Divides(q, a + b)
  <2>1. a + b = q * (k + m) /\ k + m \in Int
    BY <1>1, <1>2
  <2> QED BY <2>1 DEF Divides
<1>4. Divides(q, a - b)
  <2>1. a - b = q * (k - m) /\ k - m \in Int
    BY <1>1, <1>2
  <2> QED BY <2>1 DEF Divides
<1>5. Divides(q, -a)
  <2>1. -a = q * (-k) /\ -k \in Int
    BY <1>1
  <2> QED BY <2>1 DEF Divides
<1> QED BY <1>3, <1>4, <1>5

LEMMA DividesProduct ==
  ASSUME NEW q \in Int, NEW a \in Int, NEW b \in Int, Divides(q, a)
  PROVE  Divides(q, a * b) /\ Divides(q, b * a)
<1>1. PICK k \in Int : a = q * k
  BY DEF Divides
<1>2. a * b = q * (k * b) /\ b * a = q * (k * b) /\ k * b \in Int
  BY <1>1
<1> QED BY <1>2 DEF Divides

\* Parity.
LEMMA Parity ==
  ASSUME NEW n \in Int
  PROVE  \E k \in Int : n = 2 * k \/ n = 2 * k + 1
<1>1. n \div 2 \in Int /\ (n = 2 * (n \div 2) \/ n = 2 * (n \div 2) + 1)
  OBVIOUS
<1> QED BY <1>1

LEMMA EvenDivides ==
  ASSUME NEW n \in Int
  PROVE  n % 2 = 0 <=> \E k \in Int : n = 2 * k
BY DividesMod DEF Divides

LEMMA EvenProduct ==
  ASSUME NEW a \in Int, NEW b \in Int, NEW m \in Int, a * b = 2 * m
  PROVE  (\E k \in Int : a = 2 * k) \/ (\E k \in Int : b = 2 * k)
<1>1. SUFFICES ASSUME NEW k \in Int, NEW l \in Int, a = 2 * k + 1, b = 2 * l + 1 PROVE FALSE
  BY Parity
<1>2. a * b = 2 * (2 * (k * l) + k + l) + 1
  BY <1>1
<1>3. PICK z \in Int : z = k * l
  OBVIOUS
<1>4. 2 * m = 2 * (2 * z + k + l) + 1
  BY <1>2, <1>3
<1> QED BY ONLY <1>4, z \in Int, k \in Int, l \in Int, m \in Int

LEMMA PowersAre ==
  ASSUME NEW q \in Powers
  PROVE  q \in Nat /\ q >= 1 /\ \A d \in Nat : d >= 2 /\ Divides(d, q) => \E k \in Int : d = 2 * k
<1>1. q \in Nat /\ q >= 1 /\ \A d \in 2 .. q : q % d = 0 => d % 2 = 0
  BY DEF Powers, IsPower
<1>2. ASSUME NEW d \in Nat, d >= 2, Divides(d, q) PROVE \E k \in Int : d = 2 * k
  <2>1. PICK m \in Int : q = d * m
    BY <1>2 DEF Divides
  <2>2. d <= q
    <3>1. m >= 1
      BY <1>1, <1>2, <2>1
    <3> QED BY <1>2, <2>1, <3>1
  <2>3. q % d = 0
    BY <1>1, <1>2, DividesMod
  <2>4. d % 2 = 0
    BY <1>1, <1>2, <2>2, <2>3
  <2> QED BY <1>2, <2>4, EvenDivides
<1> QED BY <1>1, <1>2

LEMMA PowersFrom ==
  ASSUME NEW q \in Nat, q >= 1,
         \A d \in Nat : d >= 2 /\ Divides(d, q) => \E k \in Int : d = 2 * k
  PROVE  q \in Powers
<1>1. ASSUME NEW d \in 2 .. q, q % d = 0 PROVE d % 2 = 0
  <2>1. d \in Nat \ {0} /\ d >= 2 /\ d \in Int
    OBVIOUS
  <2>2. Divides(d, q)
    BY <1>1, <2>1, DividesMod
  <2>3. \E k \in Int : d = 2 * k
    BY <2>1, <2>2
  <2> QED BY <2>1, <2>3, EvenDivides
<1> QED BY <1>1 DEF Powers, IsPower

\* A power of two other than 1 is twice a smaller one.
LEMMA PowerHalf ==
  ASSUME NEW q \in Powers, q # 1
  PROVE  \E p \in Powers : q = 2 * p /\ p < q
<1>1. q \in Nat /\ q >= 2
  BY PowersAre
<1>2. PICK p \in Int : q = 2 * p
  <2>1. q = q * 1
    BY <1>1
  <2>2. Divides(q, q)
    BY <2>1 DEF Divides
  <2> QED BY <1>1, <2>2, PowersAre
<1>3. p \in Nat /\ p >= 1 /\ p < q
  BY <1>1, <1>2
<1>4. ASSUME NEW d \in Nat, d >= 2, Divides(d, p) PROVE \E k \in Int : d = 2 * k
  <2>1. Divides(d, q)
    <3>1. Divides(d, 2 * p)
      BY <1>3, <1>4, DividesProduct
    <3> QED BY <1>2, <3>1
  <2> QED BY <1>4, <2>1, PowersAre
<1>5. p \in Powers
  BY <1>3, <1>4, PowersFrom
<1> QED BY <1>2, <1>3, <1>5

LEMMA PowerDouble ==
  ASSUME NEW p \in Powers
  PROVE  2 * p \in Powers
<1>1. p \in Nat /\ p >= 1
  BY PowersAre
<1>2. 2 * p \in Nat /\ 2 * p >= 1
  BY <1>1
<1>3. ASSUME NEW d \in Nat, d >= 2, Divides(d, 2 * p) PROVE \E k \in Int : d = 2 * k
  <2>1. PICK m \in Int : 2 * p = d * m
    BY <1>3 DEF Divides
  <2>2. CASE \E k \in Int : m = 2 * k
    <3>1. PICK k \in Int : m = 2 * k
      BY <2>2
    <3>2. 2 * p = 2 * (d * k)
      BY <1>3, <2>1, <3>1
    <3>3. PICK z \in Int : z = d * k
      BY <1>3
    <3>4. p = z
      BY <1>1, <3>2, <3>3
    <3>5. Divides(d, p)
      BY <3>3, <3>4 DEF Divides
    <3> QED BY <1>3, <3>5, PowersAre
  <2>3. CASE \E k \in Int : d = 2 * k
    BY <2>3
  <2> QED BY <1>1, <1>3, <2>1, <2>2, <2>3, EvenProduct
<1> QED BY <1>2, <1>3, PowersFrom

\* Induction over the powers of two.
LEMMA PowerInduction ==
  ASSUME NEW Good, 1 \in Good, \A p \in Powers : p \in Good => 2 * p \in Good
  PROVE  \A q \in Powers : q \in Good
<1> DEFINE T == {q \in Powers : q \notin Good}
<1>1. SUFFICES ASSUME T # {} PROVE FALSE
  OBVIOUS
<1>2. T \in SUBSET Nat
  BY PowersAre
<1>3. PICK m \in T : \A k \in T : << k, m >> \notin OpToRel(<, Nat)
  BY <1>1, <1>2, NatLessThanWellFounded, WFMin
<1>4. \A k \in T : ~(k < m)
  BY <1>2, <1>3 DEF OpToRel
<1>5. m \in Powers /\ m \notin Good /\ m # 1
  OBVIOUS
<1>6. PICK p \in Powers : m = 2 * p /\ p < m
  BY <1>5, PowerHalf
<1>7. p \in Good
  BY <1>4, <1>6
<1> QED BY <1>5, <1>6, <1>7

LEMMA PowerOne == 1 \in Powers
BY DEF Powers, IsPower

\* Of two powers of two the smaller divides the larger.
LEMMA PowerChain ==
  ASSUME NEW p \in Powers, NEW q \in Powers, p <= q
  PROVE  Divides(p, q)
<1> DEFINE Good == {a \in Powers : \A b \in Powers : a <= b => Divides(a, b)}
<1>1. 1 \in Good
  <2>1. ASSUME NEW b \in Powers PROVE Divides(1, b)
    <3>1. b \in Int /\ b = 1 * b
      BY PowersAre
    <3> QED BY <3>1 DEF Divides
  <2> QED BY <2>1, PowerOne
<1>2. ASSUME NEW a \in Powers, a \in Good PROVE 2 * a \in Good
  <2>1. ASSUME NEW b \in Powers, 2 * a <= b PROVE Divides(2 * a, b)
    <3>1. a \in Nat /\ a >= 1 /\ b \in Nat /\ b # 1
      BY <2>1, PowersAre
    <3>2. PICK c \in Powers : b = 2 * c
      BY <3>1, PowerHalf
    <3>3. c \in Nat /\ a <= c
      BY <2>1, <3>1, <3>2, PowersAre
    <3>4. PICK k \in Int : c = a * k
      <4>1. Divides(a, c)
        BY <1>2, <3>2, <3>3
      <4> QED BY <4>1 DEF Divides
    <3>5. b = (2 * a) * k
      BY <3>1, <3>2, <3>3, <3>4
    <3> QED BY <3>5 DEF Divides
  <2> QED BY <2>1, PowerDouble
<1>3. \A a \in Powers : a \in Good
  <2> HIDE DEF Good
  <2> QED BY <1>1, <1>2, PowerInduction
<1> QED BY <1>3

\* What divides a by powers of two divides x by the same powers.
PassesOn(a, x) == \A q \in Powers : Divides(q, a) => Divides(q, x)

LEMMA PassesHalf ==
  ASSUME NEW a \in Int, NEW x \in Int, PassesOn(2 * a, x)
  PROVE  \E y \in Int : x = 2 * y /\ PassesOn(a, y)
<1>1. 2 \in Powers
  BY PowerOne, PowerDouble
<1>2. Divides(2, 2 * a)
  BY DEF Divides
<1>3. PICK y \in Int : x = 2 * y
  BY <1>1, <1>2 DEF PassesOn, Divides
<1>4. ASSUME NEW q \in Powers, Divides(q, a) PROVE Divides(q, y)
  <2>1. q \in Nat /\ q >= 1
    BY PowersAre
  <2>2. PICK k \in Int : a = q * k
    BY <1>4 DEF Divides
  <2>3. 2 * a = (2 * q) * k
    BY <2>1, <2>2
  <2>4. Divides(2 * q, 2 * a)
    BY <2>3 DEF Divides
  <2>5. Divides(2 * q, x)
    BY <2>4, PowerDouble DEF PassesOn
  <2>6. PICK m \in Int : x = (2 * q) * m
    BY <2>5 DEF Divides
  <2>7. 2 * y = 2 * (q * m)
    BY <1>3, <2>1, <2>6
  <2>8. PICK z \in Int : z = q * m
    BY <2>1
  <2>9. y = z
    BY <2>7, <2>8
  <2> QED BY <2>8, <2>9 DEF Divides
<1> QED BY <1>3, <1>4 DEF PassesOn

LEMMA PassesProduct ==
  ASSUME NEW a \in Int, NEW x \in Int, PassesOn(a, x), NEW b \in Int, NEW y \in Int, PassesOn(b, y)
  PROVE  PassesOn(a * b, x * y)
<1> DEFINE Good == {q \in Powers : \A c, d, u, v \in Int :
                      PassesOn(c, u) /\ PassesOn(d, v) /\ Divides(q, c * d) => Divides(q, u * v)}
<1>1. 1 \in Good
  <2>1. ASSUME NEW n \in Int PROVE Divides(1, n)
    <3>1. n = 1 * n
      OBVIOUS
    <3> QED BY <3>1 DEF Divides
  <2>2. \A u, v \in Int : Divides(1, u * v)
    BY <2>1
  <2> QED BY <2>2, PowerOne
<1>2. ASSUME NEW p \in Powers, p \in Good PROVE 2 * p \in Good
  <2>0. p \in Nat
    BY PowersAre
  <2>1. ASSUME NEW c \in Int, NEW d \in Int, NEW u \in Int, NEW v \in Int,
               PassesOn(c, u), PassesOn(d, v), Divides(p, c * d)
        PROVE  Divides(p, u * v)
    BY <1>2, <2>1
  <2>2. ASSUME NEW c \in Int, NEW d \in Int, NEW u \in Int, NEW v \in Int,
               PassesOn(2 * c, u), PassesOn(d, v), Divides(2 * p, (2 * c) * d)
        PROVE  Divides(2 * p, u * v)
    <3>1. PICK w \in Int : u = 2 * w /\ PassesOn(c, w)
      BY <2>2, PassesHalf
    <3>2. PICK m \in Int : (2 * c) * d = (2 * p) * m
      BY <2>2 DEF Divides
    <3>3. PICK s \in Int, t \in Int : s = c * d /\ t = p * m
      BY <2>0
    <3>4. 2 * s = 2 * t
      BY <2>0, <3>2, <3>3
    <3>5. s = t
      BY <3>4
    <3>6. Divides(p, c * d)
      BY <3>3, <3>5 DEF Divides
    <3>7. Divides(p, w * v)
      BY <2>1, <2>2, <3>1, <3>6
    <3>8. PICK k \in Int : w * v = p * k
      BY <3>7 DEF Divides
    <3>9. u * v = (2 * p) * k
      <4>1. u * v = 2 * (w * v)
        BY <3>1
      <4>2. (2 * p) * k = 2 * (p * k)
        BY <2>0
      <4> QED BY <3>8, <4>1, <4>2
    <3> QED BY <3>9 DEF Divides
  <2>3. ASSUME NEW c \in Int, NEW d \in Int, NEW u \in Int, NEW v \in Int,
               PassesOn(c, u), PassesOn(d, v), Divides(2 * p, c * d)
        PROVE  Divides(2 * p, u * v)
    <3>1. PICK m \in Int : c * d = (2 * p) * m
      BY <2>3 DEF Divides
    <3>2. c * d = 2 * (p * m) /\ p * m \in Int
      BY <2>0, <3>1
    <3>3. CASE \E k \in Int : c = 2 * k
      BY <2>2, <2>3, <3>3
    <3>4. CASE \E k \in Int : d = 2 * k
      <4>1. PICK k \in Int : d = 2 * k
        BY <3>4
      <4>2. (2 * k) * c = c * d
        BY <4>1
      <4>3. Divides(2 * p, v * u)
        BY <2>2, <2>3, <4>1, <4>2
      <4> QED BY <4>3
    <3> QED BY <3>2, <3>3, <3>4, EvenProduct
  <2> QED BY <2>3, PowerDouble
<1>3. \A q \in Powers : q \in Good
  <2> HIDE DEF Good
  <2> QED BY <1>1, <1>2, PowerInduction
<1> QED BY <1>3 DEF PassesOn

LEMMA Remainder ==
  ASSUME NEW m \in Nat \ {0}, NEW n \in Int
  PROVE  n % m \in Int /\ \E k \in Int : n % m = n - m * k
<1>1. n = m * (n \div m) + (n % m) /\ n \div m \in Int /\ n % m \in Int
  OBVIOUS
<1>2. PICK d \in Int, e \in Int : d = n \div m /\ e = n % m
  BY <1>1
<1>3. n = m * d + e
  BY <1>1, <1>2
<1>4. e = n - m * d
  BY <1>3
<1> QED BY <1>2, <1>4

\* Numbers that wrap around stay multiples of a power of two.
LEMMA WrapPasses ==
  ASSUME NEW half \in Nat \ {0}, IsPower(2 * half), NEW r \in Int, NEW n \in Wrapped(r, half)
  PROVE  n \in Int /\ PassesOn(r, n)
<1>1. PICK m \in Nat \ {0} : m = 2 * half
  OBVIOUS
<1>2. m \in Powers
  BY <1>1 DEF Powers
<1>3. n = r % m \/ n = ((r + half) % m) - half
  BY <1>1 DEF Wrapped
<1>4. PICK k \in Int : n = r - m * k
  <2>1. CASE n = r % m
    BY <2>1, Remainder
  <2>2. CASE n = ((r + half) % m) - half
    <3>0. PICK t \in Int : t = r + half
      OBVIOUS
    <3>1. PICK k \in Int : t % m = t - m * k
      BY Remainder
    <3>2. PICK z \in Int : z = m * k
      OBVIOUS
    <3>3. n = r - z
      BY <2>2, <3>0, <3>1, <3>2
    <3> QED BY <3>2, <3>3
  <2> QED BY <1>3, <2>1, <2>2
<1>5. n \in Int
  BY <1>4
<1>6. ASSUME NEW q \in Powers, Divides(q, r) PROVE Divides(q, n)
  <2>0. q \in Nat \ {0}
    BY PowersAre
  <2>1. CASE q <= m
    <3>0. Divides(q, m)
      BY <1>2, <2>1, PowerChain
    <3>1. PICK z \in Int : z = m * k
      OBVIOUS
    <3>2. PICK e \in Int : m = q * e
      BY <3>0 DEF Divides
    <3>3. z = q * (e * k) /\ e * k \in Int
      BY <2>0, <3>1, <3>2
    <3>4. Divides(q, z)
      BY <3>3 DEF Divides
    <3>5. Divides(q, r - z)
      BY <1>6, <2>0, <3>4, DividesSum
    <3> QED BY <1>4, <3>1, <3>5
  <2>2. CASE m <= q
    <3>1. Divides(m, r)
      BY <1>2, <1>6, <2>0, <2>2, PowerChain, DividesTrans
    <3>2. PICK c \in Int : r = m * c
      BY <3>1 DEF Divides
    <3>3. r % m = 0
      BY <3>1, DividesMod
    <3>4. (r + half) % m = half
      <4>1. half \in 0 .. m - 1
        BY <1>1
      <4>2. (m * c + half) % m = half
        BY <4>1
      <4> QED BY <3>2, <4>2
    <3>5. n = 0
      BY <1>3, <3>3, <3>4
    <3>6. n = q * 0
      BY <2>0, <3>5
    <3> QED BY <3>6 DEF Divides
  <2> QED BY <2>0, <2>1, <2>2
<1> QED BY <1>5, <1>6 DEF PassesOn

\* gcd divides both of its arguments.
LEMMA Greatest ==
  ASSUME NEW m \in Nat, NEW S \in SUBSET (1 .. m), S # {}
  PROVE  (CHOOSE d \in S : \A e \in S : e <= d) \in S
<1> DEFINE T == {m - d : d \in S}
<1>1. T \in SUBSET Nat /\ T # {}
  <2>1. ASSUME NEW d \in S PROVE m - d \in Nat
    BY d \in 1 .. m
  <2>2. T \in SUBSET Nat
    BY <2>1
  <2> QED BY <2>2
<1>2. PICK k \in T : \A j \in T : << j, k >> \notin OpToRel(<, Nat)
  <2> HIDE DEF T
  <2> QED BY <1>1, NatLessThanWellFounded, WFMin
<1>3. \A j \in T : ~(j < k)
  BY <1>1, <1>2 DEF OpToRel
<1>4. PICK d \in S : k = m - d
  OBVIOUS
<1>5. ASSUME NEW e \in S PROVE e <= d
  <2>1. m - e \in T
    OBVIOUS
  <2>2. ~(m - e < m - d)
    BY <1>3, <1>4, <2>1
  <2> QED BY <2>2
<1> QED BY <1>5

LEMMA GcdDivides ==
  ASSUME NEW a \in Int, NEW b \in Int
  PROVE  gcd(a, b) \in Nat /\ Divides(gcd(a, b), a) /\ Divides(gcd(a, b), b)
<1> DEFINE S == {d \in 1 .. Abs(a) + Abs(b) : a % d = 0 /\ b % d = 0}
<1>0. PICK m \in Nat : m = Abs(a) + Abs(b)
  BY DEF Abs
<1>1. gcd(a, b) = IF S = {} THEN 0 ELSE CHOOSE d \in S : \A e \in S : e <= d
  BY DEF gcd
<1>2. CASE S = {}
  <2>1. a % 1 = 0 /\ b % 1 = 0
    OBVIOUS
  <2>2. 1 \notin 1 .. m
    BY <1>0, <1>2, <2>1
  <2>3. a = 0 /\ b = 0
    BY <1>0, <2>2 DEF Abs
  <2>4. gcd(a, b) = 0 /\ 0 = 0 * 0
    BY <1>1, <1>2
  <2> QED BY <2>3, <2>4 DEF Divides
<1>3. CASE S # {}
  <2>1. S \in SUBSET (1 .. m)
    BY <1>0
  <2>2. (CHOOSE d \in S : \A e \in S : e <= d) \in S
    <3> HIDE DEF S
    <3> QED BY <1>3, <2>1, Greatest
  <2>3. PICK d \in S : d = gcd(a, b)
    <3> HIDE DEF S
    <3> QED BY <1>1, <1>3, <2>2
  <2>4. d \in Nat \ {0} /\ a % d = 0 /\ b % d = 0
    BY <1>0
  <2> QED BY <2>3, <2>4, DividesMod
<1> QED BY <1>2, <1>3

LEMMA GcdPasses ==
  ASSUME NEW a \in Int, NEW b \in Int, NEW x, PassesOn(a, x) \/ PassesOn(b, x)
  PROVE  PassesOn(gcd(a, b), x)
<1>1. PICK g \in Nat : g = gcd(a, b)
  BY GcdDivides
<1>2. Divides(g, a) /\ Divides(g, b)
  BY <1>1, GcdDivides
<1>3. ASSUME NEW q \in Powers, Divides(q, g) PROVE Divides(q, a) /\ Divides(q, b)
  <2>1. q \in Int
    BY PowersAre
  <2> QED BY <1>2, <1>3, <2>1, DividesTrans
<1> QED BY <1>1, <1>3 DEF PassesOn

\* What is written down is 0, 1 or a power of two that divides d.
LEMMA AssumedDivides ==
  ASSUME NEW d \in Int, Assumed(d) > 1
  PROVE  Assumed(d) \in Powers /\ Divides(Assumed(d), d)
<1> DEFINE S == {q \in 1 .. Abs(d) : IsPower(q) /\ d % q = 0}
<1>1. LowBit(d) = IF S = {} THEN 0 ELSE CHOOSE q \in S : \A p \in S : p <= q
  BY DEF LowBit
<1>2. MaxDivBy \in Powers
  BY DataflowAssumption DEF Powers
<1>3. S # {}
  <2>1. SUFFICES ASSUME LowBit(d) = 0 PROVE FALSE
    BY <1>1
  <2>2. MaxDivBy \in Nat /\ MaxDivBy >= 1
    BY <1>2, PowersAre
  <2> QED BY <2>1, <2>2 DEF Assumed
<1>4. PICK q \in S : q = LowBit(d)
  <2>1. PICK m \in Nat : m = Abs(d)
    BY DEF Abs
  <2>2. S \in SUBSET (1 .. m)
    BY <2>1
  <2> HIDE DEF S
  <2> QED BY <1>1, <1>3, <2>2, Greatest
<1>5. q \in Nat \ {0} /\ q \in Powers /\ Divides(q, d)
  <2>1. q \in Nat \ {0} /\ IsPower(q) /\ d % q = 0
    BY DEF Abs
  <2> QED BY <2>1, DividesMod DEF Powers
<1>6. CASE q < MaxDivBy
  BY <1>4, <1>5, <1>6 DEF Assumed
<1>7. CASE ~(q < MaxDivBy)
  <2>1. Assumed(d) = MaxDivBy
    BY <1>4, <1>7 DEF Assumed
  <2>2. MaxDivBy \in Nat /\ MaxDivBy <= q
    BY <1>2, <1>5, <1>7, PowersAre
  <2>3. Divides(MaxDivBy, q)
    BY <1>2, <1>5, <2>2, PowerChain
  <2> QED BY <1>2, <1>5, <2>1, <2>2, <2>3, DividesTrans
<1> QED BY <1>6, <1>7

-----------------------------------------------------------------------------
(* Predicates. *)

\* The value val is as the predicate p promises.
Keeps(prg, p, val) ==
  /\ PassesOn(p.div, val.num)
  /\ val.place # Nowhere =>
       /\ AliasSet(val.place, Constraint(prg, val.place).groups) \subseteq p.alias
       /\ Constraint(prg, val.place).internal => p.internal

\* Whatever is as q promises is as p promises.
Implied(q, p) ==
  /\ PassesOn(p.div, q.div)
  /\ q.alias \subseteq p.alias
  /\ q.internal => p.internal

\* A list holds arrays that are as the facts f promise of its items.
ListKeeps(prg, f, val) ==
  \A l \in Names : val.place = << "list", l >> =>
    \A n \in Slots :
      Implied(ArrayPredicate(<< "element", l >>, prg.lists[l].element, n), f.items[n])

KeepsFacts(prg, f, val) == Keeps(prg, f.own, val) /\ ListKeeps(prg, f, val)

LEMMA PassesMore ==
  ASSUME NEW a, NEW b, NEW c, PassesOn(a, b), PassesOn(b, c)
  PROVE  PassesOn(a, c)
BY DEF PassesOn

LEMMA PassesOne ==
  ASSUME NEW n \in Int
  PROVE  PassesOn(1, n)
<1>1. ASSUME NEW q \in Powers, Divides(q, 1) PROVE Divides(q, n)
  <2>1. q \in Nat
    BY PowersAre
  <2>2. Divides(1, n)
    <3>1. n = 1 * n
      OBVIOUS
    <3> QED BY <3>1 DEF Divides
  <2> QED BY <1>1, <2>1, <2>2, DividesTrans
<1> QED BY <1>1 DEF PassesOn

LEMMA UnifyType ==
  ASSUME NEW p \in Predicates, NEW q \in Predicates
  PROVE  unify(p, q) \in Predicates
<1>1. gcd(p.div, q.div) \in Int
  <2>1. PICK a \in Int, b \in Int : a = p.div /\ b = q.div
    BY DEF Predicates
  <2>2. gcd(a, b) \in Nat
    BY GcdDivides
  <2> QED BY <2>1, <2>2
<1>2. p.alias \cup q.alias \in SUBSET Bits /\ (p.internal \/ q.internal) \in BOOLEAN
  BY DEF Predicates
<1> QED BY <1>1, <1>2 DEF unify, Predicates

\* What keeps one of two promises keeps the unified one.
LEMMA UnifyKeeps ==
  ASSUME NEW prg, NEW p \in Predicates, NEW q \in Predicates, NEW val,
         Keeps(prg, p, val) \/ Keeps(prg, q, val)
  PROVE  Keeps(prg, unify(p, q), val)
<1>1. p.div \in Int /\ q.div \in Int
  BY DEF Predicates
<1>2. PICK r : r = unify(p, q)
  OBVIOUS
<1>3. r.alias = p.alias \cup q.alias /\ r.div = gcd(p.div, q.div) /\ r.internal = (p.internal \/ q.internal)
  BY <1>2 DEF unify
<1>4. PassesOn(r.div, val.num)
  BY <1>1, <1>3, GcdPasses DEF Keeps
<1>5. Keeps(prg, r, val)
  BY <1>3, <1>4 DEF Keeps
<1> QED BY <1>2, <1>5

LEMMA UnifyImplied ==
  ASSUME NEW p \in Predicates, NEW q \in Predicates, NEW r, Implied(r, p) \/ Implied(r, q)
  PROVE  Implied(r, unify(p, q))
<1>1. p.div \in Int /\ q.div \in Int
  BY DEF Predicates
<1>2. PICK s : s = unify(p, q)
  OBVIOUS
<1>3. s.alias = p.alias \cup q.alias /\ s.div = gcd(p.div, q.div) /\ s.internal = (p.internal \/ q.internal)
  BY <1>2 DEF unify
<1>4. PassesOn(s.div, r.div)
  BY <1>1, <1>3, GcdPasses DEF Implied
<1>5. Implied(r, s)
  BY <1>3, <1>4 DEF Implied
<1> QED BY <1>2, <1>5

LEMMA UnifyFactsType ==
  ASSUME NEW f \in Facts, NEW g \in Facts
  PROVE  UnifyFacts(f, g) \in Facts
<1>1. unify(f.own, g.own) \in Predicates
  BY UnifyType DEF Facts
<1>2. ASSUME NEW n \in Slots PROVE unify(f.items[n], g.items[n]) \in Predicates
  <2>1. f.items[n] \in Predicates /\ g.items[n] \in Predicates
    BY DEF Facts
  <2> QED BY <2>1, UnifyType
<1> QED BY <1>1, <1>2 DEF UnifyFacts, Facts

LEMMA UnifyKeepsFacts ==
  ASSUME NEW prg, NEW f \in Facts, NEW g \in Facts, NEW val,
         KeepsFacts(prg, f, val) \/ KeepsFacts(prg, g, val)
  PROVE  KeepsFacts(prg, UnifyFacts(f, g), val)
<1>0. PICK h : h = UnifyFacts(f, g)
  OBVIOUS
<1>1. h.own = unify(f.own, g.own) /\ \A n \in Slots : h.items[n] = unify(f.items[n], g.items[n])
  BY <1>0 DEF UnifyFacts
<1>2. f.own \in Predicates /\ g.own \in Predicates
  BY DEF Facts
<1>3. Keeps(prg, h.own, val)
  BY <1>1, <1>2, UnifyKeeps DEF KeepsFacts
<1>4. ASSUME NEW l \in Names, val.place = << "list", l >>, NEW n \in Slots
      PROVE  Implied(ArrayPredicate(<< "element", l >>, prg.lists[l].element, n), h.items[n])
  <2>1. f.items[n] \in Predicates /\ g.items[n] \in Predicates
    BY DEF Facts
  <2>2. PICK r : r = ArrayPredicate(<< "element", l >>, prg.lists[l].element, n)
    OBVIOUS
  <2>3. Implied(r, f.items[n]) \/ Implied(r, g.items[n])
    BY <1>4, <2>2 DEF KeepsFacts, ListKeeps
  <2>4. Implied(r, unify(f.items[n], g.items[n]))
    BY <2>1, <2>3, UnifyImplied
  <2> QED BY <1>1, <2>2, <2>4
<1> QED BY <1>0, <1>3, <1>4 DEF KeepsFacts, ListKeeps

-----------------------------------------------------------------------------
(* What the analysis promises of an operation, its result keeps. *)

Values == [num : Int, place : Places \cup {Nowhere}]

LEMMA NowhereIsNoPlace ==
  /\ \A l : Nowhere # << "list", l >>
  /\ Nowhere[1] = "nowhere" /\ Nowhere \notin Places
<1>1. \A a, l : << a, l >>[1] = a /\ << "nowhere" >>[1] = "nowhere"
  OBVIOUS
<1>2. \A l : Nowhere # << "list", l >>
  BY <1>1 DEF Nowhere
<1>3. ASSUME NEW a \in {"array", "list", "element"}, NEW l \in Names PROVE Nowhere # << a, l >>
  BY <1>1 DEF Nowhere
<1>4. Nowhere \notin Places
  BY <1>3 DEF Places
<1> QED BY <1>1, <1>2, <1>4 DEF Nowhere

LEMMA AlwaysTrueType == ALWAYS_TRUE \in Predicates
BY DEF ALWAYS_TRUE, ALIAS_UNIVERSE, Predicates

LEMMA DivisibleType ==
  ASSUME NEW p \in Predicates, NEW d \in Int
  PROVE  /\ Divisible(p, d) \in Predicates
         /\ Divisible(p, d).div = d
         /\ Divisible(p, d).alias = p.alias
         /\ Divisible(p, d).internal = p.internal
BY DEF Divisible, Predicates

LEMMA OfNumberType ==
  ASSUME NEW p \in Predicates
  PROVE  OfNumber(p) \in Facts /\ OfNumber(p).own = p /\ \A n \in Slots : OfNumber(p).items[n] = ALWAYS_TRUE
BY AlwaysTrueType DEF OfNumber, Facts

\* Programs.
LEMMA ProgramType ==
  ASSUME NEW prg \in Programs
  PROVE  /\ \A i \in DOMAIN prg.flow : prg.flow[i] \in Updates /\ Meaningful(prg.flow[i])
         /\ \A nm \in Names : prg.arrays[nm] \in Arrays /\ prg.lists[nm] \in Lists
         /\ \A nm \in Names : prg.lists[nm].element \in Arrays
         /\ \A v \in DOMAIN prg.params : v \in Vars /\ prg.params[v] \in Params
         /\ DOMAIN prg.flow = 1 .. Len(prg.flow) /\ Len(prg.flow) \in Nat
<1>1. prg.flow \in Seq(Updates) /\ \A i \in DOMAIN prg.flow : Meaningful(prg.flow[i])
  BY ProgramsAssumption
<1>2. \A i \in DOMAIN prg.flow : prg.flow[i] \in Updates
  BY <1>1
<1>3. prg.arrays \in [Names -> Arrays] /\ prg.lists \in [Names -> Lists]
  BY ProgramsAssumption
<1>4. \A v \in DOMAIN prg.params : v \in Vars /\ prg.params[v] \in Params
  BY ProgramsAssumption
<1>5. \A nm \in Names : prg.lists[nm].element \in Arrays
  BY <1>3 DEF Lists
<1>6. DOMAIN prg.flow = 1 .. Len(prg.flow) /\ Len(prg.flow) \in Nat
  BY <1>1
<1> QED BY <1>1, <1>2, <1>3, <1>4, <1>5, <1>6

LEMMA AliasSetType ==
  ASSUME NEW place \in Places, NEW groups \in SUBSET AliasGroups
  PROVE  AliasSet(place, groups) \subseteq Bits /\ AliasSet(place, groups) # {}
<1>1. CASE groups = {}
  <2>1. AliasSet(place, groups) = {<< "own", place >>}
    BY <1>1 DEF AliasSet
  <2> QED BY <2>1 DEF Bits
<1>2. CASE groups # {}
  <2>1. AliasSet(place, groups) = {"group"} \X groups
    BY <1>2 DEF AliasSet
  <2>2. PICK g \in groups : TRUE
    BY <1>2
  <2>3. << "group", g >> \in {"group"} \X groups
    OBVIOUS
  <2>4. {"group"} \X groups \subseteq {"group"} \X AliasGroups
    OBVIOUS
  <2> QED BY <2>1, <2>3, <2>4 DEF Bits
<1> QED BY <1>1, <1>2

LEMMA ArrayPredicateType ==
  ASSUME NEW place \in Places, NEW a \in Arrays, NEW n \in Slots
  PROVE  ArrayPredicate(place, a, n) \in Predicates
<1>1. a.groups \in SUBSET AliasGroups /\ a.internal \in BOOLEAN
  BY DEF Arrays
<1>2. a.words[0].n \in Int /\ a.words[n].n \in Int
  BY DataflowAssumption DEF Arrays
<1>3. AliasSet(place, a.groups) \in SUBSET Bits
  BY <1>1, AliasSetType
<1>4. n = 0 => ArrayPredicate(place, a, n) \in Predicates
  BY <1>1, <1>2, <1>3 DEF ArrayPredicate, Predicates
<1>5. n # 0 => ArrayPredicate(place, a, n) \in Predicates
  <2>1. Divisible(ALWAYS_TRUE, a.words[n].n) \in Predicates
    BY <1>2, AlwaysTrueType, DivisibleType
  <2> QED BY <2>1 DEF ArrayPredicate
<1> QED BY <1>4, <1>5

\* Nothing is promised of the items, and every list keeps that.
LEMMA NoItems ==
  ASSUME NEW prg \in Programs, NEW p \in Predicates, NEW val
  PROVE  ListKeeps(prg, OfNumber(p), val)
<1>1. SUFFICES ASSUME NEW l \in Names, NEW n \in Slots
               PROVE  Implied(ArrayPredicate(<< "element", l >>, prg.lists[l].element, n),
                              OfNumber(p).items[n])
  BY DEF ListKeeps
<1>2. << "element", l >> \in Places
  BY DEF Places
<1>3. PICK r \in Predicates : r = ArrayPredicate(<< "element", l >>, prg.lists[l].element, n)
  BY <1>2, ProgramType, ArrayPredicateType
<1>4. r.alias \subseteq Bits /\ r.div \in Int
  BY DEF Predicates
<1>5. ALWAYS_TRUE.alias = Bits /\ ALWAYS_TRUE.div = 1 /\ ALWAYS_TRUE.internal = TRUE
  BY DEF ALWAYS_TRUE, ALIAS_UNIVERSE
<1>6. PassesOn(1, r.div)
  BY <1>4, PassesOne
<1>7. Implied(r, ALWAYS_TRUE)
  BY <1>4, <1>5, <1>6 DEF Implied
<1> QED BY <1>3, <1>7, OfNumberType

\* Of a value that points nowhere only its number matters.
LEMMA NumberKeeps ==
  ASSUME NEW prg \in Programs, NEW d \in Int, NEW val, val.place = Nowhere, PassesOn(d, val.num)
  PROVE  KeepsFacts(prg, OfNumber(Divisible(ALWAYS_TRUE, d)), val)
<1>1. Divisible(ALWAYS_TRUE, d) \in Predicates /\ Divisible(ALWAYS_TRUE, d).div = d
  BY AlwaysTrueType, DivisibleType
<1>2. Keeps(prg, Divisible(ALWAYS_TRUE, d), val)
  BY <1>1 DEF Keeps
<1> QED BY <1>1, <1>2, NoItems, OfNumberType DEF KeepsFacts

LEMMA ConstraintType ==
  ASSUME NEW prg \in Programs, NEW place \in Places
  PROVE  Constraint(prg, place).groups \in SUBSET AliasGroups /\ Constraint(prg, place).internal \in BOOLEAN
<1>1. PICK k \in {"array", "list", "element"}, l \in Names : place = << k, l >>
  BY DEF Places
<1>2. place[1] = k /\ place[2] = l
  BY <1>1
<1>3. Constraint(prg, place) \in Arrays \/ Constraint(prg, place) \in Lists
  BY <1>2, ProgramType DEF Constraint
<1> QED BY <1>3 DEF Arrays, Lists

LEMMA AnythingKeeps ==
  ASSUME NEW prg \in Programs, NEW val \in Values
  PROVE  KeepsFacts(prg, OfNumber(ALWAYS_TRUE), val)
<1>1. val.num \in Int /\ (val.place = Nowhere \/ val.place \in Places)
  BY DEF Values
<1>2. ALWAYS_TRUE.alias = Bits /\ ALWAYS_TRUE.div = 1 /\ ALWAYS_TRUE.internal = TRUE
  BY DEF ALWAYS_TRUE, ALIAS_UNIVERSE
<1>3. Keeps(prg, ALWAYS_TRUE, val)
  BY <1>1, <1>2, PassesOne, ConstraintType, AliasSetType DEF Keeps
<1> QED BY <1>3, AlwaysTrueType, NoItems, OfNumberType DEF KeepsFacts

\* A pointer that is moved or converted points into the same memory.
LEMMA MovedKeeps ==
  ASSUME NEW prg \in Programs, NEW p \in Predicates, NEW old, Keeps(prg, p, old),
         NEW d \in Int, NEW val, val.place = old.place, PassesOn(d, val.num)
  PROVE  KeepsFacts(prg, OfNumber(Divisible(p, d)), val)
<1>1. PICK r : r = Divisible(p, d)
  OBVIOUS
<1>2. r \in Predicates /\ r.div = d /\ r.alias = p.alias /\ r.internal = p.internal
  BY <1>1, DivisibleType
<1>3. Keeps(prg, r, val)
  BY <1>2 DEF Keeps
<1>4. KeepsFacts(prg, OfNumber(r), val)
  BY <1>2, <1>3, NoItems, OfNumberType DEF KeepsFacts
<1> QED BY <1>1, <1>4

\* A word of an array keeps what is registered for it.
LEMMA WordKeeps ==
  ASSUME NEW prg \in Programs, NEW place \in Places, NEW n \in Slots,
         NEW a, a = Constraint(prg, place), a \in Arrays, WellFormed(a.words[n]),
         NEW val \in WordValues(place, a, n)
  PROVE  Keeps(prg, ArrayPredicate(place, a, n), val) /\ val \in Values
<1>1. PICK m \in WordNumbers(a, n) : val = Value(m, IF n = 0 THEN place ELSE Nowhere)
  BY DEF WordValues
<1>2. val.num = m /\ val.place = IF n = 0 THEN place ELSE Nowhere
  BY <1>1 DEF Value
<1>3. PICK d \in Int : d = a.words[n].n
  BY DEF Arrays
<1>4. m \in Int /\ Divides(d, m)
  <2>1. m \in Int
    BY <1>3, DataflowAssumption DEF WordNumbers
  <2>2. CASE a.words[n].static
    <3>1. m = d * 1
      BY <1>3, <2>2 DEF WordNumbers
    <3> QED BY <2>1, <3>1 DEF Divides
  <2>3. CASE ~a.words[n].static
    <3>1. d \in Nat \ {0} /\ m % d = 0
      BY <1>3, <2>3 DEF WordNumbers, WellFormed
    <3> QED BY <2>1, <3>1, DividesMod
  <2> QED BY <2>1, <2>2, <2>3
<1>5. PassesOn(d, m)
  <2>1. ASSUME NEW q \in Powers, Divides(q, d) PROVE Divides(q, m)
    <3>1. q \in Int
      BY PowersAre
    <3> QED BY <1>4, <2>1, <3>1, DividesTrans
  <2> QED BY <2>1 DEF PassesOn
<1>6. PICK r : r = ArrayPredicate(place, a, n)
  OBVIOUS
<1>7. r.div = d /\ (n = 0 => r.alias = AliasSet(place, a.groups) /\ r.internal = a.internal)
  <2>1. n = 0 => r.div = d /\ r.alias = AliasSet(place, a.groups) /\ r.internal = a.internal
    BY <1>3, <1>6 DEF ArrayPredicate
  <2>2. n # 0 => r.div = d
    BY <1>3, <1>6, AlwaysTrueType, DivisibleType DEF ArrayPredicate
  <2> QED BY <2>1, <2>2
<1>8. Keeps(prg, r, val)
  BY <1>2, <1>5, <1>7 DEF Keeps
<1>9. val \in Values
  BY <1>1, <1>4 DEF Value, Values
<1> QED BY <1>6, <1>8, <1>9

\* What a value's predicate keeps, everything implied by it keeps.
LEMMA ImpliedKeeps ==
  ASSUME NEW prg, NEW p, NEW q, Implied(q, p), NEW val, Keeps(prg, q, val)
  PROVE  Keeps(prg, p, val)
<1>1. PassesOn(p.div, val.num)
  BY PassesMore DEF Implied, Keeps
<1> QED BY <1>1 DEF Implied, Keeps

\* What is registered for a parameter.
LEMMA RegisteredType ==
  ASSUME NEW prg \in Programs, NEW v \in DOMAIN prg.params
  PROVE  Registered(prg, v) \in Facts
<1>1. PICK par \in Params : par = prg.params[v]
  BY ProgramType
<1>2. PICK l \in Names, n \in Slots : l = par.of /\ n = par.n
  BY DEF Params
<1>3. /\ << "array", l >> \in Places /\ << "list", l >> \in Places /\ << "element", l >> \in Places
      /\ prg.arrays[l] \in Arrays /\ prg.lists[l] \in Lists /\ prg.lists[l].element \in Arrays
  BY ProgramType DEF Places
<1>4. CASE par.kind = "array"
  <2>1. PICK r \in Predicates : r = ArrayPredicate(<< "array", l >>, prg.arrays[l], n)
    BY <1>3, ArrayPredicateType
  <2>2. Registered(prg, v) = OfNumber(r)
    BY <1>1, <1>2, <1>4, <2>1 DEF Registered
  <2> QED BY <2>2, OfNumberType
<1>5. CASE par.kind = "list"
  <2>1. Registered(prg, v) =
          [own |-> [alias |-> AliasSet(<< "list", l >>, prg.lists[l].groups), div |-> 1,
                    internal |-> prg.lists[l].internal],
           items |-> [k \in Slots |-> ArrayPredicate(<< "element", l >>, prg.lists[l].element, k)]]
    BY <1>1, <1>2, <1>5 DEF Registered
  <2>2. AliasSet(<< "list", l >>, prg.lists[l].groups) \in SUBSET Bits
    BY <1>3, AliasSetType DEF Lists
  <2>3. \A k \in Slots : ArrayPredicate(<< "element", l >>, prg.lists[l].element, k) \in Predicates
    BY <1>3, ArrayPredicateType
  <2>4. prg.lists[l].internal \in BOOLEAN
    BY <1>3 DEF Lists
  <2> QED BY <2>1, <2>2, <2>3, <2>4 DEF Facts, Predicates
<1>6. CASE par.kind = "scalar"
  <2>1. Registered(prg, v) = OfNumber(ALWAYS_TRUE)
    BY <1>1, <1>6 DEF Registered
  <2> QED BY <2>1, AlwaysTrueType, OfNumberType
<1> QED BY <1>4, <1>5, <1>6 DEF Params

\* An argument keeps what is registered for its parameter.
LEMMA ArgumentsKeep ==
  ASSUME NEW prg \in Programs, NEW v \in DOMAIN prg.params, NEW val \in Arguments(prg, v)
  PROVE  KeepsFacts(prg, Registered(prg, v), val) /\ val \in Values
<1>1. PICK par \in Params : par = prg.params[v]
  BY ProgramType
<1>2. par.kind \in {"array", "list", "scalar"} /\ par.of \in Names /\ par.n \in Slots
  BY DEF Params
<1>3. PICK l \in Names, n \in Slots : l = par.of /\ n = par.n
  BY <1>2
<1>4. CASE par.kind = "array"
  <2>1. << "array", l >> \in Places /\ << "array", l >>[1] = "array" /\ << "array", l >>[2] = l
    BY DEF Places
  <2>2. Constraint(prg, << "array", l >>) = prg.arrays[l]
    BY <2>1 DEF Constraint
  <2>3. prg.arrays[l] \in Arrays /\ WellFormed(prg.arrays[l].words[n])
    BY ProgramType, ProgramsAssumption
  <2>4. val \in WordValues(<< "array", l >>, prg.arrays[l], n)
    BY <1>1, <1>3, <1>4 DEF Arguments
  <2>5. PICK r \in Predicates : r = ArrayPredicate(<< "array", l >>, prg.arrays[l], n)
    BY <2>1, <2>3, ArrayPredicateType
  <2>6. Registered(prg, v) = OfNumber(r)
    BY <1>1, <1>3, <1>4, <2>5 DEF Registered
  <2>7. Keeps(prg, r, val) /\ val \in Values
    BY <2>1, <2>2, <2>3, <2>4, <2>5, WordKeeps
  <2> QED BY <2>6, <2>7, NoItems, OfNumberType DEF KeepsFacts
<1>5. CASE par.kind = "list"
  <2>1. /\ << "list", l >> \in Places /\ << "list", l >>[1] = "list" /\ << "list", l >>[2] = l
    BY DEF Places
  <2>2. Constraint(prg, << "list", l >>) = prg.lists[l]
    BY <2>1 DEF Constraint
  <2>3. PICK f : f = Registered(prg, v)
    OBVIOUS
  <2>4. f = [own |-> [alias |-> AliasSet(<< "list", l >>, prg.lists[l].groups), div |-> 1,
                      internal |-> prg.lists[l].internal],
             items |-> [k \in Slots |-> ArrayPredicate(<< "element", l >>, prg.lists[l].element, k)]]
    BY <1>1, <1>3, <1>5, <2>3 DEF Registered
  <2>5. \E m \in Numbers : val = Value(m, << "list", l >>)
    BY <1>1, <1>3, <1>5 DEF Arguments
  <2>6. val.place = << "list", l >> /\ val.num \in Int /\ val \in Values
    BY <2>1, <2>5, DataflowAssumption DEF Value, Values
  <2>7. /\ f.own.alias = AliasSet(<< "list", l >>, prg.lists[l].groups)
        /\ f.own.div = 1 /\ f.own.internal = prg.lists[l].internal
        /\ \A k \in Slots : f.items[k] = ArrayPredicate(<< "element", l >>, prg.lists[l].element, k)
    BY <2>4
  <2>8. Keeps(prg, f.own, val)
    BY <2>2, <2>6, <2>7, PassesOne DEF Keeps
  <2>9. ASSUME NEW m \in Names, val.place = << "list", m >>, NEW k \in Slots
        PROVE  Implied(ArrayPredicate(<< "element", m >>, prg.lists[m].element, k), f.items[k])
    <3>1. m = l
      BY <2>6, <2>9
    <3> QED BY <2>7, <3>1 DEF Implied, PassesOn
  <2> QED BY <2>3, <2>6, <2>8, <2>9 DEF KeepsFacts, ListKeeps
<1>6. CASE par.kind = "scalar"
  <2>1. Registered(prg, v) = OfNumber(ALWAYS_TRUE)
    BY <1>1, <1>6 DEF Registered
  <2>2. \E m \in Numbers : val = Value(m, Nowhere)
    BY <1>1, <1>6 DEF Arguments
  <2>3. val \in Values
    BY <2>2, DataflowAssumption DEF Value, Values
  <2> QED BY <2>1, <2>3, AnythingKeeps, AlwaysTrueType, OfNumberType
<1> QED BY <1>2, <1>4, <1>5, <1>6

LEMMA PromisedType ==
  ASSUME NEW u \in Updates, Meaningful(u), NEW F, F \in [DOMAIN F -> Facts], Operands(u) \subseteq DOMAIN F
  PROVE  Promised(u, F) \in Facts
<1>0. u.k \in {"any", "copy", "assume", "item", "offset", "astype", "const", "arith", "unary"}
      /\ u.n \in Int /\ u.half \in Nat \ {0}
  BY DEF Updates
<1>1. CASE u.k \in {"any", "const"}
  <2>1. Abs(u.n) \in Int
    BY <1>0 DEF Abs
  <2>2. OfNumber(ALWAYS_TRUE) \in Facts /\ OfNumber(Divisible(ALWAYS_TRUE, Abs(u.n))) \in Facts
    BY <2>1, AlwaysTrueType, DivisibleType, OfNumberType
  <2> QED BY <1>1, <2>2 DEF Promised
<1>2. CASE u.k \notin {"any", "const"}
  <2>0. PICK f \in Facts : f = F[u.x]
    BY <1>2 DEF Operands
  <2>1. PICK p \in Predicates, a \in Int : p = f.own /\ a = p.div
    BY DEF Facts, Predicates
  <2>2. CASE u.k = "copy"
    BY <2>0, <2>2 DEF Promised
  <2>3. CASE u.k = "assume"
    <3>1. Divisible(p, u.n) \in Predicates
      BY <1>0, DivisibleType
    <3>2. Promised(u, F) = [own |-> Divisible(p, u.n), items |-> f.items]
      BY <2>0, <2>1, <2>3 DEF Promised
    <3> QED BY <3>1, <3>2 DEF Facts
  <2>4. CASE u.k = "item"
    <3>1. u.n \in Slots
      BY <2>4 DEF Meaningful
    <3>2. PICK q \in Predicates : q = f.items[u.n]
      BY <3>1 DEF Facts
    <3>3. Promised(u, F) = OfNumber(q)
      BY <2>0, <2>4, <3>2 DEF Promised
    <3> QED BY <3>3, OfNumberType
  <2>5. CASE u.k = "astype"
    <3>1. AsTypeDivisor(u, a) \in Int
      <4>1. PICK h \in Int : h = 2 * u.half
        BY <1>0
      <4>2. gcd(a, h) \in Nat
        BY GcdDivides
      <4> QED BY <4>1, <4>2 DEF AsTypeDivisor
    <3>2. Promised(u, F) = OfNumber(Divisible(p, AsTypeDivisor(u, a)))
      BY <2>0, <2>1, <2>5 DEF Promised
    <3> QED BY <3>1, <3>2, DivisibleType, OfNumberType
  <2>6. CASE u.k = "unary"
    <3>1. UnaryDivisor(u, a) \in Int
      BY DEF UnaryDivisor
    <3>2. Promised(u, F) = OfNumber(Divisible(ALWAYS_TRUE, UnaryDivisor(u, a)))
      BY <2>0, <2>1, <2>6 DEF Promised
    <3> QED BY <3>1, <3>2, AlwaysTrueType, DivisibleType, OfNumberType
  <2>7. CASE u.k \in {"offset", "arith"}
    <3>0. PICK g \in Facts : g = F[u.y]
      BY <2>7 DEF Operands
    <3>1. PICK b \in Int : b = g.own.div
      BY DEF Facts, Predicates
    <3>2. CASE u.k = "offset"
      <4>1. PICK c \in Int : c = IF u.n > 0 THEN b * u.n ELSE 1
        BY <1>0
      <4>2. gcd(a, c) \in Nat
        BY GcdDivides
      <4>3. OffsetDivisor(u, a, b) \in Int
        BY <4>1, <4>2 DEF OffsetDivisor
      <4>4. Promised(u, F) = OfNumber(Divisible(p, OffsetDivisor(u, a, b)))
        BY <2>0, <2>1, <3>0, <3>1, <3>2 DEF Promised
      <4> QED BY <4>3, <4>4, DivisibleType, OfNumberType
    <3>3. CASE u.k = "arith"
      <4>1. gcd(a, b) \in Nat /\ a * b \in Int
        BY GcdDivides
      <4>2. BinaryDivisor(u, a, b) \in Int
        BY <4>1 DEF BinaryDivisor
      <4>3. Promised(u, F) = OfNumber(Divisible(ALWAYS_TRUE, BinaryDivisor(u, a, b)))
        BY <2>0, <2>1, <3>0, <3>1, <3>3 DEF Promised
      <4> QED BY <4>2, <4>3, AlwaysTrueType, DivisibleType, OfNumberType
    <3> QED BY <2>7, <3>2, <3>3
  <2> QED BY <1>0, <1>2, <2>2, <2>3, <2>4, <2>5, <2>6, <2>7
<1> QED BY <1>1, <1>2

\* The numbers of arithmetic keep what is computed of the divisors.
LEMMA PassesSum ==
  ASSUME NEW a \in Int, NEW b \in Int, NEW x \in Int, NEW y \in Int, PassesOn(a, x), PassesOn(b, y)
  PROVE  PassesOn(gcd(a, b), x + y) /\ PassesOn(gcd(a, b), x - y)
<1>1. PassesOn(gcd(a, b), x) /\ PassesOn(gcd(a, b), y)
  BY GcdPasses
<1>2. ASSUME NEW q \in Powers, Divides(q, gcd(a, b)) PROVE Divides(q, x + y) /\ Divides(q, x - y)
  <2>1. q \in Int /\ Divides(q, x) /\ Divides(q, y)
    BY <1>1, <1>2, PowersAre DEF PassesOn
  <2> QED BY <2>1, DividesSum
<1> QED BY <1>2 DEF PassesOn

LEMMA PassesSign ==
  ASSUME NEW a \in Int, NEW x \in Int, PassesOn(a, x)
  PROVE  PassesOn(a, -x) /\ PassesOn(a, Abs(x))
<1>1. ASSUME NEW q \in Powers, Divides(q, a) PROVE Divides(q, -x)
  <2>1. q \in Int /\ Divides(q, x)
    BY <1>1, PowersAre DEF PassesOn
  <2> QED BY <2>1, DividesSum
<1>2. Abs(x) = x \/ Abs(x) = -x
  BY DEF Abs
<1> QED BY <1>1, <1>2 DEF PassesOn

LEMMA ComputedPasses ==
  ASSUME NEW u \in Updates, Meaningful(u), NEW a \in Int, NEW b \in Int, NEW x \in Int, NEW y \in Int,
         PassesOn(a, x), PassesOn(b, y), NEW m \in Computed(u, x, y)
  PROVE  /\ m \in Int
         /\ u.k = "arith" => PassesOn(BinaryDivisor(u, a, b), m)
         /\ u.k = "unary" => PassesOn(UnaryDivisor(u, a), m)
<1>1. CASE ~(u.integral /\ u.fn \in {"add", "sub", "mul", "neg", "abs"})
  <2>1. m \in Int
    BY <1>1, DataflowAssumption DEF Computed
  <2>2. PassesOn(1, m)
    BY <2>1, PassesOne
  <2>3. BinaryDivisor(u, a, b) = 1 /\ UnaryDivisor(u, a) = 1
    BY <1>1 DEF BinaryDivisor, UnaryDivisor
  <2> QED BY <2>1, <2>2, <2>3
<1>2. CASE u.integral /\ u.fn \in {"add", "sub", "mul", "neg", "abs"}
  <2>1. PICK r : r = Exact(u.fn, x, y)
    OBVIOUS
  <2>2. /\ r \in Int
        /\ u.fn = "add" => r = x + y
        /\ u.fn = "sub" => r = x - y
        /\ u.fn = "mul" => r = x * y
        /\ u.fn = "neg" => r = -x
        /\ u.fn = "abs" => r = Abs(x)
    BY <1>2, <2>1 DEF Exact, Abs
  <2>3. PassesOn(BinaryDivisor(u, a, b), r) \/ u.fn \in {"neg", "abs"}
    <3>1. u.fn = "add" => PassesOn(BinaryDivisor(u, a, b), r)
      BY <1>2, <2>2, PassesSum DEF BinaryDivisor
    <3>2. u.fn = "sub" => PassesOn(BinaryDivisor(u, a, b), r)
      BY <1>2, <2>2, PassesSum DEF BinaryDivisor
    <3>3. u.fn = "mul" => PassesOn(BinaryDivisor(u, a, b), r)
      BY <1>2, <2>2, PassesProduct DEF BinaryDivisor
    <3> QED BY <1>2, <3>1, <3>2, <3>3
  <2>4. PassesOn(UnaryDivisor(u, a), r) \/ u.fn \in {"add", "sub", "mul"}
    BY <1>2, <2>2, PassesSign DEF UnaryDivisor
  <2>5. u.k \in {"arith", "unary"} => m \in Int /\ PassesOn(r, m)
    <3>1. SUFFICES ASSUME u.k \in {"arith", "unary"} PROVE m \in Int /\ PassesOn(r, m)
      OBVIOUS
    <3>2. PICK h \in Nat \ {0} : h = u.half
      BY DEF Updates
    <3>3. IsPower(2 * h)
      BY <3>1, <3>2 DEF Meaningful
    <3>4. m \in Wrapped(r, h)
      BY <1>2, <2>1, <3>2 DEF Computed
    <3> QED BY <2>2, <3>3, <3>4, WrapPasses
  <2>6. u.k = "arith" /\ u.fn \in {"neg", "abs"} => PassesOn(BinaryDivisor(u, a, b), m)
    <3>1. u.fn \in {"neg", "abs"} => BinaryDivisor(u, a, b) = 1
      BY DEF BinaryDivisor
    <3> QED BY <2>5, <3>1, PassesOne
  <2>7. u.k = "unary" /\ u.fn \in {"add", "sub", "mul"} => PassesOn(UnaryDivisor(u, a), m)
    <3>1. u.fn \in {"add", "sub", "mul"} => UnaryDivisor(u, a) = 1
      BY DEF UnaryDivisor
    <3> QED BY <2>5, <3>1, PassesOne
  <2>8. m \in Int
    <3>1. PICK h \in Int : h = u.half /\ h > 0
      BY DEF Updates
    <3>2. m \in Wrapped(r, h)
      BY <1>2, <2>1, <3>1 DEF Computed
    <3> QED BY <2>2, <3>1, <3>2 DEF Wrapped
  <2> QED BY <2>3, <2>4, <2>5, <2>6, <2>7, <2>8, PassesMore
<1> QED BY <1>1, <1>2

LEMMA OffsetPasses ==
  ASSUME NEW u \in Updates, Meaningful(u), u.k = "offset", NEW a \in Int, NEW b \in Int,
         NEW x \in Int, NEW y \in Int, PassesOn(a, x), PassesOn(b, y),
         NEW m \in IF u.n > 0 THEN Wrapped(x + y * u.n, u.half) ELSE Numbers
  PROVE  m \in Int /\ PassesOn(OffsetDivisor(u, a, b), m)
<1>0. PICK n \in Nat, half \in Nat \ {0} : n = u.n /\ half = u.half
  BY DEF Updates, Meaningful
<1>1. CASE n = 0
  <2>0. m \in Numbers
    <3>1. ~(u.n > 0)
      BY <1>0, <1>1
    <3> QED BY <3>1
  <2>1. m \in Int
    BY <2>0, DataflowAssumption
  <2>2. OffsetDivisor(u, a, b) = gcd(a, 1) \/ OffsetDivisor(u, a, b) = 1
    BY <1>0, <1>1 DEF OffsetDivisor
  <2>3. PassesOn(1, m)
    BY <2>1, PassesOne
  <2>4. PassesOn(gcd(a, 1), m)
    BY <2>3, GcdPasses
  <2> QED BY <2>1, <2>2, <2>3, <2>4
<1>2. CASE n > 0
  <2>1. PICK z \in Int, c \in Int, r \in Int : z = y * n /\ c = b * n /\ r = x + z
    BY <1>0
  <2>2. m \in Wrapped(r, half)
    BY <1>0, <1>2, <2>1
  <2>3. IsPower(2 * half)
    BY <1>0 DEF Meaningful
  <2>4. m \in Int /\ PassesOn(r, m)
    BY <2>2, <2>3, WrapPasses
  <2>5. PassesOn(n, n)
    BY DEF PassesOn
  <2>6. PassesOn(c, z)
    BY <2>1, <2>5, PassesProduct
  <2>7. PassesOn(gcd(a, c), r)
    BY <2>1, <2>6, PassesSum
  <2>8. PassesOn(gcd(a, c), m)
    BY <2>4, <2>7, PassesMore
  <2>9. OffsetDivisor(u, a, b) = gcd(a, c) \/ OffsetDivisor(u, a, b) = 1
    BY <1>0, <1>2, <2>1 DEF OffsetDivisor
  <2> QED BY <2>4, <2>8, <2>9, PassesOne
<1> QED BY <1>0, <1>1, <1>2

\* If the operands of an update keep the facts, its results keep what the
\* update promises.
LEMMA ResultsKeep ==
  ASSUME NEW prg \in Programs, NEW i \in DOMAIN prg.flow, NEW u, u = prg.flow[i], u.k # "copy",
         NEW F, F \in [DOMAIN F -> Facts], NEW e, e \in [DOMAIN e -> Values],
         Operands(u) \subseteq DOMAIN e, \A v \in DOMAIN e : v \in DOMAIN F /\ KeepsFacts(prg, F[v], e[v]),
         NEW val \in Results(prg, u, e)
  PROVE  KeepsFacts(prg, Promised(u, F), val) /\ val \in Values
<1>0. /\ u \in Updates /\ Meaningful(u)
      /\ u.k \in {"any", "assume", "item", "offset", "astype", "const", "arith", "unary"}
  BY ProgramType DEF Updates
<1>1. CASE u.k = "any"
  <2>1. val \in Values
    BY <1>1, DataflowAssumption DEF Results, Values
  <2>2. Promised(u, F) = OfNumber(ALWAYS_TRUE)
    BY <1>1 DEF Promised
  <2> QED BY <2>1, <2>2, AnythingKeeps
<1>2. CASE u.k = "const"
  <2>1. PICK n \in Int, d \in Int : n = u.n /\ d = Abs(n)
    BY <1>0 DEF Updates, Abs
  <2>2. val = Value(n, Nowhere)
    BY <1>2, <2>1 DEF Results
  <2>3. val.num = n /\ val.place = Nowhere /\ val \in Values
    BY <2>2 DEF Value, Values
  <2>4. PassesOn(d, n)
    <3>1. PassesOn(d, d)
      BY DEF PassesOn
    <3>2. n = d \/ n = -d
      BY <2>1 DEF Abs
    <3> QED BY <3>1, <3>2, PassesSign
  <2>5. Promised(u, F) = OfNumber(Divisible(ALWAYS_TRUE, d))
    BY <1>2, <2>1 DEF Promised
  <2> QED BY <2>3, <2>4, <2>5, NumberKeeps
<1>3. CASE u.k \notin {"any", "const"}
  <2>0. PICK x \in Values, f \in Facts : x = e[u.x] /\ f = F[u.x] /\ KeepsFacts(prg, f, x)
    BY <1>3 DEF Operands
  <2>1. PICK p \in Predicates, a \in Int : p = f.own /\ a = p.div
    BY DEF Facts, Predicates
  <2>2. x.num \in Int /\ x.place \in Places \cup {Nowhere} /\ PassesOn(a, x.num) /\ Keeps(prg, p, x)
    BY <2>0, <2>1 DEF Values, KeepsFacts, Keeps
  <2>3. CASE u.k = "assume"
    <3>1. val = x /\ x.num % u.n = 0
      BY <2>0, <2>3 DEF Results
    <3>2. PICK n \in Nat \ {0} : n = u.n
      BY <1>0, <2>3 DEF Meaningful, Updates
    <3>3. Divides(n, x.num)
      BY <2>2, <3>1, <3>2, DividesMod
    <3>4. ASSUME NEW q \in Powers, Divides(q, n) PROVE Divides(q, x.num)
      <4>1. q \in Int
        BY PowersAre
      <4> QED BY <2>2, <3>3, <3>4, <4>1, DividesTrans
    <3>5. PassesOn(n, x.num)
      BY <3>4 DEF PassesOn
    <3>6. PICK r : r = Divisible(p, n)
      OBVIOUS
    <3>7. r.div = n /\ r.alias = p.alias /\ r.internal = p.internal
      BY <3>6, DivisibleType
    <3>8. Keeps(prg, r, x)
      BY <2>2, <3>5, <3>7 DEF Keeps
    <3>9. PICK g : g = [own |-> r, items |-> f.items]
      OBVIOUS
    <3>10. g.own = r /\ g.items = f.items
      BY <3>9
    <3>11. KeepsFacts(prg, g, x)
      BY <2>0, <3>8, <3>10 DEF KeepsFacts, ListKeeps
    <3>12. Promised(u, F) = g
      BY <2>0, <2>1, <2>3, <3>2, <3>6, <3>9 DEF Promised
    <3> QED BY <3>1, <3>11, <3>12
  <2>4. CASE u.k = "item"
    <3>1. /\ x.place[1] = "list"
          /\ val \in WordValues(<< "element", x.place[2] >>, prg.lists[x.place[2]].element, u.n)
      BY <2>0, <2>4 DEF Results
    <3>2. PICK k \in {"array", "list", "element"}, l \in Names : x.place = << k, l >>
      BY <2>2, <3>1, NowhereIsNoPlace DEF Places
    <3>3. k = "list" /\ x.place[2] = l
      BY <3>1, <3>2
    <3>4. PICK n \in Slots : n = u.n
      BY <1>0, <2>4 DEF Meaningful
    <3>5. /\ << "element", l >> \in Places
          /\ << "element", l >>[1] = "element" /\ << "element", l >>[2] = l
      BY DEF Places
    <3>6. PICK arr \in Arrays : arr = prg.lists[l].element
      BY ProgramType
    <3>7. arr = Constraint(prg, << "element", l >>)
      BY <3>5, <3>6 DEF Constraint
    <3>8. WellFormed(arr.words[n])
      BY <3>6, ProgramsAssumption
    <3>9. val \in WordValues(<< "element", l >>, arr, n)
      BY <3>1, <3>3, <3>4, <3>6
    <3>10. Keeps(prg, ArrayPredicate(<< "element", l >>, arr, n), val) /\ val \in Values
      BY <3>5, <3>7, <3>8, <3>9, WordKeeps
    <3>11. PICK q \in Predicates : q = f.items[n]
      BY DEF Facts
    <3>12. Implied(ArrayPredicate(<< "element", l >>, arr, n), q)
      BY <2>0, <3>2, <3>3, <3>6, <3>11 DEF KeepsFacts, ListKeeps
    <3>13. Keeps(prg, q, val)
      BY <3>10, <3>12, ImpliedKeeps
    <3>14. Promised(u, F) = OfNumber(q)
      BY <2>0, <2>4, <3>4, <3>11 DEF Promised
    <3> QED BY <3>10, <3>13, <3>14, NoItems, OfNumberType DEF KeepsFacts
  <2>5. CASE u.k = "astype"
    <3>1. PICK half \in Nat \ {0} : half = u.half
      BY <1>0 DEF Updates
    <3>2. PICK m \in IF u.integral THEN Wrapped(x.num, half) ELSE Numbers : val = Value(m, x.place)
      BY <2>0, <2>5, <3>1 DEF Results
    <3>3. IsPower(2 * half)
      BY <1>0, <2>5, <3>1 DEF Meaningful
    <3>4. PICK h \in Int : h = 2 * half
      OBVIOUS
    <3>5. m \in Int /\ (u.integral => PassesOn(gcd(a, h), m))
      <4>1. u.integral => m \in Int /\ PassesOn(x.num, m)
        BY <2>2, <3>2, <3>3, WrapPasses
      <4>2. ~u.integral => m \in Int
        BY <3>2, DataflowAssumption
      <4>3. PassesOn(gcd(a, h), x.num)
        BY <2>2, GcdPasses
      <4> QED BY <4>1, <4>2, <4>3, PassesMore
    <3>6. PICK d \in Int : d = AsTypeDivisor(u, a)
      <4>1. gcd(a, h) \in Nat
        BY GcdDivides
      <4> QED BY <3>1, <3>4, <4>1 DEF AsTypeDivisor
    <3>7. PassesOn(d, m)
      BY <3>1, <3>4, <3>5, <3>6, PassesOne DEF AsTypeDivisor
    <3>8. val.num = m /\ val.place = x.place /\ val \in Values
      BY <2>2, <3>2, <3>5 DEF Value, Values
    <3>9. Promised(u, F) = OfNumber(Divisible(p, d))
      BY <2>0, <2>1, <2>5, <3>6 DEF Promised
    <3> QED BY <2>2, <3>7, <3>8, <3>9, MovedKeeps
  <2>6. CASE u.k = "unary"
    <3>1. PICK m \in Computed(u, x.num, 0) : val = Value(m, Nowhere)
      BY <2>0, <2>6 DEF Results
    <3>2. PassesOn(1, 0)
      BY PassesOne
    <3>3. PICK d \in Int : d = UnaryDivisor(u, a)
      BY DEF UnaryDivisor
    <3>4. m \in Int /\ PassesOn(d, m)
      <4>1. PICK one \in Int, zero \in Int, s \in Int : one = 1 /\ zero = 0 /\ s = x.num
        BY <2>2
      <4>2. m \in Computed(u, s, zero) /\ PassesOn(a, s) /\ PassesOn(one, zero)
        BY <2>2, <3>1, <3>2, <4>1
      <4> QED BY <1>0, <2>6, <3>3, <4>2, ComputedPasses
    <3>5. val.num = m /\ val.place = Nowhere /\ val \in Values
      BY <3>1, <3>4 DEF Value, Values
    <3>6. Promised(u, F) = OfNumber(Divisible(ALWAYS_TRUE, d))
      BY <2>0, <2>1, <2>6, <3>3 DEF Promised
    <3> QED BY <3>4, <3>5, <3>6, NumberKeeps
  <2>7. CASE u.k \in {"offset", "arith"}
    <3>0. PICK y \in Values, g \in Facts : y = e[u.y] /\ g = F[u.y] /\ KeepsFacts(prg, g, y)
      BY <2>7 DEF Operands
    <3>1. PICK b \in Int : b = g.own.div
      BY DEF Facts, Predicates
    <3>2. y.num \in Int /\ PassesOn(b, y.num)
      BY <3>0, <3>1 DEF Values, KeepsFacts, Keeps
    <3>3. CASE u.k = "offset"
      <4>1. PICK m \in IF u.n > 0 THEN Wrapped(x.num + y.num * u.n, u.half) ELSE Numbers : val = Value(m, x.place)
        BY <2>0, <3>0, <3>3 DEF Results
      <4>2. m \in Int /\ PassesOn(OffsetDivisor(u, a, b), m)
        BY <1>0, <2>2, <3>2, <3>3, <4>1, OffsetPasses
      <4>3. PICK c \in Int : c = IF u.n > 0 THEN b * u.n ELSE 1
        BY <1>0 DEF Updates
      <4>4. gcd(a, c) \in Nat
        BY GcdDivides
      <4>5. PICK d \in Int : d = OffsetDivisor(u, a, b)
        BY <4>3, <4>4 DEF OffsetDivisor
      <4>6. val.num = m /\ val.place = x.place /\ val \in Values
        BY <2>2, <4>1, <4>2 DEF Value, Values
      <4>7. Promised(u, F) = OfNumber(Divisible(p, d))
        BY <2>0, <2>1, <3>0, <3>1, <3>3, <4>5 DEF Promised
      <4> QED BY <2>2, <4>2, <4>5, <4>6, <4>7, MovedKeeps
    <3>4. CASE u.k = "arith"
      <4>1. PICK m \in Computed(u, x.num, y.num) : val = Value(m, Nowhere)
        BY <2>0, <3>0, <3>4 DEF Results
      <4>2. gcd(a, b) \in Nat /\ a * b \in Int
        BY GcdDivides
      <4>3. PICK d \in Int : d = BinaryDivisor(u, a, b)
        BY <4>2 DEF BinaryDivisor
      <4>4. m \in Int /\ PassesOn(d, m)
        BY <1>0, <2>2, <3>2, <3>4, <4>1, <4>3, ComputedPasses
      <4>5. val.num = m /\ val.place = Nowhere /\ val \in Values
        BY <4>1, <4>4 DEF Value, Values
      <4>6. Promised(u, F) = OfNumber(Divisible(ALWAYS_TRUE, d))
        BY <2>0, <2>1, <3>0, <3>1, <3>4, <4>3 DEF Promised
      <4> QED BY <4>4, <4>5, <4>6, NumberKeeps
    <3> QED BY <2>7, <3>3, <3>4
  <2> QED BY <1>0, <1>3, <2>3, <2>4, <2>5, <2>6, <2>7
<1> QED BY <1>1, <1>2, <1>3

-----------------------------------------------------------------------------
(* The invariant. *)

\* What the walk has passed has a fact.
Seen == \A j \in 1 .. pc - 1 : program.flow[j].dst \in DOMAIN facts

\* While a walk has changed nothing, each update it has passed is settled: it
\* would change nothing now.
Settled ==
  ~dirty => \A j \in 1 .. pc - 1 :
    LET u == program.flow[j] IN Updated(facts, u.dst, Promised(u, facts)) = facts

ArgumentsSound ==
  \A v \in DOMAIN program.params :
    v \in DOMAIN facts /\ \A val \in Arguments(program, v) : KeepsFacts(program, facts[v], val)

ValuesSound ==
  /\ stage = "walk" => DOMAIN env = {}
  /\ \A v \in DOMAIN env : v \in DOMAIN facts /\ KeepsFacts(program, facts[v], env[v])

IndInv == TypeOK /\ Seen /\ Settled /\ FixpointReached /\ ArgumentsSound /\ ValuesSound

LEMMA UpdatedType ==
  ASSUME NEW F, F \in [DOMAIN F -> Facts], NEW v, NEW new \in Facts
  PROVE  /\ Updated(F, v, new) \in [DOMAIN F \cup {v} -> Facts]
         /\ \A w \in DOMAIN F : \/ Updated(F, v, new)[w] = F[w]
                               \/ Updated(F, v, new)[w] = UnifyFacts(F[w], new)
<1>1. ASSUME NEW w \in DOMAIN F PROVE F[w] \in Facts /\ UnifyFacts(F[w], new) \in Facts
  BY UnifyFactsType
<1>2. PICK G : G = Updated(F, v, new)
  OBVIOUS
<1>3. G = [w \in DOMAIN F \cup {v} |->
             IF w # v THEN F[w] ELSE IF v \in DOMAIN F THEN UnifyFacts(F[v], new) ELSE new]
  BY <1>2 DEF Updated
<1>4. G \in [DOMAIN F \cup {v} -> Facts]
  BY <1>1, <1>3
<1>5. \A w \in DOMAIN F : G[w] = F[w] \/ G[w] = UnifyFacts(F[w], new)
  BY <1>3
<1> QED BY <1>2, <1>4, <1>5

LEMMA UpdatedAt ==
  ASSUME NEW F, NEW v, NEW new, NEW w \in DOMAIN F
  PROVE  Updated(F, v, new)[w] = IF w = v THEN UnifyFacts(F[w], new) ELSE F[w]
BY DEF Updated

LEMMA TypesUnfold ==
  ASSUME TypeOK
  PROVE  /\ program \in Programs /\ pc \in 1 .. Len(program.flow) + 1 /\ Len(program.flow) \in Nat
         /\ DOMAIN program.flow = 1 .. Len(program.flow)
         /\ facts \in [DOMAIN facts -> Facts] /\ DOMAIN facts \subseteq Vars
         /\ env \in [DOMAIN env -> Values] /\ DOMAIN env \subseteq Vars
         /\ dirty \in BOOLEAN /\ stage \in {"walk", "run"}
BY ProgramType DEF TypeOK, Values

LEMMA InitInd == Init => IndInv
<1> SUFFICES ASSUME Init PROVE IndInv
  OBVIOUS
<1>1. program \in Programs /\ pc = 1 /\ stage = "walk" /\ dirty \in BOOLEAN
  BY DEF Init
<1>2. facts = [v \in DOMAIN program.params |-> Registered(program, v)]
  BY DEF Init
<1>3. env = << >> /\ DOMAIN env = {}
  BY DEF Init
<1>4. ASSUME NEW v \in DOMAIN program.params PROVE Registered(program, v) \in Facts /\ v \in Vars
  BY <1>1, RegisteredType, ProgramType
<1>5. TypeOK
  <2>1. facts \in [DOMAIN facts -> Facts] /\ DOMAIN facts \subseteq Vars
    BY <1>2, <1>4
  <2>2. env \in [DOMAIN env -> Values] /\ DOMAIN env \subseteq Vars
    BY <1>3
  <2>3. pc \in 1 .. Len(program.flow) + 1
    BY <1>1, ProgramType
  <2> QED BY <1>1, <2>1, <2>2, <2>3 DEF TypeOK, Values
<1>6. ArgumentsSound
  BY <1>1, <1>2, ArgumentsKeep DEF ArgumentsSound
<1>7. 1 .. pc - 1 = {}
  BY <1>1
<1> QED BY <1>1, <1>3, <1>5, <1>6, <1>7 DEF IndInv, Seen, Settled, FixpointReached, ValuesSound

\* The operands of the update at which the walk is have facts.
LEMMA OperandsKnown ==
  ASSUME IndInv, pc <= Len(program.flow)
  PROVE  Operands(program.flow[pc]) \subseteq DOMAIN facts
<1>1. PICK i \in DOMAIN program.flow : i = pc
  BY TypesUnfold DEF IndInv
<1>2. ASSUME NEW v \in Operands(program.flow[i]) PROVE v \in DOMAIN facts
  <2>1. v \in DOMAIN program.params \/ \E j \in 1 .. i - 1 : program.flow[j].dst = v
    BY <1>2, TypesUnfold, ProgramsAssumption DEF IndInv
  <2> QED BY <1>1, <2>1 DEF IndInv, Seen, ArgumentsSound
<1> QED BY <1>1, <1>2

LEMMA VisitInd ==
  ASSUME IndInv, Visit
  PROVE  IndInv'
<1>0. PICK u, new : u = program.flow[pc] /\ new = Updated(facts, u.dst, Promised(u, facts))
  OBVIOUS
<1>1. /\ stage = "walk" /\ pc <= Len(program.flow) /\ facts' = new
      /\ dirty' = (dirty \/ new # facts) /\ pc' = pc + 1
      /\ stage' = stage /\ program' = program /\ env' = env
  BY <1>0 DEF Visit
<1>2. TypeOK
  BY DEF IndInv
<1>3. pc \in DOMAIN program.flow /\ pc \in Nat
  BY <1>1, <1>2, TypesUnfold
<1>4. u \in Updates /\ Meaningful(u) /\ u.dst \in Vars
  BY <1>0, <1>2, <1>3, TypesUnfold, ProgramType DEF Updates
<1>5. PICK f \in Facts : f = Promised(u, facts)
  <2>1. Operands(u) \subseteq DOMAIN facts
    BY <1>0, <1>1, OperandsKnown
  <2> QED BY <1>2, <1>4, <2>1, TypesUnfold, PromisedType
<1>6. /\ new \in [DOMAIN facts \cup {u.dst} -> Facts]
      /\ \A w \in DOMAIN facts : new[w] = facts[w] \/ new[w] = UnifyFacts(facts[w], f)
  <2>1. PICK F : F = facts
    OBVIOUS
  <2>2. PICK d : d = u.dst
    OBVIOUS
  <2>3. F \in [DOMAIN F -> Facts]
    BY <1>2, <2>1, TypesUnfold
  <2>4. new = Updated(F, d, f)
    BY <1>0, <1>5, <2>1, <2>2
  <2>5. /\ Updated(F, d, f) \in [DOMAIN F \cup {d} -> Facts]
        /\ \A w \in DOMAIN F : \/ Updated(F, d, f)[w] = F[w]
                              \/ Updated(F, d, f)[w] = UnifyFacts(F[w], f)
    BY ONLY <2>3, f \in Facts, UpdatedType
  <2>6. /\ new \in [DOMAIN F \cup {d} -> Facts]
        /\ \A w \in DOMAIN F : new[w] = F[w] \/ new[w] = UnifyFacts(F[w], f)
    BY <2>4, <2>5
  <2> QED BY <2>1, <2>2, <2>6
<1>7. TypeOK'
  <2>1. DOMAIN new = DOMAIN facts \cup {u.dst}
    BY <1>6
  <2>2. pc' \in 1 .. Len(program.flow) + 1
    BY <1>1, <1>2, TypesUnfold
  <2>3. dirty' \in BOOLEAN
    BY <1>1, <1>2, TypesUnfold
  <2> QED BY <1>1, <1>2, <1>4, <1>6, <2>1, <2>2, <2>3 DEF TypeOK
<1>8. Seen'
  <2>1. \A j \in 1 .. pc' - 1 : j \in 1 .. pc - 1 \/ j = pc
    BY <1>1, <1>3
  <2>2. DOMAIN facts' = DOMAIN facts \cup {u.dst}
    BY <1>1, <1>6
  <2> QED BY <1>0, <1>1, <2>1, <2>2 DEF IndInv, Seen
<1>9. Settled'
  <2>1. SUFFICES ASSUME ~dirty', NEW j \in 1 .. pc' - 1
                 PROVE  Updated(facts', program'.flow[j].dst, Promised(program'.flow[j], facts')) = facts'
    BY DEF Settled
  <2>2. ~dirty /\ new = facts
    BY <1>1, <2>1
  <2>3. j \in 1 .. pc - 1 \/ j = pc
    BY <1>1, <1>3, <2>1
  <2>4. CASE j \in 1 .. pc - 1
    BY <1>1, <2>2, <2>4 DEF IndInv, Settled
  <2>5. CASE j = pc
    BY <1>0, <1>1, <2>2, <2>5
  <2> QED BY <2>3, <2>4, <2>5
<1>10. FixpointReached'
  BY <1>1 DEF FixpointReached
<1>11. ArgumentsSound'
  <2>1. ASSUME NEW v \in DOMAIN program.params, NEW val \in Arguments(program, v)
        PROVE  v \in DOMAIN new /\ KeepsFacts(program, new[v], val)
    <3>1. v \in DOMAIN facts /\ KeepsFacts(program, facts[v], val)
      BY DEF IndInv, ArgumentsSound
    <3>2. facts[v] \in Facts
      BY <1>2, <3>1, TypesUnfold
    <3> QED BY <1>5, <1>6, <3>1, <3>2, UnifyKeepsFacts
  <2>2. ASSUME NEW v \in DOMAIN program.params PROVE v \in DOMAIN new
    BY <1>6 DEF IndInv, ArgumentsSound
  <2> QED BY <1>1, <2>1, <2>2 DEF ArgumentsSound
<1>12. ValuesSound'
  BY <1>1 DEF IndInv, ValuesSound
<1> QED BY <1>7, <1>8, <1>9, <1>10, <1>11, <1>12 DEF IndInv

LEMMA WalkAgainInd ==
  ASSUME IndInv, WalkAgain
  PROVE  IndInv'
<1>1. /\ stage = "walk" /\ dirty' = FALSE /\ pc' = 1
      /\ stage' = stage /\ program' = program /\ facts' = facts /\ env' = env
  BY DEF WalkAgain
<1>2. TypeOK'
  <2>1. Len(program.flow) \in Nat
    BY TypesUnfold DEF IndInv
  <2>2. pc' \in 1 .. Len(program.flow) + 1
    BY <1>1, <2>1
  <2> QED BY <1>1, <2>2 DEF IndInv, TypeOK
<1>3. 1 .. pc' - 1 = {}
  BY <1>1
<1>4. Seen' /\ Settled' /\ FixpointReached'
  BY <1>1, <1>3 DEF Seen, Settled, FixpointReached
<1> QED BY <1>1, <1>2, <1>4 DEF IndInv, ArgumentsSound, ValuesSound

LEMMA StopInd ==
  ASSUME IndInv, Stop
  PROVE  IndInv'
<1>1. /\ stage = "walk" /\ stage' = "run" /\ pc > Len(program.flow) /\ ~dirty
      /\ program' = program /\ facts' = facts /\ env' = env /\ dirty' = dirty /\ pc' = pc
  BY DEF Stop
<1>2. TypeOK'
  BY <1>1 DEF IndInv, TypeOK
<1>3. FixpointReached'
  <2>1. ASSUME NEW u \in Flow PROVE Updated(facts, u.dst, Promised(u, facts)) = facts
    <3>1. PICK j \in DOMAIN program.flow : u = program.flow[j]
      BY DEF Flow
    <3>2. j \in 1 .. pc - 1
      BY <1>1, TypesUnfold DEF IndInv
    <3> QED BY <1>1, <3>1, <3>2 DEF IndInv, Settled
  <2>2. Flow' = Flow
    BY <1>1 DEF Flow
  <2> QED BY <1>1, <2>1, <2>2 DEF FixpointReached
<1>4. DOMAIN env' = {}
  BY <1>1 DEF IndInv, ValuesSound
<1> QED BY <1>1, <1>2, <1>3, <1>4 DEF IndInv, Seen, Settled, ArgumentsSound, ValuesSound

\* A variable gets a value that keeps its facts.
LEMMA AssignInd ==
  ASSUME IndInv, stage = "run", UNCHANGED << stage, program, facts, dirty, pc >>,
         NEW e, env' = e, e \in [DOMAIN e -> Values], DOMAIN e \subseteq Vars,
         \A v \in DOMAIN e : v \in DOMAIN facts /\ KeepsFacts(program, facts[v], e[v])
  PROVE  IndInv'
<1>1. stage' = stage /\ program' = program /\ facts' = facts /\ dirty' = dirty /\ pc' = pc
  OBVIOUS
<1>2. TypeOK'
  BY <1>1 DEF IndInv, TypeOK, Values
<1>3. ValuesSound'
  BY <1>1 DEF ValuesSound
<1>4. FixpointReached'
  BY <1>1 DEF IndInv, FixpointReached, Flow
<1> QED BY <1>1, <1>2, <1>3, <1>4 DEF IndInv, Seen, Settled, ArgumentsSound

LEMMA ReceiveInd ==
  ASSUME IndInv, NEW v \in Vars, Receive(v)
  PROVE  IndInv'
<1>1. /\ stage = "run" /\ v \in DOMAIN program.params
      /\ UNCHANGED << stage, program, facts, dirty, pc >>
  BY DEF Receive
<1>2. PICK val \in Arguments(program, v) :
        \E e : e = [w \in DOMAIN env \cup {v} |-> IF w = v THEN val ELSE env[w]] /\ env' = e
  BY DEF Receive
<1>3. PICK e :
        e = [w \in DOMAIN env \cup {v} |-> IF w = v THEN val ELSE env[w]] /\ env' = e
  BY <1>2
<1>4. val \in Values
  BY <1>1, TypesUnfold, ArgumentsKeep DEF IndInv
<1>5. \A w \in DOMAIN env : env[w] \in Values /\ w \in Vars
  BY TypesUnfold DEF IndInv
<1>6. DOMAIN e = DOMAIN env \cup {v} /\ e \in [DOMAIN e -> Values] /\ DOMAIN e \subseteq Vars
  BY <1>3, <1>4, <1>5
<1>7. ASSUME NEW w \in DOMAIN e PROVE w \in DOMAIN facts /\ KeepsFacts(program, facts[w], e[w])
  <2>1. CASE w = v
    BY <1>1, <1>2, <1>3, <2>1 DEF IndInv, ArgumentsSound
  <2>2. CASE w # v
    BY <1>3, <1>6, <1>7, <2>2 DEF IndInv, ValuesSound
  <2> QED BY <2>1, <2>2
<1> QED BY <1>1, <1>3, <1>6, <1>7, AssignInd

\* What keeps the promise of an update keeps the facts of its result.
LEMMA FixpointKeeps ==
  ASSUME IndInv, stage = "run", NEW u \in Flow, Operands(u) \subseteq DOMAIN env,
         NEW val, KeepsFacts(program, Promised(u, facts), val)
  PROVE  u.dst \in DOMAIN facts /\ KeepsFacts(program, facts[u.dst], val)
<1>1. PICK i \in DOMAIN program.flow : u = program.flow[i]
  BY DEF Flow
<1>2. u \in Updates /\ Meaningful(u)
  BY <1>1, TypesUnfold, ProgramType DEF IndInv
<1>3. PICK F : F = facts
  OBVIOUS
<1>4. F \in [DOMAIN F -> Facts] /\ Operands(u) \subseteq DOMAIN F
  BY <1>3, TypesUnfold DEF IndInv, ValuesSound
<1>5. PICK f \in Facts : f = Promised(u, F)
  BY <1>2, <1>4, PromisedType
<1>6. Updated(F, u.dst, f) = F
  BY <1>3, <1>5 DEF IndInv, FixpointReached
<1>7. PICK d : d = u.dst
  OBVIOUS
<1>8. d \in DOMAIN F
  <2>1. Updated(F, d, f) \in [DOMAIN F \cup {d} -> Facts]
    BY <1>4, UpdatedType
  <2>2. DOMAIN F = DOMAIN F \cup {d}
    BY <1>6, <1>7, <2>1
  <2> QED BY <2>2
<1>9. F[d] = UnifyFacts(F[d], f) /\ F[d] \in Facts
  <2>1. Updated(F, d, f)[d] = UnifyFacts(F[d], f)
    BY <1>8, UpdatedAt
  <2>2. Updated(F, d, f) = F
    BY <1>6, <1>7
  <2> QED BY <1>4, <1>8, <2>1, <2>2
<1>10. KeepsFacts(program, UnifyFacts(F[d], f), val)
  BY <1>3, <1>5, <1>9, UnifyKeepsFacts
<1> QED BY <1>3, <1>7, <1>8, <1>9, <1>10

LEMMA ComputeInd ==
  ASSUME IndInv, NEW i \in DOMAIN program.flow, Compute(i)
  PROVE  IndInv'
<1>0. PICK u : u = program.flow[i]
  OBVIOUS
<1>1. /\ stage = "run" /\ u.k # "copy" /\ Operands(u) \subseteq DOMAIN env
      /\ UNCHANGED << stage, program, facts, dirty, pc >>
  BY <1>0 DEF Compute
<1>2. PICK val \in Results(program, u, env) :
        \E e : e = [w \in DOMAIN env \cup {u.dst} |-> IF w = u.dst THEN val ELSE env[w]] /\ env' = e
  BY <1>0 DEF Compute
<1>3. PICK e :
        e = [w \in DOMAIN env \cup {u.dst} |-> IF w = u.dst THEN val ELSE env[w]] /\ env' = e
  BY <1>2
<1>4. KeepsFacts(program, Promised(u, facts), val) /\ val \in Values
  <2>0. PICK F, old, prg : F = facts /\ old = env /\ prg = program
    OBVIOUS
  <2>1. prg \in Programs /\ F = facts /\ old = env /\ prg = program
    BY <2>0, TypesUnfold DEF IndInv
  <2>2. F \in [DOMAIN F -> Facts] /\ old \in [DOMAIN old -> Values]
    BY <2>1, TypesUnfold DEF IndInv
  <2>3. \A v \in DOMAIN old : v \in DOMAIN F /\ KeepsFacts(prg, F[v], old[v])
    BY <2>1 DEF IndInv, ValuesSound
  <2>4. i \in DOMAIN prg.flow /\ u = prg.flow[i] /\ u.k # "copy"
        /\ Operands(u) \subseteq DOMAIN old /\ val \in Results(prg, u, old)
    BY <1>0, <1>1, <1>2, <2>1
  <2>5. KeepsFacts(prg, Promised(u, F), val) /\ val \in Values
    BY ONLY <2>1, <2>2, <2>3, <2>4, ResultsKeep
  <2> QED BY <2>1, <2>5
<1>5. u \in Flow /\ u.dst \in Vars
  BY <1>0, TypesUnfold, ProgramType DEF Flow, IndInv, Updates
<1>6. u.dst \in DOMAIN facts /\ KeepsFacts(program, facts[u.dst], val)
  BY <1>1, <1>4, <1>5, FixpointKeeps
<1>7. \A w \in DOMAIN env : env[w] \in Values /\ w \in Vars
  BY TypesUnfold DEF IndInv
<1>8. DOMAIN e = DOMAIN env \cup {u.dst} /\ e \in [DOMAIN e -> Values] /\ DOMAIN e \subseteq Vars
  BY <1>3, <1>4, <1>5, <1>7
<1>9. ASSUME NEW w \in DOMAIN e PROVE w \in DOMAIN facts /\ KeepsFacts(program, facts[w], e[w])
  <2>1. CASE w = u.dst
    BY <1>3, <1>6, <2>1
  <2>2. CASE w # u.dst
    BY <1>3, <1>8, <1>9, <2>2 DEF IndInv, ValuesSound
  <2> QED BY <2>1, <2>2
<1> QED BY <1>1, <1>3, <1>8, <1>9, AssignInd

LEMMA MoveInd ==
  ASSUME IndInv, NEW edge, Move(edge)
  PROVE  IndInv'
<1> DEFINE into(v) == {u \in Copies(edge) : u.dst = v}
<1>1. /\ stage = "run" /\ \A u \in Copies(edge) : u.x \in DOMAIN env
      /\ UNCHANGED << stage, program, facts, dirty, pc >>
  BY DEF Move
<1>2. PICK e : e = env'
  OBVIOUS
<1>3. e = [w \in DOMAIN env \cup {u.dst : u \in Copies(edge)} |->
             IF into(w) = {} THEN env[w] ELSE env[(CHOOSE u \in into(w) : TRUE).x]]
  BY <1>2 DEF Move
<1>4. ASSUME NEW u \in Copies(edge)
      PROVE  u \in Flow /\ u.k = "copy" /\ u.dst \in Vars /\ u.x \in DOMAIN env /\ Operands(u) = {u.x}
  <2>1. u \in Flow /\ u.k = "copy"
    BY DEF Copies
  <2>2. u.dst \in Vars
    BY <2>1, TypesUnfold, ProgramType DEF Flow, IndInv, Updates
  <2> QED BY <1>1, <2>1, <2>2 DEF Operands
<1>5. ASSUME NEW w \in DOMAIN env \cup {u.dst : u \in Copies(edge)}
      PROVE  /\ w \in Vars /\ e[w] \in Values
             /\ w \in DOMAIN facts /\ KeepsFacts(program, facts[w], e[w])
  <2>1. CASE into(w) = {}
    <3>1. w \in DOMAIN env /\ e[w] = env[w]
      BY <1>3, <2>1
    <3> QED BY <3>1, TypesUnfold DEF IndInv, ValuesSound
  <2>2. CASE into(w) # {}
    <3>1. PICK u \in into(w) : e[w] = env[u.x]
      <4>1. (CHOOSE u \in into(w) : TRUE) \in into(w)
        BY <2>2
      <4> QED BY <1>3, <2>2, <4>1
    <3>2. u \in Copies(edge) /\ u.dst = w
      OBVIOUS
    <3>3. u \in Flow /\ u.k = "copy" /\ u.dst \in Vars /\ u.x \in DOMAIN env /\ Operands(u) \subseteq DOMAIN env
      BY <1>4, <3>2
    <3>4. Promised(u, facts) = facts[u.x]
      BY <3>3 DEF Promised
    <3>5. KeepsFacts(program, facts[u.x], env[u.x]) /\ env[u.x] \in Values
      BY <3>3, TypesUnfold DEF IndInv, ValuesSound
    <3>6. u.dst \in DOMAIN facts /\ KeepsFacts(program, facts[u.dst], env[u.x])
      BY <1>1, <3>3, <3>4, <3>5, FixpointKeeps
    <3> QED BY <3>1, <3>2, <3>3, <3>5, <3>6
  <2> QED BY <2>1, <2>2
<1>6. DOMAIN e = DOMAIN env \cup {u.dst : u \in Copies(edge)} /\ e \in [DOMAIN e -> Values] /\ DOMAIN e \subseteq Vars
  BY <1>3, <1>5
<1> QED BY <1>1, <1>2, <1>5, <1>6, AssignInd

LEMMA NextInd == IndInv /\ [Next]_vars => IndInv'
<1> SUFFICES ASSUME IndInv, [Next]_vars PROVE IndInv'
  OBVIOUS
<1>1. CASE Visit
  BY <1>1, VisitInd
<1>2. CASE WalkAgain
  BY <1>2, WalkAgainInd
<1>3. CASE Stop
  BY <1>3, StopInd
<1>4. CASE \E v \in Vars : Receive(v)
  BY <1>4, ReceiveInd
<1>5. CASE \E i \in DOMAIN program.flow : Compute(i)
  BY <1>5, ComputeInd
<1>6. CASE \E u \in Flow : Move(u.edge)
  BY <1>6, MoveInd
<1>7. CASE UNCHANGED vars
  BY <1>7 DEF vars, IndInv, TypeOK, Seen, Settled, FixpointReached, Flow, ArgumentsSound, ValuesSound
<1> QED BY <1>1, <1>2, <1>3, <1>4, <1>5, <1>6, <1>7 DEF Next

LEMMA Invariance == Spec => []IndInv
<1> QED BY InitInd, NextInd, PTL DEF Spec

-----------------------------------------------------------------------------
(* The theorems. *)

\* The state keeps its type: every fact is a predicate for a variable and for
\* the words of the arrays in it, every value a number with a place.
THEOREM TypeCorrect == Spec => []TypeOK
BY Invariance, PTL DEF IndInv

\* The analysis stops only where no update would change anything, for any kernel:
\* the flag that it resets before a walk misses no change.
THEOREM Settles == Spec => []FixpointReached
BY Invariance, PTL DEF IndInv

\* Every divisor that is written down divides every value the variable gets, in
\* any kernel, along any path, for numbers of any width that wrap.
THEOREM AssumptionsTrue == Spec => []AssumptionsHold
<1>1. IndInv => AssumptionsHold
  <2> SUFFICES ASSUME IndInv, stage = "run", NEW v \in DOMAIN env, Assumed(facts[v].own.div) > 1
               PROVE  env[v].num % Assumed(facts[v].own.div) = 0
    BY DEF AssumptionsHold
  <2>1. v \in DOMAIN facts /\ Keeps(program, facts[v].own, env[v])
    BY DEF IndInv, ValuesSound, KeepsFacts
  <2>2. PICK d \in Int, n \in Int : d = facts[v].own.div /\ n = env[v].num
    BY <2>1, TypesUnfold DEF IndInv, Facts, Predicates, Values
  <2>3. PICK q : q = Assumed(d)
    OBVIOUS
  <2>4. q \in Powers /\ Divides(q, d)
    BY <2>2, <2>3, AssumedDivides
  <2>5. PassesOn(d, n)
    BY <2>1, <2>2 DEF Keeps
  <2>6. Divides(q, n) /\ q \in Nat \ {0}
    BY <2>4, <2>5, PowersAre DEF PassesOn
  <2>7. n % q = 0
    BY <2>6, DividesMod
  <2> QED BY <2>2, <2>3, <2>7
<1> QED BY <1>1, Invariance, PTL

\* Variables that may point to the same memory have an alias set in common.
LEMMA AliasesKnown == IndInv => AliasesFound
<1>1. IndInv => AliasesFound
  <2> SUFFICES ASSUME IndInv, stage = "run", NEW v \in DOMAIN env, NEW w \in DOMAIN env,
                      NEW p, p = env[v].place, NEW q, q = env[w].place,
                      p # Nowhere, q # Nowhere, MayShare(program, p, q)
               PROVE  facts[v].own.alias \cap facts[w].own.alias # {}
    BY DEF AliasesFound
  <2>1. p \in Places /\ q \in Places /\ program \in Programs
    BY TypesUnfold DEF IndInv, Values
  <2>2. PICK gs \in SUBSET AliasGroups, hs \in SUBSET AliasGroups :
          gs = Constraint(program, p).groups /\ hs = Constraint(program, q).groups
    BY <2>1, ConstraintType
  <2>3. AliasSet(p, gs) \subseteq facts[v].own.alias /\ AliasSet(q, hs) \subseteq facts[w].own.alias
    BY <2>2 DEF IndInv, ValuesSound, KeepsFacts, Keeps
  <2>4. CASE p = q
    <3>1. AliasSet(p, gs) # {} /\ AliasSet(p, gs) = AliasSet(q, hs)
      BY <2>1, <2>2, <2>4, AliasSetType
    <3> QED BY <2>3, <3>1
  <2>5. CASE p # q
    <3>1. PICK g \in gs : g \in hs
      BY <2>2, <2>5 DEF MayShare
    <3>2. AliasSet(p, gs) = {"group"} \X gs /\ AliasSet(q, hs) = {"group"} \X hs
      BY <3>1 DEF AliasSet
    <3>3. << "group", g >> \in {"group"} \X gs /\ << "group", g >> \in {"group"} \X hs
      BY <3>1
    <3> QED BY <2>3, <3>2, <3>3
  <2> QED BY <2>4, <2>5
<1> QED BY <1>1

\* In any kernel, with any constraints of its parameters, variables that may point
\* to the same memory have an alias set in common, and a variable said not to alias
\* internally has no pointer to memory that may.
THEOREM PointersFound == Spec => []PointersKnown
<1>1. IndInv => InternalAliasKept
  BY DEF IndInv, ValuesSound, KeepsFacts, Keeps, InternalAliasKept
<1>2. IndInv => PointersKnown
  BY <1>1, AliasesKnown DEF PointersKnown
<1> QED BY <1>2, Invariance, PTL

LEMMA WeakerSame ==
  ASSUME NEW p \in Predicates
  PROVE  Weaker(p, p)
<1>1. PICK d \in Int : d = p.div
  BY DEF Predicates
<1>2. d = 0 \/ d % Abs(d) = 0
  <2>1. CASE d > 0
    <3>1. d = d * 1
      BY <2>1
    <3>2. Divides(d, d)
      BY <3>1 DEF Divides
    <3> QED BY <2>1, <3>2, DividesMod DEF Abs
  <2>2. CASE d < 0
    <3>0. PICK m \in Nat \ {0} : m = -d
      BY <2>2
    <3>1. d = m * (-1)
      BY <3>0
    <3>2. Divides(m, d)
      BY <3>1 DEF Divides
    <3>3. d % m = 0
      BY <3>2, DividesMod
    <3> QED BY <2>2, <3>0, <3>3 DEF Abs
  <2> QED BY <2>1, <2>2
<1> QED BY <1>1, <1>2 DEF Weaker

LEMMA UnifyWeaker ==
  ASSUME NEW p \in Predicates, NEW q \in Predicates
  PROVE  Weaker(unify(p, q), p)
<1>1. PICK a \in Int, b \in Int : a = p.div /\ b = q.div
  BY DEF Predicates
<1>2. PICK g \in Nat : g = gcd(a, b)
  BY GcdDivides
<1>3. Divides(g, a)
  BY <1>2, GcdDivides
<1>4. IF g = 0 THEN a = 0 ELSE a % Abs(g) = 0
  <2>1. g = 0 => a = 0
    BY <1>3 DEF Divides
  <2>2. g # 0 => a % g = 0
    BY <1>3, DividesMod
  <2> QED BY <2>1, <2>2 DEF Abs
<1>5. PICK r : r = unify(p, q)
  OBVIOUS
<1>6. r.alias = p.alias \cup q.alias /\ r.div = g /\ r.internal = (p.internal \/ q.internal)
  BY <1>1, <1>2, <1>5 DEF unify
<1>7. Weaker(r, p)
  BY <1>1, <1>4, <1>6 DEF Weaker
<1> QED BY <1>5, <1>7

\* No step of a walk strengthens a promise or forgets a variable.
THEOREM PromisesOnlyWeaken == Spec => OnlyWeaker
<1> DEFINE A == \A v \in DOMAIN facts :
                  /\ v \in DOMAIN facts' /\ Weaker(facts'[v].own, facts[v].own)
                  /\ \A n \in Slots : Weaker(facts'[v].items[n], facts[v].items[n])
<1>1. IndInv /\ [Next]_vars => A
  <2> SUFFICES ASSUME IndInv, [Next]_vars, NEW v \in DOMAIN facts
               PROVE  /\ v \in DOMAIN facts' /\ Weaker(facts'[v].own, facts[v].own)
                      /\ \A n \in Slots : Weaker(facts'[v].items[n], facts[v].items[n])
    OBVIOUS
  <2>1. PICK f \in Facts : f = facts[v]
    BY TypesUnfold DEF IndInv
  <2>2. f.own \in Predicates /\ \A n \in Slots : f.items[n] \in Predicates
    BY DEF Facts
  <2>3. CASE facts' = facts
    BY <2>1, <2>2, <2>3, WeakerSame
  <2>4. CASE Visit
    <3>0. PICK u, F : u = program.flow[pc] /\ F = facts
      OBVIOUS
    <3>1. facts' = Updated(F, u.dst, Promised(u, F)) /\ pc <= Len(program.flow)
      BY <2>4, <3>0 DEF Visit
    <3>2. u \in Updates /\ Meaningful(u) /\ Operands(u) \subseteq DOMAIN F
      <4>1. pc \in DOMAIN program.flow
        BY <3>1, TypesUnfold DEF IndInv
      <4> QED BY <3>0, <3>1, <4>1, TypesUnfold, ProgramType, OperandsKnown DEF IndInv
    <3>3. F \in [DOMAIN F -> Facts]
      BY <3>0, TypesUnfold DEF IndInv
    <3>4. PICK g \in Facts : g = Promised(u, F)
      BY <3>2, <3>3, PromisedType
    <3>5. PICK G : G = facts'
      OBVIOUS
    <3>6. v \in DOMAIN G /\ (G[v] = F[v] \/ G[v] = UnifyFacts(F[v], g))
      <4>1. G = Updated(F, u.dst, g)
        BY <3>1, <3>4, <3>5
      <4>2. v \in DOMAIN F
        BY <3>0
      <4>3. G \in [DOMAIN F \cup {u.dst} -> Facts]
        BY <3>3, <4>1, UpdatedType
      <4>4. G[v] = F[v] \/ G[v] = UnifyFacts(F[v], g)
        BY <4>1, <4>2, UpdatedAt
      <4> QED BY <4>2, <4>3, <4>4
    <3>7. CASE G[v] = F[v]
      BY <2>1, <2>2, <3>0, <3>5, <3>6, <3>7, WeakerSame
    <3>8. CASE G[v] = UnifyFacts(F[v], g)
      <4>1. G[v].own = unify(f.own, g.own) /\ \A n \in Slots : G[v].items[n] = unify(f.items[n], g.items[n])
        BY <2>1, <3>0, <3>8 DEF UnifyFacts
      <4>2. g.own \in Predicates /\ \A n \in Slots : g.items[n] \in Predicates
        BY DEF Facts
      <4>3. Weaker(G[v].own, f.own) /\ \A n \in Slots : Weaker(G[v].items[n], f.items[n])
        BY <2>2, <4>1, <4>2, UnifyWeaker
      <4> QED BY <2>1, <3>5, <3>6, <4>3
    <3> QED BY <3>6, <3>7, <3>8
  <2> QED BY <2>3, <2>4 DEF Next, WalkAgain, Stop, Receive, Compute, Move, vars
<1>2. IndInv /\ [Next]_vars => [A]_vars
  BY <1>1
<1>3. OnlyWeaker <=> [][A]_vars
  BY DEF OnlyWeaker
<1> HIDE DEF A
<1> QED BY <1>2, <1>3, Invariance, PTL DEF Spec
=============================================================================
