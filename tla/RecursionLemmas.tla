--------------------------- MODULE RecursionLemmas ---------------------------
(***************************************************************************)
(* Induction and recursion over intervals of numbers, as facts about sets  *)
(* and functions: a set that holds the first number and the successor of   *)
(* each of its numbers is the interval, and a first value and a step       *)
(* define a function.  The functions that the modules define by recursion  *)
(* are what they say because of these; those that several of them use, the *)
(* decimal digits and FlattenSeq, follow.                                  *)
(***************************************************************************)
EXTENDS Decimals, Sequences, SequencesExt, SequenceTheorems, WellFoundedInduction, TLAPS

LEMMA LeastNat ==
  ASSUME NEW T \in SUBSET Nat, T # {}
  PROVE  \E x \in T : \A y \in T : x <= y
  <1> DEFINE Less == {ss \in Nat \X Nat : ss[1] < ss[2]}
  <1>1. Less = OpToRel(<, Nat)
    BY Zenon DEF OpToRel
  <1>2. IsWellFoundedOn(Less, Nat)
    BY <1>1, NatLessThanWellFounded, Zenon
  <1>3. \A x, y \in Nat : <<y, x>> \in Less <=> y < x
    OBVIOUS
  <1> HIDE DEF Less
  <1>4. \E x \in T : \A y \in T : ~ (<<y, x>> \in Less)
    BY <1>2, WFMin, Zenon
  <1>5. PICK x \in T : \A y \in T : ~ (<<y, x>> \in Less)
    BY <1>4
  <1>6. \A y \in T : ~ (y < x)
    BY <1>3, <1>5, Zenon
  <1>7. x \in Nat /\ \A y \in T : y \in Nat
    OBVIOUS
  <1> QED
    BY <1>6, <1>7

LEMMA IntervalInduction ==
  ASSUME NEW a \in Nat, NEW b \in Nat, NEW P, a \in P,
         \A m \in a..b : m \in P /\ m < b => m + 1 \in P
  PROVE  \A m \in a..b : m \in P
  <1> SUFFICES ASSUME NEW m \in a..b, m \notin P
               PROVE  FALSE
    OBVIOUS
  <1> DEFINE T == (a..b) \ P
  <1>1. PICK x \in T : \A y \in T : x <= y
    <2>1. T \in SUBSET Nat /\ T # {}
      OBVIOUS
    <2> QED
      BY <2>1, LeastNat
  <1>2. x # a /\ x - 1 \in a..b /\ x - 1 \notin T
    BY <1>1
  <1> QED
    BY <1>1, <1>2

\* What holds of every number if it holds of a number whenever it holds of all
\* smaller ones.
LEMMA StrongInduction ==
  ASSUME NEW a \in Nat, NEW b \in Nat, NEW P,
         \A m \in a..b : (\A k \in a..(m - 1) : k \in P) => m \in P
  PROVE  \A m \in a..b : m \in P
  <1> SUFFICES ASSUME NEW m \in a..b, m \notin P
               PROVE  FALSE
    OBVIOUS
  <1> DEFINE T == (a..b) \ P
  <1>1. PICK x \in T : \A y \in T : x <= y
    <2>1. T \in SUBSET Nat /\ T # {}
      OBVIOUS
    <2> QED
      BY <2>1, LeastNat
  <1>2. \A k \in a..(x - 1) : k \in P
    BY <1>1
  <1> QED
    BY <1>1, <1>2

\* What a function from a..b has to be, given its first value and its step.
Iterates(g, a, b, c, D) == g[a] = c /\ \A k \in (a + 1)..b : g[k] = D[<<g[k - 1], k>>]

LEMMA Iteration ==
  ASSUME NEW S, NEW c \in S, NEW a \in Nat, NEW b \in Nat, a <= b,
         NEW D \in [S \X ((a + 1)..b) -> S]
  PROVE  \E g \in [a..b -> S] : Iterates(g, a, b, c, D)
  <1> DEFINE P == {m \in a..b : \E g \in [a..m -> S] : Iterates(g, a, m, c, D)}
  <1>1. a \in P
    <2> DEFINE h == [k \in a..a |-> c]
    <2>1. h \in [a..a -> S] /\ Iterates(h, a, a, c, D)
      BY DEF Iterates
    <2>2. a \in a..b
      OBVIOUS
    <2> HIDE DEF h
    <2>3. \E g \in [a..a -> S] : Iterates(g, a, a, c, D)
      BY <2>1
    <2> QED
      BY <2>2, <2>3
  <1>2. ASSUME NEW m \in a..b, m \in P, m < b
        PROVE  m + 1 \in P
    <2>1. PICK g \in [a..m -> S] : Iterates(g, a, m, c, D)
      BY <1>2
    <2> DEFINE h == [k \in a..(m + 1) |-> IF k <= m THEN g[k] ELSE D[<<g[m], m + 1>>]]
    <2>2. g[m] \in S /\ m \in Nat
      OBVIOUS
    <2>3. D[<<g[m], m + 1>>] \in S
      BY <1>2, <2>2
    <2>4. h \in [a..(m + 1) -> S]
      BY <2>3
    <2>5. Iterates(h, a, m + 1, c, D)
      <3>1. h[a] = c /\ h[m + 1] = D[<<h[m], m + 1>>]
        <4>1. a \in a..(m + 1) /\ a <= m /\ m \in a..(m + 1) /\ m + 1 \in a..(m + 1)
          OBVIOUS
        <4>2. h[a] = g[a] /\ h[m] = g[m]
          BY <4>1
        <4>3. ~ (m + 1 <= m)
          OBVIOUS
        <4>4. h[m + 1] = D[<<g[m], m + 1>>]
          BY <4>1, <4>3
        <4> QED
          BY <2>1, <4>2, <4>4 DEF Iterates
      <3>2. \A k \in (a + 1)..m : h[k] = D[<<h[k - 1], k>>]
        BY <2>1, <2>2 DEF Iterates
      <3>3. \A k \in (a + 1)..(m + 1) : k \in (a + 1)..m \/ (k = m + 1 /\ k - 1 = m)
        BY <2>2
      <3> HIDE DEF h
      <3>4. \A k \in (a + 1)..(m + 1) : h[k] = D[<<h[k - 1], k>>]
        BY <3>1, <3>2, <3>3, Zenon
      <3> QED
        BY <3>1, <3>4 DEF Iterates
    <2>6. m + 1 \in a..b
      BY <1>2
    <2> HIDE DEF h
    <2> QED
      BY <2>4, <2>5, <2>6
  <1>3. b \in P
    <2> HIDE DEF P
    <2>1. \A m \in a..b : m \in P
      BY <1>1, <1>2, IntervalInduction
    <2> QED
      BY <2>1
  <1> QED
    BY <1>3

(***************************************************************************)
(* Decimal digits.                                                         *)
(***************************************************************************)

LEMMA QuotientsAre ==
  ASSUME NEW val \in Nat
  PROVE  /\ Quotients(val) \in [0..39 -> Nat]
         /\ Quotients(val)[0] = val
         /\ \A k \in 1..39 : Quotients(val)[k] = Quotients(val)[k - 1] \div 10
  <1> DEFINE D == [x \in Nat \X (1..39) |-> x[1] \div 10]
             v[k \in 0..39] == IF k = 0 THEN val ELSE v[k - 1] \div 10
  <1>1. PICK g \in [0..39 -> Nat] : Iterates(g, 0, 39, val, D)
    <2>1. D \in [Nat \X ((0 + 1)..39) -> Nat]
      OBVIOUS
    <2>2. 0 \in Nat /\ 39 \in Nat /\ 0 <= 39
      OBVIOUS
    <2> HIDE DEF D
    <2> QED
      BY <2>1, <2>2, Iteration
  <1>2. ASSUME NEW k \in 0..39
        PROVE  g[k] = IF k = 0 THEN val ELSE g[k - 1] \div 10
    <2>1. CASE k = 0
      BY <1>1, <2>1 DEF Iterates
    <2>2. CASE k # 0
      <3>1. k \in (0 + 1)..39 /\ k \in 1..39 /\ g[k - 1] \in Nat
        BY <2>2
      <3>2. g[k] = D[<<g[k - 1], k>>]
        BY <1>1, <3>1 DEF Iterates
      <3> QED
        BY <2>2, <3>1, <3>2
    <2> QED
      BY <2>1, <2>2
  <1>3. g = [k \in 0..39 |-> IF k = 0 THEN val ELSE g[k - 1] \div 10]
    BY <1>2
  <1>4. v = [k \in 0..39 |-> IF k = 0 THEN val ELSE v[k - 1] \div 10]
    BY <1>3, Zenon
  <1>5. Quotients(val) = v
    BY Zenon DEF Quotients, MAX_DIGITS
  <1> HIDE DEF v
  <1>6. v[0] = val /\ \A k \in 1..39 : v[k] = v[k - 1] \div 10
    BY <1>4
  <1>7. \A k \in 0..39 : v[k] \in Nat
    <2> DEFINE P == {k \in 0..39 : v[k] \in Nat}
    <2>1. 0 \in P
      BY <1>6
    <2>2. ASSUME NEW m \in 0..39, m \in P, m < 39
          PROVE  m + 1 \in P
      BY <1>6, <2>2
    <2> HIDE DEF P
    <2>3. \A m \in 0..39 : m \in P
      BY <2>1, <2>2, IntervalInduction
    <2> QED
      BY <2>3 DEF P
  <1> QED
    BY <1>4, <1>5, <1>6, <1>7

LEMMA NumberOfDigitsIs ==
  ASSUME NEW val \in Printable
  PROVE  /\ NumberOfDigits(val) \in 1..39
         /\ Quotients(val)[NumberOfDigits(val)] = 0
  <1> DEFINE q == Quotients(val)
             T == {k \in 1..39 : q[k] = 0}
  <1>1. val \in Nat /\ q[39] = 0
    BY DEF Printable, MAX_DIGITS
  <1>2. q \in [0..39 -> Nat] /\ \A k \in 1..39 : q[k] = q[k - 1] \div 10
    BY <1>1, QuotientsAre
  <1> HIDE DEF q
  <1>3. PICK x \in T : \A y \in T : x <= y
    <2>1. T \in SUBSET Nat /\ T # {}
      BY <1>1
    <2> HIDE DEF T
    <2> QED
      BY <2>1, LeastNat
  <1>4. x \in 1..39 /\ q[x] = 0 /\ (x > 1 => q[x - 1] # 0)
    BY <1>3
  <1> QED
    BY <1>4, Zenon DEF NumberOfDigits, MAX_DIGITS, q

\* What is written: the remainders, the last one first.
LEMMA DecimalDigitsAre ==
  ASSUME NEW val \in Printable
  PROVE  LET places == NumberOfDigits(val)
         IN  /\ places \in 1..39
             /\ DecimalDigits(val) \in Seq(0..9)
             /\ Len(DecimalDigits(val)) = places
             /\ \A n \in 1..places : DecimalDigits(val)[n] = Quotients(val)[places - n] % 10
  <1> DEFINE places == NumberOfDigits(val)
             digits == [n \in 1..places |-> Quotients(val)[places - n] % 10]
  <1>1. places \in 1..39
    BY NumberOfDigitsIs
  <1>2. DecimalDigits(val) = digits
    BY Zenon DEF DecimalDigits
  <1>3. ASSUME NEW n \in 1..places
        PROVE  Quotients(val)[places - n] % 10 \in 0..9
    <2>1. val \in Nat /\ places - n \in 0..39
      BY <1>1 DEF Printable
    <2>2. Quotients(val)[places - n] \in Nat
      BY <2>1, QuotientsAre
    <2> QED
      BY <2>2
  <1> HIDE DEF places
  <1>4. digits \in Seq(0..9) /\ Len(digits) = places
    BY <1>1, <1>3
  <1> QED
    BY <1>1, <1>2, <1>4 DEF places

\* A number is determined by its digits.
LEMMA DecimalDetermines ==
  ASSUME NEW val \in Printable, NEW other \in Printable,
         DecimalDigits(val) = DecimalDigits(other)
  PROVE  val = other
  <1> DEFINE places == NumberOfDigits(val)
             q == Quotients(val)
             r == Quotients(other)
             P == {k \in 0..places : q[places - k] = r[places - k]}
  <1>1. NumberOfDigits(other) = places
    BY DecimalDigitsAre
  <1>2. /\ places \in 1..39 /\ q[places] = 0 /\ r[places] = 0
        /\ \A n \in 1..places : q[places - n] % 10 = r[places - n] % 10
    BY <1>1, DecimalDigitsAre, NumberOfDigitsIs
  <1>3. /\ val \in Nat /\ other \in Nat
        /\ q \in [0..39 -> Nat] /\ \A k \in 1..39 : q[k] = q[k - 1] \div 10
        /\ r \in [0..39 -> Nat] /\ \A k \in 1..39 : r[k] = r[k - 1] \div 10
        /\ q[0] = val /\ r[0] = other
    BY QuotientsAre DEF Printable
  <1> HIDE DEF places, q, r
  <1>4. 0 \in P
    BY <1>2
  <1>5. ASSUME NEW m \in 0..places, m \in P, m < places
        PROVE  m + 1 \in P
    <2> DEFINE k == places - m
    <2>1. k \in 1..39 /\ k - 1 \in 0..39 /\ m + 1 \in 1..places /\ places - (m + 1) = k - 1
      BY <1>2, <1>5
    <2>2. q[k - 1] % 10 = r[k - 1] % 10
      BY <1>2, <2>1
    <2>3. q[k] = r[k]
      BY <1>5
    <2>4. q[k] = q[k - 1] \div 10 /\ r[k] = r[k - 1] \div 10
      BY <1>3, <2>1
    <2>5. q[k - 1] \in Nat /\ r[k - 1] \in Nat
      BY <1>3, <2>1
    <2> HIDE DEF k
    <2>6. \A a, b \in Nat : a % 10 = b % 10 /\ a \div 10 = b \div 10 => a = b
      OBVIOUS
    <2>7. q[k - 1] = r[k - 1]
      BY <2>2, <2>3, <2>4, <2>5, <2>6, Zenon
    <2> QED
      BY <2>1, <2>7
  <1> HIDE DEF P
  <1>6. places \in P
    <2>1. \A m \in 0..places : m \in P
      BY <1>2, <1>4, <1>5, IntervalInduction
    <2> QED
      BY <1>2, <2>1
  <1> QED
    BY <1>2, <1>3, <1>6 DEF P

\* b to the power of 0, 1 and so on.
IsPowers(p, b, n) ==
  p \in [0..n -> Nat] /\ p[0] = 1 /\ \A k \in 1..n : p[k] = b * p[k - 1]

LEMMA PowersExist ==
  ASSUME NEW b \in Nat, NEW n \in Nat
  PROVE  \E p : IsPowers(p, b, n)
  <1> DEFINE D == [x \in Nat \X (1..n) |-> b * x[1]]
  <1>1. \A x \in Nat : b * x \in Nat
    OBVIOUS
  <1>2. D \in [Nat \X ((0 + 1)..n) -> Nat]
    BY <1>1
  <1>3. PICK g \in [0..n -> Nat] : Iterates(g, 0, n, 1, D)
    <2>1. 0 \in Nat /\ 1 \in Nat /\ 0 <= n
      OBVIOUS
    <2> HIDE DEF D
    <2> QED
      BY <1>2, <2>1, Iteration
  <1>4. ASSUME NEW k \in 1..n
        PROVE  g[k] = b * g[k - 1]
    <2>1. k \in (0 + 1)..n /\ g[k - 1] \in Nat
      OBVIOUS
    <2>2. g[k] = D[<<g[k - 1], k>>]
      BY <1>3, <2>1 DEF Iterates
    <2> QED
      BY <2>1, <2>2
  <1>5. g[0] = 1
    BY <1>3 DEF Iterates
  <1> HIDE DEF D
  <1> QED
    BY <1>4, <1>5 DEF IsPowers

LEMMA PowersGrow ==
  ASSUME NEW b \in Nat \ {0}, NEW n \in Nat, NEW p, IsPowers(p, b, n)
  PROVE  \A k \in 0..n : p[k] <= p[n]
  <1> DEFINE P == {k \in 0..n : p[n - k] <= p[n]}
  <1>1. 0 \in P
    BY DEF IsPowers
  <1>2. ASSUME NEW m \in 0..n, m \in P, m < n
        PROVE  m + 1 \in P
    <2> DEFINE k == n - m
    <2>1. k \in 1..n /\ k - 1 \in 0..n /\ n - (m + 1) = k - 1 /\ m + 1 \in 0..n
      BY <1>2
    <2>2. p[k] = b * p[k - 1] /\ p[k - 1] \in Nat /\ p[k] <= p[n]
      BY <1>2, <2>1 DEF IsPowers
    <2>3. \A x \in Nat : x <= b * x
      OBVIOUS
    <2>4. p[k - 1] <= p[k] /\ p[k] \in Nat /\ p[n] \in Nat
      BY <2>1, <2>2, <2>3 DEF IsPowers
    <2> QED
      BY <2>1, <2>2, <2>4
  <1> HIDE DEF P
  <1>3. \A m \in 0..n : m \in P
    BY <1>1, <1>2, IntervalInduction
  <1>4. ASSUME NEW k \in 0..n
        PROVE  p[k] <= p[n]
    <2>1. n - k \in 0..n /\ n - (n - k) = k
      OBVIOUS
    <2> QED
      BY <1>3, <2>1 DEF P
  <1> QED
    BY <1>4

\* Four places make a factor of 2^32 in base 256, and of 58^4 in base 58.
LEMMA FourBytes ==
  ASSUME NEW len \in Nat, NEW p, IsPowers(p, 256, len), NEW k \in Nat, k + 4 <= len
  PROVE  p[k + 4] = 4294967296 * p[k]
  <1>1. p \in [0..len -> Nat] /\ \A j \in 1..len : p[j] = 256 * p[j - 1]
    BY DEF IsPowers
  <1>2. /\ k \in 0..len /\ k + 1 \in 1..len /\ k + 2 \in 1..len /\ k + 3 \in 1..len
        /\ k + 4 \in 1..len
        /\ (k + 1) - 1 = k /\ (k + 2) - 1 = k + 1 /\ (k + 3) - 1 = k + 2
        /\ (k + 4) - 1 = k + 3
    OBVIOUS
  <1>3. /\ p[k + 1] = 256 * p[k] /\ p[k + 2] = 256 * p[k + 1]
        /\ p[k + 3] = 256 * p[k + 2] /\ p[k + 4] = 256 * p[k + 3]
    BY <1>1, <1>2, SMT
  <1>4. p[k] \in Nat
    BY <1>1, <1>2
  <1> QED
    BY <1>3, <1>4, SMT

LEMMA SixteenBytes ==
  ASSUME NEW p, IsPowers(p, 256, 16)
  PROVE  p[16] = 340282366920938463463374607431768211456
  <1>1. p[0] = 1 /\ p \in [0..16 -> Nat]
    BY DEF IsPowers
  <1>2. \A k \in 0..12 : p[k + 4] = 4294967296 * p[k]
    BY FourBytes
  <1>3. /\ p[4] = 4294967296 * p[0] /\ p[8] = 4294967296 * p[4]
        /\ p[12] = 4294967296 * p[8] /\ p[16] = 4294967296 * p[12]
    BY <1>2, SMT
  <1>4. p[4] \in Nat /\ p[8] \in Nat /\ p[12] \in Nat /\ p[16] \in Nat
    BY <1>1
  <1>5. p[4] = 4294967296
    BY <1>1, <1>3, SMT
  <1>6. p[8] = 18446744073709551616
    BY <1>3, <1>5, SMT
  <1>7. p[12] = 79228162514264337593543950336
    BY <1>3, <1>6, SMT
  <1> QED
    BY <1>3, <1>7, SMT

LEMMA FourLetters ==
  ASSUME NEW len \in Nat, NEW p, IsPowers(p, 58, len), NEW k \in Nat, k + 4 <= len
  PROVE  p[k + 4] = 11316496 * p[k]
  <1>1. p \in [0..len -> Nat] /\ \A j \in 1..len : p[j] = 58 * p[j - 1]
    BY DEF IsPowers
  <1>2. /\ k \in 0..len /\ k + 1 \in 1..len /\ k + 2 \in 1..len /\ k + 3 \in 1..len
        /\ k + 4 \in 1..len
        /\ (k + 1) - 1 = k /\ (k + 2) - 1 = k + 1 /\ (k + 3) - 1 = k + 2
        /\ (k + 4) - 1 = k + 3
    OBVIOUS
  <1>3. /\ p[k + 1] = 58 * p[k] /\ p[k + 2] = 58 * p[k + 1]
        /\ p[k + 3] = 58 * p[k + 2] /\ p[k + 4] = 58 * p[k + 3]
    BY <1>1, <1>2, SMT
  <1>4. p[k] \in Nat
    BY <1>1, <1>2
  <1> QED
    BY <1>3, <1>4, SMT

\* What has at most 39 digits.
LEMMA PrintableBelow ==
  ASSUME NEW val \in Nat, val < 1000000000000000000000000000000000000000
  PROVE  val \in Printable
  <1> DEFINE q == Quotients(val)
  <1>1. PICK p : IsPowers(p, 10, 39)
    BY PowersExist
  <1>2. p[39] = 1000000000000000000000000000000000000000
    <2>1. \A k \in 1..39 : p[k] = 10 * p[k - 1]
      BY <1>1 DEF IsPowers
    <2>2. p[0] = 1 /\ p \in [0..39 -> Nat]
      BY <1>1 DEF IsPowers
    <2>3. \A k \in 0..36 : p[k + 3] = 1000 * p[k]
      <3> SUFFICES ASSUME NEW k \in 0..36
                   PROVE  p[k + 3] = 1000 * p[k]
        OBVIOUS
      <3>1. /\ k + 1 \in 1..39 /\ k + 2 \in 1..39 /\ k + 3 \in 1..39
            /\ (k + 1) - 1 = k /\ (k + 2) - 1 = k + 1 /\ (k + 3) - 1 = k + 2
        OBVIOUS
      <3>2. /\ p[k + 1] = 10 * p[k] /\ p[k + 2] = 10 * p[k + 1]
            /\ p[k + 3] = 10 * p[k + 2]
        BY <2>1, <3>1, SMT
      <3>3. p[k] \in Nat
        BY <1>1 DEF IsPowers
      <3> QED
        BY <3>2, <3>3, SMT
    <2>4. /\ p[3] = 1000 * p[0] /\ p[6] = 1000 * p[3] /\ p[9] = 1000 * p[6]
          /\ p[12] = 1000 * p[9] /\ p[15] = 1000 * p[12] /\ p[18] = 1000 * p[15]
          /\ p[21] = 1000 * p[18] /\ p[24] = 1000 * p[21] /\ p[27] = 1000 * p[24]
          /\ p[30] = 1000 * p[27] /\ p[33] = 1000 * p[30] /\ p[36] = 1000 * p[33]
          /\ p[39] = 1000 * p[36]
      BY <2>3, SMT
    <2> QED
      BY <2>2, <2>4, SMT
  <1>3. q \in [0..39 -> Nat] /\ q[0] = val /\ \A k \in 1..39 : q[k] = q[k - 1] \div 10
    BY QuotientsAre
  <1> DEFINE P == {k \in 0..39 : q[k] < p[39 - k]}
  <1> HIDE DEF q
  <1>4. 0 \in P
    BY <1>2, <1>3
  <1>5. ASSUME NEW m \in 0..39, m \in P, m < 39
        PROVE  m + 1 \in P
    <2> DEFINE k == 39 - m
    <2>1. k \in 1..39 /\ k - 1 \in 0..39 /\ m + 1 \in 1..39 /\ 39 - (m + 1) = k - 1
          /\ (m + 1) - 1 = m
      BY <1>5
    <2>2. p[k] = 10 * p[k - 1] /\ p[k - 1] \in Nat
      BY <1>1, <2>1 DEF IsPowers
    <2>3. q[m + 1] = q[m] \div 10 /\ q[m] \in Nat /\ q[m] < p[k]
      BY <1>3, <1>5, <2>1
    <2> HIDE DEF k
    <2>4. \A a, b \in Nat : a < 10 * b => a \div 10 < b
      OBVIOUS
    <2>5. q[m + 1] < p[k - 1]
      BY <2>2, <2>3, <2>4
    <2> QED
      BY <2>1, <2>5
  <1> HIDE DEF P
  <1>6. 39 \in P
    BY <1>4, <1>5, IntervalInduction
  <1>7. q[39] \in Nat /\ q[39] < 1
    <2>1. q[39] < p[39 - 39]
      BY <1>6 DEF P
    <2>2. 39 - 39 = 0 /\ p[0] = 1
      BY <1>1 DEF IsPowers
    <2> QED
      BY <1>3, <2>1, <2>2
  <1>8. q[39] = 0
    BY <1>7
  <1> QED
    BY <1>8 DEF Printable, MAX_DIGITS, q

(***************************************************************************)
(* Sequences: prefixes, and parts that can be told apart in a whole.       *)
(***************************************************************************)

LEMMA FrontParts ==
  ASSUME NEW S, NEW s \in Seq(S)
  PROVE  /\ SubSeq(s, 1, 0) = <<>>
         /\ SubSeq(s, 1, Len(s)) = s
         /\ \A k \in 0..Len(s) : SubSeq(s, 1, k) \in Seq(S) /\ Len(SubSeq(s, 1, k)) = k
         /\ \A k \in 0..Len(s) : k < Len(s) =>
              SubSeq(s, 1, k + 1) = Append(SubSeq(s, 1, k), s[k + 1])
  <1>1. Len(s) \in Nat
    BY LenProperties
  <1>2. ASSUME NEW k \in 0..Len(s)
        PROVE  /\ SubSeq(s, 1, k) \in Seq(S) /\ Len(SubSeq(s, 1, k)) = k
               /\ \A i \in 1..k : SubSeq(s, 1, k)[i] = s[i]
    <2>1. \A i \in 1..k : s[i] \in S
      BY <1>1, LenProperties
    <2>2. /\ SubSeq(s, 1, k) \in Seq(S)
          /\ Len(SubSeq(s, 1, k)) = IF 1 <= k THEN k - 1 + 1 ELSE 0
          /\ \A i \in 1..(k - 1 + 1) : SubSeq(s, 1, k)[i] = s[1 + i - 1]
      BY <1>1, <2>1, SubSeqProperties
    <2> QED
      BY <1>1, <2>2
  <1>3. ASSUME NEW k \in 0..Len(s), k < Len(s)
        PROVE  SubSeq(s, 1, k + 1) = Append(SubSeq(s, 1, k), s[k + 1])
    <2> DEFINE t == SubSeq(s, 1, k)
               u == SubSeq(s, 1, k + 1)
    <2>1. k + 1 \in 0..Len(s) /\ s[k + 1] \in S /\ k \in Nat
      BY <1>1, <1>3, LenProperties
    <2>2. /\ t \in Seq(S) /\ Len(t) = k /\ \A i \in 1..k : t[i] = s[i]
          /\ u \in Seq(S) /\ Len(u) = k + 1 /\ \A i \in 1..(k + 1) : u[i] = s[i]
      BY <1>2, <2>1
    <2> HIDE DEF t, u
    <2>3. /\ Append(t, s[k + 1]) \in Seq(S) /\ Len(Append(t, s[k + 1])) = k + 1
          /\ \A i \in 1..k : Append(t, s[k + 1])[i] = t[i]
          /\ Append(t, s[k + 1])[k + 1] = s[k + 1]
      BY <2>1, <2>2, AppendProperties
    <2>4. \A i \in 1..(k + 1) : u[i] = Append(t, s[k + 1])[i]
      BY <2>1, <2>2, <2>3
    <2>5. u = Append(t, s[k + 1])
      BY <2>2, <2>3, <2>4, SeqEqual
    <2> QED
      BY <2>5 DEF t, u
  <1>4. SubSeq(s, 1, 0) = <<>>
    BY SubSeqEmpty
  <1> QED
    BY <1>2, <1>3, <1>4, SubSeqFull

\* Two wholes that begin with equally long parts.
LEMMA SameFront ==
  ASSUME NEW S, NEW a \in Seq(S), NEW b \in Seq(S), NEW c \in Seq(S), NEW d \in Seq(S),
         a \o b = c \o d, Len(a) = Len(c)
  PROVE  a = c /\ b = d
  <1>1. /\ Len(a) \in Nat /\ Len(b) \in Nat /\ Len(c) \in Nat /\ Len(d) \in Nat
        /\ Len(a \o b) = Len(a) + Len(b) /\ Len(c \o d) = Len(c) + Len(d)
    BY LenProperties, ConcatProperties
  <1>2. \A i \in 1..Len(a) + Len(b) : (a \o b)[i] = IF i <= Len(a) THEN a[i] ELSE b[i - Len(a)]
    BY ConcatProperties
  <1>3. \A i \in 1..Len(c) + Len(d) : (c \o d)[i] = IF i <= Len(c) THEN c[i] ELSE d[i - Len(c)]
    BY ConcatProperties
  <1>4. Len(b) = Len(d)
    BY <1>1
  <1>5. \A i \in 1..Len(a) : a[i] = c[i]
    BY <1>1, <1>2, <1>3
  <1>6. a = c
    BY <1>5, SeqEqual
  <1>7. b = d
    BY <1>6, ConcatSimplifications, Zenon
  <1> QED
    BY <1>6, <1>7

\* x does not occur in s.
Lacks(s, x) == \A i \in 1..Len(s) : s[i] # x

\* A first part that ends where the second begins with what is not in the first.
LEMMA SameRun ==
  ASSUME NEW S, NEW a \in Seq(S), NEW e \in Seq(S), NEW c \in Seq(S), NEW f \in Seq(S),
         Len(e) # 0, Len(f) # 0, a \o e = c \o f,
         Lacks(a, f[1]), Lacks(c, e[1])
  PROVE  a = c /\ e = f
  <1>2. Len(a) \in Nat /\ Len(c) \in Nat
    BY LenProperties
  <1>3. Len(e) \in Nat /\ Len(e) >= 1 /\ Len(f) \in Nat /\ Len(f) >= 1
    BY LenProperties
  <1>4. a \o e = c \o f
    OBVIOUS
  <1>1. /\ \A i \in 1..Len(a) : a[i] # f[1]
        /\ \A i \in 1..Len(c) : c[i] # e[1]
    BY DEF Lacks
  <1>5. \A i \in 1..Len(a) + Len(e) : (a \o e)[i] = IF i <= Len(a) THEN a[i] ELSE e[i - Len(a)]
    BY <1>3, ConcatProperties
  <1>6. \A i \in 1..Len(c) + Len(f) : (c \o f)[i] = IF i <= Len(c) THEN c[i] ELSE f[i - Len(c)]
    BY <1>3, ConcatProperties
  <1>7. Len(a) + Len(e) = Len(c) + Len(f)
    <2>1. Len(a \o e) = Len(a) + Len(e) /\ Len(c \o f) = Len(c) + Len(f)
      BY <1>3, ConcatProperties
    <2> QED
      BY <1>4, <2>1
  <1>8. ~ (Len(a) < Len(c))
    <2> SUFFICES ASSUME Len(a) < Len(c)
                 PROVE  FALSE
      OBVIOUS
    <2> DEFINE i == Len(a) + 1
    <2>1. i \in 1..Len(a) + Len(e) /\ i \in 1..Len(c) + Len(f) /\ i \in 1..Len(c)
          /\ ~ (i <= Len(a)) /\ i - Len(a) = 1 /\ i <= Len(c)
      BY <1>2, <1>3
    <2> HIDE DEF i
    <2>2. (a \o e)[i] = e[1] /\ (c \o f)[i] = c[i]
      BY <1>3, <1>5, <1>6, <2>1
    <2> QED
      BY <1>1, <1>4, <2>1, <2>2
  <1>9. ~ (Len(c) < Len(a))
    <2> SUFFICES ASSUME Len(c) < Len(a)
                 PROVE  FALSE
      OBVIOUS
    <2> DEFINE i == Len(c) + 1
    <2>1. i \in 1..Len(a) + Len(e) /\ i \in 1..Len(c) + Len(f) /\ i \in 1..Len(a)
          /\ ~ (i <= Len(c)) /\ i - Len(c) = 1 /\ i <= Len(a)
      BY <1>2, <1>3
    <2> HIDE DEF i
    <2>2. (c \o f)[i] = f[1] /\ (a \o e)[i] = a[i]
      BY <1>3, <1>5, <1>6, <2>1
    <2> QED
      BY <1>1, <1>4, <2>1, <2>2
  <1>10. Len(a) = Len(c)
    BY <1>2, <1>8, <1>9
  <1>11. a = c /\ e = f
    BY <1>3, <1>4, <1>10, SameFront
  <1> QED
    BY <1>11

\* Concatenation under a name of its own, for the provers to match.
Cat(s, t) == s \o t

\* A last part that begins after a mark which is not in it.
LEMMA SameRest ==
  ASSUME NEW S, NEW a \in Seq(S), NEW b \in Seq(S), NEW c \in Seq(S), NEW d \in Seq(S),
         NEW x \in S, Cat(Cat(a, <<x>>), b) = Cat(Cat(c, <<x>>), d),
         Lacks(b, x), Lacks(d, x)
  PROVE  a = c /\ b = d
  <1> DEFINE e == Cat(a, <<x>>)
             f == Cat(c, <<x>>)
  <1>1. /\ Len(a) \in Nat /\ Len(b) \in Nat /\ Len(c) \in Nat /\ Len(d) \in Nat
        /\ <<x>> \in Seq(S) /\ Len(<<x>>) = 1 /\ <<x>>[1] = x
    BY LenProperties
  <1>2. /\ e \in Seq(S) /\ Len(e) = Len(a) + 1 /\ e[Len(a) + 1] = x
        /\ f \in Seq(S) /\ Len(f) = Len(c) + 1 /\ f[Len(c) + 1] = x
    BY <1>1, ConcatProperties DEF Cat
  <1>3. e \o b = f \o d
    BY DEF Cat
  <1> HIDE DEF e, f
  <1>4. \A i \in 1..Len(e) + Len(b) : (e \o b)[i] = IF i <= Len(e) THEN e[i] ELSE b[i - Len(e)]
    BY <1>2, ConcatProperties
  <1>5. \A i \in 1..Len(f) + Len(d) : (f \o d)[i] = IF i <= Len(f) THEN f[i] ELSE d[i - Len(f)]
    BY <1>2, ConcatProperties
  <1>6. Len(e) + Len(b) = Len(f) + Len(d)
    <2>1. Len(e \o b) = Len(e) + Len(b) /\ Len(f \o d) = Len(f) + Len(d)
      BY <1>2, ConcatProperties
    <2> QED
      BY <1>3, <2>1
  <1>7. ~ (Len(e) < Len(f))
    <2> SUFFICES ASSUME Len(e) < Len(f)
                 PROVE  FALSE
      OBVIOUS
    <2> DEFINE i == Len(f)
    <2>1. i \in 1..Len(e) + Len(b) /\ i \in 1..Len(f) + Len(d)
          /\ ~ (i <= Len(e)) /\ i - Len(e) \in 1..Len(b) /\ i <= Len(f)
      BY <1>1, <1>2, <1>6
    <2>2. f[i] = x
      BY <1>2
    <2> HIDE DEF i
    <2>3. (e \o b)[i] = b[i - Len(e)] /\ (f \o d)[i] = f[i]
      BY <1>4, <1>5, <2>1
    <2> QED
      BY <1>3, <2>1, <2>2, <2>3 DEF Lacks
  <1>8. ~ (Len(f) < Len(e))
    <2> SUFFICES ASSUME Len(f) < Len(e)
                 PROVE  FALSE
      OBVIOUS
    <2> DEFINE i == Len(e)
    <2>1. i \in 1..Len(e) + Len(b) /\ i \in 1..Len(f) + Len(d)
          /\ ~ (i <= Len(f)) /\ i - Len(f) \in 1..Len(d) /\ i <= Len(e)
      BY <1>1, <1>2, <1>6
    <2>2. e[i] = x
      BY <1>2
    <2> HIDE DEF i
    <2>3. (f \o d)[i] = d[i - Len(f)] /\ (e \o b)[i] = e[i]
      BY <1>4, <1>5, <2>1
    <2> QED
      BY <1>3, <2>1, <2>2, <2>3 DEF Lacks
  <1>9. e = f /\ b = d
    <2>1. Len(e) = Len(f)
      BY <1>1, <1>2, <1>7, <1>8
    <2> QED
      BY <1>2, <1>3, <2>1, SameFront
  <1>10. a = c
    <2>1. a \o <<x>> = c \o <<x>>
      BY <1>9 DEF e, f, Cat
    <2> QED
      BY <1>1, <2>1, ConcatSimplifications, Zenon
  <1> QED
    BY <1>9, <1>10

(***************************************************************************)
(* FlattenSeq.                                                             *)
(***************************************************************************)

\* The wholes of the first parts.
IsFlattening(g, seqs, S) ==
  /\ g \in [0..Len(seqs) -> Seq(S)] /\ g[0] = <<>>
  /\ \A k \in 1..Len(seqs) : g[k] = g[k - 1] \o seqs[k]

LEMMA Flattening ==
  ASSUME NEW S, NEW seqs \in Seq(Seq(S))
  PROVE  \E g : IsFlattening(g, seqs, S) /\ FlattenSeq(seqs) = g[Len(seqs)]
  <1> DEFINE len == Len(seqs)
             T == Seq(S)
             D == [x \in T \X (1..len) |-> x[1] \o seqs[x[2]]]
             flatten[k \in 1..len] == IF k = 1 THEN seqs[k] ELSE flatten[k - 1] \o seqs[k]
  <1>1. len \in Nat /\ <<>> \in T /\ \A k \in 1..len : seqs[k] \in T
    BY LenProperties, EmptySeq
  <1>2. ASSUME NEW k \in 1..len, NEW x \in T
        PROVE  x \o seqs[k] \in T
    BY <1>1, ConcatProperties
  <1>3. D \in [T \X ((0 + 1)..len) -> T]
    BY <1>2
  <1>4. PICK g \in [0..len -> T] : Iterates(g, 0, len, <<>>, D)
    <2>1. 0 \in Nat /\ 0 <= len
      BY <1>1
    <2> HIDE DEF D, T
    <2> QED
      BY <1>1, <1>3, <2>1, Iteration
  <1>5. ASSUME NEW k \in 1..len
        PROVE  g[k - 1] \in T /\ g[k] = g[k - 1] \o seqs[k]
    <2>1. k \in (0 + 1)..len /\ k - 1 \in 0..len
      BY <1>1
    <2>2. g[k - 1] \in T
      BY <2>1
    <2>3. g[k] = D[<<g[k - 1], k>>]
      BY <1>4, <2>1 DEF Iterates
    <2>4. D[<<g[k - 1], k>>] = g[k - 1] \o seqs[k]
      <3> HIDE DEF T
      <3> QED
        BY <2>2
    <2> QED
      BY <2>2, <2>3, <2>4
  <1>6. g[0] = <<>>
    BY <1>4 DEF Iterates
  <1>7. FlattenSeq(seqs) = g[len]
    <2>1. CASE len = 0
      <3>1. seqs = <<>>
        BY <2>1, EmptySeq
      <3> QED
        BY <1>6, <2>1, <3>1 DEF FlattenSeq
    <2>2. CASE len # 0
      <3> DEFINE h == [k \in 1..len |-> g[k]]
      <3> HIDE DEF D
      <3>1. ASSUME NEW k \in 1..len
            PROVE  h[k] = IF k = 1 THEN seqs[k] ELSE h[k - 1] \o seqs[k]
        <4>1. CASE k = 1
          <5>1. g[1] = <<>> \o seqs[1]
            <6>1. 1 \in 1..len /\ 1 - 1 = 0
              BY <4>1
            <6>2. g[1] = g[1 - 1] \o seqs[1]
              BY <1>5, <6>1
            <6> QED
              BY <1>6, <6>1, <6>2
          <5>2. seqs[1] \in Seq(S)
            BY <1>1, <4>1
          <5> QED
            BY <4>1, <5>1, <5>2, ConcatEmptySeq
        <4>2. CASE k # 1
          <5>1. k - 1 \in 1..len
            BY <1>1, <4>2
          <5> QED
            BY <1>5, <4>2, <5>1
        <4> QED
          BY <4>1, <4>2
      <3>2. h = [k \in 1..len |-> IF k = 1 THEN seqs[k] ELSE h[k - 1] \o seqs[k]]
        <4>1. h = [k \in 1..len |-> h[k]]
          OBVIOUS
        <4> HIDE DEF h
        <4> QED
          BY <3>1, <4>1, Zenon
      <3> HIDE DEF h
      <3>3. flatten = [k \in 1..len |-> IF k = 1 THEN seqs[k] ELSE flatten[k - 1] \o seqs[k]]
        BY <3>2, Zenon
      <3>4. FlattenSeq(seqs) = flatten[len]
        BY <2>2, Zenon DEF FlattenSeq
      <3> HIDE DEF flatten
      <3> DEFINE P == {k \in 1..len : flatten[k] = g[k]}
      <3>5. 1 \in P
        <4>1. 1 \in 1..len
          BY <1>1, <2>2
        <4>2. flatten[1] = seqs[1] /\ h[1] = seqs[1]
          BY <3>1, <3>3, <4>1, Zenon
        <4> QED
          BY <4>1, <4>2 DEF h
      <3>6. ASSUME NEW m \in 1..len, m \in P, m < len
            PROVE  m + 1 \in P
        <4>1. m + 1 \in 1..len /\ (m + 1) - 1 = m /\ m + 1 # 1
          BY <1>1, <3>6
        <4>2. flatten[m + 1] = flatten[m] \o seqs[m + 1]
          BY <3>3, <4>1, Zenon
        <4>3. g[m + 1] = g[m] \o seqs[m + 1]
          BY <1>5, <4>1
        <4> QED
          BY <3>6, <4>1, <4>2, <4>3
      <3> HIDE DEF P
      <3>7. len \in P
        <4>1. \A m \in 1..len : m \in P
          BY <1>1, <3>5, <3>6, IntervalInduction
        <4> QED
          BY <1>1, <2>2, <4>1
      <3> QED
        BY <3>4, <3>7 DEF P
    <2> QED
      BY <2>1, <2>2
  <1> HIDE DEF D, flatten
  <1>8. IsFlattening(g, seqs, S)
    BY <1>5, <1>6 DEF IsFlattening
  <1> QED
    BY <1>7, <1>8

LEMMA FlattenEmpty == FlattenSeq(<<>>) = <<>>
  BY DEF FlattenSeq

LEMMA FlattenIsSeq ==
  ASSUME NEW S, NEW seqs \in Seq(Seq(S))
  PROVE  FlattenSeq(seqs) \in Seq(S)
  <1>1. PICK g : IsFlattening(g, seqs, S) /\ FlattenSeq(seqs) = g[Len(seqs)]
    BY Flattening
  <1>2. Len(seqs) \in 0..Len(seqs)
    BY LenProperties
  <1> QED
    BY <1>1, <1>2 DEF IsFlattening

LEMMA FlattenAppend ==
  ASSUME NEW S, NEW seqs \in Seq(Seq(S)), NEW s \in Seq(S)
  PROVE  FlattenSeq(Append(seqs, s)) = FlattenSeq(seqs) \o s
  <1> DEFINE all == Append(seqs, s)
             len == Len(seqs)
  <1>1. /\ all \in Seq(Seq(S)) /\ Len(all) = len + 1 /\ len \in Nat
        /\ \A k \in 1..len : all[k] = seqs[k]
        /\ all[len + 1] = s
    BY AppendProperties, LenProperties
  <1> HIDE DEF all
  <1>2. PICK g : IsFlattening(g, seqs, S) /\ FlattenSeq(seqs) = g[len]
    BY Flattening
  <1>3. PICK h : IsFlattening(h, all, S) /\ FlattenSeq(all) = h[len + 1]
    BY <1>1, Flattening
  <1> DEFINE P == {k \in 0..len : g[k] = h[k]}
  <1>4. 0 \in P
    BY <1>1, <1>2, <1>3 DEF IsFlattening
  <1>5. ASSUME NEW m \in 0..len, m \in P, m < len
        PROVE  m + 1 \in P
    <2>1. m + 1 \in 1..len /\ m + 1 \in 1..(len + 1) /\ (m + 1) - 1 = m
      BY <1>1, <1>5
    <2>2. g[m + 1] = g[m] \o seqs[m + 1] /\ h[m + 1] = h[m] \o all[m + 1]
      BY <1>1, <1>2, <1>3, <2>1 DEF IsFlattening
    <2>3. g[m] = h[m] /\ all[m + 1] = seqs[m + 1] /\ m + 1 \in 0..len
      BY <1>1, <1>5, <2>1
    <2> QED
      BY <2>2, <2>3
  <1> HIDE DEF P
  <1>6. len \in P
    <2>1. \A m \in 0..len : m \in P
      BY <1>1, <1>4, <1>5, IntervalInduction
    <2> QED
      BY <1>1, <2>1
  <1>7. h[len + 1] = h[len] \o s
    <2>1. len + 1 \in 1..Len(all) /\ (len + 1) - 1 = len
      BY <1>1
    <2> QED
      BY <1>1, <1>3, <2>1 DEF IsFlattening
  <1> QED
    BY <1>2, <1>3, <1>6, <1>7 DEF P, all

LEMMA FlattenOne ==
  ASSUME NEW S, NEW s \in Seq(S)
  PROVE  FlattenSeq(<<s>>) = s
  <1>1. <<>> \in Seq(Seq(S)) /\ Append(<<>>, s) = <<s>>
    BY EmptySeq
  <1>2. FlattenSeq(Append(<<>>, s)) = FlattenSeq(<<>>) \o s
    BY <1>1, FlattenAppend
  <1> QED
    BY <1>1, <1>2, FlattenEmpty, ConcatEmptySeq

\* Brackets in a concatenation may be moved.
Associative(S) == \A a, b, c \in Seq(S) : (a \o b) \o c = a \o (b \o c)

LEMMA ConcatTwice ==
  ASSUME NEW S
  PROVE  Associative(S)
  BY ConcatAssociative DEF Associative

LEMMA ConcatAppended ==
  ASSUME NEW S, NEW s \in Seq(S), NEW u \in Seq(S), NEW x \in S
  PROVE  s \o u \in Seq(S) /\ s \o Append(u, x) = Append(s \o u, x)
  <1>1. s \o u \in Seq(S) /\ <<x>> \in Seq(S)
    BY ConcatProperties
  <1>2. Append(u, x) = u \o <<x>> /\ Append(s \o u, x) = (s \o u) \o <<x>>
    BY <1>1, AppendIsConcat
  <1>3. (s \o u) \o <<x>> = s \o (u \o <<x>>)
    BY <1>1, ConcatAssociative
  <1> QED
    BY <1>1, <1>2, <1>3

\* What appending does, to sequences over T and to sequences over S flattened.
Appending(T) ==
  \A a \in Seq(T), b \in Seq(T), c \in T :
    a \o b \in Seq(T) /\ a \o Append(b, c) = Append(a \o b, c)

Flattened(S, T) ==
  \A u \in Seq(T), x \in T :
    /\ FlattenSeq(u) \in Seq(S) /\ x \in Seq(S)
    /\ FlattenSeq(Append(u, x)) = FlattenSeq(u) \o x

LEMMA AppendingHolds ==
  ASSUME NEW S
  PROVE  Appending(S)
  BY ConcatAppended DEF Appending

LEMMA FlattenedHolds ==
  ASSUME NEW S
  PROVE  Flattened(S, Seq(S))
  BY FlattenIsSeq, FlattenAppend DEF Flattened

LEMMA FlattenConcatOf ==
  ASSUME NEW S, NEW T, NEW s \in Seq(T), NEW t \in Seq(T),
         FlattenSeq(s) \in Seq(S), Flattened(S, T)
  PROVE  FlattenSeq(s \o t) = FlattenSeq(s) \o FlattenSeq(t)
  <1> DEFINE front(k) == SubSeq(t, 1, k)
             P == {k \in 0..Len(t) : FlattenSeq(s \o front(k)) = FlattenSeq(s) \o FlattenSeq(front(k))}
  <1>1. Len(t) \in Nat
    BY LenProperties
  <1>2. Appending(T)
    BY AppendingHolds
  <1>3. Associative(S) /\ Associative(T)
    BY ConcatTwice
  <1>4. /\ front(0) = <<>> /\ front(Len(t)) = t
        /\ \A k \in 0..Len(t) : front(k) \in Seq(T)
        /\ \A k \in 0..Len(t) : k < Len(t) => front(k + 1) = Append(front(k), t[k + 1])
    BY <1>1, FrontParts
  <1> HIDE DEF front
  <1>5. 0 \in P
    <2>1. s \o <<>> = s
      BY <1>1, ConcatEmptySeq
    <2>2. FlattenSeq(s) \o <<>> = FlattenSeq(s)
      BY <1>1, ConcatEmptySeq
    <2>3. 0 \in 0..Len(t)
      BY <1>1
    <2> QED
      BY <1>4, <2>1, <2>2, <2>3, FlattenEmpty
  <1>6. ASSUME NEW m \in 0..Len(t), m \in P, m < Len(t)
        PROVE  m + 1 \in P
    <2> DEFINE u == front(m)
               x == t[m + 1]
    <2>1. m + 1 \in 0..Len(t) /\ u \in Seq(T) /\ x \in T /\ front(m + 1) = Append(u, x)
      <3>1. m + 1 \in 1..Len(t) /\ m + 1 \in 0..Len(t)
        BY <1>1, <1>6
      <3> QED
        BY <1>4, <1>6, <3>1, ElementOfSeq
    <2> HIDE DEF u, x
    <2>2. s \o u \in Seq(T) /\ s \o Append(u, x) = Append(s \o u, x)
      BY <1>2, <2>1 DEF Appending
    <2>3. FlattenSeq(Append(s \o u, x)) = FlattenSeq(s \o u) \o x
      BY <2>1, <2>2 DEF Flattened
    <2>4. /\ FlattenSeq(Append(u, x)) = FlattenSeq(u) \o x
          /\ FlattenSeq(u) \in Seq(S) /\ x \in Seq(S)
      BY <2>1 DEF Flattened
    <2>5. (FlattenSeq(s) \o FlattenSeq(u)) \o x = FlattenSeq(s) \o (FlattenSeq(u) \o x)
      BY <1>1, <1>3, <2>4 DEF Associative
    <2>6. FlattenSeq(s \o u) = FlattenSeq(s) \o FlattenSeq(u)
      BY <1>6 DEF u
    <2> QED
      BY <2>1, <2>2, <2>3, <2>4, <2>5, <2>6
  <1> HIDE DEF P
  <1>7. Len(t) \in P
    <2>1. \A m \in 0..Len(t) : m \in P
      BY <1>1, <1>5, <1>6, IntervalInduction
    <2> QED
      BY <1>1, <2>1
  <1> QED
    BY <1>4, <1>7 DEF P

LEMMA FlattenConcat ==
  ASSUME NEW S, NEW s \in Seq(Seq(S)), NEW t \in Seq(Seq(S))
  PROVE  FlattenSeq(s \o t) = FlattenSeq(s) \o FlattenSeq(t)
  <1> DEFINE T == Seq(S)
  <1>1. s \in Seq(T) /\ t \in Seq(T) /\ FlattenSeq(s) \in Seq(S) /\ Flattened(S, T)
    BY FlattenIsSeq, FlattenedHolds
  <1> HIDE DEF T
  <1> QED
    BY <1>1, FlattenConcatOf

LEMMA HeadAndTail ==
  ASSUME NEW T, NEW s \in Seq(T), Len(s) # 0
  PROVE  /\ s[1] \in T /\ Tail(s) \in Seq(T) /\ Len(Tail(s)) = Len(s) - 1
         /\ s = <<s[1]>> \o Tail(s)
         /\ \A k \in 1..Len(Tail(s)) : Tail(s)[k] = s[k + 1]
  <1>1. Len(s) \in Nat /\ s[1] \in T /\ s # <<>>
    BY LenProperties, EmptySeq
  <1>2. /\ Tail(s) \in Seq(T) /\ Len(Tail(s)) = Len(s) - 1
        /\ \A k \in 1..Len(Tail(s)) : Tail(s)[k] = s[k + 1]
    BY <1>1, HeadTailProperties
  <1>3. <<s[1]>> \in Seq(T) /\ Len(<<s[1]>>) = 1 /\ <<s[1]>>[1] = s[1]
    BY <1>1
  <1> DEFINE t == <<s[1]>> \o Tail(s)
  <1>4. /\ t \in Seq(T) /\ Len(t) = Len(s)
        /\ \A k \in 1..Len(s) : t[k] = IF k <= 1 THEN <<s[1]>>[k] ELSE Tail(s)[k - 1]
    BY <1>1, <1>2, <1>3, ConcatProperties
  <1>5. \A k \in 1..Len(s) : t[k] = s[k]
    BY <1>1, <1>2, <1>3, <1>4
  <1>6. t = s
    BY <1>4, <1>5, SeqEqual
  <1> QED
    BY <1>1, <1>2, <1>6

LEMMA FlattenHead ==
  ASSUME NEW S, NEW s \in Seq(Seq(S)), Len(s) # 0
  PROVE  FlattenSeq(s) = s[1] \o FlattenSeq(Tail(s))
  <1> DEFINE T == Seq(S)
  <1>1. s \in Seq(T)
    OBVIOUS
  <1>2. ASSUME NEW u \in T
        PROVE  FlattenSeq(<<u>>) = u /\ <<u>> \in Seq(T)
    BY FlattenOne
  <1>3. ASSUME NEW u \in Seq(T), NEW v \in Seq(T)
        PROVE  FlattenSeq(u \o v) = FlattenSeq(u) \o FlattenSeq(v)
    BY FlattenConcat
  <1> HIDE DEF T
  <1>4. s[1] \in T /\ Tail(s) \in Seq(T) /\ s = <<s[1]>> \o Tail(s)
    BY <1>1, HeadAndTail
  <1>5. FlattenSeq(<<s[1]>>) = s[1] /\ <<s[1]>> \in Seq(T)
    BY <1>2, <1>4
  <1>6. FlattenSeq(<<s[1]>> \o Tail(s)) = FlattenSeq(<<s[1]>>) \o FlattenSeq(Tail(s))
    BY <1>3, <1>4, <1>5
  <1> QED
    BY <1>4, <1>5, <1>6

\* Parts are the same, the last, or followed by a mark that is not in them.
Marked(s, t, x) ==
  \A k \in 1..Len(s) :
    \/ s[k] = t[k]
    \/ k = Len(s)
    \/ /\ k < Len(s) /\ s[k + 1] = <<x>> /\ t[k + 1] = <<x>>
       /\ Lacks(s[k], x) /\ Lacks(t[k], x)

\* What flattening does with a first part.
Headed(S, T) ==
  /\ \A u \in T : u \in Seq(S)
  /\ \A u \in Seq(T) : FlattenSeq(u) \in Seq(S)
  /\ \A u \in Seq(T) : Len(u) # 0 => FlattenSeq(u) = u[1] \o FlattenSeq(Tail(u))

LEMMA HeadedHolds ==
  ASSUME NEW S
  PROVE  Headed(S, Seq(S))
  BY FlattenIsSeq, FlattenHead DEF Headed

\* Two wholes with such parts have the same parts.
LEMMA SameFirstPart ==
  ASSUME NEW S, NEW T, Headed(S, T), NEW s \in Seq(T), NEW t \in Seq(T), NEW x \in S,
         Len(s) # 0, Len(t) = Len(s), FlattenSeq(s) = FlattenSeq(t), Marked(s, t, x)
  PROVE  s[1] = t[1] /\ FlattenSeq(Tail(s)) = FlattenSeq(Tail(t))
  <1>1. Len(s) \in Nat
    BY LenProperties
  <1>2. \A u \in Seq(T) : Len(u) # 0 => FlattenSeq(u) = u[1] \o FlattenSeq(Tail(u))
    BY DEF Headed
  <1>3. \A u \in Seq(T) : FlattenSeq(u) \in Seq(S)
    BY DEF Headed
  <1>4. \A u \in T : u \in Seq(S)
    BY DEF Headed
  <1>5. /\ s[1] \in T /\ Tail(s) \in Seq(T) /\ Len(Tail(s)) = Len(s) - 1
        /\ t[1] \in T /\ Tail(t) \in Seq(T) /\ Len(Tail(t)) = Len(s) - 1
        /\ \A k \in 1..Len(Tail(s)) : Tail(s)[k] = s[k + 1] /\ Tail(t)[k] = t[k + 1]
    BY HeadAndTail
  <1> DEFINE a == s[1]
             b == FlattenSeq(Tail(s))
             c == t[1]
             d == FlattenSeq(Tail(t))
  <1>6. a \in Seq(S) /\ b \in Seq(S) /\ c \in Seq(S) /\ d \in Seq(S)
    BY <1>3, <1>4, <1>5
  <1>7. a \o b = c \o d
    BY <1>1, <1>2
  <1>8. CASE a = c
    <2> HIDE DEF a, b, c, d
    <2>1. b = d
      BY <1>6, <1>7, <1>8, SameFront
    <2> QED
      BY <1>8, <2>1 DEF a, b, c, d
  <1>9. CASE Len(s) = 1
    <2>1. Tail(s) = <<>> /\ Tail(t) = <<>>
      <3>1. Len(Tail(s)) = 0 /\ Len(Tail(t)) = 0
        BY <1>5, <1>9
      <3>2. \A u \in Seq(T) : Len(u) = 0 => u = <<>>
        BY EmptySeq
      <3> QED
        BY <1>5, <3>1, <3>2
    <2>2. b = <<>> /\ d = <<>>
      BY <2>1, FlattenEmpty
    <2> HIDE DEF a, b, c, d
    <2>3. a \o <<>> = a /\ c \o <<>> = c
      BY <1>6, ConcatEmptySeq
    <2> QED
      BY <1>7, <2>2, <2>3 DEF a, b, c, d
  <1>10. CASE /\ Len(s) > 1 /\ s[2] = <<x>> /\ t[2] = <<x>>
              /\ Lacks(a, x) /\ Lacks(c, x)
    <2>1. Len(Tail(s)) # 0 /\ Len(Tail(t)) # 0 /\ Tail(s)[1] = <<x>> /\ Tail(t)[1] = <<x>>
      <3>1. Len(s) - 1 # 0 /\ 1 \in 1..(Len(s) - 1) /\ 1 + 1 = 2
        <4>1. Len(s) > 1
          BY <1>10
        <4> QED
          BY <1>1, <4>1
      <3>2. Tail(s)[1] = s[1 + 1] /\ Tail(t)[1] = t[1 + 1]
        BY <1>5, <3>1
      <3> QED
        BY <1>5, <1>10, <3>1, <3>2
    <2> DEFINE e == FlattenSeq(Tail(Tail(s)))
               f == FlattenSeq(Tail(Tail(t)))
    <2>2. b = <<x>> \o e /\ d = <<x>> \o f
      BY <1>2, <1>5, <2>1
    <2>3. Tail(Tail(s)) \in Seq(T) /\ Tail(Tail(t)) \in Seq(T)
      BY <1>5, <2>1, HeadAndTail
    <2>4. e \in Seq(S) /\ f \in Seq(S)
      BY <1>3, <2>3
    <2> HIDE DEF a, b, c, d, e, f
    <2>5. b \in Seq(S) /\ Len(b) # 0 /\ b[1] = x /\ d \in Seq(S) /\ Len(d) # 0 /\ d[1] = x
      <3>1. <<x>> \in Seq(S) /\ Len(<<x>>) = 1 /\ <<x>>[1] = x
        OBVIOUS
      <3>2. Len(e) \in Nat /\ Len(f) \in Nat
        BY <2>4, LenProperties
      <3> QED
        BY <2>2, <2>4, <3>1, <3>2, ConcatProperties
    <2>6. Lacks(a, d[1]) /\ Lacks(c, b[1])
      BY <1>10, <2>5
    <2>7. a = c /\ b = d
      BY <1>6, <1>7, <2>5, <2>6, SameRun
    <2> QED
      BY <2>7 DEF a, b, c, d
  <1> QED
    BY <1>1, <1>8, <1>9, <1>10 DEF Marked

LEMMA SameParts ==
  ASSUME NEW S, NEW s \in Seq(Seq(S)), NEW t \in Seq(Seq(S)), NEW x \in S,
         Len(t) = Len(s), FlattenSeq(s) = FlattenSeq(t), Marked(s, t, x)
  PROVE  s = t
  <1> DEFINE T == Seq(S)
             Alike(u, v) == Len(v) = Len(u) /\ FlattenSeq(u) = FlattenSeq(v) /\ Marked(u, v, x)
             P == {n \in 0..Len(s) : \A u, v \in Seq(T) : Len(u) = n /\ Alike(u, v) => u = v}
  <1>1. s \in Seq(T) /\ t \in Seq(T) /\ Len(s) \in Nat
    BY LenProperties
  <1>6. Headed(S, T)
    BY HeadedHolds
  <1> HIDE DEF T
  <1>2. ASSUME NEW u \in Seq(T), NEW v \in Seq(T), Len(u) # 0, Alike(u, v)
        PROVE  u[1] = v[1] /\ FlattenSeq(Tail(u)) = FlattenSeq(Tail(v))
    BY <1>2, <1>6, SameFirstPart
  <1>3. 0 \in P
    BY <1>1, EmptySeq
  <1>4. ASSUME NEW m \in 0..Len(s), m \in P, m < Len(s)
        PROVE  m + 1 \in P
    <2>1. m + 1 \in 0..Len(s) /\ m + 1 # 0 /\ (m + 1) - 1 = m
      BY <1>1, <1>4
    <2>2. ASSUME NEW u \in Seq(T), NEW v \in Seq(T), Len(u) = m + 1, Alike(u, v)
          PROVE  u = v
      <3>1. Len(u) # 0 /\ Len(v) = Len(u)
        BY <2>1, <2>2
      <3>2. /\ Tail(u) \in Seq(T) /\ Len(Tail(u)) = m /\ u = <<u[1]>> \o Tail(u)
            /\ \A k \in 1..m : Tail(u)[k] = u[k + 1]
        BY <2>1, <2>2, <3>1, HeadAndTail
      <3>3. /\ Tail(v) \in Seq(T) /\ Len(Tail(v)) = m /\ v = <<v[1]>> \o Tail(v)
            /\ \A k \in 1..m : Tail(v)[k] = v[k + 1]
        BY <2>1, <2>2, <3>1, HeadAndTail
      <3>4. u[1] = v[1] /\ FlattenSeq(Tail(u)) = FlattenSeq(Tail(v))
        BY <1>2, <2>2, <3>1
      <3>5. Marked(Tail(u), Tail(v), x)
        <4> SUFFICES ASSUME NEW k \in 1..m
                     PROVE  \/ Tail(u)[k] = Tail(v)[k]
                            \/ k = m
                            \/ /\ k < m /\ Tail(u)[k + 1] = <<x>> /\ Tail(v)[k + 1] = <<x>>
                               /\ Lacks(Tail(u)[k], x) /\ Lacks(Tail(v)[k], x)
          BY <3>2 DEF Marked
        <4>1. k + 1 \in 1..(m + 1) /\ m \in Nat /\ k \in Nat
          BY <1>1
        <4>2. \/ u[k + 1] = v[k + 1]
              \/ k + 1 = m + 1
              \/ /\ k + 1 < m + 1 /\ u[(k + 1) + 1] = <<x>> /\ v[(k + 1) + 1] = <<x>>
                 /\ Lacks(u[k + 1], x) /\ Lacks(v[k + 1], x)
          BY <2>2, <4>1 DEF Marked
        <4>3. Tail(u)[k] = u[k + 1] /\ Tail(v)[k] = v[k + 1]
          BY <3>2, <3>3
        <4>4. k < m => Tail(u)[k + 1] = u[(k + 1) + 1] /\ Tail(v)[k + 1] = v[(k + 1) + 1]
          <5> SUFFICES ASSUME k < m
                       PROVE  k + 1 \in 1..m
            BY <3>2, <3>3
          <5> QED
            BY <4>1
        <4>5. (k + 1 = m + 1 => k = m) /\ (k + 1 < m + 1 => k < m)
          BY <4>1
        <4> QED
          BY <4>2, <4>3, <4>4, <4>5
      <3>6. Alike(Tail(u), Tail(v))
        BY <3>2, <3>3, <3>4, <3>5
      <3>7. Tail(u) = Tail(v)
        BY <1>4, <3>2, <3>3, <3>6
      <3> QED
        BY <3>2, <3>3, <3>4, <3>7, Zenon
    <2> QED
      BY <2>1, <2>2
  <1> HIDE DEF P
  <1>5. Len(s) \in P
    <2>1. \A m \in 0..Len(s) : m \in P
      BY <1>1, <1>3, <1>4, IntervalInduction
    <2> QED
      BY <1>1, <2>1
  <1> QED
    BY <1>1, <1>5 DEF P

\* Parts of the same sizes.
SameSizes(s, t) == Len(t) = Len(s) /\ \A k \in 1..Len(s) : Len(t[k]) = Len(s[k])

LEMMA CatIs ==
  ASSUME NEW S, NEW a \in Seq(S), NEW b \in Seq(S)
  PROVE  Cat(a, b) \in Seq(S)
  BY ConcatProperties DEF Cat

LEMMA CatTwice ==
  ASSUME NEW S, NEW a \in Seq(S), NEW b \in Seq(S), NEW c \in Seq(S)
  PROVE  Cat(Cat(a, b), c) = Cat(a, Cat(b, c))
  BY ConcatAssociative DEF Cat

LEMMA CatFront ==
  ASSUME NEW S, NEW a \in Seq(S), NEW b \in Seq(S), NEW c \in Seq(S), NEW d \in Seq(S),
         Len(a) = Len(c), Cat(a, b) = Cat(c, d)
  PROVE  a = c /\ b = d
  BY SameFront DEF Cat

LEMMA CatFrontOf ==
  ASSUME NEW S, NEW a \in Seq(S), NEW b \in Seq(S), NEW c \in Seq(S), NEW d \in Seq(S),
         NEW e \in Seq(S), NEW f \in Seq(S), Len(a) = Len(c),
         Cat(Cat(a, b), e) = Cat(Cat(c, d), f)
  PROVE  a = c /\ Cat(b, e) = Cat(d, f)
  <1>1. Cat(Cat(a, b), e) = Cat(a, Cat(b, e)) /\ Cat(Cat(c, d), f) = Cat(c, Cat(d, f))
    <2>1. Cat(Cat(a, b), e) = Cat(a, Cat(b, e))
      BY CatTwice
    <2>2. Cat(Cat(c, d), f) = Cat(c, Cat(d, f))
      BY CatTwice
    <2> QED
      BY <2>1, <2>2
  <1> DEFINE g == Cat(b, e)
             h == Cat(d, f)
  <1>2. g \in Seq(S) /\ h \in Seq(S)
    BY CatIs
  <1>3. Cat(a, g) = Cat(c, h)
    BY <1>1
  <1> HIDE DEF g, h
  <1>4. a = c /\ g = h
    BY <1>2, <1>3, CatFront
  <1> QED
    BY <1>4 DEF g, h

LEMMA SameFirstSize ==
  ASSUME NEW S, NEW T, Headed(S, T), NEW s \in Seq(T), NEW t \in Seq(T),
         NEW e \in Seq(S), NEW f \in Seq(S), Len(s) # 0, SameSizes(s, t),
         Cat(FlattenSeq(s), e) = Cat(FlattenSeq(t), f)
  PROVE  s[1] = t[1] /\ Cat(FlattenSeq(Tail(s)), e) = Cat(FlattenSeq(Tail(t)), f)
  <1>1. Len(s) \in Nat /\ Len(t) = Len(s)
    BY LenProperties DEF SameSizes
  <1>2. \A u \in Seq(T) : Len(u) # 0 => FlattenSeq(u) = u[1] \o FlattenSeq(Tail(u))
    BY DEF Headed
  <1>3. \A u \in Seq(T) : FlattenSeq(u) \in Seq(S)
    BY DEF Headed
  <1>4. \A u \in T : u \in Seq(S)
    BY DEF Headed
  <1>5. /\ s[1] \in T /\ Tail(s) \in Seq(T)
        /\ t[1] \in T /\ Tail(t) \in Seq(T)
    BY <1>1, HeadAndTail
  <1> DEFINE a == s[1]
             b == FlattenSeq(Tail(s))
             c == t[1]
             d == FlattenSeq(Tail(t))
  <1>6. a \in Seq(S) /\ b \in Seq(S) /\ c \in Seq(S) /\ d \in Seq(S)
    BY <1>3, <1>4, <1>5
  <1>7. FlattenSeq(s) = Cat(a, b) /\ FlattenSeq(t) = Cat(c, d)
    BY <1>1, <1>2 DEF Cat
  <1>8. Len(a) = Len(c)
    <2>1. 1 \in 1..Len(s)
      BY <1>1
    <2> QED
      BY <2>1 DEF SameSizes
  <1> HIDE DEF a, b, c, d
  <1>9. a = c /\ Cat(b, e) = Cat(d, f)
    <2>1. Cat(Cat(a, b), e) = Cat(Cat(c, d), f)
      BY <1>7
    <2> QED
      BY <1>6, <1>8, <2>1, CatFrontOf
  <1> QED
    BY <1>9 DEF a, b, c, d

\* Two wholes with such parts in front have the same parts there, and the same rest.
LEMMA SameSizedParts ==
  ASSUME NEW S, NEW s \in Seq(Seq(S)), NEW t \in Seq(Seq(S)), NEW e \in Seq(S), NEW f \in Seq(S),
         SameSizes(s, t), Cat(FlattenSeq(s), e) = Cat(FlattenSeq(t), f)
  PROVE  s = t /\ e = f
  <1> DEFINE T == Seq(S)
             Alike(u, v) == SameSizes(u, v) /\ Cat(FlattenSeq(u), e) = Cat(FlattenSeq(v), f)
             P == {n \in 0..Len(s) :
                     \A u, v \in Seq(T) : Len(u) = n /\ Alike(u, v) => u = v /\ e = f}
  <1>1. s \in Seq(T) /\ t \in Seq(T) /\ Len(s) \in Nat
    BY LenProperties
  <1>2. Headed(S, T)
    BY HeadedHolds
  <1> HIDE DEF T
  <1>3. ASSUME NEW u \in Seq(T), NEW v \in Seq(T), Len(u) # 0, SameSizes(u, v),
               Cat(FlattenSeq(u), e) = Cat(FlattenSeq(v), f)
        PROVE  u[1] = v[1] /\ Cat(FlattenSeq(Tail(u)), e) = Cat(FlattenSeq(Tail(v)), f)
    BY <1>2, <1>3, SameFirstSize
  <1>4. 0 \in P
    <2>1. ASSUME NEW u \in Seq(T), NEW v \in Seq(T), Len(u) = 0, Alike(u, v)
          PROVE  u = v /\ e = f
      <3>1. Len(v) = 0
        BY <2>1 DEF SameSizes
      <3>2. u = <<>> /\ v = <<>>
        BY <2>1, <3>1, EmptySeq
      <3>3. Cat(<<>>, e) = e /\ Cat(<<>>, f) = f
        BY ConcatEmptySeq DEF Cat
      <3> QED
        BY <2>1, <3>2, <3>3, FlattenEmpty
    <2>2. 0 \in 0..Len(s)
      BY <1>1
    <2> QED
      BY <2>1, <2>2
  <1>5. ASSUME NEW m \in 0..Len(s), m \in P, m < Len(s)
        PROVE  m + 1 \in P
    <2>1. m + 1 \in 0..Len(s) /\ m + 1 # 0 /\ (m + 1) - 1 = m
      BY <1>1, <1>5
    <2>2. ASSUME NEW u \in Seq(T), NEW v \in Seq(T), Len(u) = m + 1, Alike(u, v)
          PROVE  u = v /\ e = f
      <3>1. Len(u) # 0 /\ Len(v) = Len(u) /\ \A k \in 1..Len(u) : Len(v[k]) = Len(u[k])
        BY <2>1, <2>2 DEF SameSizes
      <3>2. /\ Tail(u) \in Seq(T) /\ Len(Tail(u)) = m /\ u = <<u[1]>> \o Tail(u)
            /\ \A k \in 1..m : Tail(u)[k] = u[k + 1]
        BY <2>1, <2>2, <3>1, HeadAndTail
      <3>3. /\ Tail(v) \in Seq(T) /\ Len(Tail(v)) = m /\ v = <<v[1]>> \o Tail(v)
            /\ \A k \in 1..m : Tail(v)[k] = v[k + 1]
        BY <2>1, <2>2, <3>1, HeadAndTail
      <3>4. u[1] = v[1] /\ Cat(FlattenSeq(Tail(u)), e) = Cat(FlattenSeq(Tail(v)), f)
        BY <1>3, <2>2, <3>1
      <3>5. SameSizes(Tail(u), Tail(v))
        <4>1. \A k \in 1..m : k + 1 \in 1..Len(u)
          BY <1>1, <2>2
        <4>2. \A k \in 1..m : Len(Tail(v)[k]) = Len(Tail(u)[k])
          BY <3>1, <3>2, <3>3, <4>1
        <4> QED
          BY <3>2, <3>3, <4>2 DEF SameSizes
      <3>6. Alike(Tail(u), Tail(v))
        BY <3>4, <3>5
      <3>7. Tail(u) = Tail(v) /\ e = f
        BY <1>5, <3>2, <3>3, <3>6
      <3> QED
        BY <3>2, <3>3, <3>4, <3>7, Zenon
    <2> QED
      BY <2>1, <2>2
  <1> HIDE DEF P
  <1>6. Len(s) \in P
    <2>1. \A m \in 0..Len(s) : m \in P
      BY <1>1, <1>4, <1>5, IntervalInduction
    <2> QED
      BY <1>1, <2>1
  <1> QED
    BY <1>1, <1>6 DEF P

=============================================================================
