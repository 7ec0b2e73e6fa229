--------------------------- MODULE MessageProofs ---------------------------
(***************************************************************************)
(* The text that members sign: what its header says, that it is built when *)
(* it fits, and that it tells the request it is about; and the addresses   *)
(* in it, for every buffer and all bytes.                                  *)
(***************************************************************************)
EXTENDS Message, RecursionLemmas

Bytes == Seq(0..255)

(***************************************************************************)
(* Places and the number they spell.                                       *)
(***************************************************************************)

LEMMA SeqAt ==
  ASSUME NEW S, NEW s \in Seq(S)
  PROVE  Len(s) \in Nat /\ DOMAIN s = 1..Len(s) /\ \A n \in 1..Len(s) : s[n] \in S
  BY LenProperties

LEMMA BytesAt ==
  ASSUME NEW bytes \in Bytes
  PROVE  bytes \in Seq(Nat) /\ Len(bytes) \in Nat /\ \A n \in 1..Len(bytes) : bytes[n] \in 0..255
  <1>1. bytes \in Seq(0..255) /\ Len(bytes) \in Nat /\ \A n \in 1..Len(bytes) : bytes[n] \in 0..255
    BY SeqAt DEF Bytes
  <1>2. \A x \in 0..255 : x \in Nat
    OBVIOUS
  <1>3. \A n \in 1..Len(bytes) : bytes[n] \in Nat
    BY <1>1, <1>2
  <1> QED
    BY <1>1, <1>3

LEMMA ValuesAre ==
  ASSUME NEW places \in Seq(Nat), NEW base \in Nat
  PROVE  /\ Values(places, base) \in [0..Len(places) -> Nat]
         /\ Values(places, base)[0] = 0
         /\ \A n \in 1..Len(places) :
              Values(places, base)[n] = base * Values(places, base)[n - 1] + places[n]
  <1> DEFINE size == Len(places)
             D == [x \in Nat \X (1..size) |-> base * x[1] + places[x[2]]]
             value[n \in 0..size] == IF n = 0 THEN 0 ELSE base * value[n - 1] + places[n]
  <1>1. size \in Nat /\ \A n \in 1..size : places[n] \in Nat
    BY SeqAt
  <1>2. \A x, y \in Nat : base * x + y \in Nat
    OBVIOUS
  <1>3. D \in [Nat \X ((0 + 1)..size) -> Nat]
    <2>1. \A x \in Nat \X (1..size) : base * x[1] + places[x[2]] \in Nat
      <3> SUFFICES ASSUME NEW x \in Nat \X (1..size)
                   PROVE  base * x[1] + places[x[2]] \in Nat
        OBVIOUS
      <3>1. x[1] \in Nat /\ places[x[2]] \in Nat
        BY <1>1
      <3> QED
        BY <1>2, <3>1
    <2>2. 0 + 1 = 1
      OBVIOUS
    <2> HIDE DEF size
    <2> QED
      BY <2>1, <2>2
  <1>4. PICK g \in [0..size -> Nat] : Iterates(g, 0, size, 0, D)
    <2> HIDE DEF D
    <2>1. 0 \in Nat /\ 0 <= size
      BY <1>1
    <2> QED
      BY <1>1, <1>3, <2>1, Iteration
  <1>5. ASSUME NEW n \in 0..size
        PROVE  g[n] = IF n = 0 THEN 0 ELSE base * g[n - 1] + places[n]
    <2>1. CASE n = 0
      BY <1>4, <2>1 DEF Iterates
    <2>2. CASE n # 0
      <3>1. n \in 1..size /\ n \in (0 + 1)..size /\ n - 1 \in 0..size
        BY <1>1, <2>2
      <3>2. g[n - 1] \in Nat
        BY <3>1
      <3>3. g[n] = D[<<g[n - 1], n>>]
        BY <1>4, <3>1 DEF Iterates
      <3>4. D[<<g[n - 1], n>>] = base * g[n - 1] + places[n]
        BY <3>1, <3>2
      <3> QED
        BY <2>2, <3>3, <3>4
    <2> QED
      BY <2>1, <2>2
  <1>6. g = [n \in 0..size |-> IF n = 0 THEN 0 ELSE base * g[n - 1] + places[n]]
    BY <1>5
  <1>7. value = [n \in 0..size |-> IF n = 0 THEN 0 ELSE base * value[n - 1] + places[n]]
    BY <1>6, Zenon
  <1>8. Values(places, base) = value
    BY Zenon DEF Values
  <1> HIDE DEF value, D
  <1>9. /\ value[0] = 0
        /\ \A n \in 1..size : value[n] = base * value[n - 1] + places[n]
    BY <1>1, <1>7
  <1>10. \A n \in 0..size : value[n] \in Nat
    <2> DEFINE P == {n \in 0..size : value[n] \in Nat}
    <2>1. 0 \in P
      BY <1>1, <1>9
    <2>2. ASSUME NEW m \in 0..size, m \in P, m < size
          PROVE  m + 1 \in P
      <3>1. m + 1 \in 1..size /\ m + 1 \in 0..size /\ (m + 1) - 1 = m
        BY <1>1, <2>2
      <3>2. value[m + 1] = base * value[m] + places[m + 1]
        BY <1>9, <3>1
      <3>3. value[m] \in Nat /\ places[m + 1] \in Nat
        BY <1>1, <2>2, <3>1
      <3>4. value[m + 1] \in Nat
        BY <1>2, <3>2, <3>3
      <3> QED
        BY <3>1, <3>4
    <2> HIDE DEF P
    <2>3. \A m \in 0..size : m \in P
      BY <1>1, <2>1, <2>2, IntervalInduction
    <2> QED
      BY <2>3 DEF P
  <1> QED
    BY <1>7, <1>8, <1>9, <1>10

\* Equally many bytes with the same value are the same.
LEMMA ValueDetermines ==
  ASSUME NEW bytes \in Bytes, NEW other \in Bytes, Len(bytes) = Len(other),
         Value(bytes, 256) = Value(other, 256)
  PROVE  bytes = other
  <1> DEFINE size == Len(bytes)
             g == Values(bytes, 256)
             h == Values(other, 256)
  <1>1. size \in Nat /\ \A n \in 1..size : bytes[n] \in 0..255 /\ other[n] \in 0..255
    BY BytesAt
  <1>2. bytes \in Seq(Nat) /\ other \in Seq(Nat)
    BY BytesAt
  <1>3. /\ g \in [0..size -> Nat] /\ h \in [0..size -> Nat]
        /\ \A n \in 1..size : g[n] = 256 * g[n - 1] + bytes[n] /\ h[n] = 256 * h[n - 1] + other[n]
    BY <1>2, ValuesAre
  <1>4. g[size] = h[size]
    BY DEF Value
  <1> HIDE DEF g, h
  <1>5. ASSUME NEW k \in 1..size
        PROVE  bytes[k] = other[k]
    <2> HIDE DEF size
    <2> DEFINE P == {n \in 0..size : g[size - n] = h[size - n]}
    <2>1. ASSUME NEW n \in 1..size, g[n] = h[n]
          PROVE  g[n - 1] = h[n - 1] /\ bytes[n] = other[n]
      <3> DEFINE x == g[n - 1]
                 y == h[n - 1]
                 a == bytes[n]
                 b == other[n]
      <3>1. x \in Nat /\ y \in Nat /\ a \in 0..255 /\ b \in 0..255
        <4>1. n - 1 \in 0..size
          BY <1>1
        <4>2. x \in Nat /\ y \in Nat
          BY <1>3, <4>1
        <4> HIDE DEF x, y
        <4> QED
          BY <1>1, <4>2
      <3>2. 256 * x + a = 256 * y + b
        BY <1>3, <2>1
      <3> HIDE DEF x, y, a, b
      <3>3. x = y
        BY <3>1, <3>2
      <3>4. a = b
        BY <3>1, <3>2, <3>3
      <3> QED
        BY <3>3, <3>4 DEF x, y, a, b
    <2>2. 0 \in P
      <3>1. 0 \in 0..size /\ size - 0 = size
        BY <1>1
      <3> QED
        BY <1>4, <3>1
    <2>3. ASSUME NEW m \in 0..size, m \in P, m < size
          PROVE  m + 1 \in P
      <3>1. size - m \in 1..size /\ (size - m) - 1 = size - (m + 1) /\ m + 1 \in 0..size
        BY <1>1, <2>3
      <3>2. g[(size - m) - 1] = h[(size - m) - 1]
        BY <2>1, <2>3, <3>1
      <3> QED
        BY <3>1, <3>2
    <2> HIDE DEF P
    <2>4. \A m \in 0..size : m \in P
      BY <1>1, <2>2, <2>3, IntervalInduction
    <2>5. size - k \in 0..size /\ size - (size - k) = k
      BY <1>1
    <2>6. g[k] = h[k]
      BY <2>4, <2>5 DEF P
    <2> QED
      BY <2>1, <2>6
  <1> QED
    BY <1>5, SeqEqual DEF Bytes

LEMMA LeadingZerosAre ==
  ASSUME NEW bytes \in Seq(Nat)
  PROVE  LET n == LeadingZeros(bytes)
         IN  /\ n \in 0..Len(bytes)
             /\ \A k \in 1..n : bytes[k] = 0
             /\ n < Len(bytes) => bytes[n + 1] # 0
  <1> DEFINE size == Len(bytes)
             T == {n \in 0..size : n = size \/ bytes[n + 1] # 0}
  <1>1. size \in Nat
    BY SeqAt
  <1>2. T \in SUBSET Nat /\ T # {}
    <2>1. size \in T
      BY <1>1
    <2> QED
      BY <1>1, <2>1
  <1>3. PICK n \in T : \A m \in T : n <= m
    <2> HIDE DEF T
    <2> QED
      BY <1>2, LeastNat
  <1>4. ASSUME NEW k \in 1..n
        PROVE  bytes[k] = 0
    <2>1. k - 1 \in 0..size /\ k - 1 # size /\ (k - 1) + 1 = k /\ ~ (n <= k - 1)
      BY <1>1, <1>3
    <2>2. k - 1 \notin T
      BY <1>3, <2>1
    <2> QED
      BY <2>1, <2>2
  <1>5. n \in 0..size /\ (n < size => bytes[n + 1] # 0)
    BY <1>1, <1>3
  <1> HIDE DEF T
  <1> QED
    BY <1>4, <1>5, Zenon DEF LeadingZeros

LEMMA LeadingZerosUnique ==
  ASSUME NEW bytes \in Seq(Nat), NEW n \in 0..Len(bytes),
         \A k \in 1..n : bytes[k] = 0, n < Len(bytes) => bytes[n + 1] # 0
  PROVE  LeadingZeros(bytes) = n
  <1> DEFINE m == LeadingZeros(bytes)
  <1>1. /\ m \in 0..Len(bytes) /\ \A k \in 1..m : bytes[k] = 0
        /\ m < Len(bytes) => bytes[m + 1] # 0
    BY LeadingZerosAre
  <1>2. Len(bytes) \in Nat
    BY SeqAt
  <1> HIDE DEF m
  <1>3. ~ (m < n)
    <2> SUFFICES ASSUME m < n
                 PROVE  FALSE
      OBVIOUS
    <2>1. m + 1 \in 1..n /\ m < Len(bytes)
      BY <1>1, <1>2
    <2> QED
      BY <1>1, <2>1
  <1>4. ~ (n < m)
    <2> SUFFICES ASSUME n < m
                 PROVE  FALSE
      OBVIOUS
    <2>1. n + 1 \in 1..m /\ n < Len(bytes)
      BY <1>1, <1>2
    <2> QED
      BY <1>1, <2>1
  <1>5. m = n
    BY <1>1, <1>2, <1>3, <1>4
  <1> QED
    BY <1>5 DEF m

(***************************************************************************)
(* One round of encode_base58.                                             *)
(***************************************************************************)

LEMMA ReverseIs ==
  ASSUME NEW S, NEW s \in Seq(S)
  PROVE  /\ Reverse(s) \in Seq(S) /\ Len(Reverse(s)) = Len(s)
         /\ \A n \in 1..Len(s) : Reverse(s)[n] = s[Len(s) - n + 1]
  <1>1. Len(s) \in Nat /\ \A n \in 1..Len(s) : s[n] \in S
    BY SeqAt
  <1>2. \A n \in 1..Len(s) : Len(s) - n + 1 \in 1..Len(s)
    BY <1>1
  <1> QED
    BY <1>1, <1>2 DEF Reverse

\* The number that the digits from the highest down to one after the other spell.
Tops(ds, t) ==
  /\ t \in [0..Len(ds) -> Nat] /\ t[Len(ds)] = 0
  /\ \A k \in 1..Len(ds) : t[k - 1] = 58 * t[k] + ds[k]

LEMMA TopsExist ==
  ASSUME NEW ds \in Seq(Nat)
  PROVE  \E t : Tops(ds, t) /\ t[0] = Value(Reverse(ds), 58)
  <1> DEFINE n == Len(ds)
             r == Reverse(ds)
             g == Values(r, 58)
             t == [k \in 0..n |-> g[n - k]]
  <1>1. n \in Nat
    BY SeqAt
  <1>2. r \in Seq(Nat) /\ Len(r) = n /\ \A k \in 1..n : r[k] = ds[n - k + 1]
    BY ReverseIs
  <1> HIDE DEF r
  <1>3. /\ g \in [0..n -> Nat] /\ g[0] = 0
        /\ \A k \in 1..n : g[k] = 58 * g[k - 1] + r[k]
    <2>1. /\ g \in [0..Len(r) -> Nat] /\ g[0] = 0
          /\ \A k \in 1..Len(r) : g[k] = 58 * g[k - 1] + r[k]
      BY <1>2, ValuesAre
    <2>2. Len(r) = n
      BY <1>2
    <2> HIDE DEF g, n
    <2> QED
      BY <2>1, <2>2
  <1>4. Value(r, 58) = g[n]
    BY <1>2, Zenon DEF Value
  <1> HIDE DEF g, n
  <1>5. t \in [0..n -> Nat] /\ t[n] = 0 /\ t[0] = g[n]
    <2>1. \A k \in 0..n : n - k \in 0..n
      BY <1>1
    <2>2. n - n = 0 /\ n - 0 = n /\ n \in 0..n /\ 0 \in 0..n
      BY <1>1
    <2> QED
      BY <1>3, <2>1, <2>2
  <1>6. ASSUME NEW k \in 1..n
        PROVE  t[k - 1] = 58 * t[k] + ds[k]
    <2>1. /\ k - 1 \in 0..n /\ k \in 0..n /\ n - (k - 1) \in 1..n
          /\ (n - (k - 1)) - 1 = n - k /\ n - (n - (k - 1)) + 1 = k
      BY <1>1
    <2>2. g[n - (k - 1)] = 58 * g[n - k] + r[n - (k - 1)]
      BY <1>3, <2>1
    <2>3. r[n - (k - 1)] = ds[k]
      BY <1>2, <2>1
    <2> QED
      BY <2>1, <2>2, <2>3
  <1> HIDE DEF t
  <1> QED
    BY <1>4, <1>5, <1>6 DEF Tops, n, r

Round(ds, byte, sum) ==
  /\ sum \in [0..(Len(ds) + 2) -> Nat] /\ sum[0] = 58 * byte
  /\ \A j \in 1..(Len(ds) + 2) :
       sum[j] = (sum[j - 1] \div 58) + (IF j <= Len(ds) THEN ds[j] * 256 ELSE 0)

LEMMA SumsAre ==
  ASSUME NEW ds \in Seq(0..57), NEW byte \in 0..255
  PROVE  Round(ds, byte, Sums(ds, byte))
  <1> DEFINE n == Len(ds)
             add(j) == IF j <= n THEN ds[j] * 256 ELSE 0
             D == [x \in Nat \X (1..(n + 2)) |-> (x[1] \div 58) + add(x[2])]
             sum[j \in 0..(n + 2)] ==
               IF j = 0 THEN 58 * byte
               ELSE (sum[j - 1] \div 58) + (IF j <= n THEN ds[j] * 256 ELSE 0)
  <1>1. n \in Nat /\ \A j \in 1..n : ds[j] \in 0..57
    BY SeqAt
  <1>2. ASSUME NEW j \in 1..(n + 2)
        PROVE  add(j) \in Nat
    <2>1. CASE j <= n
      <3>1. ds[j] \in 0..57
        BY <1>1, <2>1
      <3>2. \A x \in 0..57 : x * 256 \in Nat
        OBVIOUS
      <3>3. add(j) = ds[j] * 256
        BY <2>1
      <3> QED
        BY <3>1, <3>2, <3>3, Zenon
    <2>2. CASE ~ (j <= n)
      BY <2>2
    <2> QED
      BY <2>1, <2>2
  <1>3. \A x, y \in Nat : (x \div 58) + y \in Nat
    OBVIOUS
  <1> HIDE DEF n, add
  <1>4. D \in [Nat \X ((0 + 1)..(n + 2)) -> Nat]
    <2>1. 0 + 1 = 1
      OBVIOUS
    <2>2. ASSUME NEW x \in Nat \X (1..(n + 2))
          PROVE  (x[1] \div 58) + add(x[2]) \in Nat
      <3>1. x[1] \in Nat /\ add(x[2]) \in Nat
        BY <1>2
      <3> QED
        BY <1>3, <3>1
    <2> QED
      BY <2>1, <2>2
  <1>5. 58 * byte \in Nat /\ n + 2 \in Nat /\ 0 <= n + 2
    BY <1>1
  <1>6. PICK g \in [0..(n + 2) -> Nat] : Iterates(g, 0, n + 2, 58 * byte, D)
    <2> HIDE DEF D
    <2>1. 0 \in Nat
      OBVIOUS
    <2> QED
      BY <1>4, <1>5, <2>1, Iteration
  <1>7. ASSUME NEW j \in 0..(n + 2)
        PROVE  g[j] = IF j = 0 THEN 58 * byte ELSE (g[j - 1] \div 58) + add(j)
    <2>1. CASE j = 0
      BY <1>6, <2>1 DEF Iterates
    <2>2. CASE j # 0
      <3>1. j \in 1..(n + 2) /\ j \in (0 + 1)..(n + 2) /\ j - 1 \in 0..(n + 2)
        BY <1>1, <2>2
      <3>2. g[j - 1] \in Nat
        BY <3>1
      <3>3. g[j] = D[<<g[j - 1], j>>]
        BY <1>6, <3>1 DEF Iterates
      <3>4. D[<<g[j - 1], j>>] = (g[j - 1] \div 58) + add(j)
        BY <3>1, <3>2
      <3> QED
        BY <2>2, <3>3, <3>4
    <2> QED
      BY <2>1, <2>2
  <1> HIDE DEF D
  <1>8. g = [j \in 0..(n + 2) |-> IF j = 0 THEN 58 * byte
                                 ELSE (g[j - 1] \div 58) + (IF j <= n THEN ds[j] * 256 ELSE 0)]
    BY <1>7 DEF add
  <1>9. sum = [j \in 0..(n + 2) |-> IF j = 0 THEN 58 * byte
                                   ELSE (sum[j - 1] \div 58) + (IF j <= n THEN ds[j] * 256 ELSE 0)]
    BY <1>8, Zenon
  <1>10. Sums(ds, byte) = sum
    BY Zenon DEF Sums, n
  <1> HIDE DEF sum
  <1>11. sum[0] = 58 * byte /\ \A j \in 1..(n + 2) : sum[j] = (sum[j - 1] \div 58) + add(j)
    BY <1>1, <1>9 DEF add
  <1>12. \A j \in 0..(n + 2) : sum[j] \in Nat
    <2> DEFINE P == {j \in 0..(n + 2) : sum[j] \in Nat}
    <2>1. 0 \in P
      BY <1>5, <1>11
    <2>2. ASSUME NEW m \in 0..(n + 2), m \in P, m < n + 2
          PROVE  m + 1 \in P
      <3>1. m + 1 \in 1..(n + 2) /\ m + 1 \in 0..(n + 2) /\ (m + 1) - 1 = m
        BY <1>1, <2>2
      <3>2. sum[m] \in Nat /\ add(m + 1) \in Nat
        BY <1>2, <2>2, <3>1
      <3>3. sum[m + 1] \in Nat
        BY <1>3, <1>11, <3>1, <3>2
      <3> QED
        BY <3>1, <3>3
    <2> HIDE DEF P
    <2>3. \A m \in 0..(n + 2) : m \in P
      BY <1>5, <2>1, <2>2, IntervalInduction
    <2> QED
      BY <2>3 DEF P
  <1>13. sum \in [0..(n + 2) -> Nat]
    BY <1>9, <1>12
  <1> QED
    BY <1>10, <1>11, <1>13 DEF Round, add, n

\* No more than two places are added.
LEMMA SumsBounded ==
  ASSUME NEW ds \in Seq(0..57), NEW byte \in 0..255, NEW sum, Round(ds, byte, sum)
  PROVE  sum[Len(ds) + 2] < 58
  <1> DEFINE n == Len(ds)
             P == {j \in 0..n : sum[j] <= 14847}
  <1>1. n \in Nat /\ \A j \in 1..n : ds[j] \in 0..57
    BY SeqAt
  <1>2. /\ sum \in [0..(n + 2) -> Nat] /\ sum[0] = 58 * byte
        /\ \A j \in 1..(n + 2) :
             sum[j] = (sum[j - 1] \div 58) + (IF j <= n THEN ds[j] * 256 ELSE 0)
    BY DEF Round
  <1> HIDE DEF n
  <1>3. 0 \in P
    <2>1. 58 * byte <= 14847 /\ 0 \in 0..n
      BY <1>1
    <2> QED
      BY <1>2, <2>1
  <1>4. ASSUME NEW m \in 0..n, m \in P, m < n
        PROVE  m + 1 \in P
    <2>1. m + 1 \in 1..n /\ m + 1 \in 1..(n + 2) /\ (m + 1) - 1 = m /\ m + 1 <= n
          /\ m + 1 \in 0..n /\ m \in 0..(n + 2)
      BY <1>1, <1>4
    <2> DEFINE x == sum[m]
               y == ds[m + 1]
    <2>2. sum[m + 1] = (x \div 58) + y * 256
      BY <1>2, <2>1
    <2>3. x \in Nat /\ x <= 14847 /\ y \in 0..57
      BY <1>1, <1>2, <1>4, <2>1
    <2> HIDE DEF x, y
    <2>4. sum[m + 1] <= 14847
      BY <2>2, <2>3
    <2> QED
      BY <2>1, <2>4
  <1> HIDE DEF P
  <1>5. sum[n] <= 14847 /\ sum[n] \in Nat
    <2>1. \A m \in 0..n : m \in P
      BY <1>1, <1>3, <1>4, IntervalInduction
    <2>2. n \in 0..n /\ n \in 0..(n + 2)
      BY <1>1
    <2> QED
      BY <1>2, <2>1, <2>2 DEF P
  <1>6. sum[n + 1] = sum[n] \div 58 /\ sum[n + 2] = sum[n + 1] \div 58
    <2>1. /\ n + 1 \in 1..(n + 2) /\ (n + 1) - 1 = n /\ ~ (n + 1 <= n)
          /\ n + 2 \in 1..(n + 2) /\ (n + 2) - 1 = n + 1 /\ ~ (n + 2 <= n)
          /\ n \in 0..(n + 2) /\ n + 1 \in 0..(n + 2)
      BY <1>1
    <2>2. \A x \in Nat : (x \div 58) + 0 = x \div 58
      OBVIOUS
    <2>3. sum[n] \in Nat /\ sum[n + 1] \in Nat
      BY <1>2, <2>1
    <2> QED
      BY <1>2, <2>1, <2>2, <2>3
  <1>7. sum[n + 1] \in Nat /\ sum[n + 1] <= 255
    BY <1>5, <1>6
  <1> QED
    BY <1>6, <1>7 DEF n


\* The new digits: a 58th is carried out of every place below the new top, and
\* of no place before the old one is it left to see.
GrownTo(ds, byte, top) ==
  /\ top \in Len(ds)..(Len(ds) + 2)
  /\ Sums(ds, byte)[top] < 58
  /\ \A k \in Len(ds)..(top - 1) : Sums(ds, byte)[k] >= 58
  /\ Grown(ds, byte) \in Seq(0..57) /\ Len(Grown(ds, byte)) = top
  /\ \A j \in 1..top : Grown(ds, byte)[j] = Sums(ds, byte)[j] % 58

LEMMA GrownIs ==
  ASSUME NEW ds \in Seq(0..57), NEW byte \in 0..255
  PROVE  \E top : GrownTo(ds, byte, top)
  <1> DEFINE n == Len(ds)
             sum == Sums(ds, byte)
             T == {k \in n..(n + 2) : sum[k] < 58}
             top == CHOOSE m \in n..(n + 2) :
                      /\ sum[m] < 58
                      /\ \A k \in n..(m - 1) : sum[k] >= 58
  <1>1. n \in Nat
    BY SeqAt
  <1>2. Round(ds, byte, sum)
    BY SumsAre
  <1>3. sum \in [0..(n + 2) -> Nat]
    BY <1>2 DEF Round
  <1>4. Grown(ds, byte) = [j \in 1..top |-> sum[j] % 58]
    BY Zenon DEF Grown
  <1>5. sum[n + 2] < 58
    BY <1>2, SumsBounded
  <1> HIDE DEF sum, n
  <1>6. PICK m \in T : \A k \in T : m <= k
    <2>1. T \in SUBSET Nat /\ T # {}
      BY <1>1, <1>5
    <2> HIDE DEF T
    <2> QED
      BY <2>1, LeastNat
  <1>7. m \in n..(n + 2) /\ sum[m] < 58 /\ \A k \in n..(m - 1) : sum[k] >= 58
    <2>1. ASSUME NEW k \in n..(m - 1)
          PROVE  sum[k] >= 58
      <3>1. k \in n..(n + 2) /\ k \in 0..(n + 2) /\ ~ (m <= k)
        BY <1>1
      <3>2. k \notin T
        BY <1>6, <3>1
      <3>3. ~ (sum[k] < 58) /\ sum[k] \in Nat
        BY <1>3, <3>1, <3>2
      <3> QED
        BY <3>3
    <2> QED
      BY <2>1
  <1>8. top \in n..(n + 2) /\ sum[top] < 58 /\ \A k \in n..(top - 1) : sum[k] >= 58
    BY <1>7, Zenon
  <1> HIDE DEF top
  <1>9. \A j \in 1..top : sum[j] % 58 \in 0..57
    <2>1. \A x \in Nat : x % 58 \in 0..57
      OBVIOUS
    <2>2. \A j \in 1..top : sum[j] \in Nat
      BY <1>1, <1>3, <1>8
    <2> QED
      BY <2>1, <2>2
  <1>10. top \in Nat
    BY <1>1, <1>8
  <1>11. Grown(ds, byte) \in Seq(0..57) /\ Len(Grown(ds, byte)) = top
    BY <1>4, <1>9, <1>10
  <1>12. \A j \in 1..top : Grown(ds, byte)[j] = sum[j] % 58
    BY <1>4
  <1> QED
    BY <1>8, <1>11, <1>12 DEF GrownTo, n, sum

LEMMA GrownTop ==
  ASSUME NEW ds \in Seq(0..57), NEW byte \in 0..255, Len(ds) # 0 => ds[Len(ds)] # 0,
         NEW top, GrownTo(ds, byte, top), top # 0
  PROVE  Grown(ds, byte)[top] # 0
  <1> DEFINE n == Len(ds)
             sum == Sums(ds, byte)
  <1>1. n \in Nat /\ \A j \in 1..n : ds[j] \in 0..57
    BY SeqAt, SMTT(40)
  <1>2. /\ sum \in [0..(n + 2) -> Nat]
        /\ \A j \in 1..(n + 2) :
             sum[j] = (sum[j - 1] \div 58) + (IF j <= n THEN ds[j] * 256 ELSE 0)
    BY SumsAre DEF Round
  <1>3. /\ top \in n..(n + 2) /\ sum[top] < 58 /\ \A k \in n..(top - 1) : sum[k] >= 58
        /\ \A j \in 1..top : Grown(ds, byte)[j] = sum[j] % 58
    BY DEF GrownTo
  <1>4. n # 0 => ds[n] # 0
    OBVIOUS
  <1> HIDE DEF n, sum
  <1>5. top \in 1..(n + 2) /\ top - 1 \in 0..(n + 2)
    BY <1>1, <1>3
  <1> DEFINE x == sum[top - 1]
             y == sum[top]
  <1>6. x \in Nat /\ y \in Nat
    BY <1>2, <1>5
  <1>7. y # 0
    <2>1. CASE top = n
      <3> DEFINE z == ds[n]
      <3>1. z \in 0..57 /\ z # 0
        BY <1>1, <1>4, <1>5, <2>1
      <3>2. y = (x \div 58) + z * 256
        BY <1>2, <1>5, <2>1
      <3> HIDE DEF x, y, z
      <3> QED
        BY <1>6, <3>1, <3>2
    <2>2. CASE top # n
      <3>1. top - 1 \in n..(top - 1) /\ ~ (top <= n)
        BY <1>1, <1>3, <1>5, <2>2
      <3>2. y = (x \div 58) + 0 /\ x >= 58
        BY <1>2, <1>3, <1>5, <3>1
      <3> HIDE DEF x, y
      <3> QED
        BY <1>6, <3>2
    <2> QED
      BY <2>1, <2>2
  <1>8. Grown(ds, byte)[top] = y % 58 /\ y < 58
    BY <1>3, <1>5
  <1> HIDE DEF x, y
  <1>9. y % 58 = y
    BY <1>6, <1>8
  <1> QED
    BY <1>7, <1>8, <1>9

\* The digits spell 256 times the number before, and the byte.
LEMMA GrownValue ==
  ASSUME NEW ds \in Seq(0..57), NEW byte \in 0..255
  PROVE  Value(Reverse(Grown(ds, byte)), 58) = 256 * Value(Reverse(ds), 58) + byte
  <1> DEFINE n == Len(ds)
             sum == Sums(ds, byte)
             new == Grown(ds, byte)
  <1>1. n \in Nat /\ \A j \in 1..n : ds[j] \in 0..57
    BY SeqAt
  <1>2. /\ sum \in [0..(n + 2) -> Nat] /\ sum[0] = 58 * byte
        /\ \A j \in 1..(n + 2) :
             sum[j] = (sum[j - 1] \div 58) + (IF j <= n THEN ds[j] * 256 ELSE 0)
    BY SumsAre DEF Round
  <1>3. PICK top : GrownTo(ds, byte, top)
    BY GrownIs
  <1>4. /\ top \in n..(n + 2) /\ sum[top] < 58
        /\ new \in Seq(0..57) /\ Len(new) = top
        /\ \A j \in 1..top : new[j] = sum[j] % 58
    BY <1>3 DEF GrownTo
  <1>5. ds \in Seq(Nat) /\ new \in Seq(Nat)
    <2>1. \A s \in Seq(0..57) : s \in Seq(Nat)
      <3> SUFFICES ASSUME NEW s \in Seq(0..57)
                   PROVE  s \in Seq(Nat)
        OBVIOUS
      <3>1. \A j \in 1..Len(s) : s[j] \in 0..57
        BY SeqAt
      <3>2. \A x \in 0..57 : x \in Nat
        OBVIOUS
      <3>3. \A j \in 1..Len(s) : s[j] \in Nat
        BY <3>1, <3>2
      <3> QED
        BY <3>3
    <2> QED
      BY <1>4, <2>1
  <1>6. PICK t : Tops(ds, t) /\ t[0] = Value(Reverse(ds), 58)
    BY <1>5, TopsExist
  <1>7. PICK u : Tops(new, u) /\ u[0] = Value(Reverse(new), 58)
    BY <1>5, TopsExist
  <1>8. /\ t \in [0..n -> Nat] /\ t[n] = 0
        /\ \A k \in 1..n : t[k - 1] = 58 * t[k] + ds[k]
    BY <1>6 DEF Tops
  <1>9. /\ u \in [0..top -> Nat] /\ u[top] = 0
        /\ \A k \in 1..top : u[k - 1] = 58 * u[k] + new[k]
    BY <1>4, <1>7 DEF Tops
  <1> HIDE DEF n, sum, new
  <1> DEFINE e == [k \in 0..(n + 2) |-> IF k <= n THEN t[k] ELSE 0]
             d == [k \in 1..(n + 2) |-> IF k <= n THEN ds[k] ELSE 0]
  <1>10. e \in [0..(n + 2) -> Nat] /\ d \in [1..(n + 2) -> Nat]
    <2>1. \A k \in 0..(n + 2) : k <= n => t[k] \in Nat
      BY <1>1, <1>8
    <2>2. \A k \in 1..(n + 2) : k <= n => ds[k] \in Nat
      <3>1. \A x \in 0..57 : x \in Nat
        OBVIOUS
      <3>2. \A k \in 1..(n + 2) : k <= n => k \in 1..n
        BY <1>1
      <3> QED
        BY <1>1, <3>1, <3>2, Zenon
    <2> QED
      BY <2>1, <2>2
  <1>11. \A k \in 1..(n + 2) : e[k - 1] = 58 * e[k] + d[k]
    <2> SUFFICES ASSUME NEW k \in 1..(n + 2)
                 PROVE  e[k - 1] = 58 * e[k] + d[k]
      OBVIOUS
    <2>1. k - 1 \in 0..(n + 2) /\ k \in 0..(n + 2)
      BY <1>1
    <2>2. CASE k <= n
      <3>1. k \in 1..n /\ k - 1 <= n
        BY <1>1, <2>2
      <3>2. e[k - 1] = t[k - 1] /\ e[k] = t[k] /\ d[k] = ds[k]
        BY <2>1, <2>2, <3>1
      <3> QED
        BY <1>8, <3>1, <3>2
    <2>3. CASE ~ (k <= n)
      <3>1. e[k] = 0 /\ d[k] = 0
        BY <2>1, <2>3
      <3>2. e[k - 1] = 0
        <4>1. CASE k - 1 = n
          <5>1. n <= n /\ n \in 0..(n + 2)
            BY <1>1
          <5> QED
            BY <1>8, <4>1, <5>1
        <4>2. CASE k - 1 # n
          <5>1. ~ (k - 1 <= n)
            BY <1>1, <2>3, <4>2
          <5> QED
            BY <2>1, <5>1
        <4> QED
          BY <4>1, <4>2
      <3>3. 58 * 0 + 0 = 0
        OBVIOUS
      <3> QED
        BY <3>1, <3>2, <3>3
    <2> QED
      BY <2>2, <2>3
  <1>12. \A k \in 1..(n + 2) : sum[k] = (sum[k - 1] \div 58) + 256 * d[k]
    <2> SUFFICES ASSUME NEW k \in 1..(n + 2)
                 PROVE  sum[k] = (sum[k - 1] \div 58) + 256 * d[k]
      OBVIOUS
    <2>1. CASE k <= n
      <3>1. sum[k] = (sum[k - 1] \div 58) + ds[k] * 256 /\ d[k] = ds[k]
        BY <1>2, <2>1
      <3>2. ds[k] \in Nat
        BY <1>10, <3>1
      <3>3. \A x \in Nat : x * 256 = 256 * x
        OBVIOUS
      <3>4. ds[k] * 256 = 256 * ds[k]
        BY <3>2, <3>3
      <3> QED
        BY <3>1, <3>4, Zenon
    <2>2. CASE ~ (k <= n)
      <3>1. sum[k] = (sum[k - 1] \div 58) + 0 /\ d[k] = 0
        BY <1>2, <2>2
      <3>2. 256 * 0 = 0
        OBVIOUS
      <3> QED
        BY <3>1, <3>2, ZenonT(60)
    <2> QED
      BY <2>1, <2>2
  <1>13. e[0] = t[0] /\ e[top] = 0
    <2>1. 0 \in 0..(n + 2) /\ 0 <= n /\ top \in 0..(n + 2) /\ (top = n \/ ~ (top <= n))
      BY <1>1, <1>4
    <2> QED
      BY <1>8, <2>1
  <1> HIDE DEF e, d
  <1> DEFINE P == {m \in 0..top : u[top - m] = 256 * e[top - m] + (sum[top - m] \div 58)}
  <1>14. top \in Nat /\ \A k \in 1..top : k \in 1..(n + 2) /\ k - 1 \in 0..top /\ k \in 0..(n + 2)
                                         /\ k - 1 \in 0..(n + 2)
    BY <1>1, <1>4
  <1>15. 0 \in P
    <2>1. top - 0 = top /\ 0 \in 0..top /\ top \in 0..(n + 2)
      BY <1>1, <1>4
    <2>2. sum[top] \in Nat /\ sum[top] < 58
      BY <1>2, <1>4, <2>1
    <2>3. 256 * 0 + (sum[top] \div 58) = 0
      BY <2>2
    <2> QED
      BY <1>9, <1>13, <2>1, <2>3
  <1>16. ASSUME NEW m \in 0..top, m \in P, m < top
         PROVE  m + 1 \in P
    <2> DEFINE k == top - m
    <2>1. k \in 1..top /\ top - (m + 1) = k - 1 /\ m + 1 \in 0..top
      BY <1>14, <1>16
    <2>2. u[k] = 256 * e[k] + (sum[k] \div 58)
      BY <1>16
    <2> HIDE DEF k
    <2> DEFINE uk == u[k]
               ek == e[k]
               sk == sum[k]
               dk == d[k]
               ul == u[k - 1]
               el == e[k - 1]
               sl == sum[k - 1]
    <2>3. /\ k \in 1..(n + 2) /\ k - 1 \in 0..top /\ k \in 0..top /\ k \in 0..(n + 2) /\ k - 1 \in 0..(n + 2)
      BY <1>14, <2>1
    <2>4. /\ uk \in Nat /\ ek \in Nat /\ sk \in Nat /\ dk \in Nat /\ ul \in Nat
          /\ el \in Nat /\ sl \in Nat
      BY <1>2, <1>9, <1>10, <2>3, ZenonT(60)
    <2>5. uk = 256 * ek + (sk \div 58)
      BY <2>2
    <2>6. ul = 58 * uk + (sk % 58)
      BY <1>4, <1>9, <2>1
    <2>7. sk = (sl \div 58) + 256 * dk
      BY <1>12, <2>3
    <2>8. el = 58 * ek + dk
      BY <1>11, <2>3
    <2> HIDE DEF uk, ek, sk, dk, ul, el, sl
    <2>9. sk = 58 * (sk \div 58) + (sk % 58)
      BY <2>4
    <2> DEFINE a == sk \div 58
               b == sk % 58
               c == sl \div 58
    <2>10. a \in Nat /\ b \in Nat /\ c \in Nat
      BY <2>4
    <2>11. uk = 256 * ek + a /\ ul = 58 * uk + b /\ sk = c + 256 * dk /\ sk = 58 * a + b
      BY <2>5, <2>6, <2>7, <2>9
    <2> HIDE DEF a, b, c
    <2>12. ul = 256 * el + c
      BY <2>4, <2>8, <2>10, <2>11
    <2>13. u[k - 1] = 256 * e[k - 1] + (sum[k - 1] \div 58)
      BY <2>12 DEF ul, el, sl, c
    <2> QED
      BY <2>1, <2>13
  <1> HIDE DEF P
  <1>17. top \in P
    <2>1. \A m \in 0..top : m \in P
      BY <1>14, <1>15, <1>16, IntervalInduction
    <2>2. top \in 0..top
      BY <1>14
    <2> QED
      BY <2>1, <2>2
  <1>18. u[0] = 256 * e[0] + (sum[0] \div 58)
    <2>1. top - top = 0
      BY <1>14
    <2> QED
      BY <1>17, <2>1 DEF P
  <1>19. sum[0] \div 58 = byte
    <2>1. \A x \in 0..255 : (58 * x) \div 58 = x
      OBVIOUS
    <2> QED
      BY <1>2, <2>1
  <1>20. u[0] = 256 * t[0] + byte
    BY <1>13, <1>18, <1>19
  <1> QED
    BY <1>6, <1>7, <1>20, SMTT(40) DEF new

(***************************************************************************)
(* encode_base58 as a whole.                                               *)
(***************************************************************************)

AddressBytes == {b \in Bytes : Len(b) <= 32}

\* The digits are those of the number that the consumed bytes spell, none of
\* them a zero in front.
Encodes(bytes, n, ds) ==
  /\ bytes \in AddressBytes
  /\ n \in LeadingZeros(bytes)..Len(bytes)
  /\ ds \in Seq(0..57)
  /\ Len(ds) # 0 => ds[Len(ds)] # 0
  /\ Value(Reverse(ds), 58) = Values(bytes, 256)[n]

LEMMA DigitsNat ==
  ASSUME NEW ds \in Seq(0..57)
  PROVE  /\ ds \in Seq(Nat) /\ Reverse(ds) \in Seq(Nat) /\ Len(Reverse(ds)) = Len(ds)
         /\ Len(ds) \in Nat
         /\ \A n \in 1..Len(ds) : Reverse(ds)[n] = ds[Len(ds) - n + 1] /\ Reverse(ds)[n] \in 0..57
  <1>1. \A j \in 1..Len(ds) : ds[j] \in 0..57
    BY SeqAt
  <1>2. \A x \in 0..57 : x \in Nat
    OBVIOUS
  <1>3. \A j \in 1..Len(ds) : ds[j] \in Nat
    BY <1>1, <1>2
  <1>4. ds \in Seq(Nat) /\ Len(ds) \in Nat
    BY <1>3
  <1>5. Reverse(ds) \in Seq(0..57) /\ Reverse(ds) \in Seq(Nat) /\ Len(Reverse(ds)) = Len(ds)
    BY <1>4, ReverseIs
  <1>6. \A n \in 1..Len(ds) : Reverse(ds)[n] = ds[Len(ds) - n + 1]
    BY ReverseIs
  <1>7. \A n \in 1..Len(ds) : Reverse(ds)[n] \in 0..57
    BY <1>5, SeqAt
  <1> QED
    BY <1>4, <1>5, <1>6, <1>7

LEMMA ConcatIs ==
  ASSUME NEW S, NEW s \in Seq(S), NEW t \in Seq(S)
  PROVE  /\ s \o t \in Seq(S) /\ Len(s \o t) = Len(s) + Len(t)
         /\ \A k \in 1..Len(s) : (s \o t)[k] = s[k]
         /\ \A k \in 1..Len(t) : (s \o t)[Len(s) + k] = t[k]
  <1>1. Len(s) \in Nat /\ Len(t) \in Nat
    OBVIOUS
  <1>2. s \o t \in Seq(S) /\ Len(s \o t) = Len(s) + Len(t)
    BY ConcatProperties
  <1>3. \A k \in 1..Len(s) : (s \o t)[k] = s[k]
    OBVIOUS
  <1>4. \A k \in 1..Len(t) : (s \o t)[Len(s) + k] = t[k]
    BY <1>1
  <1> QED
    BY <1>2, <1>3, <1>4

\* The zeros in front spell nothing.
LEMMA ZerosSpellNothing ==
  ASSUME NEW places \in Seq(Nat), NEW base \in Nat, NEW n \in 0..Len(places),
         \A k \in 1..n : places[k] = 0
  PROVE  Values(places, base)[n] = 0
  <1> DEFINE g == Values(places, base)
             P == {k \in 0..n : g[k] = 0}
  <1>1. /\ Len(places) \in Nat /\ g[0] = 0
        /\ \A k \in 1..Len(places) : g[k] = base * g[k - 1] + places[k]
    BY SeqAt, ValuesAre
  <1> HIDE DEF g
  <1>2. 0 \in P
    BY <1>1
  <1>3. ASSUME NEW m \in 0..n, m \in P, m < n
        PROVE  m + 1 \in P
    <2>1. m + 1 \in 1..n /\ m + 1 \in 1..Len(places) /\ (m + 1) - 1 = m /\ m + 1 \in 0..n
      BY <1>1, <1>3
    <2>2. g[m + 1] = base * 0 + 0
      BY <1>1, <1>3, <2>1
    <2>3. base * 0 + 0 = 0
      OBVIOUS
    <2> QED
      BY <2>1, <2>2, <2>3
  <1> HIDE DEF P
  <1>4. n \in Nat /\ n \in 0..n
    BY <1>1
  <1>5. n \in P
    BY <1>2, <1>3, <1>4, IntervalInduction
  <1> QED
    BY <1>5 DEF P, g

LEMMA BeginEncodes ==
  ASSUME NEW bytes \in AddressBytes
  PROVE  Encodes(bytes, LeadingZeros(bytes), <<>>)
  <1>1. bytes \in Bytes /\ bytes \in Seq(Nat) /\ Len(bytes) \in Nat
    BY BytesAt DEF AddressBytes
  <1> DEFINE z == LeadingZeros(bytes)
  <1>2. z \in 0..Len(bytes) /\ \A k \in 1..z : bytes[k] = 0
    BY <1>1, LeadingZerosAre
  <1> HIDE DEF z
  <1>3. Values(bytes, 256)[z] = 0
    BY <1>1, <1>2, ZerosSpellNothing
  <1>4. <<>> \in Seq(0..57) /\ Len(<<>>) = 0
    OBVIOUS
  <1>5. Value(Reverse(<<>>), 58) = 0
    <2>1. Reverse(<<>>) \in Seq(Nat) /\ Len(Reverse(<<>>)) = 0
      BY <1>4, DigitsNat
    <2> DEFINE r == Reverse(<<>>)
    <2> HIDE DEF r
    <2>2. Values(r, 58)[0] = 0
      BY <2>1, ValuesAre DEF r
    <2>3. Len(r) = 0
      BY <2>1 DEF r
    <2>4. Value(r, 58) = 0
      BY <2>2, <2>3, Zenon DEF Value
    <2> QED
      BY <2>4 DEF r
  <1>6. z \in z..Len(bytes)
    BY <1>1, <1>2
  <1> QED
    BY <1>3, <1>4, <1>5, <1>6 DEF Encodes, z

LEMMA ConsumeEncodes ==
  ASSUME NEW bytes, NEW n, NEW ds, Encodes(bytes, n, ds), n < Len(bytes)
  PROVE  Encodes(bytes, n + 1, Grown(ds, bytes[n + 1]))
  <1> DEFINE byte == bytes[n + 1]
             new == Grown(ds, byte)
             z == LeadingZeros(bytes)
             g == Values(bytes, 256)
  <1>1. /\ bytes \in AddressBytes /\ n \in z..Len(bytes) /\ ds \in Seq(0..57)
        /\ Len(ds) # 0 => ds[Len(ds)] # 0
        /\ Value(Reverse(ds), 58) = g[n]
    BY DEF Encodes
  <1>2. bytes \in Bytes /\ bytes \in Seq(Nat) /\ Len(bytes) \in Nat
        /\ \A k \in 1..Len(bytes) : bytes[k] \in 0..255
    BY <1>1, BytesAt DEF AddressBytes
  <1>3. z \in 0..Len(bytes)
    BY <1>2, LeadingZerosAre
  <1> HIDE DEF z
  <1>4. n + 1 \in 1..Len(bytes) /\ n + 1 \in z..Len(bytes) /\ (n + 1) - 1 = n
    BY <1>1, <1>2, <1>3
  <1>5. byte \in 0..255
    BY <1>2, <1>4
  <1>6. g[n + 1] = 256 * g[n] + byte
    BY <1>2, <1>4, ValuesAre
  <1> HIDE DEF byte, g
  <1>7. Value(Reverse(new), 58) = 256 * Value(Reverse(ds), 58) + byte
    BY <1>1, <1>5, GrownValue
  <1>8. PICK top : GrownTo(ds, byte, top)
    BY <1>1, <1>5, GrownIs
  <1>9. new \in Seq(0..57) /\ Len(new) = top
    BY <1>8 DEF GrownTo
  <1>10. top # 0 => new[top] # 0
    BY <1>1, <1>5, <1>8, GrownTop
  <1> HIDE DEF new
  <1>11. Len(new) # 0 => new[Len(new)] # 0
    BY <1>9, <1>10
  <1>12. Value(Reverse(new), 58) = g[n + 1]
    BY <1>1, <1>6, <1>7
  <1> QED
    BY <1>1, <1>4, <1>9, <1>11, <1>12 DEF Encodes, z, new, g, byte

\* The ones in front say how many zeros there were, the rest the number.
LEMMA EncodedSpells ==
  ASSUME NEW bytes, NEW ds, Encodes(bytes, Len(bytes), ds)
  PROVE  /\ Spells(Encoded(bytes, ds), bytes)
         /\ Encoded(bytes, ds) \in Seq(0..57)
         /\ Len(Encoded(bytes, ds)) = LeadingZeros(bytes) + Len(ds)
  <1> DEFINE z == LeadingZeros(bytes)
             r == Reverse(ds)
             text == Encoded(bytes, ds)
             n == Len(ds)
  <1>1. /\ bytes \in AddressBytes /\ ds \in Seq(0..57) /\ (n # 0 => ds[n] # 0)
        /\ Value(r, 58) = Value(bytes, 256)
    BY DEF Encodes, Value
  <1>2. bytes \in Seq(Nat) /\ Len(bytes) \in Nat
    BY <1>1, BytesAt DEF AddressBytes
  <1>3. z \in 0..Len(bytes)
    BY <1>2, LeadingZerosAre
  <1>4. /\ r \in Seq(Nat) /\ Len(r) = n /\ n \in Nat /\ ds \in Seq(Nat)
        /\ \A k \in 1..n : r[k] = ds[n - k + 1] /\ r[k] \in 0..57
    BY <1>1, DigitsNat
  <1> HIDE DEF z, r, n
  <1> DEFINE ones == [k \in 1..z |-> 0]
  <1>5. ones \in Seq(0..57) /\ Len(ones) = z /\ \A k \in 1..z : ones[k] = 0
    BY <1>2, <1>3
  <1>6. text = ones \o r
    BY Zenon DEF Encoded, z, r
  <1>7. r \in Seq(0..57)
    BY <1>4
  <1> HIDE DEF ones, text
  <1>8. text \in Seq(0..57) /\ Len(text) = z + n
    BY <1>4, <1>5, <1>6, <1>7, ConcatIs
  <1>9. /\ \A k \in 1..z : text[k] = 0
        /\ \A k \in 1..n : text[z + k] = r[k]
    <2>1. \A k \in 1..Len(ones) : text[k] = ones[k]
      BY <1>5, <1>6, <1>7, ConcatIs
    <2>2. \A k \in 1..Len(r) : text[Len(ones) + k] = r[k]
      BY <1>5, <1>6, <1>7, ConcatIs
    <2> QED
      BY <1>4, <1>5, <2>1, <2>2
  <1>10. text \in Seq(Nat)
    BY <1>8, DigitsNat
  <1>11. LeadingZeros(text) = z
    <2>1. z \in 0..Len(text)
      BY <1>2, <1>3, <1>4, <1>8
    <2>2. ASSUME z < Len(text)
          PROVE  text[z + 1] # 0
      <3>1. 1 \in 1..n /\ n # 0 /\ n - 1 + 1 = n
        BY <1>2, <1>3, <1>4, <1>8, <2>2
      <3>2. text[z + 1] = ds[n - 1 + 1]
        BY <1>4, <1>9, <3>1
      <3> QED
        BY <1>1, <3>1, <3>2
    <2> QED
      BY <1>9, <1>10, <2>1, <2>2, LeadingZerosUnique
  <1>12. Value(text, 58) = Value(r, 58)
    <2> DEFINE g == Values(text, 58)
               h == Values(r, 58)
               P == {k \in 0..n : g[z + k] = h[k]}
    <2>1. \A k \in 1..(z + n) : g[k] = 58 * g[k - 1] + text[k]
      BY <1>8, <1>10, ValuesAre
    <2>2. h[0] = 0 /\ \A k \in 1..n : h[k] = 58 * h[k - 1] + r[k]
      BY <1>4, ValuesAre, ZenonT(60)
    <2>3. g[z] = 0
      <3>1. z \in 0..Len(text)
        BY <1>2, <1>3, <1>4, <1>8
      <3> QED
        BY <1>9, <1>10, <3>1, ZerosSpellNothing
    <2> HIDE DEF g, h
    <2>4. z \in Nat
      BY <1>2, <1>3
    <2>5. 0 \in P
      <3>1. z + 0 = z /\ 0 \in 0..n
        BY <1>4, <2>4
      <3> QED
        BY <2>2, <2>3, <3>1
    <2>6. ASSUME NEW m \in 0..n, m \in P, m < n
          PROVE  m + 1 \in P
      <3>1. /\ m + 1 \in 1..n /\ m + 1 \in 0..n /\ z + (m + 1) \in 1..(z + n)
            /\ (z + (m + 1)) - 1 = z + m /\ (m + 1) - 1 = m
        BY <1>4, <2>4, <2>6
      <3>2. g[z + (m + 1)] = 58 * g[z + m] + text[z + (m + 1)]
        BY <2>1, <3>1
      <3>3. h[m + 1] = 58 * h[m] + r[m + 1]
        BY <2>2, <3>1
      <3>4. text[z + (m + 1)] = r[m + 1] /\ g[z + m] = h[m]
        BY <1>9, <2>6, <3>1
      <3> QED
        BY <3>1, <3>2, <3>3, <3>4
    <2> HIDE DEF P
    <2>7. n \in P
      <3>1. n \in 0..n
        BY <1>4
      <3> QED
        BY <1>4, <2>5, <2>6, <3>1, IntervalInduction
    <2>8. g[z + n] = h[n]
      BY <2>7 DEF P
    <2> QED
      BY <1>4, <1>8, <2>8 DEF Value, g, h
  <1> QED
    BY <1>1, <1>8, <1>11, <1>12 DEF Spells, text, z, n

\* Addresses of one length that are shown alike are the same.
THEOREM SameAddress ==
  ASSUME NEW bytes \in Bytes, NEW other \in Bytes, Len(bytes) = Len(other),
         NEW text, Spells(text, bytes), Spells(text, other)
  PROVE  bytes = other
  BY ValueDetermines DEF Spells

(***************************************************************************)
(* 32 bytes have 44 digits at most.                                        *)
(***************************************************************************)

LEMMA PowersRise ==
  ASSUME NEW b \in Nat \ {0}, NEW n \in Nat, NEW p, IsPowers(p, b, n),
         NEW j \in 0..n, NEW k \in j..n
  PROVE  p[j] <= p[k]
  <1> DEFINE P == {m \in j..n : p[j] <= p[m]}
  <1>1. p \in [0..n -> Nat] /\ \A m \in 1..n : p[m] = b * p[m - 1]
    BY DEF IsPowers
  <1>2. j \in P
    BY <1>1
  <1>3. ASSUME NEW m \in j..n, m \in P, m < n
        PROVE  m + 1 \in P
    <2>1. m + 1 \in 1..n /\ (m + 1) - 1 = m /\ m \in 0..n /\ m + 1 \in j..n
      BY <1>3
    <2>2. p[m + 1] = b * p[m] /\ p[m] \in Nat /\ p[j] \in Nat /\ p[j] <= p[m]
      BY <1>1, <1>3, <2>1
    <2>3. \A x \in Nat : x <= b * x /\ b * x \in Nat
      OBVIOUS
    <2>4. p[m] <= p[m + 1] /\ p[m + 1] \in Nat
      BY <2>2, <2>3
    <2> QED
      BY <2>1, <2>2, <2>4
  <1> HIDE DEF P
  <1>4. \A m \in j..n : m \in P
    BY <1>2, <1>3, IntervalInduction
  <1> QED
    BY <1>4 DEF P

\* Twelve places more make up for the smaller base.
LEMMA PowersCompare ==
  ASSUME NEW p, IsPowers(p, 256, 32), NEW q, IsPowers(q, 58, 44)
  PROVE  \A m \in 0..32 : p[m] <= q[m + 12]
  <1>1. p \in [0..32 -> Nat] /\ p[0] = 1 /\ \A k \in 1..32 : p[k] = 256 * p[k - 1]
    BY DEF IsPowers
  <1>2. q \in [0..44 -> Nat] /\ q[0] = 1 /\ \A k \in 1..44 : q[k] = 58 * q[k - 1]
    BY DEF IsPowers
  <1>3. p[32] <= q[44]
    <2>1. \A k \in 0..28 : p[k + 4] = 4294967296 * p[k]
      BY FourBytes
    <2>2. /\ p[4] = 4294967296 * p[0] /\ p[8] = 4294967296 * p[4]
          /\ p[12] = 4294967296 * p[8] /\ p[16] = 4294967296 * p[12]
          /\ p[20] = 4294967296 * p[16] /\ p[24] = 4294967296 * p[20]
          /\ p[28] = 4294967296 * p[24] /\ p[32] = 4294967296 * p[28]
      BY <2>1, SMT
    <2>3. p[32] = 115792089237316195423570985008687907853269984665640564039457584007913129639936
      BY <1>1, <2>2, SMT
    <2>4. \A k \in 0..40 : q[k + 4] = 11316496 * q[k]
      BY FourLetters
    <2>5. /\ q[4] = 11316496 * q[0] /\ q[8] = 11316496 * q[4]
          /\ q[12] = 11316496 * q[8] /\ q[16] = 11316496 * q[12]
          /\ q[20] = 11316496 * q[16] /\ q[24] = 11316496 * q[20]
          /\ q[28] = 11316496 * q[24] /\ q[32] = 11316496 * q[28]
          /\ q[36] = 11316496 * q[32] /\ q[40] = 11316496 * q[36]
          /\ q[44] = 11316496 * q[40]
      BY <2>4, SMT
    <2>6. q[44] = 389790918707373377135528568990913592653094657612049369038476873218241589149696
      BY <1>2, <2>5, SMT
    <2> QED
      BY <2>3, <2>6, SMT
  <1> DEFINE P == {k \in 0..32 : p[32 - k] <= q[44 - k]}
  <1>4. 0 \in P
    BY <1>3
  <1>5. ASSUME NEW m \in 0..32, m \in P, m < 32
        PROVE  m + 1 \in P
    <2> DEFINE k == 32 - m
               x == p[k - 1]
               y == q[k + 11]
    <2>1. /\ k \in 1..32 /\ k - 1 \in 0..32 /\ k + 12 \in 1..44 /\ (k + 12) - 1 = k + 11
          /\ k + 11 \in 0..44 /\ 32 - (m + 1) = k - 1 /\ 44 - (m + 1) = k + 11
          /\ 44 - m = k + 12 /\ m + 1 \in 0..32
      BY <1>5
    <2> HIDE DEF k
    <2>2. p[k] = 256 * x /\ q[k + 12] = 58 * y /\ x \in Nat /\ y \in Nat
      BY <1>1, <1>2, <2>1
    <2>3. p[k] <= q[k + 12]
      BY <1>5, <2>1 DEF k
    <2> HIDE DEF x, y
    <2>4. x <= y
      BY <2>2, <2>3
    <2> QED
      BY <2>1, <2>4 DEF x, y
  <1> HIDE DEF P
  <1>6. \A k \in 0..32 : k \in P
    BY <1>4, <1>5, IntervalInduction
  <1>7. ASSUME NEW m \in 0..32
        PROVE  p[m] <= q[m + 12]
    <2>1. 32 - m \in 0..32 /\ 32 - (32 - m) = m /\ 44 - (32 - m) = m + 12
      OBVIOUS
    <2> QED
      BY <1>6, <2>1 DEF P
  <1> QED
    BY <1>7

\* A number is below the power of its places.
LEMMA ValuesBelow ==
  ASSUME NEW bytes \in AddressBytes, NEW p, IsPowers(p, 256, 32),
         NEW n \in LeadingZeros(bytes)..Len(bytes)
  PROVE  Values(bytes, 256)[n] < p[n - LeadingZeros(bytes)]
  <1> DEFINE z == LeadingZeros(bytes)
             g == Values(bytes, 256)
             P == {k \in z..Len(bytes) : g[k] < p[k - z]}
  <1>1. /\ bytes \in Seq(Nat) /\ Len(bytes) \in Nat /\ Len(bytes) <= 32
        /\ \A k \in 1..Len(bytes) : bytes[k] \in 0..255
    BY BytesAt DEF AddressBytes
  <1>2. z \in 0..Len(bytes) /\ \A k \in 1..z : bytes[k] = 0
    BY <1>1, LeadingZerosAre
  <1>3. /\ g \in [0..Len(bytes) -> Nat]
        /\ \A k \in 1..Len(bytes) : g[k] = 256 * g[k - 1] + bytes[k]
    BY <1>1, ValuesAre
  <1> HIDE DEF z
  <1>4. g[z] = 0
    BY <1>1, <1>2, ZerosSpellNothing
  <1>5. p \in [0..32 -> Nat] /\ p[0] = 1 /\ \A k \in 1..32 : p[k] = 256 * p[k - 1]
    BY DEF IsPowers
  <1> HIDE DEF g
  <1>6. z \in P
    <2>1. z - z = 0 /\ z \in z..Len(bytes)
      BY <1>1, <1>2
    <2>2. p[z - z] = 1 /\ 0 < 1
      BY <1>5, <2>1
    <2>3. g[z] < p[z - z]
      BY <1>4, <2>2
    <2> QED
      BY <2>1, <2>3
  <1>7. ASSUME NEW m \in z..Len(bytes), m \in P, m < Len(bytes)
        PROVE  m + 1 \in P
    <2> DEFINE x == g[m]
               y == p[m - z]
               b == bytes[m + 1]
    <2>1. /\ m + 1 \in 1..Len(bytes) /\ (m + 1) - 1 = m /\ m \in 0..Len(bytes)
          /\ (m + 1) - z \in 1..32 /\ ((m + 1) - z) - 1 = m - z /\ m - z \in 0..32
          /\ m + 1 \in z..Len(bytes)
      BY <1>1, <1>2, <1>7
    <2>2. x \in Nat /\ y \in Nat /\ b \in 0..255 /\ x < y
      BY <1>1, <1>3, <1>5, <1>7, <2>1
    <2>3. g[m + 1] = 256 * x + b /\ p[(m + 1) - z] = 256 * y
      <3>1. g[m + 1] = 256 * x + b
        BY <1>3, <2>1
      <3>2. p[(m + 1) - z] = 256 * p[((m + 1) - z) - 1]
        BY <1>5, <2>1
      <3> QED
        BY <2>1, <3>1, <3>2
    <2> HIDE DEF x, y, b
    <2>4. 256 * x + b < 256 * y
      BY <2>2
    <2> QED
      BY <2>1, <2>3, <2>4
  <1> HIDE DEF P
  <1>8. \A k \in z..Len(bytes) : k \in P
    <2>1. z \in Nat /\ Len(bytes) \in Nat
      BY <1>1, <1>2
    <2> QED
      BY <1>6, <1>7, <2>1, IntervalInduction
  <1> QED
    BY <1>8 DEF P, z, g

\* And not below the power of its places but the first, if that is not a zero.
LEMMA ValuesAbove ==
  ASSUME NEW places \in Seq(Nat), Len(places) # 0, places[1] # 0,
         NEW n \in Nat, Len(places) <= n + 1, NEW q, IsPowers(q, 58, n)
  PROVE  q[Len(places) - 1] <= Value(places, 58)
  <1> DEFINE size == Len(places)
             g == Values(places, 58)
             P == {k \in 1..size : q[k - 1] <= g[k]}
  <1>1. size \in Nat /\ size # 0 /\ size <= n + 1 /\ \A k \in 1..size : places[k] \in Nat
    BY SeqAt
  <1>2. g \in [0..size -> Nat] /\ \A k \in 1..size : g[k] = 58 * g[k - 1] + places[k]
    BY ValuesAre
  <1>3. q \in [0..n -> Nat] /\ q[0] = 1 /\ \A k \in 1..n : q[k] = 58 * q[k - 1]
    BY DEF IsPowers
  <1> HIDE DEF size, g
  <1>4. 1 \in P
    <2> DEFINE x == g[0]
               y == places[1]
    <2>1. 1 \in 1..size /\ 1 - 1 = 0 /\ 0 \in 0..size
      BY <1>1
    <2>2. g[1] = 58 * x + y /\ x \in Nat /\ y \in Nat /\ y # 0
      BY <1>1, <1>2, <2>1
    <2> HIDE DEF x, y
    <2>3. 1 <= g[1]
      BY <2>2
    <2> QED
      BY <1>3, <2>1, <2>3
  <1>5. ASSUME NEW m \in 1..size, m \in P, m < size
        PROVE  m + 1 \in P
    <2> DEFINE x == g[m]
               y == q[m - 1]
               b == places[m + 1]
    <2>1. /\ m + 1 \in 1..size /\ (m + 1) - 1 = m /\ m \in 0..size /\ m \in 1..n /\ m - 1 \in 0..n
      BY <1>1, <1>5
    <2>2. x \in Nat /\ y \in Nat /\ b \in Nat /\ y <= x
      BY <1>1, <1>2, <1>3, <1>5, <2>1
    <2>3. g[m + 1] = 58 * x + b /\ q[m] = 58 * y
      BY <1>2, <1>3, <2>1
    <2> HIDE DEF x, y, b
    <2>4. 58 * y <= 58 * x + b
      BY <2>2
    <2> QED
      BY <2>1, <2>3, <2>4
  <1> HIDE DEF P
  <1>6. size \in P
    <2>1. 1 \in Nat /\ size \in 1..size
      BY <1>1
    <2>2. \A k \in 1..size : k \in P
      BY <1>1, <1>4, <1>5, <2>1, IntervalInduction
    <2> QED
      BY <2>1, <2>2
  <1> QED
    BY <1>6 DEF P, Value, size, g

LEMMA DigitsFit ==
  ASSUME NEW bytes, NEW n, NEW ds, Encodes(bytes, n, ds)
  PROVE  LeadingZeros(bytes) + Len(ds) <= 44
  <1> DEFINE z == LeadingZeros(bytes)
             size == Len(ds)
             r == Reverse(ds)
  <1>1. /\ bytes \in AddressBytes /\ n \in z..Len(bytes) /\ ds \in Seq(0..57)
        /\ (size # 0 => ds[size] # 0)
        /\ Value(r, 58) = Values(bytes, 256)[n]
    BY DEF Encodes
  <1>2. bytes \in Seq(Nat) /\ Len(bytes) \in Nat /\ Len(bytes) <= 32
    BY <1>1, BytesAt DEF AddressBytes
  <1>3. z \in 0..Len(bytes)
    BY <1>2, LeadingZerosAre
  <1>4. /\ r \in Seq(Nat) /\ Len(r) = size /\ size \in Nat /\ ds \in Seq(Nat)
        /\ \A k \in 1..size : r[k] = ds[size - k + 1]
    BY <1>1, DigitsNat
  <1>5. PICK p : IsPowers(p, 256, 32)
    BY PowersExist
  <1>6. PICK q : IsPowers(q, 58, size + 44)
    <2>1. size + 44 \in Nat
      BY <1>4
    <2> QED
      BY <2>1, PowersExist
  <1> DEFINE v == Values(bytes, 256)[n]
  <1>7. v < p[n - z]
    BY <1>1, <1>5, ValuesBelow
  <1>8. size # 0 => q[size - 1] <= v
    <2> SUFFICES ASSUME size # 0
                 PROVE  q[size - 1] <= v
      OBVIOUS
    <2>1. 1 \in 1..size /\ size - 1 + 1 = size
      BY <1>4
    <2>2. r[1] # 0
      BY <1>1, <1>4, <2>1
    <2>3. Len(r) <= (size + 44) + 1 /\ size + 44 \in Nat
      BY <1>4
    <2> HIDE DEF r, v, size
    <2>4. q[Len(r) - 1] <= Value(r, 58)
      BY <1>4, <1>6, <2>2, <2>3, ValuesAbove
    <2> QED
      BY <1>1, <1>4, <2>4 DEF v
  <1>9. v \in Nat
    <2>1. n \in 0..Len(bytes)
      BY <1>1, <1>2, <1>3
    <2> QED
      BY <1>2, <2>1, ValuesAre
  <1> HIDE DEF v, z, r, size
  <1> DEFINE m == n - z
  <1>10. m \in 0..32 /\ m + 12 + z <= 44 /\ z \in Nat /\ v < p[m]
    BY <1>1, <1>2, <1>3, <1>7
  <1> HIDE DEF m
  <1>11. p[m] <= q[m + 12]
    <2> DEFINE q44 == [k \in 0..44 |-> q[k]]
    <2>1. /\ q \in [0..(size + 44) -> Nat] /\ q[0] = 1
          /\ \A k \in 1..(size + 44) : q[k] = 58 * q[k - 1]
      BY <1>6 DEF IsPowers
    <2>2. \A k \in 0..44 : k \in 0..(size + 44)
      BY <1>4
    <2>3. \A k \in 1..44 : k \in 1..(size + 44) /\ k - 1 \in 0..44 /\ k \in 0..44
      BY <1>4
    <2>4. q44 \in [0..44 -> Nat] /\ q44[0] = 1
      <3>1. \A k \in 0..44 : q[k] \in Nat
        BY <2>1, <2>2
      <3>2. 0 \in 0..44
        OBVIOUS
      <3> QED
        BY <2>1, <3>1, <3>2
    <2>5. \A k \in 1..44 : q44[k] = 58 * q44[k - 1]
      BY <2>1, <2>3
    <2>6. m + 12 \in 0..44
      BY <1>10
    <2>7. q44[m + 12] = q[m + 12]
      BY <2>6
    <2> HIDE DEF q44
    <2>8. IsPowers(q44, 58, 44)
      BY <2>4, <2>5 DEF IsPowers
    <2>9. p[m] <= q44[m + 12]
      BY <1>5, <1>10, <2>8, PowersCompare
    <2> QED
      BY <2>7, <2>9
  <1>12. size <= m + 12
    <2> SUFFICES ASSUME ~ (size <= m + 12)
                 PROVE  FALSE
      OBVIOUS
    <2> DEFINE x == q[m + 12]
               y == q[size - 1]
               w == p[m]
    <2>1. m + 12 \in 0..(size + 44) /\ size - 1 \in (m + 12)..(size + 44) /\ size # 0
          /\ size + 44 \in Nat /\ size - 1 \in 0..(size + 44)
      BY <1>4, <1>10
    <2>2. x <= y
      BY <1>6, <2>1, PowersRise
    <2>3. x \in Nat /\ y \in Nat /\ w \in Nat
      BY <1>5, <1>6, <1>10, <2>1 DEF IsPowers
    <2>4. v < w /\ w <= x /\ y <= v
      BY <1>8, <1>10, <1>11, <2>1
    <2> HIDE DEF x, y, w
    <2> QED
      BY <1>9, <2>2, <2>3, <2>4
  <1>13. z + size <= 44
    BY <1>4, <1>10, <1>12
  <1> QED
    BY <1>13 DEF z, size

(***************************************************************************)
(* What tokens and texts measure.                                          *)
(***************************************************************************)

LEMMA TokenSize ==
  /\ \A token \in Token : Size(token) \in Nat
  /\ \A d \in 0..57 : <<"digit", d>> \in Token /\ Size(<<"digit", d>>) = 1
  <1>1. ASSUME NEW token \in Token
        PROVE  Size(token) \in Nat
    <2>1. CASE token \in {"word"} \X Words
      <3>1. token[1] = "word" /\ token[2] \in Words
        BY <2>1
      <3>2. Size(token) = Len(token[2])
        BY <3>1 DEF Size
      <3>3. Len(token[2]) \in Nat
        BY <3>1, SizeAssumption
      <3> QED
        BY <3>2, <3>3
    <2>2. CASE token \in ({"char"} \X (0..255)) \cup ({"digit"} \X (0..57))
      <3>1. token[1] # "word" /\ token[1] # "stamp"
        BY <2>2
      <3>2. Size(token) = 1
        BY <3>1 DEF Size
      <3> QED
        BY <3>2
    <2>3. CASE token \in {"stamp"} \X Int
      <3>1. token[1] # "word" /\ token[1] = "stamp"
        BY <2>3
      <3>2. Size(token) = 19
        BY <3>1 DEF Size
      <3> QED
        BY <3>2
    <2> QED
      BY <2>1, <2>2, <2>3 DEF Token
  <1>2. ASSUME NEW d \in 0..57
        PROVE  <<"digit", d>> \in Token /\ Size(<<"digit", d>>) = 1
    <2>1. <<"digit", d>> \in {"digit"} \X (0..57)
      OBVIOUS
    <2>2. <<"digit", d>>[1] # "word" /\ <<"digit", d>>[1] # "stamp"
      OBVIOUS
    <2>3. Size(<<"digit", d>>) = 1
      BY <2>2 DEF Size
    <2> QED
      BY <2>1, <2>3 DEF Token
  <1> QED
    BY <1>1, <1>2

\* The sums of what is added one after the other.
Adds(g, add, n) ==
  g \in [0..n -> Nat] /\ g[0] = 0 /\ \A k \in 1..n : g[k] = g[k - 1] + add[k]

LEMMA Summing ==
  ASSUME NEW n \in Nat, NEW add \in [1..n -> Nat]
  PROVE  \E g : Adds(g, add, n)
  <1> DEFINE D == [x \in Nat \X (1..n) |-> x[1] + add[x[2]]]
  <1>1. D \in [Nat \X ((0 + 1)..n) -> Nat]
    <2>1. \A x \in Nat \X (1..n) : x[1] + add[x[2]] \in Nat
      <3> SUFFICES ASSUME NEW x \in Nat \X (1..n)
                   PROVE  x[1] + add[x[2]] \in Nat
        OBVIOUS
      <3>1. x[1] \in Nat /\ add[x[2]] \in Nat
        OBVIOUS
      <3> QED
        BY <3>1
    <2>2. 0 + 1 = 1
      OBVIOUS
    <2> QED
      BY <2>1, <2>2
  <1>2. PICK g \in [0..n -> Nat] : Iterates(g, 0, n, 0, D)
    <2> HIDE DEF D
    <2>1. 0 \in Nat /\ 0 <= n
      OBVIOUS
    <2> QED
      BY <1>1, <2>1, Iteration
  <1>3. ASSUME NEW k \in 1..n
        PROVE  g[k] = g[k - 1] + add[k]
    <2>1. k \in (0 + 1)..n /\ g[k - 1] \in Nat
      OBVIOUS
    <2>2. g[k] = D[<<g[k - 1], k>>]
      BY <1>2, <2>1 DEF Iterates
    <2> QED
      BY <2>1, <2>2
  <1>4. g[0] = 0
    BY <1>2 DEF Iterates
  <1> HIDE DEF D
  <1> QED
    BY <1>3, <1>4 DEF Adds

SizesOf(text) == [k \in 1..Len(text) |-> Size(text[k])]

LEMMA SizeOfIs ==
  ASSUME NEW text \in Seq(Token)
  PROVE  /\ SizesOf(text) \in [1..Len(text) -> Nat] /\ Len(text) \in Nat
         /\ \E g : Adds(g, SizesOf(text), Len(text)) /\ SizeOf(text) = g[Len(text)]
  <1> DEFINE n == Len(text)
             add == SizesOf(text)
             sum[k \in 0..n] == IF k = 0 THEN 0 ELSE sum[k - 1] + Size(text[k])
  <1>1. n \in Nat /\ \A k \in 1..n : text[k] \in Token
    BY SeqAt
  <1>2. \A k \in 1..n : Size(text[k]) \in Nat
    BY <1>1, TokenSize
  <1>3. add \in [1..n -> Nat] /\ \A k \in 1..n : add[k] = Size(text[k])
    BY <1>2 DEF SizesOf
  <1>4. SizeOf(text) = sum[n]
    BY Zenon DEF SizeOf
  <1> HIDE DEF n, add
  <1>5. PICK g : Adds(g, add, n)
    BY <1>1, <1>3, Summing
  <1>6. g \in [0..n -> Nat] /\ g[0] = 0 /\ \A k \in 1..n : g[k] = g[k - 1] + Size(text[k])
    BY <1>3, <1>5 DEF Adds
  <1>7. g = [k \in 0..n |-> IF k = 0 THEN 0 ELSE g[k - 1] + Size(text[k])]
    <2>1. ASSUME NEW k \in 0..n
          PROVE  g[k] = IF k = 0 THEN 0 ELSE g[k - 1] + Size(text[k])
      <3>1. k # 0 => k \in 1..n
        BY <1>1
      <3> QED
        BY <1>6, <3>1, Zenon
    <2> QED
      BY <1>6, <2>1
  <1>8. sum = [k \in 0..n |-> IF k = 0 THEN 0 ELSE sum[k - 1] + Size(text[k])]
    BY <1>7, Zenon
  <1> HIDE DEF sum
  <1> DEFINE P == {k \in 0..n : sum[k] = g[k]}
  <1>9. 0 \in P
    BY <1>1, <1>6, <1>8
  <1>10. ASSUME NEW m \in 0..n, m \in P, m < n
         PROVE  m + 1 \in P
    <2>1. m + 1 \in 1..n /\ m + 1 \in 0..n /\ (m + 1) - 1 = m /\ m + 1 # 0
      BY <1>1, <1>10
    <2>2. sum[m + 1] = sum[m] + Size(text[m + 1])
      BY <1>8, <2>1
    <2>3. g[m + 1] = g[m] + Size(text[m + 1])
      BY <1>6, <2>1
    <2> QED
      BY <1>10, <2>1, <2>2, <2>3
  <1> HIDE DEF P
  <1>11. n \in P
    <2>1. 0 \in Nat /\ n \in 0..n
      BY <1>1
    <2> QED
      BY <1>1, <1>9, <1>10, <2>1, IntervalInduction
  <1>12. SizeOf(text) = g[n]
    BY <1>4, <1>11 DEF P
  <1> QED
    BY <1>1, <1>3, <1>5, <1>12 DEF n, add

LEMMA SizeOfNat ==
  ASSUME NEW text \in Seq(Token)
  PROVE  SizeOf(text) \in Nat
  <1>1. PICK g : Adds(g, SizesOf(text), Len(text)) /\ SizeOf(text) = g[Len(text)]
    BY SizeOfIs
  <1>2. Len(text) \in 0..Len(text)
    BY SizeOfIs
  <1> QED
    BY <1>1, <1>2 DEF Adds

LEMMA SizeOfEmpty ==
  SizeOf(<<>>) = 0
  <1>1. <<>> \in Seq(Token) /\ Len(<<>>) = 0
    OBVIOUS
  <1>2. PICK g : Adds(g, SizesOf(<<>>), Len(<<>>)) /\ SizeOf(<<>>) = g[Len(<<>>)]
    BY <1>1, SizeOfIs
  <1> QED
    BY <1>1, <1>2 DEF Adds

LEMMA SizeOfConcat ==
  ASSUME NEW text \in Seq(Token), NEW more \in Seq(Token)
  PROVE  SizeOf(text \o more) = SizeOf(text) + SizeOf(more)
  <1> DEFINE all == text \o more
             n == Len(text)
             m == Len(more)
  <1>1. /\ all \in Seq(Token) /\ Len(all) = n + m
        /\ \A k \in 1..n : all[k] = text[k]
        /\ \A k \in 1..m : all[n + k] = more[k]
    BY ConcatIs
  <1> HIDE DEF all
  <1>2. n \in Nat /\ m \in Nat
    BY SizeOfIs
  <1>3. PICK g : Adds(g, SizesOf(text), n) /\ SizeOf(text) = g[n]
    BY SizeOfIs
  <1>4. PICK h : Adds(h, SizesOf(more), m) /\ SizeOf(more) = h[m]
    BY SizeOfIs
  <1>5. PICK f : Adds(f, SizesOf(all), Len(all)) /\ SizeOf(all) = f[Len(all)]
    BY <1>1, SizeOfIs
  <1>6. /\ g \in [0..n -> Nat] /\ g[0] = 0
        /\ \A k \in 1..n : g[k] = g[k - 1] + Size(text[k])
    BY <1>3 DEF Adds, SizesOf
  <1>7. /\ h \in [0..m -> Nat] /\ h[0] = 0
        /\ \A k \in 1..m : h[k] = h[k - 1] + Size(more[k])
    BY <1>4 DEF Adds, SizesOf
  <1>8. /\ f \in [0..(n + m) -> Nat] /\ f[0] = 0
        /\ \A k \in 1..(n + m) : f[k] = f[k - 1] + Size(all[k])
    BY <1>1, <1>5 DEF Adds, SizesOf
  <1> HIDE DEF n, m
  <1> DEFINE P == {k \in 0..n : f[k] = g[k]}
             Q == {k \in 0..m : f[n + k] = g[n] + h[k]}
  <1>9. n \in P
    <2>1. 0 \in P
      BY <1>2, <1>6, <1>8
    <2>2. ASSUME NEW k \in 0..n, k \in P, k < n
          PROVE  k + 1 \in P
      <3>1. k + 1 \in 1..n /\ k + 1 \in 1..(n + m) /\ k + 1 \in 0..n /\ (k + 1) - 1 = k
        BY <1>2, <2>2
      <3>2. f[k + 1] = f[k] + Size(all[k + 1]) /\ g[k + 1] = g[k] + Size(text[k + 1])
        BY <1>6, <1>8, <3>1
      <3> QED
        BY <1>1, <2>2, <3>1, <3>2
    <2> HIDE DEF P
    <2>3. 0 \in Nat /\ n \in 0..n
      BY <1>2
    <2> QED
      BY <1>2, <2>1, <2>2, <2>3, IntervalInduction
  <1>10. m \in Q
    <2>1. 0 \in Q
      <3>1. n + 0 = n /\ 0 \in 0..m /\ n \in 0..n
        BY <1>2
      <3>2. g[n] \in Nat
        BY <1>6, <3>1
      <3>3. g[n] + 0 = g[n]
        BY <3>2
      <3> QED
        BY <1>7, <1>9, <3>1, <3>3
    <2>2. ASSUME NEW k \in 0..m, k \in Q, k < m
          PROVE  k + 1 \in Q
      <3>1. /\ k + 1 \in 1..m /\ n + (k + 1) \in 1..(n + m) /\ k + 1 \in 0..m
            /\ (k + 1) - 1 = k /\ (n + (k + 1)) - 1 = n + k
        BY <1>2, <2>2
      <3> DEFINE x == g[n]
                 y == h[k]
                 z == Size(more[k + 1])
      <3>2. f[n + (k + 1)] = (x + y) + z /\ h[k + 1] = y + z
        BY <1>1, <1>7, <1>8, <2>2, <3>1
      <3>3. x \in Nat /\ y \in Nat /\ z \in Nat
        <4>1. more[k + 1] \in Token
          BY <3>1, SeqAt DEF m
        <4>2. n \in 0..n
          BY <1>2
        <4> QED
          BY <1>6, <1>7, <4>1, <4>2, TokenSize
      <3> HIDE DEF x, y, z
      <3>4. (x + y) + z = x + (y + z)
        BY <3>3
      <3> QED
        BY <3>1, <3>2, <3>4 DEF x
    <2> HIDE DEF Q
    <2>3. 0 \in Nat /\ m \in 0..m
      BY <1>2
    <2> QED
      BY <1>2, <2>1, <2>2, <2>3, IntervalInduction
  <1>11. f[n + m] = g[n] + h[m]
    BY <1>10
  <1> HIDE DEF P, Q
  <1>12. SizeOf(all) = f[n + m]
    BY <1>1, <1>5
  <1> QED
    BY <1>3, <1>4, <1>11, <1>12 DEF all

\* One character for each digit.
LEMMA SizeOfDigits ==
  ASSUME NEW ds \in Seq(0..57)
  PROVE  LET text == [n \in DOMAIN ds |-> <<"digit", ds[n]>>]
         IN  text \in Seq(Token) /\ SizeOf(text) = Len(ds)
  <1> DEFINE n == Len(ds)
             text == [k \in DOMAIN ds |-> <<"digit", ds[k]>>]
  <1>1. n \in Nat /\ DOMAIN ds = 1..n /\ \A k \in 1..n : ds[k] \in 0..57
    BY SeqAt
  <1>2. \A k \in 1..n : text[k] \in Token /\ Size(text[k]) = 1
    BY <1>1, TokenSize
  <1>3. text \in Seq(Token) /\ Len(text) = n
    BY <1>1, <1>2
  <1> HIDE DEF text, n
  <1>4. PICK g : Adds(g, SizesOf(text), n) /\ SizeOf(text) = g[n]
    BY <1>3, SizeOfIs
  <1>5. g \in [0..n -> Nat] /\ g[0] = 0 /\ \A k \in 1..n : g[k] = g[k - 1] + 1
    BY <1>2, <1>3, <1>4 DEF Adds, SizesOf
  <1> DEFINE P == {k \in 0..n : g[k] = k}
  <1>6. 0 \in P
    BY <1>1, <1>5
  <1>7. ASSUME NEW m \in 0..n, m \in P, m < n
        PROVE  m + 1 \in P
    <2>1. m + 1 \in 1..n /\ m + 1 \in 0..n /\ (m + 1) - 1 = m
      BY <1>1, <1>7
    <2>2. g[m + 1] = m + 1
      BY <1>5, <1>7, <2>1
    <2> QED
      BY <2>1, <2>2
  <1> HIDE DEF P
  <1>8. n \in P
    <2>1. 0 \in Nat /\ n \in 0..n
      BY <1>1
    <2> QED
      BY <1>1, <1>6, <1>7, <2>1, IntervalInduction
  <1>9. SizeOf(text) = n
    BY <1>4, <1>8 DEF P
  <1> QED
    BY <1>3, <1>9 DEF text, n

(***************************************************************************)
(* What messages are made of.                                              *)
(***************************************************************************)

AnyPiece == PieceOfText \cup PieceOfAddress

LEMMA WordsAre ==
  /\ \A w \in Words : Word(w) \in Token
  /\ \A c \in 0..255 : Char(c) \in Token
  /\ \A t \in Int : Stamp(t) \in Token
  <1>1. \A w \in Words : Word(w) \in {"word"} \X Words
    BY DEF Word
  <1>2. \A c \in 0..255 : Char(c) \in {"char"} \X (0..255)
    BY DEF Char
  <1>3. \A t \in Int : Stamp(t) \in {"stamp"} \X Int
    BY DEF Stamp
  <1> QED
    BY <1>1, <1>2, <1>3 DEF Token

LEMMA TextIs ==
  ASSUME NEW tokens \in Seq(Token)
  PROVE  Text(tokens) \in PieceOfText /\ Text(tokens).tokens = tokens
  BY DEF Text, PieceOfText

LEMMA TextOfToken ==
  ASSUME NEW token \in Token
  PROVE  Text(<<token>>) \in PieceOfText /\ Text(<<token>>).tokens = <<token>>
  <1>1. <<token>> \in Seq(Token)
    OBVIOUS
  <1> QED
    BY <1>1, TextIs

LEMMA DigitsAre ==
  ASSUME NEW val \in Printable
  PROVE  /\ Digits(val) \in Seq(Token)
         /\ \A n \in 1..Len(Digits(val)) : Digits(val)[n][1] = "char"
  <1> DEFINE places == DecimalDigits(val)
  <1>1. places \in Seq(0..9)
    BY DecimalDigitsAre
  <1> HIDE DEF places
  <1>2. DOMAIN places = 1..Len(places) /\ Len(places) \in Nat /\ \A n \in 1..Len(places) : places[n] \in 0..9
    BY <1>1, SeqAt
  <1>3. Digits(val) = [n \in 1..Len(places) |-> Char(48 + places[n])]
    BY <1>2 DEF Digits, places
  <1>4. \A n \in 1..Len(places) : Char(48 + places[n]) \in Token
    <2>1. \A x \in 0..9 : 48 + x \in 0..255
      OBVIOUS
    <2> QED
      BY <1>2, <2>1, WordsAre
  <1>5. Digits(val) \in Seq(Token) /\ Len(Digits(val)) = Len(places)
    BY <1>2, <1>3, <1>4
  <1>6. \A n \in 1..Len(places) : Digits(val)[n][1] = "char"
    BY <1>3 DEF Char
  <1> QED
    BY <1>5, <1>6

LEMMA DigitsTell ==
  ASSUME NEW val \in Printable, NEW other \in Printable, Digits(val) = Digits(other)
  PROVE  val = other
  <1> DEFINE p == DecimalDigits(val)
             q == DecimalDigits(other)
  <1>1. p \in Seq(0..9) /\ q \in Seq(0..9)
    BY DecimalDigitsAre
  <1>2. /\ Digits(val) = [n \in DOMAIN p |-> Char(48 + p[n])]
        /\ Digits(other) = [n \in DOMAIN q |-> Char(48 + q[n])]
    BY Zenon DEF Digits
  <1> HIDE DEF p, q
  <1>3. DOMAIN p = DOMAIN q
    BY <1>2
  <1>4. ASSUME NEW n \in DOMAIN p
        PROVE  p[n] = q[n]
    <2>1. Char(48 + p[n]) = Char(48 + q[n])
      BY <1>2, <1>3
    <2>2. 48 + p[n] = 48 + q[n]
      BY <2>1 DEF Char
    <2>3. p[n] \in 0..9 /\ q[n] \in 0..9
      BY <1>1, <1>3, SeqAt
    <2> QED
      BY <2>2, <2>3
  <1>5. p = q
    <2>1. /\ DOMAIN p = 1..Len(p) /\ DOMAIN q = 1..Len(q) /\ Len(p) \in Nat /\ Len(q) \in Nat
      BY <1>1, SeqAt
    <2>2. Len(p) = Len(q)
      <3> DEFINE m == Len(p)
                 n == Len(q)
      <3>1. m \in 1..39 /\ n \in 1..39
        BY DecimalDigitsAre DEF p, q
      <3>2. 1..m = 1..n
        BY <1>3, <2>1
      <3> HIDE DEF m, n
      <3>3. m \in 1..m /\ n \in 1..n
        BY <3>1
      <3>4. m \in 1..n /\ n \in 1..m
        BY <3>2, <3>3
      <3>5. m = n
        BY <3>1, <3>4
      <3> QED
        BY <3>5 DEF m, n
    <2>3. \A n \in 1..Len(p) : p[n] = q[n]
      BY <1>4, <2>1
    <2> QED
      BY <1>1, <2>2, <2>3, SeqEqual
  <1> QED
    BY <1>5, DecimalDetermines DEF p, q

HexText(byte) == <<HexDigit(byte \div 16), HexDigit(byte % 16)>>

LEMMA HexTextIs ==
  ASSUME NEW byte \in 0..255
  PROVE  HexText(byte) \in Seq(Token) /\ Len(HexText(byte)) = 2
  <1>1. byte \div 16 \in 0..15 /\ byte % 16 \in 0..15
    OBVIOUS
  <1>2. \A n \in 0..15 : HexDigit(n) \in Token
    <2> SUFFICES ASSUME NEW n \in 0..15
                 PROVE  HexDigit(n) \in Token
      OBVIOUS
    <2>1. (IF n < 10 THEN 48 + n ELSE 87 + n) \in 0..255
      OBVIOUS
    <2> QED
      BY <2>1, WordsAre DEF HexDigit
  <1>3. HexDigit(byte \div 16) \in Token /\ HexDigit(byte % 16) \in Token
    BY <1>1, <1>2
  <1> HIDE DEF HexDigit
  <1> QED
    BY <1>3 DEF HexText

LEMMA HexTextTells ==
  ASSUME NEW byte \in 0..255, NEW other \in 0..255, HexText(byte) = HexText(other)
  PROVE  byte = other
  <1> DEFINE a == byte \div 16
             b == byte % 16
             c == other \div 16
             d == other % 16
  <1>1. a \in 0..15 /\ b \in 0..15 /\ c \in 0..15 /\ d \in 0..15
    OBVIOUS
  <1>2. byte = 16 * a + b /\ other = 16 * c + d
    OBVIOUS
  <1> HIDE DEF a, b, c, d
  <1>3. HexDigit(a) = HexDigit(c) /\ HexDigit(b) = HexDigit(d)
    BY DEF HexText, a, b, c, d
  <1>4. ASSUME NEW m \in 0..15, NEW n \in 0..15, HexDigit(m) = HexDigit(n)
        PROVE  m = n
    <2>1. (IF m < 10 THEN 48 + m ELSE 87 + m) = (IF n < 10 THEN 48 + n ELSE 87 + n)
      BY <1>4 DEF HexDigit, Char
    <2> QED
      BY <2>1
  <1>5. a = c /\ b = d
    BY <1>1, <1>3, <1>4
  <1> QED
    BY <1>2, <1>5

LEMMA HexIs ==
  ASSUME NEW bytes \in Bytes
  PROVE  /\ Hex(bytes) \in Seq(PieceOfText) /\ Len(Hex(bytes)) = Len(bytes)
         /\ \A n \in 1..Len(bytes) : Hex(bytes)[n].tokens = HexText(bytes[n])
  <1>1. /\ DOMAIN bytes = 1..Len(bytes) /\ Len(bytes) \in Nat
        /\ \A n \in 1..Len(bytes) : bytes[n] \in 0..255
    BY SeqAt DEF Bytes
  <1>2. Hex(bytes) = [n \in 1..Len(bytes) |-> Text(HexText(bytes[n]))]
    BY <1>1 DEF Hex, HexText
  <1>3. \A n \in 1..Len(bytes) : /\ Text(HexText(bytes[n])) \in PieceOfText
                                 /\ Text(HexText(bytes[n])).tokens = HexText(bytes[n])
    BY <1>1, HexTextIs, TextIs
  <1> HIDE DEF Text
  <1> QED
    BY <1>1, <1>2, <1>3

\* A byte can be printed.
LEMMA BytesPrintable ==
  \A byte \in 0..255 : byte \in Printable
  <1> SUFFICES ASSUME NEW byte \in 0..255
               PROVE  byte \in Printable
    OBVIOUS
  <1>1. byte \in Nat /\ byte < 1000000000000000000000000000000000000000
    BY SMT
  <1> QED
    BY <1>1, PrintableBelow, SMT

LEMMA RequestIs ==
  ASSUME NEW r \in Requests, Buildable(r)
  PROVE  /\ r \in Request /\ r.params_data \in Bytes /\ r.expiry \in Int /\ r.action \in Actions
         /\ r.wallet_name \in Seq(Token) /\ r.proposal_index \in Printable
         /\ r.rendered \in Seq(AnyPiece) /\ r.intent_type \in IntentTypes
         /\ r.intent_type = "AddIntent" => Sha256[r.params_data] \in Bytes
         /\ r.intent_type = "RemoveIntent" =>
              Len(r.params_data) = 1 /\ r.params_data[1] \in Printable
         /\ r.intent_type = "UpdateIntent" =>
              /\ Len(r.params_data) > 1 /\ r.params_data[1] \in Printable
              /\ Sha256[Tail(r.params_data)] \in Bytes
  <1>1. r \in Request
    BY RequestAssumption
  <1>2. /\ r.params_data \in Bytes /\ r.expiry \in Int /\ r.action \in Actions
        /\ r.wallet_name \in Seq(Token) /\ r.proposal_index \in Printable
        /\ r.rendered \in Seq(AnyPiece) /\ r.intent_type \in IntentTypes
    BY <1>1 DEF Request, Bytes, AnyPiece
  <1>3. \A d \in DOMAIN Sha256 : Sha256[d] \in Bytes
    BY SizeAssumption DEF Bytes
  <1>4. r.intent_type = "AddIntent" => Sha256[r.params_data] \in Bytes
    BY <1>3, RequestAssumption
  <1>5. r.intent_type = "RemoveIntent" => Len(r.params_data) = 1
    BY DEF Buildable
  <1>6. r.intent_type = "UpdateIntent" => Len(r.params_data) > 1
    BY DEF Buildable
  <1>7. Len(r.params_data) \in Nat /\ \A n \in 1..Len(r.params_data) : r.params_data[n] \in 0..255
    BY <1>2, BytesAt
  <1>8. Len(r.params_data) >= 1 => r.params_data[1] \in Printable
    <2> SUFFICES ASSUME Len(r.params_data) >= 1
                 PROVE  r.params_data[1] \in Printable
      OBVIOUS
    <2>1. 1 \in 1..Len(r.params_data)
      BY <1>7
    <2> QED
      BY <1>7, <2>1, BytesPrintable
  <1>9. r.intent_type = "UpdateIntent" => Sha256[Tail(r.params_data)] \in Bytes
    BY <1>3, <1>6, RequestAssumption
  <1> QED
    BY <1>1, <1>2, <1>4, <1>5, <1>6, <1>7, <1>8, <1>9

LEMMA TuplesAre ==
  ASSUME NEW S, NEW a \in S, NEW b \in S, NEW c \in S, NEW d \in S, NEW e \in S
  PROVE  <<a>> \in Seq(S) /\ <<a, b>> \in Seq(S) /\ <<a, b, c>> \in Seq(S)
         /\ <<a, b, c, d>> \in Seq(S) /\ <<a, b, c, d, e>> \in Seq(S)
  OBVIOUS

LEMMA HeaderIs ==
  ASSUME NEW r \in Requests, Buildable(r)
  PROVE  /\ PushHeader(r) \in Seq(PieceOfText)
         /\ Text(<<Word("expires ")>>) \in PieceOfText /\ Text(<<Stamp(r.expiry)>>) \in PieceOfText
         /\ Text(<<Word(": ")>>) \in PieceOfText /\ Text(<<Word(r.action)>>) \in PieceOfText
         /\ Text(<<Word(" ")>>) \in PieceOfText
  <1>1. r.action \in Words /\ r.expiry \in Int
    BY RequestIs DEF Words
  <1>2. "expires " \in Words /\ ": " \in Words /\ " " \in Words
    BY DEF Words
  <1>3. Word("expires ") \in Token /\ Stamp(r.expiry) \in Token /\ Word(": ") \in Token
        /\ Word(r.action) \in Token /\ Word(" ") \in Token
    BY <1>1, <1>2, WordsAre
  <1>4. /\ Text(<<Word("expires ")>>) \in PieceOfText /\ Text(<<Stamp(r.expiry)>>) \in PieceOfText
        /\ Text(<<Word(": ")>>) \in PieceOfText /\ Text(<<Word(r.action)>>) \in PieceOfText
        /\ Text(<<Word(" ")>>) \in PieceOfText
    BY <1>3, TextOfToken
  <1> QED
    BY <1>4, TuplesAre DEF PushHeader

LEMMA SuffixIs ==
  ASSUME NEW r \in Requests, Buildable(r)
  PROVE  /\ PushSuffix(r) \in Seq(PieceOfText)
         /\ Word(" | wallet: ") \in Token /\ Word(" proposal: ") \in Token
         /\ r.wallet_name \in Seq(Token) /\ Digits(r.proposal_index) \in Seq(Token)
  <1>1. r.wallet_name \in Seq(Token) /\ Digits(r.proposal_index) \in Seq(Token)
    BY RequestIs, DigitsAre
  <1>2. " | wallet: " \in Words /\ " proposal: " \in Words
    BY DEF Words
  <1>3. Word(" | wallet: ") \in Token /\ Word(" proposal: ") \in Token
    BY <1>2, WordsAre
  <1>4. /\ Text(<<Word(" | wallet: ")>>) \in PieceOfText /\ Text(r.wallet_name) \in PieceOfText
        /\ Text(<<Word(" proposal: ")>>) \in PieceOfText
        /\ Text(Digits(r.proposal_index)) \in PieceOfText
    BY <1>1, <1>3, TextOfToken, TextIs
  <1>5. PushSuffix(r) \in Seq(PieceOfText)
    BY <1>4, TuplesAre DEF PushSuffix
  <1> QED
    BY <1>1, <1>3, <1>5

LEMMA ContentIs ==
  ASSUME NEW r \in Requests, Buildable(r)
  PROVE  /\ Content(r) \in Seq(AnyPiece)
         /\ r.intent_type # "Custom" => Content(r) \in Seq(PieceOfText)
  <1>1. \A s \in Seq(PieceOfText) : s \in Seq(AnyPiece)
    BY DEF AnyPiece
  <1>2. CASE r.intent_type = "AddIntent"
    <2> DEFINE w == Text(<<Word("add intent definition_hash: ")>>)
               h == Hex(Sha256[r.params_data])
    <2>1. "add intent definition_hash: " \in Words
      BY DEF Words
    <2>2. w \in PieceOfText
      BY <2>1, WordsAre, TextOfToken
    <2>3. h \in Seq(PieceOfText)
      BY <1>2, RequestIs, HexIs
    <2>4. Content(r) = <<w>> \o h
      BY <1>2 DEF Content
    <2> HIDE DEF w, h
    <2>5. <<w>> \in Seq(PieceOfText)
      BY <2>2
    <2>6. <<w>> \o h \in Seq(PieceOfText)
      BY <2>3, <2>5, ConcatIs
    <2> QED
      BY <1>1, <2>4, <2>6
  <1>3. CASE r.intent_type = "RemoveIntent"
    <2> DEFINE w == Text(<<Word("remove intent ")>>)
               d == Text(Digits(r.params_data[1]))
    <2>1. "remove intent " \in Words
      BY DEF Words
    <2>2. w \in PieceOfText
      BY <2>1, WordsAre, TextOfToken
    <2>3. d \in PieceOfText
      BY <1>3, RequestIs, DigitsAre, TextIs
    <2>4. Content(r) = <<w, d>>
      BY <1>3 DEF Content
    <2> HIDE DEF w, d
    <2> QED
      BY <1>1, <2>2, <2>3, <2>4, TuplesAre
  <1>4. CASE r.intent_type = "UpdateIntent"
    <2> DEFINE w == Text(<<Word("update intent ")>>)
               d == Text(Digits(r.params_data[1]))
               v == Text(<<Word(" definition_hash: ")>>)
               h == Hex(Sha256[Tail(r.params_data)])
    <2>1. "update intent " \in Words /\ " definition_hash: " \in Words
      BY DEF Words
    <2>2. w \in PieceOfText /\ v \in PieceOfText
      BY <2>1, WordsAre, TextOfToken
    <2>3. d \in PieceOfText
      BY <1>4, RequestIs, DigitsAre, TextIs
    <2>4. h \in Seq(PieceOfText)
      BY <1>4, RequestIs, HexIs
    <2>5. Content(r) = <<w, d, v>> \o h
      BY <1>4 DEF Content
    <2> HIDE DEF w, d, v, h
    <2>6. <<w, d, v>> \in Seq(PieceOfText)
      BY <2>2, <2>3, TuplesAre
    <2>7. <<w, d, v>> \o h \in Seq(PieceOfText)
      BY <2>4, <2>6, ConcatIs
    <2> QED
      BY <1>1, <2>5, <2>7
  <1>5. CASE r.intent_type = "Custom"
    <2>1. Content(r) = r.rendered
      BY <1>5 DEF Content
    <2> QED
      BY <1>5, <2>1, RequestIs
  <1> QED
    BY <1>2, <1>3, <1>4, <1>5, RequestIs DEF IntentTypes

LEMMA PiecesAre ==
  ASSUME NEW r \in Requests, Buildable(r)
  PROVE  /\ Pieces(r) \in Seq(AnyPiece) /\ Len(Pieces(r)) \in Nat
         /\ r \in MetaRequests => Pieces(r) \in Seq(PieceOfText)
  <1>1. PushHeader(r) \in Seq(PieceOfText) /\ PushSuffix(r) \in Seq(PieceOfText)
    BY HeaderIs, SuffixIs
  <1>2. PushHeader(r) \in Seq(AnyPiece) /\ PushSuffix(r) \in Seq(AnyPiece)
    BY <1>1 DEF AnyPiece
  <1>3. Pieces(r) \in Seq(AnyPiece)
    BY <1>2, ContentIs, ConcatIs DEF Pieces
  <1>4. r \in MetaRequests => Pieces(r) \in Seq(PieceOfText)
    <2> SUFFICES ASSUME r \in MetaRequests
                 PROVE  Pieces(r) \in Seq(PieceOfText)
      OBVIOUS
    <2>1. Content(r) \in Seq(PieceOfText)
      BY ContentIs DEF MetaRequests
    <2> QED
      BY <1>1, <2>1, ConcatIs DEF Pieces
  <1> QED
    BY <1>3, <1>4, SeqAt

\* How much of the buffer a piece takes at most.
Room(piece) == IF piece.kind = "text" THEN SizeOf(piece.tokens) ELSE BUF_LEN

LEMMA PieceIs ==
  ASSUME NEW r \in Requests, Buildable(r), NEW k \in 1..Len(Pieces(r))
  PROVE  LET piece == Pieces(r)[k]
         IN  /\ Room(piece) \in Nat
             /\ piece.kind = "text" => piece.tokens \in Seq(Token)
             /\ piece.kind = "address" => piece.bytes \in AddressBytes
             /\ piece.kind \in {"text", "address"}
             /\ r \in MetaRequests => piece.kind = "text"
  <1> DEFINE piece == Pieces(r)[k]
  <1>1. piece \in AnyPiece /\ (r \in MetaRequests => piece \in PieceOfText)
    BY PiecesAre, SeqAt
  <1> HIDE DEF piece
  <1>2. CASE piece \in PieceOfText
    <2>1. piece.kind = "text" /\ piece.tokens \in Seq(Token)
      BY <1>2 DEF PieceOfText
    <2>2. Room(piece) \in Nat
      BY <2>1, SizeOfNat DEF Room
    <2> QED
      BY <2>1, <2>2 DEF piece
  <1>3. CASE piece \in PieceOfAddress
    <2>1. piece.kind = "address" /\ piece.bytes \in AddressBytes
      BY <1>3 DEF PieceOfAddress, AddressBytes, Bytes
    <2>2. Room(piece) \in Nat
      BY <2>1, BufferAssumption DEF Room
    <2>3. r \notin MetaRequests
      <3>1. \A p \in PieceOfText : p.kind = "text"
        BY DEF PieceOfText
      <3> QED
        BY <1>1, <2>1, <3>1
    <2> QED
      BY <2>1, <2>2, <2>3 DEF piece
  <1> QED
    BY <1>1, <1>2, <1>3 DEF AnyPiece

LEMMA LengthsAre ==
  ASSUME NEW r \in Requests, Buildable(r)
  PROVE  /\ Lengths(r) \in [0..Len(Pieces(r)) -> Nat] /\ Lengths(r)[0] = 0
         /\ \A k \in 1..Len(Pieces(r)) : Lengths(r)[k] = Lengths(r)[k - 1] + Room(Pieces(r)[k])
  <1> DEFINE ps == Pieces(r)
             n == Len(ps)
             add == [k \in 1..n |-> Room(ps[k])]
             sum[k \in 0..n] ==
               IF k = 0 THEN 0
               ELSE sum[k - 1] + (IF ps[k].kind = "text" THEN SizeOf(ps[k].tokens) ELSE BUF_LEN)
  <1>1. n \in Nat
    BY PiecesAre
  <1>2. add \in [1..n -> Nat] /\ \A k \in 1..n : add[k] = Room(ps[k])
    BY PieceIs
  <1>3. Lengths(r) = sum
    BY Zenon DEF Lengths
  <1> HIDE DEF ps, n, add
  <1>4. PICK g : Adds(g, add, n)
    BY <1>1, <1>2, Summing
  <1>5. g \in [0..n -> Nat] /\ g[0] = 0 /\ \A k \in 1..n : g[k] = g[k - 1] + Room(ps[k])
    BY <1>2, <1>4 DEF Adds
  <1>6. g = [k \in 0..n |-> IF k = 0 THEN 0
                            ELSE g[k - 1] + (IF ps[k].kind = "text" THEN SizeOf(ps[k].tokens) ELSE BUF_LEN)]
    <2>1. ASSUME NEW k \in 0..n
          PROVE  g[k] = IF k = 0 THEN 0 ELSE g[k - 1] + Room(ps[k])
      <3>1. k # 0 => k \in 1..n
        BY <1>1
      <3> QED
        BY <1>5, <3>1, Zenon
    <2>2. g = [k \in 0..n |-> IF k = 0 THEN 0 ELSE g[k - 1] + Room(ps[k])]
      BY <1>5, <2>1
    <2> QED
      BY <2>2, Zenon DEF Room
  <1>7. sum = [k \in 0..n |-> IF k = 0 THEN 0
                              ELSE sum[k - 1] + (IF ps[k].kind = "text" THEN SizeOf(ps[k].tokens) ELSE BUF_LEN)]
    BY <1>6, Zenon
  <1>8. sum = [k \in 0..n |-> IF k = 0 THEN 0 ELSE sum[k - 1] + Room(ps[k])]
    BY <1>7, Zenon DEF Room
  <1> HIDE DEF sum
  <1> DEFINE P == {k \in 0..n : sum[k] = g[k]}
  <1>9. 0 \in P
    BY <1>1, <1>5, <1>8
  <1>10. ASSUME NEW m \in 0..n, m \in P, m < n
         PROVE  m + 1 \in P
    <2>1. m + 1 \in 1..n /\ m + 1 \in 0..n /\ (m + 1) - 1 = m /\ m + 1 # 0
      BY <1>1, <1>10
    <2>2. sum[m + 1] = sum[m] + Room(ps[m + 1])
      BY <1>8, <2>1
    <2>3. g[m + 1] = g[m] + Room(ps[m + 1])
      BY <1>5, <2>1
    <2> QED
      BY <1>10, <2>1, <2>2, <2>3
  <1> HIDE DEF P
  <1>11. \A k \in 0..n : k \in P
    <2>1. 0 \in Nat
      OBVIOUS
    <2> QED
      BY <1>1, <1>9, <1>10, <2>1, IntervalInduction
  <1>12. sum = g
    <2>1. \A k \in 0..n : sum[k] = g[k]
      BY <1>11 DEF P
    <2>2. sum = [k \in 0..n |-> sum[k]] /\ g = [k \in 0..n |-> g[k]]
      BY <1>5, <1>8
    <2> QED
      BY <2>1, <2>2, Zenon
  <1> QED
    BY <1>3, <1>5, <1>12 DEF ps, n

LEMMA LengthsRise ==
  ASSUME NEW r \in Requests, Buildable(r), NEW k \in 0..Len(Pieces(r))
  PROVE  Lengths(r)[k] <= Lengths(r)[Len(Pieces(r))] /\ Lengths(r)[k] \in Nat
  <1> DEFINE n == Len(Pieces(r))
             g == Lengths(r)
             P == {m \in k..n : g[k] <= g[m]}
  <1>1. /\ n \in Nat /\ g \in [0..n -> Nat]
        /\ \A m \in 1..n : g[m] = g[m - 1] + Room(Pieces(r)[m]) /\ Room(Pieces(r)[m]) \in Nat
    BY PiecesAre, LengthsAre, PieceIs
  <1> HIDE DEF n, g
  <1>2. k \in 0..n
    BY DEF n
  <1>3. k \in P
    BY <1>1, <1>2
  <1>4. ASSUME NEW m \in k..n, m \in P, m < n
        PROVE  m + 1 \in P
    <2>1. m + 1 \in 1..n /\ (m + 1) - 1 = m /\ m \in 0..n /\ m + 1 \in k..n
      BY <1>1, <1>2, <1>4
    <2> DEFINE x == g[k]
               y == g[m]
               z == Room(Pieces(r)[m + 1])
    <2>2. x \in Nat /\ y \in Nat /\ z \in Nat /\ g[m + 1] = y + z /\ x <= y
      BY <1>1, <1>2, <1>4, <2>1
    <2> HIDE DEF x, y, z
    <2>3. x <= g[m + 1]
      BY <2>2
    <2> QED
      BY <2>1, <2>3 DEF x
  <1> HIDE DEF P
  <1>5. n \in P
    <2>1. k \in Nat /\ n \in k..n
      BY <1>1, <1>2
    <2> QED
      BY <1>1, <1>3, <1>4, <2>1, IntervalInduction
  <1> QED
    BY <1>1, <1>2, <1>5 DEF P, g, n

\* The texts of a message about a meta-intent, piece by piece.
Texts(r) == [k \in DOMAIN Pieces(r) |-> Pieces(r)[k].tokens]

LEMMA TextsAre ==
  ASSUME NEW r \in MetaRequests
  PROVE  /\ Texts(r) \in Seq(Seq(Token)) /\ Len(Texts(r)) = Len(Pieces(r))
         /\ \A k \in 1..Len(Pieces(r)) : Texts(r)[k] = Pieces(r)[k].tokens
         /\ MetaTexts[r] = FlattenSeq(Texts(r))
  <1>1. r \in Requests /\ Buildable(r)
    BY DEF MetaRequests
  <1>2. Pieces(r) \in Seq(PieceOfText)
    BY <1>1, PiecesAre
  <1>3. DOMAIN Pieces(r) = 1..Len(Pieces(r)) /\ Len(Pieces(r)) \in Nat
    BY <1>2, SeqAt
  <1>4. \A k \in 1..Len(Pieces(r)) : Pieces(r)[k].tokens \in Seq(Token)
    BY <1>1, PieceIs
  <1>5. MetaTexts[r] = FlattenSeq(Texts(r))
    BY Zenon DEF MetaTexts, Texts
  <1> HIDE DEF Pieces
  <1>6. Texts(r) = [k \in 1..Len(Pieces(r)) |-> Pieces(r)[k].tokens]
    BY <1>3 DEF Texts
  <1> QED
    BY <1>3, <1>4, <1>5, <1>6

(***************************************************************************)
(* What is in the buffer.                                                  *)
(***************************************************************************)

\* Behind the header are the pieces so far, and they take what they are reckoned
\* at or, an address of less than 44 digits, less.
Building ==
  /\ request \in Requests /\ Buildable(request)
  /\ pushed \in 0..Len(Pieces(request))
  /\ buf \in Seq(Token)
  /\ len = OFFCHAIN_HEADER_LEN + SizeOf(buf) /\ len <= MSG_BUF_SIZE
  /\ len <= OFFCHAIN_HEADER_LEN + Lengths(request)[pushed]
  /\ request \in MetaRequests => buf = FlattenSeq(SubSeq(Texts(request), 1, pushed))

MessageInv ==
  /\ Building
  /\ Encodes(input, consumed, digits)
  /\ status \in {"building", "encoding", "built", "failed"}
  /\ status = "encoding" => pushed < Len(Pieces(request)) /\ Piece.kind = "address"
  /\ status = "built" =>
       /\ pushed = Len(Pieces(request))
       /\ Len(header) = OFFCHAIN_HEADER_LEN
       /\ header[19] + 256 * header[20] = len - OFFCHAIN_HEADER_LEN
  /\ TurnedDownOnlyIfTooLong

LEMMA NewInv ==
  ASSUME New
  PROVE  MessageInv
  <1>1. /\ request \in Requests /\ Buildable(request)
        /\ pushed = 0 /\ buf = <<>> /\ len = OFFCHAIN_HEADER_LEN /\ status = "building"
        /\ input = <<>> /\ consumed = 0 /\ digits = <<>>
    BY DEF New
  <1>2. Building
    <2>1. Len(Pieces(request)) \in Nat
      BY <1>1, PiecesAre
    <2>2. pushed \in 0..Len(Pieces(request))
      BY <1>1, <2>1
    <2>3. buf \in Seq(Token) /\ SizeOf(buf) = 0
      BY <1>1, SizeOfEmpty
    <2>4. Lengths(request)[pushed] = 0
      BY <1>1, LengthsAre
    <2>5. len <= MSG_BUF_SIZE
      BY <1>1, SizeAssumption DEF OFFCHAIN_HEADER_LEN
    <2>6. request \in MetaRequests => buf = FlattenSeq(SubSeq(Texts(request), 1, pushed))
      <3> SUFFICES ASSUME request \in MetaRequests
                   PROVE  buf = FlattenSeq(SubSeq(Texts(request), 1, pushed))
        OBVIOUS
      <3>1. Texts(request) \in Seq(Seq(Token))
        BY TextsAre
      <3>2. SubSeq(Texts(request), 1, 0) = <<>>
        BY <3>1, FrontParts
      <3> QED
        BY <1>1, <3>2, FlattenEmpty
    <2>7. len = OFFCHAIN_HEADER_LEN + SizeOf(buf) /\ len <= OFFCHAIN_HEADER_LEN + Lengths(request)[pushed]
      BY <1>1, <2>3, <2>4 DEF OFFCHAIN_HEADER_LEN
    <2> QED
      BY <1>1, <2>2, <2>3, <2>5, <2>6, <2>7 DEF Building
  <1>3. Encodes(input, consumed, digits)
    <2>1. <<>> \in AddressBytes /\ Len(<<>>) = 0
      BY DEF AddressBytes, Bytes
    <2>2. LeadingZeros(<<>>) \in 0..0
      <3>1. <<>> \in Seq(Nat)
        OBVIOUS
      <3> QED
        BY <2>1, <3>1, LeadingZerosAre
    <2>3. LeadingZeros(<<>>) = 0
      BY <2>2
    <2>4. Encodes(<<>>, LeadingZeros(<<>>), <<>>)
      BY <2>1, BeginEncodes
    <2> QED
      BY <1>1, <2>3, <2>4
  <1> QED
    BY <1>1, <1>2, <1>3 DEF MessageInv, TurnedDownOnlyIfTooLong

\* A piece is added if it fits, and else the attempt ends.
LEMMA PushInv ==
  ASSUME Building, pushed < Len(Pieces(request)),
         NEW tokens \in Seq(Token), SizeOf(tokens) <= Room(Piece),
         request \in MetaRequests => tokens = Piece.tokens,
         Push(tokens), UNCHANGED request
  PROVE  /\ Building' /\ status' \in {"building", "failed"}
         /\ TurnedDownOnlyIfTooLong'
  <1> DEFINE n == Len(Pieces(request))
             size == SizeOf(tokens)
             room == Room(Piece)
             total == SizeOf(buf)
             before == Lengths(request)[pushed]
             after == Lengths(request)[pushed + 1]
             all == Lengths(request)[n]
  <1>1. /\ request \in Requests /\ Buildable(request) /\ pushed \in 0..n
        /\ buf \in Seq(Token) /\ len = 20 + total /\ len <= MSG_BUF_SIZE /\ len <= 20 + before
        /\ request \in MetaRequests => buf = FlattenSeq(SubSeq(Texts(request), 1, pushed))
    BY DEF Building, OFFCHAIN_HEADER_LEN
  <1>2. n \in Nat
    BY <1>1, PiecesAre
  <1>3. size \in Nat /\ total \in Nat
    BY <1>1, SizeOfNat
  <1>4. pushed + 1 \in 1..n /\ (pushed + 1) - 1 = pushed /\ pushed + 1 \in 0..n /\ n \in 0..n
    <2> HIDE DEF n
    <2>1. pushed < n
      BY DEF n
    <2> QED
      BY <1>1, <1>2, <2>1
  <1>5. room \in Nat
    BY <1>1, <1>4, PieceIs DEF Piece
  <1>6. after = before + room
    BY <1>1, <1>4, LengthsAre DEF Piece
  <1>7. before \in Nat /\ after <= all /\ after \in Nat /\ all \in Nat
    BY <1>1, <1>4, LengthsRise
  <1>8. size <= room /\ MSG_BUF_SIZE \in Nat
    BY SizeAssumption
  <1> HIDE DEF n, size, room, total, before, after, all
  <1>9. CASE HasRoom(tokens)
    <2>1. /\ buf' = buf \o tokens /\ len' = len + size /\ pushed' = pushed + 1
          /\ status' = "building" /\ request' = request /\ len + size <= MSG_BUF_SIZE
      BY <1>9 DEF Push, HasRoom, size
    <2>2. buf' \in Seq(Token) /\ SizeOf(buf') = total + size
      BY <1>1, <2>1, ConcatIs, SizeOfConcat DEF total, size
    <2>3. len' = 20 + SizeOf(buf')
      BY <1>1, <1>3, <2>1, <2>2
    <2>4. len' <= MSG_BUF_SIZE
      BY <2>1
    <2>5. len' <= 20 + Lengths(request')[pushed']
      <3>1. Lengths(request')[pushed'] = after
        BY <2>1 DEF after
      <3> QED
        BY <1>1, <1>3, <1>5, <1>6, <1>7, <1>8, <2>1, <3>1
    <2>6. request' \in MetaRequests => buf' = FlattenSeq(SubSeq(Texts(request'), 1, pushed'))
      <3> SUFFICES ASSUME request \in MetaRequests
                   PROVE  buf' = FlattenSeq(SubSeq(Texts(request), 1, pushed + 1))
        BY <2>1
      <3> DEFINE T == Seq(Token)
                 ts == Texts(request)
                 front == SubSeq(ts, 1, pushed)
      <3>1. ts \in Seq(T) /\ Len(ts) = n /\ ts[pushed + 1] = Piece.tokens
        BY <1>4, TextsAre DEF n, Piece
      <3>2. ASSUME NEW u \in Seq(T)
            PROVE  FlattenSeq(Append(u, tokens)) = FlattenSeq(u) \o tokens
        BY FlattenAppend
      <3> HIDE DEF T, ts
      <3>3. pushed \in 0..Len(ts) /\ pushed < Len(ts)
        BY <1>1, <1>2, <1>4, <3>1
      <3>4. front \in Seq(T) /\ SubSeq(ts, 1, pushed + 1) = Append(front, ts[pushed + 1])
        BY <3>1, <3>3, FrontParts
      <3>5. tokens = ts[pushed + 1]
        BY <3>1
      <3>6. FlattenSeq(Append(front, tokens)) = FlattenSeq(front) \o tokens
        BY <3>2, <3>4
      <3>7. buf = FlattenSeq(front)
        BY <1>1 DEF ts
      <3> QED
        BY <2>1, <3>4, <3>5, <3>6, <3>7 DEF ts
    <2>7. pushed' \in 0..Len(Pieces(request'))
      BY <1>4, <2>1 DEF n
    <2>8. Building'
      BY <1>1, <2>1, <2>2, <2>3, <2>4, <2>5, <2>6, <2>7 DEF Building, OFFCHAIN_HEADER_LEN
    <2> QED
      BY <2>1, <2>8 DEF TurnedDownOnlyIfTooLong
  <1>10. CASE ~ HasRoom(tokens)
    <2>1. status' = "failed" /\ UNCHANGED <<buf, len, pushed>> /\ request' = request
      BY <1>10 DEF Push
    <2>2. Building'
      BY <2>1 DEF Building
    <2>3. ~ (len + size <= MSG_BUF_SIZE)
      BY <1>10 DEF HasRoom, size
    <2>4. 20 + all > MSG_BUF_SIZE
      <3>1. len \in Nat
        BY <1>1, <1>3
      <3> QED
        BY <1>1, <1>3, <1>5, <1>6, <1>7, <1>8, <2>3, <3>1
    <2>5. TurnedDownOnlyIfTooLong'
      BY <2>1, <2>4 DEF TurnedDownOnlyIfTooLong, all, n, OFFCHAIN_HEADER_LEN
    <2> QED
      BY <2>1, <2>2, <2>5
  <1> QED
    BY <1>9, <1>10

\* An address takes 44 characters at most, so that the failure that
\* encode_base58 could report never comes.
LEMMA PushEncodedInv ==
  ASSUME MessageInv, PushEncoded
  PROVE  MessageInv'
  <1> DEFINE text == Encoded(input, digits)
             tokens == [n \in DOMAIN text |-> <<"digit", text[n]>>]
  <1>1. /\ status = "encoding" /\ Done
        /\ UNCHANGED <<request, header, input, consumed, digits>>
    BY DEF PushEncoded
  <1>2. Building /\ pushed < Len(Pieces(request)) /\ Piece.kind = "address"
        /\ Encodes(input, Len(input), digits) /\ Encodes(input, consumed, digits)
    BY <1>1 DEF MessageInv, Done
  <1>3. LeadingZeros(input) + Len(digits) <= 44
    BY <1>2, DigitsFit
  <1>4. text \in Seq(0..57) /\ Len(text) = LeadingZeros(input) + Len(digits)
    BY <1>2, EncodedSpells
  <1>5. LeadingZeros(input) + Len(digits) <= BUF_LEN
    <2>1. LeadingZeros(input) + Len(digits) \in Nat
      BY <1>4, SeqAt
    <2> QED
      BY <1>3, <2>1, BufferAssumption, SizeAssumption
  <1>6. Fits(input, digits)
    BY <1>5 DEF Fits
  <1>7. Push(tokens)
    BY <1>6 DEF PushEncoded
  <1> HIDE DEF text
  <1>8. tokens \in Seq(Token) /\ SizeOf(tokens) = Len(text)
    BY <1>4, SizeOfDigits
  <1> HIDE DEF tokens
  <1>9. SizeOf(tokens) <= Room(Piece)
    BY <1>2, <1>4, <1>5, <1>8 DEF Room
  <1>10. request \notin MetaRequests
    <2>1. request \in Requests /\ Buildable(request) /\ pushed \in 0..Len(Pieces(request))
      BY <1>2 DEF Building
    <2>2. pushed + 1 \in 1..Len(Pieces(request))
      <3>1. Len(Pieces(request)) \in Nat
        BY <2>1, PiecesAre
      <3> QED
        BY <1>2, <2>1, <3>1
    <2>3. request \in MetaRequests => Piece.kind = "text"
      BY <2>1, <2>2, PieceIs DEF Piece
    <2> QED
      BY <1>2, <2>3
  <1>11. Building' /\ status' \in {"building", "failed"} /\ TurnedDownOnlyIfTooLong'
    BY <1>1, <1>2, <1>7, <1>8, <1>9, <1>10, PushInv
  <1>12. Encodes(input, consumed, digits)'
    BY <1>1, <1>2
  <1> QED
    BY <1>11, <1>12 DEF MessageInv

\* The length in the header is the text's: two bytes hold it.
LEMMA FinalizeInv ==
  ASSUME MessageInv, Finalize
  PROVE  MessageInv'
  <1> DEFINE size == len - OFFCHAIN_HEADER_LEN
             front == [n \in 1..16 |-> "domain"]
             S == {"domain"} \cup Int
  <1>1. /\ pushed = Len(Pieces(request)) /\ size <= 65535
        /\ header' = front \o <<0, 0>> \o LengthBytes(size) /\ status' = "built"
        /\ UNCHANGED <<request, pushed, buf, len, input, consumed, digits>>
    BY DEF Finalize
  <1>2. Building /\ Encodes(input, consumed, digits)
    BY DEF MessageInv
  <1>3. size \in Nat
    <2>1. buf \in Seq(Token) /\ len = 20 + SizeOf(buf)
      BY <1>2 DEF Building, OFFCHAIN_HEADER_LEN
    <2>2. SizeOf(buf) \in Nat
      BY <2>1, SizeOfNat
    <2>3. size = SizeOf(buf)
      BY <2>1, <2>2 DEF OFFCHAIN_HEADER_LEN
    <2> QED
      BY <2>2, <2>3
  <1> HIDE DEF size
  <1> DEFINE low == size % 256
             high == (size \div 256) % 256
  <1>4. low \in Int /\ high \in Int /\ low + 256 * high = size
    <2>1. \A x \in Nat : x % 256 \in Int /\ x \div 256 \in Nat
      OBVIOUS
    <2>2. \A x \in Nat : (x % 256) + 256 * (x \div 256) = x
      OBVIOUS
    <2>3. low \in Int /\ size \div 256 \in Nat /\ low + 256 * (size \div 256) = size
      BY <1>3, <2>1, <2>2
    <2>4. size \div 256 < 256
      BY <1>1, <1>3
    <2>5. \A x \in Nat : x < 256 => x % 256 = x
      OBVIOUS
    <2>6. high = size \div 256
      BY <2>3, <2>4, <2>5
    <2> HIDE DEF low, high
    <2> QED
      BY <2>3, <2>6
  <1>5. LengthBytes(size) = <<low, high>>
    BY DEF LengthBytes
  <1> HIDE DEF low, high
  <1>6. front \in Seq(S) /\ Len(front) = 16
    <2>1. \A n \in 1..16 : front[n] \in S
      OBVIOUS
    <2> HIDE DEF S
    <2> QED
      BY <2>1
  <1>7. <<0, 0>> \in Seq(S) /\ Len(<<0, 0>>) = 2
    <2>1. 0 \in S
      OBVIOUS
    <2> HIDE DEF S
    <2> QED
      BY <2>1
  <1>8. <<low, high>> \in Seq(S) /\ Len(<<low, high>>) = 2
    <2>1. low \in S /\ high \in S
      BY <1>4
    <2> HIDE DEF S
    <2> QED
      BY <2>1
  <1> HIDE DEF front, S
  <1>9. front \o <<0, 0>> \in Seq(S) /\ Len(front \o <<0, 0>>) = 18
    <2> DEFINE zeros == <<0, 0>>
    <2>1. zeros \in Seq(S) /\ Len(zeros) = 2
      BY <1>7
    <2> HIDE DEF zeros
    <2>2. front \o zeros \in Seq(S) /\ Len(front \o zeros) = Len(front) + Len(zeros)
      BY <1>6, <2>1, ConcatIs
    <2>3. Len(front \o zeros) = 18
      BY <1>6, <2>1, <2>2
    <2> QED
      BY <2>2, <2>3 DEF zeros
  <1>10. /\ Len(header') = 20
         /\ header'[18 + 1] = low /\ header'[18 + 2] = high
    <2> DEFINE h == front \o <<0, 0>>
               t == <<low, high>>
    <2>1. t[1] = low /\ t[2] = high /\ 1 \in 1..Len(t) /\ 2 \in 1..Len(t)
      OBVIOUS
    <2>2. header' = h \o t
      BY <1>1, <1>5
    <2> HIDE DEF h, t
    <2>3. h \in Seq(S) /\ t \in Seq(S)
      BY <1>8, <1>9 DEF h, t
    <2>4. Len(h \o t) = Len(h) + Len(t) /\ \A k \in 1..Len(t) : (h \o t)[Len(h) + k] = t[k]
      BY <2>3, ConcatIs
    <2>5. /\ Len(header') = Len(h) + Len(t)
          /\ header'[Len(h) + 1] = t[1] /\ header'[Len(h) + 2] = t[2]
      BY <2>1, <2>2, <2>4
    <2>6. Len(h) = 18 /\ Len(t) = 2
      BY <1>8, <1>9 DEF h, t
    <2> QED
      BY <2>1, <2>5, <2>6
  <1>11. header'[19] + 256 * header'[20] = size
    BY <1>4, <1>10
  <1>12. /\ pushed' = Len(Pieces(request')) /\ Len(header') = OFFCHAIN_HEADER_LEN
         /\ header'[19] + 256 * header'[20] = len' - OFFCHAIN_HEADER_LEN
    BY <1>1, <1>10, <1>11 DEF size, OFFCHAIN_HEADER_LEN
  <1>13. Building' /\ Encodes(input, consumed, digits)'
    BY <1>1, <1>2 DEF Building
  <1>14. status' = "built"
    BY <1>1
  <1> QED
    BY <1>12, <1>13, <1>14 DEF MessageInv, TurnedDownOnlyIfTooLong

LEMMA MessageStep ==
  ASSUME MessageInv, [MessageNext]_mvars
  PROVE  MessageInv'
  <1>1. /\ Building /\ Encodes(input, consumed, digits)
        /\ status = "encoding" => pushed < Len(Pieces(request)) /\ Piece.kind = "address"
    BY DEF MessageInv
  <1>2. CASE PushBytes
    <2> USE <1>2
    <2>1. /\ pushed < Len(Pieces(request)) /\ Piece.kind = "text" /\ Push(Piece.tokens)
          /\ UNCHANGED <<request, header, input, consumed, digits>>
      BY DEF PushBytes
    <2>2. Piece.tokens \in Seq(Token)
      <3>1. request \in Requests /\ Buildable(request) /\ pushed \in 0..Len(Pieces(request))
        BY <1>1 DEF Building
      <3>2. Len(Pieces(request)) \in Nat
        BY <3>1, PiecesAre
      <3>3. pushed + 1 \in 1..Len(Pieces(request))
        BY <2>1, <3>1, <3>2
      <3> QED
        BY <2>1, <3>1, <3>3, PieceIs DEF Piece
    <2>3. SizeOf(Piece.tokens) <= Room(Piece)
      <3>1. SizeOf(Piece.tokens) \in Nat /\ Room(Piece) = SizeOf(Piece.tokens)
        BY <2>1, <2>2, SizeOfNat DEF Room
      <3> QED
        BY <3>1
    <2>4. Building' /\ status' \in {"building", "failed"} /\ TurnedDownOnlyIfTooLong'
      BY <1>1, <2>1, <2>2, <2>3, PushInv
    <2>5. Encodes(input, consumed, digits)'
      BY <1>1, <2>1
    <2> QED
      BY <2>4, <2>5 DEF MessageInv
  <1>3. CASE PushBase58
    <2> USE <1>3
    <2>1. /\ pushed < Len(Pieces(request)) /\ Piece.kind = "address" /\ Begin(Piece.bytes)
          /\ status' = "encoding" /\ UNCHANGED <<request, pushed, buf, len, header>>
      BY DEF PushBase58
    <2>2. Piece.bytes \in AddressBytes
      <3>1. request \in Requests /\ Buildable(request) /\ pushed \in 0..Len(Pieces(request))
        BY <1>1 DEF Building
      <3>2. Len(Pieces(request)) \in Nat
        BY <3>1, PiecesAre
      <3>3. pushed + 1 \in 1..Len(Pieces(request))
        BY <2>1, <3>1, <3>2
      <3> QED
        BY <2>1, <3>1, <3>3, PieceIs DEF Piece
    <2>3. Encodes(input, consumed, digits)'
      BY <2>1, <2>2, BeginEncodes DEF Begin
    <2>4. Building' /\ Piece' = Piece
      BY <1>1, <2>1 DEF Building, Piece
    <2> QED
      BY <2>1, <2>3, <2>4 DEF MessageInv, TurnedDownOnlyIfTooLong
  <1>4. CASE ConsumeByte
    <2> USE <1>4
    <2>1. /\ status = "encoding" /\ Consume
          /\ UNCHANGED <<request, pushed, buf, len, header, status>>
      BY DEF ConsumeByte
    <2>2. Encodes(input, consumed, digits)'
      BY <1>1, <2>1, ConsumeEncodes DEF Consume
    <2>3. Building' /\ Piece' = Piece
      BY <1>1, <2>1 DEF Building, Piece
    <2> QED
      BY <1>1, <2>1, <2>2, <2>3 DEF MessageInv, TurnedDownOnlyIfTooLong
  <1>5. CASE PushEncoded
    BY <1>5, PushEncodedInv
  <1>6. CASE Finalize
    BY <1>6, FinalizeInv
  <1>7. CASE UNCHANGED mvars
    BY <1>7 DEF mvars, MessageInv, Building, Piece, TurnedDownOnlyIfTooLong
  <1> QED
    BY <1>2, <1>3, <1>4, <1>5, <1>6, <1>7 DEF MessageNext

(***************************************************************************)
(* What the text of a meta-intent tells.                                   *)
(***************************************************************************)

LEMMA CatRun ==
  ASSUME NEW S, NEW a \in Seq(S), NEW e \in Seq(S), NEW c \in Seq(S), NEW f \in Seq(S),
         Len(e) # 0, Len(f) # 0, Cat(a, e) = Cat(c, f), Lacks(a, f[1]), Lacks(c, e[1])
  PROVE  a = c /\ e = f
  BY SameRun DEF Cat

LEMMA CatFirst ==
  ASSUME NEW S, NEW a \in Seq(S), NEW b \in Seq(S), Len(a) # 0
  PROVE  Cat(a, b) \in Seq(S) /\ Len(Cat(a, b)) # 0 /\ Cat(a, b)[1] = a[1]
  <1>1. Len(a) \in Nat /\ Len(b) \in Nat
    BY SeqAt
  <1>2. a \o b \in Seq(S) /\ Len(a \o b) = Len(a) + Len(b)
        /\ \A k \in 1..Len(a) : (a \o b)[k] = a[k]
    BY ConcatIs
  <1>3. 1 \in 1..Len(a) /\ Len(a) + Len(b) # 0
    BY <1>1
  <1> QED
    BY <1>2, <1>3 DEF Cat

\* Few texts, one after the other.
LEMMA FlattenFourOf ==
  ASSUME NEW S, NEW T, Flattened(S, T), NEW a \in T, NEW b \in T, NEW c \in T, NEW d \in T,
         a \in Seq(S)
  PROVE  FlattenSeq(<<a, b, c, d>>) = Cat(Cat(Cat(a, b), c), d)
  <1>1. /\ <<>> \in Seq(T) /\ <<a>> \in Seq(T) /\ <<a, b>> \in Seq(T) /\ <<a, b, c>> \in Seq(T)
    OBVIOUS
  <1>2. /\ <<a>> = Append(<<>>, a) /\ <<a, b>> = Append(<<a>>, b)
        /\ <<a, b, c>> = Append(<<a, b>>, c) /\ <<a, b, c, d>> = Append(<<a, b, c>>, d)
    OBVIOUS
  <1>3. \A u \in Seq(T), x \in T : FlattenSeq(Append(u, x)) = Cat(FlattenSeq(u), x)
    BY DEF Flattened, Cat
  <1>4. FlattenSeq(<<a>>) = Cat(<<>>, a)
    BY <1>1, <1>2, <1>3, FlattenEmpty, Zenon
  <1>5. Cat(<<>>, a) = a
    BY ConcatEmptySeq DEF Cat
  <1>6. FlattenSeq(<<a, b>>) = Cat(a, b)
    BY <1>1, <1>2, <1>3, <1>4, <1>5, Zenon
  <1>7. FlattenSeq(<<a, b, c>>) = Cat(Cat(a, b), c)
    BY <1>1, <1>2, <1>3, <1>6, Zenon
  <1>8. FlattenSeq(<<a, b, c, d>>) = Cat(Cat(Cat(a, b), c), d)
    BY <1>1, <1>2, <1>3, <1>7, Zenon
  <1> QED
    BY <1>8

LEMMA FlattenFour ==
  ASSUME NEW S, NEW a \in Seq(S), NEW b \in Seq(S), NEW c \in Seq(S), NEW d \in Seq(S)
  PROVE  FlattenSeq(<<a, b, c, d>>) = Cat(Cat(Cat(a, b), c), d)
  <1> DEFINE T == Seq(S)
  <1>1. Flattened(S, T) /\ a \in T /\ b \in T /\ c \in T /\ d \in T
    BY FlattenedHolds
  <1> HIDE DEF T
  <1> QED
    BY <1>1, FlattenFourOf

LEMMA FlattenCat ==
  ASSUME NEW S, NEW s \in Seq(Seq(S)), NEW t \in Seq(Seq(S))
  PROVE  FlattenSeq(s \o t) = Cat(FlattenSeq(s), FlattenSeq(t))
  BY FlattenConcat DEF Cat

\* The texts of pieces.
Tokens(ps) == [k \in DOMAIN ps |-> ps[k].tokens]

LEMMA TokensAre ==
  ASSUME NEW ps \in Seq(PieceOfText)
  PROVE  /\ Tokens(ps) \in Seq(Seq(Token)) /\ Len(Tokens(ps)) = Len(ps) /\ Len(ps) \in Nat
         /\ \A k \in 1..Len(ps) : Tokens(ps)[k] = ps[k].tokens
  <1>1. DOMAIN ps = 1..Len(ps) /\ Len(ps) \in Nat /\ \A k \in 1..Len(ps) : ps[k] \in PieceOfText
    BY SeqAt
  <1>2. \A p \in PieceOfText : p.tokens \in Seq(Token)
    BY DEF PieceOfText
  <1>3. \A k \in 1..Len(ps) : ps[k].tokens \in Seq(Token)
    BY <1>1, <1>2
  <1>4. Tokens(ps) = [k \in 1..Len(ps) |-> ps[k].tokens]
    BY <1>1 DEF Tokens
  <1> QED
    BY <1>1, <1>3, <1>4

LEMMA TokensConcat ==
  ASSUME NEW ps \in Seq(PieceOfText), NEW qs \in Seq(PieceOfText)
  PROVE  Tokens(ps \o qs) = Tokens(ps) \o Tokens(qs)
  <1> DEFINE T == Seq(Token)
             n == Len(ps)
             m == Len(qs)
             all == ps \o qs
             a == Tokens(ps)
             b == Tokens(qs)
             c == Tokens(all)
             both == a \o b
  <1>1. /\ all \in Seq(PieceOfText) /\ Len(all) = n + m
        /\ \A k \in 1..n : all[k] = ps[k]
        /\ \A k \in 1..m : all[n + k] = qs[k]
    BY ConcatIs
  <1> HIDE DEF all
  <1>2. /\ a \in Seq(T) /\ Len(a) = n /\ n \in Nat
        /\ \A k \in 1..n : a[k] = ps[k].tokens
    BY TokensAre
  <1>3. /\ b \in Seq(T) /\ Len(b) = m /\ m \in Nat
        /\ \A k \in 1..m : b[k] = qs[k].tokens
    BY TokensAre
  <1>4. /\ c \in Seq(T) /\ Len(c) = n + m
        /\ \A k \in 1..(n + m) : c[k] = all[k].tokens
    BY <1>1, TokensAre
  <1> HIDE DEF T, a, b, c, n, m
  <1>5. /\ both \in Seq(T) /\ Len(both) = Len(a) + Len(b)
        /\ \A k \in 1..Len(a) : both[k] = a[k]
        /\ \A k \in 1..Len(b) : both[Len(a) + k] = b[k]
    <2>1. a \in Seq(T) /\ b \in Seq(T)
      BY <1>2, <1>3
    <2> QED
      BY <2>1, ConcatIs
  <1> HIDE DEF both
  <1>6. ASSUME NEW k \in 1..(n + m)
        PROVE  c[k] = both[k]
    <2>1. CASE k <= n
      <3>1. k \in 1..n /\ k \in 1..Len(a)
        BY <1>2, <1>3, <2>1
      <3>2. both[k] = ps[k].tokens
        BY <1>2, <1>5, <3>1
      <3>3. c[k] = ps[k].tokens
        BY <1>1, <1>4, <3>1
      <3> QED
        BY <3>2, <3>3
    <2>2. CASE ~ (k <= n)
      <3> DEFINE j == k - n
      <3>1. j \in 1..m /\ j \in 1..Len(b) /\ n + j = k
        BY <1>2, <1>3, <2>2
      <3> HIDE DEF j
      <3>2. all[k] = qs[j]
        BY <1>1, <3>1
      <3>3. both[k] = b[j]
        BY <1>2, <1>5, <3>1
      <3>4. c[k] = qs[j].tokens
        BY <1>4, <3>2
      <3> QED
        BY <1>3, <3>1, <3>3, <3>4
    <2> QED
      BY <2>1, <2>2
  <1>7. c = both
    <2>1. Len(c) = Len(both)
      BY <1>2, <1>3, <1>4, <1>5
    <2> QED
      BY <1>4, <1>5, <1>6, <2>1, SeqEqual
  <1> QED
    BY <1>7 DEF all, both, a, b, c

LEMMA TokensOfOne ==
  ASSUME NEW p \in PieceOfText
  PROVE  <<p>> \in Seq(PieceOfText) /\ Tokens(<<p>>) = <<p.tokens>>
  <1>1. <<p>> \in Seq(PieceOfText) /\ Len(<<p>>) = 1 /\ <<p>>[1] = p
    OBVIOUS
  <1> DEFINE T == Seq(Token)
  <1>2. /\ Tokens(<<p>>) \in Seq(T) /\ Len(Tokens(<<p>>)) = 1 /\ Tokens(<<p>>)[1] = p.tokens
        /\ p.tokens \in T
    <2> DEFINE ps == <<p>>
    <2>1. ps \in Seq(PieceOfText) /\ Len(ps) = 1 /\ ps[1] = p /\ 1 \in 1..Len(ps)
      BY <1>1
    <2> HIDE DEF ps
    <2>2. /\ Tokens(ps) \in Seq(T) /\ Len(Tokens(ps)) = Len(ps)
          /\ Tokens(ps)[1] = ps[1].tokens
      BY <2>1, TokensAre
    <2>3. Len(Tokens(ps)) = 1 /\ Tokens(ps)[1] = p.tokens
      BY <2>1, <2>2
    <2>4. p.tokens \in T
      BY DEF PieceOfText
    <2> QED
      BY <2>2, <2>3, <2>4 DEF ps
  <1> HIDE DEF T
  <1>3. <<p.tokens>> \in Seq(T) /\ Len(<<p.tokens>>) = 1 /\ <<p.tokens>>[1] = p.tokens
    BY <1>2
  <1>4. \A k \in 1..1 : Tokens(<<p>>)[k] = <<p.tokens>>[k]
    BY <1>2, <1>3
  <1> QED
    BY <1>1, <1>2, <1>3, <1>4, SeqEqual

HexTexts(bytes) == [n \in DOMAIN bytes |-> HexText(bytes[n])]

LEMMA HexTextsAre ==
  ASSUME NEW bytes \in Bytes
  PROVE  /\ HexTexts(bytes) \in Seq(Seq(Token)) /\ Len(HexTexts(bytes)) = Len(bytes)
         /\ \A n \in 1..Len(bytes) : HexTexts(bytes)[n] = HexText(bytes[n])
         /\ \A n \in 1..Len(bytes) : Len(HexTexts(bytes)[n]) = 2
         /\ Tokens(Hex(bytes)) = HexTexts(bytes)
  <1>1. /\ DOMAIN bytes = 1..Len(bytes) /\ Len(bytes) \in Nat
        /\ \A n \in 1..Len(bytes) : bytes[n] \in 0..255
    BY SeqAt DEF Bytes
  <1>2. \A n \in 1..Len(bytes) : HexText(bytes[n]) \in Seq(Token) /\ Len(HexText(bytes[n])) = 2
    BY <1>1, HexTextIs
  <1>3. HexTexts(bytes) = [n \in 1..Len(bytes) |-> HexText(bytes[n])]
    BY <1>1 DEF HexTexts
  <1> HIDE DEF HexText
  <1>4. /\ HexTexts(bytes) \in Seq(Seq(Token)) /\ Len(HexTexts(bytes)) = Len(bytes)
        /\ \A n \in 1..Len(bytes) : HexTexts(bytes)[n] = HexText(bytes[n])
    BY <1>1, <1>2, <1>3
  <1>5. /\ Tokens(Hex(bytes)) \in Seq(Seq(Token)) /\ Len(Tokens(Hex(bytes))) = Len(bytes)
        /\ \A n \in 1..Len(bytes) : Tokens(Hex(bytes))[n] = HexText(bytes[n])
    BY HexIs, TokensAre
  <1>6. Tokens(Hex(bytes)) = HexTexts(bytes)
    <2> DEFINE T == Seq(Token)
    <2>1. Tokens(Hex(bytes)) \in Seq(T) /\ HexTexts(bytes) \in Seq(T)
      BY <1>4, <1>5
    <2> HIDE DEF T
    <2> QED
      BY <1>4, <1>5, <2>1, SeqEqual
  <1> QED
    BY <1>2, <1>4, <1>6

LEMMA HexTextsTell ==
  ASSUME NEW bytes \in Bytes, NEW other \in Bytes, HexTexts(bytes) = HexTexts(other)
  PROVE  bytes = other
  <1>1. /\ Len(HexTexts(bytes)) = Len(bytes) /\ Len(HexTexts(other)) = Len(other)
        /\ \A n \in 1..Len(bytes) : HexTexts(bytes)[n] = HexText(bytes[n])
        /\ \A n \in 1..Len(other) : HexTexts(other)[n] = HexText(other[n])
    BY HexTextsAre
  <1>2. Len(bytes) = Len(other)
    BY <1>1
  <1>3. \A n \in 1..Len(bytes) : bytes[n] \in 0..255 /\ other[n] \in 0..255
    BY <1>2, BytesAt
  <1>4. \A n \in 1..Len(bytes) : bytes[n] = other[n]
    BY <1>1, <1>2, <1>3, HexTextTells, ZenonT(60)
  <1> QED
    BY <1>2, <1>4, SeqEqual DEF Bytes

\* The word that says what a message about a meta-intent is about, and what comes
\* behind it up to the wallet's name.
Subject(r) ==
  CASE r.intent_type = "AddIntent" -> "add intent definition_hash: "
    [] r.intent_type = "RemoveIntent" -> "remove intent "
    [] OTHER -> "update intent "

HashTexts(d) == <<<<Word(" definition_hash: ")>>>> \o HexTexts(Sha256[d])

Details(r) ==
  CASE r.intent_type = "AddIntent" -> FlattenSeq(HexTexts(Sha256[r.params_data]))
    [] r.intent_type = "RemoveIntent" -> Digits(r.params_data[1])
    [] OTHER -> Cat(Digits(r.params_data[1]), FlattenSeq(HashTexts(Tail(r.params_data))))

Ending(r) ==
  Cat(Cat(Cat(<<Word(" | wallet: ")>>, r.wallet_name), <<Word(" proposal: ")>>),
      Digits(r.proposal_index))

\* What is known of a request about a meta-intent.
LEMMA MetaIs ==
  ASSUME NEW r \in MetaRequests
  PROVE  /\ r \in Requests /\ Buildable(r) /\ r \in Request /\ r.rendered = <<>>
         /\ r.intent_type \in {"AddIntent", "RemoveIntent", "UpdateIntent"}
         /\ r.intent_type = "AddIntent" =>
              r.params_data \in DOMAIN Sha256 /\ Sha256[r.params_data] \in Bytes
         /\ r.intent_type = "RemoveIntent" =>
              /\ Len(r.params_data) = 1
              /\ r.params_data[1] \in Printable /\ Digits(r.params_data[1]) \in Seq(Token)
         /\ r.intent_type = "UpdateIntent" =>
              /\ Len(r.params_data) > 1
              /\ r.params_data[1] \in Printable /\ Digits(r.params_data[1]) \in Seq(Token)
              /\ Tail(r.params_data) \in DOMAIN Sha256 /\ Sha256[Tail(r.params_data)] \in Bytes
  <1>1. r \in Requests /\ Buildable(r) /\ r.intent_type # "Custom"
    BY DEF MetaRequests
  <1>2. r \in Request /\ r.rendered = <<>>
    BY <1>1, RequestAssumption
  <1>3. r.intent_type \in {"AddIntent", "RemoveIntent", "UpdateIntent"}
    BY <1>1, RequestIs DEF IntentTypes
  <1>4. /\ r.intent_type = "AddIntent" => r.params_data \in DOMAIN Sha256
        /\ r.intent_type = "UpdateIntent" => Tail(r.params_data) \in DOMAIN Sha256
    BY <1>1, RequestIs, RequestAssumption
  <1> QED
    BY <1>1, <1>2, <1>3, <1>4, RequestIs, DigitsAre

LEMMA OneToken ==
  ASSUME NEW x \in Token
  PROVE  <<x>> \in Seq(Token) /\ Len(<<x>>) = 1 /\ Len(<<x>>) # 0 /\ <<x>>[1] = x
  OBVIOUS

LEMMA TokensAlike ==
  ASSUME NEW ps \in Seq(PieceOfText), NEW ts \in Seq(Seq(Token)), Len(ps) = Len(ts),
         \A k \in 1..Len(ts) : ps[k].tokens = ts[k]
  PROVE  Tokens(ps) = ts
  <1> DEFINE T == Seq(Token)
  <1>1. /\ Tokens(ps) \in Seq(T) /\ Len(Tokens(ps)) = Len(ts)
        /\ \A k \in 1..Len(ts) : Tokens(ps)[k] = ts[k]
    BY TokensAre
  <1>2. ts \in Seq(T)
    OBVIOUS
  <1> HIDE DEF T
  <1> QED
    BY <1>1, <1>2, SeqEqual

LEMMA FourPieces ==
  ASSUME NEW a \in PieceOfText, NEW b \in PieceOfText, NEW c \in PieceOfText, NEW d \in PieceOfText
  PROVE  Tokens(<<a, b, c, d>>) = <<a.tokens, b.tokens, c.tokens, d.tokens>>
  <1> DEFINE T == Seq(Token)
             ps == <<a, b, c, d>>
             ts == <<a.tokens, b.tokens, c.tokens, d.tokens>>
  <1>1. a.tokens \in T /\ b.tokens \in T /\ c.tokens \in T /\ d.tokens \in T
    BY DEF PieceOfText
  <1>2. ps \in Seq(PieceOfText)
    BY TuplesAre
  <1> HIDE DEF T
  <1>3. ts \in Seq(T)
    BY <1>1, TuplesAre
  <1>4. Len(ps) = 4 /\ Len(ts) = 4
    OBVIOUS
  <1>5. ps[1].tokens = ts[1] /\ ps[2].tokens = ts[2] /\ ps[3].tokens = ts[3] /\ ps[4].tokens = ts[4]
    OBVIOUS
  <1>6. ts \in Seq(Seq(Token))
    BY <1>3 DEF T
  <1> HIDE DEF ps, ts
  <1>7. Len(ps) = Len(ts) /\ \A k \in 1..Len(ts) : ps[k].tokens = ts[k]
    BY <1>4, <1>5
  <1> QED
    BY <1>2, <1>6, <1>7, TokensAlike DEF ps, ts

LEMMA HashTextsAre ==
  ASSUME NEW d \in DOMAIN Sha256
  PROVE  /\ HexTexts(Sha256[d]) \in Seq(Seq(Token))
         /\ <<<<Word(" definition_hash: ")>>>> \in Seq(Seq(Token))
         /\ Word(" definition_hash: ") \in Token
  <1> DEFINE T == Seq(Token)
             x == Word(" definition_hash: ")
             w == <<x>>
  <1>1. " definition_hash: " \in Words
    BY DEF Words
  <1>2. x \in Token
    BY <1>1, WordsAre
  <1> HIDE DEF x
  <1>3. w \in T
    BY <1>2, OneToken
  <1>4. HexTexts(Sha256[d]) \in Seq(T)
    BY HexTextsAre, SizeAssumption DEF Bytes
  <1> HIDE DEF T, w
  <1>5. <<w>> \in Seq(T)
    BY <1>3
  <1> QED
    BY <1>2, <1>4, <1>5 DEF T, w, x

LEMMA EndingIs ==
  ASSUME NEW r \in MetaRequests
  PROVE  /\ FlattenSeq(Tokens(PushSuffix(r))) = Ending(r)
         /\ Ending(r) \in Seq(Token) /\ Len(Ending(r)) # 0
         /\ Ending(r)[1] = Word(" | wallet: ")
  <1> DEFINE x == Word(" | wallet: ")
             y == Word(" proposal: ")
             a == <<x>>
             b == r.wallet_name
             c == <<y>>
             d == Digits(r.proposal_index)
  <1>1. x \in Token /\ y \in Token /\ b \in Seq(Token) /\ d \in Seq(Token)
    BY MetaIs, SuffixIs
  <1>2. Ending(r) = Cat(Cat(Cat(a, b), c), d) /\ PushSuffix(r) = <<Text(a), Text(b), Text(c), Text(d)>>
    BY DEF Ending, PushSuffix
  <1> HIDE DEF x, y, b, d
  <1>3. a \in Seq(Token) /\ Len(a) # 0 /\ a[1] = x /\ c \in Seq(Token)
    BY <1>1, OneToken
  <1> HIDE DEF a, c
  <1>4. /\ Text(a) \in PieceOfText /\ Text(b) \in PieceOfText /\ Text(c) \in PieceOfText
        /\ Text(d) \in PieceOfText
        /\ Text(a).tokens = a /\ Text(b).tokens = b /\ Text(c).tokens = c /\ Text(d).tokens = d
    BY <1>1, <1>3, TextIs
  <1>5. Tokens(PushSuffix(r)) = <<a, b, c, d>>
    BY <1>2, <1>4, FourPieces
  <1>6. FlattenSeq(<<a, b, c, d>>) = Cat(Cat(Cat(a, b), c), d)
    BY <1>1, <1>3, FlattenFour
  <1>7. Cat(a, b) \in Seq(Token) /\ Len(Cat(a, b)) # 0 /\ Cat(a, b)[1] = x
    BY <1>1, <1>3, CatFirst
  <1>8. LET e == Cat(Cat(a, b), c) IN e \in Seq(Token) /\ Len(e) # 0 /\ e[1] = x
    BY <1>3, <1>7, CatFirst
  <1>9. LET f == Cat(Cat(Cat(a, b), c), d) IN f \in Seq(Token) /\ Len(f) # 0 /\ f[1] = x
    BY <1>1, <1>8, CatFirst
  <1> QED
    BY <1>2, <1>5, <1>6, <1>9 DEF x

LEMMA EndingTells ==
  ASSUME NEW r \in MetaRequests, NEW q \in MetaRequests, Ending(r) = Ending(q)
  PROVE  r.wallet_name = q.wallet_name /\ r.proposal_index = q.proposal_index
  <1> DEFINE v == Word(" | wallet: ")
             w == <<v>>
             x == Word(" proposal: ")
             a == Cat(w, r.wallet_name)
             c == Cat(w, q.wallet_name)
             b == Digits(r.proposal_index)
             d == Digits(q.proposal_index)
  <1>1. /\ v \in Token /\ x \in Token
        /\ r.wallet_name \in Seq(Token) /\ b \in Seq(Token)
        /\ q.wallet_name \in Seq(Token) /\ d \in Seq(Token)
    BY MetaIs, SuffixIs
  <1>2. w \in Seq(Token) /\ Len(w) # 0
    BY <1>1, OneToken
  <1>3. r.proposal_index \in Printable /\ q.proposal_index \in Printable
    BY MetaIs, RequestIs
  <1>4. Lacks(b, x) /\ Lacks(d, x)
    <2>1. x[1] # "char"
      BY DEF Word
    <2> QED
      BY <1>3, <2>1, DigitsAre DEF Lacks
  <1>5. Cat(Cat(a, <<x>>), b) = Cat(Cat(c, <<x>>), d)
    BY DEF Ending
  <1> HIDE DEF w, x, b, d, v
  <1>6. a \in Seq(Token) /\ c \in Seq(Token)
    BY <1>1, <1>2, CatFirst
  <1> HIDE DEF a, c
  <1>7. a = c /\ b = d
    <2>1. b \in Seq(Token) /\ d \in Seq(Token) /\ x \in Token
      BY <1>1
    <2> QED
      BY <2>1, <1>4, <1>5, <1>6, SameRest
  <1>8. Cat(w, r.wallet_name) = Cat(w, q.wallet_name)
    BY <1>7 DEF a, c
  <1>9. r.wallet_name = q.wallet_name
    BY <1>1, <1>2, <1>8, CatFront
  <1>10. r.proposal_index = q.proposal_index
    BY <1>3, <1>7, DigitsTell DEF b, d
  <1> QED
    BY <1>9, <1>10

\* The text of pieces.
TextOf(ps) == FlattenSeq(Tokens(ps))

LEMMA TextOfConcat ==
  ASSUME NEW ps \in Seq(PieceOfText), NEW qs \in Seq(PieceOfText)
  PROVE  /\ TextOf(ps) \in Seq(Token) /\ TextOf(qs) \in Seq(Token)
         /\ ps \o qs \in Seq(PieceOfText)
         /\ TextOf(ps \o qs) = Cat(TextOf(ps), TextOf(qs))
  <1>1. Tokens(ps) \in Seq(Seq(Token)) /\ Tokens(qs) \in Seq(Seq(Token))
    BY TokensAre
  <1>2. FlattenSeq(Tokens(ps)) \in Seq(Token) /\ FlattenSeq(Tokens(qs)) \in Seq(Token)
    BY <1>1, FlattenIsSeq
  <1>3. ps \o qs \in Seq(PieceOfText)
    BY ConcatIs
  <1>4. Tokens(ps \o qs) = Tokens(ps) \o Tokens(qs)
    BY TokensConcat
  <1>5. FlattenSeq(Tokens(ps) \o Tokens(qs)) = Cat(FlattenSeq(Tokens(ps)), FlattenSeq(Tokens(qs)))
    BY <1>1, FlattenCat
  <1> QED
    BY <1>2, <1>3, <1>4, <1>5 DEF TextOf

LEMMA TextOfOne ==
  ASSUME NEW a \in Seq(Token)
  PROVE  <<Text(a)>> \in Seq(PieceOfText) /\ TextOf(<<Text(a)>>) = a
  <1>1. Text(a) \in PieceOfText /\ Text(a).tokens = a
    BY TextIs
  <1>2. <<Text(a)>> \in Seq(PieceOfText) /\ Tokens(<<Text(a)>>) = <<a>>
    BY <1>1, TokensOfOne
  <1>3. FlattenSeq(<<a>>) = a
    BY FlattenOne
  <1> QED
    BY <1>2, <1>3 DEF TextOf

LEMMA TextOfTwo ==
  ASSUME NEW a \in Seq(Token), NEW b \in Seq(Token)
  PROVE  <<Text(a), Text(b)>> \in Seq(PieceOfText) /\ TextOf(<<Text(a), Text(b)>>) = Cat(a, b)
  <1> DEFINE p == <<Text(a)>>
             q == <<Text(b)>>
  <1>1. <<Text(a), Text(b)>> = p \o q
    OBVIOUS
  <1>2. /\ p \in Seq(PieceOfText) /\ TextOf(p) = a
        /\ q \in Seq(PieceOfText) /\ TextOf(q) = b
    BY TextOfOne
  <1> HIDE DEF p, q
  <1> QED
    BY <1>1, <1>2, TextOfConcat

LEMMA TextOfThree ==
  ASSUME NEW a \in Seq(Token), NEW b \in Seq(Token), NEW c \in Seq(Token)
  PROVE  /\ <<Text(a), Text(b), Text(c)>> \in Seq(PieceOfText)
         /\ TextOf(<<Text(a), Text(b), Text(c)>>) = Cat(Cat(a, b), c)
  <1> DEFINE p == <<Text(a), Text(b)>>
             q == <<Text(c)>>
  <1>1. <<Text(a), Text(b), Text(c)>> = p \o q
    OBVIOUS
  <1>2. /\ p \in Seq(PieceOfText) /\ TextOf(p) = Cat(a, b)
        /\ q \in Seq(PieceOfText) /\ TextOf(q) = c
    BY TextOfOne, TextOfTwo
  <1> HIDE DEF p, q
  <1> QED
    BY <1>1, <1>2, TextOfConcat

LEMMA SubjectIs ==
  ASSUME NEW r \in MetaRequests
  PROVE  Word(Subject(r)) \in Token
  <1>1. /\ "add intent definition_hash: " \in Words /\ "remove intent " \in Words
        /\ "update intent " \in Words
    BY DEF Words
  <1>2. Subject(r) \in Words
    BY <1>1 DEF Subject
  <1> QED
    BY <1>2, WordsAre

LEMMA HexTextOf ==
  ASSUME NEW bytes \in Bytes
  PROVE  /\ Hex(bytes) \in Seq(PieceOfText) /\ TextOf(Hex(bytes)) = FlattenSeq(HexTexts(bytes))
         /\ FlattenSeq(HexTexts(bytes)) \in Seq(Token)
  <1>1. Hex(bytes) \in Seq(PieceOfText)
    BY HexIs
  <1>2. HexTexts(bytes) \in Seq(Seq(Token)) /\ Tokens(Hex(bytes)) = HexTexts(bytes)
    BY HexTextsAre
  <1> QED
    BY <1>1, <1>2, FlattenIsSeq DEF TextOf

LEMMA HashTextsFlat ==
  ASSUME NEW d \in DOMAIN Sha256
  PROVE  /\ FlattenSeq(HashTexts(d)) \in Seq(Token)
         /\ FlattenSeq(HashTexts(d)) =
              Cat(<<Word(" definition_hash: ")>>, FlattenSeq(HexTexts(Sha256[d])))
         /\ Len(FlattenSeq(HashTexts(d))) # 0
         /\ FlattenSeq(HashTexts(d))[1] = Word(" definition_hash: ")
  <1> DEFINE x == Word(" definition_hash: ")
             w == <<x>>
             h == HexTexts(Sha256[d])
             f == FlattenSeq(h)
  <1>1. h \in Seq(Seq(Token)) /\ <<w>> \in Seq(Seq(Token)) /\ x \in Token
        /\ HashTexts(d) = <<w>> \o h
    BY HashTextsAre DEF HashTexts
  <1> HIDE DEF x, h
  <1>2. w \in Seq(Token) /\ Len(w) # 0 /\ w[1] = x
    BY <1>1, OneToken
  <1> HIDE DEF w
  <1>3. FlattenSeq(<<w>> \o h) = Cat(FlattenSeq(<<w>>), FlattenSeq(h))
    BY <1>1, FlattenCat
  <1>4. FlattenSeq(<<w>>) = w
    BY <1>2, FlattenOne
  <1>5. f \in Seq(Token)
    BY <1>1, FlattenIsSeq
  <1> HIDE DEF f
  <1>6. Cat(w, f) \in Seq(Token) /\ Len(Cat(w, f)) # 0 /\ Cat(w, f)[1] = x
    BY <1>2, <1>5, CatFirst
  <1>7. FlattenSeq(HashTexts(d)) = Cat(w, f)
    BY <1>1, <1>3, <1>4 DEF f
  <1> QED
    BY <1>6, <1>7 DEF f, w, x, h

LEMMA DetailsAre ==
  ASSUME NEW r \in MetaRequests
  PROVE  /\ Details(r) \in Seq(Token)
         /\ TextOf(Content(r)) = Cat(<<Word(Subject(r))>>, Details(r))
  <1> DEFINE x == Word(Subject(r))
             w == <<x>>
             d == Digits(r.params_data[1])
             p == <<Text(w)>>
  <1>1. w \in Seq(Token) /\ x \in Token
    BY SubjectIs, OneToken
  <1> HIDE DEF w
  <1>2. p \in Seq(PieceOfText) /\ TextOf(p) = w
    BY <1>1, TextOfOne
  <1> HIDE DEF p, d
  <1>3. CASE r.intent_type = "AddIntent"
    <2> DEFINE h == Hex(Sha256[r.params_data])
               f == FlattenSeq(HexTexts(Sha256[r.params_data]))
    <2>1. Content(r) = p \o h
      BY <1>3 DEF Content, Subject, p, w
    <2>2. Details(r) = f
      BY <1>3 DEF Details
    <2>3. h \in Seq(PieceOfText) /\ TextOf(h) = f /\ f \in Seq(Token)
      BY <1>3, MetaIs, HexTextOf
    <2> HIDE DEF h, f
    <2>4. TextOf(p \o h) = Cat(w, f)
      BY <1>2, <2>3, TextOfConcat
    <2> QED
      BY <2>1, <2>2, <2>3, <2>4 DEF w
  <1>4. CASE r.intent_type = "RemoveIntent"
    <2>1. Content(r) = <<Text(w), Text(d)>>
      BY <1>4 DEF Content, Subject, w, d
    <2>2. Details(r) = d
      BY <1>4 DEF Details, d
    <2>3. d \in Seq(Token)
      BY <1>4, MetaIs DEF d
    <2>4. TextOf(<<Text(w), Text(d)>>) = Cat(w, d)
      BY <1>1, <2>3, TextOfTwo
    <2> QED
      BY <2>1, <2>2, <2>3, <2>4 DEF w
  <1>5. CASE r.intent_type = "UpdateIntent"
    <2> DEFINE data == Tail(r.params_data)
               y == Word(" definition_hash: ")
               v == <<y>>
               h == Hex(Sha256[data])
               f == FlattenSeq(HexTexts(Sha256[data]))
               s == <<Text(w), Text(d), Text(v)>>
    <2>1. Content(r) = s \o h
      BY <1>5 DEF Content, Subject, w, d
    <2>2. Details(r) = Cat(d, FlattenSeq(HashTexts(data)))
      BY <1>5 DEF Details, d
    <2>3. d \in Seq(Token)
      BY <1>5, MetaIs DEF d
    <2>4. data \in DOMAIN Sha256 /\ Sha256[data] \in Bytes
      BY <1>5, MetaIs
    <2>5. h \in Seq(PieceOfText) /\ TextOf(h) = f /\ f \in Seq(Token)
      BY <2>4, HexTextOf
    <2>6. y \in Token
      BY <2>4, HashTextsAre
    <2>7. FlattenSeq(HashTexts(data)) = Cat(v, f) /\ FlattenSeq(HashTexts(data)) \in Seq(Token)
      BY <2>4, HashTextsFlat
    <2> HIDE DEF data, y, h, f
    <2>8. v \in Seq(Token)
      BY <2>6, OneToken
    <2> HIDE DEF v
    <2>9. s \in Seq(PieceOfText) /\ TextOf(s) = Cat(Cat(w, d), v)
      BY <1>1, <2>3, <2>8, TextOfThree
    <2> HIDE DEF s
    <2>10. TextOf(s \o h) = Cat(Cat(Cat(w, d), v), f)
      BY <2>5, <2>9, TextOfConcat
    <2>11. Cat(w, d) \in Seq(Token) /\ Cat(v, f) \in Seq(Token)
      BY <1>1, <2>3, <2>5, <2>8, CatIs
    <2>12. Cat(Cat(Cat(w, d), v), f) = Cat(Cat(w, d), Cat(v, f))
      BY <2>5, <2>8, <2>11, CatTwice
    <2>13. Cat(Cat(w, d), Cat(v, f)) = Cat(w, Cat(d, Cat(v, f)))
      BY <1>1, <2>3, <2>11, CatTwice
    <2>14. Cat(d, Cat(v, f)) \in Seq(Token)
      BY <2>3, <2>11, CatIs
    <2> QED
      BY <2>1, <2>2, <2>7, <2>10, <2>12, <2>13, <2>14 DEF w
  <1> QED
    BY <1>3, <1>4, <1>5, MetaIs

\* The texts in front: "expires <time>: <action> ".
Opening(r) == Tokens(PushHeader(r))

LEMMA FivePieces ==
  ASSUME NEW a \in PieceOfText, NEW b \in PieceOfText, NEW c \in PieceOfText,
         NEW d \in PieceOfText, NEW e \in PieceOfText
  PROVE  /\ Tokens(<<a, b, c, d, e>>) \in Seq(Seq(Token)) /\ Len(Tokens(<<a, b, c, d, e>>)) = 5
         /\ Tokens(<<a, b, c, d, e>>)[1] = a.tokens /\ Tokens(<<a, b, c, d, e>>)[2] = b.tokens
         /\ Tokens(<<a, b, c, d, e>>)[3] = c.tokens /\ Tokens(<<a, b, c, d, e>>)[4] = d.tokens
         /\ Tokens(<<a, b, c, d, e>>)[5] = e.tokens
  <1> DEFINE ps == <<a, b, c, d, e>>
  <1>1. ps \in Seq(PieceOfText)
    BY TuplesAre
  <1>2. Len(ps) = 5 /\ ps[1] = a /\ ps[2] = b /\ ps[3] = c /\ ps[4] = d /\ ps[5] = e
    OBVIOUS
  <1> HIDE DEF ps
  <1>3. /\ Tokens(ps) \in Seq(Seq(Token)) /\ Len(Tokens(ps)) = Len(ps)
        /\ \A k \in 1..Len(ps) : Tokens(ps)[k] = ps[k].tokens
    BY <1>1, TokensAre
  <1>4. Tokens(ps)[1] = a.tokens /\ Tokens(ps)[2] = b.tokens /\ Tokens(ps)[3] = c.tokens
        /\ Tokens(ps)[4] = d.tokens /\ Tokens(ps)[5] = e.tokens
    BY <1>2, <1>3
  <1> QED
    BY <1>2, <1>3, <1>4 DEF ps

LEMMA OpeningIs ==
  ASSUME NEW r \in MetaRequests
  PROVE  /\ Opening(r) \in Seq(Seq(Token)) /\ Len(Opening(r)) = 5
         /\ \A k \in 1..5 : Len(Opening(r)[k]) = 1
         /\ Opening(r)[2] = <<Stamp(r.expiry)>> /\ Opening(r)[4] = <<Word(r.action)>>
  <1> DEFINE a == <<Word("expires ")>>
             b == <<Stamp(r.expiry)>>
             c == <<Word(": ")>>
             d == <<Word(r.action)>>
             e == <<Word(" ")>>
  <1>1. /\ Text(a) \in PieceOfText /\ Text(b) \in PieceOfText /\ Text(c) \in PieceOfText
        /\ Text(d) \in PieceOfText /\ Text(e) \in PieceOfText
    BY MetaIs, HeaderIs
  <1>2. Len(a) = 1 /\ Len(b) = 1 /\ Len(c) = 1 /\ Len(d) = 1 /\ Len(e) = 1
    OBVIOUS
  <1>3. PushHeader(r) = <<Text(a), Text(b), Text(c), Text(d), Text(e)>>
    BY DEF PushHeader
  <1> HIDE DEF a, b, c, d, e
  <1>4. /\ Text(a).tokens = a /\ Text(b).tokens = b /\ Text(c).tokens = c
        /\ Text(d).tokens = d /\ Text(e).tokens = e
    BY DEF Text
  <1>5. /\ Opening(r) \in Seq(Seq(Token)) /\ Len(Opening(r)) = 5
        /\ Opening(r)[1] = a /\ Opening(r)[2] = b /\ Opening(r)[3] = c
        /\ Opening(r)[4] = d /\ Opening(r)[5] = e
    BY <1>1, <1>3, <1>4, FivePieces DEF Opening
  <1>6. \A k \in 1..5 : Len(Opening(r)[k]) = 1
    BY <1>2, <1>5
  <1> QED
    BY <1>5, <1>6 DEF b, d

LEMMA OpeningTells ==
  ASSUME NEW r \in MetaRequests, NEW q \in MetaRequests, Opening(r) = Opening(q)
  PROVE  r.expiry = q.expiry /\ r.action = q.action
  <1>1. <<Stamp(r.expiry)>> = <<Stamp(q.expiry)>> /\ <<Word(r.action)>> = <<Word(q.action)>>
    BY OpeningIs
  <1>2. Stamp(r.expiry) = Stamp(q.expiry) /\ Word(r.action) = Word(q.action)
    BY <1>1
  <1> QED
    BY <1>2 DEF Stamp, Word

\* The text of a message about a meta-intent, in the parts that are told apart.
LEMMA MetaTextIs ==
  ASSUME NEW r \in MetaRequests
  PROVE  MetaTexts[r] =
           Cat(FlattenSeq(Opening(r)), Cat(Cat(<<Word(Subject(r))>>, Details(r)), Ending(r)))
  <1> DEFINE h == PushHeader(r)
             c == Content(r)
             s == PushSuffix(r)
             f == FlattenSeq(Opening(r))
             d == Cat(<<Word(Subject(r))>>, Details(r))
             e == Ending(r)
  <1>1. h \in Seq(PieceOfText) /\ s \in Seq(PieceOfText)
    BY MetaIs, HeaderIs, SuffixIs
  <1>2. c \in Seq(PieceOfText)
    BY MetaIs, ContentIs
  <1>3. TextOf(c) = d
    BY DetailsAre
  <1>4. TextOf(s) = e
    BY EndingIs DEF TextOf
  <1>5. TextOf(h) = f
    BY DEF TextOf, Opening
  <1>6. MetaTexts[r] = TextOf(Pieces(r))
    BY Zenon DEF MetaTexts, TextOf, Tokens
  <1>7. Pieces(r) = (h \o c) \o s
    BY DEF Pieces
  <1> HIDE DEF h, c, s, f, d, e
  <1>8. h \o c \in Seq(PieceOfText) /\ TextOf(h \o c) = Cat(f, d)
        /\ f \in Seq(Token) /\ d \in Seq(Token)
    BY <1>1, <1>2, <1>3, <1>5, TextOfConcat
  <1>9. TextOf((h \o c) \o s) = Cat(Cat(f, d), e) /\ e \in Seq(Token)
    BY <1>1, <1>4, <1>8, TextOfConcat
  <1>10. Cat(Cat(f, d), e) = Cat(f, Cat(d, e))
    BY <1>8, <1>9, CatTwice
  <1> QED
    BY <1>6, <1>7, <1>9, <1>10 DEF f, d, e

LEMMA MetaTextTells ==
  ASSUME NEW r \in MetaRequests, NEW q \in MetaRequests, MetaTexts[r] = MetaTexts[q]
  PROVE  /\ r.expiry = q.expiry /\ r.action = q.action /\ Subject(r) = Subject(q)
         /\ Cat(Details(r), Ending(r)) = Cat(Details(q), Ending(q))
  <1> DEFINE s == Opening(r)
             t == Opening(q)
             x == Word(Subject(r))
             y == Word(Subject(q))
             a == <<x>>
             c == <<y>>
             b == Details(r)
             d == Details(q)
             e == Ending(r)
             f == Ending(q)
             g == Cat(Cat(a, b), e)
             h == Cat(Cat(c, d), f)
  <1>1. /\ s \in Seq(Seq(Token)) /\ t \in Seq(Seq(Token)) /\ SameSizes(s, t)
    BY OpeningIs DEF SameSizes
  <1>2. /\ b \in Seq(Token) /\ d \in Seq(Token) /\ e \in Seq(Token) /\ f \in Seq(Token)
        /\ x \in Token /\ y \in Token
    BY DetailsAre, EndingIs, SubjectIs
  <1>3. Cat(FlattenSeq(s), g) = Cat(FlattenSeq(t), h)
    BY MetaTextIs
  <1>4. Subject(r) = Subject(q) \/ x # y
    BY DEF Word
  <1> HIDE DEF s, t, x, y, b, d, e, f
  <1>5. a \in Seq(Token) /\ c \in Seq(Token) /\ Len(a) = Len(c)
    BY <1>2, OneToken
  <1>6. a = c => x = y
    OBVIOUS
  <1> HIDE DEF a, c
  <1>7. Cat(a, b) \in Seq(Token) /\ Cat(c, d) \in Seq(Token)
    BY <1>2, <1>5, CatIs
  <1>8. g \in Seq(Token) /\ h \in Seq(Token)
    BY <1>2, <1>7, CatIs
  <1>9. s = t /\ g = h
    <2> HIDE DEF g, h
    <2> QED
      BY <1>1, <1>3, <1>8, SameSizedParts
  <1>10. a = c /\ Cat(b, e) = Cat(d, f)
    BY <1>2, <1>5, <1>9, CatFrontOf
  <1>11. r.expiry = q.expiry /\ r.action = q.action
    BY <1>9, OpeningTells DEF s, t
  <1> QED
    BY <1>4, <1>6, <1>10, <1>11 DEF b, d, e, f

LEMMA SubjectTells ==
  ASSUME NEW r \in MetaRequests, NEW q \in MetaRequests, Subject(r) = Subject(q)
  PROVE  r.intent_type = q.intent_type
  BY MetaIs DEF Subject

LEMMA SameHexSizes ==
  ASSUME NEW c \in DOMAIN Sha256, NEW d \in DOMAIN Sha256
  PROVE  /\ HexTexts(Sha256[c]) \in Seq(Seq(Token)) /\ HexTexts(Sha256[d]) \in Seq(Seq(Token))
         /\ Sha256[c] \in Bytes /\ Sha256[d] \in Bytes
         /\ SameSizes(HexTexts(Sha256[c]), HexTexts(Sha256[d]))
  <1>1. Sha256[c] \in Bytes /\ Sha256[d] \in Bytes /\ Len(Sha256[c]) = Len(Sha256[d])
    BY SizeAssumption DEF Bytes
  <1> QED
    BY <1>1, HexTextsAre DEF SameSizes

\* Two hashes in hexadecimal digits, whatever comes behind.
LEMMA HashesTell ==
  ASSUME CollisionFree, NEW c \in DOMAIN Sha256, NEW d \in DOMAIN Sha256,
         NEW e \in Seq(Token), NEW f \in Seq(Token),
         Cat(FlattenSeq(HexTexts(Sha256[c])), e) = Cat(FlattenSeq(HexTexts(Sha256[d])), f)
  PROVE  c = d /\ e = f
  <1> DEFINE s == HexTexts(Sha256[c])
             t == HexTexts(Sha256[d])
  <1>1. /\ s \in Seq(Seq(Token)) /\ t \in Seq(Seq(Token)) /\ SameSizes(s, t)
        /\ Sha256[c] \in Bytes /\ Sha256[d] \in Bytes
    BY SameHexSizes
  <1>2. Cat(FlattenSeq(s), e) = Cat(FlattenSeq(t), f)
    OBVIOUS
  <1> HIDE DEF s, t
  <1>3. s = t /\ e = f
    BY <1>1, <1>2, SameSizedParts
  <1>4. Sha256[c] = Sha256[d]
    BY <1>1, <1>3, HexTextsTell DEF s, t
  <1> QED
    BY <1>3, <1>4 DEF CollisionFree

LEMMA AddedTells ==
  ASSUME CollisionFree, NEW r \in MetaRequests, NEW q \in MetaRequests,
         r.intent_type = "AddIntent", q.intent_type = "AddIntent",
         Cat(Details(r), Ending(r)) = Cat(Details(q), Ending(q))
  PROVE  r.params_data = q.params_data /\ Ending(r) = Ending(q)
  <1> DEFINE e == Ending(r)
             f == Ending(q)
             c == r.params_data
             d == q.params_data
  <1>1. e \in Seq(Token) /\ f \in Seq(Token)
    BY EndingIs
  <1>2. c \in DOMAIN Sha256 /\ d \in DOMAIN Sha256
    BY MetaIs
  <1>3. Details(r) = FlattenSeq(HexTexts(Sha256[c])) /\ Details(q) = FlattenSeq(HexTexts(Sha256[d]))
    BY DEF Details
  <1> HIDE DEF e, f, c, d
  <1>4. Cat(FlattenSeq(HexTexts(Sha256[c])), e) = Cat(FlattenSeq(HexTexts(Sha256[d])), f)
    BY <1>3 DEF e, f
  <1>5. c = d /\ e = f
    BY <1>1, <1>2, <1>4, HashesTell
  <1> QED
    BY <1>5 DEF c, d, e, f

\* Two numbers, where what follows starts with a word.
LEMMA NumbersTell ==
  ASSUME NEW m \in Printable, NEW n \in Printable, NEW e \in Seq(Token), NEW f \in Seq(Token),
         Len(e) # 0, Len(f) # 0, e[1][1] = "word", f[1][1] = "word",
         Cat(Digits(m), e) = Cat(Digits(n), f)
  PROVE  m = n /\ e = f
  <1> DEFINE a == Digits(m)
             c == Digits(n)
  <1>1. a \in Seq(Token) /\ c \in Seq(Token)
    BY DigitsAre
  <1>2. Lacks(a, f[1]) /\ Lacks(c, e[1])
    BY DigitsAre DEF Lacks
  <1> HIDE DEF a, c
  <1>3. Cat(a, e) = Cat(c, f)
    BY DEF a, c
  <1>4. a = c /\ e = f
    BY <1>1, <1>2, <1>3, CatRun
  <1> QED
    BY <1>4, DigitsTell DEF a, c

LEMMA RemovedTells ==
  ASSUME NEW r \in MetaRequests, NEW q \in MetaRequests,
         r.intent_type = "RemoveIntent", q.intent_type = "RemoveIntent",
         Cat(Details(r), Ending(r)) = Cat(Details(q), Ending(q))
  PROVE  r.params_data = q.params_data /\ Ending(r) = Ending(q)
  <1> DEFINE e == Ending(r)
             f == Ending(q)
             m == r.params_data[1]
             n == q.params_data[1]
  <1>1. /\ e \in Seq(Token) /\ f \in Seq(Token) /\ Len(e) # 0 /\ Len(f) # 0
        /\ e[1] = Word(" | wallet: ") /\ f[1] = Word(" | wallet: ")
    BY EndingIs
  <1>2. e[1][1] = "word" /\ f[1][1] = "word"
    <2>1. Word(" | wallet: ")[1] = "word"
      BY DEF Word
    <2> HIDE DEF e, f
    <2> QED
      BY <1>1, <2>1
  <1>3. /\ m \in Printable /\ n \in Printable
        /\ Len(r.params_data) = 1 /\ Len(q.params_data) = 1
    BY MetaIs
  <1>4. Cat(Digits(m), e) = Cat(Digits(n), f)
    BY DEF Details
  <1>5. m = n /\ e = f
    <2> HIDE DEF e, f, m, n
    <2>1. /\ m \in Printable /\ n \in Printable /\ e \in Seq(Token) /\ f \in Seq(Token)
          /\ Len(e) # 0 /\ Len(f) # 0
      BY <1>1, <1>3
    <2> QED
      BY <2>1, <1>2, <1>4, NumbersTell
  <1>6. r.params_data \in Bytes /\ q.params_data \in Bytes
    BY MetaIs, RequestIs
  <1>7. r.params_data = q.params_data
    BY <1>3, <1>5, <1>6, SeqEqual DEF Bytes
  <1> QED
    BY <1>5, <1>7

LEMMA UpdatedTells ==
  ASSUME CollisionFree, NEW r \in MetaRequests, NEW q \in MetaRequests,
         r.intent_type = "UpdateIntent", q.intent_type = "UpdateIntent",
         Cat(Details(r), Ending(r)) = Cat(Details(q), Ending(q))
  PROVE  r.params_data = q.params_data /\ Ending(r) = Ending(q)
  <1> DEFINE e == Ending(r)
             f == Ending(q)
             m == r.params_data[1]
             n == q.params_data[1]
             c == Tail(r.params_data)
             d == Tail(q.params_data)
             g == FlattenSeq(HashTexts(c))
             h == FlattenSeq(HashTexts(d))
             x == Word(" definition_hash: ")
             w == <<x>>
             s == FlattenSeq(HexTexts(Sha256[c]))
             t == FlattenSeq(HexTexts(Sha256[d]))
  <1>1. e \in Seq(Token) /\ f \in Seq(Token)
    BY EndingIs
  <1>2. /\ m \in Printable /\ n \in Printable /\ Digits(m) \in Seq(Token) /\ Digits(n) \in Seq(Token)
        /\ c \in DOMAIN Sha256 /\ d \in DOMAIN Sha256
        /\ Sha256[c] \in Bytes /\ Sha256[d] \in Bytes
    BY MetaIs
  <1>3. Details(r) = Cat(Digits(m), g) /\ Details(q) = Cat(Digits(n), h)
    BY DEF Details
  <1>4. Cat(Cat(Digits(m), g), e) = Cat(Cat(Digits(n), h), f)
    BY <1>3
  <1> HIDE DEF e, f, m, n, c, d
  <1>5. /\ g \in Seq(Token) /\ Len(g) # 0 /\ g[1] = x /\ g = Cat(w, s)
        /\ h \in Seq(Token) /\ Len(h) # 0 /\ h[1] = x /\ h = Cat(w, t)
    BY <1>2, HashTextsFlat
  <1>6. s \in Seq(Token) /\ t \in Seq(Token) /\ x \in Token
    BY <1>2, HexTextOf, HashTextsAre
  <1>7. x[1] = "word"
    BY DEF Word
  <1> HIDE DEF x, s, t
  <1>8. w \in Seq(Token)
    BY <1>6, OneToken
  <1> HIDE DEF w, g, h
  <1>9. /\ Cat(g, e) \in Seq(Token) /\ Len(Cat(g, e)) # 0 /\ Cat(g, e)[1] = x
        /\ Cat(h, f) \in Seq(Token) /\ Len(Cat(h, f)) # 0 /\ Cat(h, f)[1] = x
    BY <1>1, <1>5, CatFirst
  <1>10. /\ Cat(Cat(Digits(m), g), e) = Cat(Digits(m), Cat(g, e))
         /\ Cat(Cat(Digits(n), h), f) = Cat(Digits(n), Cat(h, f))
    BY <1>1, <1>2, <1>5, CatTwice
  <1>11. m = n /\ Cat(g, e) = Cat(h, f)
    <2>1. Cat(g, e)[1][1] = "word" /\ Cat(h, f)[1][1] = "word"
      BY <1>7, <1>9
    <2>2. Cat(Digits(m), Cat(g, e)) = Cat(Digits(n), Cat(h, f))
      BY <1>4, <1>10
    <2> QED
      BY <1>2, <1>9, <2>1, <2>2, NumbersTell
  <1>12. Cat(s, e) = Cat(t, f)
    <2>1. Cat(Cat(w, s), e) = Cat(Cat(w, t), f)
      BY <1>5, <1>11
    <2> QED
      BY <1>1, <1>6, <1>8, <2>1, CatFrontOf
  <1>13. c = d /\ e = f
    BY <1>1, <1>2, <1>12, HashesTell DEF s, t
  <1>14. r.params_data = <<m>> \o c /\ q.params_data = <<n>> \o d
    <2>1. /\ r.params_data \in Bytes /\ Len(r.params_data) # 0
          /\ q.params_data \in Bytes /\ Len(q.params_data) # 0
      BY MetaIs, RequestIs
    <2> QED
      BY <2>1, HeadAndTail DEF Bytes, m, n, c, d
  <1> QED
    BY <1>11, <1>13, <1>14 DEF e, f

LEMMA SameRequest ==
  ASSUME NEW r \in MetaRequests, NEW q \in MetaRequests,
         r.intent_type = q.intent_type, r.params_data = q.params_data,
         r.action = q.action, r.expiry = q.expiry,
         r.wallet_name = q.wallet_name, r.proposal_index = q.proposal_index
  PROVE  r = q
  <1>1. r \in Request /\ q \in Request /\ r.rendered = q.rendered
    BY MetaIs
  <1> QED
    BY <1>1, SMTT(40) DEF Request

\* No two requests about meta-intents have the same text.
LEMMA MetaTextsDiffer ==
  ASSUME CollisionFree, NEW r \in MetaRequests, NEW q \in MetaRequests, MetaTexts[r] = MetaTexts[q]
  PROVE  r = q
  <1>1. /\ r.expiry = q.expiry /\ r.action = q.action /\ Subject(r) = Subject(q)
        /\ Cat(Details(r), Ending(r)) = Cat(Details(q), Ending(q))
    BY MetaTextTells
  <1>2. r.intent_type = q.intent_type
    BY <1>1, SubjectTells
  <1>3. r.params_data = q.params_data /\ Ending(r) = Ending(q)
    <2>1. CASE r.intent_type = "AddIntent"
      BY <1>1, <1>2, <2>1, AddedTells
    <2>2. CASE r.intent_type = "RemoveIntent"
      BY <1>1, <1>2, <2>2, RemovedTells
    <2>3. CASE r.intent_type = "UpdateIntent"
      BY <1>1, <1>2, <2>3, UpdatedTells
    <2> QED
      BY <2>1, <2>2, <2>3, MetaIs
  <1>4. r.wallet_name = q.wallet_name /\ r.proposal_index = q.proposal_index
    BY <1>3, EndingTells
  <1> QED
    BY <1>1, <1>2, <1>3, <1>4, SameRequest

(***************************************************************************)
(* The theorems.                                                           *)
(***************************************************************************)

\* What holds of the buffer and of the address in the encoder in every state.
THEOREM MessageInvariant == MessageSpec => []MessageInv
  <1>1. New => MessageInv
    BY NewInv
  <1>2. MessageInv /\ [MessageNext]_mvars => MessageInv'
    BY MessageStep
  <1> QED
    BY <1>1, <1>2, PTL DEF MessageSpec

\* Whatever is built, its text stays in the buffer and the length in its header
\* is the text's: finalize, after any pushes.
THEOREM HeadersTellLength == MessageSpec => []HeaderTellsLength
  <1>1. MessageInv => HeaderTellsLength
    <2> SUFFICES ASSUME MessageInv
                 PROVE  HeaderTellsLength
      OBVIOUS
    <2>1. buf \in Seq(Token) /\ len = 20 + SizeOf(buf) /\ len <= MSG_BUF_SIZE
      BY DEF MessageInv, Building, OFFCHAIN_HEADER_LEN
    <2>2. SizeOf(buf) \in Nat
      BY <2>1, SizeOfNat
    <2>3. len - 20 = SizeOf(buf)
      BY <2>1, <2>2
    <2> QED
      BY <2>1, <2>3 DEF MessageInv, HeaderTellsLength, OFFCHAIN_HEADER_LEN
  <1> QED
    BY <1>1, MessageInvariant, PTL

\* No request of any kind is turned down whose pieces the buffer has room for.
THEOREM OnlyTooLongTurnedDown == MessageSpec => []TurnedDownOnlyIfTooLong
  <1>1. MessageInv => TurnedDownOnlyIfTooLong
    BY DEF MessageInv
  <1> QED
    BY <1>1, MessageInvariant, PTL

\* Of an address of up to 32 bytes, whatever they are, encode_base58 never runs
\* over its array of digits, and the caller's 44 characters always suffice.
THEOREM AllAddressesFit == MessageSpec => []AddressesFit
  <1>1. MessageInv => AddressesFit
    <2> SUFFICES ASSUME MessageInv
                 PROVE  AddressesFit
      OBVIOUS
    <2>1. Encodes(input, consumed, digits)
      BY DEF MessageInv
    <2>2. LeadingZeros(input) + Len(digits) <= 44
      BY <2>1, DigitsFit
    <2>3. Len(digits) \in Nat /\ LeadingZeros(input) \in Nat
      <3>1. digits \in Seq(0..57) /\ input \in Bytes
        BY <2>1 DEF Encodes, AddressBytes
      <3>2. input \in Seq(Nat) /\ Len(input) \in Nat
        BY <3>1, BytesAt
      <3>3. LeadingZeros(input) \in 0..Len(input)
        BY <3>2, LeadingZerosAre
      <3> QED
        BY <3>1, <3>2, <3>3, SeqAt
    <2>4. Len(digits) <= 64 /\ LeadingZeros(input) + Len(digits) <= BUF_LEN
      BY <2>2, <2>3, BufferAssumption, SizeAssumption
    <2> QED
      BY <2>4 DEF AddressesFit, Fits
  <1> QED
    BY <1>1, MessageInvariant, PTL

\* The text of every address spells its bytes: not only of the short ones whose
\* numbers TLC can hold.
THEOREM AddressesReversible == MessageSpec => [](Reversible /\ EncodingReversible)
  <1>1. MessageInv => Reversible /\ EncodingReversible
    <2> SUFFICES ASSUME MessageInv
                 PROVE  Reversible /\ EncodingReversible
      OBVIOUS
    <2>1. Done => Encodes(input, Len(input), digits)
      BY DEF MessageInv, Done
    <2>2. Reversible
      BY <2>1, EncodedSpells DEF Reversible
    <2> QED
      BY <2>2 DEF EncodingReversible
  <1> QED
    BY <1>1, MessageInvariant, PTL

\* If no two definitions share a hash, a message about a meta-intent is about one
\* request only: build_message_for_intent, for any names, numbers and definitions.
THEOREM TextsDetermineRequests ==
  ASSUME CollisionFree
  PROVE  MessageSpec => []TextDeterminesRequest
  <1>1. MessageInv => TextDeterminesRequest
    <2> SUFFICES ASSUME MessageInv, status = "built", request \in MetaRequests,
                        NEW r \in MetaRequests, MetaTexts[r] = buf
                 PROVE  r = request
      BY DEF TextDeterminesRequest
    <2>1. /\ pushed = Len(Pieces(request))
          /\ buf = FlattenSeq(SubSeq(Texts(request), 1, pushed))
      BY DEF MessageInv, Building
    <2>2. /\ Texts(request) \in Seq(Seq(Token)) /\ Len(Texts(request)) = Len(Pieces(request))
          /\ MetaTexts[request] = FlattenSeq(Texts(request))
      BY TextsAre
    <2>3. SubSeq(Texts(request), 1, Len(Texts(request))) = Texts(request)
      <3> DEFINE T == Seq(Token)
                 s == Texts(request)
      <3>1. s \in Seq(T)
        BY <2>2
      <3> HIDE DEF T, s
      <3>2. SubSeq(s, 1, Len(s)) = s
        BY <3>1, FrontParts
      <3> QED
        BY <3>2 DEF s
    <2>4. MetaTexts[r] = MetaTexts[request]
      BY <2>1, <2>2, <2>3
    <2> QED
      BY <2>4, MetaTextsDiffer
  <1> QED
    BY <1>1, MessageInvariant, PTL

=============================================================================
