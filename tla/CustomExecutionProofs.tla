----------------------- MODULE CustomExecutionProofs -----------------------
(***************************************************************************)
(* The parameters and the calls of custom intents, for every definition    *)
(* and all data.                                                           *)
(***************************************************************************)
EXTENDS CustomExecution, RecursionLemmas, SequenceTheorems, FiniteSetTheorems

Bytes == Seq(0..255)

(***************************************************************************)
(* Numbers and the byte pool.                                              *)
(***************************************************************************)

LEMMA SubSeqOf ==
  ASSUME NEW S, NEW s \in Seq(S), NEW a \in Nat, NEW n \in Nat, a + n <= Len(s)
  PROVE  /\ SubSeq(s, a + 1, a + n) \in Seq(S)
         /\ Len(SubSeq(s, a + 1, a + n)) = n
         /\ \A k \in 1..n : SubSeq(s, a + 1, a + n)[k] = s[a + k]
  <1>1. \A k \in (a + 1)..(a + n) : s[k] \in S
    BY LenProperties
  <1>2. /\ SubSeq(s, a + 1, a + n) \in Seq(S)
        /\ Len(SubSeq(s, a + 1, a + n)) =
             IF a + 1 <= a + n THEN (a + n) - (a + 1) + 1 ELSE 0
        /\ \A k \in 1..((a + n) - (a + 1) + 1) :
             SubSeq(s, a + 1, a + n)[k] = s[(a + 1) + k - 1]
    BY <1>1, SubSeqProperties
  <1> QED
    BY <1>2

LEMMA BytesSubSeq ==
  \A bytes \in Bytes : \A a, n \in Nat : a + n <= Len(bytes) =>
    /\ SubSeq(bytes, a + 1, a + n) \in Bytes
    /\ Len(SubSeq(bytes, a + 1, a + n)) = n
  <1> SUFFICES ASSUME NEW bytes \in Seq(0..255), NEW a \in Nat, NEW n \in Nat,
                      a + n <= Len(bytes)
               PROVE  /\ SubSeq(bytes, a + 1, a + n) \in Seq(0..255)
                      /\ Len(SubSeq(bytes, a + 1, a + n)) = n
    BY DEF Bytes
  <1> DEFINE S == 0..255
  <1>1. bytes \in Seq(S)
    OBVIOUS
  <1> HIDE DEF S
  <1>2. SubSeq(bytes, a + 1, a + n) \in Seq(S)
    BY <1>1, SubSeqOf
  <1>3. Len(SubSeq(bytes, a + 1, a + n)) = n
    BY <1>1, SubSeqOf
  <1> QED
    BY <1>2, <1>3 DEF S

LEMMA ByteIsNat == \A x \in 0..255 : x \in Nat
  OBVIOUS

LEMMA BytesAt ==
  ASSUME NEW bytes \in Bytes
  PROVE  /\ Len(bytes) \in Nat /\ DOMAIN bytes = 1..Len(bytes)
         /\ \A n \in 1..Len(bytes) : bytes[n] \in 0..255
  BY LenProperties, ZenonT(60) DEF Bytes

\* The numbers that the last n bytes spell, from the last byte on.
Spelled(bytes, g) ==
  /\ g \in [0..Len(bytes) -> Nat] /\ g[0] = 0
  /\ \A n \in 1..Len(bytes) : g[n] = 256 * g[n - 1] + bytes[Len(bytes) - n + 1]

LEMMA LittleEndianIs ==
  ASSUME NEW bytes \in Bytes
  PROVE  \E g : Spelled(bytes, g) /\ LittleEndian(bytes) = g[Len(bytes)]
  <1> DEFINE len == Len(bytes)
             D == [x \in Nat \X (1..len) |-> 256 * x[1] + bytes[len - x[2] + 1]]
             value[n \in 0..len] ==
               IF n = 0 THEN 0 ELSE 256 * value[n - 1] + bytes[len - n + 1]
  <1>1. len \in Nat
    BY BytesAt
  <1>2. ASSUME NEW n \in 1..len
        PROVE  bytes[len - n + 1] \in Nat /\ n - 1 \in 0..len /\ n # 0
    <2>1. len - n + 1 \in 1..len
      BY <1>1
    <2>2. bytes[len - n + 1] \in 0..255
      BY <2>1, BytesAt
    <2>3. bytes[len - n + 1] \in Nat
      BY <2>2, ByteIsNat, Zenon
    <2>4. n - 1 \in 0..len /\ n # 0
      BY <1>1
    <2> QED
      BY <2>3, <2>4
  <1>3. D \in [Nat \X ((0 + 1)..len) -> Nat]
    BY <1>2
  <1>4. PICK g \in [0..len -> Nat] : Iterates(g, 0, len, 0, D)
    <2> HIDE DEF D
    <2>1. 0 \in Nat /\ 0 <= len
      BY <1>1
    <2> QED
      BY <1>1, <1>3, <2>1, Iteration
  <1>5. ASSUME NEW n \in 0..len
        PROVE  g[n] = IF n = 0 THEN 0 ELSE 256 * g[n - 1] + bytes[len - n + 1]
    <2>1. CASE n = 0
      BY <1>4, <2>1 DEF Iterates
    <2>2. CASE n # 0
      <3>1. n \in 1..len /\ n \in (0 + 1)..len
        BY <1>1, <2>2
      <3>2. g[n - 1] \in Nat
        BY <1>2, <3>1
      <3>3. g[n] = D[<<g[n - 1], n>>]
        BY <1>4, <3>1 DEF Iterates
      <3>4. D[<<g[n - 1], n>>] = 256 * g[n - 1] + bytes[len - n + 1]
        BY <3>1, <3>2
      <3> QED
        BY <2>2, <3>3, <3>4
    <2> QED
      BY <2>1, <2>2
  <1>6. g = [n \in 0..len |-> IF n = 0 THEN 0 ELSE 256 * g[n - 1] + bytes[len - n + 1]]
    BY <1>5
  <1>7. value = [n \in 0..len |->
                   IF n = 0 THEN 0 ELSE 256 * value[n - 1] + bytes[len - n + 1]]
    BY <1>6, Zenon
  <1> HIDE DEF value
  <1>8. Spelled(bytes, value)
    <2> DEFINE P == {n \in 0..len : value[n] \in Nat}
    <2>1. 0 \in P
      BY <1>1, <1>7
    <2>2. ASSUME NEW m \in 0..len, m \in P, m < len
          PROVE  m + 1 \in P
      <3>1. m + 1 \in 1..len /\ m + 1 \in 0..len /\ (m + 1) - 1 = m
        BY <1>1, <2>2
      <3>2. value[m + 1] = 256 * value[m] + bytes[len - (m + 1) + 1]
        BY <1>7, <3>1
      <3>3. bytes[len - (m + 1) + 1] \in Nat /\ value[m] \in Nat
        BY <1>2, <2>2, <3>1
      <3> QED
        BY <3>1, <3>2, <3>3
    <2> HIDE DEF P
    <2>3. \A m \in 0..len : m \in P
      BY <1>1, <2>1, <2>2, IntervalInduction
    <2>4. value \in [0..len -> Nat]
      BY <1>7, <2>3 DEF P
    <2>5. value[0] = 0 /\ \A n \in 1..len : value[n] = 256 * value[n - 1] + bytes[len - n + 1]
      BY <1>1, <1>7
    <2> QED
      BY <2>4, <2>5 DEF Spelled
  <1>9. LittleEndian(bytes) = value[len]
    BY Zenon DEF LittleEndian, value
  <1> QED
    BY <1>8, <1>9

\* What bytes spell is a number.
LEMMA LittleEndianNat ==
  ASSUME NEW bytes \in Bytes
  PROVE  LittleEndian(bytes) \in Nat
  <1>1. PICK g : Spelled(bytes, g) /\ LittleEndian(bytes) = g[Len(bytes)]
    BY LittleEndianIs
  <1>2. Len(bytes) \in 0..Len(bytes)
    BY BytesAt
  <1> QED
    BY <1>1, <1>2 DEF Spelled

\* The bytes of an entry that is in the pool.
LEMMA PoolDataFacts ==
  ASSUME NEW d \in Definition, NEW entry, NEW least \in Nat,
         entry.pool_offset \in Nat, entry.pool_len \in Nat,
         EntryInPool(d, entry, least)
  PROVE  /\ PoolData(d, entry) \in Bytes
         /\ Len(PoolData(d, entry)) = entry.pool_len /\ least <= entry.pool_len
         /\ least >= 1 => PoolIndex(d, entry) \in 0..255
  <1>1. d.byte_pool \in Bytes
    BY DEF Definition, Bytes
  <1>2. /\ entry.pool_offset + entry.pool_len <= Len(d.byte_pool)
        /\ entry.pool_len >= least
    BY DEF EntryInPool, InPool
  <1>3. /\ PoolData(d, entry) \in Bytes
        /\ Len(PoolData(d, entry)) = entry.pool_len
    <2>1. \A a, n \in Nat : a + n <= Len(d.byte_pool) =>
            Slice(d, a, n) \in Bytes /\ Len(Slice(d, a, n)) = n
      BY <1>1, BytesSubSeq, Zenon DEF Slice
    <2> QED
      BY <1>2, <2>1, Zenon DEF PoolData
  <1>4. ASSUME least >= 1
        PROVE  PoolIndex(d, entry) \in 0..255
    <2>1. 1 \in 1..Len(PoolData(d, entry))
      BY <1>2, <1>3, <1>4
    <2> QED
      BY <1>3, <2>1, BytesAt DEF PoolIndex
  <1> QED
    BY <1>2, <1>3, <1>4

LEMMA PoolIndexNat ==
  ASSUME NEW d \in Definition, NEW entry, NEW least \in Nat, least >= 1,
         entry.pool_offset \in Nat, entry.pool_len \in Nat,
         EntryInPool(d, entry, least)
  PROVE  PoolIndex(d, entry) \in Nat
  BY PoolDataFacts, ByteIsNat, Zenon

LEMMA U16AtNat ==
  ASSUME NEW bytes \in Bytes, NEW offset \in Nat, offset + 2 <= Len(bytes)
  PROVE  U16At(bytes, offset) \in Nat
  <1>1. SubSeq(bytes, offset + 1, offset + 2) \in Bytes
    BY SubSeqOf DEF Bytes
  <1> QED
    BY <1>1, LittleEndianNat DEF U16At

(***************************************************************************)
(* The accounts of an execution.                                           *)
(***************************************************************************)

\* The account that entry k names, given the accounts of the other entries.
MeantView(d, memory, data, views, k) ==
  LET entry == d.accounts[k]
  IN  CASE entry.source_type = "Static" -> Address(PoolData(d, entry))
        [] entry.source_type = "Vault"  -> Vault
        [] entry.source_type = "Param"  ->
             Address(ReadParamBytes(d.params, data, PoolIndex(d, entry)))
        [] entry.source_type = "HasOne" ->
             HeldAddress(d, entry, memory[views[PoolIndex(d, entry) + 1]])
        [] OTHER -> Pda(views[PoolIndex(d, entry) + 1], Seeds(d, entry, views, data))

\* Every entry is the account it names.
AreMeant(d, memory, data, views) ==
  views = [k \in DOMAIN d.accounts |-> MeantView(d, memory, data, views, k)]

\* The indexes that entries refer to one another by are there.
RefersTo(d) ==
  \A k \in DOMAIN d.accounts :
    LET entry == d.accounts[k]
    IN  /\ entry.source_type \in {"HasOne", "PdaDerived"} => PoolIndex(d, entry) \in Nat
        /\ entry.source_type = "PdaDerived" =>
             \A n \in DOMAIN SeedsOf(d, entry) :
               /\ SeedsOf(d, entry)[n].seed_type \in SeedTypes
               /\ SeedsOf(d, entry)[n].seed_type = "AccountRef" =>
                    PoolIndex(d, SeedsOf(d, entry)[n]) \in Nat

LEMMA MeantViewCases ==
  ASSUME NEW d, NEW memory, NEW data, NEW views, NEW k
  PROVE  /\ d.accounts[k].source_type = "Static" =>
              MeantView(d, memory, data, views, k) = Address(PoolData(d, d.accounts[k]))
         /\ d.accounts[k].source_type = "Vault" =>
              MeantView(d, memory, data, views, k) = Vault
         /\ d.accounts[k].source_type = "Param" =>
              MeantView(d, memory, data, views, k) =
                Address(ReadParamBytes(d.params, data, PoolIndex(d, d.accounts[k])))
         /\ d.accounts[k].source_type = "HasOne" =>
              MeantView(d, memory, data, views, k) =
                HeldAddress(d, d.accounts[k],
                            memory[views[PoolIndex(d, d.accounts[k]) + 1]])
         /\ d.accounts[k].source_type = "PdaDerived" =>
              MeantView(d, memory, data, views, k) =
                Pda(views[PoolIndex(d, d.accounts[k]) + 1],
                    Seeds(d, d.accounts[k], views, data))
  <1>1. CASE d.accounts[k].source_type = "Static"
    BY <1>1, Zenon DEF MeantView
  <1>2. CASE d.accounts[k].source_type = "Vault"
    BY <1>2, Zenon DEF MeantView
  <1>3. CASE d.accounts[k].source_type = "Param"
    BY <1>3, Zenon DEF MeantView
  <1>4. CASE d.accounts[k].source_type = "HasOne"
    BY <1>4, Zenon DEF MeantView
  <1>5. CASE d.accounts[k].source_type = "PdaDerived"
    BY <1>5, Zenon DEF MeantView
  <1> QED
    BY <1>1, <1>2, <1>3, <1>4, <1>5

\* Seeds are the same where the accounts that they refer to are.
LEMMA SameSeeds ==
  ASSUME NEW d, NEW entry, NEW data, NEW g, NEW h,
         \A n \in DOMAIN SeedsOf(d, entry) :
           /\ SeedsOf(d, entry)[n].seed_type \in SeedTypes
           /\ SeedsOf(d, entry)[n].seed_type = "AccountRef" =>
                g[PoolIndex(d, SeedsOf(d, entry)[n]) + 1]
                  = h[PoolIndex(d, SeedsOf(d, entry)[n]) + 1]
  PROVE  Seeds(d, entry, g, data) = Seeds(d, entry, h, data)
  <1>1. ASSUME NEW n \in DOMAIN SeedsOf(d, entry)
        PROVE  SeedBytes(d, SeedsOf(d, entry)[n], g, data)
                 = SeedBytes(d, SeedsOf(d, entry)[n], h, data)
    <2> DEFINE seed == SeedsOf(d, entry)[n]
    <2>1. CASE seed.seed_type = "Literal"
      BY <2>1, Zenon DEF SeedBytes
    <2>2. CASE seed.seed_type = "ParamRef"
      BY <2>2, Zenon DEF SeedBytes
    <2>3. CASE seed.seed_type = "AccountRef"
      <3>1. \A views : SeedBytes(d, seed, views, data) = views[PoolIndex(d, seed) + 1]
        BY <2>3, Zenon DEF SeedBytes
      <3> QED
        BY <2>3, <3>1
    <2> QED
      BY <2>1, <2>2, <2>3 DEF SeedTypes
  <1> QED
    BY <1>1, Zenon DEF Seeds

\* Where entries refer to earlier ones only, nobody has a choice.
LEMMA MeantUnique ==
  ASSUME NEW d \in Definition, NEW memory, NEW data, NEW g, NEW h,
         Backward(d), RefersTo(d),
         AreMeant(d, memory, data, g), AreMeant(d, memory, data, h)
  PROVE  g = h
  <1> DEFINE len == Len(d.accounts)
             P == {k \in 1..len : g[k] = h[k]}
  <1>1. len \in Nat /\ DOMAIN d.accounts = 1..len
    BY LenProperties DEF Definition
  <1>2. ASSUME NEW k \in 1..len, \A j \in 1..(k - 1) : j \in P
        PROVE  k \in P
    <2> DEFINE entry == d.accounts[k]
    <2>1. /\ g[k] = MeantView(d, memory, data, g, k)
          /\ h[k] = MeantView(d, memory, data, h, k)
      BY <1>1, Zenon DEF AreMeant
    <2>2. \A j \in Nat : j + 1 < k => g[j + 1] = h[j + 1]
      BY <1>1, <1>2
    <2>3. entry.source_type \in SourceTypes
      <3>1. entry \in AccountEntry
        BY <1>1, ElementOfSeq DEF Definition
      <3> QED
        BY <3>1 DEF AccountEntry
    <2>4. CASE entry.source_type \in {"Static", "Vault", "Param"}
      BY <2>1, <2>4, MeantViewCases
    <2>5. CASE entry.source_type = "HasOne"
      <3>1. PoolIndex(d, entry) \in Nat /\ PoolIndex(d, entry) + 1 < k
        BY <1>1, <2>5 DEF RefersTo, Backward
      <3> QED
        BY <2>1, <2>2, <2>5, <3>1, MeantViewCases
    <2>6. CASE entry.source_type = "PdaDerived"
      <3>1. PoolIndex(d, entry) \in Nat /\ PoolIndex(d, entry) + 1 < k
        BY <1>1, <2>6 DEF RefersTo, Backward
      <3>2. \A n \in DOMAIN SeedsOf(d, entry) :
              /\ SeedsOf(d, entry)[n].seed_type \in SeedTypes
              /\ SeedsOf(d, entry)[n].seed_type = "AccountRef" =>
                   /\ PoolIndex(d, SeedsOf(d, entry)[n]) \in Nat
                   /\ PoolIndex(d, SeedsOf(d, entry)[n]) + 1 < k
        BY <1>1, <2>6, Zenon DEF RefersTo, Backward
      <3>3. Seeds(d, entry, g, data) = Seeds(d, entry, h, data)
        BY <2>2, <3>2, SameSeeds, Zenon
      <3>4. g[PoolIndex(d, entry) + 1] = h[PoolIndex(d, entry) + 1]
        BY <2>2, <3>1
      <3> QED
        BY <2>1, <2>6, <3>3, <3>4, MeantViewCases
    <2> QED
      BY <2>3, <2>4, <2>5, <2>6 DEF SourceTypes
  <1>3. \A k \in 1..len : g[k] = h[k]
    <2> HIDE DEF P
    <2>1. \A k \in 1..len : k \in P
      BY <1>1, <1>2, StrongInduction
    <2> QED
      BY <2>1 DEF P
  <1>4. /\ g = [k \in 1..len |-> g[k]]
        /\ h = [k \in 1..len |-> h[k]]
    BY <1>1, Zenon DEF AreMeant
  <1> QED
    BY <1>3, <1>4

LEMMA MeantViewsAreMeant ==
  ASSUME NEW d, NEW memory, NEW data, NEW views, AreMeant(d, memory, data, views)
  PROVE  AreMeant(d, memory, data, MeantViews(d, memory, data))
  BY Zenon DEF AreMeant, MeantViews, MeantView

\* What execute accepts of the accounts it is given.
Accepts(d, views, data) ==
  \A k \in DOMAIN d.accounts : Matches(d, d.accounts[k], views[k], views, data)

LEMMA EntryTyped ==
  ASSUME NEW d \in Definition, NEW k \in DOMAIN d.accounts
  PROVE  /\ d.accounts[k].source_type \in SourceTypes
         /\ d.accounts[k].pool_offset \in Nat /\ d.accounts[k].pool_len \in Nat
  <1>1. k \in 1..Len(d.accounts) /\ d.accounts \in Seq(AccountEntry)
    BY LenProperties DEF Definition
  <1>2. d.accounts[k] \in AccountEntry
    BY <1>1, ElementOfSeq
  <1>3. PodU16 \subseteq Nat
    BY DEF PodU16
  <1> QED
    BY <1>2, <1>3 DEF AccountEntry

LEMMA MatchesCases ==
  ASSUME NEW d, NEW entry, NEW address, NEW views, NEW data,
         Matches(d, entry, address, views, data)
  PROVE  /\ entry.source_type = "Static" => IsStatic(d, entry, address)
         /\ entry.source_type = "Param" => IsParam(d, entry, address, data)
         /\ entry.source_type = "PdaDerived" => IsPda(d, entry, address, views, data)
         /\ entry.source_type = "HasOne" => IsHeld(d, entry, address, views)
         /\ entry.source_type = "Vault" => address = Vault
  <1>1. CASE entry.source_type = "Static"
    BY <1>1, Zenon DEF Matches
  <1>2. CASE entry.source_type = "Param"
    BY <1>2, Zenon DEF Matches
  <1>3. CASE entry.source_type = "PdaDerived"
    BY <1>3, Zenon DEF Matches
  <1>4. CASE entry.source_type = "HasOne"
    BY <1>4, Zenon DEF Matches
  <1>5. CASE entry.source_type = "Vault"
    BY <1>5, Zenon DEF Matches
  <1> QED
    BY <1>1, <1>2, <1>3, <1>4, <1>5

LEMMA AcceptedAreMeant ==
  ASSUME NEW d \in Definition, NEW views, NEW data,
         views = [k \in DOMAIN d.accounts |-> views[k]], Accepts(d, views, data)
  PROVE  AreMeant(d, held, data, views)
  <1>1. ASSUME NEW k \in DOMAIN d.accounts
        PROVE  views[k] = MeantView(d, held, data, views, k)
    <2>1. d.accounts[k].source_type \in SourceTypes
      BY EntryTyped
    <2>2. Matches(d, d.accounts[k], views[k], views, data)
      BY DEF Accepts
    <2>3. CASE d.accounts[k].source_type = "Static"
      BY <2>2, <2>3, MatchesCases, MeantViewCases DEF IsStatic
    <2>4. CASE d.accounts[k].source_type = "Vault"
      BY <2>2, <2>4, MatchesCases, MeantViewCases
    <2>5. CASE d.accounts[k].source_type = "Param"
      BY <2>2, <2>5, MatchesCases, MeantViewCases DEF IsParam
    <2>6. CASE d.accounts[k].source_type = "HasOne"
      BY <2>2, <2>6, MatchesCases, MeantViewCases DEF IsHeld
    <2>7. CASE d.accounts[k].source_type = "PdaDerived"
      BY <2>2, <2>7, MatchesCases, MeantViewCases DEF IsPda
    <2> QED
      BY <2>1, <2>3, <2>4, <2>5, <2>6, <2>7 DEF SourceTypes
  <1> QED
    BY <1>1, Zenon DEF AreMeant

\* The seeds that a derived account names are seeds of the definition.
LEMMA SeedsTyped ==
  ASSUME NEW d \in Definition, NEW entry,
         entry.pool_offset \in Nat, entry.pool_len \in Nat,
         EntryInPool(d, entry, 5),
         SeedsCount(d, entry) > 0 => SeedsStart(d, entry) + SeedsCount(d, entry) <= Len(d.seeds)
  PROVE  SeedsOf(d, entry) \in Seq(SeedEntry)
  <1>1. PoolData(d, entry) \in Bytes /\ 5 <= Len(PoolData(d, entry))
    BY PoolDataFacts
  <1>2. SeedsStart(d, entry) \in Nat /\ SeedsCount(d, entry) \in Nat
    <2>1. Len(PoolData(d, entry)) \in Nat
      BY <1>1, BytesAt
    <2> QED
      BY <1>1, <2>1, U16AtNat DEF SeedsStart, SeedsCount
  <1>3. d.seeds \in Seq(SeedEntry)
    BY DEF Definition
  <1> DEFINE a == SeedsStart(d, entry)
             n == SeedsCount(d, entry)
  <1>4. SeedsOf(d, entry) = SubSeq(d.seeds, a + 1, a + n)
    BY DEF SeedsOf
  <1> HIDE DEF a, n
  <1>5. CASE n = 0
    <2>1. SeedsOf(d, entry) = << >>
      BY <1>2, <1>4, <1>5, SubSeqEmpty DEF a, n
    <2> QED
      BY <2>1, EmptySeq
  <1>6. CASE n > 0
    <2>1. a \in Nat /\ n \in Nat /\ a + n <= Len(d.seeds)
      BY <1>2, <1>6 DEF a, n
    <2> QED
      BY <1>3, <1>4, <2>1, SubSeqOf
  <1> QED
    BY <1>2, <1>5, <1>6 DEF n

LEMMA SeedTyped ==
  ASSUME NEW seed \in SeedEntry
  PROVE  seed.seed_type \in SeedTypes /\ seed.pool_offset \in Nat /\ seed.pool_len \in Nat
  <1>1. PodU16 \subseteq Nat
    BY DEF PodU16
  <1> QED
    BY <1>1 DEF SeedEntry

LEMMA AcceptedRefersTo ==
  ASSUME NEW d \in Definition, NEW views, NEW data, Accepts(d, views, data)
  PROVE  RefersTo(d)
  <1> SUFFICES ASSUME NEW k \in DOMAIN d.accounts
               PROVE  LET entry == d.accounts[k]
                      IN  /\ entry.source_type \in {"HasOne", "PdaDerived"} =>
                               PoolIndex(d, entry) \in Nat
                          /\ entry.source_type = "PdaDerived" =>
                               \A n \in DOMAIN SeedsOf(d, entry) :
                                 /\ SeedsOf(d, entry)[n].seed_type \in SeedTypes
                                 /\ SeedsOf(d, entry)[n].seed_type = "AccountRef" =>
                                      PoolIndex(d, SeedsOf(d, entry)[n]) \in Nat
    BY DEF RefersTo
  <1> DEFINE entry == d.accounts[k]
  <1>1. entry.pool_offset \in Nat /\ entry.pool_len \in Nat
    BY EntryTyped
  <1>2. Matches(d, entry, views[k], views, data)
    BY DEF Accepts
  <1>3. ASSUME entry.source_type = "HasOne"
        PROVE  PoolIndex(d, entry) \in Nat
    <2>1. EntryInPool(d, entry, 3)
      BY <1>2, <1>3, MatchesCases DEF IsHeld
    <2> QED
      BY <1>1, <2>1, PoolIndexNat
  <1>4. ASSUME entry.source_type = "PdaDerived"
        PROVE  IsPda(d, entry, views[k], views, data) /\ PoolIndex(d, entry) \in Nat
    <2>1. IsPda(d, entry, views[k], views, data)
      BY <1>2, <1>4, MatchesCases
    <2>2. EntryInPool(d, entry, 5)
      BY <2>1 DEF IsPda
    <2> QED
      BY <1>1, <2>1, <2>2, PoolIndexNat
  <1>5. ASSUME entry.source_type = "PdaDerived", NEW n \in DOMAIN SeedsOf(d, entry)
        PROVE  /\ SeedsOf(d, entry)[n].seed_type \in SeedTypes
               /\ SeedsOf(d, entry)[n].seed_type = "AccountRef" =>
                    PoolIndex(d, SeedsOf(d, entry)[n]) \in Nat
    <2> DEFINE seeds == SeedsOf(d, entry)
    <2>1. seeds \in Seq(SeedEntry)
      BY <1>1, <1>4, <1>5, SeedsTyped DEF IsPda
    <2>2. SeedUsable(d, seeds[n], views, data)
      BY <1>4, <1>5 DEF IsPda
    <2> HIDE DEF seeds
    <2>3. n \in DOMAIN seeds
      BY DEF seeds
    <2>4. seeds[n] \in SeedEntry
      BY <2>1, <2>3, LenProperties
    <2>5. ASSUME seeds[n].seed_type = "AccountRef"
          PROVE  PoolIndex(d, seeds[n]) \in Nat
      <3>1. EntryInPool(d, seeds[n], 1)
        BY <2>2, <2>5 DEF SeedUsable
      <3>2. PICK seed : seed = seeds[n]
        OBVIOUS
      <3>3. seed.pool_offset \in Nat /\ seed.pool_len \in Nat
        BY <2>4, <3>2, SeedTyped
      <3> QED
        BY <3>1, <3>2, <3>3, PoolIndexNat
    <2> QED
      BY <2>4, <2>5, SeedTyped DEF seeds
  <1> QED
    BY <1>3, <1>4, <1>5
(***************************************************************************)
(* The calls of an execution.                                              *)
(***************************************************************************)

CallsOf(d, views, data) ==
  {Call(d, d.instructions[n], views, data) : n \in DOMAIN d.instructions}

\* What an execution that runs has made sure of, and has done.
Underway(d, run, data, made) ==
  /\ AreMeant(d, run.before, data, run.views)
  /\ RefersTo(d)
  /\ made \in Seq(CallsOf(d, run.views, data))
  /\ Len(made) <= Len(d.instructions)
  /\ \A n \in 1..Len(made) : /\ Callable(d, d.instructions[n], run.views, data)
                             /\ made[n] = Call(d, d.instructions[n], run.views, data)

\* Parameters are fixed once proposed, calls are made by an execution of what
\* was approved, and none are left of one that failed.
Running ==
  /\ intent \in Definition
  /\ proposal # NoProposal => proposal \in Proposal
  /\ proposal = NoProposal => execution = NoExecution /\ calls = << >>
  /\ execution = NoExecution /\ calls # << >> => proposal.status = "Executed"
  /\ execution # NoExecution =>
       /\ proposal.status = "Approved"
       /\ Underway(intent, execution, proposal.params_data, calls)

LEMMA UnderwayBegins ==
  ASSUME NEW d \in Definition, NEW data, NEW remaining, NEW run,
         run.views = AccountViews(d, remaining), run.before = held,
         \A k \in DOMAIN run.views : Matches(d, d.accounts[k], run.views[k], run.views, data)
  PROVE  Underway(d, run, data, << >>)
  <1>1. PICK views : views = run.views
    OBVIOUS
  <1>2. DOMAIN views = DOMAIN d.accounts /\ views = [k \in DOMAIN d.accounts |-> views[k]]
    BY <1>1 DEF AccountViews
  <1>3. Accepts(d, views, data)
    BY <1>1, <1>2 DEF Accepts
  <1>4. AreMeant(d, held, data, views) /\ RefersTo(d)
    BY <1>2, <1>3, AcceptedAreMeant, AcceptedRefersTo
  <1>5. << >> \in Seq(CallsOf(d, views, data)) /\ Len(<< >>) = 0
    BY EmptySeq
  <1>6. Len(d.instructions) \in Nat
    BY LenProperties DEF Definition
  <1> QED
    BY <1>1, <1>4, <1>5, <1>6 DEF Underway

LEMMA UnderwayCalls ==
  ASSUME NEW d \in Definition, NEW data, NEW run, NEW made,
         Underway(d, run, data, made), Len(made) < Len(d.instructions),
         Callable(d, d.instructions[Len(made) + 1], run.views, data)
  PROVE  Underway(d, run, data,
                  Append(made, Call(d, d.instructions[Len(made) + 1], run.views, data)))
  <1> DEFINE S == CallsOf(d, run.views, data)
             c == Call(d, d.instructions[Len(made) + 1], run.views, data)
             more == Append(made, c)
  <1>1. Len(made) \in Nat /\ made \in Seq(S)
    BY LenProperties DEF Underway
  <1>2. Len(d.instructions) \in Nat /\ DOMAIN d.instructions = 1..Len(d.instructions)
    BY LenProperties DEF Definition
  <1>3. c \in S
    <2>1. Len(made) + 1 \in DOMAIN d.instructions
      BY <1>1, <1>2
    <2> QED
      BY <2>1, Zenon DEF CallsOf
  <1>4. /\ more \in Seq(S) /\ Len(more) = Len(made) + 1
        /\ \A n \in 1..Len(made) : more[n] = made[n]
        /\ more[Len(made) + 1] = c
    <2> HIDE DEF S, c
    <2> QED
      BY <1>1, <1>3, AppendProperties
  <1>5. Len(more) <= Len(d.instructions)
    BY <1>1, <1>2, <1>4
  <1>6. \A n \in 1..Len(more) : n \in 1..Len(made) \/ n = Len(made) + 1
    BY <1>1, <1>4
  <1>7. ASSUME NEW n \in 1..Len(more)
        PROVE  /\ Callable(d, d.instructions[n], run.views, data)
               /\ more[n] = Call(d, d.instructions[n], run.views, data)
    <2>1. CASE n \in 1..Len(made)
      BY <1>4, <2>1, Zenon DEF Underway
    <2>2. CASE n = Len(made) + 1
      BY <1>4, <2>2, Zenon
    <2> QED
      BY <1>6, <2>1, <2>2
  <1> HIDE DEF more
  <1>8. Underway(d, run, data, more)
    BY <1>4, <1>5, <1>7, Zenon DEF Underway
  <1> QED
    BY <1>8 DEF more

LEMMA RunningStep == Running /\ [Next]_vars => Running'
  <1> SUFFICES ASSUME Running, [Next]_vars
               PROVE  Running'
    OBVIOUS
  <1> USE DEF Proposal, Statuses
  <1>1. ASSUME NEW data \in Datas, ProposeCustom(data)
        PROVE  Running'
    <2>1. proposal' \in Proposal /\ proposal' # NoProposal
      BY <1>1, DataAssumption DEF ProposeCustom
    <2> QED
      BY <1>1, <2>1 DEF ProposeCustom, Running
  <1>2. CASE ApproveCustom
    <2>1. proposal \in Proposal /\ execution = NoExecution /\ calls = << >>
      BY <1>2 DEF ApproveCustom, Running
    <2>2. proposal' \in Proposal /\ proposal' # NoProposal
      BY <1>2, <2>1, DataAssumption DEF ApproveCustom
    <2> QED
      BY <1>2, <2>1, <2>2 DEF ApproveCustom, Running
  <1>3. CASE CancelCustom
    <2>1. proposal \in Proposal /\ execution = NoExecution /\ calls = << >>
      BY <1>3 DEF CancelCustom, Running
    <2>2. proposal' \in Proposal /\ proposal' # NoProposal
      BY <1>3, <2>1, DataAssumption DEF CancelCustom
    <2> QED
      BY <1>3, <2>1, <2>2 DEF CancelCustom, Running
  <1>4. ASSUME NEW remaining \in Remaining, BeginExecute(remaining)
        PROVE  Running'
    <2>1. /\ calls = << >> /\ proposal # NoProposal /\ proposal.status = "Approved"
          /\ UNCHANGED <<intent, proposal, held, calls>>
      BY <1>4 DEF BeginExecute, Running
    <2>2. /\ execution'.views = AccountViews(intent, remaining)
          /\ execution'.before = held
          /\ \A k \in DOMAIN execution'.views :
               Matches(intent, intent.accounts[k], execution'.views[k], execution'.views,
                       proposal.params_data)
      BY <1>4, Zenon DEF BeginExecute
    <2>3. PICK run : run = execution'
      OBVIOUS
    <2>4. Underway(intent, run, proposal.params_data, << >>)
      BY <2>2, <2>3, UnderwayBegins DEF Running
    <2> QED
      BY <2>1, <2>3, <2>4 DEF Running
  <1>5. CASE MakeCall
    <2>1. /\ execution # NoExecution
          /\ Underway(intent, execution, proposal.params_data, calls')
      BY <1>5, UnderwayCalls DEF MakeCall, NextCallable, NextInstruction, Running
    <2> QED
      BY <1>5, <2>1 DEF MakeCall, Running
  <1>6. CASE FailExecute
    BY <1>6 DEF FailExecute, RollBack, Running
  <1>7. CASE FinishExecute
    <2>1. proposal \in Proposal
      BY <1>7 DEF FinishExecute, Running
    <2>2. proposal' \in Proposal /\ proposal' # NoProposal /\ proposal'.status = "Executed"
      BY <1>7, <2>1, DataAssumption DEF FinishExecute
    <2> QED
      BY <1>7, <2>2 DEF FinishExecute, Running
  <1>8. ASSUME NEW holder \in Holders, NEW bytes \in Held, Rewrite(holder, bytes)
        PROVE  Running'
    BY <1>8 DEF Rewrite, Running
  <1>9. CASE UNCHANGED vars
    BY <1>9 DEF vars, Running
  <1> QED
    BY <1>1, <1>2, <1>3, <1>4, <1>5, <1>6, <1>7, <1>8, <1>9 DEF Next

LEMMA RunningInit == Init => Running
  BY DefinitionAssumption DEF Init, Running

LEMMA SumWraps ==
  ASSUME NEW a \in Nat, NEW n \in Nat, a < 65536, n < 65536, a + n >= 65536
  PROVE  (a + n) % 65536 = a + n - 65536
  OBVIOUS

\* An end that wrapped would lie before the beginning.
LEMMA WrappedIsOut ==
  ASSUME NEW a \in PodU16, NEW n \in PodU16, a <= (a + n) % 2^16
  PROVE  (a + n) % 2^16 = a + n
  <1>1. a \in Nat /\ n \in Nat /\ a < 65536 /\ n < 65536 /\ 2^16 = 65536
    BY DEF PodU16
  <1>2. CASE a + n < 65536
    <2>1. \A z \in Nat : z < 65536 => z % 65536 = z
      OBVIOUS
    <2> QED
      BY <1>1, <1>2, <2>1
  <1>3. CASE a + n >= 65536
    <2>1. (a + n) % 65536 = a + n - 65536
      BY <1>1, <1>3, SumWraps
    <2> QED
      BY <1>1, <2>1
  <1> QED
    BY <1>1, <1>2, <1>3

LEMMA SegmentThere ==
  ASSUME NEW d \in Definition, NEW segment \in DataSegmentEntry, SegmentInPool(d, segment)
  PROVE  EntryInPool(d, segment, 0)
  <1>1. segment.pool_offset \in PodU16 /\ segment.pool_len \in PodU16
    BY DEF DataSegmentEntry
  <1>2. SegmentEnd(segment) = segment.pool_offset + segment.pool_len
    BY <1>1, WrappedIsOut DEF SegmentInPool, SegmentEnd
  <1>3. segment.pool_len >= 0
    BY <1>1 DEF PodU16
  <1> QED
    BY <1>2, <1>3 DEF SegmentInPool, EntryInPool, InPool

LEMMA CallableSegments ==
  ASSUME NEW d \in Definition, NEW n \in DOMAIN d.instructions, NEW views, NEW data,
         Callable(d, d.instructions[n], views, data),
         NEW k \in DOMAIN SegmentsOf(d, d.instructions[n])
  PROVE  EntryInPool(d, SegmentsOf(d, d.instructions[n])[k], 0)
  <1> DEFINE ix == d.instructions[n]
             segments == SegmentsOf(d, ix)
  <1>1. ix \in InstructionEntry
    BY LenProperties DEF Definition
  <1>2. ix.segments_start \in Nat /\ ix.segments_count \in Nat
    <2>1. PodU16 \subseteq Nat
      BY DEF PodU16
    <2> QED
      BY <1>1, <2>1 DEF InstructionEntry
  <1>3. d.data_segments \in Seq(DataSegmentEntry)
    BY DEF Definition
  <1>4. ix.segments_start + ix.segments_count <= Len(d.data_segments)
    BY DEF Callable
  <1>5. segments \in Seq(DataSegmentEntry)
    <2>1. \A s \in Seq(DataSegmentEntry) : \A a, c \in Nat : a + c <= Len(s) =>
            SubSeq(s, a + 1, a + c) \in Seq(DataSegmentEntry)
      BY SubSeqOf
    <2> QED
      BY <1>2, <1>3, <1>4, <2>1, Zenon DEF SegmentsOf
  <1>6. SegmentInPool(d, segments[k])
    BY Zenon DEF Callable, SegmentUsable
  <1>7. segments[k] \in DataSegmentEntry
    <2> HIDE DEF segments
    <2>1. k \in DOMAIN segments
      BY DEF segments
    <2> QED
      BY <1>5, <2>1, LenProperties
  <1> QED
    BY <1>6, <1>7, SegmentThere

\* An execution that has made all calls has made the ones that are meant.
LEMMA CompleteIsMeant ==
  ASSUME NEW d \in Definition, NEW run, NEW data, NEW made,
         Underway(d, run, data, made), Len(made) = Len(d.instructions), Backward(d)
  PROVE  /\ SegmentsThere(d)
         /\ made = Calls(d, MeantViews(d, run.before, data), data)
  <1>1. DOMAIN d.instructions = 1..Len(d.instructions)
    BY LenProperties DEF Definition
  <1>2. SegmentsThere(d)
    BY <1>1, CallableSegments DEF Underway, SegmentsThere
  <1>3. MeantViews(d, run.before, data) = run.views
    <2>1. AreMeant(d, run.before, data, MeantViews(d, run.before, data))
      BY MeantViewsAreMeant DEF Underway
    <2> QED
      BY <2>1, MeantUnique DEF Underway
  <1>4. made = [n \in 1..Len(made) |-> made[n]]
    <2>1. made \in Seq(CallsOf(d, run.views, data))
      BY DEF Underway
    <2> QED
      BY <2>1, LenProperties
  <1>5. \A n \in 1..Len(made) : made[n] = Call(d, d.instructions[n], run.views, data)
    BY DEF Underway
  <1>6. made = Calls(d, run.views, data)
    BY <1>1, <1>4, <1>5, Zenon DEF Calls
  <1> QED
    BY <1>2, <1>3, <1>6

\* What CallsAreMeant says of a step.
MeantWhenItEnds ==
  execution # NoExecution /\ execution' = NoExecution /\ calls' # << >> /\ Backward(intent) =>
    /\ SegmentsThere(intent)
    /\ calls' = Calls(intent, MeantViews(intent, execution.before, proposal.params_data),
                      proposal.params_data)

\* For every definition of a custom intent whose entries refer to earlier ones
\* only, and whatever accounts are given and whatever the called programs write
\* in between, execute makes the calls that the definition, the parameters and
\* the accounts' data before the first call name, or none.
THEOREM CallsMeant == Spec => CallsAreMeant
  <1>1. Running /\ [Next]_vars => MeantWhenItEnds
    <2> SUFFICES ASSUME Running, [Next]_vars, execution # NoExecution,
                        execution' = NoExecution, calls' # << >>, Backward(intent)
                 PROVE  /\ SegmentsThere(intent)
                        /\ calls' = Calls(intent, MeantViews(intent, execution.before,
                                                             proposal.params_data),
                                          proposal.params_data)
      BY DEF MeantWhenItEnds
    <2>1. FinishExecute
      <3>1. CASE FailExecute
        BY <3>1 DEF FailExecute, RollBack
      <3>2. CASE UNCHANGED vars
        BY <3>2 DEF vars
      <3> QED
        BY <3>1, <3>2
        DEF Next, ProposeCustom, ApproveCustom, CancelCustom, BeginExecute, MakeCall,
            Rewrite, Running
    <2>2. calls' = calls /\ Len(calls) = Len(intent.instructions)
      BY <2>1 DEF FinishExecute
    <2> QED
      BY <2>2, CompleteIsMeant DEF Running
  <1>2. Running /\ [Next]_vars => [MeantWhenItEnds]_vars
    BY <1>1
  <1>3. CallsAreMeant <=> [][MeantWhenItEnds]_vars
    BY DEF CallsAreMeant, MeantWhenItEnds
  <1> QED
    BY <1>2, <1>3, RunningInit, RunningStep, PTL DEF Spec

(***************************************************************************)
(* Parameters: the walk that validates them and the one that reads them.   *)
(***************************************************************************)

Params == Seq(ParamEntry)

LEMMA ParamTyped ==
  ASSUME NEW params \in Params, NEW n \in 1..Len(params)
  PROVE  params[n] \in ParamEntry /\ params[n].param_type \in ParamTypes
  <1>1. params[n] \in ParamEntry
    BY ElementOfSeq DEF Params
  <1> QED
    BY <1>1 DEF ParamEntry

\* A parameter that passes the check is all there, and the check and the
\* reading agree on its size.
LEMMA CheckedEndFacts ==
  ASSUME NEW param \in ParamEntry, NEW data \in Bytes, NEW off \in Nat,
         CheckedEnd(param, data, off) # Err
  PROVE  /\ ParamByteSize(param.param_type, data, off) \in Nat
         /\ CheckedEnd(param, data, off) = off + ParamByteSize(param.param_type, data, off)
         /\ CheckedEnd(param, data, off) <= Len(data)
         /\ param.param_type = "String" => ParamByteSize(param.param_type, data, off) >= 1
         /\ param.param_type # "String" =>
              Meets(param, LittleEndian(SubSeq(data, off + 1,
                             off + ParamByteSize(param.param_type, data, off))))
  <1>1. Len(data) \in Nat
    BY BytesAt
  <1>2. CASE param.param_type = "String"
    <2>1. off < Len(data) /\ CheckedEnd(param, data, off) = StringEnd(data, off)
      BY <1>2 DEF CheckedEnd
    <2>2. data[off + 1] \in Nat
      <3>1. off + 1 \in 1..Len(data)
        BY <1>1, <2>1
      <3> QED
        BY <3>1, BytesAt, ByteIsNat
    <2>3. ParamByteSize(param.param_type, data, off) = 1 + data[off + 1]
      BY <1>2, <2>1 DEF ParamByteSize
    <2>4. StringEnd(data, off) = off + 1 + data[off + 1] /\ StringEnd(data, off) <= Len(data)
      BY <2>1, <2>2 DEF StringEnd
    <2> QED
      BY <1>1, <1>2, <2>1, <2>2, <2>3, <2>4
  <1>3. CASE param.param_type # "String"
    <2>1. param.param_type \in FixedTypes
      BY <1>3 DEF ParamEntry, ParamTypes
    <2>2. Width[param.param_type] \in Nat
      BY <2>1, CodecAssumption
    <2>3. ParamByteSize(param.param_type, data, off) = Width[param.param_type]
      BY <1>3 DEF ParamByteSize
    <2>4. /\ CheckedEnd(param, data, off) = off + Width[param.param_type]
          /\ off + Width[param.param_type] <= Len(data)
          /\ Meets(param, LittleEndian(SubSeq(data, off + 1, off + Width[param.param_type])))
      BY <1>3, Zenon DEF CheckedEnd
    <2> QED
      BY <1>3, <2>2, <2>3, <2>4
  <1> QED
    BY <1>2, <1>3

Offsets == Nat \cup {Err}

LEMMA CheckedEndTyped ==
  ASSUME NEW param \in ParamEntry, NEW data \in Bytes, NEW off \in Nat
  PROVE  CheckedEnd(param, data, off) \in Offsets
  <1>1. CASE CheckedEnd(param, data, off) = Err
    BY <1>1 DEF Offsets
  <1>2. CASE CheckedEnd(param, data, off) # Err
    <2>1. /\ ParamByteSize(param.param_type, data, off) \in Nat
          /\ CheckedEnd(param, data, off) = off + ParamByteSize(param.param_type, data, off)
      BY <1>2, CheckedEndFacts
    <2> QED
      BY <2>1 DEF Offsets
  <1> QED
    BY <1>1, <1>2

LEMMA OffsetsApart == Err \notin Nat /\ \A x \in Offsets : x # Err => x \in Nat
  BY DEF Err, Offsets

\* The places at which the check finds the parameters to begin and end.
Walks(params, data, g) ==
  /\ g \in [0..Len(params) -> Nat]
  /\ g[0] = 0
  /\ \A n \in 1..Len(params) : /\ CheckedEnd(params[n], data, g[n - 1]) # Err
                               /\ g[n] = CheckedEnd(params[n], data, g[n - 1])

LEMMA ValidWalks ==
  ASSUME NEW params \in Params, NEW data \in Bytes, ValidateParamConstraints(params, data)
  PROVE  \E g : Walks(params, data, g)
  <1> DEFINE len == Len(params)
             D == [x \in Offsets \X (1..len) |->
                     IF x[1] = Err THEN Err ELSE CheckedEnd(params[x[2]], data, x[1])]
             end[n \in 0..len] ==
               IF n = 0 THEN 0
               ELSE IF end[n - 1] = Err THEN Err ELSE CheckedEnd(params[n], data, end[n - 1])
  <1>1. len \in Nat
    BY LenProperties DEF Params
  <1>2. ASSUME NEW n \in 1..len, NEW x \in Offsets
        PROVE  (IF x = Err THEN Err ELSE CheckedEnd(params[n], data, x)) \in Offsets
    <2>1. CASE x = Err
      BY <2>1
    <2>2. CASE x # Err
      BY <2>2, ParamTyped, CheckedEndTyped, OffsetsApart
    <2> QED
      BY <2>1, <2>2
  <1>3. D \in [Offsets \X ((0 + 1)..len) -> Offsets]
    BY <1>2
  <1>4. PICK g \in [0..len -> Offsets] : Iterates(g, 0, len, 0, D)
    <2> HIDE DEF D
    <2>1. 0 \in Offsets /\ 0 \in Nat /\ 0 <= len
      BY <1>1 DEF Offsets
    <2> QED
      BY <1>1, <1>3, <2>1, Iteration
  <1>5. ASSUME NEW n \in 1..len
        PROVE  /\ n - 1 \in 0..len /\ n # 0 /\ n \in 0..len
               /\ g[n] = IF g[n - 1] = Err THEN Err ELSE CheckedEnd(params[n], data, g[n - 1])
    <2>1. n \in (0 + 1)..len /\ n - 1 \in 0..len /\ n # 0 /\ n \in 0..len
      BY <1>1
    <2>2. g[n - 1] \in Offsets
      BY <2>1
    <2>3. g[n] = D[<<g[n - 1], n>>]
      BY <1>4, <2>1 DEF Iterates
    <2>4. D[<<g[n - 1], n>>] =
            IF g[n - 1] = Err THEN Err ELSE CheckedEnd(params[n], data, g[n - 1])
      BY <2>2
    <2> QED
      BY <2>1, <2>3, <2>4
  <1>6. g = [n \in 0..len |->
               IF n = 0 THEN 0
               ELSE IF g[n - 1] = Err THEN Err ELSE CheckedEnd(params[n], data, g[n - 1])]
    <2>1. ASSUME NEW n \in 0..len
          PROVE  g[n] = IF n = 0 THEN 0
                        ELSE IF g[n - 1] = Err THEN Err
                        ELSE CheckedEnd(params[n], data, g[n - 1])
      <3>1. CASE n = 0
        BY <1>4, <3>1 DEF Iterates
      <3>2. CASE n # 0
        <4>1. n \in 1..len
          BY <1>1, <3>2
        <4> QED
          BY <1>5, <4>1, <3>2
      <3> QED
        BY <3>1, <3>2
    <2> HIDE DEF D
    <2> QED
      BY <2>1
  <1>7. end = [n \in 0..len |->
                 IF n = 0 THEN 0
                 ELSE IF end[n - 1] = Err THEN Err
                 ELSE CheckedEnd(params[n], data, end[n - 1])]
    BY <1>6, Zenon
  <1>8. end[len] # Err
    BY Zenon DEF ValidateParamConstraints
  <1> HIDE DEF end, D
  <1>9. end[0] = 0 /\ \A n \in 1..len :
          end[n] = IF end[n - 1] = Err THEN Err ELSE CheckedEnd(params[n], data, end[n - 1])
    BY <1>1, <1>5, <1>7
  <1>10. \A n \in 0..len : end[n] \in Offsets
    <2> DEFINE P == {n \in 0..len : end[n] \in Offsets}
    <2>1. 0 \in P
      BY <1>1, <1>9 DEF Offsets
    <2>2. ASSUME NEW m \in 0..len, m \in P, m < len
          PROVE  m + 1 \in P
      <3>1. m + 1 \in 1..len /\ m + 1 \in 0..len /\ (m + 1) - 1 = m
        BY <1>1, <2>2
      <3>2. end[m + 1] = IF end[m] = Err THEN Err ELSE CheckedEnd(params[m + 1], data, end[m])
        BY <1>9, <3>1
      <3> QED
        BY <1>2, <2>2, <3>1, <3>2
    <2> HIDE DEF P
    <2>3. \A m \in 0..len : m \in P
      BY <1>1, <2>1, <2>2, IntervalInduction
    <2> QED
      BY <2>3 DEF P
  <1>11. ASSUME NEW n \in 0..len
         PROVE  end[n] # Err
    <2> SUFFICES ASSUME end[n] = Err
                 PROVE  FALSE
      OBVIOUS
    <2> DEFINE P == {m \in n..len : end[m] = Err}
    <2>1. n \in P
      BY <1>1
    <2>2. ASSUME NEW m \in n..len, m \in P, m < len
          PROVE  m + 1 \in P
      <3>1. m + 1 \in 1..len /\ m + 1 \in n..len /\ (m + 1) - 1 = m
        BY <1>1, <2>2
      <3> QED
        BY <1>9, <2>2, <3>1
    <2> HIDE DEF P
    <2>3. \A m \in n..len : m \in P
      <3>1. n \in Nat
        BY <1>1
      <3> QED
        BY <1>1, <3>1, <2>1, <2>2, IntervalInduction
    <2>4. len \in n..len
      BY <1>1
    <2> QED
      BY <1>8, <2>3, <2>4 DEF P
  <1>12. Walks(params, data, end)
    <2>1. \A n \in 0..len : end[n] \in Nat
      BY <1>10, <1>11, OffsetsApart
    <2>2. end \in [0..len -> Nat]
      BY <1>7, <2>1
    <2>3. ASSUME NEW n \in 1..len
          PROVE  /\ end[n] = CheckedEnd(params[n], data, end[n - 1])
                 /\ CheckedEnd(params[n], data, end[n - 1]) # Err
      BY <1>5, <1>9, <1>11
    <2> QED
      BY <1>9, <2>2, <2>3 DEF Walks
  <1> QED
    BY <1>12

LEMMA WalkFacts ==
  ASSUME NEW params \in Params, NEW data \in Bytes, NEW g, Walks(params, data, g),
         NEW n \in 1..Len(params)
  PROVE  LET size == ParamByteSize(params[n].param_type, data, g[n - 1])
         IN  /\ g[n - 1] \in Nat /\ size \in Nat
             /\ g[n] = g[n - 1] + size /\ g[n] <= Len(data)
             /\ params[n].param_type = "String" => size >= 1
             /\ params[n].param_type # "String" =>
                  Meets(params[n], LittleEndian(SubSeq(data, g[n - 1] + 1, g[n - 1] + size)))
  <1>1. Len(params) \in Nat
    BY LenProperties DEF Params
  <1>2. g[n - 1] \in Nat
    BY <1>1 DEF Walks
  <1>3. params[n] \in ParamEntry
    BY ParamTyped
  <1>4. /\ CheckedEnd(params[n], data, g[n - 1]) # Err
        /\ g[n] = CheckedEnd(params[n], data, g[n - 1])
    BY DEF Walks
  <1>5. \A param \in ParamEntry : \A off \in Nat :
          CheckedEnd(param, data, off) # Err =>
            /\ ParamByteSize(param.param_type, data, off) \in Nat
            /\ CheckedEnd(param, data, off) = off + ParamByteSize(param.param_type, data, off)
            /\ CheckedEnd(param, data, off) <= Len(data)
            /\ param.param_type = "String" => ParamByteSize(param.param_type, data, off) >= 1
            /\ param.param_type # "String" =>
                 Meets(param, LittleEndian(SubSeq(data, off + 1,
                                off + ParamByteSize(param.param_type, data, off))))
    BY CheckedEndFacts
  <1> QED
    BY <1>2, <1>3, <1>4, <1>5, Zenon

\* Reading finds a parameter where the check found it.
LEMMA OffsetOfWalk ==
  ASSUME NEW params \in Params, NEW data \in Bytes, NEW g, Walks(params, data, g),
         NEW idx \in 0..(Len(params) - 1)
  PROVE  ParamOffset(params, data, idx) = g[idx]
  <1> DEFINE begin[n \in 0..idx] ==
               IF n = 0 THEN 0
               ELSE IF begin[n - 1] = Err THEN Err
               ELSE LET size == ParamByteSize(params[n].param_type, data, begin[n - 1])
                    IN  IF size = Err THEN Err ELSE begin[n - 1] + size
             h == [n \in 0..idx |-> g[n]]
  <1>1. Len(params) \in Nat /\ idx \in Nat
    BY LenProperties DEF Params
  <1>2. ASSUME NEW n \in 1..idx
        PROVE  /\ n \in 0..idx /\ n - 1 \in 0..idx /\ n # 0 /\ g[n - 1] # Err
               /\ LET size == ParamByteSize(params[n].param_type, data, g[n - 1])
                  IN  size # Err /\ g[n] = g[n - 1] + size
    <2>1. n \in 0..idx /\ n - 1 \in 0..idx /\ n # 0 /\ n \in 1..Len(params)
      BY <1>1
    <2> DEFINE size == ParamByteSize(params[n].param_type, data, g[n - 1])
    <2>2. g[n - 1] \in Nat /\ size \in Nat /\ g[n] = g[n - 1] + size
      BY <2>1, WalkFacts, Zenon
    <2> HIDE DEF size
    <2>3. g[n - 1] # Err /\ size # Err
      BY <2>2, OffsetsApart
    <2> QED
      BY <2>1, <2>2, <2>3 DEF size
  <1>3. ASSUME NEW n \in 0..idx
        PROVE  h[n] = IF n = 0 THEN 0
                      ELSE IF h[n - 1] = Err THEN Err
                      ELSE LET size == ParamByteSize(params[n].param_type, data, h[n - 1])
                           IN  IF size = Err THEN Err ELSE h[n - 1] + size
    <2>1. CASE n = 0
      BY <2>1, <1>1 DEF Walks
    <2>2. CASE n # 0
      <3>1. n \in 1..idx
        BY <1>1, <2>2
      <3>2. h[n - 1] = g[n - 1] /\ h[n] = g[n]
        BY <1>2, <3>1
      <3> HIDE DEF h
      <3> QED
        BY <1>2, <2>2, <3>1, <3>2, Zenon
    <2> QED
      BY <2>1, <2>2
  <1>4. h = [n \in 0..idx |->
               IF n = 0 THEN 0
               ELSE IF h[n - 1] = Err THEN Err
               ELSE LET size == ParamByteSize(params[n].param_type, data, h[n - 1])
                    IN  IF size = Err THEN Err ELSE h[n - 1] + size]
    <2>1. h = [n \in 0..idx |-> h[n]]
      OBVIOUS
    <2> HIDE DEF h
    <2> QED
      BY <1>3, <2>1, Zenon
  <1> HIDE DEF h
  <1>5. begin = [n \in 0..idx |->
                   IF n = 0 THEN 0
                   ELSE IF begin[n - 1] = Err THEN Err
                   ELSE LET size == ParamByteSize(params[n].param_type, data, begin[n - 1])
                        IN  IF size = Err THEN Err ELSE begin[n - 1] + size]
    BY <1>4, Zenon
  <1> HIDE DEF begin
  <1>6. begin[idx] = g[idx]
    <2> DEFINE P == {n \in 0..idx : begin[n] = g[n]}
    <2>1. 0 \in P
      <3>1. 0 \in 0..idx
        BY <1>1
      <3>2. begin[0] = 0
        BY <1>5, <3>1, Zenon
      <3> QED
        BY <3>1, <3>2 DEF Walks
    <2>2. ASSUME NEW m \in 0..idx, m \in P, m < idx
          PROVE  m + 1 \in P
      <3>1. m + 1 \in 1..idx /\ m + 1 \in 0..idx /\ (m + 1) - 1 = m /\ m + 1 # 0
        BY <1>1, <2>2
      <3>2. begin[m + 1] = IF begin[m] = Err THEN Err
                           ELSE LET size == ParamByteSize(params[m + 1].param_type, data, begin[m])
                                IN  IF size = Err THEN Err ELSE begin[m] + size
        BY <1>5, <3>1, Zenon
      <3>3. begin[m] = g[m]
        BY <2>2
      <3>4. begin[m + 1] = g[m + 1]
        BY <1>2, <3>1, <3>2, <3>3, Zenon
      <3> QED
        BY <3>1, <3>4
    <2> HIDE DEF P
    <2>3. \A m \in 0..idx : m \in P
      <3>1. 0 \in Nat
        OBVIOUS
      <3> QED
        BY <1>1, <3>1, <2>1, <2>2, IntervalInduction
    <2> QED
      BY <1>1, <2>3 DEF P
  <1> QED
    BY <1>6, Zenon DEF ParamOffset, begin

\* As many bytes as the type takes.
Sized(pt, bytes) ==
  /\ bytes \in Bytes
  /\ IF pt = "String" THEN Len(bytes) # 0 /\ Len(bytes) = 1 + bytes[1]
     ELSE Len(bytes) = Width[pt]

\* A parameter that was checked can be read, and is what was checked.
LEMMA WalkReads ==
  ASSUME NEW params \in Params, NEW data \in Bytes, NEW g, Walks(params, data, g),
         NEW idx \in 0..(Len(params) - 1)
  PROVE  /\ Readable(params, data, idx)
         /\ ReadParamBytes(params, data, idx) \in Bytes
         /\ Sized(params[idx + 1].param_type, ReadParamBytes(params, data, idx))
         /\ params[idx + 1].param_type # "String" =>
              Meets(params[idx + 1], LittleEndian(ReadParamBytes(params, data, idx)))
  <1> DEFINE size == ParamByteSize(params[idx + 1].param_type, data, g[idx])
  <1>1. Len(params) \in Nat /\ idx + 1 \in 1..Len(params) /\ (idx + 1) - 1 = idx
        /\ idx < Len(params) /\ Len(data) \in Nat
    BY LenProperties, BytesAt DEF Params
  <1>2. ParamOffset(params, data, idx) = g[idx]
    BY OffsetOfWalk
  <1>3. /\ g[idx] \in Nat /\ size \in Nat
        /\ g[idx] + size <= Len(data)
        /\ params[idx + 1].param_type = "String" => size >= 1
        /\ params[idx + 1].param_type # "String" =>
             Meets(params[idx + 1], LittleEndian(SubSeq(data, g[idx] + 1, g[idx] + size)))
    BY <1>1, WalkFacts, Zenon
  <1>4. ReadParamBytes(params, data, idx) = SubSeq(data, g[idx] + 1, g[idx] + size)
    BY <1>2, Zenon DEF ReadParamBytes
  <1>5. /\ SubSeq(data, g[idx] + 1, g[idx] + size) \in Bytes
        /\ Len(SubSeq(data, g[idx] + 1, g[idx] + size)) = size
    <2> HIDE DEF size
    <2> QED
      BY <1>3, BytesSubSeq, Zenon
  <1>6. Readable(params, data, idx)
    <2>1. g[idx] # Err /\ size # Err
      <3> HIDE DEF size
      <3> QED
        BY <1>3, OffsetsApart
    <2> QED
      BY <1>1, <1>2, <1>3, <2>1, Zenon DEF Readable
  <1>7. Sized(params[idx + 1].param_type, ReadParamBytes(params, data, idx))
    <2> DEFINE pt == params[idx + 1].param_type
               bytes == SubSeq(data, g[idx] + 1, g[idx] + size)
    <2>1. CASE pt # "String"
      <3>1. size = Width[pt]
        BY <2>1, Zenon DEF ParamByteSize
      <3> HIDE DEF size
      <3> QED
        BY <1>4, <1>5, <2>1, <3>1 DEF Sized
    <2>2. CASE pt = "String"
      <3>1. size = 1 + data[g[idx] + 1] \/ size = Err
        BY <2>2, Zenon DEF ParamByteSize
      <3> HIDE DEF size
      <3>2. size # Err
        BY <1>3, OffsetsApart
      <3>3. bytes[1] = data[g[idx] + 1] /\ Len(bytes) = size
        <4> DEFINE S == 0..255
        <4>1. data \in Seq(S)
          BY DEF Bytes
        <4> HIDE DEF S
        <4>2. 1 \in 1..size /\ g[idx] \in Nat /\ size \in Nat /\ g[idx] + size <= Len(data)
          BY <1>3, <2>2
        <4>3. \A k \in 1..size : bytes[k] = data[g[idx] + k]
          BY <4>1, <4>2, SubSeqOf
        <4>4. Len(bytes) = size
          BY <1>5
        <4> HIDE DEF bytes
        <4> QED
          BY <4>2, <4>3, <4>4, Zenon
      <3>4. size # 0
        BY <1>3, <2>2
      <3> HIDE DEF bytes
      <3> QED
        BY <1>4, <1>5, <2>2, <3>1, <3>2, <3>3, <3>4 DEF Sized, bytes
    <2> QED
      BY <2>1, <2>2
  <1> HIDE DEF size
  <1> QED
    BY <1>3, <1>4, <1>5, <1>6, <1>7

LEMMA MeetsBounds ==
  ASSUME NEW param \in ParamEntry, NEW bytes \in Bytes,
         param.param_type # "String" => Meets(param, LittleEndian(bytes))
  PROVE  WithinBounds(param, bytes)
  <1> SUFFICES ASSUME param.param_type = "U64"
               PROVE  CASE param.constraint_type = "LessThanU64" ->
                             LittleEndian(bytes) < param.constraint_value
                        [] param.constraint_type = "GreaterThanU64" ->
                             LittleEndian(bytes) > param.constraint_value
                        [] OTHER -> TRUE
    BY Zenon DEF WithinBounds
  <1>1. /\ param.constraint_type = "LessThanU64" =>
             LittleEndian(bytes) < param.constraint_value
        /\ param.constraint_type = "GreaterThanU64" =>
             LittleEndian(bytes) > param.constraint_value
    BY DEF Meets
  <1>2. CASE param.constraint_type = "LessThanU64"
    BY <1>1, <1>2, Zenon
  <1>3. CASE param.constraint_type = "GreaterThanU64"
    BY <1>1, <1>3, Zenon
  <1>4. CASE param.constraint_type \notin {"LessThanU64", "GreaterThanU64"}
    BY <1>4, Zenon
  <1> QED
    BY <1>2, <1>3, <1>4

(***************************************************************************)
(* How parameters are shown.                                               *)
(***************************************************************************)

LEMMA LittleEndianBelow ==
  ASSUME NEW bytes \in Bytes, NEW p, IsPowers(p, 256, Len(bytes))
  PROVE  LittleEndian(bytes) < p[Len(bytes)]
  <1> DEFINE len == Len(bytes)
  <1>1. PICK g : Spelled(bytes, g) /\ LittleEndian(bytes) = g[len]
    BY LittleEndianIs
  <1>2. len \in Nat /\ \A n \in 1..len : bytes[n] \in 0..255
    BY BytesAt
  <1> DEFINE P == {n \in 0..len : g[n] < p[n]}
  <1>3. 0 \in P
    BY <1>1, <1>2 DEF Spelled, IsPowers
  <1>4. ASSUME NEW m \in 0..len, m \in P, m < len
        PROVE  m + 1 \in P
    <2>1. /\ m + 1 \in 1..len /\ m + 1 \in 0..len /\ (m + 1) - 1 = m
          /\ len - (m + 1) + 1 \in 1..len
      BY <1>2, <1>4
    <2>2. g[m + 1] = 256 * g[m] + bytes[len - (m + 1) + 1] /\ g[m] \in Nat
      BY <1>1, <2>1 DEF Spelled
    <2>3. p[m + 1] = 256 * p[m] /\ p[m] \in Nat
      BY <2>1 DEF IsPowers
    <2>4. bytes[len - (m + 1) + 1] \in 0..255 /\ g[m] < p[m]
      BY <1>2, <1>4, <2>1
    <2>5. \A x, y \in Nat, b \in 0..255 : x < y => 256 * x + b < 256 * y
      OBVIOUS
    <2>6. g[m + 1] < p[m + 1]
      <3> DEFINE x == g[m]
                 y == p[m]
                 b == bytes[len - (m + 1) + 1]
      <3>1. x \in Nat /\ y \in Nat /\ b \in 0..255 /\ x < y
        BY <2>2, <2>3, <2>4
      <3>2. g[m + 1] = 256 * x + b /\ p[m + 1] = 256 * y
        BY <2>2, <2>3
      <3> HIDE DEF x, y, b
      <3> QED
        BY <2>5, <3>1, <3>2
    <2> QED
      BY <2>1, <2>6
  <1> HIDE DEF P
  <1>5. \A m \in 0..len : m \in P
    BY <1>2, <1>3, <1>4, IntervalInduction
  <1> QED
    BY <1>1, <1>2, <1>5 DEF P

\* There are as many values as the power says.
LEMMA ModulusIs ==
  ASSUME NEW bytes \in Bytes, NEW p, IsPowers(p, 256, Len(bytes))
  PROVE  Modulus(bytes) = p[Len(bytes)]
  <1> DEFINE all == [n \in DOMAIN bytes |-> 255]
             len == Len(bytes)
  <1>1. len \in Nat /\ DOMAIN bytes = 1..len
    BY BytesAt
  <1>2. all \in Bytes /\ Len(all) = len /\ \A n \in 1..len : all[n] = 255
    <2>1. all = [n \in 1..len |-> 255]
      BY <1>1
    <2> QED
      BY <1>1, <2>1 DEF Bytes
  <1>3. Modulus(bytes) = 1 + LittleEndian(all)
    BY Zenon DEF Modulus
  <1> HIDE DEF all
  <1>4. PICK g : Spelled(all, g) /\ LittleEndian(all) = g[len]
    BY <1>2, LittleEndianIs
  <1> DEFINE P == {n \in 0..len : g[n] + 1 = p[n]}
  <1>5. 0 \in P
    BY <1>1, <1>4 DEF Spelled, IsPowers
  <1>6. ASSUME NEW m \in 0..len, m \in P, m < len
        PROVE  m + 1 \in P
    <2>1. /\ m + 1 \in 1..len /\ m + 1 \in 0..len /\ (m + 1) - 1 = m
          /\ len - (m + 1) + 1 \in 1..len
      BY <1>1, <1>6
    <2>2. g[m + 1] = 256 * g[m] + 255 /\ g[m] \in Nat
      <3>1. g[m + 1] = 256 * g[(m + 1) - 1] + all[len - (m + 1) + 1] /\ g[m] \in Nat
        <4>1. /\ g \in [0..Len(all) -> Nat]
              /\ \A n \in 1..Len(all) : g[n] = 256 * g[n - 1] + all[Len(all) - n + 1]
          BY <1>4, Zenon DEF Spelled
        <4>2. Len(all) = len
          BY <1>2
        <4> HIDE DEF len
        <4>3. /\ g \in [0..len -> Nat]
              /\ \A n \in 1..len : g[n] = 256 * g[n - 1] + all[len - n + 1]
          BY <4>1, <4>2, Zenon
        <4> QED
          BY <2>1, <4>3
      <3>2. all[len - (m + 1) + 1] = 255
        BY <1>2, <2>1
      <3> QED
        BY <2>1, <3>1, <3>2
    <2>3. p[m + 1] = 256 * p[m] /\ p[m] \in Nat /\ g[m] + 1 = p[m]
      BY <1>6, <2>1 DEF IsPowers
    <2>4. g[m + 1] + 1 = p[m + 1]
      BY <2>2, <2>3
    <2> QED
      BY <2>1, <2>4
  <1> HIDE DEF P
  <1>7. \A m \in 0..len : m \in P
    BY <1>1, <1>5, <1>6, IntervalInduction
  <1>8. g[len] + 1 = p[len] /\ g[len] \in Nat
    BY <1>1, <1>2, <1>4, <1>7 DEF P, Spelled
  <1> QED
    BY <1>3, <1>4, <1>8

\* A number of 16 bytes has a place in the buffer for its digits.
LEMMA NumbersPrintable ==
  ASSUME NEW bytes \in Bytes, Len(bytes) <= 16
  PROVE  /\ LittleEndian(bytes) \in Nat /\ Modulus(bytes) \in Nat
         /\ LittleEndian(bytes) < Modulus(bytes)
         /\ \A val \in Nat : val <= Modulus(bytes) => val \in Printable
  <1> DEFINE len == Len(bytes)
  <1>1. len \in 0..16
    <2>1. len \in Nat /\ len <= 16
      BY BytesAt
    <2>2. \A x \in Nat : x <= 16 => x \in 0..16
      OBVIOUS
    <2> QED
      BY <2>1, <2>2, Zenon
  <1>2. PICK p : IsPowers(p, 256, 16)
    BY PowersExist
  <1>3. IsPowers([k \in 0..len |-> p[k]], 256, len)
    <2> HIDE DEF len
    <2>1. /\ p \in [0..16 -> Nat] /\ p[0] = 1
          /\ \A k \in 1..16 : p[k] = 256 * p[k - 1]
      BY <1>2 DEF IsPowers
    <2>2. \A k \in 1..len : k \in 1..16 /\ k \in 0..len /\ k - 1 \in 0..len
      BY <1>1
    <2>3. \A k \in 0..len : k \in 0..16
      BY <1>1
    <2>4. 0 \in 0..len
      BY <1>1
    <2> QED
      BY <2>1, <2>2, <2>3, <2>4 DEF IsPowers
  <1>4. LittleEndian(bytes) < p[len] /\ Modulus(bytes) = p[len]
    <2> DEFINE q == [k \in 0..len |-> p[k]]
    <2>1. q[len] = p[len]
      BY <1>1
    <2> HIDE DEF q
    <2>2. LittleEndian(bytes) < q[len] /\ Modulus(bytes) = q[len]
      BY <1>3, LittleEndianBelow, ModulusIs DEF q
    <2> QED
      BY <2>1, <2>2
  <1>5. p[16] = 340282366920938463463374607431768211456
    BY <1>2, SixteenBytes, SMT
  <1>6. p[len] \in Nat /\ p[len] <= p[16]
    <2>1. 256 \in Nat \ {0} /\ 16 \in Nat
      OBVIOUS
    <2>2. \A k \in 0..16 : p[k] <= p[16]
      BY <1>2, <2>1, PowersGrow
    <2>3. p[len] \in Nat
      BY <1>1, <1>2 DEF IsPowers
    <2> QED
      BY <1>1, <2>2, <2>3
  <1>7. LittleEndian(bytes) \in Nat
    BY LittleEndianNat
  <1>8. ASSUME NEW val \in Nat, val <= p[len]
        PROVE  val \in Printable
    <2>1. val < 1000000000000000000000000000000000000000
      BY <1>5, <1>6, <1>8, SMT
    <2> QED
      BY <2>1, PrintableBelow, SMT
  <1> QED
    BY <1>4, <1>6, <1>7, <1>8

\* Equally many bytes that spell the same number are the same.
LEMMA LittleEndianDetermines ==
  ASSUME NEW bytes \in Bytes, NEW other \in Bytes, Len(bytes) = Len(other),
         LittleEndian(bytes) = LittleEndian(other)
  PROVE  bytes = other
  <1> DEFINE len == Len(bytes)
  <1>1. PICK g : Spelled(bytes, g) /\ LittleEndian(bytes) = g[len]
    BY LittleEndianIs
  <1>2. PICK h : Spelled(other, h) /\ LittleEndian(other) = h[len]
    BY LittleEndianIs
  <1>3. /\ len \in Nat /\ g[len] = h[len]
        /\ \A n \in 1..len : bytes[n] \in 0..255 /\ other[n] \in 0..255
    BY <1>1, <1>2, BytesAt
  <1>4. /\ g \in [0..len -> Nat] /\ h \in [0..len -> Nat]
        /\ \A n \in 1..len : /\ g[n] = 256 * g[n - 1] + bytes[len - n + 1]
                              /\ h[n] = 256 * h[n - 1] + other[len - n + 1]
    BY <1>1, <1>2 DEF Spelled
  <1>5. ASSUME NEW k \in 1..len
        PROVE  bytes[k] = other[k]
    <2> HIDE DEF len
    <2> DEFINE P == {n \in 0..len : g[len - n] = h[len - n]}
    <2>1. ASSUME NEW n \in 1..len, g[n] = h[n]
          PROVE  g[n - 1] = h[n - 1] /\ bytes[len - n + 1] = other[len - n + 1]
      <3>1. n - 1 \in 0..len /\ len - n + 1 \in 1..len
        BY <1>3
      <3>2. g[n - 1] \in Nat /\ h[n - 1] \in Nat
        BY <1>4, <3>1
      <3>3. bytes[len - n + 1] \in 0..255 /\ other[len - n + 1] \in 0..255
        BY <1>3, <3>1
      <3>4. 256 * g[n - 1] + bytes[len - n + 1] = 256 * h[n - 1] + other[len - n + 1]
        BY <1>4, <2>1
      <3> QED
        <4> DEFINE x == g[n - 1]
                   y == h[n - 1]
                   a == bytes[len - n + 1]
                   b == other[len - n + 1]
        <4>1. x \in Nat /\ y \in Nat /\ a \in 0..255 /\ b \in 0..255
          BY <3>2, <3>3
        <4>2. 256 * x + a = 256 * y + b
          BY <3>4
        <4> HIDE DEF x, y, a, b
        <4>3. x = y /\ a = b
          <5>1. x = y
            BY <4>1, <4>2
          <5> QED
            BY <4>1, <4>2, <5>1
        <4> QED
          BY <4>3 DEF x, y, a, b
    <2>2. 0 \in P
      <3>1. 0 \in 0..len /\ len - 0 = len
        BY <1>3
      <3> QED
        BY <1>3, <3>1
    <2>3. ASSUME NEW m \in 0..len, m \in P, m < len
          PROVE  m + 1 \in P
      <3>1. len - m \in 1..len /\ (len - m) - 1 = len - (m + 1) /\ m + 1 \in 0..len
        BY <1>3, <2>3
      <3>2. g[(len - m) - 1] = h[(len - m) - 1]
        BY <2>1, <2>3, <3>1
      <3> QED
        BY <3>1, <3>2
    <2> HIDE DEF P
    <2>4. \A m \in 0..len : m \in P
      BY <1>3, <2>2, <2>3, IntervalInduction
    <2>5. k - 1 \in 0..len /\ len - (k - 1) \in 1..len /\ len - (len - (k - 1)) + 1 = k
      BY <1>3
    <2>6. g[len - (k - 1)] = h[len - (k - 1)]
      BY <2>4, <2>5 DEF P
    <2>7. bytes[len - (len - (k - 1)) + 1] = other[len - (len - (k - 1)) + 1]
      BY <2>1, <2>5, <2>6
    <2> QED
      BY <2>5, <2>7
  <1> QED
    BY <1>5, SeqEqual DEF Bytes

LEMMA DecimalIs ==
  ASSUME NEW val \in Printable
  PROVE  /\ Decimal(val) \in Seq(48..57)
         /\ Len(Decimal(val)) = Len(DecimalDigits(val)) /\ Len(Decimal(val)) >= 1
         /\ \A n \in 1..Len(Decimal(val)) : Decimal(val)[n] = 48 + DecimalDigits(val)[n]
  <1> DEFINE digits == DecimalDigits(val)
  <1>1. digits \in Seq(0..9) /\ Len(digits) \in Nat /\ Len(digits) >= 1
    <2>1. digits \in Seq(0..9) /\ Len(digits) \in 1..39
      BY DecimalDigitsAre
    <2>2. \A x \in 1..39 : x \in Nat /\ x >= 1
      OBVIOUS
    <2> QED
      BY <2>1, <2>2, Zenon
  <1>2. Decimal(val) = [n \in DOMAIN digits |-> 48 + digits[n]]
    BY Zenon DEF Decimal
  <1> HIDE DEF digits
  <1>3. DOMAIN digits = 1..Len(digits) /\ \A n \in 1..Len(digits) : digits[n] \in 0..9
    BY <1>1, LenProperties
  <1>4. Decimal(val) = [n \in 1..Len(digits) |-> 48 + digits[n]]
    BY <1>2, <1>3
  <1>5. Decimal(val) \in Seq(48..57) /\ Len(Decimal(val)) = Len(digits)
    BY <1>1, <1>3, <1>4
  <1> QED
    BY <1>1, <1>4, <1>5 DEF digits

LEMMA DecimalTells ==
  ASSUME NEW val \in Printable, NEW other \in Printable, Decimal(val) = Decimal(other)
  PROVE  val = other
  <1> DEFINE a == DecimalDigits(val)
             b == DecimalDigits(other)
  <1>1. a \in Seq(0..9) /\ b \in Seq(0..9)
    BY DecimalDigitsAre
  <1>2. Len(a) = Len(b) /\ Len(a) \in Nat
    BY <1>1, DecimalIs, LenProperties
  <1>3. \A n \in 1..Len(a) : 48 + a[n] = 48 + b[n] /\ a[n] \in 0..9 /\ b[n] \in 0..9
    BY <1>1, <1>2, DecimalIs, LenProperties
  <1>4. a = b
    <2> HIDE DEF a, b
    <2>1. \A x, y \in 0..9 : 48 + x = 48 + y => x = y
      OBVIOUS
    <2>2. \A n \in 1..Len(a) : a[n] = b[n]
      BY <1>3, <2>1
    <2> QED
      BY <1>1, <1>2, <2>2, SeqEqual
  <1> QED
    BY <1>4, DecimalDetermines

LEMMA SignedDecimalIs ==
  ASSUME NEW val \in Nat, NEW modulus \in Nat, val < modulus,
         \A v \in Nat : v <= modulus => v \in Printable
  PROVE  LET text == SignedDecimal(val, modulus)
         IN  \/ 2 * val < modulus /\ text = Decimal(val) /\ val \in Printable
             \/ /\ ~ (2 * val < modulus) /\ text = <<45>> \o Decimal(modulus - val)
                /\ modulus - val \in Printable
  <1>1. modulus - val \in Nat /\ modulus - val <= modulus /\ val <= modulus
    OBVIOUS
  <1>2. val \in Printable /\ modulus - val \in Printable
    BY <1>1
  <1> QED
    BY <1>2, Zenon DEF SignedDecimal

LEMMA ShownCases ==
  ASSUME NEW pt \in ParamTypes, NEW bytes
  PROVE  \/ pt = "Address" /\ Shown(pt, bytes) = Base58Text(bytes)
         \/ pt = "String" /\ Shown(pt, bytes) = Tail(bytes)
         \/ pt = "Bool" /\ Shown(pt, bytes) = BoolText(bytes[1])
         \/ /\ pt \in FixedTypes \ {"Address", "Bool"}
            /\ Shown(pt, bytes) = SignedDecimal(LittleEndian(bytes), Modulus(bytes)) /\ pt = "I64"
         \/ /\ pt \in FixedTypes \ {"Address", "Bool"}
            /\ Shown(pt, bytes) = Decimal(LittleEndian(bytes)) /\ pt # "I64"
  <1>1. CASE pt = "Address"
    BY <1>1, Zenon DEF Shown
  <1>2. CASE pt = "String"
    BY <1>2, Zenon DEF Shown
  <1>3. CASE pt = "Bool"
    BY <1>3, Zenon DEF Shown
  <1>4. CASE pt = "I64"
    <2>1. pt \in FixedTypes \ {"Address", "Bool"}
      BY <1>4 DEF FixedTypes
    <2> QED
      BY <1>4, <2>1, Zenon DEF Shown
  <1>5. CASE pt \notin {"Address", "String", "Bool", "I64"}
    <2>1. pt \in FixedTypes \ {"Address", "Bool"}
      BY <1>5 DEF FixedTypes, ParamTypes
    <2> QED
      BY <1>5, <2>1, Zenon DEF Shown
  <1> QED
    BY <1>1, <1>2, <1>3, <1>4, <1>5

LEMMA NumberSized ==
  ASSUME NEW pt \in FixedTypes \ {"Address"}, NEW bytes, Sized(pt, bytes)
  PROVE  bytes \in Bytes /\ Len(bytes) <= 16
  <1>1. pt # "String" /\ Width[pt] <= 16
    BY CodecAssumption DEF FixedTypes
  <1> QED
    BY <1>1 DEF Sized

\* No space is in what is shown of a parameter other than a string.
LEMMA ShownText ==
  ASSUME NEW pt \in ParamTypes, NEW bytes, Sized(pt, bytes)
  PROVE  /\ Shown(pt, bytes) \in Seq(Nat)
         /\ pt # "String" => Lacks(Shown(pt, bytes), 32)
  <1>1. bytes \in Bytes /\ Len(bytes) \in Nat /\ DOMAIN bytes = 1..Len(bytes)
        /\ \A n \in 1..Len(bytes) : bytes[n] \in 0..255
    BY BytesAt DEF Sized
  <1>2. CASE pt = "Address" /\ Shown(pt, bytes) = Base58Text(bytes)
    <2>1. Base58Text(bytes) = [n \in 1..Len(bytes) |-> 300 + bytes[n]]
      BY <1>1 DEF Base58Text
    <2>2. \A x \in 0..255 : 300 + x \in Nat /\ 300 + x # 32
      OBVIOUS
    <2>3. \A n \in 1..Len(bytes) : Base58Text(bytes)[n] \in Nat /\ Base58Text(bytes)[n] # 32
      <3>1. \A n \in 1..Len(bytes) : Base58Text(bytes)[n] = 300 + bytes[n]
        BY <2>1
      <3>2. \A n \in 1..Len(bytes) : 300 + bytes[n] \in Nat /\ 300 + bytes[n] # 32
        BY <1>1, <2>2, Zenon
      <3> QED
        BY <3>1, <3>2
    <2>4. Base58Text(bytes) \in Seq(Nat) /\ Len(Base58Text(bytes)) = Len(bytes)
      BY <1>1, <2>1, <2>3
    <2> QED
      BY <1>2, <2>3, <2>4 DEF Lacks
  <1>3. CASE pt = "String" /\ Shown(pt, bytes) = Tail(bytes)
    <2>1. bytes \in Seq(Nat) /\ Len(bytes) # 0
      <3>1. \A n \in 1..Len(bytes) : bytes[n] \in Nat
        BY <1>1, ByteIsNat
      <3>2. bytes \in Seq(0..255) /\ Len(bytes) # 0
        BY <1>1, <1>3 DEF Bytes, Sized
      <3> QED
        BY <3>1, <3>2
    <2>2. Tail(bytes) \in Seq(Nat)
      BY <2>1, HeadAndTail
    <2> QED
      BY <1>3, <2>2
  <1>4. CASE pt = "Bool" /\ Shown(pt, bytes) = BoolText(bytes[1])
    <2>1. \/ Shown(pt, bytes) = <<116>>
          \/ Shown(pt, bytes) = <<102>>
      BY <1>4, Zenon DEF BoolText
    <2>2. /\ <<116>> \in Seq(Nat) /\ Lacks(<<116>>, 32)
          /\ <<102>> \in Seq(Nat) /\ Lacks(<<102>>, 32)
      BY DEF Lacks
    <2> QED
      BY <2>1, <2>2, Zenon
  <1>5. ASSUME NEW val \in Printable
        PROVE  /\ Decimal(val) \in Seq(Nat) /\ Lacks(Decimal(val), 32)
               /\ <<45>> \o Decimal(val) \in Seq(Nat) /\ Lacks(<<45>> \o Decimal(val), 32)
    <2> DEFINE text == Decimal(val)
    <2>1. text \in Seq(48..57)
      BY DecimalIs
    <2> HIDE DEF text
    <2>2. Len(text) \in Nat /\ \A n \in 1..Len(text) : text[n] \in 48..57
      BY <2>1, LenProperties
    <2>3. \A x \in 48..57 : x # 32 /\ x \in Nat
      OBVIOUS
    <2>4. text \in Seq(Nat) /\ Lacks(text, 32)
      <3>1. \A n \in 1..Len(text) : text[n] # 32 /\ text[n] \in Nat
        BY <2>2, <2>3, Zenon
      <3> QED
        BY <2>1, <3>1 DEF Lacks
    <2>5. <<45>> \in Seq(Nat) /\ Len(<<45>>) = 1 /\ <<45>>[1] = 45
      OBVIOUS
    <2> DEFINE all == <<45>> \o text
    <2>6. /\ all \in Seq(Nat) /\ Len(all) = 1 + Len(text)
          /\ \A n \in 1..(1 + Len(text)) : all[n] = IF n <= 1 THEN <<45>>[n] ELSE text[n - 1]
      BY <2>4, <2>5, ConcatProperties
    <2> HIDE DEF all
    <2>7. \A n \in 1..(1 + Len(text)) : all[n] # 32
      <3> SUFFICES ASSUME NEW n \in 1..(1 + Len(text))
                   PROVE  all[n] # 32
        OBVIOUS
      <3>1. CASE n = 1
        BY <2>5, <2>6, <3>1
      <3>2. CASE n # 1
        <4>1. n - 1 \in 1..Len(text) /\ ~ (n <= 1)
          BY <2>2, <3>2
        <4> QED
          BY <2>4, <2>6, <4>1 DEF Lacks
      <3> QED
        BY <3>1, <3>2
    <2> QED
      BY <2>4, <2>6, <2>7 DEF Lacks, text, all
  <1>6. CASE pt \in FixedTypes \ {"Address", "Bool"}
    <2>1. /\ LittleEndian(bytes) \in Nat /\ Modulus(bytes) \in Nat
          /\ LittleEndian(bytes) < Modulus(bytes)
          /\ \A val \in Nat : val <= Modulus(bytes) => val \in Printable
      BY <1>6, NumberSized, NumbersPrintable
    <2>2. LittleEndian(bytes) \in Printable
      BY <2>1
    <2>3. \/ /\ SignedDecimal(LittleEndian(bytes), Modulus(bytes)) = Decimal(LittleEndian(bytes))
          \/ /\ SignedDecimal(LittleEndian(bytes), Modulus(bytes)) =
                  <<45>> \o Decimal(Modulus(bytes) - LittleEndian(bytes))
             /\ Modulus(bytes) - LittleEndian(bytes) \in Printable
      BY <2>1, SignedDecimalIs, Zenon
    <2>4. \/ Shown(pt, bytes) = SignedDecimal(LittleEndian(bytes), Modulus(bytes))
          \/ Shown(pt, bytes) = Decimal(LittleEndian(bytes))
      BY <1>6, ShownCases DEF FixedTypes
    <2> QED
      BY <1>5, <2>2, <2>3, <2>4, Zenon
  <1> QED
    BY <1>2, <1>3, <1>4, <1>6, ShownCases, Zenon

\* The texts that a template is rendered to, piece by piece.
Parts(template, params, data) ==
  [k \in DOMAIN template |->
    IF template[k].kind = "hole" THEN RenderParam(params, data, HoleIndex(template[k]))
    ELSE <<template[k].n>>]

LEMMA HoleShown ==
  ASSUME NEW template \in Seq(Piece), NEW params \in Params, NEW data \in Bytes,
         NEW g, Walks(params, data, g), CanRenderTemplate(template, params, data),
         NEW k \in 1..Len(template), template[k].kind = "hole"
  PROVE  LET idx == HoleIndex(template[k])
             pt == params[idx + 1].param_type
             bytes == ReadParamBytes(params, data, idx)
         IN  /\ idx \in 0..(Len(params) - 1) /\ pt \in ParamTypes /\ Sized(pt, bytes)
             /\ Parts(template, params, data)[k] = Shown(pt, bytes)
  <1> DEFINE idx == HoleIndex(template[k])
  <1>1. k \in DOMAIN template
    BY LenProperties
  <1>2. idx \in Nat
    <2>1. template[k] \in Piece
      BY ElementOfSeq
    <2> QED
      BY <2>1 DEF Piece, HoleIndex
  <1>3. Readable(params, data, idx)
    BY <1>1, Zenon DEF CanRenderTemplate, CanRenderParam
  <1>4. idx < Len(params)
    BY <1>3, Zenon DEF Readable
  <1>5. Parts(template, params, data)[k] = RenderParam(params, data, idx)
    BY <1>1 DEF Parts
  <1> HIDE DEF idx
  <1>6. idx \in 0..(Len(params) - 1) /\ idx + 1 \in 1..Len(params)
    BY <1>2, <1>4, LenProperties DEF Params
  <1>7. params[idx + 1].param_type \in ParamTypes
    BY <1>6, ParamTyped
  <1>8. Sized(params[idx + 1].param_type, ReadParamBytes(params, data, idx))
    BY <1>6, WalkReads
  <1> QED
    BY <1>5, <1>6, <1>7, <1>8, Zenon DEF RenderParam, idx

LEMMA PartsTyped ==
  ASSUME NEW template \in Seq(Piece), NEW params \in Params, NEW data \in Bytes,
         NEW g, Walks(params, data, g), CanRenderTemplate(template, params, data)
  PROVE  LET parts == Parts(template, params, data)
         IN  /\ parts \in Seq(Seq(Nat)) /\ Len(parts) = Len(template)
             /\ RenderTemplate(template, params, data) = FlattenSeq(parts)
             /\ \A k \in 1..Len(template) :
                  template[k].kind # "hole" => parts[k] = <<template[k].n>>
  <1> DEFINE parts == Parts(template, params, data)
             T == Seq(Nat)
  <1>1. Len(template) \in Nat /\ DOMAIN template = 1..Len(template)
    BY LenProperties
  <1>2. ASSUME NEW k \in 1..Len(template), template[k].kind # "hole"
        PROVE  parts[k] = <<template[k].n>>
    BY <1>1, <1>2 DEF Parts
  <1>3. ASSUME NEW k \in 1..Len(template)
        PROVE  parts[k] \in T
    <2>1. CASE template[k].kind = "hole"
      <3> DEFINE idx == HoleIndex(template[k])
                 pt == params[idx + 1].param_type
                 bytes == ReadParamBytes(params, data, idx)
      <3>1. pt \in ParamTypes /\ Sized(pt, bytes) /\ parts[k] = Shown(pt, bytes)
        BY <2>1, HoleShown
      <3> HIDE DEF pt, bytes, parts
      <3> QED
        BY <3>1, ShownText
    <2>2. CASE template[k].kind # "hole"
      <3>1. template[k] \in Piece
        BY ElementOfSeq
      <3>2. template[k].n \in Nat
        BY <3>1 DEF Piece
      <3>3. parts[k] = <<template[k].n>>
        BY <1>2, <2>2
      <3> HIDE DEF parts
      <3> QED
        BY <3>2, <3>3
    <2> QED
      BY <2>1, <2>2
  <1>4. parts = [k \in 1..Len(template) |-> parts[k]]
    BY <1>1 DEF Parts
  <1>5. RenderTemplate(template, params, data) = FlattenSeq(parts)
    BY Zenon DEF RenderTemplate, Parts
  <1> HIDE DEF parts, T
  <1>6. parts \in Seq(T) /\ Len(parts) = Len(template)
    BY <1>1, <1>3, <1>4
  <1> QED
    BY <1>2, <1>5, <1>6 DEF parts, T

\* The text of a template that can be rendered from checked parameters has a length.
LEMMA RenderedText ==
  ASSUME NEW template \in Seq(Piece), NEW params \in Params, NEW data \in Bytes,
         NEW g, Walks(params, data, g), CanRenderTemplate(template, params, data)
  PROVE  Len(RenderTemplate(template, params, data)) \in Nat
  <1> DEFINE parts == Parts(template, params, data)
  <1>1. parts \in Seq(Seq(Nat)) /\ RenderTemplate(template, params, data) = FlattenSeq(parts)
    BY PartsTyped
  <1> HIDE DEF parts
  <1>2. FlattenSeq(parts) \in Seq(Nat)
    BY <1>1, FlattenIsSeq
  <1> QED
    BY <1>1, <1>2, LenProperties

LEMMA DefinitionTyped ==
  ASSUME NEW d \in Definition
  PROVE  d.params \in Params /\ d.template \in Seq(Piece)
  BY DEF Definition, Params

\* Every message of a proposal fits where the one that made it did.
LEMMA VotesFit ==
  ASSUME NEW d \in Definition, NEW data \in Bytes, Accepted(d, data)
  PROVE  Fits("approve", d, data) /\ Fits("cancel", d, data)
  <1> DEFINE len == Len(RenderTemplate(d.template, d.params, data))
  <1>1. ValidateParamConstraints(d.params, data) /\ Fits("propose", d, data)
    BY DEF Accepted
  <1>2. PICK g : Walks(d.params, data, g)
    BY <1>1, DefinitionTyped, ValidWalks
  <1>3. CanRenderTemplate(d.template, d.params, data)
    BY <1>1, Zenon DEF Fits, MessageFits
  <1>4. len \in Nat
    BY <1>2, <1>3, DefinitionTyped, RenderedText
  <1>5. 7 + len <= MESSAGE_ROOM
    BY <1>1 DEF Fits, MessageFits, ActionLen
  <1> HIDE DEF len
  <1>6. 6 + len <= MESSAGE_ROOM
    BY <1>4, <1>5, CodecAssumption
  <1>7. ActionLen["approve"] = 7 /\ ActionLen["cancel"] = 6
    BY DEF ActionLen
  <1> QED
    BY <1>3, <1>5, <1>6, <1>7, Zenon DEF Fits, MessageFits, len

\* Every parameter that propose accepted is there and within its bounds.
LEMMA AcceptedParams ==
  ASSUME NEW d \in Definition, NEW data \in Bytes, Accepted(d, data),
         NEW idx \in 0..(Len(d.params) - 1)
  PROVE  /\ Readable(d.params, data, idx)
         /\ WithinBounds(d.params[idx + 1], ReadParamBytes(d.params, data, idx))
  <1>1. d.params \in Params
    BY DefinitionTyped
  <1>2. PICK g : Walks(d.params, data, g)
    BY <1>1, ValidWalks DEF Accepted
  <1>3. /\ Readable(d.params, data, idx)
        /\ ReadParamBytes(d.params, data, idx) \in Bytes
        /\ d.params[idx + 1].param_type # "String" =>
             Meets(d.params[idx + 1], LittleEndian(ReadParamBytes(d.params, data, idx)))
    BY <1>1, <1>2, WalkReads
  <1>4. d.params[idx + 1] \in ParamEntry
    <2>1. idx + 1 \in 1..Len(d.params)
      BY <1>1, LenProperties DEF Params
    <2> QED
      BY <1>1, <2>1, ParamTyped
  <1> QED
    BY <1>3, <1>4, MeetsBounds, Zenon

\* A proposal keeps the parameters that propose accepted.
Vetted ==
  /\ Running
  /\ proposal # NoProposal => Accepted(intent, proposal.params_data)

LEMMA VettedInit == Init => Vetted
  BY RunningInit DEF Init, Vetted

LEMMA VettedStep == Vetted /\ [Next]_vars => Vetted'
  <1> SUFFICES ASSUME Vetted, [Next]_vars
               PROVE  Vetted'
    OBVIOUS
  <1>1. Running'
    BY RunningStep DEF Vetted
  <1>2. intent' = intent
    BY DEF Next, vars, ProposeCustom, ApproveCustom, CancelCustom, BeginExecute, MakeCall,
           FailExecute, FinishExecute, Rewrite
  <1>3. proposal' # NoProposal => Accepted(intent, proposal'.params_data)
    <2>1. CASE \E data \in Datas : ProposeCustom(data)
      BY <2>1 DEF ProposeCustom
    <2>2. CASE ApproveCustom \/ CancelCustom \/ FinishExecute
      <3>1. proposal \in Proposal /\ proposal # NoProposal
        BY <2>2 DEF ApproveCustom, CancelCustom, FinishExecute, Vetted, Running
      <3>2. proposal'.params_data = proposal.params_data
        BY <2>2, <3>1 DEF ApproveCustom, CancelCustom, FinishExecute, Proposal
      <3> QED
        BY <3>1, <3>2 DEF Vetted
    <2>3. CASE proposal' = proposal
      BY <2>3 DEF Vetted
    <2> QED
      BY <2>1, <2>2, <2>3
      DEF Next, vars, BeginExecute, MakeCall, FailExecute, RollBack, Rewrite
  <1> QED
    BY <1>1, <1>2, <1>3 DEF Vetted

\* For every definition and all data: nothing that propose checked of the
\* parameters needs a second check.
THEOREM ValidatedOnce == Spec => []ValidatedOnceIsEnough
  <1>1. Vetted => ValidatedOnceIsEnough
    <2> SUFFICES ASSUME Vetted, proposal # NoProposal
                 PROVE  /\ \A idx \in 0..(Len(intent.params) - 1) :
                             /\ Readable(intent.params, proposal.params_data, idx)
                             /\ WithinBounds(intent.params[idx + 1],
                                  ReadParamBytes(intent.params, proposal.params_data, idx))
                        /\ Fits("approve", intent, proposal.params_data)
                        /\ Fits("cancel", intent, proposal.params_data)
      BY DEF ValidatedOnceIsEnough
    <2>1. intent \in Definition
      BY DefinitionAssumption DEF Vetted, Running
    <2>2. proposal.params_data \in Bytes
      BY DataAssumption DEF Vetted, Running, Proposal, Bytes
    <2>3. Accepted(intent, proposal.params_data)
      BY DEF Vetted
    <2> QED
      BY <2>1, <2>2, <2>3, AcceptedParams, VotesFit
  <1> QED
    BY <1>1, VettedInit, VettedStep, PTL DEF Spec


(***************************************************************************)
(* What the text of a proposal says about its parameters.                  *)
(***************************************************************************)

\* Bytes of the same type that are shown alike are the same.
LEMMA NumberTells ==
  ASSUME NEW pt \in FixedTypes \ {"Address"}, NEW bytes, NEW other,
         Sized(pt, bytes), Sized(pt, other)
  PROVE  /\ Decimal(LittleEndian(bytes)) = Decimal(LittleEndian(other)) => bytes = other
         /\ SignedDecimal(LittleEndian(bytes), Modulus(bytes)) =
              SignedDecimal(LittleEndian(other), Modulus(other)) => bytes = other
  <1> DEFINE a == LittleEndian(bytes)
             b == LittleEndian(other)
             m == Modulus(bytes)
  <1>1. bytes \in Bytes /\ other \in Bytes /\ Len(bytes) = Len(other)
        /\ Len(bytes) <= 16 /\ Len(other) <= 16
    <2>1. pt # "String"
      BY DEF FixedTypes
    <2> QED
      BY <2>1, NumberSized DEF Sized
  <1>2. Modulus(other) = m
    <2>1. DOMAIN bytes = DOMAIN other
      BY <1>1, BytesAt
    <2> QED
      BY <2>1 DEF Modulus
  <1>3. /\ a \in Nat /\ m \in Nat /\ a < m /\ b \in Nat /\ b < m
        /\ \A val \in Nat : val <= m => val \in Printable
    BY <1>1, <1>2, NumbersPrintable
  <1>4. a = b => bytes = other
    BY <1>1, LittleEndianDetermines
  <1> HIDE DEF a, b, m
  <1>5. a \in Printable /\ b \in Printable
    BY <1>3
  <1>6. Decimal(a) = Decimal(b) => a = b
    BY <1>5, DecimalTells
  <1>7. ASSUME NEW v \in Printable
        PROVE  Decimal(v) \in Seq(Nat) /\ Decimal(v)[1] # 45
    <2> DEFINE text == Decimal(v)
    <2>1. text \in Seq(48..57) /\ Len(text) >= 1
      BY DecimalIs
    <2> HIDE DEF text
    <2>2. \A x \in 48..57 : x # 45 /\ x \in Nat
      OBVIOUS
    <2>3. Len(text) \in Nat /\ \A n \in 1..Len(text) : text[n] \in 48..57
      BY <2>1, LenProperties
    <2>4. 1 \in 1..Len(text)
      BY <2>1, <2>3
    <2>5. text \in Seq(Nat)
      <3>1. \A n \in 1..Len(text) : text[n] \in Nat
        BY <2>2, <2>3
      <3> QED
        BY <2>1, <3>1
    <2>6. text[1] # 45
      BY <2>2, <2>3, <2>4
    <2> QED
      BY <2>5, <2>6 DEF text
  <1>8. ASSUME NEW v \in Printable
        PROVE  /\ <<45>> \o Decimal(v) \in Seq(Nat) /\ (<<45>> \o Decimal(v))[1] = 45
    <2> DEFINE text == Decimal(v)
    <2>1. text \in Seq(Nat) /\ Len(text) \in Nat
      BY <1>7, LenProperties
    <2> HIDE DEF text
    <2>2. <<45>> \in Seq(Nat) /\ Len(<<45>>) = 1 /\ <<45>>[1] = 45
      OBVIOUS
    <2>3. <<45>> \o text \in Seq(Nat) /\ (<<45>> \o text)[1] = 45
      BY <2>1, <2>2, ConcatProperties
    <2> QED
      BY <2>3 DEF text
  <1>9. ASSUME SignedDecimal(a, m) = SignedDecimal(b, m)
        PROVE  a = b
    <2>1. \/ 2 * a < m /\ SignedDecimal(a, m) = Decimal(a)
          \/ /\ ~ (2 * a < m) /\ SignedDecimal(a, m) = <<45>> \o Decimal(m - a)
             /\ m - a \in Printable
      BY <1>3, SignedDecimalIs, Zenon
    <2>2. \/ 2 * b < m /\ SignedDecimal(b, m) = Decimal(b)
          \/ /\ ~ (2 * b < m) /\ SignedDecimal(b, m) = <<45>> \o Decimal(m - b)
             /\ m - b \in Printable
      BY <1>3, SignedDecimalIs, Zenon
    <2>3. CASE SignedDecimal(a, m) = Decimal(a) /\ SignedDecimal(b, m) = Decimal(b)
      BY <1>6, <1>9, <2>3
    <2>4. CASE /\ SignedDecimal(a, m) = <<45>> \o Decimal(m - a) /\ m - a \in Printable
               /\ SignedDecimal(b, m) = <<45>> \o Decimal(m - b) /\ m - b \in Printable
      <3> DEFINE s == Decimal(m - a)
                 t == Decimal(m - b)
      <3>1. s \in Seq(Nat) /\ t \in Seq(Nat) /\ <<45>> \o s = <<45>> \o t
        BY <1>7, <1>9, <2>4
      <3> HIDE DEF s, t
      <3>2. <<45>> \in Seq(Nat)
        OBVIOUS
      <3>3. s = t
        BY <3>1, <3>2, SameFront
      <3>4. m - a = m - b
        BY <2>4, <3>3, DecimalTells DEF s, t
      <3> QED
        BY <1>3, <3>4
    <2>5. CASE /\ SignedDecimal(a, m) = Decimal(a)
               /\ SignedDecimal(b, m) = <<45>> \o Decimal(m - b) /\ m - b \in Printable
      BY <1>5, <1>7, <1>8, <1>9, <2>5
    <2>6. CASE /\ SignedDecimal(a, m) = <<45>> \o Decimal(m - a) /\ m - a \in Printable
               /\ SignedDecimal(b, m) = Decimal(b)
      BY <1>5, <1>7, <1>8, <1>9, <2>6, ZenonT(60)
    <2> QED
      BY <2>1, <2>2, <2>3, <2>4, <2>5, <2>6
  <1> QED
    BY <1>2, <1>4, <1>6, <1>9 DEF a, b, m

LEMMA ShownTells ==
  ASSUME NEW pt \in ParamTypes \ {"Bool"}, NEW bytes, NEW other,
         Sized(pt, bytes), Sized(pt, other), Shown(pt, bytes) = Shown(pt, other)
  PROVE  bytes = other
  <1>1. /\ bytes \in Bytes /\ Len(bytes) \in Nat /\ DOMAIN bytes = 1..Len(bytes)
        /\ other \in Bytes /\ Len(other) \in Nat /\ DOMAIN other = 1..Len(other)
        /\ \A n \in 1..Len(bytes) : bytes[n] \in 0..255
        /\ \A n \in 1..Len(other) : other[n] \in 0..255
    BY BytesAt DEF Sized
  <1>2. CASE pt = "Address"
    <2>1. Len(bytes) = Len(other)
      BY <1>2 DEF Sized
    <2>2. Base58Text(bytes) = Base58Text(other)
      BY <1>2, Zenon DEF Shown
    <2>3. ASSUME NEW n \in 1..Len(bytes)
          PROVE  bytes[n] = other[n]
      <3>1. Base58Text(bytes)[n] = 300 + bytes[n] /\ Base58Text(other)[n] = 300 + other[n]
        BY <1>1, <2>1 DEF Base58Text
      <3>2. bytes[n] \in 0..255 /\ other[n] \in 0..255 /\ 300 + bytes[n] = 300 + other[n]
        BY <1>1, <2>1, <2>2, <3>1
      <3>3. \A x, y \in 0..255 : 300 + x = 300 + y => x = y
        BY SMTT(40)
      <3> QED
        BY <3>2, <3>3
    <2> QED
      BY <1>1, <2>1, <2>3, SeqEqual DEF Bytes
  <1>3. CASE pt = "String"
    <2>1. Tail(bytes) = Tail(other)
      BY <1>3, Zenon DEF Shown
    <2>2. /\ Len(bytes) # 0 /\ Len(bytes) = 1 + bytes[1]
          /\ Len(other) # 0 /\ Len(other) = 1 + other[1]
      BY <1>3 DEF Sized
    <2>3. /\ bytes = <<bytes[1]>> \o Tail(bytes) /\ Len(Tail(bytes)) = Len(bytes) - 1
          /\ other = <<other[1]>> \o Tail(other) /\ Len(Tail(other)) = Len(other) - 1
      <3> DEFINE S == 0..255
      <3>1. bytes \in Seq(S) /\ other \in Seq(S)
        BY <1>1 DEF Bytes
      <3> HIDE DEF S
      <3> QED
        BY <2>2, <3>1, HeadAndTail
    <2>4. Len(bytes) = Len(other)
      <3>1. Len(bytes) - 1 = Len(other) - 1
        BY <2>1, <2>3
      <3>2. \A x, y \in Nat : x - 1 = y - 1 => x = y
        OBVIOUS
      <3> QED
        BY <1>1, <3>1, <3>2, ZenonT(60)
    <2>5. bytes[1] = other[1]
      <3>1. 1 \in 1..Len(bytes) /\ 1 \in 1..Len(other)
        BY <1>1, <2>2
      <3>2. bytes[1] \in 0..255 /\ other[1] \in 0..255
        BY <1>1, <3>1
      <3> QED
        <4>1. 1 + bytes[1] = 1 + other[1]
          BY <2>2, <2>4, Zenon
        <4>2. \A x, y \in 0..255 : 1 + x = 1 + y => x = y
          OBVIOUS
        <4> QED
          BY <3>2, <4>1, <4>2, Zenon
    <2> QED
      BY <2>1, <2>3, <2>5
  <1>4. CASE pt \in FixedTypes \ {"Address", "Bool"}
    BY <1>4, NumberTells, Zenon DEF Shown, FixedTypes
  <1> QED
    BY <1>2, <1>3, <1>4 DEF ParamTypes, FixedTypes

\* What a text shows of two sets of parameters is marked off by spaces.
LEMMA PartsMarked ==
  ASSUME NEW d \in Definition, Legible(d), NEW data \in Bytes, NEW other \in Bytes,
         NEW g, Walks(d.params, data, g), CanRenderTemplate(d.template, d.params, data),
         NEW h, Walks(d.params, other, h), CanRenderTemplate(d.template, d.params, other)
  PROVE  Marked(Parts(d.template, d.params, data), Parts(d.template, d.params, other), 32)
  <1> DEFINE s == Parts(d.template, d.params, data)
             t == Parts(d.template, d.params, other)
             len == Len(d.template)
  <1>1. d.params \in Params /\ d.template \in Seq(Piece)
    BY DefinitionTyped
  <1>2. len \in Nat /\ DOMAIN d.template = 1..len
    BY <1>1, LenProperties
  <1>3. /\ Len(s) = len /\ \A k \in 1..len : d.template[k].kind # "hole" =>
                               s[k] = <<d.template[k].n>> /\ t[k] = <<d.template[k].n>>
    BY <1>1, PartsTyped
  <1>4. SUFFICES ASSUME NEW k \in 1..len
                 PROVE  \/ s[k] = t[k]
                        \/ k = len
                        \/ /\ k < len /\ s[k + 1] = <<32>> /\ t[k + 1] = <<32>>
                           /\ Lacks(s[k], 32) /\ Lacks(t[k], 32)
    BY <1>3 DEF Marked
  <1>5. CASE d.template[k].kind # "hole"
    BY <1>3, <1>5
  <1>6. CASE d.template[k].kind = "hole" /\ k # len
    <2> DEFINE idx == HoleIndex(d.template[k])
               pt == d.params[idx + 1].param_type
               a == ReadParamBytes(d.params, data, idx)
               b == ReadParamBytes(d.params, other, idx)
    <2>1. /\ pt \in ParamTypes /\ Sized(pt, a) /\ s[k] = Shown(pt, a)
          /\ Sized(pt, b) /\ t[k] = Shown(pt, b)
      BY <1>1, <1>6, HoleShown
    <2>2. pt # "String" /\ d.template[k + 1] = [kind |-> "char", n |-> 32]
      BY <1>2, <1>6 DEF Legible
    <2>3. k + 1 \in 1..len /\ k < len
      BY <1>2, <1>6
    <2>4. s[k + 1] = <<32>> /\ t[k + 1] = <<32>>
      <3>1. d.template[k + 1].kind # "hole" /\ d.template[k + 1].n = 32
        BY <2>2
      <3> HIDE DEF s, t
      <3> QED
        BY <1>3, <2>3, <3>1
    <2> HIDE DEF s, t, pt, a, b
    <2> QED
      BY <2>1, <2>2, <2>3, <2>4, ShownText
  <1> QED
    BY <1>5, <1>6

LEMMA TextTells ==
  ASSUME NEW d \in Definition, Legible(d), NEW data \in Bytes, NEW other \in Bytes,
         Accepted(d, data), Accepted(d, other),
         RenderTemplate(d.template, d.params, data) = RenderTemplate(d.template, d.params, other),
         NEW idx \in 0..(Len(d.params) - 1)
  PROVE  ReadParamBytes(d.params, data, idx) = ReadParamBytes(d.params, other, idx)
  <1> DEFINE s == Parts(d.template, d.params, data)
             t == Parts(d.template, d.params, other)
  <1>1. d.params \in Params /\ d.template \in Seq(Piece)
    BY DefinitionTyped
  <1>2. /\ ValidateParamConstraints(d.params, data)
        /\ ValidateParamConstraints(d.params, other)
        /\ CanRenderTemplate(d.template, d.params, data)
        /\ CanRenderTemplate(d.template, d.params, other)
    BY Zenon DEF Accepted, Fits, MessageFits
  <1>3. PICK g : Walks(d.params, data, g)
    BY <1>1, <1>2, ValidWalks
  <1>4. PICK h : Walks(d.params, other, h)
    BY <1>1, <1>2, ValidWalks
  <1>5. s = t
    <2>1. /\ s \in Seq(Seq(Nat)) /\ Len(s) = Len(d.template)
          /\ RenderTemplate(d.template, d.params, data) = FlattenSeq(s)
      BY <1>1, <1>2, <1>3, PartsTyped
    <2>2. /\ t \in Seq(Seq(Nat)) /\ Len(t) = Len(d.template)
          /\ RenderTemplate(d.template, d.params, other) = FlattenSeq(t)
      BY <1>1, <1>2, <1>4, PartsTyped
    <2>3. Marked(s, t, 32)
      BY <1>2, <1>3, <1>4, PartsMarked
    <2> HIDE DEF s, t
    <2>4. FlattenSeq(s) = FlattenSeq(t) /\ Len(t) = Len(s) /\ 32 \in Nat
      BY <2>1, <2>2
    <2> QED
      BY <2>1, <2>2, <2>3, <2>4, SameParts
  <1>6. PICK k \in 1..Len(d.template) : d.template[k].kind = "hole" /\ HoleIndex(d.template[k]) = idx
    BY <1>1, LenProperties DEF Legible
  <1> DEFINE pt == d.params[idx + 1].param_type
             a == ReadParamBytes(d.params, data, idx)
             b == ReadParamBytes(d.params, other, idx)
  <1>7. pt \in ParamTypes /\ Sized(pt, a) /\ s[k] = Shown(pt, a)
    BY <1>1, <1>2, <1>3, <1>6, HoleShown
  <1>8. Sized(pt, b) /\ t[k] = Shown(pt, b)
    BY <1>1, <1>2, <1>4, <1>6, HoleShown
  <1>9. pt # "Bool"
    BY <1>1, <1>6, LenProperties DEF Legible
  <1> HIDE DEF s, t, pt, a, b
  <1>10. a = b
    BY <1>5, <1>7, <1>8, <1>9, ShownTells
  <1> QED
    BY <1>10 DEF a, b

\* For every definition whose template is legible and all data: the text that is
\* signed tells every value that execution can read.
THEOREM TextTellsParams == Spec => []TextDeterminesParams
  <1>1. Running => TextDeterminesParams
    <2> SUFFICES ASSUME Running, Legible(intent)
                 PROVE  TextDeterminesParams
      BY DEF TextDeterminesParams
    <2> DEFINE Values(data) == [n \in DOMAIN intent.params |->
                                 ReadParamBytes(intent.params, data, n - 1)]
    <2>1. intent \in Definition
      BY DefinitionAssumption DEF Running
    <2>2. ASSUME NEW data \in Datas, NEW other \in Datas,
                 Accepted(intent, data), Accepted(intent, other),
                 RenderTemplate(intent.template, intent.params, data) =
                   RenderTemplate(intent.template, intent.params, other)
          PROVE  Values(data) = Values(other)
      <3>1. data \in Bytes /\ other \in Bytes
        BY DataAssumption DEF Bytes
      <3>2. Len(intent.params) \in Nat /\ DOMAIN intent.params = 1..Len(intent.params)
        BY <2>1, DefinitionTyped, LenProperties DEF Params
      <3>3. ASSUME NEW n \in DOMAIN intent.params
            PROVE  ReadParamBytes(intent.params, data, n - 1) =
                     ReadParamBytes(intent.params, other, n - 1)
        <4>1. n - 1 \in 0..(Len(intent.params) - 1)
          BY <3>2
        <4> QED
          BY <2>1, <2>2, <3>1, <4>1, TextTells
      <3> QED
        BY <3>3
    <2> DEFINE shown == {<<RenderTemplate(intent.template, intent.params, data), Values(data)>> :
                           data \in {data \in Datas : Accepted(intent, data)}}
    <2>3. \A one, other \in shown : one[1] = other[1] => one[2] = other[2]
      <3> SUFFICES ASSUME NEW one \in shown, NEW other \in shown, one[1] = other[1]
                   PROVE  one[2] = other[2]
        OBVIOUS
      <3>1. PICK a \in Datas :
              /\ Accepted(intent, a)
              /\ one = <<RenderTemplate(intent.template, intent.params, a), Values(a)>>
        OBVIOUS
      <3>2. PICK b \in Datas :
              /\ Accepted(intent, b)
              /\ other = <<RenderTemplate(intent.template, intent.params, b), Values(b)>>
        OBVIOUS
      <3> HIDE DEF Values, shown
      <3>3. RenderTemplate(intent.template, intent.params, a) =
              RenderTemplate(intent.template, intent.params, b)
        BY <3>1, <3>2
      <3>4. Values(a) = Values(b)
        BY <2>2, <3>1, <3>2, <3>3
      <3> QED
        BY <3>1, <3>2, <3>4
    <2> QED
      BY <2>3, Zenon DEF TextDeterminesParams
  <1> QED
    BY <1>1, RunningInit, RunningStep, PTL DEF Spec

=============================================================================
