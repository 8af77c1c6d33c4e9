----------------------------- MODULE TextProofs -----------------------------
(***************************************************************************)
(* Lemmas the proofs about the parsers share: the character helpers of     *)
(* Ascii, sets of numbers, the lanes of a compressed vector, and where the *)
(* fields of a text are.                                                   *)
(***************************************************************************)
EXTENDS GroupText, FiniteSetTheorems, FunctionTheorems, TLAPS

\* ada_convert_hex_to_binary yields four bits for every hexadecimal digit, in
\* either case.
LEMMA HexDigitValue ==
  ASSUME NEW c \in Byte, IsHexDigit(c)
  PROVE  HexToBinary(c) \in 0..15
BY DEF Byte, IsHexDigit, IsDigit, HexToBinary, SetBit5

----------------------------------------------------------------------------
\* Every nonempty set of natural numbers has a least one: 0..n for the least n
\* is a minimal one among the finite sets 0..n.
LEMMA LeastNumber ==
  ASSUME NEW T, T \subseteq Nat, T # {}
  PROVE  \E x \in T : \A y \in T : x <= y
  <1> DEFINE R == StrictSubsetOrdering(Nat)
             F == {0..n : n \in T}
  <1>1. IsWellFoundedOn(R, FiniteSubsetsOf(Nat))
    BY FS_StrictSubsetOrderingWellFounded
  <1>2. F \subseteq FiniteSubsetsOf(Nat) /\ F # {}
    <2>1. \A n \in T : 0..n \in SUBSET Nat /\ IsFiniteSet(0..n)
      BY FS_Interval
    <2> QED BY <2>1 DEF FiniteSubsetsOf
  <1>3. PICK X \in F : \A Y \in F : ~ (<<Y, X>> \in R)
    <2> HIDE DEF R, F
    <2> QED BY <1>1, <1>2, WFMin, Zenon
  <1>4. PICK x \in T : X = 0..x
    BY <1>3
  <1>5. \A y \in T : x <= y
    <2> SUFFICES ASSUME NEW y \in T, y < x PROVE FALSE
      BY <1>4
    <2>1. 0..y \in F OBVIOUS
    <2>2. /\ 0..y \subseteq 0..x /\ 0..y # 0..x
          /\ 0..y \in SUBSET Nat /\ 0..x \in SUBSET Nat
      <3>1. x \in 0..x /\ x \notin 0..y OBVIOUS
      <3>2. \A z \in 0..y : z \in 0..x OBVIOUS
      <3> QED BY <3>1, <3>2
    <2>3. <<0..y, 0..x>> \in R
      BY <2>2, Zenon DEF StrictSubsetOrdering
    <2> QED BY <2>1, <2>3, <1>3, <1>4
  <1> QED BY <1>5

\* Every nonempty bounded set of natural numbers has a greatest one: its least
\* upper bound.
LEMMA GreatestNumber ==
  ASSUME NEW T, NEW n \in Nat, T \subseteq 0..n, T # {}
  PROVE  \E x \in T : \A y \in T : y <= x
  <1> DEFINE U == {u \in Nat : \A y \in T : y <= u}
  <1>1. n \in U /\ U \subseteq Nat OBVIOUS
  <1>2. PICK x \in U : \A u \in U : x <= u
    BY <1>1, LeastNumber
  <1>3. x \in T
    <2> SUFFICES ASSUME x \notin T PROVE FALSE OBVIOUS
    <2>1. x - 1 \in U
      <3>1. \A y \in T : y <= x - 1 BY <1>2
      <3>2. PICK y \in T : TRUE OBVIOUS
      <3>3. x - 1 \in Nat BY <3>1, <3>2, <1>2
      <3> QED BY <3>1, <3>3
    <2> QED BY <2>1, <1>2
  <1> QED BY <1>2, <1>3

----------------------------------------------------------------------------
(* vpcompressb of the lane numbers: the lanes of a mask in increasing order.*)

\* A mask is finite.
LEMMA LanesAreFinite ==
  ASSUME NEW n \in Nat, NEW mask \in SUBSET (0..n)
  PROVE  mask \in SUBSET Nat /\ IsFiniteSet(mask)
<1>1. 0 \in Int /\ n \in Int
  OBVIOUS
<1>2. IsFiniteSet(0..n)
  BY <1>1, FS_Interval
<1>3. IsFiniteSet(mask)
  BY <1>2, FS_Subset
<1> QED BY <1>3

\* Ranks grow with the lanes, and stay below the number of lanes.
LEMMA RankGrows ==
  ASSUME NEW mask \in SUBSET Nat, IsFiniteSet(mask),
         NEW i \in mask, NEW j \in mask
  PROVE  /\ RankIn(mask, i) \in 0..(Cardinality(mask) - 1)
         /\ i < j => RankIn(mask, i) < RankIn(mask, j)
<1> DEFINE Below(n) == {m \in mask : m < n}
<1>2. IsFiniteSet(mask)
  OBVIOUS
<1>3. \A n \in mask : Below(n) \in SUBSET mask /\ Below(n) # mask
  OBVIOUS
<1>4. \A n \in mask : IsFiniteSet(Below(n)) /\ Cardinality(Below(n)) \in Nat
  <2> HIDE DEF Below
  <2> QED BY <1>2, <1>3, FS_Subset, FS_CardinalityType
<1>5. Cardinality(Below(i)) < Cardinality(mask) /\ Cardinality(mask) \in Nat
  <2> HIDE DEF Below
  <2>1. Cardinality(Below(i)) <= Cardinality(mask) /\ Cardinality(mask) \in Nat
    BY <1>2, <1>3, FS_Subset, FS_CardinalityType
  <2>2. Cardinality(Below(i)) # Cardinality(mask)
    BY <1>2, <1>3, FS_Subset
  <2> QED BY <1>4, <2>1, <2>2
<1>6. ASSUME i < j PROVE Cardinality(Below(i)) < Cardinality(Below(j))
  <2>1. Below(i) \in SUBSET Below(j)
    <3>1. \A m \in mask : m \in Int
      OBVIOUS
    <3>2. \A m \in mask : m < i => m < j
      BY <1>6, <3>1
    <3> QED BY <3>2
  <2>2. i \in Below(j) /\ i \notin Below(i)
    BY <1>6
  <2>3. Below(i) # Below(j)
    BY <2>2
  <2> HIDE DEF Below
  <2>4. Cardinality(Below(i)) <= Cardinality(Below(j))
    BY <1>4, <2>1, FS_Subset
  <2>5. Cardinality(Below(i)) # Cardinality(Below(j))
    BY <1>4, <2>1, <2>3, FS_Subset
  <2> QED BY <1>4, <2>4, <2>5
<1>7. RankIn(mask, i) = Cardinality(Below(i)) /\ RankIn(mask, j) = Cardinality(Below(j))
  BY DEF RankIn
<1> HIDE DEF Below
<1>8. RankIn(mask, i) \in 0..(Cardinality(mask) - 1)
  BY <1>4, <1>5, <1>7
<1> QED BY <1>6, <1>7, <1>8

\* Every rank below the number of lanes is that of a lane.
LEMMA RankHasLane ==
  ASSUME NEW mask \in SUBSET Nat, IsFiniteSet(mask),
         NEW k \in 0..(Cardinality(mask) - 1)
  PROVE  \E i \in mask : RankIn(mask, i) = k
<1> DEFINE n == Cardinality(mask)
           rank == [i \in mask |-> RankIn(mask, i)]
<1>2. IsFiniteSet(mask) /\ n \in Nat
  BY FS_CardinalityType
<1>3. IsFiniteSet(0..(n - 1)) /\ Cardinality(0..(n - 1)) = n
  BY <1>2, FS_Interval
<1>4. rank \in [mask -> 0..(n - 1)]
  BY RankGrows
<1>5. \A i, j \in mask : rank[i] = rank[j] => i = j
  <2> SUFFICES ASSUME NEW i \in mask, NEW j \in mask, rank[i] = rank[j]
               PROVE  i = j
    OBVIOUS
  <2>1. /\ i < j => RankIn(mask, i) < RankIn(mask, j)
        /\ j < i => RankIn(mask, j) < RankIn(mask, i)
        /\ RankIn(mask, i) \in 0..(n - 1) /\ RankIn(mask, j) \in 0..(n - 1)
    BY RankGrows
  <2>2. i \in Nat /\ j \in Nat /\ RankIn(mask, i) = RankIn(mask, j)
    OBVIOUS
  <2> QED BY <1>2, <2>1, <2>2
<1>6. rank \in Injection(mask, 0..(n - 1))
  <2> HIDE DEF rank, n
  <2> QED BY <1>4, <1>5, Fun_IsInj
<1>7. rank \in Surjection(mask, 0..(n - 1))
  <2> HIDE DEF rank
  <2> QED BY <1>3, <1>6, FS_Injection
<1>8. \A t \in 0..(n - 1) : \E s \in mask : rank[s] = t
  <2> HIDE DEF rank, n
  <2> QED BY <1>7 DEF Surjection
<1> QED BY <1>8

\* No two lanes have the same rank.
LEMMA RankIsUnique ==
  ASSUME NEW mask \in SUBSET Nat, IsFiniteSet(mask),
         NEW i \in mask, NEW j \in mask,
         RankIn(mask, i) = RankIn(mask, j)
  PROVE  i = j
<1>1. /\ i < j => RankIn(mask, i) < RankIn(mask, j)
      /\ j < i => RankIn(mask, j) < RankIn(mask, i)
      /\ RankIn(mask, i) \in Int
  BY RankGrows
<1>2. i \in Nat /\ j \in Nat
  OBVIOUS
<1> QED BY <1>1, <1>2

\* Lane k of a compressed vector holds the byte of the mask's lane of rank k.
LEMMA CompressFacts ==
  ASSUME NEW mask \in SUBSET Nat, IsFiniteSet(mask),
         NEW v, NEW i \in mask, RankIn(mask, i) <= 15
  PROVE  CompressLanes(v, mask)[RankIn(mask, i)] = v[i]
<1>1. PICK k \in 0..15 : k = RankIn(mask, i) /\ k < Cardinality(mask)
  <2>1. RankIn(mask, i) \in 0..(Cardinality(mask) - 1)
    BY RankGrows
  <2>2. Cardinality(mask) \in Nat
    BY FS_CardinalityType
  <2> QED BY <2>1, <2>2
<1>2. (CHOOSE j \in mask : RankIn(mask, j) = k) = i
  <2>1. PICK c : c = CHOOSE j \in mask : RankIn(mask, j) = k
    OBVIOUS
  <2>2. c \in mask /\ RankIn(mask, c) = RankIn(mask, i)
    BY <1>1, <2>1
  <2>3. c = i
    BY <2>2, RankIsUnique
  <2> QED BY <2>1, <2>3
<1> QED BY <1>1, <1>2 DEF CompressLanes

\* Two blocks of numbers: how many there are, and their ranks.
LEMMA BlocksCount ==
  ASSUME NEW h \in Nat, NEW n \in Nat, NEW b \in Nat, h <= b
  PROVE  IsFiniteSet(Blocks(h, b, n)) /\ Cardinality(Blocks(h, b, n)) = h + n
<1> DEFINE A == 0..(h - 1)
           B == b..(b + n - 1)
<1>1. IsFiniteSet(A) /\ Cardinality(A) = h
  <2>1. 0 \in Int /\ h - 1 \in Int
    OBVIOUS
  <2>2. IsFiniteSet(A) /\ Cardinality(A) = IF 0 > h - 1 THEN 0 ELSE h - 1 - 0 + 1
    BY <2>1, FS_Interval
  <2> QED BY <2>2
<1>2. IsFiniteSet(B) /\ Cardinality(B) = n
  <2>1. b \in Int /\ b + n - 1 \in Int
    OBVIOUS
  <2>2. /\ IsFiniteSet(B)
        /\ Cardinality(B) = IF b > b + n - 1 THEN 0 ELSE b + n - 1 - b + 1
    BY <2>1, FS_Interval
  <2> QED BY <2>2
<1>3. A \cap B = {} /\ Blocks(h, b, n) = A \cup B
  BY DEF Blocks
<1> HIDE DEF A, B
<1>4. Cardinality(A \cap B) = 0
  BY <1>3, FS_EmptySet
<1>5. IsFiniteSet(A \cup B) /\ Cardinality(A \cup B) = h + n
  BY <1>1, <1>2, <1>4, FS_Union
<1> QED BY <1>3, <1>5

Ranked(h, b, n) ==
  /\ Blocks(h, b, n) \in SUBSET Nat
  /\ \A k \in 0..(h - 1) : RankIn(Blocks(h, b, n), k) = k
  /\ \A k \in 0..(n - 1) : RankIn(Blocks(h, b, n), b + k) = h + k

LEMMA BlocksRanks ==
  ASSUME NEW h \in Nat, NEW n \in Nat, NEW b \in Nat, h <= b
  PROVE  Ranked(h, b, n)
<1>1. Blocks(h, b, n) \in SUBSET Nat
  <2>1. \A i \in Blocks(h, b, n) : i \in Nat
    BY DEF Blocks
  <2> QED BY <2>1
<1>2. ASSUME NEW k \in 0..(h - 1) PROVE RankIn(Blocks(h, b, n), k) = k
  <2>1. {j \in Blocks(h, b, n) : j < k} = 0..(k - 1)
    BY DEF Blocks
  <2>2. 0 \in Int /\ k - 1 \in Int
    OBVIOUS
  <2>3. Cardinality(0..(k - 1)) = IF 0 > k - 1 THEN 0 ELSE k - 1 - 0 + 1
    BY <2>2, FS_Interval
  <2>4. RankIn(Blocks(h, b, n), k) = Cardinality(0..(k - 1))
    BY <2>1 DEF RankIn
  <2> QED BY <2>3, <2>4
<1>3. ASSUME NEW k \in 0..(n - 1) PROVE RankIn(Blocks(h, b, n), b + k) = h + k
  <2>1. {j \in Blocks(h, b, n) : j < b + k} = Blocks(h, b, k)
    BY DEF Blocks
  <2>2. k \in Nat
    OBVIOUS
  <2> QED BY <2>1, <2>2, BlocksCount DEF RankIn
<1> QED BY <1>1, <1>2, <1>3 DEF Ranked

----------------------------------------------------------------------------
(* The bytes of a text, and its separators.                                *)

LEMMA TextBytes ==
  ASSUME NEW t \in Seq(Byte)
  PROVE  /\ Len(t) \in Nat
         /\ \A i \in Places(t) : i \in 0..(Len(t) - 1) /\ At(t, i) \in Byte
<1>1. Len(t) \in Nat /\ \A j \in 1..Len(t) : t[j] \in Byte
  OBVIOUS
<1>2. ASSUME NEW i \in Places(t) PROVE At(t, i) \in Byte
  <2>1. i + 1 \in 1..Len(t)
    BY <1>1 DEF Places
  <2> QED BY <1>1, <2>1 DEF At
<1> QED BY <1>1, <1>2 DEF Places

LEMMA SeparatorFacts ==
  ASSUME NEW t \in Seq(Byte)
  PROVE  /\ ColonsOf(t) \in SUBSET Nat /\ IsFiniteSet(ColonsOf(t))
         /\ \A i \in ColonsOf(t) : i \in 0..(Len(t) - 1)
         /\ Separators(t) \in SUBSET Nat /\ IsFiniteSet(Separators(t))
         /\ \A i \in Separators(t) : i \in 0..Len(t)
         /\ Fields(t) \in Nat \ {0}
         /\ Cardinality(ColonsOf(t)) = Fields(t) - 1
         /\ Cardinality(Separators(t)) = Fields(t)
         /\ RankIn(Separators(t), Len(t)) = Fields(t) - 1
         /\ \A i \in ColonsOf(t) : RankIn(Separators(t), i) = RankIn(ColonsOf(t), i)
<1>1. Len(t) \in Nat
  BY TextBytes
<1>2. \A i \in ColonsOf(t) : i \in 0..(Len(t) - 1)
  BY DEF ColonsOf, Places
<1>3. \A i \in Separators(t) : i \in 0..Len(t)
  BY <1>1, <1>2 DEF Separators
<1>4. ColonsOf(t) \in SUBSET (0..Len(t)) /\ Separators(t) \in SUBSET (0..Len(t))
  <2>1. \A i \in ColonsOf(t) : i \in 0..Len(t)
    BY <1>1, <1>2
  <2> QED BY <1>3, <2>1
<1>5. /\ ColonsOf(t) \in SUBSET Nat /\ IsFiniteSet(ColonsOf(t))
      /\ Separators(t) \in SUBSET Nat /\ IsFiniteSet(Separators(t))
  BY <1>1, <1>4, LanesAreFinite
<1>6. PICK c \in Nat : c = Cardinality(ColonsOf(t))
  BY <1>5, FS_CardinalityType
<1>7. Len(t) \notin ColonsOf(t)
  <2>1. ~ (Len(t) \in 0..(Len(t) - 1))
    BY <1>1
  <2> QED BY <1>2, <2>1
<1>8. Cardinality(Separators(t)) = c + 1
  BY <1>5, <1>6, <1>7, FS_AddElement DEF Separators
<1>9. {j \in Separators(t) : j < Len(t)} = ColonsOf(t)
  <2>1. \A i \in ColonsOf(t) : i < Len(t)
    BY <1>1, <1>2
  <2>2. ~ (Len(t) < Len(t))
    BY <1>1
  <2> QED BY <2>1, <2>2 DEF Separators
<1>10. ASSUME NEW i \in ColonsOf(t)
       PROVE  RankIn(Separators(t), i) = RankIn(ColonsOf(t), i)
  <2>1. ~ (Len(t) < i)
    BY <1>1, <1>2
  <2>2. {j \in Separators(t) : j < i} = {j \in ColonsOf(t) : j < i}
    BY <2>1 DEF Separators
  <2> QED BY <2>2 DEF RankIn
<1>11. RankIn(Separators(t), Len(t)) = c
  BY <1>6, <1>9 DEF RankIn
<1>12. Fields(t) = c + 1
  BY <1>6 DEF Fields
<1>13. /\ Fields(t) \in Nat \ {0} /\ c = Fields(t) - 1
  BY <1>12
<1> QED BY <1>2, <1>3, <1>5, <1>6, <1>8, <1>10, <1>11, <1>12, <1>13

\* Cut g is the separator of rank g - 1.
LEMMA CutIsRanked ==
  ASSUME NEW t \in Seq(Byte)
  PROVE  /\ Cut(t, 0) = -1
         /\ \A g \in 1..Fields(t) :
              Cut(t, g) \in Separators(t) /\ RankIn(Separators(t), Cut(t, g)) = g - 1
         /\ \A i \in Separators(t) :
              /\ RankIn(Separators(t), i) \in 0..(Fields(t) - 1)
              /\ Cut(t, RankIn(Separators(t), i) + 1) = i
<1>1. /\ Separators(t) \in SUBSET Nat /\ IsFiniteSet(Separators(t))
      /\ Cardinality(Separators(t)) = Fields(t) /\ Fields(t) \in Nat
  BY SeparatorFacts
<1>2. PICK S \in SUBSET Nat : S = Separators(t) /\ IsFiniteSet(S)
  BY <1>1
<1>3. ASSUME NEW g \in 1..Fields(t)
      PROVE  Cut(t, g) \in S /\ RankIn(S, Cut(t, g)) = g - 1
  <2>1. PICK k \in 0..(Cardinality(S) - 1) : k = g - 1
    BY <1>1, <1>2
  <2>2. \E i \in S : RankIn(S, i) = k
    BY <1>2, RankHasLane
  <2>3. Cut(t, g) = CHOOSE i \in S : RankIn(S, i) = k
    BY <1>2, <2>1 DEF Cut
  <2> QED BY <2>1, <2>2, <2>3
<1>4. ASSUME NEW i \in S
      PROVE  RankIn(S, i) \in 0..(Fields(t) - 1) /\ Cut(t, RankIn(S, i) + 1) = i
  <2>1. PICK r \in 0..(Fields(t) - 1) : r = RankIn(S, i)
    BY <1>1, <1>2, RankGrows
  <2>2. r + 1 \in 1..Fields(t) /\ r + 1 - 1 = r
    BY <1>1
  <2>3. Cut(t, r + 1) \in S /\ RankIn(S, Cut(t, r + 1)) = RankIn(S, i)
    BY <1>3, <2>1, <2>2
  <2>4. Cut(t, r + 1) = i
    BY <1>2, <2>3, RankIsUnique
  <2> QED BY <2>1, <2>4
<1>5. Cut(t, 0) = -1
  BY DEF Cut
<1> QED BY <1>2, <1>3, <1>4, <1>5

\* No colon between two places.
Between(t, lo, hi) ==
  /\ lo \in -1..Len(t) /\ hi \in 0..Len(t) /\ lo < hi
  /\ \A i \in ColonsOf(t) : ~ (lo < i /\ i < hi)

LEMMA Cuts ==
  ASSUME NEW t \in Seq(Byte)
  PROVE  /\ Len(t) \in Nat /\ Fields(t) \in Nat \ {0}
         /\ Cut(t, 0) = -1 /\ Cut(t, Fields(t)) = Len(t)
         /\ \A g \in 0..Fields(t) : Cut(t, g) \in -1..Len(t)
         /\ \A g, e \in 0..Fields(t) : g < e => Cut(t, g) < Cut(t, e)
         /\ \A g \in 1..(Fields(t) - 1) : Cut(t, g) \in ColonsOf(t)
         /\ \A i \in ColonsOf(t) : /\ RankIn(ColonsOf(t), i) \in 0..(Fields(t) - 2)
                                   /\ Cut(t, RankIn(ColonsOf(t), i) + 1) = i
         /\ \A k \in 0..(Fields(t) - 1) : Between(t, Cut(t, k), Cut(t, k + 1))
<1>1. PICK F \in Nat \ {0} : F = Fields(t)
  BY SeparatorFacts
<1>2. PICK S \in SUBSET Nat : S = Separators(t) /\ IsFiniteSet(S)
  BY SeparatorFacts
<1>3. /\ Cut(t, 0) = -1
      /\ \A g \in 1..F : Cut(t, g) \in S /\ RankIn(S, Cut(t, g)) = g - 1
      /\ \A i \in S : RankIn(S, i) \in 0..(F - 1) /\ Cut(t, RankIn(S, i) + 1) = i
  BY <1>1, <1>2, CutIsRanked
<1>4. \A i, j \in S : i < j => RankIn(S, i) < RankIn(S, j)
  BY <1>2, RankGrows
<1>5. /\ Len(t) \in Nat /\ Len(t) \in S /\ \A i \in S : i \in 0..Len(t)
      /\ RankIn(S, Len(t)) = F - 1
      /\ \A i \in ColonsOf(t) : /\ i \in S /\ i \in 0..(Len(t) - 1)
                                /\ RankIn(S, i) = RankIn(ColonsOf(t), i)
  BY <1>1, <1>2, TextBytes, SeparatorFacts DEF Separators
<1>6. Cut(t, F) = Len(t)
  <2>1. F - 1 + 1 = F
    OBVIOUS
  <2> QED BY <1>3, <1>5, <2>1
<1>7. \A g \in 1..F : Cut(t, g) \in 0..Len(t)
  BY <1>3, <1>5
<1>8. \A g \in 0..F : Cut(t, g) \in -1..Len(t)
  <2>1. \A g \in 0..F : g = 0 \/ g \in 1..F
    OBVIOUS
  <2> QED BY <1>3, <1>5, <1>7, <2>1
<1>9. ASSUME NEW g \in 0..F, NEW e \in 0..F, g < e PROVE Cut(t, g) < Cut(t, e)
  <2>1. e \in 1..F
    BY <1>9
  <2>2. CASE g = 0
    BY <1>3, <1>7, <2>1, <2>2
  <2>3. CASE g # 0
    <3>0. g \in 1..F
      BY <2>3
    <3>1. PICK a \in S, b \in S : /\ a = Cut(t, g) /\ b = Cut(t, e)
                                  /\ RankIn(S, a) = g - 1 /\ RankIn(S, b) = e - 1
      BY <1>3, <2>1, <3>0
    <3>2. a # b /\ ~ (b < a)
      BY <1>4, <1>9, <3>1
    <3>3. a \in Nat /\ b \in Nat
      OBVIOUS
    <3> QED BY <3>1, <3>2, <3>3
  <2> QED BY <2>2, <2>3
<1>10. ASSUME NEW g \in 1..(F - 1) PROVE Cut(t, g) \in ColonsOf(t)
  <2>1. g \in 1..F /\ g - 1 # F - 1
    OBVIOUS
  <2>2. Cut(t, g) \in S /\ Cut(t, g) # Len(t)
    BY <1>3, <1>5, <2>1
  <2> QED BY <1>2, <2>2 DEF Separators
<1>11. ASSUME NEW i \in ColonsOf(t)
       PROVE  /\ RankIn(ColonsOf(t), i) \in 0..(F - 2)
              /\ Cut(t, RankIn(ColonsOf(t), i) + 1) = i
  <2>1. PICK r \in 0..(F - 1) : r = RankIn(S, i) /\ Cut(t, r + 1) = i
    BY <1>3, <1>5
  <2>2. i < Len(t)
    BY <1>5
  <2>3. r < F - 1
    BY <1>4, <1>5, <2>1, <2>2
  <2>4. r \in 0..(F - 2)
    BY <2>3
  <2> QED BY <1>5, <2>1, <2>4
<1>12. ASSUME NEW k \in 0..(F - 1), NEW i \in ColonsOf(t),
              Cut(t, k) < i, i < Cut(t, k + 1)
       PROVE  FALSE
  <2>1. PICK r \in 0..(F - 2) : Cut(t, r + 1) = i
    BY <1>11
  <2>2. r + 1 \in 0..F /\ k \in 0..F /\ k + 1 \in 0..F
    OBVIOUS
  <2>3. Cut(t, k) \in Int /\ Cut(t, k + 1) \in Int /\ i \in Int
    BY <1>8, <2>1, <2>2
  <2>4. k < r + 1
    <3>1. CASE r + 1 = k BY <1>12, <2>1, <2>3, <3>1
    <3>2. CASE r + 1 < k
      <4>1. i < Cut(t, k)
        BY <1>9, <2>1, <2>2, <3>2
      <4> QED BY <1>12, <2>3, <4>1
    <3> QED BY <3>1, <3>2
  <2>5. r + 1 < k + 1
    <3>1. CASE r + 1 = k + 1 BY <1>12, <2>1, <2>3, <3>1
    <3>2. CASE k + 1 < r + 1
      <4>1. Cut(t, k + 1) < i
        BY <1>9, <2>1, <2>2, <3>2
      <4> QED BY <1>12, <2>3, <4>1
    <3> QED BY <3>1, <3>2
  <2> QED BY <2>4, <2>5
<1>13. ASSUME NEW k \in 0..(F - 1) PROVE Between(t, Cut(t, k), Cut(t, k + 1))
  <2>1. k \in 0..F /\ k + 1 \in 0..F /\ k + 1 \in 1..F /\ k < k + 1
    OBVIOUS
  <2>2. Cut(t, k) \in -1..Len(t) /\ Cut(t, k + 1) \in 0..Len(t) /\ Cut(t, k) < Cut(t, k + 1)
    BY <1>7, <1>8, <1>9, <2>1
  <2> QED BY <1>12, <2>2 DEF Between
<1> QED BY <1>1, <1>3, <1>5, <1>6, <1>8, <1>9, <1>10, <1>11, <1>13

----------------------------------------------------------------------------
(* The pitches of the fields, and where colons follow one another.         *)

LEMMA Pitches ==
  ASSUME NEW t \in Seq(Byte), NEW k \in 0..(Fields(t) - 1)
  PROVE  /\ Pitch(t, k) \in Nat \ {0}
         /\ Pitch(t, k) = Cut(t, k + 1) - Cut(t, k)
         /\ Cut(t, k + 1) = Cut(t, k) + Pitch(t, k)
<1>1. k \in 0..Fields(t) /\ k + 1 \in 0..Fields(t) /\ k < k + 1
  BY SeparatorFacts
<1>2. PICK a \in Int, b \in Int : a = Cut(t, k) /\ b = Cut(t, k + 1) /\ a < b
  BY <1>1, Cuts
<1> QED BY <1>2 DEF Pitch

\* Between two colons, a field is empty just when the two are neighbours.
LEMMA EmptyInside ==
  ASSUME NEW t \in Seq(Byte), NEW k \in 1..(Fields(t) - 2)
  PROVE  /\ Cut(t, k) \in ColonsOf(t) /\ Cut(t, k + 1) \in ColonsOf(t)
         /\ Pitch(t, k) = 1 <=> Cut(t, k) \in DoublesOf(t)
<1>1. k \in 1..(Fields(t) - 1) /\ k + 1 \in 1..(Fields(t) - 1) /\ k \in 0..(Fields(t) - 1)
  BY SeparatorFacts
<1>2. PICK a \in ColonsOf(t), b \in ColonsOf(t) :
        /\ a = Cut(t, k) /\ b = Cut(t, k + 1) /\ Between(t, a, b)
  BY <1>1, Cuts
<1>3. a \in Nat /\ b \in Nat /\ a < b /\ \A i \in ColonsOf(t) : ~ (a < i /\ i < b)
  BY <1>2, SeparatorFacts DEF Between
<1>4. Pitch(t, k) = b - a
  BY <1>2 DEF Pitch
<1>5. b = a + 1 <=> a + 1 \in ColonsOf(t)
  BY <1>3
<1> QED BY <1>2, <1>3, <1>4, <1>5 DEF DoublesOf

\* A double colon has an empty field inside.
LEMMA DoubleInside ==
  ASSUME NEW t \in Seq(Byte), NEW p \in DoublesOf(t)
  PROVE  \E k \in 1..(Fields(t) - 2) :
           /\ k = RankIn(ColonsOf(t), p) + 1 /\ Cut(t, k) = p /\ Cut(t, k + 1) = p + 1
           /\ Pitch(t, k) = 1
<1>1. p \in ColonsOf(t) /\ p + 1 \in ColonsOf(t) /\ p \in Nat
  BY SeparatorFacts DEF DoublesOf
<1>2. PICK F \in Nat \ {0} : F = Fields(t)
  BY SeparatorFacts
<1>3. PICK k \in 1..(F - 1) : k = RankIn(ColonsOf(t), p) + 1 /\ Cut(t, k) = p
  <2>1. PICK r \in 0..(F - 2) : r = RankIn(ColonsOf(t), p) /\ Cut(t, r + 1) = p
    BY <1>1, <1>2, Cuts
  <2> QED BY <2>1
<1>4. PICK e \in 1..(F - 1) : Cut(t, e) = p + 1
  <2>1. PICK r \in 0..(F - 2) : Cut(t, r + 1) = p + 1
    BY <1>1, <1>2, Cuts
  <2> QED BY <2>1
<1>5. k < e
  <2>1. k \in 0..F /\ e \in 0..F
    OBVIOUS
  <2>2. e < k => Cut(t, e) < Cut(t, k)
    BY <1>2, <2>1, Cuts
  <2> QED BY <1>1, <1>3, <1>4, <2>2
<1>6. k \in 1..(F - 2)
  BY <1>5
<1>7. Cut(t, k) \in DoublesOf(t)
  BY <1>3
<1>8. Pitch(t, k) = 1
  BY <1>2, <1>6, <1>7, EmptyInside
<1>9. Cut(t, k + 1) = p + 1
  <2>1. k \in 0..(F - 1)
    OBVIOUS
  <2> QED BY <1>2, <1>3, <1>8, <2>1, Pitches
<1> QED BY <1>2, <1>3, <1>6, <1>8, <1>9

\* The first field is empty just when the text begins with a colon, the last just
\* when it ends with one.
LEMMA EdgeFields ==
  ASSUME NEW t \in Seq(Byte), Fields(t) >= 2
  PROVE  /\ Pitch(t, 0) = 1 <=> 0 \in ColonsOf(t)
         /\ 0 \in ColonsOf(t) => Cut(t, 1) = 0
         /\ Pitch(t, Fields(t) - 1) = 1 <=> Len(t) - 1 \in ColonsOf(t)
         /\ Len(t) - 1 \in ColonsOf(t) => Cut(t, Fields(t) - 1) = Len(t) - 1
<1>1. PICK F \in Nat : F = Fields(t) /\ F >= 2
  BY SeparatorFacts
<1>2. PICK a \in ColonsOf(t), z \in ColonsOf(t) : a = Cut(t, 1) /\ z = Cut(t, F - 1)
  <2>1. 1 \in 1..(F - 1) /\ F - 1 \in 1..(F - 1)
    BY <1>1
  <2> QED BY <1>1, <2>1, Cuts
<1>3. PICK L \in Nat : L = Len(t) /\ \A i \in ColonsOf(t) : i \in 0..(L - 1)
  BY TextBytes, SeparatorFacts
<1>4. \A i \in ColonsOf(t) : a <= i
  <2>1. Between(t, Cut(t, 0), Cut(t, 0 + 1)) /\ Cut(t, 0) = -1
    <3>1. 0 \in 0..(F - 1)
      BY <1>1
    <3> QED BY <1>1, <3>1, Cuts
  <2> QED BY <1>2, <1>3, <2>1 DEF Between
<1>5. \A i \in ColonsOf(t) : i <= z
  <2>1. Between(t, Cut(t, F - 1), Cut(t, F - 1 + 1)) /\ Cut(t, F) = L /\ F - 1 + 1 = F
    <3>1. F - 1 \in 0..(F - 1) /\ F - 1 + 1 = F
      BY <1>1
    <3>2. Between(t, Cut(t, F - 1), Cut(t, F - 1 + 1))
      BY <1>1, <3>1, Cuts, Zenon
    <3>3. Cut(t, F) = L
      BY <1>1, <1>3, Cuts, Zenon
    <3> QED BY <3>1, <3>2, <3>3
  <2> QED BY <1>2, <1>3, <2>1 DEF Between
<1>6. Pitch(t, 0) = a + 1
  BY <1>2, Cuts DEF Pitch
<1>7. Pitch(t, F - 1) = L - z
  <2>1. F - 1 + 1 = F /\ Cut(t, F) = L
    BY <1>1, <1>3, Cuts
  <2> QED BY <1>2, <2>1 DEF Pitch
<1>8. a \in Nat /\ z \in Nat /\ a <= L - 1 /\ z <= L - 1
  BY <1>3
<1>9. a = 0 <=> 0 \in ColonsOf(t)
  BY <1>4, <1>8
<1>10. z = L - 1 <=> L - 1 \in ColonsOf(t)
  BY <1>3, <1>5, <1>8
<1>11. Pitch(t, 0) = 1 <=> 0 \in ColonsOf(t)
  BY <1>6, <1>8, <1>9
<1>12. Pitch(t, F - 1) = 1 <=> L - 1 \in ColonsOf(t)
  BY <1>7, <1>8, <1>10
<1>13. /\ 0 \in ColonsOf(t) => Cut(t, 1) = 0
       /\ L - 1 \in ColonsOf(t) => Cut(t, F - 1) = L - 1
  BY <1>2, <1>9, <1>10
<1> QED BY <1>1, <1>3, <1>11, <1>12, <1>13

\* Few fields of at most four bytes make a short text.
LEMMA FewFieldsAreShort ==
  ASSUME NEW t \in Seq(Byte), Fields(t) \in 1..9,
         \A k \in 0..(Fields(t) - 1) : Pitch(t, k) <= 5
  PROVE  Len(t) \in 0..44
<1>1. PICK F \in 1..9 : F = Fields(t)
  OBVIOUS
<1> DEFINE Small(k) == k <= F => Cut(t, k) \in Int /\ Cut(t, k) <= 5 * k - 1
<1>2. ASSUME NEW k \in 0..8, Small(k) PROVE Small(k + 1)
  <2> SUFFICES ASSUME k + 1 <= F PROVE Cut(t, k + 1) \in Int /\ Cut(t, k + 1) <= 5 * (k + 1) - 1
    OBVIOUS
  <2>1. k \in 0..(F - 1) /\ k <= F
    OBVIOUS
  <2>2. Pitch(t, k) \in Nat /\ Pitch(t, k) <= 5 /\ Cut(t, k + 1) = Cut(t, k) + Pitch(t, k)
    BY <1>1, <2>1, Pitches
  <2> QED BY <1>2, <2>1, <2>2
<1>3. Small(0)
  BY Cuts
<1> HIDE DEF Small
<1>4. /\ Small(0 + 1) /\ Small(1 + 1) /\ Small(2 + 1) /\ Small(3 + 1) /\ Small(4 + 1)
      /\ Small(5 + 1) /\ Small(6 + 1) /\ Small(7 + 1) /\ Small(8 + 1)
  BY <1>2, <1>3
<1>5. F \in {1, 2, 3, 4, 5, 6, 7, 8, 9}
  OBVIOUS
<1>6. Small(F)
  BY <1>4, <1>5
<1>7. Cut(t, F) = Len(t) /\ Len(t) \in Nat
  BY <1>1, Cuts
<1>8. Cut(t, F) <= 5 * F - 1
  BY <1>6 DEF Small
<1>10. PICK L \in Nat : L = Len(t) /\ L <= 5 * F - 1
  BY <1>7, <1>8
<1>11. ASSUME NEW n \in Nat, n <= 5 * F - 1 PROVE n \in 0..44
  BY ONLY <1>11, F \in 1..9
<1> QED BY <1>10, <1>11, Zenon

----------------------------------------------------------------------------
(* The texts of GroupText, by their double colons.                         *)

LEMMA OneCut ==
  ASSUME NEW t \in Seq(Byte), NEW g \in 0..Fields(t), NEW e \in 0..Fields(t),
         Cut(t, g) = Cut(t, e)
  PROVE  g = e
<1>1. /\ g < e => Cut(t, g) < Cut(t, e)
      /\ e < g => Cut(t, e) < Cut(t, g)
      /\ Cut(t, g) \in Int /\ Fields(t) \in Nat
  BY Cuts
<1> QED BY <1>1

\* A single colon neither begins nor ends the text.
NoLoneEdge(t) ==
  /\ 0 \in ColonsOf(t) => 0 \in DoublesOf(t)
  /\ Len(t) - 1 \in ColonsOf(t) => Len(t) - 2 \in DoublesOf(t)

\* The fields on either side of the double colon at p: h before it and n after it
\* are not empty.
GapShape(t, p, h, n) ==
  /\ Fields(t) = AtLeastOne(h) + 1 + AtLeastOne(n)
  /\ Cut(t, AtLeastOne(h)) = p /\ Cut(t, AtLeastOne(h) + 1) = p + 1
  /\ RankIn(ColonsOf(t), p) = AtLeastOne(h) - 1
  /\ p = 0 <=> h = 0
  /\ p = Len(t) - 2 <=> n = 0
  /\ \A k \in 0..(Fields(t) - 1) :
       Pitch(t, k) >= 2 <=> k \in Blocks(h, AtLeastOne(h) + 1, n)

LEMMA GapFields ==
  ASSUME NEW t \in Seq(Byte), NEW p, DoublesOf(t) = {p}, NoLoneEdge(t)
  PROVE  \E h, n \in Nat : GapShape(t, p, h, n)
<1>1. PICK F \in Nat \ {0} : F = Fields(t)
  BY SeparatorFacts
<1>2. PICK d \in 1..(F - 2) : /\ d = RankIn(ColonsOf(t), p) + 1 /\ Cut(t, d) = p
                              /\ Cut(t, d + 1) = p + 1
  BY <1>1, DoubleInside
<1>3. p \in ColonsOf(t) /\ p + 1 \in ColonsOf(t) /\ p \in Nat
  BY SeparatorFacts DEF DoublesOf
<1>4. PICK L \in Nat : L = Len(t)
  BY TextBytes
<1>5. p = 0 <=> 0 \in ColonsOf(t)
  BY <1>3 DEF NoLoneEdge
<1>6. p = L - 2 <=> L - 1 \in ColonsOf(t)
  <2>1. p = L - 2 => p + 1 = L - 1
    BY <1>4
  <2> QED BY <1>3, <1>4, <2>1 DEF NoLoneEdge
<1>7. /\ Pitch(t, 0) = 1 <=> p = 0
      /\ p = 0 => Cut(t, 1) = 0
      /\ Pitch(t, F - 1) = 1 <=> p = L - 2
      /\ p = L - 2 => Cut(t, F - 1) = L - 1
  <2>1. Fields(t) >= 2
    BY <1>1, <1>2
  <2> QED BY <1>1, <1>4, <1>5, <1>6, <2>1, EdgeFields
<1>8. p = 0 => d = 1
  <2>1. d \in 0..F /\ 1 \in 0..F
    OBVIOUS
  <2> QED BY <1>1, <1>2, <1>7, <2>1, OneCut
<1>9. p = L - 2 => d = F - 2
  <2>1. d + 1 \in 0..F /\ F - 1 \in 0..F
    OBVIOUS
  <2>2. p = L - 2 => Cut(t, d + 1) = Cut(t, F - 1)
    BY <1>2, <1>4, <1>7
  <2>3. p = L - 2 => d + 1 = F - 1
    BY <1>1, <2>1, <2>2, OneCut
  <2> QED BY <2>3
<1>10. PICK h \in Nat, n \in Nat : /\ h = IF p = 0 THEN 0 ELSE d
                                   /\ n = IF p = L - 2 THEN 0 ELSE F - 1 - d
  <2>1. d \in Nat /\ 0 \in Nat /\ F - 1 - d \in Nat
    OBVIOUS
  <2> QED BY <2>1
<1>11. AtLeastOne(h) = d /\ F = d + 1 + AtLeastOne(n)
  BY <1>8, <1>9, <1>10 DEF AtLeastOne
<1>12. ASSUME NEW k \in 0..(F - 1)
       PROVE  Pitch(t, k) >= 2 <=> k \in Blocks(h, d + 1, n)
  <2>1. Pitch(t, k) \in Nat \ {0}
    BY <1>1, Pitches
  <2>2. CASE k = 0
    <3>1. k \in Blocks(h, d + 1, n) <=> p # 0
      BY <1>10, <2>2 DEF Blocks
    <3> QED BY <1>7, <2>1, <2>2, <3>1
  <2>3. CASE k = F - 1
    <3>1. k \in Blocks(h, d + 1, n) <=> p # L - 2
      BY <1>10, <2>3 DEF Blocks
    <3> QED BY <1>7, <2>1, <2>3, <3>1
  <2>4. CASE k \in 1..(F - 2)
    <3>1. Pitch(t, k) = 1 <=> Cut(t, k) = p
      BY <1>1, <2>4, EmptyInside
    <3>2. Cut(t, k) = p <=> k = d
      <4>1. k \in 0..F /\ d \in 0..F
        OBVIOUS
      <4> QED BY <1>1, <1>2, <4>1, OneCut
    <3>3. k \in Blocks(h, d + 1, n) <=> k # d
      BY <1>8, <1>9, <1>10, <2>4 DEF Blocks
    <3> QED BY <2>1, <3>1, <3>2, <3>3
  <2> QED BY <2>2, <2>3, <2>4
<1>13. /\ p = 0 <=> h = 0
       /\ p = L - 2 <=> n = 0
  BY <1>10
<1>14. RankIn(ColonsOf(t), p) = d - 1
  <2>1. RankIn(ColonsOf(t), p) \in Int
    BY <1>3, Cuts
  <2> QED BY <1>2, <2>1
<1>15. GapShape(t, p, h, n)
  BY <1>1, <1>2, <1>4, <1>11, <1>12, <1>13, <1>14 DEF GapShape
<1> QED BY <1>15

LEMMA GapShapeIsGroups ==
  ASSUME NEW t \in Seq(Byte), NEW p, NEW h \in Nat, NEW n \in Nat,
         GapShape(t, p, h, n), h + n <= 7, HexElsewhere(t),
         \A k \in 0..(Fields(t) - 1) :
           k \in Blocks(h, AtLeastOne(h) + 1, n) => Pitch(t, k) <= 5
  PROVE  GroupsAround(t, h, n)
<1>1. ASSUME NEW k \in 0..(Fields(t) - 1)
      PROVE  Pitch(t, k) \in IF k \in Blocks(h, AtLeastOne(h) + 1, n) THEN 2..5 ELSE {1}
  <2>1. Pitch(t, k) \in Nat \ {0}
    BY Pitches
  <2>2. Pitch(t, k) >= 2 <=> k \in Blocks(h, AtLeastOne(h) + 1, n)
    BY DEF GapShape
  <2>3. CASE k \in Blocks(h, AtLeastOne(h) + 1, n)
    BY <2>1, <2>2, <2>3
  <2>4. CASE k \notin Blocks(h, AtLeastOne(h) + 1, n)
    BY <2>1, <2>2, <2>4
  <2> QED BY <2>3, <2>4
<1>2. Fields(t) = AtLeastOne(h) + 1 + AtLeastOne(n)
  BY DEF GapShape
<1> QED BY <1>1, <1>2 DEF GroupsAround

\* The other way round: the text has one double colon, and is no longer than the
\* texts both SIMD parsers take.
LEMMA GroupsHaveGapShape ==
  ASSUME NEW t \in Seq(Byte), NEW h \in Nat, NEW n \in Nat, GroupsAround(t, h, n)
  PROVE  \E p \in Nat : /\ DoublesOf(t) = {p} /\ NoLoneEdge(t) /\ GapShape(t, p, h, n)
                       /\ Fields(t) \in 3..9 /\ Len(t) \in 2..44
                       /\ \A k \in 0..(Fields(t) - 1) : Pitch(t, k) <= 5
<1>1. PICK d \in 1..7, e \in 1..7 : d = AtLeastOne(h) /\ e = AtLeastOne(n)
  BY DEF GroupsAround, AtLeastOne
<1>2. PICK F \in 3..9 : F = Fields(t) /\ F = d + 1 + e
  BY <1>1 DEF GroupsAround, AtLeastOne
<1>3. ASSUME NEW k \in 0..(F - 1)
      PROVE  /\ Pitch(t, k) \in 1..5
             /\ Pitch(t, k) = 1 <=> k \notin Blocks(h, d + 1, n)
             /\ Pitch(t, k) >= 2 <=> k \in Blocks(h, d + 1, n)
  <2>1. Pitch(t, k) \in IF k \in Blocks(h, d + 1, n) THEN 2..5 ELSE {1}
    BY <1>1, <1>2 DEF GroupsAround
  <2>2. CASE k \in Blocks(h, d + 1, n)
    BY <2>1, <2>2
  <2>3. CASE k \notin Blocks(h, d + 1, n)
    BY <2>1, <2>3
  <2> QED BY <2>2, <2>3
<1>4. /\ 0 \in Blocks(h, d + 1, n) <=> h # 0
      /\ F - 1 \in Blocks(h, d + 1, n) <=> n # 0
      /\ \A k \in 1..(F - 2) : k \in Blocks(h, d + 1, n) <=> k # d
  BY <1>1, <1>2 DEF Blocks, AtLeastOne
<1>5. d \in 1..(F - 2) /\ d \in 0..(F - 1) /\ 0 \in 0..(F - 1) /\ F - 1 \in 0..(F - 1)
  BY <1>2
<1>6. PICK p : p = Cut(t, d)
  OBVIOUS
<1>7. Pitch(t, d) = 1
  BY <1>3, <1>4, <1>5
<1>8. p \in DoublesOf(t) /\ p \in Nat
  <2>1. p \in DoublesOf(t)
    BY <1>2, <1>5, <1>6, <1>7, EmptyInside
  <2> QED BY <2>1, SeparatorFacts DEF DoublesOf
<1>9. Cut(t, d + 1) = p + 1
  BY <1>2, <1>5, <1>6, <1>7, Pitches
<1>10. \A q \in DoublesOf(t) : q = p
  <2> SUFFICES ASSUME NEW q \in DoublesOf(t) PROVE q = p
    OBVIOUS
  <2>1. PICK k \in 1..(F - 2) : Cut(t, k) = q /\ Pitch(t, k) = 1
    <3>1. \E k \in 1..(Fields(t) - 2) :
            /\ k = RankIn(ColonsOf(t), q) + 1 /\ Cut(t, k) = q /\ Cut(t, k + 1) = q + 1
            /\ Pitch(t, k) = 1
      BY DoubleInside
    <3> QED BY <1>2, <3>1
  <2>2. k \in 0..(F - 1)
    OBVIOUS
  <2>3. k = d
    BY <1>3, <1>4, <2>1, <2>2
  <2> QED BY <1>6, <2>1, <2>3
<1>11. DoublesOf(t) = {p}
  BY <1>8, <1>10
<1>12. PICK L \in Nat : L = Len(t) /\ p + 1 <= L - 1
  <2>1. p + 1 \in ColonsOf(t)
    BY <1>8 DEF DoublesOf
  <2> QED BY <1>8, <2>1, TextBytes, SeparatorFacts
<1>13. /\ 0 \in ColonsOf(t) <=> h = 0
       /\ 0 \in ColonsOf(t) => Cut(t, 1) = 0
       /\ L - 1 \in ColonsOf(t) <=> n = 0
       /\ L - 1 \in ColonsOf(t) => Cut(t, F - 1) = L - 1
  <2>1. Fields(t) >= 2
    BY <1>2
  <2>2. /\ Pitch(t, 0) = 1 <=> h = 0
        /\ Pitch(t, F - 1) = 1 <=> n = 0
    BY <1>3, <1>4, <1>5
  <2> QED BY <1>2, <1>12, <2>1, <2>2, EdgeFields
<1>14. p = 0 <=> h = 0
  <2>1. p = 0 => h = 0
    BY <1>8, <1>13 DEF DoublesOf
  <2>2. h = 0 => d = 1
    BY <1>1 DEF AtLeastOne
  <2> QED BY <1>6, <1>13, <2>1, <2>2
<1>15. p = L - 2 <=> n = 0
  <2>1. ASSUME p = L - 2 PROVE n = 0
    <3>1. p + 1 = L - 1
      BY <2>1
    <3> QED BY <1>8, <1>13, <3>1 DEF DoublesOf
  <2>2. ASSUME n = 0 PROVE p = L - 2
    <3>1. d + 1 = F - 1
      BY <1>1, <1>2, <2>2 DEF AtLeastOne
    <3>2. Cut(t, d + 1) = L - 1
      BY <1>13, <2>2, <3>1
    <3> QED BY <1>8, <1>9, <3>2
  <2> QED BY <2>1, <2>2
<1>16. NoLoneEdge(t)
  BY <1>11, <1>12, <1>13, <1>14, <1>15 DEF NoLoneEdge
<1>17. RankIn(ColonsOf(t), p) = d - 1
  <2>1. PICK k \in 1..(F - 2) : k = RankIn(ColonsOf(t), p) + 1 /\ Cut(t, k) = p
    BY <1>2, <1>8, DoubleInside
  <2>2. k = d
    <3>1. k \in 0..F /\ d \in 0..F
      BY <1>5
    <3> QED BY <1>2, <1>6, <2>1, <3>1, OneCut
  <2>3. RankIn(ColonsOf(t), p) \in Int
    BY <1>8, Cuts DEF DoublesOf
  <2> QED BY <2>1, <2>2, <2>3
<1>18. GapShape(t, p, h, n)
  BY <1>1, <1>2, <1>3, <1>6, <1>9, <1>12, <1>14, <1>15, <1>17 DEF GapShape
<1>19. \A k \in 0..(Fields(t) - 1) : Pitch(t, k) <= 5
  BY <1>2, <1>3
<1>20. Len(t) \in 2..44
  <2>1. Len(t) \in 0..44
    <3>1. Fields(t) \in 1..9
      BY <1>2
    <3> QED BY <1>19, <3>1, FewFieldsAreShort
  <2>2. L >= 2
    BY ONLY L \in Nat, <1>8, <1>12
  <2>3. L \in 0..44
    BY <1>12, <2>1, Zenon
  <2>4. \A x \in 0..44 : x >= 2 => x \in 2..44
    BY ONLY TRUE
  <2> QED BY <1>12, <2>2, <2>3, <2>4, Zenon
<1> QED BY <1>2, <1>8, <1>11, <1>16, <1>18, <1>19, <1>20

\* A text of eight groups has no double colon.
LEMMA EightHaveNoGap ==
  ASSUME NEW t \in Seq(Byte), EightGroups(t)
  PROVE  /\ DoublesOf(t) = {} /\ Fields(t) = 8 /\ Len(t) \in 2..44
         /\ \A k \in 0..7 : Pitch(t, k) \in 2..5
<1>1. Fields(t) = 8 /\ \A k \in 0..7 : Pitch(t, k) \in 2..5
  BY DEF EightGroups
<1>2. DoublesOf(t) = {}
  <2> SUFFICES ASSUME NEW p \in DoublesOf(t) PROVE FALSE
    OBVIOUS
  <2>1. PICK k \in 1..6 : Pitch(t, k) = 1
    BY <1>1, DoubleInside
  <2> QED BY <1>1, <2>1
<1>3. Len(t) \in 0..44
  <2>1. Fields(t) \in 1..9 /\ \A k \in 0..(Fields(t) - 1) : Pitch(t, k) <= 5
    BY <1>1
  <2> QED BY <2>1, FewFieldsAreShort
<1>4. Len(t) >= 2
  <2>1. PICK a \in Int, b \in Int : a = Cut(t, 0) /\ b = Cut(t, 8) /\ a = -1 /\ b = Len(t)
    BY <1>1, Cuts
  <2>2. Cut(t, 1) = Cut(t, 0) + Pitch(t, 0) /\ Cut(t, 2) = Cut(t, 1) + Pitch(t, 1)
    BY <1>1, Pitches
  <2>3. Cut(t, 2) < Cut(t, 8)
    BY <1>1, Cuts
  <2>4. PICK x \in 2..5, y \in 2..5 : x = Pitch(t, 0) /\ y = Pitch(t, 1)
    BY <1>1
  <2> QED BY <2>1, <2>2, <2>3, <2>4
<1>5. PICK L \in 0..44 : L = Len(t) /\ L >= 2
  BY <1>3, <1>4
<1>6. \A x \in 0..44 : x >= 2 => x \in 2..44
  BY ONLY TRUE
<1>7. Len(t) \in 2..44
  BY <1>5, <1>6, Zenon
<1> QED BY <1>1, <1>2, <1>7, Zenon

----------------------------------------------------------------------------
(* The addresses of GroupText.                                             *)

LEMMA GroupMeanings ==
  ASSUME NEW t
  PROVE  /\ EightGroups(t) => EightBytes(t) \in GroupMeaning(t)
         /\ \A h, n \in Nat : GroupsAround(t, h, n) => GapBytes(t, h, n) \in GroupMeaning(t)
         /\ \A a \in GroupMeaning(t) :
              \/ EightGroups(t) /\ a = EightBytes(t)
              \/ \E h, n \in Nat : GroupsAround(t, h, n) /\ a = GapBytes(t, h, n)
<1>1. ASSUME NEW h \in Nat, NEW n \in Nat, GroupsAround(t, h, n)
      PROVE  GapBytes(t, h, n) \in GroupMeaning(t)
  <2>1. PICK x \in 0..7, y \in 0..7 : x = h /\ y = n
    BY <1>1 DEF GroupsAround
  <2>2. PICK s : s = <<x, y>>
    OBVIOUS
  <2>3. s \in (0..7) \X (0..7) /\ s[1] = h /\ s[2] = n
    BY <2>1, <2>2
  <2>4. GroupsAround(t, s[1], s[2]) /\ GapBytes(t, h, n) = GapBytes(t, s[1], s[2])
    BY <1>1, <2>3
  <2> QED BY <2>3, <2>4 DEF GroupMeaning
<1>2. ASSUME NEW a \in GroupMeaning(t)
      PROVE  \/ EightGroups(t) /\ a = EightBytes(t)
             \/ \E h, n \in Nat : GroupsAround(t, h, n) /\ a = GapBytes(t, h, n)
  <2>1. CASE EightGroups(t) /\ a = EightBytes(t)
    BY <2>1
  <2>2. CASE \E s \in (0..7) \X (0..7) :
               GroupsAround(t, s[1], s[2]) /\ a = GapBytes(t, s[1], s[2])
    <3>1. PICK s \in (0..7) \X (0..7) :
            GroupsAround(t, s[1], s[2]) /\ a = GapBytes(t, s[1], s[2])
      BY <2>2
    <3>2. s[1] \in Nat /\ s[2] \in Nat
      OBVIOUS
    <3> QED BY <3>1, <3>2
  <2> QED BY <2>1, <2>2 DEF GroupMeaning
<1>3. EightGroups(t) => EightBytes(t) \in GroupMeaning(t)
  BY DEF GroupMeaning
<1> QED BY <1>1, <1>2, <1>3

\* A text has at most one address: where "::" is tells how many groups are on
\* either side.
LEMMA OneMeaning ==
  ASSUME NEW t \in Seq(Byte), NEW a \in GroupMeaning(t), NEW b \in GroupMeaning(t)
  PROVE  a = b
<1>1. ASSUME EightGroups(t), NEW h \in Nat, NEW n \in Nat, GroupsAround(t, h, n)
      PROVE  FALSE
  <2>1. DoublesOf(t) = {}
    BY <1>1, EightHaveNoGap
  <2>2. \E p \in Nat : DoublesOf(t) = {p}
    BY <1>1, GroupsHaveGapShape
  <2> QED BY <2>1, <2>2
<1>2. ASSUME NEW h \in Nat, NEW n \in Nat, GroupsAround(t, h, n),
             NEW i \in Nat, NEW m \in Nat, GroupsAround(t, i, m)
      PROVE  h = i /\ n = m
  <2>1. PICK p \in Nat : DoublesOf(t) = {p} /\ GapShape(t, p, h, n)
    BY <1>2, GroupsHaveGapShape
  <2>2. PICK q \in Nat : DoublesOf(t) = {q} /\ GapShape(t, q, i, m)
    BY <1>2, GroupsHaveGapShape
  <2>3. p = q
    BY <2>1, <2>2
  <2>4. /\ Cut(t, AtLeastOne(h)) = p /\ Cut(t, AtLeastOne(i)) = p
        /\ h = 0 <=> i = 0
        /\ n = 0 <=> m = 0
        /\ Fields(t) = AtLeastOne(h) + 1 + AtLeastOne(n)
        /\ Fields(t) = AtLeastOne(i) + 1 + AtLeastOne(m)
    BY <2>1, <2>2, <2>3 DEF GapShape
  <2>5. AtLeastOne(h) = AtLeastOne(i)
    <3>1. PICK x, y, z, w \in Nat : /\ x = AtLeastOne(h) /\ y = AtLeastOne(i)
                                    /\ z = AtLeastOne(n) /\ w = AtLeastOne(m)
      BY DEF AtLeastOne
    <3>2. PICK F : F = Fields(t) /\ F = x + 1 + z /\ F = y + 1 + w
      BY <2>4, <3>1
    <3>3. x \in 0..F /\ y \in 0..F
      BY <3>2
    <3>4. Cut(t, x) = Cut(t, y)
      BY <2>4, <3>1
    <3> QED BY <3>1, <3>2, <3>3, <3>4, OneCut
  <2>6. h = i
    BY <2>4, <2>5 DEF AtLeastOne
  <2>7. n = m
    BY <2>4, <2>6 DEF AtLeastOne
  <2> QED BY <2>6, <2>7
<1>3. \/ EightGroups(t) /\ a = EightBytes(t)
      \/ \E h, n \in Nat : GroupsAround(t, h, n) /\ a = GapBytes(t, h, n)
  BY GroupMeanings
<1>4. \/ EightGroups(t) /\ b = EightBytes(t)
      \/ \E h, n \in Nat : GroupsAround(t, h, n) /\ b = GapBytes(t, h, n)
  BY GroupMeanings
<1> QED BY <1>1, <1>2, <1>3, <1>4

LEMMA HexIsDotless ==
  ASSUME NEW t, HexElsewhere(t)
  PROVE  ~Dotted(t)
<1> SUFFICES ASSUME NEW i \in Places(t), At(t, i) = Dot PROVE FALSE
  BY DEF Dotted
<1>1. i \notin ColonsOf(t)
  BY DEF ColonsOf, Dot, Colon
<1>2. IsHexDigit(Dot)
  BY <1>1 DEF HexElsewhere
<1> QED BY <1>2 DEF IsHexDigit, IsDigit, Dot

\* The digits of a field are four bits each: digit k comes from place i, zero when
\* that is before the field.
DigitRead(t, lo, hi, k, i) ==
  /\ DigitIn(t, lo, hi, k) \in 0..15
  /\ i > lo => /\ i \in Places(t) \ ColonsOf(t)
              /\ DigitIn(t, lo, hi, k) = HexToBinary(At(t, i))
  /\ ~ (i > lo) => DigitIn(t, lo, hi, k) = 0

LEMMA DigitIsNibble ==
  ASSUME NEW t \in Seq(Byte), HexElsewhere(t), NEW lo, NEW hi, Between(t, lo, hi),
         NEW k \in 0..3, NEW i, i = hi - 4 + k
  PROVE  DigitRead(t, lo, hi, k, i)
<1>1. PICK L \in Nat : L = Len(t)
  BY TextBytes
<1>2. lo \in -1..L /\ hi \in 0..L /\ lo < hi
  BY <1>1 DEF Between
<1>3. i \in Int
  BY <1>2
<1>4. DigitIn(t, lo, hi, k) = IF i > lo THEN HexToBinary(At(t, i)) ELSE 0
  BY DEF DigitIn
<1>5. ASSUME i > lo
      PROVE  i \in Places(t) \ ColonsOf(t) /\ HexToBinary(At(t, i)) \in 0..15
  <2>1. i \in 0..(L - 1) /\ lo < i /\ i < hi
    BY <1>2, <1>3, <1>5
  <2>2. i \in Places(t) \ ColonsOf(t)
    BY <1>1, <2>1 DEF Places, Between
  <2>3. IsHexDigit(At(t, i)) /\ At(t, i) \in Byte
    BY <2>2, TextBytes DEF HexElsewhere
  <2> QED BY <2>2, <2>3, HexDigitValue
<1> QED BY <1>3, <1>4, <1>5 DEF DigitRead

\* The indices of a gather wrap around 256 and come back: index i of -4..63.
LEMMA IndexIsExact ==
  ASSUME NEW i \in -4..63
  PROVE  /\ Signed(Low8(i)) = i
         /\ i >= 0 => Low8(i) = i /\ Low8(i) % 64 = i
BY DEF Signed, Low8

\* Byte o of slot g is byte 2 * g + o.
LEMMA SlotOfByte ==
  ASSUME NEW b \in 0..15
  PROVE  \E g \in 0..7, o \in 0..1 : b = 2 * g + o /\ b \div 2 = g /\ b % 2 = o
OBVIOUS

----------------------------------------------------------------------------
(* The two blocks of lanes that hold the groups around "::".               *)

\* The first h of the eight slots and the last n hold the bytes of v up to h and
\* from d + 1 on, and the slots between those of src.
SlotsHold(x, v, src, h, n, d) ==
  \A i \in 0..7 : x[i] = IF i < h THEN v[i]
                        ELSE IF i >= 8 - n THEN v[d + 1 + i - (8 - n)] ELSE src[i]

LEMMA SlotLanes ==
  ASSUME NEW h \in 0..7, NEW n \in 0..7, h + n <= 7, NEW d \in h..9, NEW v, NEW src
  PROVE  SlotsHold(ExpandInto(src, CompressLanes(v, Blocks(h, d + 1, n)), Blocks(h, 8 - n, n)),
                   v, src, h, n, d)
<1>1. PICK b \in Nat, e \in Nat : b = d + 1 /\ e = 8 - n /\ h <= b /\ h <= e
  OBVIOUS
<1>2. PICK kept, slots : kept = Blocks(h, b, n) /\ slots = Blocks(h, e, n)
  OBVIOUS
<1>3. /\ kept \in SUBSET Nat /\ IsFiniteSet(kept)
      /\ \A k \in 0..(h - 1) : RankIn(kept, k) = k
      /\ \A k \in 0..(n - 1) : RankIn(kept, b + k) = h + k
  <2>1. h \in Nat /\ n \in Nat /\ b \in Nat /\ h <= b
    BY <1>1
  <2>2. Ranked(h, b, n)
    BY <2>1, BlocksRanks
  <2>3. IsFiniteSet(Blocks(h, b, n))
    BY <2>1, BlocksCount
  <2> QED BY <1>2, <2>2, <2>3 DEF Ranked
<1>4. /\ \A k \in 0..(h - 1) : RankIn(slots, k) = k
      /\ \A k \in 0..(n - 1) : RankIn(slots, e + k) = h + k
  <2>1. h \in Nat /\ n \in Nat /\ e \in Nat /\ h <= e
    BY <1>1
  <2>2. Ranked(h, e, n)
    BY <2>1, BlocksRanks
  <2> QED BY <1>2, <2>2 DEF Ranked
<1>5. PICK c : c = CompressLanes(v, kept)
  OBVIOUS
<1>6. /\ \A k \in 0..(h - 1) : c[k] = v[k]
      /\ \A k \in 0..(n - 1) : c[h + k] = v[b + k]
  <2>1. ASSUME NEW k \in 0..(h - 1) PROVE c[k] = v[k]
    <3>1. k \in kept /\ k <= 15
      BY <1>2 DEF Blocks
    <3>2. RankIn(kept, k) = k
      BY <1>3
    <3> QED BY <1>3, <1>5, <3>1, <3>2, CompressFacts
  <2>2. ASSUME NEW k \in 0..(n - 1) PROVE c[h + k] = v[b + k]
    <3>1. PICK i \in Nat : i = b + k
      BY <1>1
    <3>2. i \in kept
      BY <1>2, <3>1 DEF Blocks
    <3>3. RankIn(kept, i) = h + k
      BY <1>3, <3>1
    <3>4. h + k <= 15
      OBVIOUS
    <3> QED BY <1>3, <1>5, <3>1, <3>2, <3>3, <3>4, CompressFacts
  <2> QED BY <2>1, <2>2
<1>7. ASSUME NEW i \in 0..7
      PROVE  ExpandInto(src, c, slots)[i]
        = IF i < h THEN v[i] ELSE IF i >= 8 - n THEN v[d + 1 + i - (8 - n)] ELSE src[i]
  <2>1. ExpandInto(src, c, slots)[i] = IF i \in slots THEN c[RankIn(slots, i)] ELSE src[i]
    BY DEF ExpandInto
  <2>2. CASE i < h
    <3>1. i \in slots /\ i \in 0..(h - 1)
      BY <1>2, <2>2 DEF Blocks
    <3> QED BY <1>4, <1>6, <2>1, <2>2, <3>1
  <2>3. CASE i >= 8 - n
    <3>1. PICK k \in 0..(n - 1) : i = e + k
      BY <1>1, <2>3
    <3>2. i \in slots /\ ~ (i < h)
      BY <1>2, <2>3, <3>1 DEF Blocks
    <3>3. RankIn(slots, i) = h + k /\ c[h + k] = v[b + k]
      BY <1>4, <1>6, <3>1
    <3>4. b + k = d + 1 + i - (8 - n)
      BY <1>1, <3>1
    <3> QED BY <2>1, <2>3, <3>2, <3>3, <3>4
  <2>4. CASE ~ (i < h) /\ ~ (i >= 8 - n)
    <3>1. i \notin slots
      BY <1>1, <1>2, <2>4 DEF Blocks
    <3> QED BY <2>1, <2>4, <3>1
  <2> QED BY <2>2, <2>3, <2>4
<1>8. SlotsHold(ExpandInto(src, c, slots), v, src, h, n, d)
  BY <1>7 DEF SlotsHold
<1> QED BY <1>1, <1>2, <1>5, <1>8

\* What 8 - h - n ones, shifted by h, leave of eight slots.
LEMMA SlotBlocks ==
  ASSUME NEW h \in Nat, NEW n \in Nat, h + n <= 7
  PROVE  (0..7) \ {h + i : i \in 0..(8 - (h + n) - 1)} = Blocks(h, 8 - n, n)
<1>1. {h + i : i \in 0..(8 - (h + n) - 1)} = h..(7 - n)
  <2>1. \A i \in 0..(8 - (h + n) - 1) : h + i \in h..(7 - n)
    OBVIOUS
  <2>2. \A j \in h..(7 - n) : j - h \in 0..(8 - (h + n) - 1) /\ j = h + (j - h)
    OBVIOUS
  <2> QED BY <2>1, <2>2
<1>2. (0..7) \ (h..(7 - n)) = Blocks(h, 8 - n, n)
  BY DEF Blocks
<1> QED BY <1>1, <1>2

\* A text of ten colons or more, only two of them neighbours, has eight fields that
\* are not empty among the first sixteen.
LEMMA ManyGroups ==
  ASSUME NEW t \in Seq(Byte), NEW p, DoublesOf(t) = {p}, Fields(t) >= 11,
         NEW kept \in SUBSET (0..15),
         \A k \in 1..9 : Pitch(t, k) >= 2 => k \in kept
  PROVE  Cardinality(kept) >= 8
<1>1. PICK F \in Nat : F = Fields(t) /\ F >= 11
  BY SeparatorFacts
<1>2. PICK d : \A k \in 1..9 : Cut(t, k) = p => k = d
  <2>1. \A k, l \in 1..9 : Cut(t, k) = p /\ Cut(t, l) = p => k = l
    <3>1. \A k \in 1..9 : k \in 0..F
      BY <1>1
    <3> QED BY <1>1, <3>1, OneCut
  <2>2. CASE \E k \in 1..9 : Cut(t, k) = p
    BY <2>1, <2>2
  <2>3. CASE ~ \E k \in 1..9 : Cut(t, k) = p
    BY <2>3
  <2> QED BY <2>2, <2>3
<1>3. ASSUME NEW k \in (1..9) \ {d} PROVE k \in kept
  <2>1. k \in 1..(F - 2) /\ k \in 0..(F - 1) /\ Cut(t, k) # p
    BY <1>1, <1>2
  <2>2. Pitch(t, k) # 1 /\ Pitch(t, k) \in Nat \ {0}
    BY <1>1, <2>1, EmptyInside, Pitches
  <2>3. Pitch(t, k) >= 2
    BY <2>2
  <2> QED BY <2>3
<1>4. IsFiniteSet(1..9) /\ Cardinality(1..9) = 9
  <2>1. 1 \in Int /\ 9 \in Int
    OBVIOUS
  <2>2. IsFiniteSet(1..9) /\ Cardinality(1..9) = IF 1 > 9 THEN 0 ELSE 9 - 1 + 1
    BY <2>1, FS_Interval
  <2> QED BY <2>2
<1>5. Cardinality((1..9) \ {d}) \in 8..9
  <2>1. CASE d \in 1..9
    <3>1. Cardinality((1..9) \ {d}) = Cardinality(1..9) - 1
      BY ONLY <1>4, <2>1, FS_RemoveElement
    <3> QED BY <1>4, <3>1
  <2>2. CASE d \notin 1..9
    <3>1. (1..9) \ {d} = 1..9
      BY <2>2
    <3>2. Cardinality((1..9) \ {d}) = 9
      BY <1>4, <3>1, Zenon
    <3> QED BY <3>2
  <2> QED BY <2>1, <2>2
<1>6. IsFiniteSet(kept)
  <2>1. 15 \in Nat
    OBVIOUS
  <2> QED BY <2>1, LanesAreFinite
<1>7. (1..9) \ {d} \in SUBSET kept
  BY <1>3
<1>8. Cardinality((1..9) \ {d}) <= Cardinality(kept) /\ Cardinality(kept) \in Nat
  BY <1>6, <1>7, FS_Subset, FS_CardinalityType
<1> QED BY <1>5, <1>8

\* A short text of which one colon only is followed by another has few colons.
LEMMA FewColons ==
  ASSUME NEW t \in Seq(Byte), Len(t) \in 2..45, NEW p, DoublesOf(t) = {p}
  PROVE  Fields(t) \in 2..24
<1> DEFINE M == ColonsOf(t)
           S == M \ {p}
           T == (0..45) \ M
           f == [i \in S |-> i + 1]
<1>0. PICK L \in 2..45 : L = Len(t)
  OBVIOUS
<1>1. M \in SUBSET (0..45) /\ p \in M /\ \A i \in M : i \in 0..(L - 1)
  <2>1. \A i \in M : i \in 0..(L - 1)
    BY <1>0, SeparatorFacts
  <2>2. \A i \in 0..(L - 1) : i \in 0..45
    BY ONLY L \in 2..45
  <2>3. p \in M
    BY DEF DoublesOf
  <2> HIDE DEF M
  <2> QED BY <2>1, <2>2, <2>3
<1>2. IsFiniteSet(0..45) /\ Cardinality(0..45) = 46
  <2>1. 0 \in Int /\ 45 \in Int
    OBVIOUS
  <2>2. IsFiniteSet(0..45) /\ Cardinality(0..45) = IF 0 > 45 THEN 0 ELSE 45 - 0 + 1
    BY <2>1, FS_Interval
  <2> QED BY <2>2
<1>n. \A i \in S : i + 1 \notin M
  BY DEF DoublesOf
<1>c. Cardinality(M) = Fields(t) - 1 /\ Fields(t) \in Nat
  BY SeparatorFacts
<1> HIDE DEF M
<1>3. IsFiniteSet(M) /\ IsFiniteSet(T) /\ Cardinality(M) \in Nat
      /\ Cardinality(T) \in Nat
  <2>1. T \in SUBSET (0..45)
    OBVIOUS
  <2> HIDE DEF T
  <2> QED BY <1>1, <1>2, <2>1, FS_Subset, FS_CardinalityType
<1>4. f \in [S -> T]
  <2>1. ASSUME NEW i \in S PROVE i + 1 \in T
    <3>1. i \in 0..(L - 1)
      BY <1>1
    <3>2. i + 1 \in 0..45
      BY ONLY L \in 2..45, <3>1
    <3> QED BY <1>n, <3>2
  <2> QED BY <2>1
<1>5. \A i, j \in S : f[i] = f[j] => i = j
  <2>1. \A i \in S : i \in Int /\ f[i] = i + 1
    BY <1>1
  <2> HIDE DEF f, S
  <2> QED BY <2>1
<1>6. f \in Injection(S, T)
  <2> HIDE DEF f, S, T
  <2> QED BY <1>4, <1>5, Fun_IsInj
<1>7. Cardinality(S) <= Cardinality(T)
  <2> HIDE DEF f, S, T
  <2> QED BY <1>3, <1>6, FS_Injection
<1>8. Cardinality(S) = Cardinality(M) - 1
  BY <1>1, <1>3, FS_RemoveElement
<1>9. Cardinality(T) + Cardinality(M) = 46
  <2>1. T \cup M = 0..45 /\ T \cap M = {}
    BY <1>1
  <2> HIDE DEF T
  <2>2. Cardinality(T \cap M) = 0
    BY <2>1, FS_EmptySet
  <2>3. Cardinality(T \cup M) = Cardinality(T) + Cardinality(M) - Cardinality(T \cap M)
    BY <1>3, FS_Union
  <2>4. Cardinality(T \cup M) = 46
    BY <1>2, <2>1
  <2> QED BY <1>3, <2>2, <2>3, <2>4
<1>10. Cardinality(M) # 0
  BY <1>1, <1>3, FS_EmptySet
<1> HIDE DEF S, T
<1>11. PICK c \in Nat, e \in Nat : c = Cardinality(M) /\ e = Cardinality(T)
  BY <1>3
<1>12. c - 1 <= e /\ e + c = 46 /\ c # 0
  BY <1>7, <1>8, <1>9, <1>10, <1>11
<1>13. c + 1 \in 2..24
  BY ONLY <1>12, c \in Nat, e \in Nat
<1>14. PICK F \in Nat : F = Fields(t) /\ c = F - 1
  BY <1>c, <1>11
<1>15. F = c + 1
  <2>1. c = F - 1
    BY <1>14
  <2> QED BY ONLY <2>1, F \in Nat, c \in Nat
<1> QED BY <1>13, <1>14, <1>15

----------------------------------------------------------------------------
(* The fields of a text as groups, and the value of the digits of one.     *)

\* Field k is a group of one to four hexadecimal digits.
IsGroup(t, k) ==
  /\ Pitch(t, k) \in 2..5
  /\ \A i \in Places(t) : Cut(t, k) < i /\ i < Cut(t, k + 1) => IsHexDigit(At(t, i))

\* What stands around field k.
LEMMA FieldCuts ==
  ASSUME NEW t \in Seq(Byte), NEW k \in Nat, k < Fields(t)
  PROVE  /\ Cut(t, k) \in -1..Len(t) /\ Cut(t, k + 1) \in 0..Len(t)
         /\ Cut(t, k) < Cut(t, k + 1) /\ Pitch(t, k) = Cut(t, k + 1) - Cut(t, k)
         /\ Cut(t, k + 1) = Len(t) \/ Cut(t, k + 1) \in ColonsOf(t)
         /\ \A i \in Int : Cut(t, k) < i /\ i < Cut(t, k + 1) => i \in Places(t) \ ColonsOf(t)
<1>1. PICK F \in Nat \ {0} : F = Fields(t)
  BY Cuts
<1>2. k \in 0..(F - 1) /\ (k + 1 = F \/ k + 1 \in 1..(F - 1))
  BY ONLY k \in Nat, F \in Nat \ {0}, k < Fields(t), <1>1
<1>3. Between(t, Cut(t, k), Cut(t, k + 1))
  BY <1>1, <1>2, Cuts, Zenon
<1>4. Cut(t, k + 1) = Len(t) \/ Cut(t, k + 1) \in ColonsOf(t)
  BY <1>1, <1>2, Cuts, Zenon
<1>5. PICK L \in Nat : L = Len(t)
  BY TextBytes
<1>6. PICK a \in -1..L, b \in 0..L : /\ a = Cut(t, k) /\ b = Cut(t, k + 1) /\ a < b
                                    /\ \A i \in ColonsOf(t) : ~ (a < i /\ i < b)
  BY <1>3, <1>5 DEF Between
<1>7. ASSUME NEW i \in Int, a < i, i < b PROVE i \in Places(t) \ ColonsOf(t)
  <2>1. i \in 0..(L - 1)
    BY ONLY <1>7, L \in Nat, a \in -1..L, b \in 0..L
  <2> QED BY <1>5, <1>6, <1>7, <2>1 DEF Places
<1> QED BY <1>4, <1>5, <1>6, <1>7 DEF Pitch

\* A place that holds no colon is inside a field.
LEMMA PlaceHasField ==
  ASSUME NEW t \in Seq(Byte), NEW i \in Places(t) \ ColonsOf(t)
  PROVE  \E k \in Nat : k < Fields(t) /\ Cut(t, k) < i /\ i < Cut(t, k + 1)
<1>1. PICK L \in Nat : L = Len(t)
  BY TextBytes
<1>2. i \in 0..(L - 1)
  BY <1>1, TextBytes
<1>3. PICK F \in Nat \ {0} : F = Fields(t)
  BY Cuts
<1>4. /\ Cut(t, 0) = -1 /\ Cut(t, F) = L
      /\ \A g \in 0..F : Cut(t, g) \in -1..L
      /\ \A g \in 1..(F - 1) : Cut(t, g) \in ColonsOf(t)
  BY <1>1, <1>3, Cuts, Zenon
<1>5. PICK T : T = {g \in 0..F : Cut(t, g) < i}
  OBVIOUS
<1>6. T \subseteq 0..F /\ T # {}
  <2>1. 0 \in 0..F /\ -1 < i
    BY <1>2, <1>3
  <2> QED BY <1>4, <1>5, <2>1
<1>7. PICK k \in T : \A g \in T : g <= k
  BY <1>3, <1>6, GreatestNumber
<1>8. k \in 0..F /\ Cut(t, k) < i
  BY <1>5, <1>7
<1>9. k # F
  BY <1>2, <1>4, <1>8
<1>10. k + 1 \in 0..F /\ k + 1 \notin T /\ k \in Nat /\ k < F
  BY <1>3, <1>7, <1>8, <1>9
<1>11. ~ (Cut(t, k + 1) < i)
  BY <1>5, <1>10
<1>12. Cut(t, k + 1) # i
  <2>1. k + 1 = F \/ k + 1 \in 1..(F - 1)
    BY ONLY <1>10, F \in Nat \ {0}
  <2>2. CASE k + 1 = F
    BY <1>2, <1>4, <2>2
  <2>3. CASE k + 1 \in 1..(F - 1)
    BY <1>4, <2>3
  <2> QED BY <2>1, <2>2, <2>3
<1>13. Cut(t, k + 1) \in -1..L
  BY <1>4, <1>10
<1>14. i < Cut(t, k + 1)
  BY ONLY <1>2, <1>11, <1>12, <1>13, L \in Nat
<1> QED BY <1>3, <1>8, <1>10, <1>14

\* A text of groups and empty fields is hexadecimal.
LEMMA FieldsAreHex ==
  ASSUME NEW t \in Seq(Byte), \A k \in 0..(Fields(t) - 1) : Pitch(t, k) = 1 \/ IsGroup(t, k)
  PROVE  HexElsewhere(t)
<1> SUFFICES ASSUME NEW i \in Places(t) \ ColonsOf(t) PROVE IsHexDigit(At(t, i))
  BY DEF HexElsewhere
<1>1. PICK k \in Nat : k < Fields(t) /\ Cut(t, k) < i /\ i < Cut(t, k + 1)
  BY PlaceHasField
<1>2. PICK F \in Nat \ {0} : F = Fields(t)
  BY Cuts
<1>3. k \in 0..(F - 1)
  BY <1>1, <1>2
<1>4. i \in Int /\ Cut(t, k) \in Int /\ Cut(t, k + 1) \in Int
  <2>1. i \in 0..(Len(t) - 1) /\ Len(t) \in Nat
    BY TextBytes
  <2>2. Cut(t, k) \in -1..Len(t) /\ Cut(t, k + 1) \in 0..Len(t)
    BY <1>1, FieldCuts
  <2> QED BY ONLY <2>1, <2>2
<1>5. Pitch(t, k) # 1
  BY <1>1, <1>4 DEF Pitch
<1>6. IsGroup(t, k)
  BY <1>2, <1>3, <1>5
<1> QED BY <1>1, <1>6 DEF IsGroup

\* An address without a "::" is eight groups; one with it, groups around it.
LEMMA MeantGroups ==
  ASSUME NEW t \in Seq(Byte), GroupMeaning(t) # {}
  PROVE  /\ HexElsewhere(t) /\ Len(t) \in 2..44
         /\ DoublesOf(t) = {} => EightGroups(t)
         /\ \A p : DoublesOf(t) = {p} =>
              \E h, n \in Nat : GroupsAround(t, h, n) /\ GapShape(t, p, h, n)
         /\ DoublesOf(t) # {} => \E p : DoublesOf(t) = {p}
<1>1. EightGroups(t) \/ \E h, n \in Nat : GroupsAround(t, h, n)
  BY GroupMeanings
<1>2. CASE EightGroups(t)
  <2>1. DoublesOf(t) = {} /\ Len(t) \in 2..44
    BY <1>2, EightHaveNoGap
  <2> QED BY <1>2, <2>1 DEF EightGroups
<1>3. CASE \E h, n \in Nat : GroupsAround(t, h, n)
  <2>1. PICK h \in Nat, n \in Nat : GroupsAround(t, h, n)
    BY <1>3
  <2>2. PICK p \in Nat : DoublesOf(t) = {p} /\ GapShape(t, p, h, n) /\ Len(t) \in 2..44
    BY <2>1, GroupsHaveGapShape
  <2>3. HexElsewhere(t)
    BY <2>1 DEF GroupsAround
  <2>4. \A q : DoublesOf(t) = {q} => q = p
    BY <2>2
  <2> QED BY <2>1, <2>2, <2>3, <2>4
<1> QED BY <1>1, <1>2, <1>3

\* The value of n digits after place lo.
ValueOf(t, lo, n) ==
  LET x(i) == HexToBinary(At(t, lo + i))
  IN IF n = 0 THEN 0
     ELSE IF n = 1 THEN x(1)
     ELSE IF n = 2 THEN 16 * x(1) + x(2)
     ELSE IF n = 3 THEN 256 * x(1) + 16 * x(2) + x(3)
     ELSE 4096 * x(1) + 256 * x(2) + 16 * x(3) + x(4)

\* The digits after lo are hexadecimal.
HexAfter(t, lo, n) == \A i \in 1..n : IsHexDigit(At(t, lo + i)) /\ At(t, lo + i) \in Byte

LEMMA DigitsAfter ==
  ASSUME NEW t, NEW lo, NEW n \in 0..4, HexAfter(t, lo, n), NEW i \in 1..n
  PROVE  HexToBinary(At(t, lo + i)) \in 0..15
BY HexDigitValue DEF HexAfter

LEMMA NextDigit ==
  ASSUME NEW t, NEW lo, NEW n \in 0..3, HexAfter(t, lo, n + 1), NEW v, v = ValueOf(t, lo, n)
  PROVE  v * 16 + HexToBinary(At(t, lo + (n + 1))) = ValueOf(t, lo, n + 1)
<1>1. \A i \in 1..(n + 1) : HexToBinary(At(t, lo + i)) \in 0..15
  <2>1. n + 1 \in 0..4
    OBVIOUS
  <2> QED BY <2>1, DigitsAfter
<1>2. CASE n = 0
  BY <1>1, <1>2 DEF ValueOf
<1>3. CASE n = 1
  <2>1. PICK a \in 0..15, b \in 0..15 :
          a = HexToBinary(At(t, lo + 1)) /\ b = HexToBinary(At(t, lo + 2))
    BY <1>1, <1>3
  <2> QED BY <1>3, <2>1 DEF ValueOf
<1>4. CASE n = 2
  <2>1. PICK a \in 0..15, b \in 0..15, c \in 0..15 :
          /\ a = HexToBinary(At(t, lo + 1)) /\ b = HexToBinary(At(t, lo + 2))
          /\ c = HexToBinary(At(t, lo + 3))
    BY <1>1, <1>4
  <2> QED BY <1>4, <2>1 DEF ValueOf
<1>5. CASE n = 3
  <2>1. PICK a \in 0..15, b \in 0..15, c \in 0..15, d \in 0..15 :
          /\ a = HexToBinary(At(t, lo + 1)) /\ b = HexToBinary(At(t, lo + 2))
          /\ c = HexToBinary(At(t, lo + 3)) /\ d = HexToBinary(At(t, lo + 4))
    <3>1. 1 \in 1..(n + 1) /\ 2 \in 1..(n + 1) /\ 3 \in 1..(n + 1) /\ 4 \in 1..(n + 1)
      BY <1>5
    <3>2. /\ HexToBinary(At(t, lo + 1)) \in 0..15 /\ HexToBinary(At(t, lo + 2)) \in 0..15
          /\ HexToBinary(At(t, lo + 3)) \in 0..15 /\ HexToBinary(At(t, lo + 4)) \in 0..15
      BY <1>1, <3>1
    <3> QED BY <3>2
  <2> QED BY <1>5, <2>1 DEF ValueOf
<1> QED BY <1>2, <1>3, <1>4, <1>5

\* The value of a group is its two bytes.
LEMMA ValueIsGroup ==
  ASSUME NEW t, NEW lo \in Int, NEW n \in 1..4, HexAfter(t, lo, n), NEW hi, hi = lo + n + 1,
         NEW v, v = ValueOf(t, lo, n)
  PROVE  (v \div 256) % 256 = GroupByte(t, lo, hi, 0) /\ v % 256 = GroupByte(t, lo, hi, 1)
<1>1. \A i \in 1..n : HexToBinary(At(t, lo + i)) \in 0..15
  BY DigitsAfter
<1> DEFINE D(k) == DigitIn(t, lo, hi, k)
<1>2. \A k \in 0..3 : D(k) = IF n + k < 4 THEN 0
                                              ELSE HexToBinary(At(t, lo + (n + k - 3)))
  <2> SUFFICES ASSUME NEW k \in 0..3
               PROVE  D(k) = IF n + k < 4 THEN 0
                                              ELSE HexToBinary(At(t, lo + (n + k - 3)))
    OBVIOUS
  <2>1. hi - 4 + k = lo + (n + k - 3) /\ (lo + (n + k - 3) > lo <=> ~ (n + k < 4))
    OBVIOUS
  <2> QED BY <2>1 DEF DigitIn
<1>3. /\ GroupByte(t, lo, hi, 0) = 16 * D(0) + D(1)
      /\ GroupByte(t, lo, hi, 1) = 16 * D(2) + D(3)
  BY DEF GroupByte
<1> HIDE DEF D
<1>4. PICK a \in 0..15, b \in 0..15, c \in 0..15, d \in 0..15 :
        a = D(0) /\ b = D(1) /\ c = D(2) /\ d = D(3)
  <2>1. \A k \in 0..3 : D(k) \in 0..15
    <3> SUFFICES ASSUME NEW k \in 0..3 PROVE D(k) \in 0..15
      OBVIOUS
    <3>1. ~ (n + k < 4) => n + k - 3 \in 1..n
      OBVIOUS
    <3> QED BY <1>1, <1>2, <3>1
  <2>2. 0 \in 0..3 /\ 1 \in 0..3 /\ 2 \in 0..3 /\ 3 \in 0..3
    OBVIOUS
  <2> QED BY <2>1, <2>2
<1>5. v = 4096 * a + 256 * b + 16 * c + d
  <2>1. CASE n = 1
    <3>0. 1 \in 1..n
      BY <2>1
    <3>1. PICK w \in 0..15 :
            /\ w = HexToBinary(At(t, lo + 1))
      BY <1>1, <3>0
    <3>2. a = 0 /\ b = 0 /\ c = 0 /\ d = w
      BY <1>2, <1>4, <2>1, <3>1
    <3>3. v = w
      BY <2>1, <3>1 DEF ValueOf
    <3> QED BY ONLY <3>2, <3>3, w \in 0..15
  <2>2. CASE n = 2
    <3>0. 1 \in 1..n /\ 2 \in 1..n
      BY <2>2
    <3>1. PICK w \in 0..15, x \in 0..15 :
            /\ w = HexToBinary(At(t, lo + 1))
            /\ x = HexToBinary(At(t, lo + 2))
      BY <1>1, <3>0
    <3>2. a = 0 /\ b = 0 /\ c = w /\ d = x
      BY <1>2, <1>4, <2>2, <3>1
    <3>3. v = 16 * w + x
      BY <2>2, <3>1 DEF ValueOf
    <3> QED BY ONLY <3>2, <3>3, w \in 0..15, x \in 0..15
  <2>3. CASE n = 3
    <3>0. 1 \in 1..n /\ 2 \in 1..n /\ 3 \in 1..n
      BY <2>3
    <3>1. PICK w \in 0..15, x \in 0..15, y \in 0..15 :
            /\ w = HexToBinary(At(t, lo + 1))
            /\ x = HexToBinary(At(t, lo + 2))
            /\ y = HexToBinary(At(t, lo + 3))
      BY <1>1, <3>0
    <3>2. a = 0 /\ b = w /\ c = x /\ d = y
      BY <1>2, <1>4, <2>3, <3>1
    <3>3. v = 256 * w + 16 * x + y
      BY <2>3, <3>1 DEF ValueOf
    <3> QED BY ONLY <3>2, <3>3, w \in 0..15, x \in 0..15, y \in 0..15
  <2>4. CASE n = 4
    <3>0. 1 \in 1..n /\ 2 \in 1..n /\ 3 \in 1..n /\ 4 \in 1..n
      BY <2>4
    <3>1. PICK w \in 0..15, x \in 0..15, y \in 0..15, z \in 0..15 :
            /\ w = HexToBinary(At(t, lo + 1))
            /\ x = HexToBinary(At(t, lo + 2))
            /\ y = HexToBinary(At(t, lo + 3))
            /\ z = HexToBinary(At(t, lo + 4))
      BY <1>1, <3>0
    <3>2. a = w /\ b = x /\ c = y /\ d = z
      BY <1>2, <1>4, <2>4, <3>1
    <3>3. v = 4096 * w + 256 * x + 16 * y + z
      BY <2>4, <3>1 DEF ValueOf
    <3> QED BY ONLY <3>2, <3>3, w \in 0..15, x \in 0..15, y \in 0..15, z \in 0..15
  <2> QED BY <2>1, <2>2, <2>3, <2>4
<1>6. (v \div 256) % 256 = 16 * a + b /\ v % 256 = 16 * c + d
  <2>1. PICK x \in 0..255, y \in 0..255 : x = 16 * a + b /\ y = 16 * c + d
    <3>1. 16 * a + b \in 0..255 /\ 16 * c + d \in 0..255
      OBVIOUS
    <3> QED BY <3>1
  <2>2. v = 256 * x + y
    BY <1>5, <2>1
  <2>3. v \div 256 = x /\ v % 256 = y
    BY ONLY <2>2, x \in 0..255, y \in 0..255
  <2>4. x % 256 = x
    OBVIOUS
  <2> QED BY <2>1, <2>3, <2>4
<1>7. 16 * D(0) + D(1) = 16 * a + b /\ 16 * D(2) + D(3) = 16 * c + d
  BY <1>4
<1> QED BY <1>3, <1>6, <1>7, Zenon

\* A field of a hexadecimal text that is neither empty nor too long is a group.
LEMMA HexFieldIsGroup ==
  ASSUME NEW t \in Seq(Byte), HexElsewhere(t), NEW k \in Nat, k < Fields(t),
         Pitch(t, k) \in 2..5
  PROVE  IsGroup(t, k)
<1>1. ASSUME NEW i \in Places(t), Cut(t, k) < i, i < Cut(t, k + 1)
      PROVE  IsHexDigit(At(t, i))
  <2>1. i \in Int
    BY TextBytes
  <2>2. i \in Places(t) \ ColonsOf(t)
    BY <1>1, <2>1, FieldCuts
  <2> QED BY <2>2 DEF HexElsewhere
<1> QED BY <1>1 DEF IsGroup

\* Fields f to e - 1 are groups, or the only one of them is empty.
GroupsOrNone(t, f, e) ==
  \/ \A k \in f..(e - 1) : IsGroup(t, k)
  \/ e = f + 1 /\ Pitch(t, f) = 1

\* The pitches of groups around "::".
LEMMA PitchesAround ==
  ASSUME NEW t \in Seq(Byte), NEW h \in Nat, NEW n \in Nat, GroupsAround(t, h, n)
  PROVE  /\ GroupsOrNone(t, 0, AtLeastOne(h))
         /\ GroupsOrNone(t, AtLeastOne(h) + 1, Fields(t))
<1>1. PICK d \in 1..7, e \in 1..7 : d = AtLeastOne(h) /\ e = AtLeastOne(n)
  BY DEF GroupsAround, AtLeastOne
<1>2. h + n <= 7 /\ d = (IF h = 0 THEN 1 ELSE h) /\ e = (IF n = 0 THEN 1 ELSE n)
  BY <1>1 DEF GroupsAround, AtLeastOne
<1>3. Fields(t) = d + 1 + e /\ HexElsewhere(t)
  BY <1>1 DEF GroupsAround
<1>4. \A k \in 0..(d + e) :
        Pitch(t, k) \in IF k \in Blocks(h, d + 1, n) THEN 2..5 ELSE {1}
  <2>1. Fields(t) - 1 = d + e
    BY <1>3
  <2> QED BY <1>1, <2>1 DEF GroupsAround
<1>5. \A k \in 0..(d + e) : k \in Blocks(h, d + 1, n) => IsGroup(t, k)
  <2> SUFFICES ASSUME NEW k \in 0..(d + e), k \in Blocks(h, d + 1, n) PROVE IsGroup(t, k)
    OBVIOUS
  <2>1. k \in Nat /\ k < Fields(t)
    BY <1>3
  <2> QED BY <1>3, <1>4, <2>1, HexFieldIsGroup
<1>6. GroupsOrNone(t, 0, d)
  <2>1. CASE h = 0
    <3>1. 0 \in 0..(d + e) /\ 0 \notin Blocks(h, d + 1, n) /\ d = 0 + 1
      BY <1>2, <2>1 DEF Blocks
    <3> QED BY <1>4, <3>1 DEF GroupsOrNone
  <2>2. CASE h # 0
    <3>1. \A k \in 0..(d - 1) : k \in 0..(d + e) /\ k \in Blocks(h, d + 1, n)
      BY <1>2, <2>2 DEF Blocks
    <3> QED BY <1>5, <3>1 DEF GroupsOrNone
  <2> QED BY <2>1, <2>2
<1>7. GroupsOrNone(t, d + 1, d + 1 + e)
  <2>1. CASE n = 0
    <3>1. d + 1 \in 0..(d + e) /\ d + 1 \notin Blocks(h, d + 1, n) /\ d + 1 + e = d + 1 + 1
      BY <1>2, <2>1 DEF Blocks
    <3> QED BY <1>4, <3>1 DEF GroupsOrNone
  <2>2. CASE n # 0
    <3>1. \A k \in (d + 1)..(d + 1 + e - 1) : k \in 0..(d + e) /\ k \in Blocks(h, d + 1, n)
      BY <1>2, <2>2 DEF Blocks
    <3> QED BY <1>5, <3>1 DEF GroupsOrNone
  <2> QED BY <2>1, <2>2
<1> QED BY <1>1, <1>3, <1>6, <1>7

\* Cuts that follow each other without a byte between.
LEMMA NextCut ==
  ASSUME NEW t \in Seq(Byte), NEW k \in Nat, NEW e \in Nat, k < e, e <= Fields(t)
  PROVE  /\ Cut(t, k) \in Int /\ Cut(t, e) \in Int /\ Cut(t, k) < Cut(t, e)
         /\ Cut(t, k) + 1 = Cut(t, e) => e = k + 1 /\ Pitch(t, k) = 1
         /\ k + 1 < e => Cut(t, k + 1) \in Int /\ Cut(t, k + 1) < Cut(t, e)
<1>1. PICK F \in Nat \ {0} : F = Fields(t)
  BY Cuts
<1>2. PICK L \in Nat : L = Len(t)
  BY TextBytes
<1>3. k \in 0..F /\ e \in 0..F /\ k + 1 \in 0..F
  BY <1>1
<1>4. /\ \A g \in 0..F : Cut(t, g) \in -1..L
      /\ \A g, d \in 0..F : g < d => Cut(t, g) < Cut(t, d)
  BY <1>1, <1>2, Cuts
<1>5. Cut(t, k) \in Int /\ Cut(t, e) \in Int /\ Cut(t, k + 1) \in Int
  BY <1>3, <1>4
<1>6. Cut(t, k) < Cut(t, e) /\ Cut(t, k) < Cut(t, k + 1)
      /\ (k + 1 < e => Cut(t, k + 1) < Cut(t, e))
  BY <1>3, <1>4
<1>7. ASSUME Cut(t, k) + 1 = Cut(t, e) PROVE e = k + 1 /\ Pitch(t, k) = 1
  <2>1. ~ (k + 1 < e)
    BY <1>5, <1>6, <1>7
  <2>2. e = k + 1
    BY <2>1
  <2> QED BY <1>5, <1>7, <2>2 DEF Pitch
<1> QED BY <1>5, <1>6, <1>7

\* Groups that fill all the fields, and groups around a gap, are addresses.
LEMMA ReadIsEight ==
  ASSUME NEW t \in Seq(Byte), Fields(t) = 8, \A k \in 0..7 : IsGroup(t, k)
  PROVE  EightGroups(t)
<1>1. \A k \in 0..(Fields(t) - 1) : Pitch(t, k) = 1 \/ IsGroup(t, k)
  OBVIOUS
<1>2. HexElsewhere(t)
  BY <1>1, FieldsAreHex
<1> QED BY <1>2 DEF EightGroups, IsGroup

LEMMA ReadIsAround ==
  ASSUME NEW t \in Seq(Byte), NEW h \in Nat, NEW n \in Nat, h + n <= 7,
         NEW d \in Nat, d = AtLeastOne(h), Fields(t) = d + 1 + AtLeastOne(n),
         h = 0 => Pitch(t, 0) = 1, Pitch(t, d) = 1, n = 0 => Pitch(t, d + 1) = 1,
         \A j \in 0..(h - 1) : IsGroup(t, j), \A j \in 0..(n - 1) : IsGroup(t, d + 1 + j)
  PROVE  GroupsAround(t, h, n)
<1>1. PICK e \in Nat : e = AtLeastOne(n)
  BY DEF AtLeastOne
<1>2. /\ d = (IF h = 0 THEN 1 ELSE h) /\ e = (IF n = 0 THEN 1 ELSE n)
  BY <1>1 DEF AtLeastOne
<1>3. ASSUME NEW k \in 0..(d + e)
      PROVE  IF k \in Blocks(h, d + 1, n) THEN IsGroup(t, k) ELSE Pitch(t, k) = 1
  <2>1. CASE k < d
    <3>1. CASE h = 0
      <4>1. k = 0 /\ k \notin Blocks(h, d + 1, n)
        BY <1>2, <2>1, <3>1 DEF Blocks
      <4> QED BY <3>1, <4>1
    <3>2. CASE h # 0
      <4>1. k \in 0..(h - 1) /\ k \in Blocks(h, d + 1, n)
        BY <1>2, <2>1, <3>2 DEF Blocks
      <4> QED BY <4>1
    <3> QED BY <3>1, <3>2
  <2>2. CASE k = d
    <3>1. k \notin Blocks(h, d + 1, n)
      BY <1>2, <2>2 DEF Blocks
    <3> QED BY <2>2, <3>1
  <2>3. CASE k > d
    <3>1. CASE n = 0
      <4>1. k = d + 1 /\ k \notin Blocks(h, d + 1, n)
        BY <1>2, <2>3, <3>1 DEF Blocks
      <4> QED BY <3>1, <4>1
    <3>2. CASE n # 0
      <4>1. k \in Blocks(h, d + 1, n)
        BY <1>2, <2>3, <3>2 DEF Blocks
      <4>2. PICK j \in 0..(n - 1) : k = d + 1 + j
        <5>1. k - (d + 1) \in 0..(n - 1) /\ k = d + 1 + (k - (d + 1))
          BY <1>2, <2>3, <3>2
        <5> QED BY <5>1
      <4> QED BY <4>1, <4>2
    <3> QED BY <3>1, <3>2
  <2> QED BY <2>1, <2>2, <2>3
<1>4. Fields(t) = d + 1 + e /\ Fields(t) - 1 = d + e
  BY <1>1
<1>5. HexElsewhere(t)
  <2>1. \A k \in 0..(Fields(t) - 1) : Pitch(t, k) = 1 \/ IsGroup(t, k)
    BY <1>3, <1>4
  <2> QED BY <2>1, FieldsAreHex
<1>6. \A k \in 0..(Fields(t) - 1) :
        Pitch(t, k) \in IF k \in Blocks(h, AtLeastOne(h) + 1, n) THEN 2..5 ELSE {1}
  BY <1>3, <1>4 DEF IsGroup
<1> QED BY <1>1, <1>4, <1>5, <1>6 DEF GroupsAround

\* A run has groups exactly if its first field is not empty.
LEMMA SameCount ==
  ASSUME NEW t, NEW f, NEW h \in Nat, NEW n \in Nat, AtLeastOne(h) = AtLeastOne(n),
         h = 0 => Pitch(t, f) = 1, h # 0 => IsGroup(t, f),
         n = 0 => Pitch(t, f) = 1, n # 0 => Pitch(t, f) >= 2
  PROVE  h = n
<1>1. h = 0 <=> n = 0
  BY DEF IsGroup
<1> QED BY <1>1 DEF AtLeastOne

\* The byte after a cut: the field is empty if another cut is there.
LEMMA FieldStart ==
  ASSUME NEW t \in Seq(Byte), NEW k \in Nat, k < Fields(t), NEW p, p = Cut(t, k) + 1
  PROVE  /\ p \in 0..Len(t) /\ Pitch(t, k) \in Nat \ {0}
         /\ p = Len(t) => k + 1 = Fields(t) /\ Pitch(t, k) = 1
         /\ p # Len(t) /\ At(t, p) = Colon =>
              k + 1 < Fields(t) /\ Cut(t, k + 1) = p /\ Pitch(t, k) = 1
         /\ p # Len(t) /\ At(t, p) # Colon => Pitch(t, k) >= 2
<1>1. PICK F \in Nat \ {0} : F = Fields(t)
  BY Cuts
<1>2. PICK L \in Nat : L = Len(t)
  BY TextBytes
<1>3. PICK a \in -1..L, b \in 0..L : /\ a = Cut(t, k) /\ b = Cut(t, k + 1) /\ a < b
                                     /\ Pitch(t, k) = b - a
                                     /\ b = L \/ b \in ColonsOf(t)
                                     /\ \A i \in Int : a < i /\ i < b => i \notin ColonsOf(t)
  BY <1>2, FieldCuts
<1>4. p \in 0..L /\ p <= b /\ b - a \in Nat \ {0} /\ (p = b <=> b - a = 1)
  BY <1>3
<1>5. p \in ColonsOf(t) <=> p # L /\ At(t, p) = Colon
  <2>1. p \in 0..(L - 1) <=> p # L
    BY <1>4
  <2> QED BY <1>2, <2>1 DEF ColonsOf, Places
<1>6. b = L <=> k + 1 = F
  <2>1. k + 1 \in 0..F /\ F \in 0..F /\ Cut(t, F) = L
    BY <1>1, <1>2, Cuts
  <2> QED BY <1>1, <1>3, <2>1, OneCut
<1>7. p \in ColonsOf(t) => p = b
  BY <1>3, <1>4
<1>8. p = b => p = L \/ p \in ColonsOf(t)
  BY <1>3
<1>9. k + 1 < F <=> k + 1 # F
  BY <1>1
<1>10. p = L => p = b
  BY <1>3, <1>4
<1>11. p # b => b - a >= 2
  BY <1>4
<1> QED BY <1>1, <1>2, <1>3, <1>4, <1>5, <1>6, <1>7, <1>8, <1>9, <1>10, <1>11

\* A field that is not empty, of the text of an address.
LEMMA FullFieldIsGroup ==
  ASSUME NEW t \in Seq(Byte), GroupMeaning(t) # {}, NEW k \in Nat, k < Fields(t), Pitch(t, k) # 1
  PROVE  IsGroup(t, k)
<1>1. PICK F \in Nat \ {0} : F = Fields(t)
  BY Cuts
<1>2. k \in 0..(F - 1)
  BY <1>1
<1>3. HexElsewhere(t)
  BY MeantGroups
<1>4. EightGroups(t) \/ \E h, n \in Nat : GroupsAround(t, h, n)
  BY GroupMeanings
<1>5. CASE EightGroups(t)
  <2>1. Pitch(t, k) \in 2..5
    BY <1>2, <1>1, <1>5 DEF EightGroups
  <2> QED BY <1>3, <2>1, HexFieldIsGroup
<1>6. CASE \E h, n \in Nat : GroupsAround(t, h, n)
  <2>1. PICK h \in Nat, n \in Nat : GroupsAround(t, h, n)
    BY <1>6
  <2>2. Pitch(t, k) \in IF k \in Blocks(h, AtLeastOne(h) + 1, n) THEN 2..5 ELSE {1}
    BY <1>1, <1>2, <2>1 DEF GroupsAround
  <2>3. Pitch(t, k) \in 2..5
    BY <2>2
  <2> QED BY <1>3, <2>3, HexFieldIsGroup
<1> QED BY <1>4, <1>5, <1>6

\* A single colon at an edge of the text makes it no address.
LEMMA MeantEdges ==
  ASSUME NEW t \in Seq(Byte), GroupMeaning(t) # {}
  PROVE  NoLoneEdge(t)
<1>1. EightGroups(t) \/ \E h, n \in Nat : GroupsAround(t, h, n)
  BY GroupMeanings
<1>2. CASE EightGroups(t)
  <2>1. /\ Fields(t) = 8 /\ Fields(t) >= 2 /\ 0 \in 0..7 /\ Fields(t) - 1 \in 0..7
        /\ \A k \in 0..7 : Pitch(t, k) \in 2..5
    BY <1>2 DEF EightGroups
  <2>2. Pitch(t, 0) # 1 /\ Pitch(t, Fields(t) - 1) # 1
    BY <2>1
  <2> QED BY <2>1, <2>2, EdgeFields DEF NoLoneEdge
<1>3. CASE \E h, n \in Nat : GroupsAround(t, h, n)
  BY <1>3, GroupsHaveGapShape
<1> QED BY <1>1, <1>2, <1>3

\* The text of an address has colons.
LEMMA ColonsAreMeant ==
  ASSUME NEW t \in Seq(Byte), GroupMeaning(t) # {}
  PROVE  ColonsOf(t) # {}
<1>1. ColonsOf(t) = {} => Fields(t) = 1
  BY FS_EmptySet DEF Fields
<1>2. EightGroups(t) \/ \E h, n \in Nat : GroupsAround(t, h, n)
  BY GroupMeanings
<1>3. EightGroups(t) => Fields(t) # 1
  BY DEF EightGroups
<1>4. ASSUME NEW h \in Nat, NEW n \in Nat, GroupsAround(t, h, n) PROVE Fields(t) # 1
  BY <1>4, GroupsHaveGapShape
<1> QED BY <1>1, <1>2, <1>3, <1>4

\* A text that holds no dotted quad, for want of a dot or of a colon.
Quadless(t) == ~Dotted(t) \/ ColonsOf(t) = {}

=============================================================================
