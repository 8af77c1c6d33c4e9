--------------------------- MODULE VtlmksOptProofs ---------------------------
(***************************************************************************)
(* What holds of parse_ipv6_avx512_opt for texts of every length and       *)
(* content, and what its agreement with the scalar reference rests on.     *)
(***************************************************************************)
EXTENDS VtlmksOpt, TextProofs, SequenceTheorems

----------------------------------------------------------------------------
(* The lanes.                                                              *)

LEMMA NarrowedIsByte ==
  ASSUME NEW n \in Int
  PROVE  Low8(n) \in Byte
BY DEF Low8, Byte

\* What gather_store stores are sixteen bytes, whatever its indices are: a lane
\* of nib is a nibble or 128.
LEMMA GatherIsBuffer ==
  ASSUME src \in Seq(Byte), NEW ends, NEW prev
  PROVE  Gather(ends, prev) \in [0..15 -> Byte]
  <1>1. Len(src) \in Nat /\ \A j \in 1..Len(src) : src[j] \in Byte
    OBVIOUS
  <1>2. \A i : V(i) \in Byte
    <2> SUFFICES ASSUME NEW i PROVE V(i) \in Byte OBVIOUS
    <2>1. CASE i \in Active
      <3>1. i \in Int /\ i + 1 \in 1..Len(src)
        BY <1>1, <2>1 DEF Active, Length
      <3> QED BY <1>1, <2>1, <3>1 DEF V, At
    <2>2. CASE i \notin Active
      BY <2>2 DEF V, Colon, Byte
    <2> QED BY <2>1, <2>2
  <1>3. \A b \in Byte : Nibble(b % 128) \in Int
    <2> SUFFICES ASSUME NEW b \in Byte PROVE Nibble(b % 128) \in Int OBVIOUS
    <2>1. b % 128 \in Byte BY DEF Byte
    <2>2. CASE IsHexDigit(b % 128)
      BY <2>1, <2>2, HexDigitValue DEF Nibble
    <2>3. CASE ~IsHexDigit(b % 128)
      BY <2>3 DEF Nibble, NotHex
    <2> QED BY <2>2, <2>3
  <1>4. \A g, k : GatherNibble(ends, prev, g, k) \in Int
    BY <1>2, <1>3 DEF GatherNibble, Nib
  <1>5. \A g, k, l : Low8(16 * GatherNibble(ends, prev, g, k)
                            + GatherNibble(ends, prev, g, l)) \in Byte
    <2> SUFFICES ASSUME NEW g, NEW k, NEW l
                 PROVE  Low8(16 * GatherNibble(ends, prev, g, k)
                               + GatherNibble(ends, prev, g, l)) \in Byte
      OBVIOUS
    <2>1. 16 * GatherNibble(ends, prev, g, k)
            + GatherNibble(ends, prev, g, l) \in Int
      BY <1>4
    <2> QED BY <2>1, NarrowedIsByte
  <1> QED BY <1>5 DEF Gather

\* The byte of -1, and the lane of nib that it reads.
LEMMA LastLane == Low8(-1) = 255 /\ 255 % 64 = 63
<1>1. PICK n \in -4..63 : n = -1
  OBVIOUS
<1>2. PICK b \in Byte : b = Low8(n) /\ Signed(b) = n
  BY NarrowedIsByte, IndexIsExact
<1>3. 255 % 64 = 63
  OBVIOUS
<1> QED BY <1>1, <1>2, <1>3 DEF Signed, Byte

----------------------------------------------------------------------------
(* The text in the lanes.                                                  *)

\* What nib holds for a byte of the text: its digit, or zero for a colon, if there
\* is nothing else in it.
LEMMA NibbleIsDigit ==
  ASSUME NEW b \in Byte
  PROVE  /\ IsHexDigit(b) <=> b < 128 /\ b # Colon /\ Nibble(b % 128) # NotHex
         /\ IsHexDigit(b) => Nibble(b % 128) = HexToBinary(b)
<1>1. PICK c \in 0..127 : c = b % 128 /\ (b < 128 => c = b)
  BY DEF Byte
<1>2. CASE IsHexDigit(b)
  <2>1. b \in (48..57) \cup (65..70) \cup (97..102)
    BY <1>2 DEF IsHexDigit, IsDigit
  <2>2. b < 128 /\ b # Colon /\ c = b
    BY <1>1, <2>1 DEF Colon
  <2>3. Nibble(c) = HexToBinary(b)
    BY <1>2, <2>2 DEF Nibble
  <2>4. HexToBinary(b) \in 0..15
    BY <1>2, HexDigitValue
  <2> QED BY <1>1, <1>2, <2>2, <2>3, <2>4 DEF NotHex
<1>3. CASE ~IsHexDigit(b)
  <2>1. b < 128 /\ b # Colon => Nibble(c) = NotHex
    BY <1>1, <1>3 DEF Nibble
  <2> QED BY <1>1, <1>3, <2>1
<1> QED BY <1>2, <1>3

\* What the core is given once its test of the length has passed.
CoreText == src \in Seq(Byte) /\ Length \in 2..45

\* The lanes hold the text, and colons after it.
LEMMA LanesAreText ==
  ASSUME CoreText
  PROVE  /\ src \in Seq(Byte) /\ Length = Len(src) /\ Length \in 2..45
         /\ Active = Places(src)
         /\ \A i \in Places(src) : V(i) = At(src, i) /\ V(i) \in Byte
         /\ \A i : i \notin Places(src) => V(i) = Colon
         /\ MColon = ColonsOf(src) \cup (Length..63)
         /\ MColon \cap Active = ColonsOf(src)
         /\ Dc(MColon) = DoublesOf(src)
         /\ BadBytes(MColon) <=> ~HexElsewhere(src)
<1>0. src \in Seq(Byte) /\ Length \in 2..45
  BY DEF CoreText
<1>1. Length = Len(src) /\ Active = Places(src)
  BY DEF Length, Active, Places
<1>2. \A i \in Places(src) : V(i) = At(src, i) /\ V(i) \in Byte
  BY <1>0, <1>1, TextBytes DEF V
<1>3. \A i : i \notin Places(src) => V(i) = Colon
  BY <1>1 DEF V
<1>4. PICK L \in 2..45 : L = Length
  BY <1>0
<1>5. /\ \A i \in Places(src) : i \in 0..(L - 1)
      /\ \A i \in 0..63 : i \in Places(src) \/ i \in L..63
      /\ \A i \in Places(src) : i \in 0..63 /\ i \notin L..63
      /\ \A i \in L..63 : i \in 0..63 /\ i \notin Places(src)
  <2>1. Places(src) = 0..(L - 1)
    BY <1>1, <1>4 DEF Places
  <2>2. \A i \in 0..(L - 1) : i \in 0..63 /\ i \notin L..63
    OBVIOUS
  <2>3. \A i \in L..63 : i \in 0..63 /\ i \notin 0..(L - 1)
    OBVIOUS
  <2>4. \A i \in 0..63 : i \in 0..(L - 1) \/ i \in L..63
    OBVIOUS
  <2> QED BY <2>1, <2>2, <2>3, <2>4, Zenon
<1>6. MColon = ColonsOf(src) \cup (L..63)
  <2>1. \A i \in MColon : i \in 0..63 /\ V(i) = Colon
    BY DEF MColon
  <2>2. \A i \in ColonsOf(src) : i \in Places(src) /\ At(src, i) = Colon
    BY DEF ColonsOf
  <2>3. \A i \in MColon : i \in ColonsOf(src) \cup (L..63)
    BY <1>2, <1>5, <2>1 DEF ColonsOf
  <2>4. \A i \in ColonsOf(src) \cup (L..63) : i \in 0..63 /\ V(i) = Colon
    BY <1>2, <1>3, <1>5, <2>2
  <2>5. \A i \in ColonsOf(src) \cup (L..63) : i \in MColon
    BY <2>4 DEF MColon
  <2> QED BY <2>3, <2>5
<1>7. \A i \in MColon : i \in Places(src) <=> i \in ColonsOf(src)
  BY <1>5, <1>6 DEF ColonsOf
<1>8. MColon \cap Active = ColonsOf(src)
  BY <1>1, <1>6, <1>7
<1>9. Dc(MColon) = DoublesOf(src)
  <2>1. ASSUME NEW i \in Dc(MColon) PROVE i \in DoublesOf(src)
    <3>1. i \in MColon /\ i + 1 \in MColon /\ i + 1 \in Places(src) /\ i \in 0..63
      BY <1>1 DEF Dc, MColon
    <3>2. i \in Places(src)
      BY <3>1, <1>1, <1>4 DEF Places
    <3> QED BY <1>7, <3>1, <3>2 DEF DoublesOf
  <2>2. ASSUME NEW i \in DoublesOf(src) PROVE i \in Dc(MColon)
    <3>1. i \in ColonsOf(src) /\ i + 1 \in ColonsOf(src) /\ i + 1 \in Places(src)
      BY DEF DoublesOf, ColonsOf
    <3> QED BY <1>1, <1>6, <3>1 DEF Dc
  <2> QED BY <2>1, <2>2
<1>10. ASSUME NEW i \in Places(src)
       PROVE  (V(i) >= 128 \/ (i \notin MColon /\ Nib(i) = NotHex))
                <=> (i \notin ColonsOf(src) /\ ~IsHexDigit(At(src, i)))
  <2>1. PICK b \in Byte : b = V(i) /\ b = At(src, i)
    BY <1>2
  <2>2. b >= 128 <=> ~ (b < 128)
    BY DEF Byte
  <2>3. Nib(i) = Nibble(b % 128)
    BY <2>1 DEF Nib
  <2>4. IsHexDigit(b) <=> b < 128 /\ b # Colon /\ Nibble(b % 128) # NotHex
    BY NibbleIsDigit
  <2>5. i \in ColonsOf(src) <=> b = Colon
    BY <2>1 DEF ColonsOf
  <2>6. i \in MColon <=> i \in ColonsOf(src)
    BY <1>6, <1>7
  <2>7. b = Colon => b < 128
    BY DEF Colon
  <2> QED BY <2>1, <2>2, <2>3, <2>4, <2>5, <2>6, <2>7
<1>11. BadBytes(MColon) <=> ~HexElsewhere(src)
  BY <1>1, <1>10 DEF BadBytes, HexElsewhere
<1> QED BY <1>0, <1>1, <1>2, <1>3, <1>4, <1>6, <1>8, <1>9, <1>11

\* A field ends with its cut; the lanes after the last field end one after another.
LEMMA CompLanes ==
  ASSUME CoreText, NEW k \in 0..15
  PROVE  Comp(MColon)[k] = IF k < Fields(src) THEN Cut(src, k + 1)
                           ELSE Length + k - Fields(src) + 1
<1>1. PICK L \in 2..45, t \in Seq(Byte) : L = Length /\ t = src /\ L = Len(t)
  BY LanesAreText
<1>2. PICK mask : mask = MColon
  OBVIOUS
<1>3. mask = ColonsOf(t) \cup (L..63)
  BY <1>1, <1>2, LanesAreText
<1>4. PICK C \in SUBSET (0..(L - 1)), F \in Nat \ {0} :
        /\ C = ColonsOf(t) /\ IsFiniteSet(C) /\ F = Fields(t) /\ Cardinality(C) = F - 1
  BY <1>1, SeparatorFacts
<1>5. mask \in SUBSET Nat /\ IsFiniteSet(mask)
  <2>1. mask \in SUBSET (0..63)
    <3>1. \A i \in C : i \in 0..63
      BY ONLY C \in SUBSET (0..(L - 1)), L \in 2..45
    <3>2. \A i \in L..63 : i \in 0..63
      BY ONLY L \in 2..45
    <3> QED BY <1>3, <1>4, <3>1, <3>2
  <2>2. 63 \in Nat
    OBVIOUS
  <2> QED BY <2>1, <2>2, LanesAreFinite
<1>6. Comp(MColon) = CompressLanes(Iota, mask)
  BY <1>2 DEF Comp
<1>7. \A i \in mask : i \in 0..63 /\ Iota[i] = i
  <2>1. \A i \in mask : i \in 0..63
    BY <1>2 DEF MColon
  <2> QED BY <2>1 DEF Iota
<1>8. ASSUME NEW i \in mask, RankIn(mask, i) = k PROVE Comp(MColon)[k] = i
  <2>1. RankIn(mask, i) <= 15
    BY <1>8
  <2>2. CompressLanes(Iota, mask)[RankIn(mask, i)] = Iota[i]
    BY <1>5, <2>1, CompressFacts
  <2> QED BY <1>6, <1>7, <1>8, <2>2
<1>9. CASE k < F
  <2>1. PICK e \in 1..F : e = k + 1 /\ e - 1 = k
    BY <1>9
  <2>2. PICK i : i = Cut(t, e) /\ i \in Separators(t) /\ RankIn(Separators(t), i) = k
    BY <1>1, <1>4, <2>1, CutIsRanked
  <2>3. i \in 0..L /\ i \in mask /\ L \in mask
    <3>1. i \in 0..L
      BY <1>1, <2>2, SeparatorFacts
    <3>2. L \in L..63
      BY ONLY L \in 2..45
    <3> QED BY <1>1, <1>3, <2>2, <3>1, <3>2 DEF Separators
  <2>4. {j \in mask : j < i} = {j \in Separators(t) : j < i}
    <3>1. \A j \in L..63 : j < i => FALSE
      BY <2>3
    <3>2. ~ (L < i)
      BY <2>3
    <3> QED BY <1>1, <1>3, <3>1, <3>2 DEF Separators
  <2>5. RankIn(mask, i) = k
    BY <2>2, <2>4 DEF RankIn
  <2> QED BY <1>1, <1>4, <1>8, <1>9, <2>1, <2>2, <2>3, <2>5
<1>10. CASE ~ (k < F)
  <2>1. PICK m \in 1..15 : m = k - F + 1
    BY <1>10
  <2>2. PICK i \in L..63 : i = L + m
    BY <2>1
  <2> DEFINE B == L..(i - 1)
  <2>3. {j \in mask : j < i} = C \cup B
    <3>1. \A j \in C : j < i
      BY ONLY C \in SUBSET (0..(L - 1)), i \in L..63, L \in 2..45
    <3>2. \A j \in L..63 : j < i <=> j \in B
      BY ONLY i \in L..63, L \in 2..45
    <3>3. \A j \in B : j \in L..63
      BY ONLY i \in L..63, L \in 2..45
    <3> HIDE DEF B
    <3> QED BY <1>3, <1>4, <3>1, <3>2, <3>3
  <2>4. IsFiniteSet(B) /\ Cardinality(B) = m
    <3>1. L \in Int /\ i - 1 \in Int
      OBVIOUS
    <3>2. IsFiniteSet(B) /\ Cardinality(B) = IF L > i - 1 THEN 0 ELSE i - 1 - L + 1
      BY <3>1, FS_Interval
    <3> QED BY <2>1, <2>2, <3>2
  <2>5. C \cap B = {}
    BY ONLY C \in SUBSET (0..(L - 1)), i \in L..63, L \in 2..45
  <2> HIDE DEF B
  <2>6. Cardinality(C \cap B) = 0
    BY <2>5, FS_EmptySet
  <2>7. Cardinality(C \cup B) = F - 1 + m
    <3>1. Cardinality(C \cup B) = Cardinality(C) + Cardinality(B) - Cardinality(C \cap B)
      BY <1>4, <2>4, FS_Union
    <3> QED BY <1>4, <2>4, <2>6, <3>1
  <2>8. RankIn(mask, i) = k
    <3>1. RankIn(mask, i) = F - 1 + m
      BY <2>3, <2>7 DEF RankIn
    <3>2. F - 1 + m = k
      BY <2>1
    <3> QED BY <3>1, <3>2
  <2>9. i \in mask
    BY <1>3
  <2>10. Comp(MColon)[k] = i
    BY <1>8, <2>8, <2>9
  <2>11. i = L + k - F + 1
    BY <2>1, <2>2
  <2> QED BY <1>1, <1>4, <1>10, <2>10, <2>11
<1> QED BY <1>1, <1>4, <1>9, <1>10

\* What the core computes of the fields of src: where they end, the colons before
\* them, and their widths and one more.
Ends == Comp(MColon)
Prevs == Before(Ends)
Widths == Width1(Ends, Prevs)

LEMMA FieldLanes ==
  ASSUME CoreText, NEW k \in 0..15
  PROVE  /\ k < Fields(src) => /\ Ends[k] = Cut(src, k + 1)
                               /\ Prevs[k] = Low8(Cut(src, k))
                               /\ Widths[k] = Pitch(src, k) /\ Pitch(src, k) \in 1..46
         /\ ~ (k < Fields(src)) => Widths[k] = 1
<1>t. PICK t : t = src
  OBVIOUS
<1>1. PICK L \in 2..45 : L = Length /\ t = src /\ L = Len(t) /\ t \in Seq(Byte)
  BY <1>t, LanesAreText
<1>2. PICK F \in Nat \ {0} : F = Fields(t)
  BY <1>1, SeparatorFacts
<1>3. \A j \in 0..15 : Ends[j] = IF j < F THEN Cut(t, j + 1) ELSE L + j - F + 1
  BY <1>1, <1>2, CompLanes DEF Ends
<1>4. \A j \in 0..15 : Prevs[j] = IF j = 0 THEN Low8(-1) ELSE Ends[j - 1]
  BY DEF Prevs, Before
<1>5. Widths[k] = Low8(Ends[k] - Prevs[k])
  BY DEF Widths, Width1
<1>6. CASE k < F
  <2>1. PICK a \in -1..45, b \in 0..45 : a = Cut(t, k) /\ b = Cut(t, k + 1) /\ a < b
    <3>1. k \in 0..(Fields(t) - 1)
      BY <1>2, <1>6
    <3>2. Between(t, Cut(t, k), Cut(t, k + 1))
      BY <1>1, <3>1, Cuts
    <3>3. Cut(t, k) \in -1..L /\ Cut(t, k + 1) \in 0..L /\ Cut(t, k) < Cut(t, k + 1)
      BY <1>1, <3>2 DEF Between
    <3> QED BY <3>3
  <2>2. Ends[k] = b
    BY <1>3, <1>6, <2>1
  <2>3. Prevs[k] = Low8(a)
    <3>1. CASE k = 0
      <4>1. a = -1
        BY <2>1, <3>1 DEF Cut
      <4> QED BY <1>4, <3>1, <4>1
    <3>2. CASE k # 0
      <4>1. PICK j \in 0..15 : j = k - 1 /\ j + 1 = k /\ j < F
        BY <1>6, <3>2
      <4>2. Ends[j] = a
        BY <1>3, <2>1, <4>1
      <4>3. a # -1
        <5>1. 0 \in 0..Fields(t) /\ k \in 0..Fields(t) /\ 0 < k
          BY <1>2, <1>6, <3>2
        <5>2. Cut(t, 0) < Cut(t, k) /\ Cut(t, 0) = -1
          BY <1>1, <5>1, Cuts
        <5> QED BY <2>1, <5>2
      <4>4. Prevs[k] = a
        BY <1>4, <3>2, <4>1, <4>2
      <4> QED BY <4>3, <4>4 DEF Low8
    <3> QED BY <3>1, <3>2
  <2>4. PICK w \in 1..46 : w = b - a
    <3>1. b - a \in 1..46
      BY <2>1
    <3> QED BY <3>1
  <2>5. Low8(b - Low8(a)) = w
    BY <2>4 DEF Low8
  <2>6. Pitch(t, k) = w
    BY <2>1, <2>4 DEF Pitch
  <2> QED BY <1>1, <1>2, <1>5, <1>6, <2>1, <2>2, <2>3, <2>5, <2>6
<1>7. CASE ~ (k < F)
  <2>1. PICK j \in 0..15 : j = k - 1 /\ j + 1 = k
    BY <1>7
  <2>2. Prevs[k] = Ends[j]
    BY <1>4, <1>7, <2>1
  <2>3. Ends[k] = L + k - F + 1
    BY <1>3, <1>7
  <2>4. Ends[j] = L + k - F
    <3>1. CASE j < F
      <4>1. j + 1 = F /\ k = F
        BY <1>7, <2>1, <3>1
      <4>2. Ends[j] = Cut(t, F)
        BY <1>3, <3>1, <4>1
      <4>3. Cut(t, F) = L
        BY <1>1, <1>2, Cuts
      <4> QED BY <4>1, <4>2, <4>3
    <3>2. CASE ~ (j < F)
      <4>1. Ends[j] = L + j - F + 1
        BY <1>3, <3>2
      <4> QED BY <2>1, <4>1
    <3> QED BY <3>1, <3>2
  <2>5. L + k - F + 1 - (L + k - F) = 1
    OBVIOUS
  <2>6. Widths[k] = Low8(1)
    BY <1>5, <2>2, <2>3, <2>4, <2>5
  <2> QED BY <1>1, <1>2, <1>7, <2>6 DEF Low8
<1> QED BY <1>6, <1>7

----------------------------------------------------------------------------
(* What a byte of the gather is.                                           *)

\* The clamped gather reads the digits of a field that has no colon inside, and
\* zeros off the colon before it.
LEMMA FieldNibble ==
  ASSUME CoreText, HexElsewhere(src), NEW lo, NEW hi,
         Between(src, lo, hi), lo = -1 \/ lo \in ColonsOf(src), NEW ends, NEW prev, NEW g,
         ends[g] = hi, prev[g] = Low8(lo), NEW k \in 0..3
  PROVE  /\ GatherNibble(ends, prev, g, k) = DigitIn(src, lo, hi, k)
         /\ DigitIn(src, lo, hi, k) \in 0..15
<1>1. PICK L \in 2..45 : L = Len(src)
  BY LanesAreText
<1>2. lo \in -1..45 /\ hi \in 0..45 /\ lo < hi
  <2>1. lo \in -1..L /\ hi \in 0..L /\ lo < hi
    BY <1>1 DEF Between
  <2> QED BY <2>1
<1>3. PICK i \in -4..63 : i = hi - 4 + k
  BY <1>2
<1>4. GatherNibble(ends, prev, g, k)
        = Nib((IF Signed(Low8(i)) >= Signed(Low8(lo)) THEN Low8(i) ELSE Low8(lo)) % 64)
  BY <1>3 DEF GatherNibble
<1>5. Signed(Low8(i)) = i /\ Signed(Low8(lo)) = lo
  <2>1. lo \in -4..63
    BY <1>2
  <2> QED BY <2>1, IndexIsExact
<1>6. DigitRead(src, lo, hi, k, i)
  BY <1>3, LanesAreText, DigitIsNibble
<1>7. CASE i > lo
  <2>1. i >= lo /\ i >= 0
    BY <1>2, <1>7
  <2>2. Low8(i) % 64 = i
    BY <2>1, IndexIsExact
  <2>3. i \in Places(src) \ ColonsOf(src) /\ DigitIn(src, lo, hi, k) = HexToBinary(At(src, i))
    BY <1>6, <1>7 DEF DigitRead
  <2>4. Nib(i) = HexToBinary(At(src, i))
    BY <2>3, LanesAreText, NibbleIsDigit DEF Nib, HexElsewhere
  <2> QED BY <1>4, <1>5, <1>6, <2>1, <2>2, <2>3, <2>4 DEF DigitRead
<1>8. CASE ~ (i > lo)
  <2>1. GatherNibble(ends, prev, g, k) = Nib(Low8(lo) % 64)
    <3>1. i >= lo => i = lo
      BY <1>2, <1>8
    <3> QED BY <1>4, <1>5, <3>1
  <2>2. Nib(Low8(lo) % 64) = 0
    <3>1. \A j : V(j) = Colon => Nib(j) = 0
      BY DEF Nib, Nibble, Colon, IsHexDigit, IsDigit
    <3>2. CASE lo = -1
      <4>1. Low8(lo) % 64 = 63
        <5>1. Low8(-1) = 255 /\ 255 % 64 = 63
          BY LastLane
        <5> QED BY <3>2, <5>1
      <4>2. 63 \notin Places(src)
        <5>1. Places(src) = 0..(L - 1)
          BY <1>1 DEF Places
        <5> QED BY <5>1
      <4> QED BY <3>1, <4>1, <4>2, LanesAreText
    <3>3. CASE lo \in ColonsOf(src)
      <4>1. lo \in Places(src) /\ At(src, lo) = Colon
        BY <3>3 DEF ColonsOf
      <4>2. Low8(lo) % 64 = lo
        <5>1. lo \in 0..45
          BY <1>1, <1>2, <4>1 DEF Places
        <5> QED BY <5>1 DEF Low8
      <4> QED BY <3>1, <4>1, <4>2, LanesAreText
    <3> QED BY <3>2, <3>3
  <2> QED BY <1>6, <1>8, <2>1, <2>2 DEF DigitRead
<1> QED BY <1>7, <1>8

\* A byte of a slot that is given the lanes of field k is that of the field.
LEMMA StoredField ==
  ASSUME CoreText, HexElsewhere(src), NEW ends, NEW prev,
         NEW k \in 0..15, k < Fields(src), NEW b \in 0..15,
         ends[b \div 2] = Ends[k], prev[b \div 2] = Prevs[k]
  PROVE  Gather(ends, prev)[b] = FieldByte(src, k, b)
<1>1. PICK lo, hi : lo = Cut(src, k) /\ hi = Cut(src, k + 1)
  OBVIOUS
<1>2. Between(src, lo, hi) /\ (lo = -1 \/ lo \in ColonsOf(src))
  <2>1. k \in 0..(Fields(src) - 1) /\ (k = 0 \/ k \in 1..(Fields(src) - 1))
    <3>1. PICK F \in Nat : F = Fields(src)
      BY LanesAreText, SeparatorFacts
    <3>2. k < F
      BY <3>1
    <3>3. k \in 0..(F - 1) /\ (k = 0 \/ k \in 1..(F - 1))
      BY ONLY <3>2, k \in 0..15, F \in Nat
    <3> QED BY <3>1, <3>3
  <2> QED BY <1>1, <2>1, LanesAreText, Cuts
<1>3. ends[b \div 2] = hi /\ prev[b \div 2] = Low8(lo)
  BY <1>1, FieldLanes
<1>4. PICK g \in 0..7, o \in 0..1 : b \div 2 = g /\ b % 2 = o
  BY SlotOfByte
<1>5. PICK l \in {0, 2} : l = 2 * o
  OBVIOUS
<1>6. PICK x \in 0..15, y \in 0..15 :
        /\ x = GatherNibble(ends, prev, g, l) /\ x = DigitIn(src, lo, hi, l)
        /\ y = GatherNibble(ends, prev, g, l + 1) /\ y = DigitIn(src, lo, hi, l + 1)
  <2>1. \A m \in 0..3 : /\ GatherNibble(ends, prev, g, m) = DigitIn(src, lo, hi, m)
                        /\ DigitIn(src, lo, hi, m) \in 0..15
    <3>1. ends[g] = hi /\ prev[g] = Low8(lo)
      BY <1>3, <1>4
    <3> QED BY <1>2, <3>1, FieldNibble, Zenon
  <2>2. l \in 0..3 /\ l + 1 \in 0..3
    OBVIOUS
  <2> QED BY <2>1, <2>2
<1>7. Gather(ends, prev)[b] = Low8(16 * x + y)
  BY <1>4, <1>5, <1>6 DEF Gather
<1>8. Low8(16 * x + y) = 16 * x + y
  BY DEF Low8
<1>9. FieldByte(src, k, b) = 16 * x + y
  BY <1>1, <1>4, <1>5, <1>6 DEF FieldByte, GroupByte
<1> QED BY <1>7, <1>8, <1>9

\* A slot whose end is 0 and whose colon is at 255 is a zero group: it reads the
\* colons that fill the last lane.
LEMMA EmptySlot ==
  ASSUME CoreText, NEW ends, NEW prev, NEW b \in 0..15,
         ends[b \div 2] = 0, prev[b \div 2] = 255
  PROVE  Gather(ends, prev)[b] = 0
<1>1. PICK g \in 0..7, o \in 0..1 : b \div 2 = g /\ b % 2 = o
  BY SlotOfByte
<1>2. Nib(63) = 0
  <2>1. 63 \notin Places(src)
    <3>1. PICK L \in 2..45 : L = Len(src)
      BY LanesAreText
    <3>2. Places(src) = 0..(L - 1)
      BY <3>1 DEF Places
    <3> QED BY <3>2
  <2>2. V(63) = Colon
    BY <2>1, LanesAreText
  <2> QED BY <2>2 DEF Nib, Nibble, Colon, IsHexDigit, IsDigit
<1>3. ASSUME NEW k \in 0..3 PROVE GatherNibble(ends, prev, g, k) = 0
  <2>1. PICK i \in -4..63 : i = 0 - 4 + k /\ i <= -1
    OBVIOUS
  <2>2. Signed(Low8(i)) = i /\ Signed(255) = -1
    BY IndexIsExact DEF Signed
  <2>3. i >= -1 => Low8(i) = 255
    BY <2>1 DEF Low8
  <2>4. GatherNibble(ends, prev, g, k) = Nib(255 % 64)
    BY <1>1, <2>1, <2>2, <2>3 DEF GatherNibble
  <2> QED BY <1>2, <2>4
<1>4. PICK l \in {0, 2} : l = 2 * o
  OBVIOUS
<1>5. GatherNibble(ends, prev, g, l) = 0 /\ GatherNibble(ends, prev, g, l + 1) = 0
  <2>1. l \in 0..3 /\ l + 1 \in 0..3
    OBVIOUS
  <2> QED BY <1>3, <2>1
<1>6. Gather(ends, prev)[b] = Low8(16 * 0 + 0)
  BY <1>1, <1>4, <1>5 DEF Gather
<1> QED BY <1>6 DEF Low8

----------------------------------------------------------------------------
(* The clean form.                                                         *)

\* A width of which two less is at most three, in bytes, is two to five.
LEMMA WidthIsExact ==
  ASSUME NEW w \in 1..46
  PROVE  Low8(w - 2) > 3 <=> w \notin 2..5
<1>1. CASE w = 1
  <2>1. w - 2 = -1 /\ w \notin 2..5
    BY <1>1
  <2> QED BY <2>1, LastLane
<1>2. CASE w # 1
  <2>1. PICK v \in 0..44 : v = w - 2
    BY <1>2
  <2>2. Low8(v) = v
    BY DEF Low8
  <2> QED BY <2>1, <2>2
<1> QED BY <1>1, <1>2

\* The clean form accepts eight groups and nothing else, and stores their values.
LEMMA CleanFormIsExact ==
  ASSUME CoreText
  PROVE  /\ CleanBad(MColon, Widths) <=> ~EightGroups(src)
         /\ ~CleanBad(MColon, Widths) => Gather(Ends, Prevs) = EightBytes(src)
<1>1. PICK t : t = src /\ t \in Seq(Byte) /\ MColon \cap Active = ColonsOf(t)
               /\ (BadBytes(MColon) <=> ~HexElsewhere(t))
  BY LanesAreText
<1>2. Cardinality(MColon \cap Active) # 7 <=> Fields(t) # 8
  <2>1. PICK F \in Nat : F = Fields(t) /\ Cardinality(ColonsOf(t)) = F - 1
    BY <1>1, SeparatorFacts
  <2>2. F - 1 # 7 <=> F # 8
    OBVIOUS
  <2> QED BY <1>1, <2>1, <2>2, Zenon
<1>3. ASSUME Fields(t) = 8
      PROVE  /\ \A g \in 0..7 : Low8(Widths[g] - 2) > 3 <=> Pitch(t, g) \notin 2..5
             /\ HexElsewhere(t) => Gather(Ends, Prevs) = EightBytes(t)
  <2>1. ASSUME NEW g \in 0..7
        PROVE  Low8(Widths[g] - 2) > 3 <=> Pitch(t, g) \notin 2..5
    <3>1. g \in 0..15 /\ g < Fields(src)
      BY <1>1, <1>3
    <3>2. PICK w \in 1..46 : w = Widths[g] /\ w = Pitch(t, g)
      BY <1>1, <3>1, FieldLanes
    <3> QED BY <3>2, WidthIsExact
  <2>2. ASSUME HexElsewhere(t), NEW b \in 0..15
        PROVE  Gather(Ends, Prevs)[b] = FieldByte(t, b \div 2, b)
    <3>1. PICK g \in 0..15 : g = b \div 2 /\ g < Fields(src)
      BY <1>1, <1>3
    <3>2. PICK ends, prev : ends = Ends /\ prev = Prevs
      OBVIOUS
    <3>3. ends[b \div 2] = Ends[g] /\ prev[b \div 2] = Prevs[g]
      BY <3>1, <3>2
    <3>4. Gather(ends, prev)[b] = FieldByte(src, g, b)
      BY <1>1, <2>2, <3>1, <3>3, StoredField
    <3> QED BY <1>1, <3>1, <3>2, <3>4
  <2>3. HexElsewhere(t) => Gather(Ends, Prevs) = EightBytes(t)
    BY <2>2 DEF Gather, EightBytes
  <2> QED BY <2>1, <2>3
<1>4. CleanBad(MColon, Widths) <=> ~EightGroups(t)
  BY <1>1, <1>2, <1>3 DEF CleanBad, EightGroups
<1> QED BY <1>1, <1>3, <1>4 DEF EightGroups

----------------------------------------------------------------------------
(* The "::" form.                                                          *)

\* The lanes that are kept are the fields that are not empty: the lanes after them
\* hold colons, which are one apart.
LEMMA KeptFields ==
  ASSUME CoreText
  PROVE  /\ Kept(Widths) \in SUBSET (0..15)
         /\ \A k \in 0..15 : k \in Kept(Widths) <=> k < Fields(src) /\ Pitch(src, k) >= 2
<1>1. ASSUME NEW k \in 0..15
      PROVE  k \in Kept(Widths) <=> k < Fields(src) /\ Pitch(src, k) >= 2
  <2>1. k \in Kept(Widths) <=> Signed(Widths[k]) > 1
    BY DEF Kept
  <2>2. CASE ~ (k < Fields(src))
    <3>1. Widths[k] = 1
      BY <2>2, FieldLanes
    <3>2. Signed(1) = 1
      BY DEF Signed
    <3> QED BY <2>1, <2>2, <3>1, <3>2
  <2>3. CASE k < Fields(src)
    <3>1. PICK w \in 1..46 : w = Widths[k] /\ w = Pitch(src, k)
      BY <2>3, FieldLanes
    <3>2. Signed(w) = w
      BY DEF Signed
    <3>3. w > 1 <=> w >= 2
      OBVIOUS
    <3> QED BY <2>1, <2>3, <3>1, <3>2, <3>3
  <2> QED BY <2>2, <2>3
<1>2. Kept(Widths) \in SUBSET (0..15)
  BY DEF Kept
<1> QED BY <1>1, <1>2

\* The kept fields and the slots they go to are the blocks of the groups.
LEMMA GapMasks ==
  ASSUME CoreText, NEW p, Dc(MColon) = {p},
         NEW h \in Nat, NEW n \in Nat, GapShape(src, p, h, n), Fields(src) <= 10
  PROVE  /\ Kept(Widths) = Blocks(h, AtLeastOne(h) + 1, n)
         /\ Cardinality(Kept(Widths)) = h + n
         /\ h + n <= 7 => SlotMasks(HeadFields(MColon, Dc(MColon)), Kept(Widths))
                            = {Blocks(h, 8 - n, n)}
<1>0. PICK t : /\ t = src /\ t \in Seq(Byte) /\ GapShape(t, p, h, n)
               /\ Length \in 2..45 /\ Length = Len(t) /\ DoublesOf(t) = {p}
               /\ MColon = ColonsOf(t) \cup (Length..63)
  BY LanesAreText
<1>1. PICK L \in 2..45 : /\ t = src /\ t \in Seq(Byte) /\ GapShape(t, p, h, n)
                         /\ L = Length /\ L = Len(t) /\ DoublesOf(t) = {p}
                         /\ MColon = ColonsOf(t) \cup (L..63)
  BY <1>0
<1>2. PICK d \in Nat \ {0} : d = AtLeastOne(h) /\ h <= d
  BY DEF AtLeastOne
<1>3. PICK F \in 0..10 : F = Fields(t) /\ F >= d + 1 + n
  <2>1. Fields(t) \in 0..10
    BY <1>1, SeparatorFacts
  <2>2. Fields(t) = d + 1 + AtLeastOne(n) /\ AtLeastOne(n) >= n /\ AtLeastOne(n) \in Nat
    BY <1>1, <1>2 DEF GapShape, AtLeastOne
  <2> QED BY <2>1, <2>2
<1>4. Kept(Widths) = Blocks(h, d + 1, n)
  <2>1. PICK K : K = Kept(Widths) /\ K \in SUBSET (0..15)
                 /\ \A k \in 0..15 : k \in K <=> k < F /\ Pitch(t, k) >= 2
    BY <1>1, <1>3, KeptFields
  <2>2. \A k \in 0..(F - 1) : Pitch(t, k) >= 2 <=> k \in Blocks(h, d + 1, n)
    BY <1>1, <1>2, <1>3 DEF GapShape
  <2>3. \A k \in Blocks(h, d + 1, n) : k \in 0..(F - 1)
    BY ONLY <1>2, <1>3, h \in Nat, n \in Nat DEF Blocks
  <2>4. \A k \in 0..(F - 1) : k \in 0..15 /\ k < F
    BY ONLY <1>3
  <2>5. \A k \in 0..15 : k < F => k \in 0..(F - 1)
    BY ONLY <1>3
  <2>6. \A k \in K : k \in Blocks(h, d + 1, n)
    BY <2>1, <2>2, <2>5
  <2>7. \A k \in Blocks(h, d + 1, n) : k \in K
    BY <2>1, <2>2, <2>3, <2>4
  <2> QED BY <2>1, <2>6, <2>7
<1>5. Cardinality(Kept(Widths)) = h + n
  <2>1. d + 1 \in Nat /\ h <= d + 1
    BY <1>2
  <2> QED BY <1>4, <2>1, BlocksCount
<1>6. HeadFields(MColon, Dc(MColon)) = h
  <2>1. p \in ColonsOf(t) /\ p \in 0..(L - 1)
    <3>1. p \in DoublesOf(t)
      BY <1>1
    <3>2. p \in ColonsOf(t)
      BY <3>1 DEF DoublesOf
    <3> QED BY <1>1, <3>2, SeparatorFacts
  <2>2. First({p}) = p
    <3>1. \A i \in {p} : i = p
      OBVIOUS
    <3>2. p <= p
      BY <2>1
    <3> QED BY <3>1, <3>2 DEF First
  <2>3. RankIn(ColonsOf(t), p) = d - 1 /\ (p = 0 <=> h = 0)
    BY <1>1, <1>2 DEF GapShape
  <2>4. {i \in MColon : i < p} = {i \in ColonsOf(t) : i < p}
    <3>1. \A i \in L..63 : ~ (i < p)
      BY <2>1
    <3> QED BY <1>1, <3>1
  <2>5. {i \in MColon : i < First({p})} \cup ({p} \ {First({p})}) = {i \in ColonsOf(t) : i < p}
    BY <2>2, <2>4
  <2>6. HeadFields(MColon, {p}) = d - 1 + (IF {p} = {0} THEN 0 ELSE 1)
    BY <2>3, <2>5 DEF HeadFields, RankIn
  <2>7. {p} = {0} <=> h = 0
    BY <2>3
  <2>8. h = 0 => d = 1
    BY <1>2 DEF AtLeastOne
  <2>9. h # 0 => d = h
    BY <1>2 DEF AtLeastOne
  <2>10. d - 1 + 1 = d /\ 1 - 1 + 0 = 0
    OBVIOUS
  <2> QED BY <2>6, <2>7, <2>8, <2>9, <2>10
<1>7. ASSUME h + n <= 7
      PROVE  SlotMasks(h, Kept(Widths)) = {Blocks(h, 8 - n, n)}
  <2>1. PICK z \in 1..8 : z = 8 - (h + n)
    BY <1>7
  <2>2. ZeroGroups(Kept(Widths)) = 0..(z - 1)
    <3>1. Low8(z) = z /\ z < 32
      BY DEF Low8
    <3> QED BY <1>5, <2>1, <3>1 DEF ZeroGroups
  <2>3. {i + h : i \in 0..(z - 1)} = {h + i : i \in 0..(z - 1)}
    <3>1. \A i \in 0..(z - 1) : i + h = h + i
      OBVIOUS
    <3> QED BY <3>1
  <2>4. h < 32
    BY <1>7
  <2>5. SlotMasks(h, Kept(Widths)) = {(0..7) \ {i + h : i \in 0..(z - 1)}}
    BY <2>2, <2>4 DEF SlotMasks
  <2>6. (0..7) \ {h + i : i \in 0..(z - 1)} = Blocks(h, 8 - n, n)
    BY <1>7, <2>1, SlotBlocks
  <2> QED BY <2>3, <2>5, <2>6
<1> QED BY <1>2, <1>4, <1>5, <1>6, <1>7

\* Compressed, expanded and gathered, the fields are the address of the groups.
LEMMA GapStore ==
  ASSUME CoreText, HexElsewhere(src), NEW h \in Nat, NEW n \in Nat,
         h + n <= 7, Fields(src) = AtLeastOne(h) + 1 + AtLeastOne(n),
         NEW kept, kept = Blocks(h, AtLeastOne(h) + 1, n),
         NEW slots, slots = Blocks(h, 8 - n, n)
  PROVE  Gather(SlotsOf(0, Ends, kept, slots), SlotsOf(Low8(-1), Prevs, kept, slots))
           = GapBytes(src, h, n)
<1>1. PICK d \in h..9 : d = AtLeastOne(h) /\ d \in Nat \ {0} /\ d + n <= 8
  <2>1. AtLeastOne(h) \in h..9 /\ AtLeastOne(h) \in Nat \ {0} /\ AtLeastOne(h) + n <= 8
    BY DEF AtLeastOne
  <2> QED BY <2>1
<1>2. PICK F \in Nat : F = Fields(src) /\ F >= d + 1 + n
  <2>1. AtLeastOne(n) \in Nat /\ AtLeastOne(n) >= n
    BY DEF AtLeastOne
  <2>2. d + 1 + AtLeastOne(n) \in Nat
    BY <2>1
  <2> QED BY <1>1, <2>1, <2>2
<1>3. \A f, v : \A i \in 0..7 : SlotsOf(f, v, kept, slots)[i]
        = IF i < h THEN v[i] ELSE IF i >= 8 - n THEN v[d + 1 + i - (8 - n)] ELSE f
  <2> SUFFICES ASSUME NEW f, NEW v, NEW i \in 0..7
               PROVE  SlotsOf(f, v, kept, slots)[i]
                        = IF i < h THEN v[i] ELSE IF i >= 8 - n THEN v[d + 1 + i - (8 - n)] ELSE f
    OBVIOUS
  <2>1. h \in 0..7 /\ n \in 0..7
    OBVIOUS
  <2>2. PICK into : into = AllLanes(f)
    OBVIOUS
  <2>3. SlotsHold(ExpandInto(into, CompressLanes(v, Blocks(h, d + 1, n)), Blocks(h, 8 - n, n)),
                  v, into, h, n, d)
    BY <2>1, SlotLanes
  <2>4. SlotsOf(f, v, kept, slots)
          = ExpandInto(into, CompressLanes(v, Blocks(h, d + 1, n)), Blocks(h, 8 - n, n))
    BY <1>1, <2>2 DEF SlotsOf
  <2>5. into[i] = f
    BY <2>2 DEF AllLanes
  <2>6. SlotsHold(SlotsOf(f, v, kept, slots), v, into, h, n, d)
    BY <2>3, <2>4
  <2> QED BY <2>5, <2>6, Zenon DEF SlotsHold
<1>4. PICK ends, prev : /\ ends = SlotsOf(0, Ends, kept, slots)
                        /\ prev = SlotsOf(255, Prevs, kept, slots)
  OBVIOUS
<1>5. \A i \in 0..7 :
        /\ ends[i] = IF i < h THEN Ends[i] ELSE IF i >= 8 - n THEN Ends[d + 1 + i - (8 - n)] ELSE 0
        /\ prev[i] = IF i < h THEN Prevs[i]
                     ELSE IF i >= 8 - n THEN Prevs[d + 1 + i - (8 - n)] ELSE 255
  <2> SUFFICES ASSUME NEW i \in 0..7
               PROVE  /\ ends[i] = IF i < h THEN Ends[i]
                                   ELSE IF i >= 8 - n THEN Ends[d + 1 + i - (8 - n)] ELSE 0
                      /\ prev[i] = IF i < h THEN Prevs[i]
                                   ELSE IF i >= 8 - n THEN Prevs[d + 1 + i - (8 - n)] ELSE 255
    OBVIOUS
  <2>1. SlotsOf(0, Ends, kept, slots)[i]
          = IF i < h THEN Ends[i] ELSE IF i >= 8 - n THEN Ends[d + 1 + i - (8 - n)] ELSE 0
    BY <1>3
  <2>2. SlotsOf(255, Prevs, kept, slots)[i]
          = IF i < h THEN Prevs[i] ELSE IF i >= 8 - n THEN Prevs[d + 1 + i - (8 - n)] ELSE 255
    BY <1>3
  <2> QED BY <1>4, <2>1, <2>2
<1>6. ASSUME NEW b \in 0..15 PROVE Gather(ends, prev)[b] = GapBytes(src, h, n)[b]
  <2>1. PICK g \in 0..7 : g = b \div 2
    BY SlotOfByte
  <2>2. GapBytes(src, h, n)[b]
          = CASE g < h -> FieldByte(src, g, b)
              [] g >= 8 - n -> FieldByte(src, d + 1 + g - (8 - n), b)
              [] OTHER -> 0
    BY <1>1, <2>1 DEF GapBytes
  <2>3. CASE g < h
    <3>1. g \in 0..15 /\ g < Fields(src)
      BY <1>2, <2>3
    <3>2. ends[b \div 2] = Ends[g] /\ prev[b \div 2] = Prevs[g]
      BY <1>5, <2>1, <2>3
    <3>3. Gather(ends, prev)[b] = FieldByte(src, g, b)
      BY <3>1, <3>2, StoredField
    <3> QED BY <2>2, <2>3, <3>3
  <2>4. CASE g >= 8 - n
    <3>1. ~ (g < h)
      BY <2>4
    <3>2. PICK k \in 0..15 : k = d + 1 + g - (8 - n) /\ k < Fields(src)
      <4>1. d + 1 + g - (8 - n) \in 0..15 /\ d + 1 + g - (8 - n) < F
        BY <1>1, <1>2, <2>4
      <4> QED BY <1>2, <4>1
    <3>3. ends[b \div 2] = Ends[k] /\ prev[b \div 2] = Prevs[k]
      BY <1>5, <2>1, <2>4, <3>1, <3>2
    <3>4. Gather(ends, prev)[b] = FieldByte(src, k, b)
      BY <3>2, <3>3, StoredField
    <3>5. GapBytes(src, h, n)[b] = FieldByte(src, k, b)
      BY <2>2, <2>4, <3>1, <3>2
    <3> QED BY <3>4, <3>5
  <2>5. CASE ~ (g < h) /\ ~ (g >= 8 - n)
    <3>1. ends[b \div 2] = 0 /\ prev[b \div 2] = 255
      BY <1>5, <2>1, <2>5
    <3>2. Gather(ends, prev)[b] = 0
      BY <3>1, EmptySlot
    <3> QED BY <2>2, <2>5, <3>2
  <2> QED BY <2>3, <2>4, <2>5
<1>7. Gather(ends, prev) = GapBytes(src, h, n)
  BY <1>6 DEF Gather, GapBytes
<1> QED BY <1>4, <1>7, LastLane

\* What the "::" form stores when it expands to slots, and what it decides.
GapStored(slots) ==
  Gather(SlotsOf(0, Ends, Kept(Widths), slots), SlotsOf(Low8(-1), Prevs, Kept(Widths), slots))
GapDecline == GapBad(MColon, Dc(MColon), Widths, Kept(Widths))

\* The "::" form accepts groups around one "::" and nothing else, and stores their
\* values.
LEMMA GapFormIsExact ==
  ASSUME CoreText, Dc(MColon) # {},
         NEW slots \in SlotMasks(HeadFields(MColon, Dc(MColon)), Kept(Widths))
  PROVE  /\ ~GapDecline => \E h, n \in Nat : /\ GroupsAround(src, h, n)
                                             /\ GapStored(slots) = GapBytes(src, h, n)
         /\ (\E h, n \in Nat : GroupsAround(src, h, n)) => ~GapDecline
<1>1. PICK t : /\ t = src /\ t \in Seq(Byte) /\ Length = Len(t) /\ Length \in 2..45
               /\ Dc(MColon) = DoublesOf(t) /\ (BadBytes(MColon) <=> ~HexElsewhere(t))
               /\ MColon = ColonsOf(t) \cup (Length..63)
  BY LanesAreText
<1>2. PICK kept, dc : kept = Kept(Widths) /\ dc = Dc(MColon)
  OBVIOUS
<1>d. GapDecline
        <=> \/ ~HexElsewhere(t)
            \/ Cardinality(dc) > 1 \/ NoGroupLeft(kept)
            \/ \E k \in kept : Widths[k] > 5
            \/ ~NoLoneEdge(t)
  <2>1. 0 \in MColon <=> 0 \in ColonsOf(t)
    BY <1>1
  <2>2. Length - 1 \in MColon <=> Length - 1 \in ColonsOf(t)
    BY <1>1
  <2> QED BY <1>1, <1>2, <2>1, <2>2 DEF GapDecline, GapBad, NoLoneEdge
<1>w. \A k \in 0..15 : k < Fields(t) => Widths[k] = Pitch(t, k) /\ Pitch(t, k) \in 1..46
  BY <1>1, FieldLanes
<1>k. /\ kept \in SUBSET (0..15)
      /\ \A k \in 0..15 : k \in kept <=> k < Fields(t) /\ Pitch(t, k) >= 2
  BY <1>1, <1>2, KeptFields
<1>3. ASSUME ~GapDecline
      PROVE  \E h, n \in Nat : GroupsAround(t, h, n) /\ GapStored(slots) = GapBytes(t, h, n)
  <2>1. PICK p : dc = {p} /\ DoublesOf(t) = {p}
    <3>1. IsFiniteSet(dc)
      <4>1. IsFiniteSet(ColonsOf(t)) /\ dc \in SUBSET ColonsOf(t)
        BY <1>1, <1>2, SeparatorFacts DEF DoublesOf
      <4> QED BY <4>1, FS_Subset
    <3>2. PICK c \in Nat : c = Cardinality(dc)
      BY <3>1, FS_CardinalityType
    <3>3. c # 0
      BY <1>2, <3>1, <3>2, FS_EmptySet
    <3>4. ~ (c > 1)
      BY <1>3, <1>d, <3>2
    <3>5. c = 1
      BY <3>3, <3>4
    <3>6. \E p : dc = {p}
      BY <3>1, <3>2, <3>5, FS_Singleton
    <3> QED BY <1>1, <1>2, <3>6
  <2>2. NoLoneEdge(t) /\ HexElsewhere(t) /\ ~NoGroupLeft(kept)
    BY <1>3, <1>d
  <2>3. PICK h \in Nat, n \in Nat : GapShape(t, p, h, n)
    <3>1. \E h, n \in Nat : GapShape(t, p, h, n)
      BY <1>1, <2>1, <2>2, GapFields
    <3> QED BY <3>1
  <2>5. Fields(t) \in Nat /\ Fields(t) <= 10
    <3>1. PICK F \in Nat : F = Fields(t)
      BY <1>1, SeparatorFacts
    <3>2. ASSUME F >= 11 PROVE FALSE
      <4>1. \A k \in 1..9 : Pitch(t, k) >= 2 => k \in kept
        BY <1>k, <3>1, <3>2
      <4>2. Cardinality(kept) >= 8
        BY <1>1, <1>k, <2>1, <3>1, <3>2, <4>1, ManyGroups
      <4> QED BY <2>2, <4>2 DEF NoGroupLeft
    <3> QED BY <3>1, <3>2
  <2>6. /\ kept = Blocks(h, AtLeastOne(h) + 1, n) /\ Cardinality(kept) = h + n
        /\ h + n <= 7 => slots = Blocks(h, 8 - n, n)
    <3>1. GapShape(src, p, h, n) /\ Fields(src) <= 10 /\ Dc(MColon) = {p}
      BY <1>1, <1>2, <2>1, <2>3, <2>5
    <3>2. /\ kept = Blocks(h, AtLeastOne(h) + 1, n) /\ Cardinality(kept) = h + n
          /\ h + n <= 7 => SlotMasks(HeadFields(MColon, Dc(MColon)), Kept(Widths))
                             = {Blocks(h, 8 - n, n)}
      BY <1>2, <3>1, GapMasks
    <3> QED BY <3>2
  <2>7. h + n <= 7
    BY <2>2, <2>6 DEF NoGroupLeft
  <2>9. \A k \in 0..(Fields(t) - 1) : k \in Blocks(h, AtLeastOne(h) + 1, n) => Pitch(t, k) <= 5
    <3> SUFFICES ASSUME NEW k \in 0..(Fields(t) - 1), k \in kept PROVE Pitch(t, k) <= 5
      BY <2>6
    <3>1. k \in 0..15 /\ k < Fields(t)
      BY <2>5
    <3>2. ~ (Widths[k] > 5)
      BY <1>3, <1>d
    <3>3. PICK w \in 1..46 : w = Widths[k] /\ w = Pitch(t, k)
      BY <1>w, <3>1
    <3> QED BY <3>2, <3>3
  <2>10. GroupsAround(t, h, n)
    BY <1>1, <2>2, <2>3, <2>7, <2>9, GapShapeIsGroups
  <2>12. Fields(t) = AtLeastOne(h) + 1 + AtLeastOne(n)
    BY <2>3 DEF GapShape
  <2>13. GapStored(slots) = GapBytes(t, h, n)
    BY <1>1, <1>2, <2>2, <2>6, <2>7, <2>12, GapStore DEF GapStored
  <2> QED BY <2>10, <2>13
<1>4. ASSUME NEW h \in Nat, NEW n \in Nat, GroupsAround(t, h, n)
      PROVE  ~GapDecline
  <2>1. PICK p \in Nat : /\ DoublesOf(t) = {p} /\ NoLoneEdge(t) /\ GapShape(t, p, h, n)
                         /\ Fields(t) \in 3..9
                         /\ \A k \in 0..(Fields(t) - 1) : Pitch(t, k) <= 5
    <3>1. \E p \in Nat : /\ DoublesOf(t) = {p} /\ NoLoneEdge(t) /\ GapShape(t, p, h, n)
                         /\ Fields(t) \in 3..9 /\ Len(t) \in 2..44
                         /\ \A k \in 0..(Fields(t) - 1) : Pitch(t, k) <= 5
      BY <1>1, <1>4, GroupsHaveGapShape
    <3> QED BY <3>1
  <2>3. Cardinality(kept) = h + n
    <3>1. GapShape(src, p, h, n) /\ Fields(src) <= 10 /\ Dc(MColon) = {p}
      BY <1>1, <2>1
    <3> QED BY <1>2, <3>1, GapMasks
  <2>4. h + n <= 7 /\ HexElsewhere(t)
    BY <1>4 DEF GroupsAround
  <2>5. ~NoGroupLeft(kept)
    BY <2>3, <2>4 DEF NoGroupLeft
  <2>6. \A k \in kept : ~ (Widths[k] > 5)
    <3> SUFFICES ASSUME NEW k \in kept PROVE ~ (Widths[k] > 5)
      OBVIOUS
    <3>1. k \in 0..15 /\ k < Fields(t) /\ k \in 0..(Fields(t) - 1)
      BY <1>k, <2>1
    <3>2. PICK w \in 1..46 : w = Widths[k] /\ w = Pitch(t, k)
      BY <1>w, <3>1
    <3>3. w <= 5
      BY <2>1, <3>1, <3>2
    <3> QED BY <3>2, <3>3
  <2>7. ~ (Cardinality(dc) > 1)
    <3>1. Cardinality(dc) = 1
      BY <1>1, <1>2, <2>1, FS_Singleton
    <3> QED BY <3>1
  <2> QED BY <1>d, <2>1, <2>4, <2>5, <2>6, <2>7
<1> QED BY <1>1, <1>3, <1>4

----------------------------------------------------------------------------
(* What the core answers.                                                  *)

\* A verdict of the core: the address of the groups, or it is declined.
Takes(meant) ==
  /\ RunsCore /\ UNCHANGED <<input, src>>
  /\ \/ result' = "accepted" /\ pc' = "returned" /\ out' \in meant
     \/ /\ result' = result /\ pc' = IF pc = "entry" THEN "embedded" ELSE "scalar"
        /\ meant = {}

\* A verdict, of what Decide is given.
LEMMA Verdicts ==
  ASSUME NEW stored, NEW bad, RunsCore, Decide(stored, bad)
  PROVE  /\ UNCHANGED <<input, src>>
         /\ ~bad => result' = "accepted" /\ pc' = "returned" /\ out' = stored
         /\ bad => result' = result /\ pc' = IF pc = "entry" THEN "embedded" ELSE "scalar"
<1>1. CASE bad
  BY <1>1 DEF Decide
<1>2. CASE ~bad
  BY <1>2 DEF Decide
<1> QED BY <1>1, <1>2

\* The clean form and the "::" form take the texts of groups, and store their
\* addresses: a text of groups is either clean or has one "::".
LEMMA CleanFormTakes ==
  ASSUME CoreText, CleanForm
  PROVE  Takes(GroupMeaning(src))
<1>1. RunsCore /\ Dc(MColon) = {} /\ Decide(Gather(Ends, Prevs), CleanBad(MColon, Widths))
  BY DEF CleanForm, Ends, Prevs, Widths
<1>2. DoublesOf(src) = {} /\ src \in Seq(Byte)
  BY <1>1, LanesAreText
<1>3. CASE EightGroups(src)
  <2>1. ~CleanBad(MColon, Widths) /\ Gather(Ends, Prevs) = EightBytes(src)
    BY <1>3, CleanFormIsExact
  <2>2. result' = "accepted" /\ pc' = "returned" /\ out' = EightBytes(src)
    BY <1>1, <2>1, Verdicts
  <2> QED BY <1>1, <1>3, <2>2, GroupMeanings, Verdicts DEF Takes
<1>4. CASE ~EightGroups(src)
  <2>1. CleanBad(MColon, Widths)
    BY <1>4, CleanFormIsExact
  <2>2. GroupMeaning(src) = {}
    <3> SUFFICES ASSUME NEW a \in GroupMeaning(src) PROVE FALSE
      OBVIOUS
    <3>1. PICK h \in Nat, n \in Nat : GroupsAround(src, h, n)
      BY <1>4, GroupMeanings
    <3>2. \E p \in Nat : DoublesOf(src) = {p}
      BY <1>2, <3>1, GroupsHaveGapShape
    <3> QED BY <1>2, <3>2
  <2>3. result' = result /\ pc' = IF pc = "entry" THEN "embedded" ELSE "scalar"
    BY <1>1, <2>1, Verdicts
  <2> QED BY <1>1, <2>2, <2>3, Verdicts DEF Takes
<1> QED BY <1>3, <1>4

LEMMA GapFormTakes ==
  ASSUME CoreText, GapForm
  PROVE  Takes(GroupMeaning(src))
<1>1. PICK slots \in SlotMasks(HeadFields(MColon, Dc(MColon)), Kept(Widths)) :
        /\ RunsCore /\ Dc(MColon) # {}
        /\ Decide(GapStored(slots), GapDecline)
  BY DEF GapForm, GapStored, GapDecline, Ends, Prevs, Widths
<1>2. DoublesOf(src) # {} /\ src \in Seq(Byte)
  BY <1>1, LanesAreText
<1>3. ~EightGroups(src)
  BY <1>2, EightHaveNoGap
<1>4. CASE ~GapDecline
  <2>1. PICK h \in Nat, n \in Nat : GroupsAround(src, h, n) /\ GapStored(slots) = GapBytes(src, h, n)
    BY <1>1, <1>4, GapFormIsExact
  <2>2. GapStored(slots) \in GroupMeaning(src)
    BY <2>1, GroupMeanings
  <2>3. result' = "accepted" /\ pc' = "returned" /\ out' = GapStored(slots)
    BY <1>1, <1>4, Verdicts
  <2> QED BY <1>1, <2>2, <2>3, Verdicts DEF Takes
<1>5. CASE GapDecline
  <2>1. ~ \E h, n \in Nat : GroupsAround(src, h, n)
    BY <1>1, <1>5, GapFormIsExact
  <2>2. GroupMeaning(src) = {}
    BY <1>3, <2>1, GroupMeanings
  <2>3. result' = result /\ pc' = IF pc = "entry" THEN "embedded" ELSE "scalar"
    BY <1>1, <1>5, Verdicts
  <2> QED BY <1>1, <2>2, <2>3, Verdicts DEF Takes
<1> QED BY <1>4, <1>5

----------------------------------------------------------------------------
(* The rewritten text.                                                     *)

LEMMA HexDigitIsHex ==
  ASSUME NEW n \in 0..15
  PROVE  /\ HexDigit(n) \in Byte /\ IsHexDigit(HexDigit(n)) /\ HexDigit(n) # Colon
         /\ HexToBinary(HexDigit(n)) = n
<1>1. CASE n < 10
  <2>1. PICK b \in 48..57 : b = HexDigit(n) /\ b = 48 + n
    BY <1>1 DEF HexDigit
  <2> QED BY <2>1 DEF Byte, Colon, IsHexDigit, IsDigit, HexToBinary
<1>2. CASE ~ (n < 10)
  <2>1. PICK b \in 97..102 : b = HexDigit(n) /\ b = 97 + n - 10
    BY <1>2 DEF HexDigit
  <2>2. (b \div 32) % 2 = 1
    OBVIOUS
  <2> QED BY <2>1, <2>2 DEF Byte, Colon, IsHexDigit, IsDigit, HexToBinary, SetBit5
<1> QED BY <1>1, <1>2

\* u is s, of n bytes, and then t, of m bytes.
Joins(u, s, n, t, m) ==
  /\ u \in Seq(Byte) /\ Len(u) = n + m
  /\ \A i \in 1..n : u[i] = s[i]
  /\ \A i \in 1..m : u[n + i] = t[i]

LEMMA Joined ==
  ASSUME NEW s \in Seq(Byte), NEW t \in Seq(Byte), NEW n \in Nat, NEW m \in Nat,
         Len(s) = n, Len(t) = m
  PROVE  Joins(s \o t, s, n, t, m)
<1>1. /\ s \o t \in Seq(Byte) /\ Len(s \o t) = n + m
      /\ \A i \in 1..(n + m) : (s \o t)[i] = IF i <= n THEN s[i] ELSE t[i - n]
  BY ConcatProperties
<1>2. ASSUME NEW i \in 1..n PROVE (s \o t)[i] = s[i]
  <2>1. i \in 1..(n + m) /\ i <= n
    BY ONLY n \in Nat, m \in Nat, i \in 1..n
  <2> QED BY <1>1, <2>1
<1>3. ASSUME NEW i \in 1..m PROVE (s \o t)[n + i] = t[i]
  <2>1. n + i \in 1..(n + m) /\ ~ (n + i <= n) /\ n + i - n = i
    BY ONLY n \in Nat, m \in Nat, i \in 1..m
  <2> QED BY <1>1, <2>1
<1> QED BY <1>1, <1>2, <1>3, Zenon DEF Joins

\* Its bytes one by one, for a few bytes.
LEMMA JoinedFew ==
  ASSUME NEW u, NEW s, NEW n \in 1..7, NEW t, NEW m \in 1..2, Joins(u, s, n, t, m)
  PROVE  /\ Len(u) = n + m /\ u[n + 1] = t[1] /\ (m = 2 => u[n + 2] = t[2])
         /\ u[1] = s[1]
         /\ n > 1 => u[2] = s[2]
         /\ n > 3 => u[3] = s[3] /\ u[4] = s[4]
         /\ n > 4 => u[5] = s[5]
         /\ n > 6 => u[6] = s[6] /\ u[7] = s[7]
<1>1. \A i \in 1..n : u[i] = s[i]
  BY DEF Joins
<1>2. \A i \in 1..m : u[n + i] = t[i]
  BY DEF Joins
<1> QED BY <1>1, <1>2 DEF Joins

\* The nine bytes of "AABB:CCDD".
NineBytes(s, q) ==
  /\ s \in Seq(Byte) /\ Len(s) = 9
  /\ s[1] = HexDigit(q[0] \div 16) /\ s[2] = HexDigit(q[0] % 16)
  /\ s[3] = HexDigit(q[1] \div 16) /\ s[4] = HexDigit(q[1] % 16)
  /\ s[5] = Colon
  /\ s[6] = HexDigit(q[2] \div 16) /\ s[7] = HexDigit(q[2] % 16)
  /\ s[8] = HexDigit(q[3] \div 16) /\ s[9] = HexDigit(q[3] % 16)

LEMMA Nibbles ==
  ASSUME NEW b \in Byte
  PROVE  \E d, e \in 0..15 : b \div 16 = d /\ b % 16 = e /\ b = 16 * d + e
<1>1. PICK c \in 0..255 : c = b
  BY DEF Byte
<1>2. PICK d \in 0..15 : 16 * d <= c /\ c <= 16 * d + 15
  BY <1>1
<1>3. PICK e \in 0..15 : c = 16 * d + e
  <2>1. c - 16 * d \in 0..15 /\ c = 16 * d + (c - 16 * d)
    BY <1>2
  <2> QED BY <2>1
<1>4. c \div 16 = d /\ c % 16 = e
  BY <1>3
<1>5. b \div 16 = d /\ b % 16 = e /\ b = 16 * d + e
  BY <1>1, <1>3, <1>4, Zenon
<1> QED BY <1>5

LEMMA HextetsAreNine ==
  ASSUME NEW q \in [0..3 -> Byte]
  PROVE  NineBytes(Hextets(q), q)
<1>1. ASSUME NEW b \in Byte
      PROVE  /\ TwoDigits(b) \in Seq(Byte) /\ Len(TwoDigits(b)) = 2
             /\ TwoDigits(b)[1] = HexDigit(b \div 16) /\ TwoDigits(b)[2] = HexDigit(b % 16)
  <2>1. HexDigit(b \div 16) \in Byte /\ HexDigit(b % 16) \in Byte
    BY Nibbles, HexDigitIsHex
  <2> QED BY <2>1 DEF TwoDigits
<1>2. q[0] \in Byte /\ q[1] \in Byte /\ q[2] \in Byte /\ q[3] \in Byte
  OBVIOUS
<1>3. PICK a, b, c, d : /\ a = TwoDigits(q[0]) /\ b = TwoDigits(q[1])
                        /\ c = TwoDigits(q[2]) /\ d = TwoDigits(q[3])
  OBVIOUS
<1>4. /\ a \in Seq(Byte) /\ Len(a) = 2 /\ b \in Seq(Byte) /\ Len(b) = 2
      /\ c \in Seq(Byte) /\ Len(c) = 2 /\ d \in Seq(Byte) /\ Len(d) = 2
  BY <1>1, <1>2, <1>3
<1>5. PICK e : e = <<Colon>> /\ e \in Seq(Byte) /\ Len(e) = 1 /\ e[1] = Colon
  <2>1. Colon \in Byte
    BY DEF Colon, Byte
  <2>2. <<Colon>> \in Seq(Byte)
    BY <2>1
  <2>3. Len(<<Colon>>) = 1 /\ <<Colon>>[1] = Colon
    OBVIOUS
  <2> QED BY <2>2, <2>3, Zenon
<1>0. 1 \in Nat /\ 2 \in Nat /\ 4 \in Nat /\ 5 \in Nat /\ 7 \in Nat
  OBVIOUS
<1>6. PICK ab : /\ ab = a \o b /\ ab \in Seq(Byte) /\ Len(ab) = 4
                /\ ab[1] = a[1] /\ ab[2] = a[2] /\ ab[3] = b[1] /\ ab[4] = b[2]
  <2>1. PICK s : s = a \o b
    OBVIOUS
  <2>2. Joins(s, a, 2, b, 2)
    BY <1>0, <1>4, <2>1, Joined, Zenon
  <2>3. /\ s \in Seq(Byte) /\ Len(s) = 4
        /\ s[1] = a[1] /\ s[2] = a[2] /\ s[3] = b[1] /\ s[4] = b[2]
    <3>1. s \in Seq(Byte)
      BY <2>2 DEF Joins
    <3> QED BY <2>2, <3>1, JoinedFew
  <2> QED BY <2>1, <2>3
<1>7. PICK abe : /\ abe = ab \o e /\ abe \in Seq(Byte) /\ Len(abe) = 5
                 /\ abe[1] = ab[1] /\ abe[2] = ab[2] /\ abe[3] = ab[3] /\ abe[4] = ab[4]
                 /\ abe[5] = e[1]
  <2>1. PICK s : s = ab \o e
    OBVIOUS
  <2>2. Joins(s, ab, 4, e, 1)
    BY <1>0, <1>5, <1>6, <2>1, Joined, Zenon
  <2>3. /\ s \in Seq(Byte) /\ Len(s) = 5
        /\ s[1] = ab[1] /\ s[2] = ab[2] /\ s[3] = ab[3] /\ s[4] = ab[4]
        /\ s[5] = e[1]
    <3>1. s \in Seq(Byte)
      BY <2>2 DEF Joins
    <3> QED BY <2>2, <3>1, JoinedFew
  <2> QED BY <2>1, <2>3
<1>8. PICK abc : /\ abc = abe \o c /\ abc \in Seq(Byte) /\ Len(abc) = 7
                 /\ abc[1] = abe[1] /\ abc[2] = abe[2] /\ abc[3] = abe[3]
                 /\ abc[4] = abe[4] /\ abc[5] = abe[5]
                 /\ abc[6] = c[1] /\ abc[7] = c[2]
  <2>1. PICK s : s = abe \o c
    OBVIOUS
  <2>2. Joins(s, abe, 5, c, 2)
    BY <1>0, <1>4, <1>7, <2>1, Joined, Zenon
  <2>3. /\ s \in Seq(Byte) /\ Len(s) = 7
        /\ s[1] = abe[1] /\ s[2] = abe[2] /\ s[3] = abe[3]
        /\ s[4] = abe[4] /\ s[5] = abe[5] /\ s[6] = c[1] /\ s[7] = c[2]
    <3>1. s \in Seq(Byte)
      BY <2>2 DEF Joins
    <3> QED BY <2>2, <3>1, JoinedFew
  <2> QED BY <2>1, <2>3
<1>9. PICK s : s = abc \o d /\ s = Hextets(q)
  <2>1. abc = a \o b \o <<Colon>> \o c
    BY <1>5, <1>6, <1>7, <1>8
  <2> QED BY <1>3, <2>1 DEF Hextets
<1>10. Joins(s, abc, 7, d, 2)
  BY <1>0, <1>4, <1>8, <1>9, Joined, Zenon
<1>11. /\ Len(s) = 9
       /\ s[1] = abc[1] /\ s[2] = abc[2] /\ s[3] = abc[3] /\ s[4] = abc[4]
       /\ s[5] = abc[5] /\ s[6] = abc[6] /\ s[7] = abc[7] /\ s[8] = d[1] /\ s[9] = d[2]
  BY <1>10, JoinedFew
<1>12. /\ s[1] = a[1] /\ s[2] = a[2] /\ s[3] = b[1] /\ s[4] = b[2] /\ s[5] = Colon
       /\ s[6] = c[1] /\ s[7] = c[2] /\ s[8] = d[1] /\ s[9] = d[2]
  BY <1>5, <1>6, <1>7, <1>8, <1>11, Zenon
<1> QED BY <1>1, <1>2, <1>3, <1>9, <1>10, <1>11, <1>12, Zenon DEF NineBytes, Joins

\* r is t up to its last colon, c, and then the octets of q as two groups.
Rewritten(t, c, q, r) ==
  /\ c \in ColonsOf(t) /\ \A i \in ColonsOf(t) : i <= c
  /\ Len(r) = c + 10
  /\ \A i \in 0..c : At(r, i) = At(t, i)
  /\ At(r, c + 5) = Colon
  /\ \A i \in ((c + 1)..(c + 9)) \ {c + 5} : IsHexDigit(At(r, i)) /\ At(r, i) # Colon
  /\ \A o \in 0..1 :
       /\ q[o] = 16 * HexToBinary(At(r, c + 1 + 2 * o)) + HexToBinary(At(r, c + 2 + 2 * o))
       /\ q[2 + o] = 16 * HexToBinary(At(r, c + 6 + 2 * o)) + HexToBinary(At(r, c + 7 + 2 * o))

\* Where the last colon is, when there is one.
LEMMA LastColonFacts ==
  ASSUME NEW t \in Seq(Byte), LanesOf(t, Colon) # {}
  PROVE  /\ LanesOf(t, Colon) = ColonsOf(t)
         /\ LastColon(t) \in ColonsOf(t) /\ \A i \in ColonsOf(t) : i <= LastColon(t)
         /\ LastColon(t) \in 0..(Len(t) - 1) /\ t[LastColon(t) + 1] = Colon
<1>1. LanesOf(t, Colon) = ColonsOf(t)
  BY DEF LanesOf, ColonsOf
<1>2. PICK L \in Nat : L = Len(t)
  BY TextBytes
<1>3. ColonsOf(t) \subseteq 0..L
  <2>1. \A i \in ColonsOf(t) : i \in 0..(L - 1)
    BY <1>2, SeparatorFacts
  <2>2. \A i \in 0..(L - 1) : i \in 0..L
    BY ONLY L \in Nat
  <2> QED BY <2>1, <2>2
<1>4. \E i \in ColonsOf(t) : \A j \in ColonsOf(t) : j <= i
  BY <1>1, <1>3, GreatestNumber
<1>5. LastColon(t) \in ColonsOf(t) /\ \A i \in ColonsOf(t) : i <= LastColon(t)
  BY <1>1, <1>4, Zenon DEF LastColon
<1>6. LastColon(t) \in 0..(Len(t) - 1) /\ t[LastColon(t) + 1] = Colon
  BY <1>5, SeparatorFacts DEF ColonsOf, At
<1> QED BY <1>1, <1>5, <1>6

LEMMA RewriteIs ==
  ASSUME NEW t \in Seq(Byte), LanesOf(t, Colon) # {}, NEW q \in [0..3 -> Byte]
  PROVE  /\ Prefix(t) \o Hextets(q) \in Seq(Byte) /\ Len(Prefix(t)) = LastColon(t) + 1
         /\ Rewritten(t, LastColon(t), q, Prefix(t) \o Hextets(q))
<1>1. PICK L \in Nat : L = Len(t)
  BY TextBytes
<1>2. PICK c \in 0..(L - 1) : /\ c = LastColon(t) /\ c \in ColonsOf(t)
                             /\ \A i \in ColonsOf(t) : i <= c
  BY <1>1, LastColonFacts
<1>3. PICK m \in Nat : m = c + 1 /\ m \in 1..L
  <2>1. c + 1 \in Nat /\ c + 1 \in 1..L
    OBVIOUS
  <2> QED BY <2>1
<1>4. PICK p : p = Prefix(t) /\ p \in Seq(Byte) /\ Len(p) = m /\ \A i \in 1..m : p[i] = t[i]
  <2>1. Prefix(t) = SubSeq(t, 1, m)
    BY <1>2, <1>3 DEF Prefix
  <2>2. \A i \in 1..m : t[i] \in Byte
    <3>1. \A i \in 1..L : t[i] \in Byte
      BY <1>1
    <3>2. \A i \in 1..m : i \in 1..L
      BY <1>3
    <3> QED BY <3>1, <3>2
  <2>3. 1 \in Int /\ m \in Int /\ 1 <= m
    BY <1>3
  <2>4. /\ SubSeq(t, 1, m) \in Seq(Byte)
        /\ Len(SubSeq(t, 1, m)) = IF 1 <= m THEN m - 1 + 1 ELSE 0
        /\ \A i \in 1..(m - 1 + 1) : SubSeq(t, 1, m)[i] = t[1 + i - 1]
    BY <2>2, <2>3, SubSeqProperties
  <2>5. m - 1 + 1 = m /\ \A i \in 1..m : 1 + i - 1 = i
    OBVIOUS
  <2> QED BY <2>1, <2>3, <2>4, <2>5
<1>5. PICK x : x = Hextets(q) /\ NineBytes(x, q)
  BY HextetsAreNine
<1>6. PICK r : r = Prefix(t) \o Hextets(q) /\ Joins(r, p, m, x, 9)
  <2>1. x \in Seq(Byte) /\ Len(x) = 9 /\ 9 \in Nat
    BY <1>5 DEF NineBytes
  <2> QED BY <1>4, <1>5, <2>1, Joined, Zenon
<1>7. r \in Seq(Byte) /\ Len(r) = c + 10
  <2>1. m + 9 = c + 10
    BY <1>3
  <2> QED BY <1>6, <2>1, Zenon DEF Joins
<1>8. ASSUME NEW i \in 0..c PROVE At(r, i) = At(t, i)
  <2>1. i + 1 \in 1..m
    BY <1>3
  <2> QED BY <1>4, <1>6, <2>1, Zenon DEF Joins, At
<1>9. ASSUME NEW j \in 1..9 PROVE At(r, c + j) = x[j]
  <2>1. c + j + 1 = m + j
    BY <1>3
  <2>2. r[m + j] = x[j]
    BY <1>6, Zenon DEF Joins
  <2> QED BY <2>1, <2>2, Zenon DEF At
<1>10. /\ At(r, c + 1) = x[1] /\ At(r, c + 2) = x[2] /\ At(r, c + 3) = x[3]
       /\ At(r, c + 4) = x[4] /\ At(r, c + 5) = x[5] /\ At(r, c + 6) = x[6]
       /\ At(r, c + 7) = x[7] /\ At(r, c + 8) = x[8] /\ At(r, c + 9) = x[9]
  BY <1>9
<1>11. ASSUME NEW k \in 0..3, NEW i, NEW j, i \in Int, j = i + 1,
              At(r, i) = HexDigit(q[k] \div 16), At(r, j) = HexDigit(q[k] % 16)
       PROVE  /\ IsHexDigit(At(r, i)) /\ At(r, i) # Colon
              /\ IsHexDigit(At(r, j)) /\ At(r, j) # Colon
              /\ q[k] = 16 * HexToBinary(At(r, i)) + HexToBinary(At(r, j))
  <2>1. PICK d \in 0..15, e \in 0..15 :
          q[k] \div 16 = d /\ q[k] % 16 = e /\ q[k] = 16 * d + e
    <3>1. q[k] \in Byte
      OBVIOUS
    <3> QED BY <3>1, Nibbles
  <2>2. At(r, i) = HexDigit(d) /\ At(r, j) = HexDigit(e)
    BY <1>11, <2>1
  <2> QED BY <2>1, <2>2, HexDigitIsHex
<1>12. /\ At(r, c + 1) = HexDigit(q[0] \div 16) /\ At(r, c + 2) = HexDigit(q[0] % 16)
       /\ At(r, c + 3) = HexDigit(q[1] \div 16) /\ At(r, c + 4) = HexDigit(q[1] % 16)
       /\ At(r, c + 5) = Colon
       /\ At(r, c + 6) = HexDigit(q[2] \div 16) /\ At(r, c + 7) = HexDigit(q[2] % 16)
       /\ At(r, c + 8) = HexDigit(q[3] \div 16) /\ At(r, c + 9) = HexDigit(q[3] % 16)
  BY <1>5, <1>10, Zenon DEF NineBytes
<1>13. /\ IsHexDigit(At(r, c + 1)) /\ At(r, c + 1) # Colon
       /\ IsHexDigit(At(r, c + 2)) /\ At(r, c + 2) # Colon
       /\ q[0] = 16 * HexToBinary(At(r, c + 1)) + HexToBinary(At(r, c + 2))
  <2>1. 0 \in 0..3 /\ c + 1 \in Int /\ c + 2 = c + 1 + 1
    OBVIOUS
  <2> QED BY <1>11, <1>12, <2>1
<1>14. /\ IsHexDigit(At(r, c + 3)) /\ At(r, c + 3) # Colon
       /\ IsHexDigit(At(r, c + 4)) /\ At(r, c + 4) # Colon
       /\ q[1] = 16 * HexToBinary(At(r, c + 3)) + HexToBinary(At(r, c + 4))
  <2>1. 1 \in 0..3 /\ c + 3 \in Int /\ c + 4 = c + 3 + 1
    OBVIOUS
  <2> QED BY <1>11, <1>12, <2>1
<1>15. /\ IsHexDigit(At(r, c + 6)) /\ At(r, c + 6) # Colon
       /\ IsHexDigit(At(r, c + 7)) /\ At(r, c + 7) # Colon
       /\ q[2] = 16 * HexToBinary(At(r, c + 6)) + HexToBinary(At(r, c + 7))
  <2>1. 2 \in 0..3 /\ c + 6 \in Int /\ c + 7 = c + 6 + 1
    OBVIOUS
  <2> QED BY <1>11, <1>12, <2>1
<1>16. /\ IsHexDigit(At(r, c + 8)) /\ At(r, c + 8) # Colon
       /\ IsHexDigit(At(r, c + 9)) /\ At(r, c + 9) # Colon
       /\ q[3] = 16 * HexToBinary(At(r, c + 8)) + HexToBinary(At(r, c + 9))
  <2>1. 3 \in 0..3 /\ c + 8 \in Int /\ c + 9 = c + 8 + 1
    OBVIOUS
  <2> QED BY <1>11, <1>12, <2>1
<1>17. ASSUME NEW i \in ((c + 1)..(c + 9)) \ {c + 5}
       PROVE  IsHexDigit(At(r, i)) /\ At(r, i) # Colon
  <2>1. i \in {c + 1, c + 2, c + 3, c + 4, c + 6, c + 7, c + 8, c + 9}
    OBVIOUS
  <2> QED BY <1>13, <1>14, <1>15, <1>16, <2>1, Zenon
<1>18. ASSUME NEW o \in 0..1
       PROVE  /\ q[o] = 16 * HexToBinary(At(r, c + 1 + 2 * o)) + HexToBinary(At(r, c + 2 + 2 * o))
              /\ q[2 + o] = 16 * HexToBinary(At(r, c + 6 + 2 * o)) + HexToBinary(At(r, c + 7 + 2 * o))
  <2>1. CASE o = 0
    <3>1. /\ c + 1 + 2 * o = c + 1 /\ c + 2 + 2 * o = c + 2 /\ 2 + o = 2
          /\ c + 6 + 2 * o = c + 6 /\ c + 7 + 2 * o = c + 7
      BY <2>1
    <3> QED BY <1>13, <1>15, <2>1, <3>1, Zenon
  <2>2. CASE o = 1
    <3>1. /\ c + 1 + 2 * o = c + 3 /\ c + 2 + 2 * o = c + 4 /\ 2 + o = 3
          /\ c + 6 + 2 * o = c + 8 /\ c + 7 + 2 * o = c + 9
      BY <2>2
    <3> QED BY <1>14, <1>16, <2>2, <3>1, Zenon
  <2> QED BY <2>1, <2>2
<1>19. Rewritten(t, c, q, r)
  BY <1>2, <1>7, <1>8, <1>12, <1>17, <1>18, Zenon DEF Rewritten
<1>20. Len(p) = c + 1
  BY <1>3, <1>4, Zenon
<1> QED BY <1>2, <1>4, <1>6, <1>7, <1>19, <1>20, Zenon

\* The fields of the rewritten text: those of t but the last, and two of four.
SplitsLast(t, c, r, F) ==
  /\ F \in Nat /\ F >= 2 /\ Fields(t) = F /\ Fields(r) = F + 1
  /\ \A k \in 0..(F - 1) : Cut(r, k) = Cut(t, k)
  /\ Cut(t, F - 1) = c /\ Cut(r, F) = c + 5 /\ Cut(r, F + 1) = c + 10

LEMMA RewriteColons ==
  ASSUME NEW t \in Seq(Byte), NEW r \in Seq(Byte), NEW c, NEW q, Rewritten(t, c, q, r)
  PROVE  /\ c \in Nat /\ c \in ColonsOf(t) /\ \A i \in ColonsOf(t) : i \in 0..c
         /\ ColonsOf(r) = ColonsOf(t) \cup {c + 5}
         /\ \A i : i \in Places(r) <=> i \in 0..(c + 9)
         /\ \A i \in 0..c : i \in Places(t) /\ i \in Places(r)
<1>1. PICK L \in Nat : L = Len(t)
  BY TextBytes
<1>2. c \in 0..(L - 1) /\ c \in ColonsOf(t)
  BY <1>1, SeparatorFacts DEF Rewritten
<1>3. \A i \in ColonsOf(t) : i \in 0..c
  <2>1. \A i \in ColonsOf(t) : i \in 0..(L - 1) /\ i <= c
    BY <1>1, SeparatorFacts DEF Rewritten
  <2> QED BY ONLY <1>2, <2>1, L \in Nat
<1>4. Places(r) = 0..(c + 9)
  <2>1. Len(r) = c + 10
    BY DEF Rewritten
  <2>2. Len(r) - 1 = c + 9
    BY <1>2, <2>1
  <2>3. Places(r) = 0..(Len(r) - 1)
    BY DEF Places
  <2> QED BY <2>2, <2>3
<1>5. \A i \in 0..c : i \in Places(t) /\ i \in 0..(c + 9)
  <2>1. Places(t) = 0..(L - 1)
    BY <1>1 DEF Places
  <2>2. \A i \in 0..c : i \in 0..(L - 1) /\ i \in 0..(c + 9)
    BY ONLY <1>2, L \in Nat
  <2> QED BY <2>1, <2>2
<1>6. ASSUME NEW i \in ColonsOf(r) PROVE i \in ColonsOf(t) \cup {c + 5}
  <2>1. i \in 0..(c + 9) /\ At(r, i) = Colon
    BY <1>4 DEF ColonsOf
  <2>2. i \in 0..c \/ i = c + 5 \/ i \in ((c + 1)..(c + 9)) \ {c + 5}
    BY ONLY <1>2, <2>1
  <2>3. CASE i \in 0..c
    <3>1. At(t, i) = Colon
      BY <2>1, <2>3 DEF Rewritten
    <3> QED BY <1>5, <2>3, <3>1 DEF ColonsOf
  <2>4. i \notin ((c + 1)..(c + 9)) \ {c + 5}
    BY <2>1 DEF Rewritten
  <2> QED BY <2>2, <2>3, <2>4
<1>7. ASSUME NEW i \in ColonsOf(t) \cup {c + 5} PROVE i \in ColonsOf(r)
  <2>1. CASE i \in ColonsOf(t)
    <3>1. i \in 0..c /\ At(t, i) = Colon
      BY <1>3, <2>1 DEF ColonsOf
    <3>2. At(r, i) = Colon
      BY <3>1 DEF Rewritten
    <3> QED BY <1>4, <1>5, <3>1, <3>2 DEF ColonsOf
  <2>2. CASE i = c + 5
    <3>1. i \in 0..(c + 9)
      BY <1>2, <2>2
    <3>2. At(r, i) = Colon
      BY <2>2 DEF Rewritten
    <3> QED BY <1>4, <3>1, <3>2 DEF ColonsOf
  <2> QED BY <2>1, <2>2
<1>8. ColonsOf(r) = ColonsOf(t) \cup {c + 5}
  BY <1>6, <1>7
<1>9. c \in Nat
  BY <1>2
<1> QED BY <1>2, <1>3, <1>4, <1>5, <1>8, <1>9

LEMMA RewriteFields ==
  ASSUME NEW t \in Seq(Byte), NEW r \in Seq(Byte), NEW c, NEW q, Rewritten(t, c, q, r)
  PROVE  \E F \in Nat : SplitsLast(t, c, r, F)
<1>1. /\ c \in Nat /\ c \in ColonsOf(t) /\ \A i \in ColonsOf(t) : i \in 0..c
      /\ ColonsOf(r) = ColonsOf(t) \cup {c + 5}
  BY RewriteColons
<1>2. PICK C : C = ColonsOf(t) /\ C \in SUBSET Nat /\ IsFiniteSet(C)
  BY SeparatorFacts
<1>3. PICK F \in Nat \ {0} : F = Fields(t) /\ Cardinality(C) = F - 1
  BY <1>2, SeparatorFacts
<1>4. c + 5 \notin C
  BY <1>1, <1>2
<1>5. Cardinality(C \cup {c + 5}) = F - 1 + 1
  BY <1>2, <1>3, <1>4, FS_AddElement
<1>6. Fields(r) = F + 1
  <2>1. Fields(r) = F - 1 + 1 + 1
    BY <1>1, <1>2, <1>5 DEF Fields
  <2> QED BY <2>1
<1>7. \A i \in C : {j \in C \cup {c + 5} : j < i} = {j \in C : j < i}
  <2> SUFFICES ASSUME NEW i \in C PROVE ~ (c + 5 < i)
    OBVIOUS
  <2>1. i \in 0..c
    BY <1>1, <1>2
  <2> QED BY <1>1, <2>1
<1>8. \A i \in C : RankIn(ColonsOf(r), i) = RankIn(ColonsOf(t), i)
  BY <1>1, <1>2, <1>7 DEF RankIn
<1>9. F >= 2
  <2>1. C # {}
    BY <1>1, <1>2
  <2>2. Cardinality(C) # 0
    BY <1>2, <2>1, FS_EmptySet
  <2> QED BY <1>3, <2>2
<1>10. ASSUME NEW k \in 1..(F - 1) PROVE Cut(r, k) = Cut(t, k)
  <2>1. PICK i \in C : i = Cut(t, k)
    BY <1>2, <1>3, Cuts
  <2>2. PICK e \in 0..(F - 2) : e = RankIn(ColonsOf(t), i) /\ Cut(t, e + 1) = i
    BY <1>2, <1>3, Cuts
  <2>3. k = e + 1
    <3>1. k \in 0..F /\ e + 1 \in 0..F
      BY <1>9
    <3> QED BY <1>3, <2>1, <2>2, <3>1, OneCut
  <2>4. Cut(r, RankIn(ColonsOf(r), i) + 1) = i
    <3>1. i \in ColonsOf(r)
      BY <1>1, <1>2
    <3> QED BY <3>1, Cuts
  <2> QED BY <1>8, <2>1, <2>2, <2>3, <2>4
<1>11. \A k \in 0..(F - 1) : Cut(r, k) = Cut(t, k)
  <2> SUFFICES ASSUME NEW k \in 0..(F - 1) PROVE Cut(r, k) = Cut(t, k)
    OBVIOUS
  <2>1. CASE k = 0
    BY <2>1 DEF Cut
  <2>2. CASE k # 0
    <3>1. k \in 1..(F - 1)
      BY <2>2
    <3> QED BY <1>10, <3>1
  <2> QED BY <2>1, <2>2
<1>12. Cut(t, F - 1) = c
  <2>1. PICK e \in 0..(F - 2) : e = RankIn(ColonsOf(t), c) /\ Cut(t, e + 1) = c
    BY <1>1, <1>3, Cuts
  <2>2. CASE e + 1 = F - 1
    BY <2>1, <2>2
  <2>3. CASE e + 1 # F - 1
    <3>1. e + 1 \in 0..F /\ F - 1 \in 0..F /\ F - 1 \in 1..(F - 1) /\ e + 1 < F - 1
      BY <1>9, <2>3
    <3>2. PICK x \in 0..c : x = Cut(t, F - 1)
      <4>1. Cut(t, F - 1) \in ColonsOf(t)
        BY <1>3, <3>1, Cuts
      <4> QED BY <1>1, <4>1
    <3>3. c < x
      BY <1>3, <2>1, <3>1, <3>2, Cuts
    <3> QED BY <1>1, <3>2, <3>3
  <2> QED BY <2>2, <2>3
<1>13. Cut(r, F) = c + 5
  <2>1. {j \in C \cup {c + 5} : j < c + 5} = C
    <3>1. \A j \in C : j < c + 5
      <4>1. \A j \in C : j \in 0..c
        BY <1>1, <1>2
      <4> QED BY <1>1, <4>1
    <3>2. ~ (c + 5 < c + 5)
      BY <1>1
    <3> QED BY <3>1, <3>2
  <2>2. RankIn(ColonsOf(r), c + 5) = F - 1
    BY <1>1, <1>2, <1>3, <2>1 DEF RankIn
  <2>3. Cut(r, RankIn(ColonsOf(r), c + 5) + 1) = c + 5
    <3>1. c + 5 \in ColonsOf(r)
      BY <1>1
    <3> QED BY <3>1, Cuts
  <2>4. F - 1 + 1 = F
    OBVIOUS
  <2> QED BY <2>2, <2>3, <2>4
<1>14. Cut(r, F + 1) = c + 10
  <2>1. Len(r) = c + 10
    BY DEF Rewritten
  <2> QED BY <1>6, <2>1, Cuts
<1>15. F \in Nat
  OBVIOUS
<1> QED BY <1>3, <1>6, <1>9, <1>11, <1>12, <1>13, <1>14, <1>15, Zenon DEF SplitsLast

LEMMA RewritePitches ==
  ASSUME NEW t, NEW r, NEW c \in Nat, NEW F, SplitsLast(t, c, r, F)
  PROVE  /\ \A k \in 0..(F - 2) : Pitch(r, k) = Pitch(t, k)
         /\ Pitch(r, F - 1) = 5 /\ Pitch(r, F) = 5
<1>1. F \in Nat /\ F >= 2
  BY DEF SplitsLast
<1>2. ASSUME NEW k \in 0..(F - 2) PROVE Pitch(r, k) = Pitch(t, k)
  <2>1. k \in 0..(F - 1) /\ k + 1 \in 0..(F - 1)
    BY <1>1
  <2>2. Cut(r, k) = Cut(t, k) /\ Cut(r, k + 1) = Cut(t, k + 1)
    BY <2>1 DEF SplitsLast
  <2> QED BY <2>2 DEF Pitch
<1>3. Cut(r, F - 1) = c
  <2>1. F - 1 \in 0..(F - 1)
    BY <1>1
  <2> QED BY <2>1 DEF SplitsLast
<1>4. Pitch(r, F - 1) = 5
  <2>1. F - 1 + 1 = F
    BY <1>1
  <2>2. Pitch(r, F - 1) = c + 5 - c
    BY <1>3, <2>1 DEF Pitch, SplitsLast
  <2> QED BY <2>2
<1>5. Pitch(r, F) = 5
  <2>1. Pitch(r, F) = c + 10 - (c + 5)
    BY DEF Pitch, SplitsLast
  <2> QED BY <2>1
<1> QED BY <1>2, <1>4, <1>5

LEMMA RewriteHex ==
  ASSUME NEW t \in Seq(Byte), NEW r \in Seq(Byte), NEW c, NEW q, Rewritten(t, c, q, r),
         NEW F, SplitsLast(t, c, r, F)
  PROVE  HexElsewhere(r) <=> HexBeforeLast(t)
<1>1. /\ c \in Nat /\ c \in ColonsOf(t) /\ \A i \in ColonsOf(t) : i \in 0..c
      /\ ColonsOf(r) = ColonsOf(t) \cup {c + 5}
      /\ \A i : i \in Places(r) <=> i \in 0..(c + 9)
      /\ \A i \in 0..c : i \in Places(t) /\ i \in Places(r)
  BY RewriteColons
<1>2. HexBeforeLast(t) <=> \A i \in Places(t) \ ColonsOf(t) : i < c => IsHexDigit(At(t, i))
  BY DEF HexBeforeLast, SplitsLast
<1>3. \A i \in 0..c : At(r, i) = At(t, i)
  BY DEF Rewritten
<1>4. ASSUME HexElsewhere(r), NEW i \in Places(t) \ ColonsOf(t), i < c
      PROVE  IsHexDigit(At(t, i))
  <2>1. i \in 0..c /\ i # c + 5
    <3>1. i \in Nat
      BY DEF Places
    <3> QED BY <1>1, <1>4, <3>1
  <2>2. i \in Places(r) \ ColonsOf(r)
    BY <1>1, <2>1
  <2> QED BY <1>3, <1>4, <2>1, <2>2 DEF HexElsewhere
<1>5. ASSUME HexBeforeLast(t), NEW i \in Places(r) \ ColonsOf(r)
      PROVE  IsHexDigit(At(r, i))
  <2>1. i \in 0..(c + 9) /\ i # c + 5 /\ i # c
    BY <1>1
  <2>2. i \in ((c + 1)..(c + 9)) \ {c + 5} \/ (i \in 0..c /\ i < c)
    BY ONLY <1>1, <2>1
  <2>3. CASE i \in ((c + 1)..(c + 9)) \ {c + 5}
    BY <2>3 DEF Rewritten
  <2>4. CASE i \in 0..c /\ i < c
    <3>1. i \in Places(t) \ ColonsOf(t)
      BY <1>1, <2>4
    <3> QED BY <1>2, <1>3, <1>5, <2>4, <3>1
  <2> QED BY <2>2, <2>3, <2>4
<1> QED BY <1>2, <1>4, <1>5 DEF HexElsewhere

\* The bytes of the fields: the same, and the octets.
OctetsLast(t, q, r, F, b, o) ==
  /\ \A k \in 0..(F - 2) : FieldByte(r, k, b) = FieldByte(t, k, b)
  /\ FieldByte(r, F - 1, b) = q[o] /\ FieldByte(r, F, b) = q[2 + o]

LEMMA RewriteBytes ==
  ASSUME NEW t \in Seq(Byte), NEW r \in Seq(Byte), NEW c, NEW q, Rewritten(t, c, q, r),
         NEW F, SplitsLast(t, c, r, F), NEW b \in 0..15, NEW o \in 0..1, b % 2 = o
  PROVE  OctetsLast(t, q, r, F, b, o)
<1>1. c \in Nat
  BY RewriteColons
<1>2. F \in Nat /\ F >= 2 /\ Fields(t) = F /\ Cut(r, F - 1) = c
  <2>1. F \in Nat /\ F >= 2
    BY DEF SplitsLast
  <2>2. F - 1 \in 0..(F - 1)
    BY <2>1
  <2> QED BY <2>1, <2>2 DEF SplitsLast
<1>3. b % 2 = o
  OBVIOUS
<1>4. \A i \in 0..c : At(r, i) = At(t, i)
  BY DEF Rewritten
<1>5. ASSUME NEW k \in 0..(F - 2) PROVE FieldByte(r, k, b) = FieldByte(t, k, b)
  <2>1. k \in 0..F /\ k + 1 \in 0..F /\ k \in 0..(F - 1) /\ k + 1 \in 0..(F - 1)
        /\ k < k + 1 /\ F - 1 \in 0..F
    BY <1>2
  <2>2. PICK lo \in Int, hi \in Int :
          /\ lo = Cut(t, k) /\ hi = Cut(t, k + 1) /\ lo = Cut(r, k) /\ hi = Cut(r, k + 1)
          /\ -1 <= lo /\ hi <= c
    <3>1. Cut(t, k) \in -1..Len(t) /\ Cut(t, k + 1) \in -1..Len(t) /\ Len(t) \in Nat
      BY <1>2, <2>1, Cuts
    <3>2. Cut(t, k) \in Int /\ -1 <= Cut(t, k) /\ Cut(t, k + 1) \in Int
      BY ONLY <3>1
    <3>3. k + 1 < F - 1 => Cut(t, k + 1) < Cut(t, F - 1)
      BY <1>2, <2>1, Cuts
    <3>4. Cut(t, F - 1) = c
      BY DEF SplitsLast
    <3>5. k + 1 = F - 1 \/ k + 1 < F - 1
      BY <1>2
    <3>6. Cut(t, k + 1) <= c
      <4>1. CASE k + 1 = F - 1
        BY <1>1, <3>4, <4>1
      <4>2. CASE k + 1 < F - 1
        BY <1>1, <3>2, <3>3, <3>4, <4>2
      <4> QED BY <3>5, <4>1, <4>2
    <3>7. Cut(r, k) = Cut(t, k) /\ Cut(r, k + 1) = Cut(t, k + 1)
      BY <2>1 DEF SplitsLast
    <3> QED BY <3>2, <3>6, <3>7
  <2>3. ASSUME NEW j \in 0..3 PROVE DigitIn(r, lo, hi, j) = DigitIn(t, lo, hi, j)
    <3>1. PICK i \in Int : i = hi - 4 + j
      BY <2>2
    <3>2. i > lo => i \in 0..c
      <4>1. -1 <= lo /\ hi <= c
        BY <2>2
      <4> QED BY ONLY <1>1, <3>1, <4>1, lo \in Int, hi \in Int, i \in Int, j \in 0..3
    <3>3. /\ DigitIn(r, lo, hi, j) = IF i > lo THEN HexToBinary(At(r, i)) ELSE 0
          /\ DigitIn(t, lo, hi, j) = IF i > lo THEN HexToBinary(At(t, i)) ELSE 0
      BY <3>1 DEF DigitIn
    <3> QED BY <1>4, <3>2, <3>3
  <2>4. 2 * o \in 0..3 /\ 2 * o + 1 \in 0..3
    OBVIOUS
  <2>5. GroupByte(r, lo, hi, o) = GroupByte(t, lo, hi, o)
    BY <2>3, <2>4 DEF GroupByte
  <2> QED BY <1>3, <2>2, <2>5 DEF FieldByte
<1>6. ASSUME NEW x \in Nat, c <= x
      PROVE  GroupByte(r, x, x + 5, o)
               = 16 * HexToBinary(At(r, x + 1 + 2 * o)) + HexToBinary(At(r, x + 2 + 2 * o))
  <2>1. /\ x + 5 - 4 + 2 * o = x + 1 + 2 * o /\ x + 5 - 4 + (2 * o + 1) = x + 2 + 2 * o
        /\ x + 1 + 2 * o > x /\ x + 2 + 2 * o > x
    OBVIOUS
  <2>2. /\ DigitIn(r, x, x + 5, 2 * o) = HexToBinary(At(r, x + 1 + 2 * o))
        /\ DigitIn(r, x, x + 5, 2 * o + 1) = HexToBinary(At(r, x + 2 + 2 * o))
    BY <2>1 DEF DigitIn
  <2> QED BY <2>2 DEF GroupByte
<1>7. FieldByte(r, F - 1, b) = q[o]
  <2>1. F - 1 + 1 = F
    BY <1>2
  <2>2. FieldByte(r, F - 1, b) = GroupByte(r, c, c + 5, o)
    BY <1>2, <1>3, <2>1 DEF FieldByte, SplitsLast
  <2>3. c <= c
    BY <1>1
  <2>4. q[o] = 16 * HexToBinary(At(r, c + 1 + 2 * o)) + HexToBinary(At(r, c + 2 + 2 * o))
    BY DEF Rewritten
  <2> QED BY <1>1, <1>3, <1>6, <2>2, <2>3, <2>4
<1>8. FieldByte(r, F, b) = q[2 + o]
  <2>1. PICK x \in Nat : x = c + 5 /\ c <= x
    BY <1>1
  <2>2. x + 5 = c + 10 /\ x + 1 + 2 * o = c + 6 + 2 * o /\ x + 2 + 2 * o = c + 7 + 2 * o
    BY <1>1, <2>1
  <2>3. FieldByte(r, F, b) = GroupByte(r, x, x + 5, o)
    BY <1>3, <2>1, <2>2 DEF FieldByte, SplitsLast
  <2>4. q[2 + o] = 16 * HexToBinary(At(r, c + 6 + 2 * o)) + HexToBinary(At(r, c + 7 + 2 * o))
    BY DEF Rewritten
  <2>5. PICK i, j : i = x + 1 + 2 * o /\ j = x + 2 + 2 * o
    OBVIOUS
  <2>6. GroupByte(r, x, x + 5, o) = 16 * HexToBinary(At(r, i)) + HexToBinary(At(r, j))
    BY <1>6, <2>1, <2>5
  <2>7. q[2 + o] = 16 * HexToBinary(At(r, i)) + HexToBinary(At(r, j))
    BY <2>2, <2>4, <2>5
  <2> QED BY <2>3, <2>6, <2>7
<1> QED BY <1>5, <1>7, <1>8, Zenon DEF OctetsLast

\* Eight groups are six and the quad.
LEMMA RewriteEight ==
  ASSUME NEW t \in Seq(Byte), NEW r \in Seq(Byte), NEW c, NEW q, Rewritten(t, c, q, r),
         NEW F, SplitsLast(t, c, r, F)
  PROVE  /\ EightGroups(r) <=> SixAndQuad(t)
         /\ SixAndQuad(t) => EightBytes(r) = BytesWithQuad(t, 6, 0, q)
<1>1. F \in Nat /\ F >= 2 /\ Fields(t) = F /\ Fields(r) = F + 1
  BY DEF SplitsLast
<1>2. c \in Nat
  BY RewriteColons
<1>3. /\ \A k \in 0..(F - 2) : Pitch(r, k) = Pitch(t, k)
      /\ Pitch(r, F - 1) = 5 /\ Pitch(r, F) = 5
  BY <1>2, RewritePitches
<1>4. HexElsewhere(r) <=> HexBeforeLast(t)
  BY RewriteHex
<1>5. Fields(r) = 8 <=> F = 7
  BY <1>1
<1>6. ASSUME F = 7
      PROVE  (\A k \in 0..7 : Pitch(r, k) \in 2..5) <=> \A k \in 0..5 : Pitch(t, k) \in 2..5
  <2>1. \A k \in 0..5 : Pitch(r, k) = Pitch(t, k)
    <3>1. \A k \in 0..5 : k \in 0..(F - 2)
      BY <1>6
    <3> QED BY <1>3, <3>1
  <2>2. Pitch(r, 6) = 5 /\ Pitch(r, 7) = 5
    BY <1>3, <1>6
  <2>3. \A k \in 0..7 : k \in 0..5 \/ k = 6 \/ k = 7
    OBVIOUS
  <2>4. \A k \in 0..5 : k \in 0..7
    OBVIOUS
  <2> QED BY <2>1, <2>2, <2>3, <2>4
<1>7. EightGroups(r) <=> SixAndQuad(t)
  BY <1>1, <1>4, <1>5, <1>6 DEF EightGroups, SixAndQuad
<1>8. ASSUME F = 7, NEW b \in 0..15
      PROVE  EightBytes(r)[b] = BytesWithQuad(t, 6, 0, q)[b]
  <2>1. PICK g \in 0..7, o \in 0..1 : b = 2 * g + o /\ b \div 2 = g /\ b % 2 = o
    BY SlotOfByte
  <2>0. b % 2 = o
    BY <2>1
  <2>2. EightBytes(r)[b] = FieldByte(r, g, b)
    BY <2>1 DEF EightBytes
  <2>3. BytesWithQuad(t, 6, 0, q)[b] = IF g < 6 THEN FieldByte(t, g, b) ELSE q[b - 12]
    BY <2>1 DEF BytesWithQuad
  <2>4. /\ \A k \in 0..(F - 2) : FieldByte(r, k, b) = FieldByte(t, k, b)
        /\ FieldByte(r, F - 1, b) = q[o] /\ FieldByte(r, F, b) = q[2 + o]
    <3>1. OctetsLast(t, q, r, F, b, o)
      BY <2>0, RewriteBytes
    <3> QED BY <3>1, Zenon DEF OctetsLast
  <2>5. CASE g < 6
    <3>1. g \in 0..(F - 2)
      BY <1>8, <2>5
    <3> QED BY <2>2, <2>3, <2>4, <2>5, <3>1
  <2>6. CASE g = 6
    <3>1. b - 12 = o /\ g = F - 1 /\ ~ (g < 6)
      BY <1>8, <2>1, <2>6
    <3> QED BY <2>2, <2>3, <2>4, <3>1
  <2>7. CASE g = 7
    <3>1. b - 12 = 2 + o /\ g = F /\ ~ (g < 6)
      BY <1>8, <2>1, <2>7
    <3> QED BY <2>2, <2>3, <2>4, <3>1
  <2> QED BY <2>5, <2>6, <2>7
<1>9. F = 7 => EightBytes(r) = BytesWithQuad(t, 6, 0, q)
  BY <1>8 DEF EightBytes, BytesWithQuad
<1> QED BY <1>1, <1>7, <1>9 DEF SixAndQuad

\* h groups, "::" and n groups are h groups, "::", n - 2 groups and the quad.
LEMMA RewriteAround ==
  ASSUME NEW t \in Seq(Byte), NEW r \in Seq(Byte), NEW c, NEW q, Rewritten(t, c, q, r),
         NEW F, SplitsLast(t, c, r, F), NEW h \in Nat
  PROVE  /\ ~GroupsAround(r, h, 0) /\ ~GroupsAround(r, h, 1)
         /\ \A m \in Nat : GroupsAround(r, h, m + 2) <=> QuadAround(t, h, m)
<1>1. F \in Nat /\ F >= 2 /\ Fields(t) = F /\ Fields(r) = F + 1 /\ Fields(r) - 1 = F
  BY DEF SplitsLast
<1>2. c \in Nat
  BY RewriteColons
<1>3. /\ \A k \in 0..(F - 2) : Pitch(r, k) = Pitch(t, k)
      /\ Pitch(r, F - 1) = 5 /\ Pitch(r, F) = 5
  BY <1>2, RewritePitches
<1>4. HexElsewhere(r) <=> HexBeforeLast(t)
  BY RewriteHex
<1>5. PICK d \in Nat : d = AtLeastOne(h) /\ h <= d /\ d > 0
  BY DEF AtLeastOne
<1>6. ~GroupsAround(r, h, 0)
  <2> SUFFICES ASSUME GroupsAround(r, h, 0) PROVE FALSE
    OBVIOUS
  <2>1. Fields(r) = d + 1 + 1
    BY <1>5 DEF GroupsAround, AtLeastOne
  <2>2. F = d + 1 /\ F \in 0..F
    BY <1>1, <1>5, <2>1
  <2>3. F \notin Blocks(h, d + 1, 0)
    BY ONLY <1>5, <2>2, h \in Nat DEF Blocks
  <2>4. Pitch(r, F) \in {1}
    BY <1>1, <1>5, <2>2, <2>3 DEF GroupsAround
  <2> QED BY <1>3, <2>4
<1>7. ~GroupsAround(r, h, 1)
  <2> SUFFICES ASSUME GroupsAround(r, h, 1) PROVE FALSE
    OBVIOUS
  <2>1. Fields(r) = d + 1 + 1
    BY <1>5 DEF GroupsAround, AtLeastOne
  <2>2. F - 1 = d /\ d \in 0..F
    BY <1>1, <1>5, <2>1
  <2>3. d \notin Blocks(h, d + 1, 1)
    BY ONLY <1>5, h \in Nat DEF Blocks
  <2>4. Pitch(r, d) \in {1}
    BY <1>1, <1>5, <2>2, <2>3 DEF GroupsAround
  <2> QED BY <1>3, <2>2, <2>4
<1>8. ASSUME NEW m \in Nat
      PROVE  GroupsAround(r, h, m + 2) <=> QuadAround(t, h, m)
  <2>1. PICK n \in Nat : n = m + 2
    OBVIOUS
  <2>2. AtLeastOne(n) = n
    BY <2>1 DEF AtLeastOne
  <2>3. h + n <= 7 <=> h + m <= 5
    BY <2>1
  <2>4. F + 1 = d + 1 + n <=> F = d + 1 + m + 1
    BY <1>1, <2>1
  <2>5. ASSUME F = d + 1 + m + 1
        PROVE  (\A k \in 0..F : Pitch(r, k) \in IF k \in Blocks(h, d + 1, n) THEN 2..5 ELSE {1})
                <=> \A k \in 0..(F - 2) :
                      Pitch(t, k) \in IF k \in Blocks(h, d + 1, m) THEN 2..5 ELSE {1}
    <3>b. /\ \A k \in Int : k \in Blocks(h, d + 1, n) <=> (0 <= k /\ k < h) \/ (d < k /\ k <= d + n)
          /\ \A k \in Int : k \in Blocks(h, d + 1, m) <=> (0 <= k /\ k < h) \/ (d < k /\ k <= d + m)
      BY ONLY <1>5, n \in Nat, h \in Nat, m \in Nat DEF Blocks
    <3>1. \A k \in 0..(F - 2) : k \in Blocks(h, d + 1, n) <=> k \in Blocks(h, d + 1, m)
      <4> SUFFICES ASSUME NEW k \in 0..(F - 2)
                   PROVE  k \in Blocks(h, d + 1, n) <=> k \in Blocks(h, d + 1, m)
        OBVIOUS
      <4>1. k \in Int /\ k <= d + m /\ k <= d + n
        BY ONLY <2>1, <2>5, <1>1, k \in 0..(F - 2), d \in Nat, m \in Nat
      <4> QED BY ONLY <3>b, <4>1
    <3>2. F - 1 \in Blocks(h, d + 1, n) /\ F \in Blocks(h, d + 1, n)
      <4>1. F - 1 \in Int /\ F \in Int /\ d < F - 1 /\ F - 1 <= d + n /\ d < F /\ F <= d + n
        BY ONLY <2>1, <2>5, d \in Nat, m \in Nat
      <4> QED BY ONLY <3>b, <4>1
    <3>3. \A k \in 0..F : k \in 0..(F - 2) \/ k = F - 1 \/ k = F
      BY ONLY <1>1
    <3>4. \A k \in 0..(F - 2) : k \in 0..F
      BY ONLY <1>1
    <3> QED BY <1>3, <3>1, <3>2, <3>3, <3>4
  <2>6. GroupsAround(r, h, n)
          <=> /\ h + n <= 7 /\ F + 1 = d + 1 + n /\ HexElsewhere(r)
              /\ \A k \in 0..F : Pitch(r, k) \in IF k \in Blocks(h, d + 1, n) THEN 2..5 ELSE {1}
    BY <1>1, <1>5, <2>2 DEF GroupsAround
  <2>7. QuadAround(t, h, m)
          <=> /\ h + m <= 5 /\ F = d + 1 + m + 1 /\ HexBeforeLast(t)
              /\ \A k \in 0..(F - 2) :
                   Pitch(t, k) \in IF k \in Blocks(h, d + 1, m) THEN 2..5 ELSE {1}
    BY <1>1, <1>5 DEF QuadAround
  <2> QED BY <1>4, <2>1, <2>3, <2>4, <2>5, <2>6, <2>7
<1> QED BY <1>6, <1>7, <1>8

\* The bytes of them, slot by slot.
GapSlot(t, h, n, b, g) ==
  /\ g < h => GapBytes(t, h, n)[b] = FieldByte(t, g, b)
  /\ ~ (g < h) /\ g >= 8 - n
       => GapBytes(t, h, n)[b] = FieldByte(t, AtLeastOne(h) + 1 + g - (8 - n), b)
  /\ ~ (g < h) /\ ~ (g >= 8 - n) => GapBytes(t, h, n)[b] = 0

LEMMA GapSlots ==
  ASSUME NEW t, NEW h \in Int, NEW n \in Int, NEW b \in 0..15, NEW g \in 0..7, g = b \div 2,
         h + n <= 7
  PROVE  GapSlot(t, h, n, b, g)
<1>1. GapBytes(t, h, n)[b]
        = CASE g < h -> FieldByte(t, g, b)
            [] g >= 8 - n -> FieldByte(t, AtLeastOne(h) + 1 + g - (8 - n), b)
            [] OTHER -> 0
  BY DEF GapBytes
<1>2. CASE g < h
  <2>1. ~ (g >= 8 - n)
    BY <1>2
  <2> QED BY <1>1, <1>2, <2>1 DEF GapSlot
<1>3. CASE ~ (g < h) /\ g >= 8 - n
  BY <1>1, <1>3 DEF GapSlot
<1>4. CASE ~ (g < h) /\ ~ (g >= 8 - n)
  BY <1>1, <1>4 DEF GapSlot
<1> QED BY <1>2, <1>3, <1>4

QuadSlot(t, h, n, q, b, g) ==
  /\ g < h => BytesWithQuad(t, h, n, q)[b] = FieldByte(t, g, b)
  /\ ~ (g < h) /\ g \in (6 - n)..5
       => BytesWithQuad(t, h, n, q)[b] = FieldByte(t, AtLeastOne(h) + 1 + g - (6 - n), b)
  /\ ~ (g < h) /\ g \notin (6 - n)..5 /\ g > 5 => BytesWithQuad(t, h, n, q)[b] = q[b - 12]
  /\ ~ (g < h) /\ g \notin (6 - n)..5 /\ ~ (g > 5) => BytesWithQuad(t, h, n, q)[b] = 0

LEMMA QuadSlots ==
  ASSUME NEW t, NEW h \in Int, NEW n \in Int, NEW q, NEW b \in 0..15, NEW g \in 0..7,
         g = b \div 2, h <= 5, h + n <= 5
  PROVE  QuadSlot(t, h, n, q, b, g)
<1>1. BytesWithQuad(t, h, n, q)[b]
        = CASE g < h -> FieldByte(t, g, b)
            [] g \in (6 - n)..5 -> FieldByte(t, AtLeastOne(h) + 1 + g - (6 - n), b)
            [] g > 5 -> q[b - 12]
            [] OTHER -> 0
  BY DEF BytesWithQuad
<1>2. CASE g < h
  <2>1. g \notin (6 - n)..5 /\ ~ (g > 5)
    BY <1>2
  <2> QED BY <1>1, <1>2, <2>1 DEF QuadSlot
<1>3. CASE ~ (g < h) /\ g \in (6 - n)..5
  <2>1. ~ (g > 5)
    BY <1>3
  <2> QED BY <1>1, <1>3, <2>1 DEF QuadSlot
<1>4. CASE ~ (g < h) /\ g \notin (6 - n)..5 /\ g > 5
  BY <1>1, <1>4 DEF QuadSlot
<1>5. CASE ~ (g < h) /\ g \notin (6 - n)..5 /\ ~ (g > 5)
  BY <1>1, <1>5 DEF QuadSlot
<1> QED BY <1>2, <1>3, <1>4, <1>5

LEMMA SameSlots ==
  ASSUME NEW t, NEW r, NEW q, NEW h \in 0..5, NEW m \in 0..5, h + m <= 5,
         NEW F, F = AtLeastOne(h) + 1 + m + 1,
         \A b \in 0..15, o \in 0..1 : b % 2 = o => OctetsLast(t, q, r, F, b, o)
  PROVE  GapBytes(r, h, m + 2) = BytesWithQuad(t, h, m, q)
<1>1. PICK d \in Nat : d = AtLeastOne(h) /\ h <= d /\ d > 0
  BY DEF AtLeastOne
<1>2. PICK n \in Int : n = m + 2
  OBVIOUS
<1>3. F \in Nat /\ F = d + 1 + m + 1
  BY <1>1
<1>4. ASSUME NEW b \in 0..15
      PROVE  GapBytes(r, h, n)[b] = BytesWithQuad(t, h, m, q)[b]
  <2>1. PICK g \in 0..7, o \in 0..1 : b = 2 * g + o /\ g = b \div 2 /\ b % 2 = o
    BY SlotOfByte
  <2>2. GapSlot(r, h, n, b, g) /\ QuadSlot(t, h, m, q, b, g)
    <3>1. h \in Int /\ m \in Int /\ h <= 5 /\ h + n <= 7
      BY <1>2
    <3> QED BY <1>2, <2>1, <3>1, GapSlots, QuadSlots
  <2>3. OctetsLast(t, q, r, F, b, o)
    BY <2>1
  <2>4. CASE g < h
    <3>1. g \in 0..(F - 2)
      BY <1>1, <1>3, <2>4
    <3>2. FieldByte(r, g, b) = FieldByte(t, g, b)
      BY <2>3, <3>1 DEF OctetsLast
    <3> QED BY <2>2, <2>4, <3>2 DEF GapSlot, QuadSlot
  <2>5. CASE ~ (g < h) /\ g \in (6 - m)..5
    <3>1. PICK k \in 0..(F - 2) : k = d + 1 + g - (6 - m) /\ k = d + 1 + g - (8 - n)
      <4>1. /\ d + 1 + g - (6 - m) \in 0..(F - 2)
            /\ d + 1 + g - (6 - m) = d + 1 + g - (8 - n)
        BY <1>2, <1>3, <2>5
      <4> QED BY <4>1
    <3>2. g >= 8 - n
      BY <1>2, <2>5
    <3>3. FieldByte(r, k, b) = FieldByte(t, k, b)
      BY <2>3 DEF OctetsLast
    <3>4. GapBytes(r, h, n)[b] = FieldByte(r, k, b)
      BY <1>1, <2>2, <2>5, <3>1, <3>2 DEF GapSlot
    <3>5. BytesWithQuad(t, h, m, q)[b] = FieldByte(t, k, b)
      BY <1>1, <2>2, <2>5, <3>1 DEF QuadSlot
    <3> QED BY <3>3, <3>4, <3>5
  <2>6. CASE g > 5
    <3>1. ~ (g < h) /\ g >= 8 - n /\ g \notin (6 - m)..5
      BY <1>2, <2>6
    <3>2. PICK k : k = d + 1 + g - (8 - n) /\ (g = 6 => k = F - 1) /\ (g = 7 => k = F)
      BY <1>2, <1>3, <2>6
    <3>3. GapBytes(r, h, n)[b] = FieldByte(r, k, b)
      BY <1>1, <2>2, <3>1, <3>2 DEF GapSlot
    <3>4. BytesWithQuad(t, h, m, q)[b] = q[b - 12]
      BY <2>2, <2>6, <3>1 DEF QuadSlot
    <3>5. CASE g = 6
      <4>1. b - 12 = o
        BY <2>1, <3>5
      <4> QED BY <2>3, <3>2, <3>3, <3>4, <3>5, <4>1 DEF OctetsLast
    <3>6. CASE g = 7
      <4>1. b - 12 = 2 + o
        BY <2>1, <3>6
      <4> QED BY <2>3, <3>2, <3>3, <3>4, <3>6, <4>1 DEF OctetsLast
    <3> QED BY <2>6, <3>5, <3>6
  <2>7. CASE ~ (g < h) /\ g \notin (6 - m)..5 /\ ~ (g > 5)
    <3>1. ~ (g >= 8 - n)
      BY <1>2, <2>7
    <3> QED BY <2>2, <2>7, <3>1 DEF GapSlot, QuadSlot
  <2> QED BY <2>4, <2>5, <2>6, <2>7
<1>5. GapBytes(r, h, n) = BytesWithQuad(t, h, m, q)
  BY <1>4 DEF GapBytes, BytesWithQuad
<1> QED BY <1>2, <1>5

LEMMA RewriteGap ==
  ASSUME NEW t \in Seq(Byte), NEW r \in Seq(Byte), NEW c, NEW q, Rewritten(t, c, q, r),
         NEW F, SplitsLast(t, c, r, F), NEW h \in Nat, NEW m \in Nat, QuadAround(t, h, m)
  PROVE  GapBytes(r, h, m + 2) = BytesWithQuad(t, h, m, q)
<1>1. h \in 0..5 /\ m \in 0..5 /\ h + m <= 5
  BY DEF QuadAround
<1>2. F = AtLeastOne(h) + 1 + m + 1
  BY DEF QuadAround, SplitsLast
<1>3. \A b \in 0..15, o \in 0..1 : b % 2 = o => OctetsLast(t, q, r, F, b, o)
  BY RewriteBytes
<1> QED BY <1>1, <1>2, <1>3, SameSlots

\* What a quad denotes, spelled out as GroupMeanings does it for groups.
LEMMA QuadMeanings ==
  ASSUME NEW t, NEW q
  PROVE  /\ SixAndQuad(t) => BytesWithQuad(t, 6, 0, q) \in QuadMeaning(t, q)
         /\ \A h, n \in Nat : QuadAround(t, h, n) => BytesWithQuad(t, h, n, q) \in QuadMeaning(t, q)
         /\ \A a \in QuadMeaning(t, q) :
              \/ SixAndQuad(t) /\ a = BytesWithQuad(t, 6, 0, q)
              \/ \E h, n \in Nat : QuadAround(t, h, n) /\ a = BytesWithQuad(t, h, n, q)
<1>1. ASSUME NEW h \in Nat, NEW n \in Nat, QuadAround(t, h, n)
      PROVE  BytesWithQuad(t, h, n, q) \in QuadMeaning(t, q)
  <2>1. PICK x \in 0..5, y \in 0..5 : x = h /\ y = n
    BY <1>1 DEF QuadAround
  <2>2. PICK s : s = <<x, y>>
    OBVIOUS
  <2>3. s \in (0..5) \X (0..5) /\ s[1] = h /\ s[2] = n
    BY <2>1, <2>2
  <2>4. QuadAround(t, s[1], s[2]) /\ BytesWithQuad(t, h, n, q) = BytesWithQuad(t, s[1], s[2], q)
    BY <1>1, <2>3
  <2> QED BY <2>3, <2>4 DEF QuadMeaning
<1>2. ASSUME NEW a \in QuadMeaning(t, q)
      PROVE  \/ SixAndQuad(t) /\ a = BytesWithQuad(t, 6, 0, q)
             \/ \E h, n \in Nat : QuadAround(t, h, n) /\ a = BytesWithQuad(t, h, n, q)
  <2>1. CASE SixAndQuad(t) /\ a = BytesWithQuad(t, 6, 0, q)
    BY <2>1
  <2>2. CASE \E s \in (0..5) \X (0..5) :
               QuadAround(t, s[1], s[2]) /\ a = BytesWithQuad(t, s[1], s[2], q)
    <3>1. PICK s \in (0..5) \X (0..5) :
            QuadAround(t, s[1], s[2]) /\ a = BytesWithQuad(t, s[1], s[2], q)
      BY <2>2
    <3>2. s[1] \in Nat /\ s[2] \in Nat
      OBVIOUS
    <3> QED BY <3>1, <3>2
  <2> QED BY <2>1, <2>2 DEF QuadMeaning
<1>3. SixAndQuad(t) => BytesWithQuad(t, 6, 0, q) \in QuadMeaning(t, q)
  BY DEF QuadMeaning
<1> QED BY <1>1, <1>2, <1>3

\* "X:d.d.d.d denotes exactly the address X:AABB:CCDD", whatever X is.
LEMMA RewriteMeaning ==
  ASSUME NEW t \in Seq(Byte), NEW r \in Seq(Byte), NEW c, NEW q, Rewritten(t, c, q, r)
  PROVE  GroupMeaning(r) = QuadMeaning(t, q)
<1>1. PICK F : SplitsLast(t, c, r, F)
  BY RewriteFields
<1>2. ASSUME NEW a \in GroupMeaning(r) PROVE a \in QuadMeaning(t, q)
  <2>1. CASE EightGroups(r) /\ a = EightBytes(r)
    BY <1>1, <2>1, RewriteEight, QuadMeanings
  <2>2. CASE \E h, n \in Nat : GroupsAround(r, h, n) /\ a = GapBytes(r, h, n)
    <3>1. PICK h \in Nat, n \in Nat : GroupsAround(r, h, n) /\ a = GapBytes(r, h, n)
      BY <2>2
    <3>2. n # 0 /\ n # 1
      BY <1>1, <3>1, RewriteAround
    <3>3. PICK m \in Nat : n = m + 2
      <4>1. n - 2 \in Nat /\ n = n - 2 + 2
        BY <3>2
      <4> QED BY <4>1
    <3>4. QuadAround(t, h, m)
      BY <1>1, <3>1, <3>3, RewriteAround
    <3>5. a = BytesWithQuad(t, h, m, q)
      BY <1>1, <3>1, <3>3, <3>4, RewriteGap
    <3> QED BY <3>4, <3>5, QuadMeanings
  <2> QED BY <2>1, <2>2, GroupMeanings
<1>3. ASSUME NEW a \in QuadMeaning(t, q) PROVE a \in GroupMeaning(r)
  <2>1. CASE SixAndQuad(t) /\ a = BytesWithQuad(t, 6, 0, q)
    <3>1. EightGroups(r) /\ a = EightBytes(r)
      BY <1>1, <2>1, RewriteEight
    <3> QED BY <3>1, GroupMeanings
  <2>2. CASE \E h, n \in Nat : QuadAround(t, h, n) /\ a = BytesWithQuad(t, h, n, q)
    <3>1. PICK h \in Nat, m \in Nat : QuadAround(t, h, m) /\ a = BytesWithQuad(t, h, m, q)
      BY <2>2
    <3>2. GroupsAround(r, h, m + 2) /\ a = GapBytes(r, h, m + 2) /\ m + 2 \in Nat
      BY <1>1, <3>1, RewriteAround, RewriteGap
    <3> QED BY <3>2, GroupMeanings
  <2> QED BY <2>1, <2>2, QuadMeanings
<1> QED BY <1>2, <1>3

----------------------------------------------------------------------------
(* The text that is walked again.                                          *)

\* The text with its quad rewritten, whether it fits or not.
LEMMA QuadRewritten ==
  ASSUME NEW t \in Texts, LanesOf(t, Colon) # {}, NEW q \in StrictQuad(Quad(t)),
         NEW r, r = Prefix(t) \o Hextets(q)
  PROVE  /\ r \in Seq(Byte) /\ Len(r) = Len(Prefix(t)) + 9 /\ Len(Prefix(t)) \in Nat \ {0}
         /\ Rewritten(t, LastColon(t), q, r)
         /\ GroupMeaning(r) = QuadMeaning(t, q)
         /\ Len(Quad(t)) \in 7..15 /\ \A p \in StrictQuad(Quad(t)) : p = q
<1>1. t \in Seq(Byte)
  BY TextsAssumption
<1>2. PICK L \in Nat : L = Len(t)
  BY <1>1, TextBytes
<1>3. PICK c \in 0..(L - 1) : c = LastColon(t) /\ t[c + 1] = Colon
  BY <1>1, <1>2, LastColonFacts
<1>4. PICK i \in 1..L : i = c + 1 /\ c + 2 = i + 1
  <2>1. c + 1 \in 1..L /\ c + 2 = c + 1 + 1
    BY ONLY L \in Nat, c \in 0..(L - 1)
  <2> QED BY <2>1
<1>5. Quad(t) = SubSeq(t, i + 1, Len(t))
  BY <1>3, <1>4 DEF Quad
<1>6. /\ StrictQuad(Quad(t)) \subseteq [0..3 -> Byte]
      /\ Len(Quad(t)) \in 7..15
      /\ \A p \in StrictQuad(Quad(t)) : p = q
  BY <1>2, <1>3, <1>4, <1>5, QuadAssumption, Zenon
<1>7. q \in [0..3 -> Byte]
  BY <1>6
<1>8. /\ r \in Seq(Byte) /\ Len(Prefix(t)) = c + 1
      /\ Rewritten(t, LastColon(t), q, r)
  BY <1>1, <1>3, <1>7, RewriteIs, Zenon
<1>9. Len(r) = c + 10
  BY <1>3, <1>8 DEF Rewritten
<1>10. c + 10 = c + 1 + 9 /\ c + 1 \in Nat \ {0}
  BY ONLY L \in Nat, c \in 0..(L - 1)
<1>11. GroupMeaning(r) = QuadMeaning(t, q)
  BY <1>1, <1>8, RewriteMeaning
<1> QED BY <1>6, <1>8, <1>9, <1>10, <1>11, Zenon

\* When the dots are all after the last colon, the rewritten text has none.
LEMMA RewriteDotless ==
  ASSUME NEW t \in Seq(Byte), NEW r \in Seq(Byte), DotsLast(t), NEW q,
         Rewritten(t, LastColon(t), q, r)
  PROVE  NoQuad(r)
<1>1. PICK c : c = LastColon(t)
  OBVIOUS
<1>2. Rewritten(t, c, q, r)
  BY <1>1
<1>3. /\ c \in Nat
      /\ \A i : i \in Places(r) <=> i \in 0..(c + 9)
      /\ \A i \in 0..c : i \in Places(t) /\ i \in Places(r)
  BY <1>2, RewriteColons
<1>4. ASSUME NEW i \in Places(r), At(r, i) = Dot PROVE FALSE
  <2>1. i \in 0..(c + 9)
    BY <1>3
  <2>2. CASE i \in 0..c
    <3>1. i \in Places(t) /\ At(t, i) = Dot
      BY <1>2, <1>3, <1>4, <2>2 DEF Rewritten
    <3>2. i > c
      BY <1>1, <3>1 DEF DotsLast, LanesOf
    <3>3. ~ (i > c)
      BY ONLY <2>2, <1>3
    <3> QED BY <3>2, <3>3
  <2>3. CASE i = c + 5
    BY <1>2, <1>4, <2>3 DEF Rewritten, Dot, Colon
  <2>4. CASE i \in ((c + 1)..(c + 9)) \ {c + 5}
    <3>1. IsHexDigit(Dot)
      BY <1>2, <1>4, <2>4 DEF Rewritten
    <3> QED BY <3>1 DEF IsHexDigit, IsDigit, Dot
  <2>5. i \in 0..c \/ i = c + 5 \/ i \in ((c + 1)..(c + 9)) \ {c + 5}
    BY ONLY <1>3, <2>1
  <2> QED BY <2>2, <2>3, <2>4, <2>5
<1> QED BY <1>4 DEF NoQuad, LanesOf

\* What the core is given the second time: 10 to 45 bytes without a dot, with the
\* meaning of the text that has the quad.
WalkedAgain(t, r) ==
  /\ r \in Seq(Byte) /\ Len(r) \in 2..45 /\ NoQuad(r)
  /\ \E q \in StrictQuad(Quad(t)) :
       GroupMeaning(r) = QuadMeaning(t, q) /\ \A p \in StrictQuad(Quad(t)) : p = q

LEMMA RewriteIsWalked ==
  ASSUME NEW t \in Texts, ~NoQuad(t), OneQuadAtEnd(t), NEW r \in Rewrites(t)
  PROVE  WalkedAgain(t, r)
<1>1. PICK q \in StrictQuad(Quad(t)) : r = Prefix(t) \o Hextets(q)
  BY DEF Rewrites
<1>2. /\ r \in Seq(Byte) /\ Len(r) = Len(Prefix(t)) + 9 /\ Len(Prefix(t)) \in Nat \ {0}
      /\ Rewritten(t, LastColon(t), q, r)
      /\ GroupMeaning(r) = QuadMeaning(t, q)
      /\ \A p \in StrictQuad(Quad(t)) : p = q
  BY <1>1, QuadRewritten DEF NoQuad
<1>3. NoQuad(r)
  BY <1>2, RewriteDotless, TextsAssumption DEF OneQuadAtEnd
<1>4. Len(Prefix(t)) + 9 <= 45
  BY DEF OneQuadAtEnd, Fits
<1>5. PICK n \in Nat \ {0} : n + 9 <= 45 /\ Len(r) = n + 9
  BY <1>2, <1>4, Zenon
<1>6. Len(r) \in 2..45
  BY ONLY <1>5
<1> QED BY <1>1, <1>2, <1>3, <1>6, Zenon DEF WalkedAgain

\* An address of groups has no dot.
LEMMA GroupsAreDotless ==
  ASSUME NEW t, GroupMeaning(t) # {}
  PROVE  NoQuad(t)
<1>1. EightGroups(t) \/ \E h, n \in Nat : GroupsAround(t, h, n)
  BY GroupMeanings
<1>2. HexElsewhere(t)
  BY <1>1 DEF EightGroups, GroupsAround
<1> QED BY <1>2, HexIsDotless DEF NoQuad, LanesOf, Dotted

----------------------------------------------------------------------------
(* The inductive invariant: the core's first text is the input, a call     *)
(* that has answered has returned, and the place of a call that has not    *)
(* says which texts the core declined on the way there.                    *)

Declined ==
  /\ pc = "embedded" => GroupMeaning(input) = {}
  /\ pc = "rewritten" => ~NoQuad(input) /\ OneQuadAtEnd(input) /\ src \in Rewrites(input)
  /\ pc = "scalar" =>
       \/ Len(input) \notin 2..45
       \/ ~NoQuad(input) /\ ~OneQuadAtEnd(input)
       \/ /\ ~NoQuad(input) /\ OneQuadAtEnd(input)
          /\ \E r \in Rewrites(input) : GroupMeaning(r) = {}

IInv ==
  /\ TypeOK
  /\ result = "pending" <=> pc # "returned"
  /\ pc \in {"entry", "embedded"} => src = input
  /\ pc = "rewritten" => Len(src) \in 2..45
  /\ Declined

LEMMA InitIInv == Init => IInv
  BY TextsAssumption, OutAssumption DEF Init, IInv, TypeOK, Declined

\* A run of the core, in either form.
LEMMA CoreRuns ==
  ASSUME CleanForm \/ GapForm
  PROVE  \E ends, prev, bad : RunsCore /\ Decide(Gather(ends, prev), bad)
  <1>1. CASE CleanForm BY <1>1 DEF CleanForm
  <1>2. CASE GapForm BY <1>2 DEF GapForm
  <1> QED BY <1>1, <1>2

LEMMA CoreVerdict ==
  ASSUME IInv, CleanForm \/ GapForm
  PROVE  Takes(GroupMeaning(src))
  <1>1. RunsCore
    BY CoreRuns
  <1>2. CoreText
    BY <1>1 DEF RunsCore, IInv, TypeOK, CoreText, Length
  <1> QED BY <1>2, CleanFormTakes, GapFormTakes

\* What is declined, step by step.
LEMMA NextDeclined == IInv /\ [Next]_vars => Declined'
  <1> SUFFICES ASSUME IInv, [Next]_vars PROVE Declined' OBVIOUS
  <1> USE DEF IInv
  <1>1. CASE OutOfRange
    BY <1>1 DEF OutOfRange, Declined, Length
  <1>2. CASE CleanForm \/ GapForm
    <2>1. Takes(GroupMeaning(src))
      BY <1>2, CoreVerdict
    <2>2. input' = input /\ src' = src
      BY <2>1 DEF Takes
    <2>3. CASE pc' = "returned"
      BY <2>3 DEF Declined
    <2>4. CASE pc = "entry" /\ pc' = "embedded" /\ GroupMeaning(src) = {}
      BY <2>2, <2>4 DEF Declined
    <2>5. CASE pc = "rewritten" /\ pc' = "scalar" /\ GroupMeaning(src) = {}
      BY <2>2, <2>5 DEF Declined
    <2> QED BY <2>1, <2>3, <2>4, <2>5 DEF Takes, RunsCore
  <1>3. CASE RejectUnasked
    BY <1>3 DEF RejectUnasked, Declined
  <1>4. CASE Rewrite
    BY <1>4 DEF Rewrite, Declined
  <1>5. CASE AskScalar
    BY <1>5 DEF AskScalar, Declined
  <1>6. CASE RunScalar
    BY <1>6 DEF RunScalar, Declined
  <1>7. CASE UNCHANGED vars
    BY <1>7 DEF vars, Declined
  <1> QED BY <1>1, <1>2, <1>3, <1>4, <1>5, <1>6, <1>7 DEF Next

LEMMA NextIInv == IInv /\ [Next]_vars => IInv'
  <1> SUFFICES ASSUME IInv, [Next]_vars PROVE IInv' OBVIOUS
  <1>0. Declined'
    BY NextDeclined
  <1> USE <1>0 DEF IInv
  <1>1. CASE OutOfRange
    BY <1>1 DEF OutOfRange, TypeOK
  <1>2. CASE CleanForm \/ GapForm
    <2>1. PICK ends, prev, bad : RunsCore /\ Decide(Gather(ends, prev), bad)
      BY <1>2, CoreRuns
    <2>2. Gather(ends, prev) \in [0..15 -> Byte]
      BY GatherIsBuffer DEF TypeOK
    <2>3. out' \in [0..15 -> Byte] /\ UNCHANGED <<input, src>>
      BY <2>1, <2>2 DEF Decide
    <2>4. CASE bad
      BY <2>1, <2>3, <2>4 DEF Decide, RunsCore, TypeOK
    <2>5. CASE ~bad
      BY <2>1, <2>3, <2>5 DEF Decide, RunsCore, TypeOK
    <2> QED BY <2>4, <2>5
  <1>3. CASE RejectUnasked
    BY <1>3 DEF RejectUnasked, TypeOK
  <1>4. CASE Rewrite
    <2>1. src' \in Seq(Byte) /\ Len(src') \in 2..45
      BY <1>4, RewriteIsWalked DEF Rewrite, TypeOK, WalkedAgain
    <2> QED BY <1>4, <2>1 DEF Rewrite, TypeOK
  <1>5. CASE AskScalar
    BY <1>5 DEF AskScalar, TypeOK
  <1>6. CASE RunScalar
    <2>1. /\ pc = "scalar" /\ pc' = "returned" /\ UNCHANGED <<input, src>>
          /\ \/ result' = "accepted" /\ out' \in Meaning(input)
             \/ result' = "rejected" /\ out' = out
      BY <1>6 DEF RunScalar, Scalar!Next, Scalar!Accept, Scalar!Refuse
    <2> QED BY <2>1, MeaningAssumption DEF TypeOK
  <1>7. CASE UNCHANGED vars
    BY <1>7 DEF vars, TypeOK
  <1> QED BY <1>1, <1>2, <1>3, <1>4, <1>5, <1>6, <1>7 DEF Next

LEMMA Invariance == Spec => []IInv
  BY InitIInv, NextIInv, PTL DEF Spec

\* The core is never given more than 45 bytes, the rewritten text included
\* (141, 269-272), and what it stores are bytes, whatever the text.
THEOREM TypeCorrect == Spec => []TypeOK
  <1>1. IInv => TypeOK BY DEF IInv
  <1> QED BY <1>1, Invariance, PTL

----------------------------------------------------------------------------
(* What the answers mean.                                                  *)

\* A text the core is given is one of those MeaningOfGroups speaks of.
LEMMA CoreTextMeaning ==
  ASSUME MeaningOfGroups, IInv, RunsCore, NoQuad(src)
  PROVE  Meaning(src) = GroupMeaning(src)
  <1>1. src \in CoreTexts
    BY DEF IInv, RunsCore, TypeOK, Declined, CoreTexts
  <1> QED BY <1>1 DEF MeaningOfGroups

\* Line 251: what the core declines and has no dot or no colon is no address.
LEMMA DeclinedIsNone ==
  ASSUME MeaningOfGroups, IInv
  PROVE  DeclinesQuadsOnly
  <1> SUFFICES ASSUME pc = "embedded", NoQuad(input) PROVE Meaning(input) = {}
    BY DEF DeclinesQuadsOnly
  <1>1. input \in CoreTexts
    BY DEF IInv, TypeOK, CoreTexts
  <1> QED BY <1>1 DEF MeaningOfGroups, IInv, Declined

\* Line 226: the rewritten text denotes what the text denotes.
LEMMA RewriteKeeps ==
  ASSUME MeaningOfGroups, MeaningOfQuads, IInv
  PROVE  RewriteKeepsAddress
  <1> SUFFICES ASSUME pc = "rewritten" PROVE Meaning(src) = Meaning(input)
    BY DEF RewriteKeepsAddress
  <1>1. input \in Texts /\ ~NoQuad(input) /\ OneQuadAtEnd(input) /\ src \in Rewrites(input)
    BY DEF IInv, TypeOK, Declined
  <1>2. WalkedAgain(input, src)
    BY <1>1, RewriteIsWalked
  <1>3. PICK q \in StrictQuad(Quad(input)) :
          /\ GroupMeaning(src) = QuadMeaning(input, q)
          /\ \A p \in StrictQuad(Quad(input)) : p = q
    BY <1>2 DEF WalkedAgain
  <1>4. Meaning(src) = QuadMeaning(input, q)
    BY <1>2, <1>3, CoreTextMeaning DEF WalkedAgain, RunsCore
  <1>5. Meaning(input) = UNION {QuadMeaning(input, p) : p \in StrictQuad(Quad(input))}
    BY <1>1 DEF MeaningOfQuads, OneQuadAtEnd
  <1>6. UNION {QuadMeaning(input, p) : p \in StrictQuad(Quad(input))} = QuadMeaning(input, q)
    BY <1>3
  <1> QED BY <1>4, <1>5, <1>6

\* One answer of the core.
LEMMA CoreAnswers ==
  ASSUME MeaningOfGroups, IInv, [Next]_vars
  PROVE  [RunsCore /\ result' = "accepted" => out' \in Meaning(src)]_vars
  <1> SUFFICES ASSUME Next, RunsCore, result' = "accepted" PROVE out' \in Meaning(src)
    BY DEF vars
  <1>1. CleanForm \/ GapForm
    BY DEF Next, RunsCore, OutOfRange, RejectUnasked, Rewrite, AskScalar, RunScalar, IInv
  <1>2. Takes(GroupMeaning(src))
    BY <1>1, CoreVerdict
  <1>3. out' \in GroupMeaning(src)
    BY <1>2 DEF Takes, RunsCore, IInv
  <1> QED BY <1>3, GroupsAreDotless, CoreTextMeaning

\* A text whose dots are all after its last colon, and that is an address, is
\* rewritten: the quad that ends it fits.
LEMMA QuadAtEndFits ==
  ASSUME MeaningOfQuads, NEW t \in Texts, ~NoQuad(t), DotsLast(t), Meaning(t) # {}
  PROVE  OneQuadAtEnd(t) /\ \A r \in Rewrites(t) : GroupMeaning(r) # {}
  <1>1. PICK q \in StrictQuad(Quad(t)) : QuadMeaning(t, q) # {}
    BY DEF MeaningOfQuads
  <1>2. PICK r : r = Prefix(t) \o Hextets(q)
    OBVIOUS
  <1>3. /\ r \in Seq(Byte) /\ Len(r) = Len(Prefix(t)) + 9 /\ Len(Prefix(t)) \in Nat \ {0}
        /\ GroupMeaning(r) = QuadMeaning(t, q)
        /\ Len(Quad(t)) \in 7..15 /\ \A p \in StrictQuad(Quad(t)) : p = q
    BY <1>2, QuadRewritten DEF NoQuad
  <1>4. EightGroups(r) \/ \E h, n \in Nat : GroupsAround(r, h, n)
    BY <1>1, <1>3, GroupMeanings
  <1>5. Len(r) \in 2..44
    BY <1>3, <1>4, EightHaveNoGap, GroupsHaveGapShape, Zenon
  <1>6. Fits(t)
    <2>1. \A n \in Nat : n + 9 \in 2..44 => n + 9 <= 45
      BY ONLY TRUE
    <2> QED BY <1>3, <1>5, <2>1, Zenon DEF Fits
  <1>7. OneQuadAtEnd(t)
    BY <1>1, <1>3, <1>6 DEF OneQuadAtEnd
  <1> QED BY <1>1, <1>2, <1>3, <1>7 DEF Rewrites

\* Lines 261-262, 283-286.
LEMMA WalkedIsHeadQuad ==
  ASSUME MeaningOfQuads, IInv
  PROVE  OnlyHeadQuadsWalked
  <1> SUFFICES ASSUME pc = "scalar", Meaning(input) # {}, Len(input) \in 2..45
               PROVE  \E i \in LanesOf(input, Dot) : i < LastColon(input)
    BY DEF OnlyHeadQuadsWalked
  <1>1. input \in Texts /\ ~NoQuad(input)
    BY DEF IInv, TypeOK, Declined
  <1>2. ~DotsLast(input)
    BY <1>1, QuadAtEndFits DEF IInv, Declined
  <1>3. PICK i \in LanesOf(input, Dot) : ~ (i > LastColon(input))
    BY <1>2 DEF DotsLast
  <1>4. LastColon(input) \in 0..(Len(input) - 1) /\ LastColon(input) \in ColonsOf(input)
    BY <1>1, LastColonFacts, TextsAssumption DEF NoQuad
  <1>5. i # LastColon(input)
    BY <1>3, <1>4 DEF LanesOf, ColonsOf, Dot, Colon
  <1>6. PICK n \in Nat : n = Len(input)
    BY <1>1, TextsAssumption, TextBytes
  <1>7. PICK c \in 0..(n - 1) : c = LastColon(input)
    BY <1>4, <1>6
  <1>8. i \in 0..(n - 1)
    BY <1>3, <1>6 DEF LanesOf, Places
  <1>9. ~ (i > c) /\ i # c
    BY <1>3, <1>5, <1>7
  <1>10. i < c
    BY ONLY n \in Nat, c \in 0..(n - 1), <1>8, <1>9
  <1> QED BY <1>3, <1>7, <1>10

----------------------------------------------------------------------------
(* The theorems.                                                           *)

\* In front of any scalar reference that finds in texts of groups the address of
\* the groups, a text that the core declines and that has no dot or no colon is
\* no address, so that line 251 rejects it without asking: for texts of every
\* length and content.
THEOREM DeclinesQuads ==
  ASSUME MeaningOfGroups
  PROVE  Spec => []DeclinesQuadsOnly
  <1>1. IInv => DeclinesQuadsOnly BY DeclinedIsNone
  <1> QED BY <1>1, Invariance, PTL

\* What the core accepts, of the text or of the rewritten text, is the address
\* the scalar reference finds in that text: the clamped gather (186-214) and the
\* checks beside it tell the texts of groups exactly, and no shift they execute
\* is undefined on them.
THEOREM CoreIsRight ==
  ASSUME MeaningOfGroups
  PROVE  Spec => CoreStoresAnAddress
  <1>1. IInv /\ [Next]_vars => [RunsCore /\ result' = "accepted" => out' \in Meaning(src)]_vars
    BY CoreAnswers
  <1> QED BY <1>1, Invariance, PTL DEF Spec, CoreStoresAnAddress

\* "X:d.d.d.d denotes exactly the address X:AABB:CCDD" (226), for every X, address
\* prefix or not: no text that is no address becomes one by the rewrite.
THEOREM RewriteIsExact ==
  ASSUME MeaningOfGroups, MeaningOfQuads
  PROVE  Spec => []RewriteKeepsAddress
  <1>1. IInv => RewriteKeepsAddress BY RewriteKeeps
  <1> QED BY <1>1, Invariance, PTL

\* No address whose dots are all after its last colon is walked byte by byte: its
\* quad fits the 36 bytes that 261 leaves it, and its rewrite is accepted.
THEOREM WalksHeadQuads ==
  ASSUME MeaningOfQuads
  PROVE  Spec => []OnlyHeadQuadsWalked
  <1>1. IInv => OnlyHeadQuadsWalked BY WalkedIsHeadQuad
  <1> QED BY <1>1, Invariance, PTL

----------------------------------------------------------------------------
(* The composition.                                                        *)

LEMMA ContractInit == Init => Contract!Init
  BY DEF Init, Contract!Init

LEMMA ContractNext ==
  ASSUME MeaningOfGroups, MeaningOfQuads, IInv, [Next]_vars
  PROVE  [Contract!Next]_(Contract!parserVars)
  <1> USE DEF Contract!Next
  <1>1. CASE OutOfRange \/ Rewrite \/ AskScalar
    BY <1>1 DEF OutOfRange, Rewrite, AskScalar, IInv, Contract!parserVars
  <1>2. CASE CleanForm \/ GapForm
    <2>1. PICK ends, prev, bad : RunsCore /\ Decide(Gather(ends, prev), bad)
      BY <1>2, CoreRuns
    <2>2. result = "pending" /\ input' = input
      BY <2>1 DEF RunsCore, Decide, IInv
    <2>3. CASE bad
      BY <2>1, <2>2, <2>3 DEF Decide, Contract!parserVars
    <2>4. CASE ~bad
      <3>1. result' = "accepted"
        BY <2>1, <2>4 DEF Decide
      <3>2. out' \in Meaning(src)
        BY <2>1, <2>2, <3>1, CoreAnswers DEF vars
      <3>3. Meaning(src) = Meaning(input)
        BY <2>1, RewriteKeeps DEF RunsCore, RewriteKeepsAddress, IInv
      <3> QED BY <2>2, <3>1, <3>2, <3>3 DEF Contract!Accept
    <2> QED BY <2>3, <2>4
  <1>3. CASE RejectUnasked
    BY <1>3, DeclinedIsNone DEF RejectUnasked, DeclinesQuadsOnly, IInv, Contract!Refuse
  <1>4. CASE RunScalar
    BY <1>4 DEF RunScalar, Scalar!Next, Scalar!Accept, Scalar!Refuse,
                Contract!Accept, Contract!Refuse
  <1>5. CASE UNCHANGED vars
    BY <1>5 DEF vars, Contract!parserVars
  <1> QED BY <1>1, <1>2, <1>3, <1>4, <1>5 DEF Next

\* In front of any scalar reference that reads groups as groups, and a quad after
\* the last colon as two of them, the two runs of the core, the rewrite, the
\* rejection without a second parse (251) and the fallback are together that
\* reference, for texts of every length and content, although the core stores
\* before it declines: same answer, same bytes.
THEOREM Implementation ==
  ASSUME MeaningOfGroups, MeaningOfQuads
  PROVE  Spec => AgreesWithScalar
  <1>1. IInv /\ [Next]_vars => [Contract!Next]_(Contract!parserVars)
    BY ContractNext
  <1> QED BY <1>1, ContractInit, Invariance, PTL
          DEF Spec, AgreesWithScalar, Contract!Spec

=============================================================================
