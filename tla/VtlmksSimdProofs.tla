-------------------------- MODULE VtlmksSimdProofs --------------------------
(***************************************************************************)
(* What holds of parse_ipv6_avx512 for texts of every length and content:  *)
(* the type invariant, that its two forms take the texts of GroupText,     *)
(* all of them and nothing else, and store their addresses, and that it    *)
(* therefore agrees with the scalar reference.                             *)
(***************************************************************************)
EXTENDS VtlmksSimd, TextProofs

----------------------------------------------------------------------------
(* The type invariant.                                                     *)

LEMMA TextFacts ==
  ASSUME TypeOK
  PROVE  /\ Len(input) \in Nat
         /\ \A i \in Active : V(i) \in Byte /\ V(i) = At(input, i)
         /\ \A i : V(i) \in Byte
<1>1. input \in Seq(Byte)
  BY TextsAssumption DEF TypeOK
<1>2. Len(input) \in Nat /\ \A n \in 1..Len(input) : input[n] \in Byte
  BY <1>1
<1>3. ASSUME NEW i \in Active PROVE V(i) \in Byte /\ V(i) = At(input, i)
  <2>1. i + 1 \in 1..Len(input)
    BY <1>2 DEF Active, Length
  <2> QED BY <1>2, <2>1 DEF V, At
<1>4. ASSUME NEW i PROVE V(i) \in Byte
  <2>1. CASE i \in Active BY <1>3, <2>1
  <2>2. CASE i \notin Active BY <2>2 DEF V, Byte
  <2> QED BY <2>1, <2>2
<1> QED BY <1>2, <1>3, <1>4

\* What the tables hold for a byte: 128, or four bits.
LEMMA NibbleIsSmall ==
  ASSUME NEW b \in Byte
  PROVE  Nibble(b % 128) = NotHex \/ Nibble(b % 128) \in 0..15
<1>1. b % 128 \in Nat
  BY DEF Byte
<1>2. PICK c \in Nat : c = b % 128
  BY <1>1
<1>3. Nibble(c) = NotHex \/ Nibble(c) \in 0..15
  BY DEF Nibble
<1> QED BY <1>2, <1>3

\* The sixteen bytes of a gather are bytes, whatever its indices.
LEMMA GatherIsBuffer ==
  ASSUME TypeOK
  PROVE  \A ends, starts : Gather(ends, starts) \in [0..15 -> Byte]
<1> SUFFICES ASSUME NEW ends, NEW starts
             PROVE  Gather(ends, starts) \in [0..15 -> Byte]
  OBVIOUS
<1>1. \A g, k : GatherNibble(ends, starts, g, k) \in Nat
  <2>1. \A i : Nib(i) \in Nat
    BY TextFacts, NibbleIsSmall DEF Nib, NotHex
  <2> QED BY <2>1 DEF GatherNibble
<1>2. \A n \in Nat : Low8(n) \in Byte
  BY DEF Low8, Byte
<1>3. \A g, k, l : Low8(16 * GatherNibble(ends, starts, g, k)
                          + GatherNibble(ends, starts, g, l)) \in Byte
  <2> SUFFICES ASSUME NEW g, NEW k, NEW l
               PROVE  Low8(16 * GatherNibble(ends, starts, g, k)
                             + GatherNibble(ends, starts, g, l)) \in Byte
    OBVIOUS
  <2>1. 16 * GatherNibble(ends, starts, g, k) + GatherNibble(ends, starts, g, l) \in Nat
    BY <1>1
  <2> QED BY <1>2, <2>1
<1> QED BY <1>3 DEF Gather

\* parse_ipv6_avx512 stores sixteen bytes, for texts of any length: speculative
\* ones too.
THEOREM TypeCorrect == Spec => []TypeOK
<1>1. Init => TypeOK
  BY OutAssumption DEF Init, TypeOK
<1>2. ASSUME TypeOK, [Next]_vars PROVE TypeOK'
  <2>1. CASE OutOfRange
    BY <1>2, <2>1 DEF OutOfRange, TypeOK
  <2>2. CASE CleanForm
    BY <1>2, <2>2, GatherIsBuffer DEF CleanForm, Decide, TypeOK
  <2>3. CASE GapForm
    <3>1. PICK kept, slots :
            Decide(Gather(Slots(Comp, kept, slots), Slots(Starts, kept, slots)),
                   GapBad(kept))
      BY <2>3 DEF GapForm
    <3>2. out' \in [0..15 -> Byte]
      BY <1>2, <3>1, GatherIsBuffer DEF Decide
    <3> QED BY <1>2, <3>1, <3>2 DEF Decide, TypeOK
  <2>4. CASE RunScalar
    <3>1. input \in Texts /\ Meaning(input) \subseteq [0..15 -> Byte]
      BY <1>2, MeaningAssumption DEF TypeOK
    <3>2. CASE Scalar!Accept
      BY <1>2, <2>4, <3>1, <3>2 DEF Scalar!Accept, RunScalar, TypeOK
    <3>3. CASE Scalar!Refuse
      BY <1>2, <2>4, <3>3 DEF Scalar!Refuse, RunScalar, TypeOK
    <3> QED BY <2>4, <3>2, <3>3 DEF RunScalar, Scalar!Next
  <2>5. CASE UNCHANGED vars
    BY <1>2, <2>5 DEF vars, TypeOK
  <2> QED BY <1>2, <2>1, <2>2, <2>3, <2>4, <2>5 DEF Next
<1> QED BY <1>1, <1>2, PTL DEF Spec

----------------------------------------------------------------------------
(* The text in the vector.                                                 *)

\* A byte below 128 that the tables know is a hexadecimal digit, and they hold
\* its value.
LEMMA NibbleIsDigit ==
  ASSUME NEW b \in Byte, b < 128, Nibble(b % 128) # NotHex
  PROVE  IsHexDigit(b) /\ Nibble(b % 128) = HexToBinary(b)
<1>1. b % 128 = b /\ b \in Nat
  BY DEF Byte
<1>2. Nibble(b) # NotHex
  BY <1>1
<1>3. CASE b \in 48..57
  BY <1>1, <1>3 DEF Nibble, IsHexDigit, IsDigit, HexToBinary
<1>4. CASE b \in 65..70
  <2>1. (b \div 32) % 2 = 0
    BY <1>4
  <2> QED BY <1>1, <1>4, <2>1 DEF Nibble, IsHexDigit, IsDigit, HexToBinary, SetBit5
<1>5. CASE b \in 97..102
  <2>1. (b \div 32) % 2 = 1
    BY <1>5
  <2> QED BY <1>1, <1>5, <2>1 DEF Nibble, IsHexDigit, IsDigit, HexToBinary, SetBit5
<1> QED BY <1>1, <1>2, <1>3, <1>4, <1>5 DEF Nibble

\* The masks are the colons and the double colons of the text, and the bytes that
\* are bad are those that are neither colons nor hexadecimal digits.
LEMMA VectorIsText ==
  ASSUME TypeOK
  PROVE  /\ input \in Seq(Byte) /\ Length = Len(input) /\ Length \in Nat
         /\ Active = Places(input)
         /\ MColon = ColonsOf(input) /\ Dc = DoublesOf(input)
         /\ BadBytes <=> ~HexElsewhere(input)
<1>1. input \in Seq(Byte) /\ Len(input) \in Nat
  BY TextsAssumption, TextFacts DEF TypeOK
<1>2. Active = Places(input) /\ Length = Len(input)
  BY DEF Active, Places, Length
<1>3. \A i \in Places(input) : V(i) \in Byte /\ V(i) = At(input, i)
  BY <1>2, TextFacts
<1>4. MColon = ColonsOf(input)
  BY <1>2, <1>3 DEF MColon, ColonsOf
<1>5. Dc = DoublesOf(input)
  BY <1>4 DEF Dc, DoublesOf
<1>6. ASSUME NEW b \in Byte
      PROVE  IsHexDigit(b) <=> b < 128 /\ Nibble(b % 128) # NotHex
  <2>1. ASSUME IsHexDigit(b) PROVE b < 128 /\ Nibble(b % 128) # NotHex
    <3>1. b \in (48..57) \cup (65..70) \cup (97..102)
      BY <2>1 DEF IsHexDigit, IsDigit
    <3>2. b % 128 = b /\ b < 128
      BY <3>1
    <3>3. Nibble(b) \in 0..15
      BY <3>1 DEF Nibble
    <3> QED BY <3>2, <3>3 DEF NotHex
  <2> QED BY <2>1, NibbleIsDigit
<1>7. \A i \in ColonsOf(input) : At(input, i) = Colon /\ ~ (Colon >= 128)
  BY DEF ColonsOf, Colon
<1>8. ASSUME NEW i \in Places(input)
      PROVE  (V(i) >= 128 \/ (i \notin MColon /\ Nib(i) = NotHex))
               <=> (i \notin ColonsOf(input) /\ ~IsHexDigit(At(input, i)))
  <2>1. PICK b \in Byte : b = V(i) /\ b = At(input, i)
    BY <1>3
  <2>2. b >= 128 <=> ~ (b < 128)
    BY DEF Byte
  <2>3. Nib(i) = Nibble(b % 128)
    BY <2>1 DEF Nib
  <2>4. IsHexDigit(b) <=> b < 128 /\ Nibble(b % 128) # NotHex
    BY <1>6
  <2>5. i \in ColonsOf(input) => ~ (b >= 128)
    BY <1>7, <2>1
  <2> QED BY <1>4, <2>1, <2>2, <2>3, <2>4, <2>5
<1>9. BadBytes <=> ~HexElsewhere(input)
  BY <1>2, <1>8 DEF BadBytes, HexElsewhere
<1> QED BY <1>1, <1>2, <1>4, <1>5, <1>9

\* What the lanes hold of field k: where it starts and ends, and its exact width.
LEMMA FieldLanes ==
  ASSUME TypeOK, Length \in 2..45, NEW k \in 0..15, k < Fields(input)
  PROVE  /\ Comp[k] = Cut(input, k + 1)
         /\ Starts[k] = Cut(input, k) + 1
         /\ Width[k] = Pitch(input, k) - 1 /\ Width[k] \in 0..45
<1>0. PICK L \in 2..45 : L = Len(input)
  BY VectorIsText
<1>1. PICK t : t = input /\ Len(t) = L /\ t \in Seq(Byte)
  BY <1>0, VectorIsText
<1>2. \A g \in 0..15 : g < Fields(t) => Comp[g] = Cut(t, g + 1)
  <2> SUFFICES ASSUME NEW g \in 0..15, g < Fields(t) PROVE Comp[g] = Cut(t, g + 1)
    OBVIOUS
  <2>1. PICK S \in SUBSET Nat : /\ S = Separators(t) /\ IsFiniteSet(S)
                               /\ \A i \in S : i \in 0..L
    BY <1>1, SeparatorFacts
  <2>2. PICK e \in 1..Fields(t) : e = g + 1 /\ e - 1 = g
    BY <1>1, SeparatorFacts
  <2>3. PICK i \in S : i = Cut(t, e) /\ RankIn(S, i) = g
    BY <1>1, <2>1, <2>2, CutIsRanked
  <2>4. Comp = CompressLanes(Iota, S)
    BY <1>1, <2>1, VectorIsText DEF Comp, Separators
  <2>5. RankIn(S, i) <= 15
    BY <2>3
  <2>6. CompressLanes(Iota, S)[RankIn(S, i)] = Iota[i]
    BY <2>1, <2>5, CompressFacts
  <2>7. Iota[i] = i
    <3>1. i \in 0..63
      BY <2>1
    <3> QED BY <3>1 DEF Iota
  <2> QED BY <2>2, <2>3, <2>4, <2>6, <2>7
<1>3. PICK a \in -1..45, b \in 0..45 : a = Cut(t, k) /\ b = Cut(t, k + 1) /\ a < b
  <2>1. k \in 0..(Fields(t) - 1)
    BY <1>1, SeparatorFacts
  <2>2. Between(t, Cut(t, k), Cut(t, k + 1))
    BY <1>1, <2>1, Cuts
  <2>3. Cut(t, k) \in -1..L /\ Cut(t, k + 1) \in 0..L /\ Cut(t, k) < Cut(t, k + 1)
    BY <1>1, <2>2 DEF Between
  <2> QED BY <2>3
<1>4. Comp[k] = b
  BY <1>1, <1>2, <1>3
<1>5. Starts[k] = a + 1
  <2>1. CASE k = 0
    BY <1>3, <2>1 DEF Starts, StartsOf, Cut
  <2>2. CASE k # 0
    <3>1. k - 1 \in 0..15 /\ k - 1 < Fields(t) /\ k - 1 + 1 = k
      BY <1>1, <2>2, SeparatorFacts
    <3>2. Comp[k - 1] = a
      BY <1>2, <1>3, <3>1
    <3>3. Starts[k] = Low8(a + 1)
      BY <2>2, <3>2 DEF Starts, StartsOf
    <3> QED BY <3>3 DEF Low8
  <2> QED BY <2>1, <2>2
<1>6. PICK w \in 0..45 : w = b - a - 1
  <2>1. b - a - 1 \in 0..45
    BY <1>3
  <2> QED BY <2>1
<1>7. Width[k] = w
  <2>1. Width[k] = Low8(b - (a + 1))
    BY <1>4, <1>5 DEF Width, WidthOf
  <2>2. b - (a + 1) = w
    BY <1>6
  <2>3. Low8(w) = w
    BY DEF Low8
  <2> QED BY <2>1, <2>2, <2>3
<1>8. Pitch(t, k) - 1 = w
  BY <1>3, <1>6 DEF Pitch
<1> QED BY <1>1, <1>3, <1>4, <1>5, <1>7, <1>8

----------------------------------------------------------------------------
(* What a byte of the gather is.                                           *)

\* The table holds the value of a digit.
LEMMA NibOfDigit ==
  ASSUME TypeOK, HexElsewhere(input), NEW i \in Places(input) \ ColonsOf(input)
  PROVE  Nib(i) = HexToBinary(At(input, i))
<1>1. V(i) \in Byte /\ V(i) = At(input, i)
  BY VectorIsText, TextFacts
<1>2. ~ (V(i) >= 128) /\ Nib(i) # NotHex
  BY VectorIsText DEF BadBytes
<1>3. V(i) < 128
  BY <1>1, <1>2 DEF Byte
<1> QED BY <1>1, <1>2, <1>3, NibbleIsDigit DEF Nib

\* The gather reads the digits of a field that has no colon inside.
LEMMA FieldNibble ==
  ASSUME TypeOK, Length \in 2..45, HexElsewhere(input), NEW lo, NEW hi,
         Between(input, lo, hi), NEW ends, NEW starts, NEW g,
         ends[g] = hi, starts[g] = lo + 1, NEW k \in 0..3
  PROVE  /\ GatherNibble(ends, starts, g, k) = DigitIn(input, lo, hi, k)
         /\ DigitIn(input, lo, hi, k) \in 0..15
<1>1. lo \in -1..45 /\ hi \in 0..45 /\ lo < hi
  <2>1. PICK L \in 2..45 : L = Len(input)
    BY VectorIsText
  <2>2. lo \in -1..L /\ hi \in 0..L /\ lo < hi
    BY <2>1 DEF Between
  <2> QED BY <2>2
<1>2. PICK i \in -4..63 : i = hi - 4 + k
  BY <1>1
<1>3. GatherNibble(ends, starts, g, k)
        = IF Signed(Low8(i)) < Signed(lo + 1) THEN 0 ELSE Nib(Low8(i) % 64)
  BY <1>2 DEF GatherNibble
<1>4. Signed(Low8(i)) = i /\ Signed(lo + 1) = lo + 1
  BY <1>1, IndexIsExact DEF Signed
<1>5. /\ DigitIn(input, lo, hi, k) \in 0..15
      /\ i > lo => /\ i \in Places(input) \ ColonsOf(input)
                   /\ DigitIn(input, lo, hi, k) = HexToBinary(At(input, i))
      /\ ~ (i > lo) => DigitIn(input, lo, hi, k) = 0
  <2>1. input \in Seq(Byte)
    BY VectorIsText
  <2>2. DigitRead(input, lo, hi, k, i)
    BY <1>2, <2>1, DigitIsNibble
  <2> QED BY <2>2 DEF DigitRead
<1>6. CASE i < lo + 1
  <2>1. ~ (i > lo)
    BY <1>1, <1>6
  <2> QED BY <1>3, <1>4, <1>5, <1>6, <2>1
<1>7. CASE ~ (i < lo + 1)
  <2>1. i > lo /\ i >= 0
    BY <1>1, <1>7
  <2>2. Low8(i) % 64 = i
    BY <2>1, IndexIsExact
  <2>3. Nib(i) = HexToBinary(At(input, i))
    BY <1>5, <2>1, NibOfDigit
  <2> QED BY <1>3, <1>4, <1>5, <1>7, <2>1, <2>2, <2>3
<1> QED BY <1>6, <1>7

\* A byte of a slot that is given the lanes of field k is that of the field.
LEMMA StoredField ==
  ASSUME TypeOK, Length \in 2..45, HexElsewhere(input), NEW ends, NEW starts,
         NEW k \in 0..15, k < Fields(input), NEW b \in 0..15,
         ends[b \div 2] = Comp[k], starts[b \div 2] = Starts[k]
  PROVE  Gather(ends, starts)[b] = FieldByte(input, k, b)
<1>1. PICK lo, hi : lo = Cut(input, k) /\ hi = Cut(input, k + 1)
  OBVIOUS
<1>2. Between(input, lo, hi)
  <2>1. k \in 0..(Fields(input) - 1)
    BY VectorIsText, SeparatorFacts
  <2> QED BY <1>1, <2>1, VectorIsText, Cuts
<1>3. ends[b \div 2] = hi /\ starts[b \div 2] = lo + 1
  BY <1>1, FieldLanes
<1>4. PICK g \in 0..7, o \in 0..1 : b \div 2 = g /\ b % 2 = o
  BY SlotOfByte
<1>5. PICK l \in {0, 2} : l = 2 * o
  OBVIOUS
<1>6. PICK x \in 0..15, y \in 0..15 :
        /\ x = GatherNibble(ends, starts, g, l) /\ x = DigitIn(input, lo, hi, l)
        /\ y = GatherNibble(ends, starts, g, l + 1) /\ y = DigitIn(input, lo, hi, l + 1)
  <2>1. \A m \in 0..3 : /\ GatherNibble(ends, starts, g, m) = DigitIn(input, lo, hi, m)
                        /\ DigitIn(input, lo, hi, m) \in 0..15
    <3>1. ends[g] = hi /\ starts[g] = lo + 1
      BY <1>3, <1>4
    <3> QED BY <1>2, <3>1, FieldNibble, Zenon
  <2>2. l \in 0..3 /\ l + 1 \in 0..3
    OBVIOUS
  <2> QED BY <2>1, <2>2
<1>7. Gather(ends, starts)[b] = Low8(16 * x + y)
  BY <1>4, <1>5, <1>6 DEF Gather
<1>8. Low8(16 * x + y) = 16 * x + y
  BY DEF Low8
<1>9. FieldByte(input, k, b) = 16 * x + y
  BY <1>1, <1>4, <1>5, <1>6 DEF FieldByte, GroupByte
<1> QED BY <1>7, <1>8, <1>9

\* A slot whose end and start are zero is a zero group.
LEMMA EmptySlot ==
  ASSUME NEW ends, NEW starts, NEW b \in 0..15, ends[b \div 2] = 0, starts[b \div 2] = 0
  PROVE  Gather(ends, starts)[b] = 0
<1>1. PICK g \in 0..7, o \in 0..1 : b \div 2 = g /\ b % 2 = o
  BY SlotOfByte
<1>2. ASSUME NEW k \in 0..3 PROVE GatherNibble(ends, starts, g, k) = 0
  <2>1. PICK i \in -4..63 : i = 0 - 4 + k /\ i < 0
    OBVIOUS
  <2>2. Signed(Low8(i)) = i /\ Signed(0) = 0
    BY IndexIsExact DEF Signed
  <2> QED BY <1>1, <2>1, <2>2 DEF GatherNibble
<1>3. PICK l \in {0, 2} : l = 2 * o
  OBVIOUS
<1>4. GatherNibble(ends, starts, g, l) = 0 /\ GatherNibble(ends, starts, g, l + 1) = 0
  <2>1. l \in 0..3 /\ l + 1 \in 0..3
    OBVIOUS
  <2> QED BY <1>2, <2>1
<1>5. Gather(ends, starts)[b] = Low8(16 * 0 + 0)
  BY <1>1, <1>3, <1>4 DEF Gather
<1> QED BY <1>5 DEF Low8

----------------------------------------------------------------------------
(* The clean form.                                                         *)

\* A width of which one less is at most three, in bytes, is one to four.
LEMMA WidthIsExact ==
  ASSUME NEW w \in 0..45
  PROVE  Low8(w - 1) > 3 <=> w \notin 1..4
BY DEF Low8

\* The clean form accepts eight groups and nothing else, and stores their values.
LEMMA CleanFormIsExact ==
  ASSUME TypeOK, Length \in 2..45
  PROVE  /\ CleanBad <=> ~EightGroups(input)
         /\ ~CleanBad => Gather(Comp, StartsOf(Comp)) = EightBytes(input)
<1>1. input \in Seq(Byte) /\ MColon = ColonsOf(input) /\ (BadBytes <=> ~HexElsewhere(input))
  BY VectorIsText
<1>2. Cardinality(MColon) # 7 <=> Fields(input) # 8
  BY <1>1, SeparatorFacts
<1>3. ASSUME Fields(input) = 8
      PROVE  /\ \A g \in 0..7 : Low8(CleanWidth[g] - 1) > 3 <=> Pitch(input, g) \notin 2..5
             /\ HexElsewhere(input) => Gather(Comp, StartsOf(Comp)) = EightBytes(input)
  <2>1. ASSUME NEW g \in 0..7
        PROVE  Low8(CleanWidth[g] - 1) > 3 <=> Pitch(input, g) \notin 2..5
    <3>1. PICK w \in 0..45 : w = CleanWidth[g] /\ w = Pitch(input, g) - 1
      <4>1. g \in 0..15 /\ g < Fields(input)
        BY <1>3
      <4>2. Width[g] = Pitch(input, g) - 1 /\ Width[g] \in 0..45
        BY <4>1, FieldLanes
      <4> QED BY <4>2 DEF CleanWidth, Width, Starts
    <3>2. PICK q \in Nat : q = Pitch(input, g)
      <4>1. g \in 0..(Fields(input) - 1)
        BY <1>3
      <4> QED BY <1>1, <4>1, Pitches
    <3>3. w \in 1..4 <=> q \in 2..5
      BY <3>1, <3>2
    <3> QED BY <3>1, <3>2, <3>3, WidthIsExact
  <2>2. ASSUME HexElsewhere(input), NEW b \in 0..15
        PROVE  Gather(Comp, StartsOf(Comp))[b] = FieldByte(input, b \div 2, b)
    <3>1. PICK g \in 0..15 : g = b \div 2 /\ g < Fields(input)
      BY <1>3
    <3>2. PICK ends, starts : ends = Comp /\ starts = Starts
      OBVIOUS
    <3>3. ends[b \div 2] = Comp[g] /\ starts[b \div 2] = Starts[g]
      BY <3>1, <3>2
    <3>4. Gather(ends, starts)[b] = FieldByte(input, g, b)
      BY <2>2, <3>1, <3>3, StoredField
    <3> QED BY <3>1, <3>2, <3>4 DEF Starts
  <2>3. HexElsewhere(input) => Gather(Comp, StartsOf(Comp)) = EightBytes(input)
    BY <2>2 DEF Gather, EightBytes
  <2> QED BY <2>1, <2>3
<1>4. CleanBad <=> ~EightGroups(input)
  BY <1>1, <1>2, <1>3 DEF CleanBad, EightGroups
<1> QED BY <1>1, <1>2, <1>3, <1>4 DEF CleanBad

----------------------------------------------------------------------------
(* The "::" form.                                                          *)

\* The fields that are kept are those that are not empty: the shift of line 291 is
\* defined, as a text with one "::" has few colons.
LEMMA KeptFields ==
  ASSUME TypeOK, Length \in 2..45, NEW p, Dc = {p}, NEW fields \in FieldMasks
  PROVE  /\ Kept(fields) \in SUBSET (0..15)
         /\ \A k \in 0..15 : k \in Kept(fields) <=> k < Fields(input) /\ Pitch(input, k) >= 2
<1>1. PICK t : /\ t = input /\ t \in Seq(Byte) /\ DoublesOf(t) = {p} /\ Len(t) \in 2..45
               /\ MColon = ColonsOf(t)
  BY VectorIsText
<1>2. PICK F \in 2..24 : F = Fields(t) /\ F = NColon + 1
  <2>1. Fields(t) \in 2..24
    BY <1>1, FewColons
  <2>2. Fields(t) = NColon + 1
    BY <1>1 DEF Fields, NColon
  <2> QED BY <2>1, <2>2
<1>3. fields = (0..(F - 1)) \cap (0..15)
  <2>1. OnesBelow(F) = {0..(F - 1)}
    BY DEF OnesBelow
  <2> QED BY <1>2, <2>1 DEF FieldMasks
<1>4. ASSUME NEW k \in 0..15
      PROVE  k \in Kept(fields) <=> k < F /\ Pitch(t, k) >= 2
  <2>1. k \in fields <=> k < F
    BY <1>3
  <2>2. CASE ~ (k < F)
    BY <2>1, <2>2 DEF Kept
  <2>3. CASE k < F
    <3>1. PICK w \in 0..45 : w = Width[k] /\ w = Pitch(t, k) - 1
      BY <1>1, <1>2, <2>3, FieldLanes
    <3>2. Pitch(t, k) = w + 1
      <4>1. k \in 0..(F - 1)
        BY <2>3
      <4>2. Pitch(t, k) \in Nat
        BY <1>1, <1>2, <4>1, Pitches
      <4> QED BY <3>1, <4>2
    <3>3. Signed(w) = w
      BY DEF Signed
    <3>4. k \in Kept(fields) <=> w > 0
      BY <2>1, <2>3, <3>1, <3>3 DEF Kept
    <3> QED BY <2>3, <3>2, <3>4
  <2> QED BY <2>2, <2>3
<1>5. Kept(fields) \in SUBSET (0..15)
  BY <1>3 DEF Kept
<1> QED BY <1>1, <1>2, <1>4, <1>5

\* The kept fields and the slots they go to are the blocks of the groups.
LEMMA GapMasks ==
  ASSUME TypeOK, Length \in 2..45, NEW p, Dc = {p}, NEW fields \in FieldMasks,
         NEW h \in Nat, NEW n \in Nat, GapShape(input, p, h, n), Fields(input) <= 10
  PROVE  /\ Kept(fields) = Blocks(h, AtLeastOne(h) + 1, n)
         /\ Cardinality(Kept(fields)) = h + n
         /\ h + n <= 7 => SlotMasks(Kept(fields)) = {Blocks(h, 8 - n, n)}
<1>1. PICK t : t = input /\ t \in Seq(Byte) /\ MColon = ColonsOf(t) /\ GapShape(t, p, h, n)
  BY VectorIsText
<1>2. PICK d \in Nat \ {0} : d = AtLeastOne(h) /\ h <= d
  BY DEF AtLeastOne
<1>3. PICK F \in 0..10 : F = Fields(t) /\ F >= d + 1 + n
  <2>1. Fields(t) \in 0..10
    BY <1>1, SeparatorFacts
  <2>2. Fields(t) = d + 1 + AtLeastOne(n) /\ AtLeastOne(n) >= n /\ AtLeastOne(n) \in Nat
    BY <1>1, <1>2 DEF GapShape, AtLeastOne
  <2> QED BY <2>1, <2>2
<1>4. Kept(fields) = Blocks(h, d + 1, n)
  <2>1. PICK K : K = Kept(fields) /\ K \in SUBSET (0..15)
                 /\ \A k \in 0..15 : k \in K <=> k < F /\ Pitch(t, k) >= 2
    BY <1>1, <1>3, KeptFields
  <2>2. \A k \in 0..(F - 1) : Pitch(t, k) >= 2 <=> k \in Blocks(h, d + 1, n)
    BY <1>1, <1>2, <1>3 DEF GapShape
  <2>3. \A k \in Blocks(h, d + 1, n) : k \in 0..(F - 1)
    BY ONLY <1>2, <1>3, h \in Nat, n \in Nat DEF Blocks
  <2>4. \A k \in 0..(F - 1) : k \in 0..15 /\ k < F
    BY ONLY <1>3
  <2>5. \A k \in 0..15 : k < F => k \in 0..(F - 1)
    BY ONLY <1>3
  <2>6. \A k \in K : k \in Blocks(h, d + 1, n)
    BY <2>1, <2>2, <2>5
  <2>7. \A k \in Blocks(h, d + 1, n) : k \in K
    BY <2>1, <2>2, <2>3, <2>4
  <2> QED BY <2>1, <2>6, <2>7
<1>5. Cardinality(Kept(fields)) = h + n
  <2>1. d + 1 \in Nat /\ h <= d + 1
    BY <1>2
  <2> QED BY <1>4, <2>1, BlocksCount
<1>6. HeadFields = h
  <2>1. FirstDc = p
    <3>1. \A i \in Dc : i = p
      OBVIOUS
    <3>2. p \in Dc /\ p <= p
      BY DEF Dc, MColon, Active
    <3>3. \E i \in Dc : \A j \in Dc : i <= j
      BY <3>1, <3>2
    <3> QED BY <3>1, <3>3 DEF FirstDc
  <2>2. RankIn(ColonsOf(t), p) = d - 1 /\ (p = 0 <=> h = 0)
    BY <1>1, <1>2 DEF GapShape
  <2>3. Cardinality({i \in MColon : i < FirstDc}) = d - 1
    BY <1>1, <2>1, <2>2 DEF RankIn
  <2>4. h # 0 => d = h
    BY <1>2 DEF AtLeastOne
  <2>5. d - 1 + 1 = d
    BY <1>2
  <2> QED BY <2>1, <2>2, <2>3, <2>4, <2>5 DEF HeadFields
<1>7. ASSUME h + n <= 7 PROVE SlotMasks(Kept(fields)) = {Blocks(h, 8 - n, n)}
  <2>1. PICK z \in 1..8 : z = 8 - (h + n)
    BY <1>7
  <2>2. OnesBelow(z) = {0..(z - 1)}
    BY DEF OnesBelow
  <2>3. SlotMasks(Kept(fields)) = {(0..7) \ {h + i : i \in 0..(z - 1)}}
    <3>1. SlotMasks(Kept(fields)) = {(0..7) \ {h + i : i \in ones} : ones \in OnesBelow(z)}
      BY <1>5, <1>6, <2>1 DEF SlotMasks
    <3> QED BY <2>2, <3>1
  <2>4. (0..7) \ {h + i : i \in 0..(z - 1)} = Blocks(h, 8 - n, n)
    BY <1>7, <2>1, SlotBlocks
  <2> QED BY <2>3, <2>4
<1> QED BY <1>2, <1>4, <1>5, <1>7

\* Compressed, expanded and gathered, the fields are the address of the groups.
LEMMA GapStore ==
  ASSUME TypeOK, Length \in 2..45, HexElsewhere(input), NEW h \in Nat, NEW n \in Nat,
         h + n <= 7, Fields(input) = AtLeastOne(h) + 1 + AtLeastOne(n),
         NEW kept, kept = Blocks(h, AtLeastOne(h) + 1, n),
         NEW slots, slots = Blocks(h, 8 - n, n)
  PROVE  Gather(Slots(Comp, kept, slots), Slots(Starts, kept, slots)) = GapBytes(input, h, n)
<1>1. PICK d \in h..9 : d = AtLeastOne(h) /\ d \in Nat \ {0} /\ d + n <= 8
  <2>1. AtLeastOne(h) \in h..9 /\ AtLeastOne(h) \in Nat \ {0} /\ AtLeastOne(h) + n <= 8
    BY DEF AtLeastOne
  <2> QED BY <2>1
<1>2. PICK F \in Nat : F = Fields(input) /\ F >= d + 1 + n
  <2>1. AtLeastOne(n) \in Nat /\ AtLeastOne(n) >= n
    BY DEF AtLeastOne
  <2>2. d + 1 + AtLeastOne(n) \in Nat
    BY <2>1
  <2> QED BY <1>1, <2>1, <2>2
<1>3. \A v : \A i \in 0..7 : Slots(v, kept, slots)[i]
        = IF i < h THEN v[i] ELSE IF i >= 8 - n THEN v[d + 1 + i - (8 - n)] ELSE 0
  <2> SUFFICES ASSUME NEW v, NEW i \in 0..7
               PROVE  Slots(v, kept, slots)[i]
                        = IF i < h THEN v[i] ELSE IF i >= 8 - n THEN v[d + 1 + i - (8 - n)] ELSE 0
    OBVIOUS
  <2>1. h \in 0..7 /\ n \in 0..7
    OBVIOUS
  <2>2. PICK src : src = AllLanes(0)
    OBVIOUS
  <2>3. SlotsHold(ExpandInto(src, CompressLanes(v, Blocks(h, d + 1, n)), Blocks(h, 8 - n, n)),
                  v, src, h, n, d)
    BY <2>1, SlotLanes
  <2>4. Slots(v, kept, slots)
          = ExpandInto(src, CompressLanes(v, Blocks(h, d + 1, n)), Blocks(h, 8 - n, n))
    BY <1>1, <2>2 DEF Slots, ExpandLanes
  <2>5. src[i] = 0
    BY <2>2 DEF AllLanes
  <2>6. SlotsHold(Slots(v, kept, slots), v, src, h, n, d)
    BY <2>3, <2>4
  <2> QED BY <2>5, <2>6, Zenon DEF SlotsHold
<1>4. PICK ends, starts : ends = Slots(Comp, kept, slots) /\ starts = Slots(Starts, kept, slots)
  OBVIOUS
<1>5. \A i \in 0..7 :
        /\ ends[i] = IF i < h THEN Comp[i] ELSE IF i >= 8 - n THEN Comp[d + 1 + i - (8 - n)] ELSE 0
        /\ starts[i] = IF i < h THEN Starts[i]
                       ELSE IF i >= 8 - n THEN Starts[d + 1 + i - (8 - n)] ELSE 0
  BY <1>3, <1>4, Zenon
<1>6. ASSUME NEW b \in 0..15 PROVE Gather(ends, starts)[b] = GapBytes(input, h, n)[b]
  <2>1. PICK g \in 0..7 : g = b \div 2
    BY SlotOfByte
  <2>2. GapBytes(input, h, n)[b]
          = CASE g < h -> FieldByte(input, g, b)
              [] g >= 8 - n -> FieldByte(input, d + 1 + g - (8 - n), b)
              [] OTHER -> 0
    BY <1>1, <2>1 DEF GapBytes
  <2>3. CASE g < h
    <3>1. g \in 0..15 /\ g < Fields(input)
      BY <1>2, <2>3
    <3>2. ends[b \div 2] = Comp[g] /\ starts[b \div 2] = Starts[g]
      BY <1>5, <2>1, <2>3
    <3>3. Gather(ends, starts)[b] = FieldByte(input, g, b)
      BY <3>1, <3>2, StoredField
    <3> QED BY <2>2, <2>3, <3>3
  <2>4. CASE g >= 8 - n
    <3>1. ~ (g < h)
      BY <2>4
    <3>2. PICK k \in 0..15 : k = d + 1 + g - (8 - n) /\ k < Fields(input)
      <4>1. d + 1 + g - (8 - n) \in 0..15 /\ d + 1 + g - (8 - n) < F
        BY <1>1, <1>2, <2>4
      <4> QED BY <1>2, <4>1
    <3>3. ends[b \div 2] = Comp[k] /\ starts[b \div 2] = Starts[k]
      BY <1>5, <2>1, <2>4, <3>1, <3>2
    <3>4. Gather(ends, starts)[b] = FieldByte(input, k, b)
      BY <3>2, <3>3, StoredField
    <3>5. GapBytes(input, h, n)[b] = FieldByte(input, k, b)
      BY <2>2, <2>4, <3>1, <3>2
    <3> QED BY <3>4, <3>5
  <2>5. CASE ~ (g < h) /\ ~ (g >= 8 - n)
    <3>1. ends[b \div 2] = 0 /\ starts[b \div 2] = 0
      BY <1>5, <2>1, <2>5
    <3>2. Gather(ends, starts)[b] = 0
      BY <3>1, EmptySlot
    <3> QED BY <2>2, <2>5, <3>2
  <2> QED BY <2>3, <2>4, <2>5
<1>7. Gather(ends, starts) = GapBytes(input, h, n)
  BY <1>6 DEF Gather, GapBytes
<1> QED BY <1>4, <1>7

\* The "::" form accepts groups around one "::" and nothing else, and stores their
\* values.
LEMMA GapFormIsExact ==
  ASSUME TypeOK, Length \in 2..45, Dc # {},
         NEW fields \in FieldMasks, NEW slots \in SlotMasks(Kept(fields))
  PROVE  /\ ~GapBad(Kept(fields))
              => \E h, n \in Nat :
                   /\ GroupsAround(input, h, n)
                   /\ Gather(Slots(Comp, Kept(fields), slots), Slots(Starts, Kept(fields), slots))
                        = GapBytes(input, h, n)
         /\ (\E h, n \in Nat : GroupsAround(input, h, n)) => ~GapBad(Kept(fields))
<1>1. PICK t : /\ t = input /\ t \in Seq(Byte) /\ Length = Len(t)
               /\ MColon = ColonsOf(t) /\ Dc = DoublesOf(t) /\ (BadBytes <=> ~HexElsewhere(t))
  BY VectorIsText
<1>2. PICK kept : kept = Kept(fields)
  OBVIOUS
<1>w. \A k \in 0..15 : k < Fields(t) => Width[k] = Pitch(t, k) - 1 /\ Pitch(t, k) \in Nat
  <2> SUFFICES ASSUME NEW k \in 0..15, k < Fields(t)
               PROVE  Width[k] = Pitch(t, k) - 1 /\ Pitch(t, k) \in Nat
    OBVIOUS
  <2>1. k \in 0..(Fields(t) - 1)
    BY <1>1, SeparatorFacts
  <2> QED BY <1>1, <2>1, FieldLanes, Pitches
<1>3. ASSUME ~GapBad(kept)
      PROVE  \E h, n \in Nat :
               /\ GroupsAround(t, h, n)
               /\ Gather(Slots(Comp, kept, slots), Slots(Starts, kept, slots)) = GapBytes(t, h, n)
  <2>1. PICK p : Dc = {p} /\ DoublesOf(t) = {p}
    <3>1. \A i \in Dc : i = FirstDc
      BY <1>3 DEF GapBad
    <3>2. Dc = {FirstDc}
      BY <3>1
    <3> QED BY <1>1, <3>2
  <2>2. NoLoneEdge(t)
    BY <1>1, <1>3 DEF GapBad, NoLoneEdge
  <2>3. PICK h \in Nat, n \in Nat : GapShape(t, p, h, n)
    <3>1. \E h, n \in Nat : GapShape(t, p, h, n)
      BY <1>1, <2>1, <2>2, GapFields
    <3> QED BY <3>1
  <2>4. /\ kept \in SUBSET (0..15)
        /\ \A k \in 0..15 : k \in kept <=> k < Fields(t) /\ Pitch(t, k) >= 2
    BY <1>1, <1>2, <2>1, KeptFields
  <2>5. Fields(t) \in Nat /\ Fields(t) <= 10
    <3>1. PICK F \in Nat : F = Fields(t)
      BY <1>1, SeparatorFacts
    <3>2. ASSUME F >= 11 PROVE FALSE
      <4>1. \A k \in 1..9 : Pitch(t, k) >= 2 => k \in kept
        BY <2>4, <3>1, <3>2
      <4>2. Cardinality(kept) >= 8
        BY <1>1, <2>1, <2>4, <3>1, <3>2, <4>1, ManyGroups
      <4> QED BY <1>3, <4>2 DEF GapBad, NoGroupLeft
    <3> QED BY <3>1, <3>2
  <2>6. /\ kept = Blocks(h, AtLeastOne(h) + 1, n) /\ Cardinality(kept) = h + n
        /\ h + n <= 7 => SlotMasks(kept) = {Blocks(h, 8 - n, n)}
    <3>1. GapShape(input, p, h, n) /\ Fields(input) <= 10
      BY <1>1, <2>3, <2>5
    <3> QED BY <1>2, <2>1, <3>1, GapMasks
  <2>7. h + n <= 7
    BY <1>3, <2>6 DEF GapBad, NoGroupLeft
  <2>8. HexElsewhere(t)
    BY <1>1, <1>3 DEF GapBad
  <2>9. \A k \in 0..(Fields(t) - 1) : k \in Blocks(h, AtLeastOne(h) + 1, n) => Pitch(t, k) <= 5
    <3> SUFFICES ASSUME NEW k \in 0..(Fields(t) - 1), k \in kept PROVE Pitch(t, k) <= 5
      BY <2>6
    <3>1. k \in 0..15 /\ k < Fields(t)
      BY <2>5
    <3>2. ~ (Width[k] > 4)
      BY <1>3 DEF GapBad
    <3> QED BY <1>w, <3>1, <3>2
  <2>10. GroupsAround(t, h, n)
    BY <1>1, <2>3, <2>7, <2>8, <2>9, GapShapeIsGroups
  <2>11. slots = Blocks(h, 8 - n, n)
    BY <1>2, <2>6, <2>7
  <2>12. Fields(t) = AtLeastOne(h) + 1 + AtLeastOne(n)
    BY <2>3 DEF GapShape
  <2>13. Gather(Slots(Comp, kept, slots), Slots(Starts, kept, slots)) = GapBytes(t, h, n)
    BY <1>1, <2>6, <2>7, <2>8, <2>11, <2>12, GapStore
  <2> QED BY <2>10, <2>13
<1>4. ASSUME NEW h \in Nat, NEW n \in Nat, GroupsAround(t, h, n)
      PROVE  ~GapBad(kept)
  <2>1. PICK p \in Nat : /\ DoublesOf(t) = {p} /\ NoLoneEdge(t) /\ GapShape(t, p, h, n)
                         /\ Fields(t) \in 3..9
                         /\ \A k \in 0..(Fields(t) - 1) : Pitch(t, k) <= 5
    <3>1. \E p \in Nat : /\ DoublesOf(t) = {p} /\ NoLoneEdge(t) /\ GapShape(t, p, h, n)
                         /\ Fields(t) \in 3..9 /\ Len(t) \in 2..44
                         /\ \A k \in 0..(Fields(t) - 1) : Pitch(t, k) <= 5
      BY <1>1, <1>4, GroupsHaveGapShape
    <3> QED BY <3>1
  <2>2. /\ kept \in SUBSET (0..15)
        /\ \A k \in 0..15 : k \in kept <=> k < Fields(t) /\ Pitch(t, k) >= 2
    BY <1>1, <1>2, <2>1, KeptFields
  <2>3. Cardinality(kept) = h + n
    <3>1. GapShape(input, p, h, n) /\ Fields(input) <= 10 /\ Dc = {p}
      BY <1>1, <2>1
    <3> QED BY <1>2, <3>1, GapMasks
  <2>4. h + n <= 7 /\ HexElsewhere(t)
    BY <1>4 DEF GroupsAround
  <2>5. ~NoGroupLeft(kept)
    BY <2>3, <2>4 DEF NoGroupLeft
  <2>6. \A k \in kept : ~ (Width[k] > 4)
    <3> SUFFICES ASSUME NEW k \in kept PROVE ~ (Width[k] > 4)
      OBVIOUS
    <3>1. k \in 0..15 /\ k < Fields(t) /\ k \in 0..(Fields(t) - 1)
      BY <2>1, <2>2
    <3>2. Pitch(t, k) <= 5 /\ Pitch(t, k) \in Nat /\ Width[k] = Pitch(t, k) - 1
      BY <1>w, <2>1, <3>1
    <3> QED BY <3>2
  <2>7. FirstDc = p
    <3>1. \A i \in Dc : i = p
      BY <1>1, <2>1
    <3>2. p \in Dc /\ p <= p
      BY <1>1, <2>1
    <3>3. \E i \in Dc : \A j \in Dc : i <= j
      BY <3>1, <3>2
    <3> QED BY <3>1, <3>3 DEF FirstDc
  <2>8. ~ \E i \in Dc : i # FirstDc
    BY <1>1, <2>1, <2>7
  <2>9. ~ (0 \in MColon /\ 0 \notin Dc) /\ ~ (Length - 1 \in MColon /\ Length - 2 \notin Dc)
    BY <1>1, <2>1 DEF NoLoneEdge
  <2> QED BY <1>1, <2>4, <2>5, <2>6, <2>8, <2>9 DEF GapBad
<1> QED BY <1>1, <1>2, <1>3, <1>4

\* Of a store in the "::" form: it is one of GapFormIsExact.
LEMMA GapFormStores ==
  ASSUME TypeOK, GapForm
  PROVE  /\ Length \in 2..45 /\ Dc # {} /\ input' = input
         /\ pc' \in {"scalar", "returned"}
         /\ pc' = "returned" <=> \E h, n \in Nat : GroupsAround(input, h, n)
         /\ pc' = "returned" => /\ result' = "accepted"
                                /\ \E h, n \in Nat : GroupsAround(input, h, n)
                                                     /\ out' = GapBytes(input, h, n)
         /\ pc' = "scalar" => result' = result
<1>1. PICK fields \in FieldMasks : \E slots \in SlotMasks(Kept(fields)) :
        Decide(Gather(Slots(Comp, Kept(fields), slots), Slots(Starts, Kept(fields), slots)),
               GapBad(Kept(fields)))
  BY DEF GapForm
<1>2. PICK slots \in SlotMasks(Kept(fields)) :
        Decide(Gather(Slots(Comp, Kept(fields), slots), Slots(Starts, Kept(fields), slots)),
               GapBad(Kept(fields)))
  BY <1>1
<1>3. PICK stored, bad : /\ Decide(stored, bad) /\ (bad <=> GapBad(Kept(fields)))
                         /\ stored = Gather(Slots(Comp, Kept(fields), slots),
                                            Slots(Starts, Kept(fields), slots))
  BY <1>2
<1>4. Length \in 2..45 /\ Dc # {}
  BY DEF GapForm
<1>5. /\ ~bad => \E h, n \in Nat : GroupsAround(input, h, n) /\ stored = GapBytes(input, h, n)
      /\ (\E h, n \in Nat : GroupsAround(input, h, n)) => ~bad
  BY <1>3, <1>4, GapFormIsExact
<1>6. CASE bad
  BY <1>3, <1>4, <1>5, <1>6 DEF Decide
<1>7. CASE ~bad
  BY <1>3, <1>4, <1>5, <1>7 DEF Decide
<1> QED BY <1>6, <1>7

LEMMA CleanFormStores ==
  ASSUME TypeOK, CleanForm
  PROVE  /\ Length \in 2..45 /\ Dc = {} /\ input' = input
         /\ pc' \in {"scalar", "returned"}
         /\ pc' = "returned" <=> EightGroups(input)
         /\ pc' = "returned" => result' = "accepted" /\ out' = EightBytes(input)
         /\ pc' = "scalar" => result' = result
<1>1. Length \in 2..45 /\ Dc = {} /\ Decide(Gather(Comp, StartsOf(Comp)), CleanBad)
  BY DEF CleanForm
<1>2. /\ CleanBad <=> ~EightGroups(input)
      /\ ~CleanBad => Gather(Comp, StartsOf(Comp)) = EightBytes(input)
  BY <1>1, CleanFormIsExact
<1>3. CASE CleanBad
  BY <1>1, <1>2, <1>3 DEF Decide
<1>4. CASE ~CleanBad
  BY <1>1, <1>2, <1>4 DEF Decide
<1> QED BY <1>3, <1>4

\* The clean form accepts the texts of eight groups, all of them and no other, of
\* any length and content, and what it then stored is their address: the population
\* count, the wrapping widths and the sign bits (270-273) tell them exactly.
THEOREM CleanFormTakesGroups ==
  Spec => [][CleanForm => /\ pc' = "returned" <=> EightGroups(input)
                          /\ pc' = "returned" => out' = EightBytes(input)]_vars
<1>1. TypeOK /\ [Next]_vars
        => [CleanForm => /\ pc' = "returned" <=> EightGroups(input)
                         /\ pc' = "returned" => out' = EightBytes(input)]_vars
  BY CleanFormStores
<1> QED BY TypeCorrect, <1>1, PTL DEF Spec

\* The "::" form accepts the texts of at most seven groups around one "::", all of
\* them and no other, and what it then stored are their values with zeros in the
\* middle: no shift it executes is undefined on them, and neither the sixteen
\* lanes nor the wrapping widths (283-310) let another text through.
THEOREM GapFormTakesGroups ==
  Spec => [][GapForm => /\ pc' = "returned" <=> \E h, n \in Nat : GroupsAround(input, h, n)
                        /\ pc' = "returned"
                             => \E h, n \in Nat : /\ GroupsAround(input, h, n)
                                                  /\ out' = GapBytes(input, h, n)]_vars
<1>1. TypeOK /\ [Next]_vars
        => [GapForm => /\ pc' = "returned" <=> \E h, n \in Nat : GroupsAround(input, h, n)
                       /\ pc' = "returned"
                            => \E h, n \in Nat : /\ GroupsAround(input, h, n)
                                                 /\ out' = GapBytes(input, h, n)]_vars
  BY GapFormStores
<1> QED BY TypeCorrect, <1>1, PTL DEF Spec

----------------------------------------------------------------------------
(* The inductive invariant: what is left to the scalar reference are not   *)
(* groups, and a call that has answered has returned.                      *)

IInv ==
  /\ TypeOK
  /\ result = "pending" <=> pc # "returned"
  /\ pc = "scalar" => GroupMeaning(input) = {}

\* A text of groups has 2 to 44 characters, and is either clean or has one "::".
LEMMA OnlyGroupsMean ==
  ASSUME TypeOK,
         ~ (Length \in 2..45 /\ EightGroups(input) /\ Dc = {}),
         ~ (Length \in 2..45 /\ Dc # {} /\ \E h, n \in Nat : GroupsAround(input, h, n))
  PROVE  GroupMeaning(input) = {}
<1> SUFFICES ASSUME NEW a \in GroupMeaning(input) PROVE FALSE
  OBVIOUS
<1>1. PICK t : t = input /\ t \in Seq(Byte) /\ Length = Len(t) /\ Dc = DoublesOf(t)
  BY VectorIsText
<1>2. EightGroups(t) \/ \E h, n \in Nat : GroupsAround(t, h, n)
  <2>1. a \in GroupMeaning(t)
    BY <1>1
  <2> QED BY <2>1, GroupMeanings
<1>3. \A x \in 2..44 : x \in 2..45
  OBVIOUS
<1>4. CASE EightGroups(t)
  BY <1>1, <1>3, <1>4, EightHaveNoGap
<1>5. ASSUME NEW h \in Nat, NEW n \in Nat, GroupsAround(t, h, n) PROVE FALSE
  <2>1. \E p \in Nat : DoublesOf(t) = {p} /\ Len(t) \in 2..44
    BY <1>1, <1>5, GroupsHaveGapShape
  <2> QED BY <1>1, <1>3, <1>5, <2>1
<1> QED BY <1>2, <1>4, <1>5

LEMMA InitIInv == Init => IInv
  BY OutAssumption DEF Init, IInv, TypeOK

LEMMA NextIInv == IInv /\ [Next]_vars /\ TypeOK' => IInv'
<1> SUFFICES ASSUME IInv, [Next]_vars, TypeOK' PROVE IInv'
  OBVIOUS
<1> USE DEF IInv
<1>1. CASE OutOfRange
  <2>1. ~ (Length \in 2..45)
    <3>1. Length \in Nat /\ (Length < 2 \/ Length > 45)
      BY <1>1, VectorIsText DEF OutOfRange
    <3> QED BY ONLY <3>1
  <2>2. GroupMeaning(input) = {}
    BY <2>1, OnlyGroupsMean
  <2> QED BY <1>1, <2>2 DEF OutOfRange
<1>2. CASE CleanForm
  <2>1. pc = "entry"
    BY <1>2 DEF CleanForm
  <2>2. CASE pc' = "scalar"
    <3>1. GroupMeaning(input) = {}
      BY <1>2, <2>2, CleanFormStores, OnlyGroupsMean
    <3> QED BY <1>2, <2>1, <2>2, <3>1, CleanFormStores
  <2>3. CASE pc' = "returned"
    BY <1>2, <2>3, CleanFormStores
  <2> QED BY <1>2, <2>2, <2>3, CleanFormStores
<1>3. CASE GapForm
  <2>1. pc = "entry"
    BY <1>3 DEF GapForm
  <2>2. CASE pc' = "scalar"
    <3>1. GroupMeaning(input) = {}
      BY <1>3, <2>2, GapFormStores, OnlyGroupsMean
    <3> QED BY <1>3, <2>1, <2>2, <3>1, GapFormStores
  <2>3. CASE pc' = "returned"
    BY <1>3, <2>3, GapFormStores
  <2> QED BY <1>3, <2>2, <2>3, GapFormStores
<1>4. CASE RunScalar
  BY <1>4 DEF RunScalar, Scalar!Next, Scalar!Accept, Scalar!Refuse
<1>5. CASE UNCHANGED vars
  BY <1>5 DEF vars
<1> QED BY <1>1, <1>2, <1>3, <1>4, <1>5 DEF Next

LEMMA Invariance == Spec => []IInv
  BY InitIInv, NextIInv, TypeCorrect, PTL DEF Spec

\* Only a text with a dot is left to the scalar reference although it is an
\* address: on the strength of it vtlmks_ipv6_opt.h (46-51) rejects what has none.
THEOREM OnlyQuads ==
  ASSUME MeaningOfGroups
  PROVE  Spec => []OnlyQuadsFallBack
<1>1. IInv => OnlyQuadsFallBack
  <2> SUFFICES ASSUME IInv, pc = "scalar", Meaning(input) # {}
               PROVE  \E i \in Active : V(i) = Dot
    BY DEF OnlyQuadsFallBack
  <2>1. TypeOK /\ input \in Texts /\ GroupMeaning(input) = {}
    BY DEF IInv, TypeOK
  <2>2. Dotted(input)
    BY <2>1 DEF MeaningOfGroups
  <2> QED BY <2>1, <2>2, VectorIsText, TextFacts DEF Dotted
<1> QED BY <1>1, Invariance, PTL

\* An accepted text of groups has the meaning the scalar reference gives it.
LEMMA AcceptedIsMeant ==
  ASSUME MeaningOfGroups, TypeOK, NEW a, a \in GroupMeaning(input), HexElsewhere(input)
  PROVE  a \in Meaning(input)
BY HexIsDotless DEF MeaningOfGroups, TypeOK

\* In front of any scalar reference that finds in texts of groups the address of
\* the groups, parse_ipv6_avx512 is that reference, for texts of every length and
\* content: same answer, same bytes.
THEOREM Implementation ==
  ASSUME MeaningOfGroups
  PROVE  Spec => AgreesWithScalar
<1>1. Init => Contract!Init
  BY DEF Init, Contract!Init
<1>2. ASSUME IInv, [Next]_vars
      PROVE  [Contract!Next]_(Contract!parserVars)
  <2> USE DEF Contract!Next
  <2>1. CASE OutOfRange
    BY <2>1 DEF OutOfRange, Contract!parserVars
  <2>2. CASE CleanForm
    <3>1. pc = "entry" /\ result = "pending" /\ TypeOK
      BY <1>2, <2>2 DEF CleanForm, IInv
    <3>2. CASE pc' = "scalar"
      BY <2>2, <3>1, <3>2, CleanFormStores DEF Contract!parserVars
    <3>3. CASE pc' = "returned"
      <4>1. EightGroups(input) /\ out' = EightBytes(input) /\ result' = "accepted"
            /\ input' = input
        BY <2>2, <3>1, <3>3, CleanFormStores
      <4>2. HexElsewhere(input) /\ EightBytes(input) \in GroupMeaning(input)
        BY <4>1, GroupMeanings DEF EightGroups
      <4>3. out' \in Meaning(input)
        BY <3>1, <4>1, <4>2, AcceptedIsMeant
      <4> QED BY <3>1, <4>1, <4>3 DEF Contract!Accept
    <3> QED BY <2>2, <3>1, <3>2, <3>3, CleanFormStores
  <2>3. CASE GapForm
    <3>1. pc = "entry" /\ result = "pending" /\ TypeOK
      BY <1>2, <2>3 DEF GapForm, IInv
    <3>2. CASE pc' = "scalar"
      BY <2>3, <3>1, <3>2, GapFormStores DEF Contract!parserVars
    <3>3. CASE pc' = "returned"
      <4>1. result' = "accepted" /\ input' = input
        BY <2>3, <3>1, <3>3, GapFormStores
      <4>2. PICK h \in Nat, n \in Nat : GroupsAround(input, h, n) /\ out' = GapBytes(input, h, n)
        BY <2>3, <3>1, <3>3, GapFormStores
      <4>3. HexElsewhere(input) /\ GapBytes(input, h, n) \in GroupMeaning(input)
        BY <4>2, GroupMeanings DEF GroupsAround
      <4>4. out' \in Meaning(input)
        BY <3>1, <4>2, <4>3, AcceptedIsMeant
      <4> QED BY <3>1, <4>1, <4>4 DEF Contract!Accept
    <3> QED BY <2>3, <3>1, <3>2, <3>3, GapFormStores
  <2>4. CASE RunScalar
    BY <1>2, <2>4 DEF RunScalar, Scalar!Next, Scalar!Accept, Scalar!Refuse,
                      Contract!Accept, Contract!Refuse, IInv
  <2>5. CASE UNCHANGED vars
    BY <2>5 DEF vars, Contract!parserVars
  <2> QED BY <1>2, <2>1, <2>2, <2>3, <2>4, <2>5 DEF Next
<1> QED BY <1>1, <1>2, Invariance, PTL DEF Spec, AgreesWithScalar, Contract!Spec

=============================================================================
