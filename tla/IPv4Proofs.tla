----------------------------- MODULE IPv4Proofs -----------------------------
(***************************************************************************)
(* Theorems about the IPv4 parsers for texts of every length and content.  *)
(* parse_ipv4_ada: the accumulator always holds as many octets as the loop *)
(* counted and four when they are stored, and every step brings the call   *)
(* closer to its return.  The ten SIMD parsers: each, by the checks it     *)
(* makes, takes the strict dotted quads and nothing else.                  *)
(***************************************************************************)
EXTENDS AdaIPv4, SimdIPv4, SseIPv4, TextProofs, SequenceTheorems

----------------------------------------------------------------------------
(* parse_ipv4_ada.                                                         *)

\* Before the loop nothing is accumulated; a conversion that read a digit has
\* room for one more segment.
LoopInv ==
  /\ pc = "entry" => digit_count = 0 /\ ipv4 = <<>> /\ first = 0
  /\ pc = "convert" => digit_count < 4

AdaInv == AdaTypeOK /\ AccumulatorIsFilled /\ LoopInv

----------------------------------------------------------------------------
LEMMA ViewFacts ==
  ASSUME AdaTypeOK
  PROVE  /\ Len(input) \in Nat /\ first \in Nat /\ last \in Nat
         /\ first <= last /\ last <= Len(input)
         /\ \A i \in Nat : i < Size => View(i) \in Byte
<1>1. input \in Seq(Byte) /\ Len(input) \in Nat
  BY TextsAssumption DEF AdaTypeOK
<1>2. first \in Nat /\ last \in Nat /\ first <= last /\ last <= Len(input)
  BY <1>1 DEF AdaTypeOK
<1>3. ASSUME NEW i \in Nat, i < Size
      PROVE  View(i) \in Byte
  <2>1. first + i + 1 \in 1..Len(input)
    BY <1>1, <1>2, <1>3 DEF Size
  <2> QED
    BY <1>1, <2>1 DEF View, At
<1> QED
  BY <1>1, <1>2, <1>3

\* A conversion step yields a 32-bit value unless it overflows.
LEMMA NextSegmentWord ==
  ASSUME AdaTypeOK, pc = "convert", MoreDigits, ~Overflows(NextSegment)
  PROVE  NextSegment \in Word \X Word
<1>1. High(segment_result) \in Nat /\ Low(segment_result) \in Nat
  BY DEF AdaTypeOK, High, Low, Word
<1>2. View(0) \in Byte
  BY ViewFacts DEF MoreDigits, ViewEmpty, Size
<1>3. HexToBinary(View(0)) \in Nat /\ radix \in Nat
  <2>1. HexToBinary(View(0)) \in 0..15
    BY <1>2, HexDigitValue DEF MoreDigits
  <2>2. radix \in Nat
    BY DEF AdaTypeOK
  <2> QED BY <2>1, <2>2
<1> DEFINE low == Low(segment_result) * radix + HexToBinary(View(0))
           high == High(segment_result) * radix + low \div 65536
<1>4. low \in Nat
  BY <1>1, <1>3
<1>5. low % 65536 \in Word /\ low \div 65536 \in Nat
  BY <1>4 DEF Word
<1>6. high \in Nat
  BY <1>1, <1>3, <1>5
<1>7. NextSegment = <<high, low % 65536>>
  BY DEF NextSegment, TimesPlus
<1>8. high <= 65535
  BY <1>6, <1>7 DEF Overflows, High
<1> QED
  BY <1>5, <1>6, <1>7, <1>8 DEF Word

\* The last segment fills the bytes that are left, whatever their number.
LEMMA LastBytesFill ==
  ASSUME NEW w \in Word \X Word, NEW n \in 1..4
  PROVE  LastBytes(w, n) \in Seq(Byte) /\ Len(LastBytes(w, n)) = n
<1>1. \A i \in (5 - n)..4 : BytesOf(w)[i] \in Byte
  <2>1. High(w) \in Word /\ Low(w) \in Word
    BY DEF High, Low
  <2>2. \A v \in Word : v \div 256 \in Byte /\ v % 256 \in Byte
    BY DEF Word, Byte
  <2>3. \A i \in 1..4 : BytesOf(w)[i] \in Byte
    BY <2>1, <2>2 DEF BytesOf
  <2> QED
    BY <2>3
<1>2. 5 - n \in Int /\ 4 \in Int /\ 5 - n <= 4
  OBVIOUS
<1>3. /\ SubSeq(BytesOf(w), 5 - n, 4) \in Seq(Byte)
      /\ Len(SubSeq(BytesOf(w), 5 - n, 4)) = 4 - (5 - n) + 1
  BY <1>1, <1>2, SubSeqProperties
<1> QED
  BY <1>3 DEF LastBytes

LEMMA InitAdaInv == AdaInit => AdaInv
<1> SUFFICES ASSUME AdaInit PROVE AdaInv
  OBVIOUS
<1>1. input \in Seq(Byte) /\ Len(input) \in Nat
  BY TextsAssumption DEF AdaInit
<1>2. AdaTypeOK
  BY <1>1, OutAssumption DEF AdaInit, AdaTypeOK, ZeroWord32, Word
<1> QED
  BY <1>2 DEF AdaInit, AdaInv, AccumulatorIsFilled, LoopInv

\* A call that rejects leaves every local as it was and returns.
LEMMA RejectAdaInv ==
  ASSUME AdaInv, Reject
  PROVE  AdaInv'
BY DEF AdaInv, AdaTypeOK, AccumulatorIsFilled, LoopInv, Reject, view, address,
   conversion

\* Every step of the call preserves the inductive invariant.
LEMMA StepAdaInv ==
  ASSUME AdaInv, AdaNext
  PROVE  AdaInv'
<1> USE DEF view, address, conversion, caller
<1>0. /\ Len(input) \in Nat /\ first \in Nat /\ last \in Nat
      /\ first <= last /\ last <= Len(input)
  BY ViewFacts DEF AdaInv
<1>1. CASE \/ RejectEmpty \/ RejectConversion \/ RejectSegment \/ RejectLoopEnd
  BY <1>1, RejectAdaInv DEF RejectEmpty, RejectConversion, RejectSegment,
     RejectLoopEnd
<1>2. CASE Start
  <2>1. last' \in 0..Len(input) /\ first' \in 0..last'
    BY <1>0, <1>2 DEF Start, ViewEmpty, AdaInv, LoopInv
  <2>2. AdaTypeOK'
    BY <1>2, <2>1 DEF AdaInv, AdaTypeOK, Start
  <2> QED
    BY <1>2, <2>2 DEF AdaInv, AccumulatorIsFilled, LoopInv, Start
<1>3. CASE BareHex
  <2>1. first' \in 0..last
    BY <1>0, <1>3 DEF BareHex, IsBareHex, HasHexPrefix, Size
  <2>2. AdaTypeOK'
    BY <1>3, <2>1 DEF AdaInv, AdaTypeOK, BareHex, ZeroWord32, Word
  <2> QED
    BY <1>3, <2>2 DEF AdaInv, AccumulatorIsFilled, LoopInv, BareHex, ReadSegment
<1>4. CASE StartConversion
  <2>1. first' \in 0..last
    BY <1>0, <1>4 DEF StartConversion, IsOctal, HasHexPrefix, Size
  <2>2. AdaTypeOK'
    BY <1>4, <2>1 DEF AdaInv, AdaTypeOK, StartConversion, ZeroWord32, Word
  <2> QED
    BY <1>4, <2>2 DEF AdaInv, AccumulatorIsFilled, LoopInv, StartConversion,
       ReadSegment
<1>5. CASE ConvertDigit
  <2>1. first' \in 0..last
    BY <1>0, <1>5 DEF ConvertDigit, MoreDigits, ViewEmpty
  <2>2. segment_result' \in Word \X Word
    BY <1>5, NextSegmentWord DEF AdaInv, ConvertDigit
  <2>3. AdaTypeOK'
    BY <1>5, <2>1, <2>2 DEF AdaInv, AdaTypeOK, ConvertDigit
  <2> QED
    BY <1>5, <2>3 DEF AdaInv, AccumulatorIsFilled, LoopInv, ConvertDigit
<1>6. CASE EndConversion
  <2>1. AdaTypeOK'
    BY <1>6 DEF AdaInv, AdaTypeOK, EndConversion
  <2> QED
    BY <1>6, <2>1 DEF AdaInv, AccumulatorIsFilled, LoopInv, EndConversion
<1>7. CASE LastSegment
  <2>1. digit_count \in 0..3 /\ Len(ipv4) = digit_count /\ ipv4 \in Seq(Byte)
    BY <1>7 DEF AdaInv, AdaTypeOK, AccumulatorIsFilled, LastSegment
  <2>2. /\ LastBytes(segment_result, 4 - digit_count) \in Seq(Byte)
        /\ Len(LastBytes(segment_result, 4 - digit_count)) = 4 - digit_count
    <3>1. 4 - digit_count \in 1..4 /\ segment_result \in Word \X Word
      BY <2>1 DEF AdaInv, AdaTypeOK
    <3> QED
      BY <3>1, LastBytesFill
  <2>3. ipv4' \in Seq(Byte) /\ Len(ipv4') = 4
    BY <1>7, <2>1, <2>2, ConcatProperties DEF LastSegment
  <2>4. AdaTypeOK'
    BY <1>7, <2>3 DEF AdaInv, AdaTypeOK, LastSegment
  <2> QED
    BY <1>7, <2>3, <2>4 DEF AdaInv, AccumulatorIsFilled, LoopInv, LastSegment
<1>8. CASE MiddleSegment
  <2>1. digit_count \in 0..3 /\ Len(ipv4) = digit_count /\ ipv4 \in Seq(Byte)
    BY <1>8 DEF AdaInv, AdaTypeOK, AccumulatorIsFilled, MiddleSegment
  <2>2. Low(segment_result) \in Byte
    BY <1>8 DEF MiddleSegment, MiddleFits, FitsBytes, AdaInv, AdaTypeOK, Low, Word,
       Byte
  <2>3. /\ ipv4' \in Seq(Byte) /\ Len(ipv4') = digit_count'
        /\ digit_count' \in 0..4
    BY <1>8, <2>1, <2>2 DEF MiddleSegment
  <2>4. first' \in 0..last
    BY <1>0, <1>8 DEF MiddleSegment, ViewEmpty
  <2>5. AdaTypeOK'
    BY <1>8, <2>3, <2>4 DEF AdaInv, AdaTypeOK, MiddleSegment
  <2> QED
    BY <1>8, <2>3, <2>5 DEF AdaInv, AccumulatorIsFilled, LoopInv, MiddleSegment
<1>9. CASE LoopEnds
  <2>1. AdaTypeOK'
    BY <1>9 DEF AdaInv, AdaTypeOK, LoopEnds
  <2> QED
    BY <1>9, <2>1 DEF AdaInv, AccumulatorIsFilled, LoopInv, LoopEnds, FourSegments
<1>10. CASE Output
  <2>1. [i \in 0..3 |-> ipv4[i + 1]] \in [0..3 -> Byte]
    <3>1. ipv4 \in Seq(Byte) /\ Len(ipv4) = 4
      BY <1>10 DEF AdaInv, AdaTypeOK, AccumulatorIsFilled, Output
    <3> QED
      BY <3>1
  <2>2. AdaTypeOK'
    BY <1>10, <2>1 DEF AdaInv, AdaTypeOK, Output
  <2> QED
    BY <1>10, <2>2 DEF AdaInv, AccumulatorIsFilled, LoopInv, Output
<1> QED
  BY <1>1, <1>2, <1>3, <1>4, <1>5, <1>6, <1>7, <1>8, <1>9, <1>10 DEF AdaNext

----------------------------------------------------------------------------
\* The inductive invariant holds in every reachable state.
THEOREM AlwaysAdaInv == AdaSpec => []AdaInv
<1>1. AdaInv /\ UNCHANGED adaVars => AdaInv'
  BY DEF AdaInv, AdaTypeOK, AccumulatorIsFilled, LoopInv, adaVars, view, address,
     conversion, caller
<1> QED
  BY InitAdaInv, StepAdaInv, <1>1, PTL DEF AdaSpec

\* parse_ipv4_ada keeps its locals in the ranges of AdaTypeOK: in particular the
\* view never becomes negative, for texts of any length.
THEOREM AdaTypeCorrect == AdaSpec => []AdaTypeOK
BY AlwaysAdaInv, PTL DEF AdaInv

\* The stores of lines 93-96 always find 32 bits in the accumulator, and the
\* shift counts of lines 76-79 are 8, 16, 24 or 32.
THEOREM FilledAccumulator == AdaSpec => []AccumulatorIsFilled
BY AlwaysAdaInv, PTL DEF AdaInv

----------------------------------------------------------------------------
LEMMA AdaStepProgresses ==
  ASSUME AdaInv, AdaNext
  PROVE  Remaining' \in Nat /\ Remaining' < Remaining
<1>0. /\ first \in Nat /\ last \in Nat /\ first <= last
      /\ first' \in Nat /\ last' \in Nat /\ first' <= last'
  <2>1. AdaTypeOK /\ AdaTypeOK'
    BY StepAdaInv DEF AdaInv
  <2>2. input \in Seq(Byte) /\ input' \in Seq(Byte)
    BY <2>1, TextsAssumption DEF AdaTypeOK
  <2> QED
    BY <2>1, <2>2 DEF AdaTypeOK
<1> USE DEF view, Size, Remaining
<1>1. CASE \/ RejectEmpty \/ RejectConversion \/ RejectSegment \/ RejectLoopEnd
  BY <1>0, <1>1 DEF RejectEmpty, RejectConversion, RejectSegment,
     RejectLoopEnd, Reject
<1>2. CASE Start
  <2>1. first = 0
    BY <1>2 DEF AdaInv, LoopInv, Start
  <2> QED
    BY <1>0, <1>2, <2>1 DEF Start
<1>3. CASE BareHex
  BY <1>0, <1>3 DEF BareHex, ReadSegment
<1>4. CASE StartConversion
  BY <1>0, <1>4 DEF StartConversion, ReadSegment
<1>5. CASE ConvertDigit
  BY <1>0, <1>5 DEF ConvertDigit
<1>6. CASE EndConversion
  BY <1>0, <1>6 DEF EndConversion
<1>7. CASE LastSegment
  BY <1>0, <1>7 DEF LastSegment
<1>8. CASE MiddleSegment
  BY <1>0, <1>8 DEF MiddleSegment
<1>9. CASE LoopEnds
  BY <1>0, <1>9 DEF LoopEnds
<1>10. CASE Output
  BY <1>0, <1>10 DEF Output
<1> QED
  BY <1>1, <1>2, <1>3, <1>4, <1>5, <1>6, <1>7, <1>8, <1>9, <1>10 DEF AdaNext

\* A call takes at most 4 * length + 6 steps: each one lowers Remaining, a
\* natural number.
THEOREM AdaProgresses == AdaSpec => StepsMakeProgress
<1>1. AdaInv /\ AdaNext => Remaining' \in Nat /\ Remaining' < Remaining
  BY AdaStepProgresses
<1>2. AdaInv /\ [AdaNext]_adaVars => [Remaining' \in Nat /\ Remaining' < Remaining]_adaVars
  BY <1>1
<1> QED
  BY AlwaysAdaInv, <1>2, PTL DEF AdaSpec, StepsMakeProgress

----------------------------------------------------------------------------
(* Layouts, and texts that have one.                                       *)

\* The octets of a layout stand one dot apart.
LEMMA LayoutFacts ==
  ASSUME NEW l \in Layouts
  PROVE  /\ \A k \in 0..3 : l[k] \in 1..3 /\ EndOf(l, k) \in 1..15
         /\ EndOf(l, 0) = l[0]
         /\ EndOf(l, 1) = EndOf(l, 0) + l[1] + 1
         /\ EndOf(l, 2) = EndOf(l, 1) + l[2] + 1
         /\ EndOf(l, 3) = EndOf(l, 2) + l[3] + 1
         /\ DelimitersOf[l] = {EndOf(l, 0), EndOf(l, 1), EndOf(l, 2), EndOf(l, 3)}
<1>1. l[0] \in 1..3 /\ l[1] \in 1..3 /\ l[2] \in 1..3 /\ l[3] \in 1..3
  BY DEF Layouts
<1>2. \A k \in 0..3 : l[k] \in 1..3
  BY DEF Layouts
<1>3. /\ EndOf(l, 0) = l[0]
      /\ EndOf(l, 1) = l[0] + l[1] + 1
      /\ EndOf(l, 2) = l[0] + l[1] + l[2] + 2
      /\ EndOf(l, 3) = l[0] + l[1] + l[2] + l[3] + 3
  BY DEF EndOf
<1>4. /\ EndOf(l, 0) \in 1..15 /\ EndOf(l, 1) \in 1..15
      /\ EndOf(l, 2) \in 1..15 /\ EndOf(l, 3) \in 1..15
  BY <1>1, <1>3
<1>5. \A k \in 0..3 : EndOf(l, k) \in 1..15
  <2> TAKE k \in 0..3
  <2>1. k = 0 \/ k = 1 \/ k = 2 \/ k = 3
    OBVIOUS
  <2> QED BY <1>4, <2>1
<1>6. DelimitersOf[l] = {EndOf(l, 0), EndOf(l, 1), EndOf(l, 2), EndOf(l, 3)}
  <2>1. DelimitersOf[l] = {EndOf(l, k) : k \in 0..3}
    BY DEF DelimitersOf
  <2>2. 0..3 = {0, 1, 2, 3}
    OBVIOUS
  <2> QED BY <2>1, <2>2, Zenon
<1> QED BY <1>1, <1>2, <1>3, <1>5, <1>6

\* Four delimiters with one to three places before each are those of a layout.
Spaced(a, b, c, d) ==
  a \in 1..3 /\ b - a \in 2..4 /\ c - b \in 2..4 /\ d - c \in 2..4
OfLayout(a, b, c, d) == \E l \in Layouts : DelimitersOf[l] = {a, b, c, d}

LEMMA LayoutOfDelimiters ==
  ASSUME NEW a \in Int, NEW b \in Int, NEW c \in Int, NEW d \in Int,
         Spaced(a, b, c, d)
  PROVE  OfLayout(a, b, c, d)
<1> USE DEF Spaced
<1> DEFINE l == [k \in 0..3 |-> IF k = 0 THEN a ELSE IF k = 1 THEN b - a - 1
                                ELSE IF k = 2 THEN c - b - 1 ELSE d - c - 1]
<1>1. l \in Layouts
  <2>1. \A k \in 0..3 : l[k] \in 1..3
    OBVIOUS
  <2> QED BY <2>1 DEF Layouts
<1>2. l[0] = a /\ l[1] = b - a - 1 /\ l[2] = c - b - 1 /\ l[3] = d - c - 1
  OBVIOUS
<1> HIDE DEF l
<1>3. /\ EndOf(l, 0) = a /\ EndOf(l, 1) = b /\ EndOf(l, 2) = c /\ EndOf(l, 3) = d
  BY <1>2 DEF EndOf
<1> QED BY <1>1, <1>3, LayoutFacts, Zenon DEF OfLayout

LEMMA CountToThree ==
  ASSUME NEW a, NEW b, NEW c, a # b, a # c, b # c
  PROVE  /\ Cardinality({}) = 0 /\ Cardinality({a}) = 1
         /\ Cardinality({a, b}) = 2 /\ Cardinality({a, b, c}) = 3
<1>1. IsFiniteSet({a}) /\ Cardinality({a}) = 1
  BY FS_Singleton
<1>2. IsFiniteSet({a} \cup {b}) /\ Cardinality({a} \cup {b}) = 2
  BY <1>1, FS_AddElement
<1>3. IsFiniteSet(({a} \cup {b}) \cup {c}) /\ Cardinality(({a} \cup {b}) \cup {c}) = 3
  BY <1>2, FS_AddElement
<1>4. {a} \cup {b} = {a, b} /\ ({a} \cup {b}) \cup {c} = {a, b, c}
  OBVIOUS
<1> QED BY <1>1, <1>2, <1>3, <1>4, FS_EmptySet

\* Three lanes, in order.
LEMMA ThreeLanes ==
  ASSUME NEW lanes \in SUBSET Nat, IsFiniteSet(lanes), Cardinality(lanes) = 3
  PROVE  \E a, b, c \in lanes : a < b /\ b < c /\ lanes = {a, b, c}
<1>1. lanes \in SUBSET Nat /\ IsFiniteSet(lanes)
  OBVIOUS
<1>2. lanes # {}
  BY FS_EmptySet
<1>3. PICK a \in lanes : \A y \in lanes : a <= y
  BY <1>1, <1>2, LeastNumber
<1>4. IsFiniteSet(lanes \ {a}) /\ Cardinality(lanes \ {a}) = 2
  BY <1>1, FS_RemoveElement
<1>5. lanes \ {a} # {} /\ lanes \ {a} \subseteq Nat
  BY <1>1, <1>4, FS_EmptySet
<1>6. PICK b \in lanes \ {a} : \A y \in lanes \ {a} : b <= y
  BY <1>5, LeastNumber
<1>7. /\ IsFiniteSet((lanes \ {a}) \ {b})
      /\ Cardinality((lanes \ {a}) \ {b}) = 1
  BY <1>4, FS_RemoveElement
<1>8. PICK c : (lanes \ {a}) \ {b} = {c}
  BY <1>7, FS_Singleton
<1>9. c \in lanes /\ c # a /\ c # b /\ lanes = {a, b, c}
  BY <1>8
<1>10. a < b /\ b < c
  BY <1>1, <1>3, <1>6, <1>9
<1> QED BY <1>6, <1>9, <1>10

\* The first four lanes of a mask.
LEMMA FirstFour ==
  ASSUME NEW mask \in SUBSET Nat, IsFiniteSet(mask),
         NEW a \in mask, NEW b \in mask, NEW c \in mask, NEW d \in mask,
         a < b, b < c, c < d,
         \A i \in mask : i < d => i \in {a, b, c}
  PROVE  /\ (CHOOSE i \in mask : RankIn(mask, i) = 0) = a
         /\ (CHOOSE i \in mask : RankIn(mask, i) = 1) = b
         /\ (CHOOSE i \in mask : RankIn(mask, i) = 2) = c
         /\ (CHOOSE i \in mask : RankIn(mask, i) = 3) = d
         /\ Cardinality(mask) \in Nat /\ Cardinality(mask) > 3
<1>1. /\ {j \in mask : j < a} = {} /\ {j \in mask : j < b} = {a}
      /\ {j \in mask : j < c} = {a, b} /\ {j \in mask : j < d} = {a, b, c}
  <2>1. a \in Nat /\ b \in Nat /\ c \in Nat /\ d \in Nat
    OBVIOUS
  <2>2. \A j \in mask : /\ ~ (j < a) /\ (j < b <=> j = a)
                        /\ (j < c <=> j \in {a, b}) /\ (j < d <=> j \in {a, b, c})
    <3> TAKE j \in mask
    <3>1. j \in Nat
      OBVIOUS
    <3>2. j < d <=> j \in {a, b, c}
      BY <2>1
    <3> QED BY <2>1, <3>1, <3>2
  <2> QED BY <2>2
<1>2. a # b /\ a # c /\ b # c
  OBVIOUS
<1>3. /\ Cardinality({}) = 0 /\ Cardinality({a}) = 1
      /\ Cardinality({a, b}) = 2 /\ Cardinality({a, b, c}) = 3
  BY <1>2, CountToThree
<1>4. /\ RankIn(mask, a) = 0 /\ RankIn(mask, b) = 1
      /\ RankIn(mask, c) = 2 /\ RankIn(mask, d) = 3
  BY <1>1, <1>3, Zenon DEF RankIn
<1>5. \A e \in mask : \A i \in mask : RankIn(mask, i) = RankIn(mask, e) => i = e
  BY RankIsUnique
<1>6. ASSUME NEW e \in mask, NEW k, RankIn(mask, e) = k
      PROVE  (CHOOSE i \in mask : RankIn(mask, i) = k) = e
  BY <1>5, <1>6, Zenon
<1>7. /\ (CHOOSE i \in mask : RankIn(mask, i) = 0) = a
      /\ (CHOOSE i \in mask : RankIn(mask, i) = 1) = b
      /\ (CHOOSE i \in mask : RankIn(mask, i) = 2) = c
      /\ (CHOOSE i \in mask : RankIn(mask, i) = 3) = d
  BY <1>4, <1>6, Zenon
<1>8. Cardinality(mask) \in Nat /\ Cardinality(mask) > 3
  <2>1. RankIn(mask, d) \in 0..(Cardinality(mask) - 1)
    BY RankGrows
  <2>2. Cardinality(mask) \in Nat
    BY FS_CardinalityType
  <2> QED BY <1>4, <2>1, <2>2
<1> QED BY <1>7, <1>8

\* The bytes of a text that fits in the lanes.
LEMMA ShortText ==
  ASSUME NEW t \in Texts, Len(t) <= 15
  PROVE  /\ Len(t) \in 0..15
         /\ \A i \in 0..(Len(t) - 1) : At(t, i) \in Byte
         /\ DotsOf(t) \in SUBSET (0..(Len(t) - 1))
<1>1. t \in Seq(Byte) /\ Len(t) \in Nat
  BY TextsAssumption
<1>2. \A i \in 0..(Len(t) - 1) : At(t, i) \in Byte
  BY <1>1 DEF At
<1>3. DotsOf(t) \in SUBSET (0..(Len(t) - 1))
  BY DEF DotsOf
<1>4. Len(t) \in 0..15
  <2>1. \A n \in Nat : n <= 15 => n \in 0..15
    OBVIOUS
  <2> QED BY <1>1, <2>1, Zenon
<1> QED BY <1>2, <1>3, <1>4

\* In a text with a layout the first three delimiters are its dots, and the last
\* one is its end.
LEMMA LayoutOfText ==
  ASSUME NEW t, Len(t) \in 0..15, DotsOf(t) \in SUBSET (0..(Len(t) - 1)),
         NEW l \in Layouts, HasLayout(t, l)
  PROVE  /\ Len(t) = EndOf(l, 3)
         /\ DotsOf(t) = {EndOf(l, 0), EndOf(l, 1), EndOf(l, 2)}
<1>1. PICK a \in 1..15, b \in 1..15, c \in 1..15, d \in 1..15 :
        /\ a = EndOf(l, 0) /\ b = EndOf(l, 1) /\ c = EndOf(l, 2) /\ d = EndOf(l, 3)
        /\ a < b /\ b < c /\ c < d
  <2>1. /\ EndOf(l, 0) \in 1..15 /\ EndOf(l, 1) \in 1..15
        /\ EndOf(l, 2) \in 1..15 /\ EndOf(l, 3) \in 1..15
    BY LayoutFacts
  <2>2. PICK a \in 1..15, b \in 1..15, c \in 1..15, d \in 1..15 :
          a = EndOf(l, 0) /\ b = EndOf(l, 1) /\ c = EndOf(l, 2) /\ d = EndOf(l, 3)
    BY <2>1
  <2>3. l[1] \in 1..3 /\ l[2] \in 1..3 /\ l[3] \in 1..3
    BY LayoutFacts
  <2>4. PICK u \in 1..3, v \in 1..3, w \in 1..3 : u = l[1] /\ v = l[2] /\ w = l[3]
    BY <2>3
  <2>5. b = a + u + 1 /\ c = b + v + 1 /\ d = c + w + 1
    BY <2>2, <2>4, LayoutFacts
  <2>6. a < b /\ b < c /\ c < d
    BY <2>5
  <2> QED BY <2>2, <2>6
<1>2. PICK n \in 0..15 : n = Len(t)
  OBVIOUS
<1>3. DotsOf(t) \cup {n} = {a, b, c, d}
  BY <1>1, <1>2, LayoutFacts, Zenon DEF HasLayout
<1>4. \A i \in DotsOf(t) : i < n
  BY <1>2
<1>5. n = d
  <2>1. n \in {a, b, c, d} /\ d \in DotsOf(t) \cup {n}
    BY <1>3
  <2>2. n <= d
    BY <1>1, <2>1
  <2>3. ~ (d < n)
    BY <2>2
  <2> QED BY <1>4, <2>1, <2>3
<1>6. n \notin DotsOf(t)
  BY <1>4
<1>7. DotsOf(t) = {a, b, c}
  BY <1>1, <1>3, <1>5, <1>6
<1> QED BY <1>1, <1>2, <1>5, <1>7

\* A text has one layout at most.
LEMMA OneLayout ==
  ASSUME NEW l \in Layouts, NEW m \in Layouts, DelimitersOf[l] = DelimitersOf[m]
  PROVE  l = m
  BY PerfectHash

----------------------------------------------------------------------------
(* The AVX-512 parsers.                                                    *)

\* The lanes of a text that fits, whatever fills the rest.
LEMMA SimdLanes ==
  ASSUME input \in Texts, Fits
  PROVE  /\ Length \in 0..15 /\ Kept = Length
         /\ \A i \in 0..15 : V[i] = IF i < Length THEN At(input, i) ELSE Fill
         /\ \A i \in 0..15 : V[i] \in Byte
         /\ Fill = IF parser = "avx512vl" THEN Zero ELSE Dot
<1>1. /\ Length \in 0..15
      /\ \A i \in 0..(Length - 1) : At(input, i) \in Byte
  BY ShortText DEF Length, Fits
<1>2. PICK n \in 0..15 : n = Length
  BY <1>1
<1>3. Kept = n
  BY <1>2 DEF Kept, Low8
<1>4. \A i \in 0..15 : V[i] = IF i < n THEN At(input, i) ELSE Fill
  BY <1>3 DEF V
<1>5. Fill \in Byte
  BY DEF Fill, Byte, Zero, Dot
<1>6. \A i \in 0..15 : V[i] \in Byte
  <2> TAKE i \in 0..15
  <2>1. CASE i < n
    BY <1>1, <1>2, <1>4, <2>1
  <2>2. CASE ~ (i < n)
    BY <1>4, <1>5, <2>2
  <2> QED BY <2>1, <2>2
<1> QED BY <1>2, <1>3, <1>4, <1>6 DEF Fill

\* The sets of lanes, of such a text.
LEMMA SimdMasks ==
  ASSUME input \in Texts, Fits
  PROVE  /\ LenMask = 0..(Length - 1) /\ DotLanes = DotsOf(input)
         /\ Keep = (0..(Length - 1)) \ DotsOf(input)
         /\ Partition = DotsOf(input) \cup {Length}
         /\ parser # "avx512vl" => Delim = DotsOf(input) \cup Length..15
         /\ DotsOf(input) \in SUBSET (0..(Length - 1))
<1>1. PICK n \in 0..15 : n = Length /\ n = Kept
  BY SimdLanes
<1>2. \A i \in 0..15 : V[i] = IF i < n THEN At(input, i) ELSE Fill
  BY <1>1, SimdLanes
<1>3. LenMask = 0..(n - 1)
  BY <1>1 DEF LenMask
<1>4. DotsOf(input) = {i \in 0..(n - 1) : At(input, i) = Dot}
  BY <1>1 DEF DotsOf, Length
<1>5. DotLanes = DotsOf(input)
  BY <1>2, <1>3, <1>4 DEF DotLanes, Delim
<1>6. parser # "avx512vl" => Delim = DotsOf(input) \cup n..15
  BY <1>2, <1>4 DEF Delim, Fill
<1>7. Partition = DotsOf(input) \cup {n}
  <2>1. CASE parser = "avx512vl"
    <3>1. {Low8(n)} \cap 0..31 = {n}
      <4>1. Low8(n) = n /\ n \in 0..31
        BY DEF Low8
      <4> QED BY <4>1
    <3> QED BY <1>1, <1>5, <2>1, <3>1 DEF Partition
  <2>2. CASE parser # "avx512vl"
    <3>1. (DotsOf(input) \cup n..15) \cap (0..n) = DotsOf(input) \cup {n}
      <4>1. DotsOf(input) \subseteq 0..n
        BY <1>4
      <4>2. (n..15) \cap (0..n) = {n}
        OBVIOUS
      <4> QED BY <4>1, <4>2
    <3> QED BY <1>1, <1>6, <2>2, <3>1 DEF Partition
  <2> QED BY <2>1, <2>2
<1> QED BY <1>1, <1>3, <1>4, <1>5, <1>6, <1>7 DEF Keep

\* A lane counts as a digit if its byte is one.
LEMMA SimdDigits ==
  ASSUME input \in Texts, Fits, NEW i \in 0..15
  PROVE  /\ Digit[i] \in 0..255
         /\ Digit[i] <= 9 <=> IsDigit(V[i])
         /\ IsDigit(V[i]) => Digit[i] = V[i] - Zero
         /\ DigitOrZero(i) = IF IsDigit(V[i]) THEN V[i] - Zero ELSE 0
         /\ i \in IsDigitLanes <=> IsDigit(V[i])
<1>1. V[i] \in Byte
  BY SimdLanes
<1>2. PICK b \in 0..255 : b = V[i]
  BY <1>1 DEF Byte
<1>3. Digit[i] = (b - 48) % 256
  BY <1>2 DEF Digit, Low8, Zero
<1>4. /\ (b - 48) % 256 \in 0..255
      /\ (b - 48) % 256 <= 9 <=> b \in 48..57
      /\ b \in 48..57 => (b - 48) % 256 = b - 48
  OBVIOUS
<1> QED BY <1>2, <1>3, <1>4 DEF IsDigit, Zero, DigitOrZero, IsDigitLanes

\* Bytes that are no digit and no dot are found by either test.
LEMMA SimdHoles ==
  ASSUME input \in Texts, Fits
  PROVE  /\ Hole(0..15) <=> ~DigitsElsewhere(input)
         /\ Hole(0..31) <=> ~DigitsElsewhere(input)
<1>1. PICK n \in 0..15 : n = Length
  BY SimdLanes
<1>2. Keep = (0..(n - 1)) \ DotsOf(input)
  BY <1>1, SimdMasks
<1>3. Keep \cap 0..15 = Keep /\ Keep \cap 0..31 = Keep /\ Keep \subseteq 0..15
  BY <1>2
<1>4. \A i \in Keep : i \in IsDigitLanes <=> IsDigit(At(input, i))
  <2> TAKE i \in Keep
  <2>1. i \in 0..15 /\ i < n
    BY <1>2
  <2>2. V[i] = At(input, i)
    BY <1>1, <2>1, SimdLanes
  <2> QED BY <2>1, <2>2, SimdDigits
<1> QED BY <1>1, <1>2, <1>3, <1>4 DEF Hole, DigitsElsewhere, Length

\* Where a text has three dots, the compressed lanes begin with them and its end.
LEMMA SimdEnds ==
  ASSUME input \in Texts, Fits, parser # "avx512vl",
         NEW a \in Int, NEW b \in Int, NEW c \in Int,
         DotsOf(input) = {a, b, c}, a < b, b < c
  PROVE  C(0) = a /\ C(1) = b /\ C(2) = c /\ C(3) = Length
<1>1. PICK n \in 0..15 : n = Length
  BY SimdLanes
<1>2. /\ Delim = DotsOf(input) \cup n..15
      /\ DotsOf(input) \in SUBSET (0..(n - 1))
  BY <1>1, SimdMasks
<1>3. /\ Delim \in SUBSET (0..15) /\ a \in Delim /\ b \in Delim /\ c \in Delim
      /\ n \in Delim /\ c < n
  BY <1>2
<1>4. \A i \in Delim : i < n => i \in {a, b, c}
  BY <1>2
<1>5. Delim \in SUBSET Nat /\ IsFiniteSet(Delim)
  BY <1>3, LanesAreFinite
<1>6. /\ (CHOOSE i \in Delim : RankIn(Delim, i) = 0) = a
      /\ (CHOOSE i \in Delim : RankIn(Delim, i) = 1) = b
      /\ (CHOOSE i \in Delim : RankIn(Delim, i) = 2) = c
      /\ (CHOOSE i \in Delim : RankIn(Delim, i) = 3) = n
      /\ Cardinality(Delim) \in Nat /\ Cardinality(Delim) > 3
  BY <1>3, <1>4, <1>5, FirstFour
<1>7. /\ 0 < Cardinality(Delim) /\ 1 < Cardinality(Delim)
      /\ 2 < Cardinality(Delim) /\ 3 < Cardinality(Delim)
  BY <1>6
<1> QED BY <1>1, <1>6, <1>7, Zenon DEF C

\* Three dots with the gaps of one to three digits make a layout.
LEMMA GapsMakeLayout ==
  ASSUME input \in Texts, Fits, parser # "avx512vl",
         Cardinality(DotLanes) = 3, ~BadGap
  PROVE  \E l \in Layouts : HasLayout(input, l)
<1>1. PICK n \in 0..15 : n = Length
  BY SimdLanes
<1>2. DotLanes = DotsOf(input) /\ DotsOf(input) \in SUBSET (0..(n - 1))
  BY <1>1, SimdMasks
<1>3. DotsOf(input) \in SUBSET (0..15)
  BY <1>2
<1>4. PICK a \in 0..15, b \in 0..15, c \in 0..15 :
        a < b /\ b < c /\ DotsOf(input) = {a, b, c}
  <2>1. \E a, b, c \in DotsOf(input) : a < b /\ b < c /\ DotsOf(input) = {a, b, c}
    <3>1. DotsOf(input) \in SUBSET Nat /\ IsFiniteSet(DotsOf(input))
      BY <1>3, LanesAreFinite
    <3>2. Cardinality(DotsOf(input)) = 3
      BY <1>2
    <3> QED BY <3>1, <3>2, ThreeLanes
  <2> QED BY <1>3, <2>1
<1>5. c < n
  BY <1>2, <1>4
<1>6. C(0) = a /\ C(1) = b /\ C(2) = c /\ C(3) = n
  <2>1. a \in Int /\ b \in Int /\ c \in Int
    OBVIOUS
  <2> QED BY <1>1, <1>4, <2>1, SimdEnds, Zenon
<1>7. /\ Gap(0) = a /\ Gap(1) = b - a /\ Gap(2) = c - b /\ Gap(3) = n - c
  BY <1>4, <1>5, <1>6 DEF Gap, Low8
<1>8. /\ ~ (Low8(Gap(0) - 1) > 2) /\ ~ (Low8(Gap(1) - 2) > 2)
      /\ ~ (Low8(Gap(2) - 2) > 2) /\ ~ (Low8(Gap(3) - 2) > 2)
  BY DEF BadGap
<1>9. Spaced(a, b, c, n)
  <2>1. \A g \in 0..15 : ~ (Low8(g - 1) > 2) => g \in 1..3
    BY DEF Low8
  <2>2. \A g \in 1..15 : ~ (Low8(g - 2) > 2) => g \in 2..4
    BY DEF Low8
  <2>3. b - a \in 1..15 /\ c - b \in 1..15 /\ n - c \in 1..15
    BY <1>4, <1>5
  <2>4. /\ ~ (Low8(a - 1) > 2) /\ ~ (Low8((b - a) - 2) > 2)
        /\ ~ (Low8((c - b) - 2) > 2) /\ ~ (Low8((n - c) - 2) > 2)
    BY <1>7, <1>8, Zenon
  <2> QED BY <2>1, <2>2, <2>3, <2>4, Zenon DEF Spaced
<1>10. PICK l \in Layouts : DelimitersOf[l] = {a, b, c, n}
  <2>1. OfLayout(a, b, c, n)
    BY <1>9, LayoutOfDelimiters
  <2> QED BY <2>1 DEF OfLayout
<1>11. DotsOf(input) \cup {n} = {a, b, c, n}
  BY <1>4
<1> QED BY <1>1, <1>10, <1>11, Zenon DEF HasLayout, Length

\* The fourth delimiter is the end of the text only if there are three dots.
LEMMA FourthIsEnd ==
  ASSUME input \in Texts, Fits, parser # "avx512vl", C(3) = Low8(Length)
  PROVE  Cardinality(DotLanes) = 3
<1>1. PICK n \in 0..15 : n = Length
  BY SimdLanes
<1>2. /\ DotLanes = DotsOf(input) /\ Delim = DotsOf(input) \cup n..15
      /\ DotsOf(input) \in SUBSET (0..(n - 1))
  BY <1>1, SimdMasks
<1>3. Delim \in SUBSET Nat /\ IsFiniteSet(Delim) /\ Delim \in SUBSET (0..15)
  <2>1. Delim \in SUBSET (0..15)
    BY <1>2
  <2> QED BY <2>1, LanesAreFinite
<1>4. C(3) = n
  BY <1>1 DEF Low8
<1>5. Cardinality(Delim) \in Nat
  BY <1>3, FS_CardinalityType
<1>6. 3 < Cardinality(Delim)
  <2> SUFFICES ASSUME ~ (3 < Cardinality(Delim)) PROVE FALSE
    OBVIOUS
  <2>1. n = 0
    BY <1>4 DEF C
  <2>2. Delim = 0..15
    BY <1>2, <1>3, <2>1
  <2>3. Cardinality(Delim) = 15 - 0 + 1
    <3>1. 0 \in Int /\ 15 \in Int /\ ~ (0 > 15)
      OBVIOUS
    <3> QED BY <2>2, <3>1, FS_Interval, Zenon
  <2> QED BY <2>3
<1>7. \E i \in Delim : RankIn(Delim, i) = 3
  <2>1. 3 \in 0..(Cardinality(Delim) - 1)
    BY <1>5, <1>6
  <2> QED BY <1>3, <2>1, RankHasLane
<1>8. n = CHOOSE i \in Delim : RankIn(Delim, i) = 3
  BY <1>4, <1>6 DEF C
<1>9. RankIn(Delim, n) = 3
  BY <1>7, <1>8
<1>10. {j \in Delim : j < n} = DotsOf(input)
  BY <1>2
<1> QED BY <1>2, <1>9, <1>10, Zenon DEF RankIn

\* So do three dots, none at an edge, none beside another and no four lanes
\* without one.
LEMMA DotsMakeLayout ==
  ASSUME input \in Texts, Fits, ~BadLayout
  PROVE  \E l \in Layouts : HasLayout(input, l)
<1>1. PICK n \in 0..15 : n = Length
  BY SimdLanes
<1>2. /\ DotLanes = DotsOf(input) /\ DotsOf(input) \in SUBSET (0..(n - 1))
      /\ LenMask = 0..(n - 1) /\ Keep = (0..(n - 1)) \ DotsOf(input)
  BY <1>1, SimdMasks
<1>3. DotsOf(input) \in SUBSET (0..15) /\ Cardinality(DotsOf(input)) = 3
  BY <1>2, SMTT(30) DEF BadLayout
<1>4. PICK a \in 0..15, b \in 0..15, c \in 0..15 :
        a < b /\ b < c /\ DotsOf(input) = {a, b, c}
  <2>1. \E a, b, c \in DotsOf(input) : a < b /\ b < c /\ DotsOf(input) = {a, b, c}
    <3>1. DotsOf(input) \in SUBSET Nat /\ IsFiniteSet(DotsOf(input))
      BY <1>3, LanesAreFinite
    <3> QED BY <1>3, <3>1, ThreeLanes
  <2> QED BY <1>3, <2>1
<1>5. /\ 0 \notin {a, b, c} /\ \A i \in {a, b, c} : i + 1 \in 0..(n - 1)
      /\ \A i \in {a, b, c} : i + 1 \notin {a, b, c}
      /\ \A i \in Keep : ~ (i + 1 \in Keep /\ i + 2 \in Keep /\ i + 3 \in Keep)
  BY <1>2, <1>4 DEF BadLayout
<1>6. /\ a >= 1 /\ b >= a + 2 /\ c >= b + 2 /\ n >= c + 2
  BY <1>4, <1>5
<1>7. \A i \in Int : 0 <= i /\ i < n /\ i # a /\ i # b /\ i # c => i \in Keep
  BY <1>2, <1>4
<1>8. a <= 3
  <2> SUFFICES ASSUME a > 3 PROVE FALSE
    BY <1>4
  <2>1. 0 \in Keep /\ 0 + 1 \in Keep /\ 0 + 2 \in Keep /\ 0 + 3 \in Keep
    BY <1>6, <1>7
  <2> QED BY <1>5, <2>1
<1>9. b <= a + 4
  <2> SUFFICES ASSUME b > a + 4 PROVE FALSE
    BY <1>4
  <2>1. /\ a + 1 \in Keep /\ (a + 1) + 1 \in Keep
        /\ (a + 1) + 2 \in Keep /\ (a + 1) + 3 \in Keep
    BY <1>6, <1>7
  <2> QED BY <1>5, <2>1
<1>10. c <= b + 4
  <2> SUFFICES ASSUME c > b + 4 PROVE FALSE
    BY <1>4
  <2>1. /\ b + 1 \in Keep /\ (b + 1) + 1 \in Keep
        /\ (b + 1) + 2 \in Keep /\ (b + 1) + 3 \in Keep
    BY <1>6, <1>7
  <2> QED BY <1>5, <2>1
<1>11. n <= c + 4
  <2> SUFFICES ASSUME n > c + 4 PROVE FALSE
    BY <1>4
  <2>1. /\ c + 1 \in Keep /\ (c + 1) + 1 \in Keep
        /\ (c + 1) + 2 \in Keep /\ (c + 1) + 3 \in Keep
    BY <1>6, <1>7
  <2> QED BY <1>5, <2>1
<1>12. Spaced(a, b, c, n)
  BY <1>6, <1>8, <1>9, <1>10, <1>11 DEF Spaced
<1>13. PICK l \in Layouts : DelimitersOf[l] = {a, b, c, n}
  <2>1. a \in Int /\ b \in Int /\ c \in Int /\ n \in Int
    OBVIOUS
  <2>2. OfLayout(a, b, c, n)
    BY <1>12, <2>1, LayoutOfDelimiters
  <2> QED BY <2>2 DEF OfLayout
<1>14. DotsOf(input) \cup {n} = {a, b, c, n}
  BY <1>4
<1> QED BY <1>1, <1>13, <1>14, Zenon DEF HasLayout, Length

\* And so does the comparison with the layout the hash finds.
LEMMA KeyMakesLayout ==
  ASSUME input \in Texts, Fits, ~PartitionDiffers
  PROVE  \E l \in Layouts : HasLayout(input, l)
<1>1. PICK n \in 0..15 : n = Length
  BY SimdLanes
<1>2. Partition = DotsOf(input) \cup {n} /\ DotsOf(input) \in SUBSET (0..(n - 1))
  BY <1>1, SimdMasks
<1>3. Partition \in SUBSET (0..15)
  BY <1>2
<1>4. HashKey(Partition) \in 0..255
  BY <1>3, KeyAssumption
<1>5. Canonical = {l \in Layouts : HashKey(DelimitersOf[l]) = HashKey(Partition)}
  BY <1>4, ZenonT(40) DEF Canonical, Table
<1>6. PICK l \in Canonical : Partition = DelimitersOf[l]
  BY DEF PartitionDiffers
<1> QED BY <1>1, <1>2, <1>5, <1>6 DEF HasLayout, Length

\* The ends of the octets of a layout, as numbers, for the text that has it.
EndsAt(l, a, b, c, n) ==
  /\ a = EndOf(l, 0) /\ b = EndOf(l, 1) /\ c = EndOf(l, 2) /\ n = EndOf(l, 3)
  /\ n = Length /\ DotsOf(input) = {a, b, c}
  /\ a < b /\ b < c /\ c < n
  /\ l[0] = a /\ l[1] = b - a - 1 /\ l[2] = c - b - 1 /\ l[3] = n - c - 1
  /\ Spaced(a, b, c, n)

LEMMA LayoutNumbers ==
  ASSUME input \in Texts, Fits, NEW l \in Layouts, HasLayout(input, l)
  PROVE  \E a, b, c, n \in 1..15 : EndsAt(l, a, b, c, n)
<1>1. /\ EndOf(l, 0) \in 1..15 /\ EndOf(l, 1) \in 1..15
      /\ EndOf(l, 2) \in 1..15 /\ EndOf(l, 3) \in 1..15
  BY LayoutFacts, SMTT(30)
<1>2. PICK a \in 1..15, b \in 1..15, c \in 1..15, n \in 1..15 :
        a = EndOf(l, 0) /\ b = EndOf(l, 1) /\ c = EndOf(l, 2) /\ n = EndOf(l, 3)
  BY <1>1
<1>3. l[0] \in 1..3 /\ l[1] \in 1..3 /\ l[2] \in 1..3 /\ l[3] \in 1..3
  BY LayoutFacts
<1>4. PICK s \in 1..3, u \in 1..3, v \in 1..3, w \in 1..3 :
        s = l[0] /\ u = l[1] /\ v = l[2] /\ w = l[3]
  BY <1>3
<1>5. a = s /\ b = a + u + 1 /\ c = b + v + 1 /\ n = c + w + 1
  BY <1>2, <1>4, LayoutFacts
<1>6. Len(input) = EndOf(l, 3) /\ DotsOf(input) = {EndOf(l, 0), EndOf(l, 1), EndOf(l, 2)}
  <2>1. Len(input) \in 0..15 /\ DotsOf(input) \in SUBSET (0..(Len(input) - 1))
    BY ShortText DEF Fits, Length
  <2> QED BY <2>1, LayoutOfText
<1>7. n = Length /\ DotsOf(input) = {a, b, c}
  BY <1>2, <1>6 DEF Length
<1>8. a < b /\ b < c /\ c < n /\ Spaced(a, b, c, n)
  BY <1>5 DEF Spaced
<1>9. s = a /\ u = b - a - 1 /\ v = c - b - 1 /\ w = n - c - 1
  BY <1>5
<1>10. EndsAt(l, a, b, c, n)
  <2>1. a = EndOf(l, 0) /\ b = EndOf(l, 1) /\ c = EndOf(l, 2) /\ n = EndOf(l, 3)
    BY <1>2
  <2>2. l[0] = a /\ l[1] = b - a - 1 /\ l[2] = c - b - 1 /\ l[3] = n - c - 1
    BY <1>4, <1>9
  <2> QED BY <1>7, <1>8, <2>1, <2>2 DEF EndsAt
<1> QED BY <1>10

\* Three dots in order are three.
LEMMA ThreeDots ==
  ASSUME NEW a \in 1..15, NEW b \in 1..15, NEW c \in 1..15, a < b, b < c
  PROVE  Cardinality({a, b, c}) = 3
<1>1. a # b /\ a # c /\ b # c
  OBVIOUS
<1> QED BY <1>1, CountToThree, ZenonT(40)

\* A text with a layout passes every test of where its dots are.
LEMMA LayoutPasses ==
  ASSUME input \in Texts, Fits, NEW l \in Layouts, HasLayout(input, l)
  PROVE  /\ Cardinality(DotLanes) = 3 /\ ~BadLayout
         /\ Canonical = {l} /\ ~PartitionDiffers
         /\ parser # "avx512vl" => ~BadGap /\ C(3) = Low8(Length)
<1>1. PICK a \in 1..15, b \in 1..15, c \in 1..15, n \in 1..15 :
        /\ n = Length /\ DotsOf(input) = {a, b, c}
        /\ a < b /\ b < c /\ c < n /\ Spaced(a, b, c, n)
  <2>1. PICK a \in 1..15, b \in 1..15, c \in 1..15, n \in 1..15 :
          EndsAt(l, a, b, c, n)
    BY LayoutNumbers
  <2> QED BY <2>1 DEF EndsAt
<1>2. /\ DotLanes = {a, b, c} /\ LenMask = 0..(n - 1)
      /\ Keep = (0..(n - 1)) \ {a, b, c}
      /\ Partition = DotsOf(input) \cup {n}
  BY <1>1, SimdMasks
<1>3. Cardinality({a, b, c}) = 3
  BY <1>1, ThreeDots
<1>4. ~BadLayout
  <2>1. 0 \notin {a, b, c} /\ \A i \in {a, b, c} : i + 1 \in 0..(n - 1) /\ i + 1 \notin {a, b, c}
    BY <1>1 DEF Spaced
  <2>2. \A i \in (0..(n - 1)) \ {a, b, c} :
          \/ i + 1 \in {a, b, c} \/ i + 2 \in {a, b, c} \/ i + 3 \in {a, b, c}
          \/ i + 1 = n \/ i + 2 = n \/ i + 3 = n
    BY <1>1 DEF Spaced
  <2>3. \A i \in Keep : ~ (i + 1 \in Keep /\ i + 2 \in Keep /\ i + 3 \in Keep)
    <3> TAKE i \in Keep
    <3>1. i \in (0..(n - 1)) \ {a, b, c}
      BY <1>2
    <3>2. \A j \in Keep : j \notin {a, b, c} /\ j # n
      BY <1>2
    <3> QED BY <2>2, <3>1, <3>2, Zenon
  <2>4. Cardinality(DotLanes) = 3
    BY <1>2, <1>3
  <2>5. /\ 0 \notin DotLanes /\ ~ \E i \in DotLanes : i + 1 \notin LenMask
        /\ ~ \E i \in DotLanes : i + 1 \in DotLanes
    BY <1>2, <2>1
  <2> QED BY <2>3, <2>4, <2>5, Zenon DEF BadLayout
<1>5. Partition = DelimitersOf[l]
  BY <1>1, <1>2 DEF HasLayout, Length
<1>6. Canonical = {l}
  <2>1. HashKey(DelimitersOf[l]) \in 0..255
    <3>1. Partition \in SUBSET (0..15)
      BY <1>1, <1>2
    <3> QED BY <1>5, <3>1, KeyAssumption
  <2>2. Canonical = {m \in Layouts : HashKey(DelimitersOf[m]) = HashKey(DelimitersOf[l])}
    BY <1>5, <2>1, Zenon DEF Canonical, Table
  <2>3. \A m \in Layouts : HashKey(DelimitersOf[m]) = HashKey(DelimitersOf[l]) => m = l
    BY PerfectHash, Zenon
  <2> QED BY <2>2, <2>3
<1>7. ~PartitionDiffers
  BY <1>5, <1>6 DEF PartitionDiffers
<1>8. ASSUME parser # "avx512vl" PROVE ~BadGap /\ C(3) = Low8(Length)
  <2>1. C(0) = a /\ C(1) = b /\ C(2) = c /\ C(3) = n
    <3>1. a \in Int /\ b \in Int /\ c \in Int
      OBVIOUS
    <3> QED BY <1>1, <1>8, <3>1, SimdEnds, Zenon
  <2>2. C(3) = Low8(Length)
    BY <1>1, <2>1 DEF Low8
  <2>3. /\ Gap(0) = a /\ Gap(1) = b - a /\ Gap(2) = c - b /\ Gap(3) = n - c
    BY <1>1, <2>1 DEF Gap, Low8
  <2>4. /\ ~ (Low8(a - 1) > 2) /\ ~ (Low8((b - a) - 2) > 2)
        /\ ~ (Low8((c - b) - 2) > 2) /\ ~ (Low8((n - c) - 2) > 2)
    BY <1>1 DEF Low8, Spaced
  <2>5. \A k \in 0..3 : ~ (Low8(Gap(k) - (IF k = 0 THEN 1 ELSE 2)) > 2)
    <3> TAKE k \in 0..3
    <3>1. k = 0 \/ k = 1 \/ k = 2 \/ k = 3
      OBVIOUS
    <3> QED BY <2>3, <2>4, <3>1
  <2> QED BY <2>2, <2>5, Zenon DEF BadGap
<1> QED BY <1>2, <1>3, <1>4, <1>6, <1>7, <1>8

\* Where octet k of a text with a layout is: the lanes of its digits, and the dot
\* before it.
OctetAt(l, k, e, w) ==
  /\ e = EndOf(l, k) /\ w = l[k] /\ e - w >= 0 /\ e <= Length
  /\ e \in DotsOf(input) \cup {Length}
  /\ \A i \in (e - w)..(e - 1) : i \in (0..(Length - 1)) \ DotsOf(input)
  /\ k = 0 => e = w
  /\ k > 0 => e - w - 1 = EndOf(l, k - 1) /\ e - w - 1 \in DotsOf(input)

LEMMA OctetLanes ==
  ASSUME input \in Texts, Fits, NEW l \in Layouts, HasLayout(input, l), NEW k \in 0..3
  PROVE  \E e \in 1..15, w \in 1..3 : OctetAt(l, k, e, w)
<1>1. PICK a \in 1..15, b \in 1..15, c \in 1..15, n \in 1..15 :
        EndsAt(l, a, b, c, n)
  BY LayoutNumbers
<1> USE DEF EndsAt
<1>2. /\ a \in 1..3 /\ b - a - 1 \in 1..3 /\ c - b - 1 \in 1..3 /\ n - c - 1 \in 1..3
  BY <1>1 DEF Spaced
<1>3. CASE k = 0
  <2>1. \A i \in (a - a)..(a - 1) : i \in (0..(n - 1)) \ {a, b, c}
    BY <1>1
  <2>2. OctetAt(l, k, a, a)
    BY <1>1, <1>2, <1>3, <2>1 DEF OctetAt
  <2> QED BY <1>2, <2>2
<1>4. CASE k = 1
  <2>1. PICK w \in 1..3 : w = b - a - 1
    BY <1>2
  <2>2. b - w >= 0 /\ b - w - 1 = a /\ b <= n
    BY <1>1, <2>1
  <2>3. \A i \in (b - w)..(b - 1) : i \in (0..(n - 1)) \ {a, b, c}
    BY <1>1, <2>1
  <2>4. b = EndOf(l, k) /\ w = l[k] /\ b \in DotsOf(input) \cup {n}
    BY <1>1, <1>4, <2>1
  <2>5. b - w - 1 = EndOf(l, k - 1) /\ b - w - 1 \in DotsOf(input)
    <3>1. k - 1 = 0
      BY <1>4
    <3>2. a = EndOf(l, k - 1)
      BY <1>1, <3>1
    <3> QED BY <1>1, <2>2, <3>2
  <2>6. \A i \in (b - w)..(b - 1) : i \in (0..(Length - 1)) \ DotsOf(input)
    BY <1>1, <2>3
  <2>7. k # 0 /\ b - w >= 0 /\ b <= Length /\ b \in DotsOf(input) \cup {Length}
    BY <1>1, <1>4, <2>2, <2>4
  <2> QED BY <2>4, <2>5, <2>6, <2>7, Zenon DEF OctetAt
<1>5. CASE k = 2
  <2>1. PICK w \in 1..3 : w = c - b - 1
    BY <1>2
  <2>2. c - w >= 0 /\ c - w - 1 = b /\ c <= n
    BY <1>1, <2>1
  <2>3. \A i \in (c - w)..(c - 1) : i \in (0..(n - 1)) \ {a, b, c}
    BY <1>1, <2>1
  <2>4. c = EndOf(l, k) /\ w = l[k] /\ c \in DotsOf(input) \cup {n}
    BY <1>1, <1>5, <2>1
  <2>5. c - w - 1 = EndOf(l, k - 1) /\ c - w - 1 \in DotsOf(input)
    <3>1. k - 1 = 1
      BY <1>5
    <3>2. b = EndOf(l, k - 1)
      BY <1>1, <3>1
    <3> QED BY <1>1, <2>2, <3>2
  <2>6. \A i \in (c - w)..(c - 1) : i \in (0..(Length - 1)) \ DotsOf(input)
    BY <1>1, <2>3
  <2>7. k # 0 /\ c - w >= 0 /\ c <= Length /\ c \in DotsOf(input) \cup {Length}
    BY <1>1, <1>5, <2>2, <2>4
  <2> QED BY <2>4, <2>5, <2>6, <2>7, Zenon DEF OctetAt
<1>6. CASE k = 3
  <2>1. PICK w \in 1..3 : w = n - c - 1
    BY <1>2
  <2>2. n - w >= 0 /\ n - w - 1 = c /\ n <= n
    BY <1>1, <2>1
  <2>3. \A i \in (n - w)..(n - 1) : i \in (0..(n - 1)) \ {a, b, c}
    BY <1>1, <2>1
  <2>4. n = EndOf(l, k) /\ w = l[k] /\ n \in DotsOf(input) \cup {n}
    BY <1>1, <1>6, <2>1
  <2>5. n - w - 1 = EndOf(l, k - 1) /\ n - w - 1 \in DotsOf(input)
    <3>1. k - 1 = 2
      BY <1>6
    <3>2. c = EndOf(l, k - 1)
      BY <1>1, <3>1
    <3> QED BY <1>1, <2>2, <3>2
  <2>6. \A i \in (n - w)..(n - 1) : i \in (0..(Length - 1)) \ DotsOf(input)
    BY <1>1, <2>3
  <2>7. k # 0 /\ n - w >= 0 /\ n <= Length /\ n \in DotsOf(input) \cup {Length}
    BY <1>1, <1>6, <2>2, <2>4
  <2> QED BY <2>4, <2>5, <2>6, <2>7, Zenon DEF OctetAt
<1>7. k = 0 \/ k = 1 \/ k = 2 \/ k = 3
  OBVIOUS
<1> QED BY <1>3, <1>4, <1>5, <1>6, <1>7, SMTT(30)

LEMMA MaxOfTwo ==
  ASSUME NEW x \in Int, NEW y \in Int
  PROVE  Max({x, y}) = IF x >= y THEN x ELSE y
<1>1. PICK m \in {x, y} : \A z \in {x, y} : m >= z
  OBVIOUS
<1>2. /\ Max({x, y}) \in {x, y} /\ \A z \in {x, y} : Max({x, y}) >= z
  BY <1>1, Zenon DEF Max
<1> QED BY <1>2

\* Each place holds the digit the layout has there, zero where it has none.
LEMMA SimdPlaces ==
  ASSUME input \in Texts, Fits, NEW l \in Layouts, HasLayout(input, l),
         DigitsElsewhere(input), NEW k \in 0..3, NEW n \in 1..4
  PROVE  /\ Place(k, n) = DigitOf(input, l, k, n)
         /\ DigitOf(input, l, k, n) \in 0..9
         /\ n = 4 => DigitOf(input, l, k, n) = 0
<1>1. PICK e \in 1..15, w \in 1..3 : OctetAt(l, k, e, w)
  BY OctetLanes
<1> USE DEF OctetAt
<1>2. ASSUME n <= w
      PROVE  /\ e - n \in 0..15 /\ V[e - n] = At(input, e - n) /\ IsDigit(At(input, e - n))
  <2>1. e - n \in (e - w)..(e - 1)
    BY <1>2
  <2>2. e - n \in (0..(Length - 1)) \ DotsOf(input)
    BY <1>1, <2>1
  <2>3. IsDigit(At(input, e - n))
    BY <2>2 DEF DigitsElsewhere, Length
  <2>4. Length \in 0..15
    BY SimdLanes
  <2>5. e - n \in 0..15 /\ e - n < Length
    BY <2>2, <2>4
  <2>6. V[e - n] = At(input, e - n)
    BY <2>5, SimdLanes
  <2> QED BY <2>3, <2>5, <2>6
<1>3. DigitOf(input, l, k, n) = IF n <= w THEN At(input, e - n) - Zero ELSE 0
  BY <1>1 DEF DigitOf
<1>4. DigitOf(input, l, k, n) \in 0..9
  BY <1>2, <1>3 DEF IsDigit, Zero
<1>5. n = 4 => DigitOf(input, l, k, n) = 0
  BY <1>3
<1>6. CASE parser = "avx512vl"
  <2>1. Canonical = {l}
    BY LayoutPasses
  <2>2. {EndOf(m, k) - n : m \in {m \in Canonical : n <= m[k]}}
          = IF n <= w THEN {e - n} ELSE {}
    BY <1>1, <2>1
  <2>3. CASE n <= w
    <3>1. (CHOOSE i \in {e - n} : TRUE) = e - n
      OBVIOUS
    <3>2. FromTable(k, n) = Digit[e - n]
      BY <2>2, <2>3, <3>1 DEF FromTable
    <3>3. Digit[e - n] = V[e - n] - Zero
      BY <1>2, <2>3, SimdDigits
    <3> QED BY <1>2, <1>3, <1>4, <1>5, <1>6, <2>3, <3>2, <3>3 DEF Place
  <2>4. CASE ~ (n <= w)
    <3>1. FromTable(k, n) = 0
      BY <2>2, <2>4 DEF FromTable
    <3> QED BY <1>3, <1>4, <1>5, <1>6, <2>4, <3>1 DEF Place
  <2> QED BY <2>3, <2>4
<1>7. CASE parser # "avx512vl"
  <2>1. C(k) = e /\ Prev(k) = e - w - 1
    <3>1. PICK a \in 1..15, b \in 1..15, c \in 1..15, d \in 1..15 :
            EndsAt(l, a, b, c, d)
      BY LayoutNumbers
    <3> USE DEF EndsAt
    <3>2. C(0) = a /\ C(1) = b /\ C(2) = c /\ C(3) = d
      <4>1. a \in Int /\ b \in Int /\ c \in Int
        OBVIOUS
      <4> QED BY <1>7, <3>1, <4>1, SimdEnds, Zenon
    <3>3. \A j \in 0..3 : C(j) = EndOf(l, j)
      <4> TAKE j \in 0..3
      <4>1. j = 0 \/ j = 1 \/ j = 2 \/ j = 3
        OBVIOUS
      <4> QED BY <3>1, <3>2, <4>1
    <3>4. CASE k = 0
      BY <1>1, <3>3, <3>4 DEF Prev
    <3>5. CASE k > 0
      <4>1. k - 1 \in 0..3 /\ k # 0
        BY <3>5
      <4> QED BY <1>1, <3>3, <3>5, <4>1 DEF Prev
    <3> QED BY <3>4, <3>5, SMTT(30)
  <2>2. Max({C(k) - n, Prev(k)}) = IF n <= w THEN e - n ELSE e - w - 1
    <3>1. e - n \in Int /\ e - w - 1 \in Int
      OBVIOUS
    <3>2. Max({e - n, e - w - 1}) = IF e - n >= e - w - 1 THEN e - n ELSE e - w - 1
      BY <3>1, MaxOfTwo, Zenon
    <3>3. C(k) - n = e - n /\ Prev(k) = e - w - 1
      BY <2>1
    <3>4. n <= w => e - n >= e - w - 1
      OBVIOUS
    <3>5. ~ (n <= w) => e - n <= e - w - 1
      OBVIOUS
    <3> QED BY <3>2, <3>3, <3>4, <3>5
  <2>3. CASE n <= w
    <3>1. Computed(k, n) = DigitOrZero(e - n)
      BY <1>2, <2>2, <2>3 DEF Computed
    <3>2. DigitOrZero(e - n) = V[e - n] - Zero
      BY <1>2, <2>3, SimdDigits
    <3> QED BY <1>2, <1>3, <1>4, <1>5, <1>7, <2>3, <3>1, <3>2 DEF Place
  <2>4. CASE ~ (n <= w)
    <3>1. CASE k = 0
      <4>1. e - w - 1 < 0
        BY <1>1, <3>1
      <4> QED BY <1>3, <1>4, <1>5, <1>7, <2>2, <2>4, <4>1 DEF Computed, Place
    <3>2. CASE k > 0
      <4>1. e - w - 1 \in DotsOf(input)
        BY <1>1, <3>2
      <4>2. /\ e - w - 1 \in 0..15 /\ e - w - 1 < Length /\ At(input, e - w - 1) = Dot
        <5>1. Length \in 0..15
          BY SimdLanes
        <5> QED BY <4>1, <5>1 DEF DotsOf, Length
      <4>3. V[e - w - 1] = Dot
        BY <4>2, SimdLanes
      <4>4. DigitOrZero(e - w - 1) = 0
        BY <4>2, <4>3, SimdDigits DEF IsDigit, Dot
      <4>5. ~ (e - w - 1 < 0)
        BY <4>2
      <4> QED BY <1>3, <1>4, <1>5, <1>7, <2>2, <2>4, <4>4, <4>5 DEF Computed, Place
    <3> QED BY <3>1, <3>2
  <2> QED BY <2>3, <2>4
<1> QED BY <1>6, <1>7

\* An octet of two or three digits that begins with a zero.
SomeZero(l) == \E k \in 0..3 : l[k] >= 2 /\ DigitOf(input, l, k, l[k]) = 0

\* Where the octets of a text with a layout start.
LEMMA StartsOfLayout ==
  ASSUME input \in Texts, Fits, NEW l \in Layouts, HasLayout(input, l)
  PROVE  Starts = {EndOf(l, k) - l[k] : k \in 0..3}
<1>1. PICK a \in 1..15, b \in 1..15, c \in 1..15, n \in 1..15 :
        EndsAt(l, a, b, c, n)
  BY LayoutNumbers
<1> USE DEF EndsAt
<1>2. DotLanes = {a, b, c}
  BY <1>1, SimdMasks
<1>3. Starts = {0, a + 1, b + 1, c + 1}
  BY <1>2 DEF Starts
<1>4. /\ EndOf(l, 0) - l[0] = 0 /\ EndOf(l, 1) - l[1] = a + 1
      /\ EndOf(l, 2) - l[2] = b + 1 /\ EndOf(l, 3) - l[3] = c + 1
  <2>1. /\ a - a = 0 /\ b - (b - a - 1) = a + 1
        /\ c - (c - b - 1) = b + 1 /\ n - (n - c - 1) = c + 1
    OBVIOUS
  <2> QED BY <1>1, <2>1, Zenon
<1>5. 0..3 = {0, 1, 2, 3}
  OBVIOUS
<1> QED BY <1>3, <1>4, <1>5, Zenon

\* The search for a leading zero, for next lanes that tell the lanes of a text
\* from its delimiters.
LEMMA SimdZeros ==
  ASSUME input \in Texts, Fits, NEW l \in Layouts, HasLayout(input, l),
         DigitsElsewhere(input), NEW next,
         \A k \in 0..3 : /\ EndOf(l, k) \notin next
                         /\ l[k] >= 2 => EndOf(l, k) - l[k] + 1 \in next
  PROVE  LeadingZero(next) <=> SomeZero(l)
<1>1. ASSUME NEW k \in 0..3
      PROVE  /\ l[k] \in 1..3 /\ EndOf(l, k) \in 1..15 /\ EndOf(l, k) - l[k] \in 0..15
             /\ V[EndOf(l, k) - l[k]] = Zero <=> DigitOf(input, l, k, l[k]) = 0
  <2>1. PICK e \in 1..15, w \in 1..3 : OctetAt(l, k, e, w)
    BY OctetLanes
  <2> USE DEF OctetAt
  <2>2. e - w \in (0..(Length - 1)) \ DotsOf(input) /\ e - w \in 0..15
    BY <2>1
  <2>3. Length \in 0..15
    BY SimdLanes
  <2>4. V[e - w] = At(input, e - w)
    <3>1. e - w < Length
      BY <2>2, <2>3
    <3> QED BY <2>2, <3>1, SimdLanes
  <2>5. IsDigit(At(input, e - w))
    BY <2>2 DEF DigitsElsewhere, Length
  <2>6. PICK b \in 48..57 : b = At(input, e - w)
    BY <2>5 DEF IsDigit
  <2>7. DigitOf(input, l, k, w) = b - 48
    BY <2>1, <2>6 DEF DigitOf, Zero
  <2>8. V[e - w] = Zero <=> DigitOf(input, l, k, w) = 0
    BY <2>4, <2>6, <2>7 DEF Zero
  <2> QED BY <2>1, <2>2, <2>8
<1>2. Starts = {EndOf(l, k) - l[k] : k \in 0..3}
  BY StartsOfLayout
<1>3. ASSUME NEW k \in 0..3
      PROVE  EndOf(l, k) - l[k] + 1 \in next <=> l[k] >= 2
  <2>1. PICK e \in 1..15, w \in 1..3 : e = EndOf(l, k) /\ w = l[k]
    BY <1>1
  <2>2. ~ (w >= 2) => e - w + 1 = e
    OBVIOUS
  <2>3. e \notin next /\ (w >= 2 => e - w + 1 \in next)
    BY <2>1
  <2>4. e - w + 1 \in next <=> w >= 2
    BY <2>2, <2>3, Zenon
  <2> QED BY <2>1, <2>4, Zenon
<1>4. LeadingZero(next) <=>
        \E i \in {EndOf(l, k) - l[k] : k \in 0..3} : i <= 15 /\ V[i] = Zero /\ i + 1 \in next
  BY <1>2, Zenon DEF LeadingZero
<1>5. \A k \in 0..3 : EndOf(l, k) - l[k] <= 15
  <2> TAKE k \in 0..3
  <2>1. EndOf(l, k) - l[k] \in 0..15
    BY <1>1
  <2> QED BY <2>1
<1> QED BY <1>1, <1>3, <1>4, <1>5, Zenon DEF SomeZero

\* The lanes of the text without its dots are such lanes, and, where '.' fills the
\* lanes after the text, so are the lanes of digits.
LEMMA NextLanes ==
  ASSUME input \in Texts, Fits, NEW l \in Layouts, HasLayout(input, l),
         DigitsElsewhere(input)
  PROVE  /\ LeadingZero(Keep) <=> SomeZero(l)
         /\ parser # "avx512vl" => (LeadingZero(IsDigitLanes) <=> SomeZero(l))
         /\ TableLeadingZero <=> SomeZero(l)
<1>1. ASSUME NEW k \in 0..3
      PROVE  /\ EndOf(l, k) \in 0..15
             /\ EndOf(l, k) \notin (0..(Length - 1)) \ DotsOf(input)
             /\ EndOf(l, k) \in DotsOf(input) \cup {Length}
             /\ l[k] >= 2 => EndOf(l, k) - l[k] + 1 \in (0..(Length - 1)) \ DotsOf(input)
  <2>1. PICK e \in 1..15, w \in 1..3 : OctetAt(l, k, e, w)
    BY OctetLanes
  <2> USE DEF OctetAt
  <2>2. w >= 2 => e - w + 1 \in (e - w)..(e - 1)
    OBVIOUS
  <2>3. Length \in 0..15
    BY SimdLanes
  <2>4. e \notin (0..(Length - 1)) \ DotsOf(input)
    BY <2>1, <2>3
  <2> QED BY <2>1, <2>2, <2>4
<1>2. Keep = (0..(Length - 1)) \ DotsOf(input)
  BY SimdMasks
<1>3. LeadingZero(Keep) <=> SomeZero(l)
  BY <1>1, <1>2, SimdZeros
<1>4. ASSUME parser # "avx512vl" PROVE LeadingZero(IsDigitLanes) <=> SomeZero(l)
  <2>1. ASSUME NEW i \in (0..(Length - 1)) \ DotsOf(input) PROVE i \in IsDigitLanes
    <3>1. Length \in 0..15
      BY SimdLanes
    <3>2. i \in 0..15 /\ i < Length
      BY <3>1
    <3>3. V[i] = At(input, i)
      BY <3>2, SimdLanes
    <3>4. IsDigit(At(input, i))
      BY DEF DigitsElsewhere, Length
    <3> QED BY <3>2, <3>3, <3>4, SimdDigits
  <2>2. ASSUME NEW i \in 0..15, i \in DotsOf(input) \cup {Length} PROVE i \notin IsDigitLanes
    <3>1. Length \in 0..15
      BY SimdLanes
    <3>2. V[i] = Dot
      <4>1. CASE i \in DotsOf(input)
        <5>1. i < Length /\ At(input, i) = Dot
          BY <3>1, <4>1 DEF DotsOf, Length
        <5> QED BY <5>1, SimdLanes
      <4>2. CASE i = Length
        <5>1. ~ (i < Length)
          BY <3>1, <4>2
        <5> QED BY <1>4, <5>1, SimdLanes
      <4> QED BY <2>2, <4>1, <4>2
    <3>3. ~IsDigit(V[i])
      BY <3>2 DEF IsDigit, Dot
    <3> QED BY <3>3, SimdDigits
  <2>3. \A k \in 0..3 : /\ EndOf(l, k) \notin IsDigitLanes
                        /\ l[k] >= 2 => EndOf(l, k) - l[k] + 1 \in IsDigitLanes
    BY <1>1, <2>1, <2>2
  <2> QED BY <2>3, SimdZeros
<1>5. TableLeadingZero <=> SomeZero(l)
  <2>1. Canonical = {l}
    BY LayoutPasses
  <2>2. \A k \in 0..3 : Place(k, l[k]) = DigitOf(input, l, k, l[k])
    <3> TAKE k \in 0..3
    <3>1. l[k] \in 1..4
      BY LayoutFacts
    <3> QED BY <3>1, SimdPlaces
  <2> QED BY <2>1, <2>2, Zenon DEF TableLeadingZero, SomeZero
<1> QED BY <1>3, <1>4, <1>5

\* The octets, and the two ways of finding one that is over 255.
LEMMA SimdOctets ==
  ASSUME input \in Texts, Fits, NEW l \in Layouts, HasLayout(input, l),
         DigitsElsewhere(input)
  PROVE  /\ \A k \in 0..3 : Octet(k) = OctetOf(input, l, k) /\ Octet(k) \in 0..999
         /\ OverValue <=> \E k \in 0..3 : OctetOf(input, l, k) > 255
         /\ OverDigits <=> \E k \in 0..3 : OctetOf(input, l, k) > 255
<1>1. ASSUME NEW k \in 0..3
      PROVE  /\ Octet(k) = OctetOf(input, l, k) /\ Octet(k) \in 0..999
             /\ Octet(k) > 255 <=> OctetOf(input, l, k) > 255
             /\ (Place(k, 1) + 256 * (Place(k, 2) + 256 * (Place(k, 3) + 256 * Place(k, 4)))
                   > 5 + 256 * (5 + 256 * 2)) <=> OctetOf(input, l, k) > 255
  <2>1. /\ Place(k, 1) = DigitOf(input, l, k, 1) /\ Place(k, 2) = DigitOf(input, l, k, 2)
        /\ Place(k, 3) = DigitOf(input, l, k, 3) /\ Place(k, 4) = 0
        /\ Place(k, 1) \in 0..9 /\ Place(k, 2) \in 0..9 /\ Place(k, 3) \in 0..9
    <3>1. 1 \in 1..4 /\ 2 \in 1..4 /\ 3 \in 1..4 /\ 4 \in 1..4
      OBVIOUS
    <3> QED BY <3>1, SimdPlaces
  <2>2. PICK x \in 0..9, y \in 0..9, z \in 0..9 :
          x = Place(k, 1) /\ y = Place(k, 2) /\ z = Place(k, 3)
    BY <2>1
  <2>3. Octet(k) = 100 * z + 10 * y + x
    BY <2>2 DEF Octet
  <2>4. OctetOf(input, l, k) = 100 * z + 10 * y + x
    BY <2>1, <2>2 DEF OctetOf
  <2>5. 100 * z + 10 * y + x \in 0..999
    OBVIOUS
  <2>6. (Place(k, 1) + 256 * (Place(k, 2) + 256 * (Place(k, 3) + 256 * Place(k, 4)))
           > 5 + 256 * (5 + 256 * 2)) <=> OctetOf(input, l, k) > 255
    <3>1. x + 256 * (y + 256 * (z + 256 * 0)) > 5 + 256 * (5 + 256 * 2)
            <=> 100 * z + 10 * y + x > 255
      OBVIOUS
    <3>2. Place(k, 1) + 256 * (Place(k, 2) + 256 * (Place(k, 3) + 256 * Place(k, 4)))
            = x + 256 * (y + 256 * (z + 256 * 0))
      <4>1. Place(k, 1) = x /\ Place(k, 2) = y /\ Place(k, 3) = z /\ Place(k, 4) = 0
        BY <2>1, <2>2
      <4> QED BY <4>1
    <3> QED BY <2>4, <3>1, <3>2
  <2>7. Octet(k) = OctetOf(input, l, k) /\ Octet(k) \in 0..999
    BY <2>3, <2>4, <2>5
  <2>8. Octet(k) > 255 <=> OctetOf(input, l, k) > 255
    BY <2>7
  <2> QED BY <2>6, <2>7, <2>8
<1>2. OverValue <=> \E k \in 0..3 : OctetOf(input, l, k) > 255
  BY <1>1 DEF OverValue
<1>3. OverDigits <=> \E k \in 0..3 : OctetOf(input, l, k) > 255
  BY <1>1 DEF OverDigits
<1> QED BY <1>1, <1>2, <1>3

\* Whatever the validation, a text it passes has a layout and digits elsewhere.
LEMMA PassesHasLayout ==
  ASSUME input \in Texts, Fits, parser \in SimdParsers, ~Error
  PROVE  DigitsElsewhere(input) /\ \E l \in Layouts : HasLayout(input, l)
<1>1. CASE parser = "avx512vl" \/ parser = "strict" \/ parser = "tiny"
  <2>1. ~PartitionDiffers /\ ~Hole(0..15)
    BY <1>1 DEF Error
  <2> QED BY <2>1, KeyMakesLayout, SimdHoles
<1>2. CASE parser = "notab" \/ parser = "notab4" \/ parser = "notab5"
  <2>1. Cardinality(DotLanes) = 3 /\ ~BadGap /\ ~Hole(0..15)
    BY <1>2 DEF Error
  <2> QED BY <1>2, <2>1, GapsMakeLayout, SimdHoles
<1>3. CASE parser = "notab2"
  <2>1. C(3) = Low8(Length) /\ ~BadGap /\ ~Hole(0..15)
    BY <1>3 DEF Error
  <2>2. Cardinality(DotLanes) = 3
    BY <1>3, <2>1, FourthIsEnd
  <2> QED BY <1>3, <2>1, <2>2, GapsMakeLayout, SimdHoles
<1>4. CASE parser = "notab3"
  <2>1. ~BadLayout /\ ~Hole(0..31)
    BY <1>4 DEF Error
  <2> QED BY <2>1, DotsMakeLayout, SimdHoles
<1> QED BY <1>1, <1>2, <1>3, <1>4 DEF SimdParsers

\* Of such a text it asks what an octet has to be.
LEMMA LayoutError ==
  ASSUME input \in Texts, Fits, parser \in SimdParsers,
         NEW l \in Layouts, HasLayout(input, l), DigitsElsewhere(input)
  PROVE  Error <=> (\E k \in 0..3 : OctetOf(input, l, k) > 255) \/ SomeZero(l)
<1>1. /\ Cardinality(DotLanes) = 3 /\ ~BadLayout /\ ~PartitionDiffers
      /\ parser # "avx512vl" => ~BadGap /\ C(3) = Low8(Length)
  BY LayoutPasses
<1>2. ~Hole(0..15) /\ ~Hole(0..31)
  BY SimdHoles
<1>3. /\ OverValue <=> \E k \in 0..3 : OctetOf(input, l, k) > 255
      /\ OverDigits <=> \E k \in 0..3 : OctetOf(input, l, k) > 255
  BY SimdOctets
<1>4. /\ LeadingZero(Keep) <=> SomeZero(l)
      /\ parser # "avx512vl" => (LeadingZero(IsDigitLanes) <=> SomeZero(l))
      /\ TableLeadingZero <=> SomeZero(l)
  BY NextLanes
<1>5. CASE parser = "avx512vl"
  BY <1>1, <1>2, <1>3, <1>4, <1>5 DEF Error
<1>6. CASE parser = "strict" \/ parser = "tiny"
  BY <1>1, <1>2, <1>3, <1>4, <1>6 DEF Error
<1>7. CASE parser = "notab" \/ parser = "notab4"
  BY <1>1, <1>2, <1>3, <1>4, <1>7 DEF Error
<1>8. CASE parser = "notab5"
  BY <1>1, <1>2, <1>3, <1>4, <1>8 DEF Error
<1>9. CASE parser = "notab2"
  BY <1>1, <1>2, <1>3, <1>4, <1>9 DEF Error
<1>10. CASE parser = "notab3"
  BY <1>1, <1>2, <1>3, <1>4, <1>10 DEF Error
<1> QED BY <1>5, <1>6, <1>7, <1>8, <1>9, <1>10 DEF SimdParsers

\* The octets of a text with a layout are what IsOctetOf says of them.
LEMMA QuadOctets ==
  ASSUME NEW t, NEW l \in Layouts, HasLayout(t, l), DigitsElsewhere(t),
         \A k \in 0..3 : OctetOf(t, l, k) \in 0..999
  PROVE  IsQuadOf(t, l) <=>
           ~ ((\E k \in 0..3 : OctetOf(t, l, k) > 255)
               \/ \E k \in 0..3 : l[k] >= 2 /\ DigitOf(t, l, k, l[k]) = 0)
<1>1. \A k \in 0..3 : OctetOf(t, l, k) <= 255 <=> ~ (OctetOf(t, l, k) > 255)
  <2> TAKE k \in 0..3
  <2>1. PICK n \in 0..999 : n = OctetOf(t, l, k)
    OBVIOUS
  <2> QED BY <2>1
<1> QED BY <1>1, ZenonT(40) DEF IsQuadOf, IsOctetOf

\* A text with a layout is no longer than the lanes.
LEMMA QuadFits ==
  ASSUME NEW t \in Texts, NEW l \in Layouts, HasLayout(t, l)
  PROVE  Len(t) <= 15
<1>1. Len(t) \in DelimitersOf[l]
  BY DEF HasLayout
<1>2. /\ EndOf(l, 0) \in 1..15 /\ EndOf(l, 1) \in 1..15
      /\ EndOf(l, 2) \in 1..15 /\ EndOf(l, 3) \in 1..15
      /\ DelimitersOf[l] = {EndOf(l, 0), EndOf(l, 1), EndOf(l, 2), EndOf(l, 3)}
  BY LayoutFacts
<1>3. Len(t) \in 1..15
  BY <1>1, <1>2
<1>4. \A n \in 1..15 : n <= 15
  OBVIOUS
<1> QED BY <1>3, <1>4, Zenon

\* The eight validations take the strict quads and no other text.
LEMMA TakesTheQuads ==
  ASSUME input \in Texts, parser \in SimdParsers
  PROVE  Taken <=> \E l \in Layouts : IsQuadOf(input, l)
<1>1. ASSUME Fits, NEW l \in Layouts, HasLayout(input, l), DigitsElsewhere(input)
      PROVE  ~Error <=> IsQuadOf(input, l)
  <2>1. \A k \in 0..3 : OctetOf(input, l, k) \in 0..999
    BY <1>1, SimdOctets
  <2> QED BY <1>1, <2>1, LayoutError, QuadOctets DEF SomeZero
<1>2. ASSUME Taken PROVE \E l \in Layouts : IsQuadOf(input, l)
  <2>1. Fits /\ ~Error
    BY <1>2 DEF Taken
  <2>2. DigitsElsewhere(input) /\ \E l \in Layouts : HasLayout(input, l)
    BY <2>1, PassesHasLayout
  <2> QED BY <1>1, <2>1, <2>2
<1>3. ASSUME NEW l \in Layouts, IsQuadOf(input, l) PROVE Taken
  <2>1. HasLayout(input, l) /\ DigitsElsewhere(input)
    BY <1>3 DEF IsQuadOf
  <2>2. Fits
    BY <2>1, QuadFits DEF Fits, Length
  <2>3. ~Error
    BY <1>1, <1>3, <2>1, <2>2
  <2> QED BY <2>2, <2>3 DEF Taken
<1> QED BY <1>2, <1>3

\* The octets of a strict quad are four bytes.
LEMMA QuadBytes ==
  ASSUME NEW t, NEW l \in Layouts, IsQuadOf(t, l),
         \A k \in 0..3 : OctetOf(t, l, k) \in 0..999
  PROVE  /\ OctetsOf(t, l) \in [0..3 -> Byte]
         /\ \A k \in 0..3 : /\ OctetOf(t, l, k) \in 0..255
                            /\ Low8(OctetOf(t, l, k)) = OctetOf(t, l, k)
<1>1. ASSUME NEW k \in 0..3
      PROVE  /\ OctetOf(t, l, k) \in Byte /\ OctetOf(t, l, k) \in 0..255
             /\ Low8(OctetOf(t, l, k)) = OctetOf(t, l, k)
  <2>1. PICK n \in 0..999 : n = OctetOf(t, l, k)
    OBVIOUS
  <2>2. OctetOf(t, l, k) <= 255
    BY DEF IsQuadOf, IsOctetOf
  <2>3. n \in Byte /\ n \in 0..255 /\ Low8(n) = n
    BY <2>1, <2>2 DEF Byte, Low8
  <2> QED BY <2>1, <2>3
<1> QED BY <1>1 DEF OctetsOf

\* What the lanes store for a quad.
LEMMA StoresTheQuad ==
  ASSUME input \in Texts, parser \in SimdParsers, Taken
  PROVE  /\ [k \in 0..3 |-> Low8(Octet(k))] \in QuadsOf(input)
         /\ [k \in 0..3 |-> Low8(Octet(k))] \in [0..3 -> Byte]
<1>1. PICK l \in Layouts : IsQuadOf(input, l)
  BY TakesTheQuads
<1>2. HasLayout(input, l) /\ DigitsElsewhere(input) /\ Fits
  BY <1>1 DEF IsQuadOf, Taken
<1>3. \A k \in 0..3 : Octet(k) = OctetOf(input, l, k) /\ OctetOf(input, l, k) \in 0..999
  BY <1>2, SimdOctets
<1>4. /\ OctetsOf(input, l) \in [0..3 -> Byte]
      /\ \A k \in 0..3 : Low8(OctetOf(input, l, k)) = OctetOf(input, l, k)
  BY <1>1, <1>3, QuadBytes
<1>5. [k \in 0..3 |-> Low8(Octet(k))] = OctetsOf(input, l)
  BY <1>3, <1>4 DEF OctetsOf
<1> QED BY <1>1, <1>4, <1>5 DEF QuadsOf

\* What holds of a call: nothing is stored before it returns, and the parse that
\* was started again is one of a text that is no strict quad.
SimdInv ==
  /\ SimdTypeOK
  /\ phase = "entry" => result = "pending" /\ out = OutBefore
  /\ phase = "ada" => result = "pending" /\ out = OutBefore /\ QuadsOf(input) = {}

LEMMA NoQuads ==
  ASSUME NEW t
  PROVE  QuadsOf(t) = {} <=> ~ \E l \in Layouts : IsQuadOf(t, l)
  BY DEF QuadsOf

LEMMA SimdInitInv == SimdInit => SimdInv
  BY OutAssumption DEF SimdInit, SimdInv, SimdTypeOK, SimdParsers

LEMMA StoreInv == SimdInv /\ Store => SimdInv'
<1> SUFFICES ASSUME SimdInv, Store PROVE SimdInv'
  OBVIOUS
<1>1. /\ input \in Texts /\ parser \in SimdParsers /\ Taken
      /\ out' = [k \in 0..3 |-> Low8(Octet(k))]
  BY DEF SimdInv, SimdTypeOK, Store
<1>2. out' \in [0..3 -> Byte]
  BY <1>1, StoresTheQuad
<1> QED BY <1>2 DEF SimdInv, SimdTypeOK, Store

LEMMA DeferToAdaInv == SimdInv /\ DeferToAda => SimdInv'
<1> SUFFICES ASSUME SimdInv, DeferToAda PROVE SimdInv'
  OBVIOUS
<1>1. input \in Texts /\ parser \in SimdParsers /\ ~Taken
  BY DEF SimdInv, SimdTypeOK, DeferToAda
<1>2. QuadsOf(input) = {}
  BY <1>1, TakesTheQuads, NoQuads
<1>3. /\ phase' = "ada" /\ parser # "strict"
      /\ parser' = parser /\ input' = input /\ result' = result /\ out' = out
      /\ phase = "entry"
  BY DEF DeferToAda
<1> QED BY <1>2, <1>3 DEF SimdInv, SimdTypeOK

LEMMA RejectStrictInv == SimdInv /\ RejectStrict => SimdInv'
  BY DEF SimdInv, SimdTypeOK, RejectStrict

LEMMA RunAdaInv == SimdInv /\ RunAda => SimdInv'
<1> SUFFICES ASSUME SimdInv, RunAda PROVE SimdInv'
  OBVIOUS
<1>1. /\ result' \in {"accepted", "rejected"} /\ out' \in Permissive(input) \cup {out}
      /\ input' = input /\ parser' = parser /\ phase' = "returned"
  BY DEF RunAda, Ada!Next, Ada!Accept, Ada!Refuse
<1>2. input \in Texts /\ out \in [0..3 -> Byte] /\ parser \in SimdParsers
  BY DEF SimdInv, SimdTypeOK
<1>3. out' \in [0..3 -> Byte]
  BY <1>1, <1>2, MeaningAssumption
<1> QED BY <1>1, <1>2, <1>3 DEF SimdInv, SimdTypeOK

\* SimdInv is what the theorems rest on: an invariant by its own strength.
THEOREM AlwaysSimdInv == SimdSpec => []SimdInv
<1>1. SimdInv /\ [SimdNext]_simdVars => SimdInv'
  <2>1. SimdInv /\ UNCHANGED simdVars => SimdInv'
    BY DEF SimdInv, SimdTypeOK, simdVars
  <2> QED BY <2>1, StoreInv, DeferToAdaInv, RejectStrictInv, RunAdaInv DEF SimdNext
<1> QED BY SimdInitInv, <1>1, PTL DEF SimdSpec

\* The eight AVX-512 parsers store four bytes, whatever the text, and strict never
\* starts the permissive parser (avx512ip.h 687, 729).
THEOREM SimdTypeCorrect == SimdSpec => []SimdTypeOK
<1>1. SimdInv => SimdTypeOK
  BY DEF SimdInv
<1> QED BY <1>1, AlwaysSimdInv, PTL

\* The fast path misses no strict quad (204-206): a layout that the hash, the gaps
\* or the dots refuse is the layout of no quad.
THEOREM FastPathIsComplete ==
  ASSUME StrictQuadIsQuad
  PROVE  SimdSpec => []StrictTakenFast
<1>1. SimdInv => StrictTakenFast
  BY DEF SimdInv, SimdTypeOK, StrictTakenFast, StrictQuadIsQuad
<1> QED BY <1>1, AlwaysSimdInv, PTL

LEMMA SimdContractInit == SimdInit => SimdContract!Init
  BY DEF SimdInit, SimdContract!Init

LEMMA SimdContractNext ==
  ASSUME StrictQuadIsQuad, PermissiveTakesQuads
  PROVE  SimdInv /\ [SimdNext]_simdVars => [SimdContract!Next]_(SimdContract!parserVars)
<1> SUFFICES ASSUME SimdInv, [SimdNext]_simdVars
             PROVE  [SimdContract!Next]_(SimdContract!parserVars)
  OBVIOUS
<1>1. input \in Texts /\ parser \in SimdParsers
  BY DEF SimdInv, SimdTypeOK
<1>2. /\ StrictQuad(input) = QuadsOf(input)
      /\ QuadsOf(input) \subseteq Permissive(input)
  BY <1>1 DEF StrictQuadIsQuad, PermissiveTakesQuads
<1>3. SimdPromised(<<parser, input>>)
        = IF parser = "strict" THEN QuadsOf(input) ELSE Permissive(input)
  BY <1>2 DEF SimdPromised
<1>4. CASE Store
  <2>1. /\ phase = "entry" /\ Taken /\ out' = [k \in 0..3 |-> Low8(Octet(k))]
        /\ result' = "accepted" /\ parser' = parser /\ input' = input
    BY <1>4 DEF Store
  <2>2. out' \in QuadsOf(input)
    BY <1>1, <2>1, StoresTheQuad
  <2>3. result = "pending"
    BY <2>1 DEF SimdInv
  <2> QED BY <1>2, <1>3, <2>1, <2>2, <2>3 DEF SimdContract!Next, SimdContract!Accept
<1>5. CASE DeferToAda
  BY <1>5 DEF DeferToAda, SimdContract!parserVars
<1>6. CASE RejectStrict
  <2>1. /\ phase = "entry" /\ parser = "strict" /\ ~Taken
        /\ result' = "rejected" /\ parser' = parser /\ input' = input /\ out' = out
    BY <1>6 DEF RejectStrict
  <2>2. QuadsOf(input) = {}
    BY <1>1, <2>1, TakesTheQuads, NoQuads
  <2>3. result = "pending"
    BY <2>1 DEF SimdInv
  <2> QED BY <1>3, <2>1, <2>2, <2>3 DEF SimdContract!Next, SimdContract!Refuse
<1>7. CASE RunAda
  <2>1. /\ phase = "ada" /\ parser' = parser /\ Ada!Next
    BY <1>7 DEF RunAda
  <2>2. parser # "strict"
    BY <2>1 DEF SimdInv, SimdTypeOK
  <2>3. SimdPromised(<<parser, input>>) = Permissive(input)
    BY <1>3, <2>2
  <2> QED BY <2>1, <2>3
          DEF Ada!Next, Ada!Accept, Ada!Refuse,
              SimdContract!Next, SimdContract!Accept, SimdContract!Refuse
<1>8. CASE UNCHANGED simdVars
  BY <1>8 DEF simdVars, SimdContract!parserVars
<1> QED BY <1>4, <1>5, <1>6, <1>7, <1>8 DEF SimdNext

\* Every parser of avx512ip.h implements the abstract parser: strict that of the
\* strict dotted quads, the seven others that of what parse_ipv4_ada takes
\* (210-212, 732-738), for texts of every length and content.
THEOREM SimdImplementation ==
  ASSUME StrictQuadIsQuad, PermissiveTakesQuads
  PROVE  SimdSpec => AgreesWithContract
<1>1. SimdInv /\ [SimdNext]_simdVars => [SimdContract!Next]_(SimdContract!parserVars)
  BY SimdContractNext
<1> QED BY <1>1, SimdContractInit, AlwaysSimdInv, PTL
        DEF SimdSpec, AgreesWithContract, SimdContract!Spec

----------------------------------------------------------------------------
(* The SSE parsers.                                                        *)

\* Sixteen bytes that begin with the text.
BeginsWithText(v) ==
  /\ \A i \in 0..15 : v[i] \in Byte
  /\ \A i \in 0..(Length - 1) : v[i] = At(input, i)

LEMMA SseLanes ==
  ASSUME input \in Texts, after \in Tails, ~Short
  PROVE  Length \in 7..15 /\ BeginsWithText(Loaded) /\ Loaded[Length] = after[1]
<1>1. /\ input \in Seq(Byte) /\ after \in Seq(Byte) /\ Len(after) >= 16
  BY TextsAssumption, TailsAssumption
<1>2. Len(input) \in Nat /\ Len(after) \in Nat
  BY <1>1
<1>3. PICK n \in 7..15 : n = Length
  <2>1. \A n \in Nat : ~ (n < 7 \/ n > 15) => n \in 7..15
    OBVIOUS
  <2> QED BY <1>2, <2>1, Zenon DEF Short, Length
<1>4. \A i \in 0..15 : Loaded[i] = (input \o after)[i + 1]
  BY DEF Loaded, At
<1>5. PICK m \in Nat : m = Len(after) /\ m >= 16
  BY <1>1, <1>2
<1>6. /\ DOMAIN (input \o after) = 1..(n + m)
      /\ \A j \in 1..(n + m) :
           (input \o after)[j] = IF j <= n THEN input[j] ELSE after[j - n]
  BY <1>1, <1>3, <1>5, ConcatProperties DEF Length
<1>7. ASSUME NEW i \in 0..15
      PROVE  Loaded[i] = IF i < n THEN input[i + 1] ELSE after[i + 1 - n]
  <2>1. i + 1 \in 1..(n + m) /\ (i + 1 <= n <=> i < n)
    BY <1>5
  <2>2. (input \o after)[i + 1] = IF i + 1 <= n THEN input[i + 1] ELSE after[i + 1 - n]
    BY <1>6, <2>1
  <2> QED BY <1>4, <2>1, <2>2, Zenon
<1>8. ASSUME NEW i \in 0..15 PROVE Loaded[i] \in Byte
  <2>1. CASE i < n
    <3>1. i + 1 \in 1..n
      BY <2>1
    <3>2. input[i + 1] \in Byte
      BY <1>1, <1>3, <3>1 DEF Length
    <3> QED BY <1>7, <2>1, <3>2
  <2>2. CASE ~ (i < n)
    <3>1. i + 1 - n \in 1..m
      BY <1>5, <2>2
    <3>2. after[i + 1 - n] \in Byte
      BY <1>1, <1>5, <3>1
    <3> QED BY <1>7, <2>2, <3>2
  <2> QED BY <2>1, <2>2
<1>9. \A i \in 0..(n - 1) : Loaded[i] = At(input, i)
  BY <1>7 DEF At
<1>10. Loaded[n] = after[1]
  <2>1. n \in 0..15 /\ ~ (n < n) /\ n + 1 - n = 1
    OBVIOUS
  <2>2. Loaded[n] = IF n < n THEN input[n + 1] ELSE after[n + 1 - n]
    BY <1>7, <2>1
  <2> QED BY <2>1, <2>2
<1> QED BY <1>3, <1>8, <1>9, <1>10 DEF BeginsWithText

\* A strict quad has seven to fifteen characters.
LEMMA QuadIsNotShort ==
  ASSUME NEW l \in Layouts, HasLayout(input, l), input \in Texts
  PROVE  ~Short
<1>1. Fits
  BY QuadFits, SMTT(30) DEF Fits, Length
<1>2. PICK a \in 1..15, b \in 1..15, c \in 1..15, n \in 1..15 :
        n = Length /\ Spaced(a, b, c, n)
  <2>1. PICK a \in 1..15, b \in 1..15, c \in 1..15, n \in 1..15 :
          EndsAt(l, a, b, c, n)
    BY <1>1, LayoutNumbers
  <2> QED BY <2>1, ZenonT(40) DEF EndsAt
<1>3. ~ (n < 7 \/ n > 15)
  BY <1>2 DEF Spaced
<1> QED BY <1>2, <1>3 DEF Short

\* The signed comparison finds the digits.
LEMMA MulaDigits ==
  ASSUME NEW v, BeginsWithText(v), NEW i \in 0..15
  PROVE  i \in DigitLanes(v) <=> IsDigit(v[i])
<1>1. PICK b \in 0..255 : b = v[i]
  <2>1. v[i] \in Byte
    BY DEF BeginsWithText
  <2> QED BY <2>1 DEF Byte
<1>2. \A x \in 0..255 : Signed((x + 80) % 256) < -118 <=> x \in 48..57
  <2> TAKE x \in 0..255
  <2>1. CASE x <= 175
    <3>1. (x + 80) % 256 = x + 80
      BY <2>1
    <3> QED BY <2>1, <3>1 DEF Signed
  <2>2. CASE x > 175
    <3>1. (x + 80) % 256 = x + 80 - 256
      BY <2>2
    <3> QED BY <2>2, <3>1 DEF Signed
  <2> QED BY <2>1, <2>2
<1>3. b + 128 - 48 = b + 80 /\ -128 + 10 = -118
  OBVIOUS
<1>4. i \in DigitLanes(v) <=> Signed((b + 128 - 48) % 256) < -128 + 10
  BY <1>1, Zenon DEF DigitLanes, Low8, Zero
<1>5. Signed((b + 128 - 48) % 256) = Signed((b + 80) % 256)
  BY <1>3, Zenon
<1>6. i \in DigitLanes(v) <=> Signed((b + 80) % 256) < -118
  BY <1>3, <1>4, <1>5, Zenon
<1>7. IsDigit(v[i]) <=> b \in 48..57
  BY <1>1, Zenon DEF IsDigit
<1> QED BY <1>2, <1>6, <1>7, ZenonT(40)

\* The masks of mula, of a text.
LEMMA MulaMasks ==
  ASSUME input \in Texts, NEW v, BeginsWithText(v), Length \in 7..15
  PROVE  /\ LanesOfDots(v) \cap Mask = DotsOf(input)
         /\ Ends(v) = DotsOf(input) \cup {Length}
         /\ DotsOf(input) \in SUBSET (0..(Length - 1))
         /\ (DigitLanes(v) \cup LanesOfDots(v)) \cap Mask = Mask <=> DigitsElsewhere(input)
<1>1. PICK n \in 7..15 : n = Length
  OBVIOUS
<1>2. \A i \in 0..(n - 1) : i \in 0..15 /\ v[i] = At(input, i)
  BY <1>1 DEF BeginsWithText
<1>3. DotsOf(input) = {i \in 0..(n - 1) : At(input, i) = Dot}
  BY <1>1 DEF DotsOf, Length
<1>4. LanesOfDots(v) \cap (0..(n - 1)) = DotsOf(input)
  BY <1>2, <1>3 DEF LanesOfDots
<1>5. \A i \in 0..(n - 1) : i \in DigitLanes(v) <=> IsDigit(At(input, i))
  BY <1>2, MulaDigits
<1>6. Mask = 0..(n - 1)
  BY <1>1 DEF Mask
<1>7. (DigitLanes(v) \cup LanesOfDots(v)) \cap (0..(n - 1)) = 0..(n - 1)
        <=> \A i \in 0..(n - 1) : i \in DigitLanes(v) \/ i \in DotsOf(input)
  BY <1>4
<1>8. DigitsElsewhere(input)
        <=> \A i \in 0..(n - 1) : i \in DotsOf(input) \/ IsDigit(At(input, i))
  BY <1>1 DEF DigitsElsewhere, Length
<1> QED BY <1>1, <1>3, <1>4, <1>5, <1>6, <1>7, <1>8 DEF Ends

\* Where a text has three dots, the components end at them and at its end.
LEMMA MulaEnds ==
  ASSUME input \in Texts, NEW v, BeginsWithText(v), Length \in 7..15,
         NEW a \in 0..15, NEW b \in 0..15, NEW c \in 0..15,
         DotsOf(input) = {a, b, c}, a < b, b < c
  PROVE  /\ End(Ends(v), 0) = a /\ End(Ends(v), 1) = b
         /\ End(Ends(v), 2) = c /\ End(Ends(v), 3) = Length
         /\ Width(Ends(v), 0) = a /\ Width(Ends(v), 1) = b - a - 1
         /\ Width(Ends(v), 2) = c - b - 1 /\ Width(Ends(v), 3) = Length - c - 1
         /\ c < Length
<1>1. PICK n \in 7..15 : n = Length
  OBVIOUS
<1>2. PICK ends : ends = Ends(v)
  OBVIOUS
<1>3. ends = {a, b, c, n} /\ c < n
  <2>1. ends = DotsOf(input) \cup {n} /\ DotsOf(input) \in SUBSET (0..(n - 1))
    BY <1>1, <1>2, MulaMasks
  <2> QED BY <2>1
<1>4. ends \in SUBSET Nat /\ IsFiniteSet(ends)
  <2>1. ends \in SUBSET (0..15)
    BY <1>3
  <2> QED BY <2>1, LanesAreFinite
<1>5. a \in ends /\ b \in ends /\ c \in ends /\ n \in ends
  BY <1>3
<1>6. \A i \in ends : i < n => i \in {a, b, c}
  BY <1>3
<1>7. End(ends, 0) = a /\ End(ends, 1) = b /\ End(ends, 2) = c /\ End(ends, 3) = n
  <2>1. c < n
    BY <1>3
  <2>2. /\ (CHOOSE i \in ends : RankIn(ends, i) = 0) = a
        /\ (CHOOSE i \in ends : RankIn(ends, i) = 1) = b
        /\ (CHOOSE i \in ends : RankIn(ends, i) = 2) = c
        /\ (CHOOSE i \in ends : RankIn(ends, i) = 3) = n
    BY <1>4, <1>5, <1>6, <2>1, FirstFour
  <2> QED BY <2>2, Zenon DEF End
<1>8. /\ First(ends, 0) = 0 /\ First(ends, 1) = a + 1
      /\ First(ends, 2) = b + 1 /\ First(ends, 3) = c + 1
  BY <1>7 DEF First
<1>9. /\ Width(ends, 0) = a - 0 /\ Width(ends, 1) = b - (a + 1)
      /\ Width(ends, 2) = c - (b + 1) /\ Width(ends, 3) = n - (c + 1)
  BY <1>7, <1>8, Zenon DEF Width
<1>10. /\ a - 0 = a /\ b - (a + 1) = b - a - 1
       /\ c - (b + 1) = c - b - 1 /\ n - (c + 1) = n - c - 1
  OBVIOUS
<1> QED BY <1>1, <1>2, <1>3, <1>7, <1>9, <1>10

\* What mula takes has a layout and digits elsewhere.
LEMMA MulaHasLayout ==
  ASSUME input \in Texts, NEW v, BeginsWithText(v), Length \in 7..15, MulaTakes(v)
  PROVE  DigitsElsewhere(input) /\ \E l \in Layouts : HasLayout(input, l)
<1>1. PICK n \in 7..15 : n = Length
  OBVIOUS
<1>2. /\ DotsOf(input) \in SUBSET (0..(n - 1)) /\ Cardinality(DotsOf(input)) = 3
      /\ DigitsElsewhere(input)
  BY <1>1, MulaMasks DEF MulaTakes
<1>3. PICK a \in 0..15, b \in 0..15, c \in 0..15 :
        a < b /\ b < c /\ DotsOf(input) = {a, b, c}
  <2>1. DotsOf(input) \in SUBSET (0..15)
    BY <1>2
  <2>2. \E a, b, c \in DotsOf(input) : a < b /\ b < c /\ DotsOf(input) = {a, b, c}
    <3>1. DotsOf(input) \in SUBSET Nat /\ IsFiniteSet(DotsOf(input))
      BY <2>1, LanesAreFinite
    <3> QED BY <1>2, <3>1, ThreeLanes
  <2> QED BY <2>1, <2>2
<1>4. /\ Width(Ends(v), 0) = a /\ Width(Ends(v), 1) = b - a - 1
      /\ Width(Ends(v), 2) = c - b - 1 /\ Width(Ends(v), 3) = n - c - 1
      /\ c < n
  BY <1>1, <1>3, MulaEnds, SMTT(30)
<1>5. \A k \in 0..3 : Width(Ends(v), k) \in {1, 2, 3}
  BY DEF MulaTakes, IsComponent
<1>6. /\ Width(Ends(v), 0) \in {1, 2, 3} /\ Width(Ends(v), 1) \in {1, 2, 3}
      /\ Width(Ends(v), 2) \in {1, 2, 3} /\ Width(Ends(v), 3) \in {1, 2, 3}
  BY <1>5
<1>7. /\ a \in {1, 2, 3} /\ b - a - 1 \in {1, 2, 3}
      /\ c - b - 1 \in {1, 2, 3} /\ n - c - 1 \in {1, 2, 3}
  BY <1>4, <1>6, Zenon
<1>8. Spaced(a, b, c, n)
  BY <1>7 DEF Spaced
<1>9. PICK l \in Layouts : DelimitersOf[l] = {a, b, c, n}
  <2>1. a \in Int /\ b \in Int /\ c \in Int /\ n \in Int
    OBVIOUS
  <2>2. OfLayout(a, b, c, n)
    BY <1>8, <2>1, LayoutOfDelimiters
  <2> QED BY <2>2 DEF OfLayout
<1>10. DotsOf(input) \cup {n} = {a, b, c, n}
  BY <1>3
<1> QED BY <1>1, <1>2, <1>9, <1>10, Zenon DEF HasLayout, Length

\* A component of a text with a layout is an octet: with the digits it has, and
\* refused for what an octet is refused for.
LEMMA MulaComponents ==
  ASSUME input \in Texts, NEW v, BeginsWithText(v), Length \in 7..15,
         NEW l \in Layouts, HasLayout(input, l), DigitsElsewhere(input), NEW k \in 0..3
  PROVE  /\ Component(v, Ends(v), k) = OctetOf(input, l, k)
         /\ OctetOf(input, l, k) \in 0..999
         /\ IsComponent(Component(v, Ends(v), k), Width(Ends(v), k))
              <=> IsOctetOf(input, l, k)
<1>1. Fits
  BY DEF Fits
<1>2. PICK e \in 1..15, w \in 1..3 : OctetAt(l, k, e, w)
  BY <1>1, OctetLanes
<1> USE DEF OctetAt
<1>3. End(Ends(v), k) = e /\ Width(Ends(v), k) = w
  <2>1. PICK a \in 1..15, b \in 1..15, c \in 1..15, n \in 1..15 :
          EndsAt(l, a, b, c, n)
    BY <1>1, LayoutNumbers
  <2> USE DEF EndsAt
  <2>2. /\ End(Ends(v), 0) = a /\ End(Ends(v), 1) = b
        /\ End(Ends(v), 2) = c /\ End(Ends(v), 3) = n
        /\ Width(Ends(v), 0) = a /\ Width(Ends(v), 1) = b - a - 1
        /\ Width(Ends(v), 2) = c - b - 1 /\ Width(Ends(v), 3) = n - c - 1
    <3>1. a \in 0..15 /\ b \in 0..15 /\ c \in 0..15
      OBVIOUS
    <3>2. DotsOf(input) = {a, b, c} /\ a < b /\ b < c
      BY <2>1
    <3>3. /\ End(Ends(v), 0) = a /\ End(Ends(v), 1) = b
          /\ End(Ends(v), 2) = c /\ End(Ends(v), 3) = Length
          /\ Width(Ends(v), 0) = a /\ Width(Ends(v), 1) = b - a - 1
          /\ Width(Ends(v), 2) = c - b - 1 /\ Width(Ends(v), 3) = Length - c - 1
      BY <3>1, <3>2, MulaEnds
    <3> QED BY <2>1, <3>3
  <2>3. k = 0 \/ k = 1 \/ k = 2 \/ k = 3
    OBVIOUS
  <2> QED BY <1>2, <2>1, <2>2, <2>3, SMTT(30)
<1>4. ASSUME NEW j \in 1..3
      PROVE  /\ DigitAt(v, Ends(v), k, j) = DigitOf(input, l, k, j)
             /\ DigitOf(input, l, k, j) \in 0..9
             /\ ~ (j <= w) => DigitOf(input, l, k, j) = 0
  <2>1. /\ DigitAt(v, Ends(v), k, j) = IF j <= w THEN v[e - j] - Zero ELSE 0
        /\ DigitOf(input, l, k, j) = IF j <= w THEN At(input, e - j) - Zero ELSE 0
    BY <1>2, <1>3 DEF DigitAt, DigitOf
  <2>2. ASSUME j <= w
        PROVE  v[e - j] = At(input, e - j) /\ IsDigit(At(input, e - j))
    <3>1. e - j \in (e - w)..(e - 1)
      BY <2>2
    <3>2. e - j \in (0..(Length - 1)) \ DotsOf(input)
      BY <1>2, <3>1
    <3>3. IsDigit(At(input, e - j))
      BY <3>2 DEF DigitsElsewhere, Length
    <3>4. v[e - j] = At(input, e - j)
      BY <3>2 DEF BeginsWithText
    <3> QED BY <3>3, <3>4
  <2>3. CASE j <= w
    <3>1. PICK x \in 48..57 : x = At(input, e - j)
      BY <2>2, <2>3 DEF IsDigit
    <3> QED BY <2>1, <2>2, <2>3, <3>1 DEF Zero
  <2>4. CASE ~ (j <= w)
    BY <2>1, <2>4
  <2> QED BY <2>3, <2>4
<1>5. PICK x \in 0..9, y \in 0..9, z \in 0..9 :
        /\ x = DigitOf(input, l, k, 1) /\ y = DigitOf(input, l, k, 2)
        /\ z = DigitOf(input, l, k, 3)
  BY <1>4
<1>6. /\ ~ (2 <= w) => y = 0
      /\ ~ (3 <= w) => z = 0
  BY <1>4, <1>5
<1>7. OctetOf(input, l, k) = 100 * z + 10 * y + x
  BY <1>5 DEF OctetOf
<1>8. Component(v, Ends(v), k) = 100 * z + 10 * y + x
  <2>1. /\ DigitAt(v, Ends(v), k, 1) = x /\ DigitAt(v, Ends(v), k, 2) = y
        /\ DigitAt(v, Ends(v), k, 3) = z
    BY <1>4, <1>5
  <2> QED BY <2>1 DEF Component
<1>9. IsComponent(100 * z + 10 * y + x, w)
        <=> /\ 100 * z + 10 * y + x <= 255
            /\ w = 2 => y # 0
            /\ w = 3 => z # 0
  BY <1>6 DEF IsComponent
<1>10. IsOctetOf(input, l, k)
         <=> /\ 100 * z + 10 * y + x <= 255
             /\ w = 2 => y # 0
             /\ w = 3 => z # 0
  <2>1. w >= 2 <=> w = 2 \/ w = 3
    OBVIOUS
  <2>2. w = 2 => DigitOf(input, l, k, w) = y
    BY <1>5
  <2>3. w = 3 => DigitOf(input, l, k, w) = z
    BY <1>5
  <2>4. IsOctetOf(input, l, k)
          <=> /\ OctetOf(input, l, k) <= 255
              /\ w >= 2 => DigitOf(input, l, k, w) # 0
    BY <1>2, Zenon DEF IsOctetOf
  <2> QED BY <1>7, <2>1, <2>2, <2>3, <2>4
<1>11. 100 * z + 10 * y + x \in 0..999
  OBVIOUS
<1> QED BY <1>3, <1>7, <1>8, <1>9, <1>10, <1>11

\* mula takes the strict quads and no other text.
LEMMA MulaTakesTheQuads ==
  ASSUME input \in Texts, NEW v, BeginsWithText(v), Length \in 7..15
  PROVE  MulaTakes(v) <=> \E l \in Layouts : IsQuadOf(input, l)
<1>1. ASSUME NEW l \in Layouts, HasLayout(input, l), DigitsElsewhere(input)
      PROVE  (\A k \in 0..3 : IsComponent(Component(v, Ends(v), k), Width(Ends(v), k)))
               <=> IsQuadOf(input, l)
  <2>1. \A k \in 0..3 : IsComponent(Component(v, Ends(v), k), Width(Ends(v), k))
                          <=> IsOctetOf(input, l, k)
    BY <1>1, MulaComponents
  <2> QED BY <1>1, <2>1, Zenon DEF IsQuadOf
<1>2. ASSUME MulaTakes(v) PROVE \E l \in Layouts : IsQuadOf(input, l)
  <2>1. PICK l \in Layouts : HasLayout(input, l) /\ DigitsElsewhere(input)
    BY <1>2, MulaHasLayout
  <2> QED BY <1>1, <1>2, <2>1 DEF MulaTakes
<1>3. ASSUME NEW l \in Layouts, IsQuadOf(input, l) PROVE MulaTakes(v)
  <2>1. HasLayout(input, l) /\ DigitsElsewhere(input)
    BY <1>3 DEF IsQuadOf
  <2>2. \A k \in 0..3 : IsComponent(Component(v, Ends(v), k), Width(Ends(v), k))
    BY <1>1, <1>3, <2>1
  <2>3. Cardinality(DotsOf(input)) = 3
    <3>1. Fits
      BY DEF Fits
    <3>2. PICK a \in 1..15, b \in 1..15, c \in 1..15 :
            DotsOf(input) = {a, b, c} /\ a < b /\ b < c
      <4>1. PICK a \in 1..15, b \in 1..15, c \in 1..15, n \in 1..15 :
              EndsAt(l, a, b, c, n)
        BY <2>1, <3>1, LayoutNumbers
      <4> QED BY <4>1 DEF EndsAt
    <3> QED BY <3>2, ThreeDots
  <2> QED BY <2>1, <2>2, <2>3, MulaMasks DEF MulaTakes
<1> QED BY <1>2, <1>3

\* What mula stores for a quad.
LEMMA MulaStoresTheQuad ==
  ASSUME input \in Texts, NEW v, BeginsWithText(v), Length \in 7..15, MulaTakes(v)
  PROVE  /\ [k \in 0..3 |-> Low8(Component(v, Ends(v), k))] \in QuadsOf(input)
         /\ [k \in 0..3 |-> Low8(Component(v, Ends(v), k))] \in [0..3 -> Byte]
<1>1. PICK l \in Layouts : IsQuadOf(input, l)
  BY MulaTakesTheQuads
<1>2. HasLayout(input, l) /\ DigitsElsewhere(input)
  BY <1>1 DEF IsQuadOf
<1>3. \A k \in 0..3 : /\ Component(v, Ends(v), k) = OctetOf(input, l, k)
                      /\ OctetOf(input, l, k) \in 0..999
  BY <1>2, MulaComponents
<1>4. /\ OctetsOf(input, l) \in [0..3 -> Byte]
      /\ \A k \in 0..3 : Low8(OctetOf(input, l, k)) = OctetOf(input, l, k)
  BY <1>1, <1>3, QuadBytes
<1>5. [k \in 0..3 |-> Low8(Component(v, Ends(v), k))] = OctetsOf(input, l)
  BY <1>3, <1>4 DEF OctetsOf
<1> QED BY <1>1, <1>4, <1>5 DEF QuadsOf

\* c ^ '0' is a digit's value for the digits, and ten or more for the other bytes.
LEMMA XorZeroFacts ==
  ASSUME NEW b \in 0..255
  PROVE  /\ XorZero(b) \in 0..255
         /\ XorZero(b) <= 9 <=> b \in 48..57
         /\ b \in 48..57 => XorZero(b) = b - 48
<1>1. PICK q \in 0..15, r \in 0..15 : b = 16 * q + r /\ b \div 16 = q
  <2>1. b \div 16 \in 0..15 /\ b - 16 * (b \div 16) \in 0..15
    OBVIOUS
  <2> QED BY <2>1
<1>2. PICK p \in 0..7 : b \div 32 = p /\ (q = 2 * p \/ q = 2 * p + 1)
  <2>1. b \div 32 \in 0..7 /\ (q = 2 * (b \div 32) \/ q = 2 * (b \div 32) + 1)
    BY <1>1
  <2> QED BY <2>1
<1>3. XorZero(b) = (IF p % 2 = 1 THEN b - 32 ELSE b + 32) + (IF q % 2 = 1 THEN -16 ELSE 16)
  BY <1>1, <1>2 DEF XorZero
<1>4. /\ p \in {1, 3, 5, 7} => p % 2 = 1
      /\ p \in {0, 2, 4, 6} => p % 2 = 0
      /\ q = 2 * p => q % 2 = 0
      /\ q = 2 * p + 1 => q % 2 = 1
  OBVIOUS
<1>5. CASE p \in {1, 3, 5, 7} /\ q = 2 * p
  <2>1. XorZero(b) = b - 16
    BY <1>3, <1>4, <1>5
  <2> QED BY <1>1, <1>5, <2>1
<1>6. CASE p \in {1, 3, 5, 7} /\ q = 2 * p + 1
  <2>1. XorZero(b) = b - 48
    BY <1>3, <1>4, <1>6
  <2> QED BY <1>1, <1>6, <2>1
<1>7. CASE p \in {0, 2, 4, 6} /\ q = 2 * p
  <2>1. XorZero(b) = b + 48
    BY <1>3, <1>4, <1>7
  <2> QED BY <1>1, <1>7, <2>1
<1>8. CASE p \in {0, 2, 4, 6} /\ q = 2 * p + 1
  <2>1. XorZero(b) = b + 16
    BY <1>3, <1>4, <1>8
  <2> QED BY <1>1, <1>8, <2>1
<1>9. p \in {1, 3, 5, 7} \/ p \in {0, 2, 4, 6}
  OBVIOUS
<1> QED BY <1>2, <1>5, <1>6, <1>7, <1>8, <1>9

LEMMA MinOfTwo ==
  ASSUME NEW x \in Int, NEW y \in Int
  PROVE  Min({x, y}) = IF x <= y THEN x ELSE y
<1>1. PICK m \in {x, y} : \A z \in {x, y} : m <= z
  OBVIOUS
<1>2. /\ Min({x, y}) \in {x, y} /\ \A z \in {x, y} : Min({x, y}) <= z
  BY <1>1, Zenon DEF Min
<1> QED BY <1>2

\* The saturated additions tell the digits from the other bytes, and leave the
\* value of a digit and less than -118 of the others.
LEMMA ZoneLanes ==
  ASSUME NEW v, BeginsWithText(v), NEW i \in 0..15
  PROVE  /\ i \in NonDigitLanes(Raised(v)) <=> ~IsDigit(v[i])
         /\ IsDigit(v[i]) => /\ Lowered(Raised(v))[i] = v[i] - Zero
                             /\ Lowered(Raised(v))[i] \in 0..9
         /\ ~IsDigit(v[i]) => Lowered(Raised(v))[i] \in -128..-119
<1>1. PICK b \in 0..255 : b = v[i]
  <2>1. v[i] \in Byte
    BY DEF BeginsWithText
  <2> QED BY <2>1 DEF Byte
<1>2. PICK x \in 0..255 : x = XorZero(b)
  <2>1. XorZero(b) \in 0..255
    BY XorZeroFacts, ZenonT(40)
  <2> QED BY <2>1
<1>3. /\ x <= 9 <=> b \in 48..57
      /\ b \in 48..57 => x = b - 48
  BY <1>2, XorZeroFacts, ZenonT(40)
<1>4. PICK r \in 118..255 : r = Raised(v)[i] /\ r = IF x + 118 <= 255 THEN x + 118 ELSE 255
  <2>1. Raised(v)[i] = Min({x + 118, 255})
    BY <1>1, <1>2 DEF Raised
  <2>2. x + 118 \in Int /\ 255 \in Int
    OBVIOUS
  <2>3. Min({x + 118, 255}) = IF x + 118 <= 255 THEN x + 118 ELSE 255
    BY <2>2, MinOfTwo, ZenonT(40)
  <2> QED BY <2>1, <2>3
<1>5. i \in NonDigitLanes(Raised(v)) <=> r >= 128
  BY <1>4 DEF NonDigitLanes
<1>6. PICK s \in -128..127 : s = Signed(r) /\ s = IF r < 128 THEN r ELSE r - 256
  BY DEF Signed
<1>7. Lowered(Raised(v))[i] = IF s - 118 >= -128 THEN s - 118 ELSE -128
  <2>1. Lowered(Raised(v))[i] = Max({Signed(Raised(v)[i]) - 118, -128})
    BY DEF Lowered
  <2>2. s - 118 \in Int /\ -128 \in Int
    OBVIOUS
  <2>3. Max({s - 118, -128}) = IF s - 118 >= -128 THEN s - 118 ELSE -128
    BY <2>2, MaxOfTwo, ZenonT(40)
  <2>4. Signed(Raised(v)[i]) = s
    BY <1>4, <1>6, Zenon
  <2> QED BY <2>1, <2>3, <2>4, Zenon
<1>8. IsDigit(v[i]) <=> b \in 48..57
  BY <1>1, Zenon DEF IsDigit
<1>9. CASE b \in 48..57
  <2>1. r = b + 70 /\ s = b + 70
    BY <1>3, <1>4, <1>6, <1>9
  <2>2. Lowered(Raised(v))[i] = b - 48
    BY <1>7, <1>9, <2>1
  <2>3. ~ (r >= 128) /\ b - 48 \in 0..9
    BY <1>9, <2>1
  <2> QED BY <1>1, <1>5, <1>8, <1>9, <2>2, <2>3 DEF Zero
<1>10. CASE b \notin 48..57
  <2>1. x > 9 /\ r >= 128 /\ s \in -128..-1
    BY <1>3, <1>4, <1>6, <1>10
  <2>2. Lowered(Raised(v))[i] \in -128..-119
    BY <1>7, <2>1
  <2> QED BY <1>5, <1>8, <1>10, <2>1, <2>2
<1> QED BY <1>9, <1>10

\* Of what may be in a digit's place, the saturated sum of the products is more
\* than 255 if one is no digit, and otherwise the octet.
ZoneValue == (0..9) \cup (-128..-119)

\* Sixteen bits of a sum, and the largest of them.
HalfWord(n) == n % 65536
HalfWordMax == 65535

LEMMA HalfWordFacts ==
  /\ \A n \in Int : n >= -12800 /\ n < 0 => HalfWord(n) \in Nat /\ HalfWord(n) > 1000
  /\ \A n \in Int : n >= 0 /\ n <= 1000 => HalfWord(n) = n
<1>1. ASSUME NEW n \in Int, n >= -12800, n < 0
      PROVE  HalfWord(n) \in Nat /\ HalfWord(n) > 1000
  <2>1. n % 65536 = n + 65536
    BY <1>1
  <2> QED BY <1>1, <2>1 DEF HalfWord
<1>2. ASSUME NEW n \in Int, n >= 0, n <= 1000
      PROVE  HalfWord(n) = n
  BY <1>2 DEF HalfWord
<1> QED BY <1>1, <1>2

LEMMA HalfWordMaxFacts == HalfWordMax \in Int /\ HalfWordMax > 1000
  BY DEF HalfWordMax

LEMMA TotalInWords ==
  ASSUME NEW digit, NEW l, NEW k
  PROVE  Total(digit, l, k)
           = Min({HalfWord(Shuffled(digit, l, k, 1) + 10 * Shuffled(digit, l, k, 2))
                    + HalfWord(100 * Shuffled(digit, l, k, 3)), HalfWordMax})
  BY DEF Total, HalfWord, HalfWordMax

LEMMA ZoneTotal ==
  ASSUME NEW digit, NEW l, NEW k,
         NEW x \in ZoneValue, NEW y \in ZoneValue, NEW z \in ZoneValue,
         x = Shuffled(digit, l, k, 1), y = Shuffled(digit, l, k, 2),
         z = Shuffled(digit, l, k, 3)
  PROVE  /\ Total(digit, l, k) \in Nat
         /\ ~ (Total(digit, l, k) > 255) => x \in 0..9 /\ y \in 0..9 /\ z \in 0..9
         /\ x \in 0..9 /\ y \in 0..9 /\ z \in 0..9
              => Total(digit, l, k) = 100 * z + 10 * y + x
<1>1. /\ x + 10 * y \in Int /\ x + 10 * y >= -12800 /\ x + 10 * y <= 1000
      /\ 100 * z \in Int /\ 100 * z >= -12800 /\ 100 * z <= 1000
  BY DEF ZoneValue
<1>2. /\ x + 10 * y < 0 => HalfWord(x + 10 * y) \in Nat /\ HalfWord(x + 10 * y) > 1000
      /\ 100 * z < 0 => HalfWord(100 * z) \in Nat /\ HalfWord(100 * z) > 1000
      /\ x + 10 * y >= 0 => HalfWord(x + 10 * y) = x + 10 * y
      /\ 100 * z >= 0 => HalfWord(100 * z) = 100 * z
  BY <1>1, HalfWordFacts
<1>3. PICK low \in Nat, high \in Nat : low = HalfWord(x + 10 * y) /\ high = HalfWord(100 * z)
  BY <1>1, <1>2
<1>4. PICK cap \in Int : cap = HalfWordMax /\ cap > 1000
  BY HalfWordMaxFacts
<1>5. Total(digit, l, k) = IF low + high <= cap THEN low + high ELSE cap
  <2>1. Total(digit, l, k)
          = Min({HalfWord(Shuffled(digit, l, k, 1) + 10 * Shuffled(digit, l, k, 2))
                   + HalfWord(100 * Shuffled(digit, l, k, 3)), HalfWordMax})
    BY TotalInWords
  <2>2. Total(digit, l, k) = Min({low + high, cap})
    BY <1>3, <1>4, <2>1
  <2>3. low + high \in Int /\ cap \in Int
    OBVIOUS
  <2>4. Min({low + high, cap}) = IF low + high <= cap THEN low + high ELSE cap
    BY <2>3, MinOfTwo, Zenon
  <2> QED BY <2>2, <2>4
<1>6. ~ (low + high > 255) => x \in 0..9 /\ y \in 0..9 /\ z \in 0..9
  BY <1>2, <1>3 DEF ZoneValue
<1>7. x \in 0..9 /\ y \in 0..9 /\ z \in 0..9
        => low + high = 100 * z + 10 * y + x /\ low + high <= 1000
  <2> SUFFICES ASSUME x \in 0..9, y \in 0..9, z \in 0..9
               PROVE  low + high = 100 * z + 10 * y + x /\ low + high <= 1000
    OBVIOUS
  <2>1. low = x + 10 * y /\ high = 100 * z
    BY <1>2, <1>3
  <2> QED BY <2>1
<1> QED BY <1>4, <1>5, <1>6, <1>7

\* The lanes of a layout's octets: inside the text, and between its delimiters.
LEMMA LayoutCovers ==
  ASSUME NEW l \in Layouts
  PROVE  /\ \A k \in 0..3 : \A j \in 1..3 : j <= l[k] => EndOf(l, k) - j \in 0..14
         /\ \A i \in 0..15 :
              i <= EndOf(l, 3) => \/ i \in DelimitersOf[l]
                                  \/ \E k \in 0..3 : \E j \in 1..3 :
                                       j <= l[k] /\ i = EndOf(l, k) - j
<1>1. l[0] \in 1..3 /\ l[1] \in 1..3 /\ l[2] \in 1..3 /\ l[3] \in 1..3
  BY LayoutFacts
<1>2. PICK s \in 1..3, u \in 1..3, w \in 1..3, x \in 1..3 :
        s = l[0] /\ u = l[1] /\ w = l[2] /\ x = l[3]
  BY <1>1
<1>3. /\ EndOf(l, 0) = s /\ EndOf(l, 1) = s + u + 1
      /\ EndOf(l, 2) = s + u + 1 + w + 1 /\ EndOf(l, 3) = s + u + 1 + w + 1 + x + 1
  BY <1>2, LayoutFacts
<1>4. ASSUME NEW k \in 0..3, NEW j \in 1..3, j <= l[k]
      PROVE  EndOf(l, k) - j \in 0..14
  <2>1. k = 0 \/ k = 1 \/ k = 2 \/ k = 3
    OBVIOUS
  <2> QED BY <1>2, <1>3, <1>4, <2>1
<1>5. ASSUME NEW i \in 0..15, i <= EndOf(l, 3)
      PROVE  \/ i \in DelimitersOf[l]
             \/ \E k \in 0..3 : \E j \in 1..3 : j <= l[k] /\ i = EndOf(l, k) - j
  <2> DEFINE Inside(k) == \E j \in 1..3 : j <= l[k] /\ i = EndOf(l, k) - j
  <2>1. CASE i < s
    <3>1. s - i \in 1..3 /\ s - i <= s /\ i = s - (s - i)
      BY <2>1
    <3>2. Inside(0)
      BY <1>2, <1>3, <3>1
    <3> QED BY <3>2
  <2>2. CASE s < i /\ i < s + u + 1
    <3>1. /\ s + u + 1 - i \in 1..3 /\ s + u + 1 - i <= u
          /\ i = s + u + 1 - (s + u + 1 - i)
      BY <2>2
    <3>2. Inside(1)
      BY <1>2, <1>3, <3>1
    <3> QED BY <3>2
  <2>3. CASE s + u + 1 < i /\ i < s + u + 1 + w + 1
    <3>1. /\ s + u + 1 + w + 1 - i \in 1..3 /\ s + u + 1 + w + 1 - i <= w
          /\ i = s + u + 1 + w + 1 - (s + u + 1 + w + 1 - i)
      BY <2>3
    <3>2. Inside(2)
      BY <1>2, <1>3, <3>1
    <3> QED BY <3>2
  <2>4. CASE s + u + 1 + w + 1 < i /\ i < s + u + 1 + w + 1 + x + 1
    <3>1. /\ s + u + 1 + w + 1 + x + 1 - i \in 1..3 /\ s + u + 1 + w + 1 + x + 1 - i <= x
          /\ i = s + u + 1 + w + 1 + x + 1 - (s + u + 1 + w + 1 + x + 1 - i)
      BY <2>4
    <3>2. Inside(3)
      BY <1>2, <1>3, <3>1
    <3> QED BY <3>2
  <2>5. CASE \/ i = s \/ i = s + u + 1 \/ i = s + u + 1 + w + 1
             \/ i = s + u + 1 + w + 1 + x + 1
    <3>1. i \in {EndOf(l, 0), EndOf(l, 1), EndOf(l, 2), EndOf(l, 3)}
      BY <1>3, <2>5
    <3> QED BY <3>1, LayoutFacts
  <2>6. i <= s + u + 1 + w + 1 + x + 1
    BY <1>3, <1>5
  <2> QED BY <2>1, <2>2, <2>3, <2>4, <2>5, <2>6
<1> QED BY <1>4, <1>5

\* What simdzone cuts the lanes to: the first byte that is neither digit nor dot.
LEMMA ClipFacts ==
  ASSUME NEW bad \in SUBSET (0..15)
  PROVE  \/ bad = {} /\ Clip(bad) = 0..31 /\ Cardinality(Clip(bad)) - 1 = 31
         \/ \E m \in bad : /\ \A i \in bad : m <= i
                           /\ Clip(bad) = 0..m /\ Cardinality(Clip(bad)) - 1 = m
<1>1. CASE bad = {}
  <2>1. Clip(bad) = 0..31
    BY <1>1 DEF Clip
  <2>2. Cardinality(0..31) = 31 - 0 + 1
    <3>1. 0 \in Int /\ 31 \in Int /\ ~ (0 > 31)
      OBVIOUS
    <3> QED BY <3>1, FS_Interval, Zenon
  <2> QED BY <1>1, <2>1, <2>2
<1>2. CASE bad # {}
  <2>1. bad \subseteq Nat
    OBVIOUS
  <2>2. \E m \in bad : \A i \in bad : m <= i
    BY <1>2, <2>1, LeastNumber
  <2>3. Min(bad) \in bad /\ \A i \in bad : Min(bad) <= i
    BY <2>2, Zenon DEF Min
  <2>4. PICK m \in 0..15 : m = Min(bad)
    BY <2>3
  <2>5. Clip(bad) = 0..m
    BY <1>2, <2>4 DEF Clip
  <2>6. Cardinality(0..m) = m - 0 + 1
    <3>1. 0 \in Int /\ m \in Int /\ ~ (0 > m)
      OBVIOUS
    <3> QED BY <3>1, FS_Interval, Zenon
  <2>7. Cardinality(Clip(bad)) - 1 = m
    BY <2>5, <2>6
  <2> QED BY <2>3, <2>4, <2>5, <2>7
<1> QED BY <1>1, <1>2

\* The vectors and masks of a call of sse_inet_aton.
ZoneNonDigits == NonDigitLanes(Raised(Loaded))
ZoneDigit == Lowered(Raised(Loaded))
ZoneClip == Clip(ZoneNonDigits \ LanesOfDots(Loaded))
ZoneFound == Cardinality(ZoneClip) - 1
ZonePartition == ZoneNonDigits \cap ZoneClip

\* Wherever a layout wants a digit there is a digit's value or less than -118.
LEMMA ZoneDigits ==
  ASSUME input \in Texts, after \in Tails, ~Short, NEW l \in Layouts,
         NEW k \in 0..3, NEW j \in 1..3
  PROVE  /\ Shuffled(ZoneDigit, l, k, j) \in ZoneValue
         /\ j <= l[k] => /\ EndOf(l, k) - j \in 0..14
                         /\ Shuffled(ZoneDigit, l, k, j) \in 0..9
                              => IsDigit(Loaded[EndOf(l, k) - j])
                         /\ IsDigit(Loaded[EndOf(l, k) - j])
                              => Shuffled(ZoneDigit, l, k, j) = Loaded[EndOf(l, k) - j] - Zero
         /\ ~ (j <= l[k]) => Shuffled(ZoneDigit, l, k, j) = 0
<1>1. BeginsWithText(Loaded)
  BY SseLanes
<1>2. CASE ~ (j <= l[k])
  <2>1. Shuffled(ZoneDigit, l, k, j) = 0
    BY <1>2 DEF Shuffled
  <2> QED BY <1>2, <2>1 DEF ZoneValue
<1>3. CASE j <= l[k]
  <2>1. PICK i \in 0..14 : i = EndOf(l, k) - j
    BY <1>3, LayoutCovers
  <2>2. Shuffled(ZoneDigit, l, k, j) = ZoneDigit[i]
    BY <1>3, <2>1 DEF Shuffled
  <2>3. i \in 0..15
    OBVIOUS
  <2>4. /\ IsDigit(Loaded[i]) => /\ ZoneDigit[i] = Loaded[i] - Zero
                                 /\ ZoneDigit[i] \in 0..9
        /\ ~IsDigit(Loaded[i]) => ZoneDigit[i] \in -128..-119
    BY <1>1, <2>3, ZoneLanes DEF ZoneDigit
  <2>5. ZoneDigit[i] \in ZoneValue
    BY <2>4 DEF ZoneValue
  <2>6. ZoneDigit[i] \in 0..9 => IsDigit(Loaded[i])
    BY <2>4
  <2> QED BY <1>3, <2>1, <2>2, <2>4, <2>5, <2>6, Zenon
<1> QED BY <1>2, <1>3

\* The sums are natural numbers, and the bytes they are packed into bytes.
LEMMA ZoneTypes ==
  ASSUME input \in Texts, after \in Tails, ~Short, NEW l \in Layouts
  PROVE  /\ \A k \in 0..3 : Total(ZoneDigit, l, k) \in Nat
         /\ [k \in 0..3 |-> Packed(Total(ZoneDigit, l, k))] \in [0..3 -> Byte]
<1>1. ASSUME NEW k \in 0..3
      PROVE  Total(ZoneDigit, l, k) \in Nat /\ Packed(Total(ZoneDigit, l, k)) \in Byte
  <2>1. PICK x \in ZoneValue, y \in ZoneValue, z \in ZoneValue :
          /\ x = Shuffled(ZoneDigit, l, k, 1) /\ y = Shuffled(ZoneDigit, l, k, 2)
          /\ z = Shuffled(ZoneDigit, l, k, 3)
    <3>1. 1 \in 1..3 /\ 2 \in 1..3 /\ 3 \in 1..3
      OBVIOUS
    <3> QED BY <3>1, ZoneDigits
  <2>2. Total(ZoneDigit, l, k) \in Nat
    BY <2>1, ZoneTotal
  <2>3. PICK n \in Nat : n = Total(ZoneDigit, l, k)
    BY <2>2
  <2>4. Min({n, 255}) = IF n <= 255 THEN n ELSE 255
    <3>1. n \in Int /\ 255 \in Int
      OBVIOUS
    <3> QED BY <3>1, MinOfTwo
  <2>5. Packed(n) \in Byte
    BY <2>4 DEF Packed, Byte
  <2> QED BY <2>2, <2>3, <2>5
<1> QED BY <1>1

\* simdzone finds the length of the text if the text is digits and dots and its
\* end is neither, and then looks at the dots and the end.
LEMMA ZoneFindsEnd ==
  ASSUME input \in Texts, after \in Tails, ~Short
  PROVE  /\ ZoneFound = Length <=> DigitsElsewhere(input) /\ EndIsFound(after)
         /\ ZoneFound = Length /\ DigitsElsewhere(input)
              => ZonePartition = DotsOf(input) \cup {Length}
         /\ ZonePartition \in SUBSET (0..15)
<1>1. PICK n \in 7..15 : n = Length
  BY SseLanes
<1>2. BeginsWithText(Loaded) /\ Loaded[n] = after[1]
  BY <1>1, SseLanes
<1>3. \A i \in 0..(n - 1) : i \in 0..15 /\ Loaded[i] = At(input, i)
  BY <1>1, <1>2 DEF BeginsWithText
<1>4. DotsOf(input) = {i \in 0..(n - 1) : At(input, i) = Dot}
  BY <1>1 DEF DotsOf, Length
<1>5. \A i \in 0..15 : i \in ZoneNonDigits <=> ~IsDigit(Loaded[i])
  BY <1>2, ZoneLanes DEF ZoneNonDigits
<1>6. ZoneNonDigits \in SUBSET (0..15)
  BY DEF ZoneNonDigits, NonDigitLanes
<1>7. PICK bad \in SUBSET (0..15) : bad = ZoneNonDigits \ LanesOfDots(Loaded)
  BY <1>6
<1>8. \A i \in 0..15 : i \in bad <=> ~IsDigit(Loaded[i]) /\ Loaded[i] # Dot
  BY <1>5, <1>7 DEF LanesOfDots
<1>9. \/ bad = {} /\ ZoneClip = 0..31 /\ ZoneFound = 31
      \/ \E m \in bad : /\ \A i \in bad : m <= i
                        /\ ZoneClip = 0..m /\ ZoneFound = m
  BY <1>7, ClipFacts DEF ZoneClip, ZoneFound
<1>10. EndIsFound(after) <=> n \in bad
  BY <1>2, <1>8 DEF EndIsFound
<1>11. DigitsElsewhere(input) <=> \A i \in 0..(n - 1) : i \notin bad
  <2>1. DigitsElsewhere(input)
          <=> \A i \in 0..(n - 1) : i \in DotsOf(input) \/ IsDigit(At(input, i))
    BY <1>1 DEF DigitsElsewhere, Length
  <2>2. \A i \in 0..(n - 1) :
          i \notin bad <=> i \in DotsOf(input) \/ IsDigit(At(input, i))
    BY <1>3, <1>4, <1>8
  <2> QED BY <2>1, <2>2
<1>12. ZoneFound = n => n \in bad /\ \A i \in 0..(n - 1) : i \notin bad
  <2> SUFFICES ASSUME ZoneFound = n
               PROVE  n \in bad /\ \A i \in 0..(n - 1) : i \notin bad
    OBVIOUS
  <2>1. ZoneFound # 31
    OBVIOUS
  <2>2. n \in bad /\ \A i \in bad : n <= i
    BY <1>9, <2>1
  <2> QED BY <2>2
<1>13. n \in bad /\ (\A i \in 0..(n - 1) : i \notin bad)
         => ZoneFound = n /\ ZoneClip = 0..n
  <2> SUFFICES ASSUME n \in bad, \A i \in 0..(n - 1) : i \notin bad
               PROVE  ZoneFound = n /\ ZoneClip = 0..n
    OBVIOUS
  <2>1. PICK m \in bad : /\ \A i \in bad : m <= i
                         /\ ZoneClip = 0..m /\ ZoneFound = m
    BY <1>9
  <2>2. m <= n /\ ~ (m < n)
    BY <2>1
  <2>3. m = n
    BY <2>2
  <2> QED BY <2>1, <2>3
<1>14. n \in bad /\ (\A i \in 0..(n - 1) : i \notin bad)
         => ZonePartition = DotsOf(input) \cup {n}
  <2> SUFFICES ASSUME n \in bad, \A i \in 0..(n - 1) : i \notin bad
               PROVE  ZonePartition = DotsOf(input) \cup {n}
    OBVIOUS
  <2>1. ZonePartition = ZoneNonDigits \cap (0..n)
    BY <1>13 DEF ZonePartition
  <2>2. n \in ZoneNonDigits
    BY <1>7
  <2>3. \A i \in 0..(n - 1) : i \in ZoneNonDigits <=> i \in DotsOf(input)
    <3> TAKE i \in 0..(n - 1)
    <3>1. i \in 0..15 /\ Loaded[i] = At(input, i) /\ i \notin bad
      BY <1>3
    <3>2. Loaded[i] = Dot => ~IsDigit(Loaded[i])
      BY DEF IsDigit, Dot
    <3> QED BY <1>4, <1>5, <1>8, <3>1, <3>2
  <2>4. \A i \in 0..n : i \in 0..(n - 1) \/ i = n
    OBVIOUS
  <2>5. DotsOf(input) \subseteq 0..(n - 1) /\ 0..(n - 1) \subseteq 0..n
    BY <1>4
  <2> QED BY <2>1, <2>2, <2>3, <2>4, <2>5
<1>15. ZonePartition \in SUBSET (0..15)
  BY <1>6 DEF ZonePartition
<1> QED BY <1>1, <1>10, <1>11, <1>12, <1>13, <1>14, <1>15

\* The layouts that have the key of a set of lanes.
LEMMA PatternFacts ==
  ASSUME NEW lanes \in SUBSET (0..15)
  PROVE  PatternOf(lanes) = {l \in Layouts : HashKey(DelimitersOf[l]) = HashKey(lanes)}
<1>1. HashKey(lanes) \in 0..255
  BY KeyAssumption
<1> QED BY <1>1, Zenon DEF PatternOf, Table

\* The sums and leading zeros, where the layout has digits in all its places.
LEMMA ZoneOctets ==
  ASSUME input \in Texts, after \in Tails, ~Short, NEW l \in Layouts,
         EndOf(l, 3) = Length,
         \A k \in 0..3 : \A j \in 1..3 :
           j <= l[k] => IsDigit(Loaded[EndOf(l, k) - j])
  PROVE  \A k \in 0..3 : /\ Total(ZoneDigit, l, k) = OctetOf(input, l, k)
                         /\ OctetOf(input, l, k) \in 0..999
                         /\ l[k] >= 2 => (ZeroLeads(ZoneDigit, l, k)
                                            <=> DigitOf(input, l, k, l[k]) = 0)
<1> TAKE k \in 0..3
<1>1. ASSUME NEW j \in 1..3
      PROVE  /\ Shuffled(ZoneDigit, l, k, j) = DigitOf(input, l, k, j)
             /\ DigitOf(input, l, k, j) \in 0..9
  <2>1. CASE j <= l[k]
    <3>1. PICK i \in 0..14 : i = EndOf(l, k) - j
      BY <2>1, LayoutCovers
    <3>2. PICK n \in 7..15 : n = Length
      BY SseLanes
    <3>3. i < n
      <4>1. EndOf(l, k) \in 1..15 /\ EndOf(l, k) <= EndOf(l, 3)
        <5>1. l[0] \in 1..3 /\ l[1] \in 1..3 /\ l[2] \in 1..3 /\ l[3] \in 1..3
          BY LayoutFacts
        <5>2. PICK s \in 1..3, u \in 1..3, w \in 1..3, x \in 1..3 :
                s = l[0] /\ u = l[1] /\ w = l[2] /\ x = l[3]
          BY <5>1
        <5>3. /\ EndOf(l, 0) = s /\ EndOf(l, 1) = s + u + 1
              /\ EndOf(l, 2) = s + u + 1 + w + 1
              /\ EndOf(l, 3) = s + u + 1 + w + 1 + x + 1
          BY <5>2, LayoutFacts
        <5>4. k = 0 \/ k = 1 \/ k = 2 \/ k = 3
          OBVIOUS
        <5> QED BY <5>3, <5>4
      <4>2. PICK e \in 1..15 : e = EndOf(l, k) /\ e <= n
        BY <3>2, <4>1
      <4> QED BY <3>1, <4>2
    <3>4. Loaded[i] = At(input, i)
      <4>1. i \in 0..(Length - 1)
        BY <3>2, <3>3
      <4> QED BY <4>1, SseLanes DEF BeginsWithText
    <3>5. IsDigit(At(input, i))
      BY <2>1, <3>1, <3>4
    <3>6. Shuffled(ZoneDigit, l, k, j) = At(input, i) - Zero
      BY <2>1, <3>1, <3>4, <3>5, ZoneDigits
    <3>7. DigitOf(input, l, k, j) = At(input, i) - Zero
      BY <2>1, <3>1 DEF DigitOf
    <3>8. At(input, i) - Zero \in 0..9
      BY <3>5 DEF IsDigit, Zero
    <3> QED BY <3>6, <3>7, <3>8
  <2>2. CASE ~ (j <= l[k])
    <3>1. Shuffled(ZoneDigit, l, k, j) = 0
      BY <2>2, ZoneDigits
    <3>2. DigitOf(input, l, k, j) = 0
      BY <2>2 DEF DigitOf
    <3> QED BY <3>1, <3>2
  <2> QED BY <2>1, <2>2
<1>2. PICK x \in 0..9, y \in 0..9, z \in 0..9 :
        /\ x = Shuffled(ZoneDigit, l, k, 1) /\ y = Shuffled(ZoneDigit, l, k, 2)
        /\ z = Shuffled(ZoneDigit, l, k, 3)
        /\ x = DigitOf(input, l, k, 1) /\ y = DigitOf(input, l, k, 2)
        /\ z = DigitOf(input, l, k, 3)
  <2>1. 1 \in 1..3 /\ 2 \in 1..3 /\ 3 \in 1..3
    OBVIOUS
  <2> QED BY <1>1, <2>1
<1>3. Total(ZoneDigit, l, k) = 100 * z + 10 * y + x
  <2>1. x \in ZoneValue /\ y \in ZoneValue /\ z \in ZoneValue
    BY DEF ZoneValue
  <2> QED BY <1>2, <2>1, ZoneTotal, SMTT(30)
<1>4. OctetOf(input, l, k) = 100 * z + 10 * y + x
  BY <1>2 DEF OctetOf
<1>5. 100 * z + 10 * y + x \in 0..999
  OBVIOUS
<1>6. ASSUME l[k] >= 2
      PROVE  ZeroLeads(ZoneDigit, l, k) <=> DigitOf(input, l, k, l[k]) = 0
  <2>1. l[k] \in 1..3
    BY LayoutFacts
  <2>2. Shuffled(ZoneDigit, l, k, l[k]) = DigitOf(input, l, k, l[k])
    BY <1>1, <2>1
  <2> QED BY <1>6, <2>2 DEF ZeroLeads
<1> QED BY <1>3, <1>4, <1>5, <1>6

\* What simdzone accepts is a strict quad whose end it found.
LEMMA ZoneAcceptsQuads ==
  ASSUME input \in Texts, after \in Tails, ~Short,
         NEW l \in PatternOf(ZonePartition), ~Checked(ZoneDigit, l),
         ZoneFound = EndOf(l, 3), ZoneFound = Length
  PROVE  l \in Layouts /\ IsQuadOf(input, l) /\ EndIsFound(after)
<1>1. l \in Layouts /\ HashKey(DelimitersOf[l]) = HashKey(ZonePartition)
  <2>1. ZonePartition \in SUBSET (0..15)
    BY ZoneFindsEnd
  <2> QED BY <2>1, PatternFacts
<1>2. DigitsElsewhere(input) /\ EndIsFound(after)
  BY ZoneFindsEnd
<1>3. ZonePartition = DotsOf(input) \cup {Length}
  BY <1>2, ZoneFindsEnd
<1>4. PICK n \in 7..15 : n = Length /\ n = EndOf(l, 3)
  BY SseLanes
<1>5. \A k \in 0..3 : ~ (Total(ZoneDigit, l, k) > 255) /\ ~ZeroLeads(ZoneDigit, l, k)
  BY DEF Checked
<1>6. ASSUME NEW k \in 0..3, NEW j \in 1..3, j <= l[k]
      PROVE  IsDigit(Loaded[EndOf(l, k) - j])
  <2>1. PICK x \in ZoneValue, y \in ZoneValue, z \in ZoneValue :
          /\ x = Shuffled(ZoneDigit, l, k, 1) /\ y = Shuffled(ZoneDigit, l, k, 2)
          /\ z = Shuffled(ZoneDigit, l, k, 3)
    <3>1. 1 \in 1..3 /\ 2 \in 1..3 /\ 3 \in 1..3
      OBVIOUS
    <3> QED BY <1>1, <3>1, ZoneDigits
  <2>2. x \in 0..9 /\ y \in 0..9 /\ z \in 0..9
    BY <1>5, <2>1, ZoneTotal
  <2>3. j = 1 \/ j = 2 \/ j = 3
    OBVIOUS
  <2>4. Shuffled(ZoneDigit, l, k, j) \in 0..9
    BY <2>1, <2>2, <2>3
  <2> QED BY <1>1, <1>6, <2>4, ZoneDigits
<1>7. ZonePartition \subseteq DelimitersOf[l]
  <2> SUFFICES ASSUME NEW i \in ZonePartition, i \notin DelimitersOf[l] PROVE FALSE
    OBVIOUS
  <2>1. i \in 0..15
    BY ZoneFindsEnd
  <2>2. i <= EndOf(l, 3)
    <3>1. Length \in 0..15 /\ DotsOf(input) \subseteq 0..(Length - 1)
      BY <1>4 DEF DotsOf, Length
    <3>2. i \in 0..n
      BY <1>3, <1>4, <3>1
    <3> QED BY <1>4, <3>2
  <2>3. PICK k \in 0..3, j \in 1..3 : j <= l[k] /\ i = EndOf(l, k) - j
    BY <1>1, <2>1, <2>2, LayoutCovers
  <2>4. IsDigit(Loaded[i])
    BY <1>6, <2>3
  <2>5. i \in ZoneNonDigits
    BY DEF ZonePartition
  <2>6. BeginsWithText(Loaded)
    BY SseLanes
  <2> QED BY <2>1, <2>4, <2>5, <2>6, ZoneLanes DEF ZoneNonDigits
<1>8. ZonePartition = DelimitersOf[l]
  <2>1. ZonePartition \in SUBSET DelimitersOf[l] /\ EndOf(l, 3) \in ZonePartition
    BY <1>3, <1>4, <1>7
  <2>2. HashKey(ZonePartition) = HashKey(DelimitersOf[l])
    BY <1>1
  <2> QED BY <1>1, <2>1, <2>2, SubsetsDiffer, Zenon
<1>9. HasLayout(input, l)
  BY <1>3, <1>8, Zenon DEF HasLayout, Length
<1>10. \A k \in 0..3 : /\ Total(ZoneDigit, l, k) = OctetOf(input, l, k)
                       /\ OctetOf(input, l, k) \in 0..999
                       /\ l[k] >= 2 => (ZeroLeads(ZoneDigit, l, k)
                                          <=> DigitOf(input, l, k, l[k]) = 0)
  BY <1>1, <1>6, ZoneOctets
<1>11. \A k \in 0..3 : IsOctetOf(input, l, k)
  <2> TAKE k \in 0..3
  <2>1. ~ (Total(ZoneDigit, l, k) > 255) /\ ~ZeroLeads(ZoneDigit, l, k)
    BY <1>5
  <2>2. /\ Total(ZoneDigit, l, k) = OctetOf(input, l, k)
        /\ OctetOf(input, l, k) \in 0..999
        /\ l[k] >= 2 => (ZeroLeads(ZoneDigit, l, k)
                           <=> DigitOf(input, l, k, l[k]) = 0)
    BY <1>10
  <2>3. OctetOf(input, l, k) <= 255
    <3>1. PICK m \in 0..999 : m = OctetOf(input, l, k)
      BY <2>2
    <3>2. ~ (m > 255)
      BY <2>1, <2>2, <3>1
    <3> QED BY <3>1, <3>2
  <2>4. l[k] >= 2 => DigitOf(input, l, k, l[k]) # 0
    BY <2>1, <2>2, Zenon
  <2> QED BY <2>3, <2>4 DEF IsOctetOf
<1> QED BY <1>1, <1>2, <1>9, <1>11 DEF IsQuadOf

\* A strict quad has digits in all the places of its layout.
LEMMA ZonePlaces ==
  ASSUME input \in Texts, after \in Tails, ~Short, NEW l \in Layouts, IsQuadOf(input, l)
  PROVE  /\ Length = EndOf(l, 3)
         /\ \A k \in 0..3 : \A j \in 1..3 :
              j <= l[k] => IsDigit(Loaded[EndOf(l, k) - j])
<1>1. HasLayout(input, l) /\ DigitsElsewhere(input)
  BY DEF IsQuadOf
<1>2. Fits /\ Length = EndOf(l, 3)
  <2>1. Fits
    BY <1>1, QuadFits DEF Fits, Length
  <2>2. Len(input) \in 0..15 /\ DotsOf(input) \in SUBSET (0..(Len(input) - 1))
    BY <2>1, ShortText DEF Fits, Length
  <2> QED BY <1>1, <2>1, <2>2, LayoutOfText DEF Length
<1>3. ASSUME NEW k \in 0..3, NEW j \in 1..3, j <= l[k]
      PROVE  IsDigit(Loaded[EndOf(l, k) - j])
  <2>1. PICK e \in 1..15, w \in 1..3 : OctetAt(l, k, e, w)
    BY <1>1, <1>2, OctetLanes
  <2> USE DEF OctetAt
  <2>2. e - j \in (e - w)..(e - 1)
    BY <1>3, <2>1
  <2>3. e - j \in (0..(Length - 1)) \ DotsOf(input)
    BY <2>1, <2>2
  <2>4. IsDigit(At(input, e - j))
    BY <1>1, <2>3 DEF DigitsElsewhere, Length
  <2>5. Loaded[e - j] = At(input, e - j)
    BY <2>3, SseLanes DEF BeginsWithText
  <2> QED BY <2>1, <2>4, <2>5
<1> QED BY <1>2, <1>3

\* It accepts every strict quad whose end it finds.
LEMMA ZoneAcceptsEveryQuad ==
  ASSUME input \in Texts, after \in Tails, ~Short, EndIsFound(after),
         NEW l \in Layouts, IsQuadOf(input, l)
  PROVE  /\ PatternOf(ZonePartition) = {l} /\ ~Checked(ZoneDigit, l)
         /\ ZoneFound = EndOf(l, 3) /\ ZoneFound = Length
<1>1. /\ HasLayout(input, l) /\ DigitsElsewhere(input)
      /\ \A k \in 0..3 : IsOctetOf(input, l, k)
  BY DEF IsQuadOf
<1>2. Length = EndOf(l, 3)
  BY ZonePlaces
<1>3. ZoneFound = Length /\ ZonePartition = DotsOf(input) \cup {Length}
  BY <1>1, ZoneFindsEnd
<1>4. ZonePartition = DelimitersOf[l]
  BY <1>1, <1>3, Zenon DEF HasLayout, Length
<1>5. PatternOf(ZonePartition) = {l}
  <2>1. ZonePartition \in SUBSET (0..15)
    BY ZoneFindsEnd
  <2>2. PatternOf(ZonePartition)
          = {m \in Layouts : HashKey(DelimitersOf[m]) = HashKey(DelimitersOf[l])}
    BY <1>4, <2>1, PatternFacts
  <2>3. \A m \in Layouts : HashKey(DelimitersOf[m]) = HashKey(DelimitersOf[l]) => m = l
    BY PerfectHash, Zenon
  <2> QED BY <2>2, <2>3
<1>6. \A k \in 0..3 : \A j \in 1..3 : j <= l[k] => IsDigit(Loaded[EndOf(l, k) - j])
  BY ZonePlaces
<1>7. \A k \in 0..3 : /\ Total(ZoneDigit, l, k) = OctetOf(input, l, k)
                      /\ OctetOf(input, l, k) \in 0..999
                      /\ l[k] >= 2 => (ZeroLeads(ZoneDigit, l, k)
                                         <=> DigitOf(input, l, k, l[k]) = 0)
  BY <1>2, <1>6, ZoneOctets
<1>8. \A k \in 0..3 : ~ (Total(ZoneDigit, l, k) > 255) /\ ~ZeroLeads(ZoneDigit, l, k)
  <2> TAKE k \in 0..3
  <2>1. /\ OctetOf(input, l, k) <= 255
        /\ l[k] >= 2 => DigitOf(input, l, k, l[k]) # 0
    BY <1>1 DEF IsOctetOf
  <2>2. /\ Total(ZoneDigit, l, k) = OctetOf(input, l, k)
        /\ OctetOf(input, l, k) \in 0..999
        /\ l[k] >= 2 => (ZeroLeads(ZoneDigit, l, k)
                           <=> DigitOf(input, l, k, l[k]) = 0)
    BY <1>7
  <2>3. ~ (Total(ZoneDigit, l, k) > 255)
    <3>1. PICK m \in 0..999 : m = OctetOf(input, l, k)
      BY <2>2
    <3>2. m <= 255 /\ m = Total(ZoneDigit, l, k)
      BY <2>1, <2>2, <3>1
    <3> QED BY <3>2
  <2>4. ZeroLeads(ZoneDigit, l, k) => l[k] >= 2
    BY DEF ZeroLeads
  <2>5. ~ZeroLeads(ZoneDigit, l, k)
    BY <2>1, <2>2, <2>4, Zenon
  <2> QED BY <2>3, <2>5
<1>9. ~Checked(ZoneDigit, l)
  BY <1>8, Zenon DEF Checked
<1> QED BY <1>2, <1>3, <1>5, <1>9

\* What simdzone stores for a text it accepts.
LEMMA ZoneStoresTheQuad ==
  ASSUME input \in Texts, after \in Tails, ~Short,
         NEW l \in PatternOf(ZonePartition), ~Checked(ZoneDigit, l),
         ZoneFound = EndOf(l, 3), ZoneFound = Length
  PROVE  [k \in 0..3 |-> Packed(Total(ZoneDigit, l, k))] \in QuadsOf(input)
<1>1. l \in Layouts /\ IsQuadOf(input, l) /\ EndIsFound(after)
  BY ZoneAcceptsQuads
<1>2. \A k \in 0..3 : \A j \in 1..3 : j <= l[k] => IsDigit(Loaded[EndOf(l, k) - j])
  BY <1>1, ZonePlaces
<1>3. \A k \in 0..3 : /\ Total(ZoneDigit, l, k) = OctetOf(input, l, k)
                      /\ OctetOf(input, l, k) \in 0..999
  BY <1>1, <1>2, ZoneOctets
<1>4. \A k \in 0..3 : Packed(Total(ZoneDigit, l, k)) = OctetOf(input, l, k)
  <2> TAKE k \in 0..3
  <2>1. PICK m \in 0..999 : m = OctetOf(input, l, k) /\ m = Total(ZoneDigit, l, k)
    <3>1. /\ Total(ZoneDigit, l, k) = OctetOf(input, l, k)
          /\ OctetOf(input, l, k) \in 0..999
      BY <1>3
    <3> QED BY <3>1
  <2>2. m <= 255
    <3>1. OctetOf(input, l, k) <= 255
      BY <1>1 DEF IsQuadOf, IsOctetOf
    <3> QED BY <2>1, <3>1
  <2>3. Min({m, 255}) = m
    <3>1. m \in Int /\ 255 \in Int
      OBVIOUS
    <3>2. Min({m, 255}) = IF m <= 255 THEN m ELSE 255
      BY <3>1, MinOfTwo, ZenonT(40)
    <3> QED BY <2>2, <3>2
  <2>4. Packed(m) = m
    BY <2>2, <2>3 DEF Packed
  <2> QED BY <2>1, <2>4
<1>5. [k \in 0..3 |-> Packed(Total(ZoneDigit, l, k))] = OctetsOf(input, l)
  BY <1>4 DEF OctetsOf
<1> QED BY <1>1, <1>5 DEF QuadsOf

\* What holds of a call: nothing is stored before it returns.
SseInv ==
  /\ SseTypeOK
  /\ result = "pending" => out = OutBefore

LEMMA SseInitInv == SseInit => SseInv
  BY OutAssumption DEF SseInit, SseInv, SseTypeOK, SseParsers

LEMMA RejectLengthInv == SseInv /\ RejectLength => SseInv'
  BY DEF SseInv, SseTypeOK, RejectLength

LEMMA MulaRejectInv == SseInv /\ MulaReject => SseInv'
  BY DEF SseInv, SseTypeOK, MulaReject

\* A step of mula that stores.
LEMMA MulaStoreStep ==
  ASSUME SseInv, MulaStore
  PROVE  /\ result = "pending" /\ parser = "mula" /\ result' = "accepted"
         /\ parser' = parser /\ input' = input /\ after' = after
         /\ out' \in QuadsOf(input) /\ out' \in [0..3 -> Byte]
<1>1. /\ result = "pending" /\ parser = "mula" /\ ~Short /\ MulaTakes(Loaded)
      /\ out' = [k \in 0..3 |-> Low8(Component(Loaded, Ends(Loaded), k))]
      /\ result' = "accepted" /\ parser' = parser /\ input' = input /\ after' = after
  BY DEF MulaStore
<1>2. input \in Texts /\ after \in Tails
  BY DEF SseInv, SseTypeOK
<1>3. BeginsWithText(Loaded) /\ Length \in 7..15
  BY <1>1, <1>2, SseLanes
<1>4. /\ [k \in 0..3 |-> Low8(Component(Loaded, Ends(Loaded), k))] \in QuadsOf(input)
      /\ [k \in 0..3 |-> Low8(Component(Loaded, Ends(Loaded), k))] \in [0..3 -> Byte]
  BY <1>1, <1>2, <1>3, MulaStoresTheQuad
<1> QED BY <1>1, <1>4

LEMMA MulaStoreInv == SseInv /\ MulaStore => SseInv'
<1> SUFFICES ASSUME SseInv, MulaStore PROVE SseInv'
  OBVIOUS
<1>1. /\ result' = "accepted" /\ out' \in [0..3 -> Byte]
      /\ parser' = parser /\ input' = input /\ after' = after
  BY MulaStoreStep
<1> QED BY <1>1 DEF SseInv, SseTypeOK

\* A step of simdzone, in the terms of the lemmas above.
ZoneAccepts(l) ==
  ~Checked(ZoneDigit, l) /\ ZoneFound = EndOf(l, 3) /\ ZoneFound = Length

LEMMA SimdzoneStep ==
  ASSUME Simdzone
  PROVE  /\ result = "pending" /\ parser = "simdzone" /\ ~Short
         /\ parser' = parser /\ input' = input /\ after' = after
         /\ \/ PatternOf(ZonePartition) = {} /\ result' = "rejected" /\ out' = out
            \/ \E l \in PatternOf(ZonePartition) :
                 /\ out' = [k \in 0..3 |-> Packed(Total(ZoneDigit, l, k))]
                 /\ result' = IF ZoneAccepts(l) THEN "accepted" ELSE "rejected"
  BY Zenon DEF Simdzone, ZoneAccepts, ZonePartition, ZoneFound, ZoneClip,
               ZoneDigit, ZoneNonDigits

LEMMA SimdzoneInv == SseInv /\ Simdzone => SseInv'
<1> SUFFICES ASSUME SseInv, Simdzone PROVE SseInv'
  OBVIOUS
<1>1. /\ input \in Texts /\ after \in Tails /\ parser \in SseParsers
      /\ out \in [0..3 -> Byte]
  BY DEF SseInv, SseTypeOK
<1>2. /\ result = "pending" /\ ~Short
      /\ parser' = parser /\ input' = input /\ after' = after
      /\ \/ PatternOf(ZonePartition) = {} /\ result' = "rejected" /\ out' = out
         \/ \E l \in PatternOf(ZonePartition) :
              /\ out' = [k \in 0..3 |-> Packed(Total(ZoneDigit, l, k))]
              /\ result' = IF ZoneAccepts(l) THEN "accepted" ELSE "rejected"
  BY SimdzoneStep
<1>3. PatternOf(ZonePartition) \subseteq Layouts
  <2>1. ZonePartition \in SUBSET (0..15)
    BY <1>1, <1>2, ZoneFindsEnd
  <2> QED BY <2>1, PatternFacts
<1>4. \A l \in Layouts : [k \in 0..3 |-> Packed(Total(ZoneDigit, l, k))] \in [0..3 -> Byte]
  BY <1>1, <1>2, ZoneTypes
<1>5. result' \in {"accepted", "rejected"} /\ out' \in [0..3 -> Byte]
  BY <1>1, <1>2, <1>3, <1>4
<1> QED BY <1>1, <1>2, <1>5 DEF SseInv, SseTypeOK

\* SseInv is what the theorems rest on.
THEOREM AlwaysSseInv == SseSpec => []SseInv
<1>1. SseInv /\ [SseNext]_sseVars => SseInv'
  <2>1. SseInv /\ UNCHANGED sseVars => SseInv'
    BY DEF SseInv, SseTypeOK, sseVars
  <2> QED BY <2>1, RejectLengthInv, MulaRejectInv, MulaStoreInv, SimdzoneInv DEF SseNext
<1> QED BY SseInitInv, <1>1, PTL DEF SseSpec

\* The SSE parsers store four bytes, whatever the text and whatever follows it in
\* memory: the negative sums of simdzone are packed into bytes (simdzone_ipv4.h
\* 155).
THEOREM SseTypeCorrect == SseSpec => []SseTypeOK
<1>1. SseInv => SseTypeOK
  BY DEF SseInv
<1> QED BY <1>1, AlwaysSseInv, PTL

LEMMA SseContractInit == SseInit => SseContract!Init
<1> SUFFICES ASSUME SseInit PROVE SseContract!Init
  OBVIOUS
<1>1. /\ parser \in SseParsers /\ input \in Texts /\ after \in Tails
      /\ result = "pending" /\ out = OutBefore
  BY DEF SseInit
<1> QED BY <1>1 DEF SseContract!Init

\* What the contract sees of a step that answers.
LEMMA SseRefuses ==
  ASSUME SseInv, result = "pending", result' = "rejected", parser' = parser,
         input' = input, after' = after, parser = "mula" => out' = out,
         SsePromised(<<parser, input, after>>) = {}
  PROVE  SseContract!Next
<1>1. out = OutBefore
  BY DEF SseInv
<1>2. (IF parser = "mula" \/ result = "accepted" THEN out ELSE OutBefore) = OutBefore
  BY <1>1
<1>3. (IF parser' = "mula" \/ result' = "accepted" THEN out' ELSE OutBefore) = OutBefore
  BY <1>1
<1> QED BY <1>2, <1>3 DEF SseContract!Next, SseContract!Refuse

LEMMA SseAccepts ==
  ASSUME result = "pending", result' = "accepted", parser' = parser,
         input' = input, after' = after, out' \in SsePromised(<<parser, input, after>>)
  PROVE  SseContract!Next
  BY DEF SseContract!Next, SseContract!Accept

LEMMA SseContractNext ==
  ASSUME StrictQuadIsQuad
  PROVE  SseInv /\ [SseNext]_sseVars => [SseContract!Next]_(SseContract!parserVars)
<1> SUFFICES ASSUME SseInv, [SseNext]_sseVars
             PROVE  [SseContract!Next]_(SseContract!parserVars)
  OBVIOUS
<1>1. /\ input \in Texts /\ after \in Tails /\ parser \in SseParsers
      /\ result = "pending" => out = OutBefore
  BY DEF SseInv, SseTypeOK
<1>2. SsePromised(<<parser, input, after>>)
        = IF parser = "mula" \/ EndIsFound(after) THEN QuadsOf(input) ELSE {}
  BY <1>1 DEF SsePromised, StrictQuadIsQuad
<1>3. CASE RejectLength
  <2>1. /\ result = "pending" /\ Short /\ result' = "rejected" /\ out' = out
        /\ parser' = parser /\ input' = input /\ after' = after
    BY <1>3 DEF RejectLength
  <2>2. QuadsOf(input) = {}
    <3>1. ASSUME NEW l \in Layouts, IsQuadOf(input, l) PROVE FALSE
      <4>1. HasLayout(input, l)
        BY <3>1 DEF IsQuadOf
      <4> QED BY <1>1, <2>1, <4>1, QuadIsNotShort
    <3> QED BY <3>1, NoQuads
  <2>3. SsePromised(<<parser, input, after>>) = {}
    BY <1>2, <2>2
  <2> QED BY <2>1, <2>3, SseRefuses
<1>4. CASE MulaReject
  <2>1. /\ result = "pending" /\ parser = "mula" /\ ~Short /\ ~MulaTakes(Loaded)
        /\ result' = "rejected" /\ out' = out
        /\ parser' = parser /\ input' = input /\ after' = after
    BY <1>4 DEF MulaReject
  <2>2. BeginsWithText(Loaded) /\ Length \in 7..15
    BY <1>1, <2>1, SseLanes
  <2>3. QuadsOf(input) = {}
    BY <1>1, <2>1, <2>2, MulaTakesTheQuads, NoQuads
  <2>4. SsePromised(<<parser, input, after>>) = {}
    BY <1>2, <2>3
  <2> QED BY <2>1, <2>4, SseRefuses
<1>5. CASE MulaStore
  <2>1. /\ result = "pending" /\ parser = "mula" /\ result' = "accepted"
        /\ parser' = parser /\ input' = input /\ after' = after
        /\ out' \in QuadsOf(input)
    BY <1>5, MulaStoreStep
  <2>2. out' \in SsePromised(<<parser, input, after>>)
    BY <1>2, <2>1
  <2> QED BY <2>1, <2>2, SseAccepts
<1>6. CASE Simdzone
  <2>1. /\ result = "pending" /\ parser = "simdzone" /\ ~Short
        /\ parser' = parser /\ input' = input /\ after' = after
        /\ \/ PatternOf(ZonePartition) = {} /\ result' = "rejected" /\ out' = out
           \/ \E l \in PatternOf(ZonePartition) :
                /\ out' = [k \in 0..3 |-> Packed(Total(ZoneDigit, l, k))]
                /\ result' = IF ZoneAccepts(l) THEN "accepted" ELSE "rejected"
    BY <1>6, SimdzoneStep
  <2>2. ASSUME NEW l \in Layouts, IsQuadOf(input, l), EndIsFound(after)
        PROVE  PatternOf(ZonePartition) = {l} /\ ZoneAccepts(l)
    BY <1>1, <2>1, <2>2, ZoneAcceptsEveryQuad DEF ZoneAccepts
  <2>3. ASSUME result' = "rejected" PROVE SsePromised(<<parser, input, after>>) = {}
    <3> SUFFICES ASSUME EndIsFound(after) PROVE QuadsOf(input) = {}
      BY <1>2, <2>1
    <3>1. ASSUME NEW l \in Layouts, IsQuadOf(input, l) PROVE FALSE
      <4>1. PatternOf(ZonePartition) = {l} /\ ZoneAccepts(l)
        BY <2>2, <3>1
      <4> QED BY <2>1, <2>3, <4>1
    <3> QED BY <3>1, NoQuads
  <2>4. CASE result' = "rejected"
    <3>1. SsePromised(<<parser, input, after>>) = {}
      BY <2>3, <2>4
    <3>2. parser # "mula"
      BY <2>1
    <3> QED BY <2>1, <2>4, <3>1, <3>2, SseRefuses
  <2>5. CASE result' # "rejected"
    <3>1. PICK l \in PatternOf(ZonePartition) :
            /\ out' = [k \in 0..3 |-> Packed(Total(ZoneDigit, l, k))]
            /\ ZoneAccepts(l) /\ result' = "accepted"
      BY <2>1, <2>5
    <3>2. EndIsFound(after) /\ out' \in QuadsOf(input)
      BY <1>1, <2>1, <3>1, ZoneAcceptsQuads, ZoneStoresTheQuad DEF ZoneAccepts
    <3>3. out' \in SsePromised(<<parser, input, after>>)
      BY <1>2, <3>2
    <3> QED BY <2>1, <3>1, <3>3, SseAccepts
  <2> QED BY <2>4, <2>5
<1>7. CASE UNCHANGED sseVars
  BY <1>7 DEF sseVars, SseContract!parserVars
<1> QED BY <1>3, <1>4, <1>5, <1>6, <1>7 DEF SseNext

\* Both SSE parsers implement the abstract parser of the strict quads: mula
\* whatever follows the text, and simdzone, which takes the layout of the text
\* from a hash it never compares with the text's dots, unless a digit or a dot
\* follows it.
THEOREM SseImplementation ==
  ASSUME StrictQuadIsQuad
  PROVE  SseSpec => KeepsContract
<1>1. SseInv /\ [SseNext]_sseVars => [SseContract!Next]_(SseContract!parserVars)
  BY SseContractNext
<1> QED BY <1>1, SseContractInit, AlwaysSseInv, PTL
        DEF SseSpec, KeepsContract, SseContract!Spec


----------------------------------------------------------------------------
(* parse_ipv4_ada reads the strict dotted quads.                           *)

\* Octet k of a quad: its end, its width, and its digits from the last on.
OctetIs(l, k, e, w, x, y, z) ==
  /\ e = EndOf(l, k) /\ w = l[k] /\ w <= e /\ e <= Len(input)
  /\ x = DigitOf(input, l, k, 1) /\ y = DigitOf(input, l, k, 2)
  /\ z = DigitOf(input, l, k, 3)
  /\ OctetOf(input, l, k) = 100 * z + 10 * y + x /\ 100 * z + 10 * y + x <= 255
  /\ At(input, e - 1) = 48 + x
  /\ IF w >= 2 THEN At(input, e - 2) = 48 + y ELSE y = 0
  /\ IF w = 3 THEN At(input, e - 3) = 48 + z ELSE z = 0
  /\ w = 2 => y # 0
  /\ w = 3 => z # 0
  /\ k = 0 => e = w
  /\ k = 3 => e = Len(input)
  /\ k < 3 => /\ e < Len(input) /\ At(input, e) = Dot
              /\ EndOf(l, k + 1) - l[k + 1] = e + 1

LEMMA QuadOctet ==
  ASSUME input \in Texts, NEW l \in Layouts, IsQuadOf(input, l), NEW k \in 0..3
  PROVE  \E e \in 1..15, w \in 1..3, x \in 0..9, y \in 0..9, z \in 0..9 :
           OctetIs(l, k, e, w, x, y, z)
<1>1. HasLayout(input, l) /\ DigitsElsewhere(input) /\ IsOctetOf(input, l, k)
  BY DEF IsQuadOf
<1>2. Fits
  BY <1>1, QuadFits DEF Fits, Length
<1>3. PICK e \in 1..15, w \in 1..3 : OctetAt(l, k, e, w)
  BY <1>1, <1>2, OctetLanes
<1>4. /\ e = EndOf(l, k) /\ w = l[k] /\ w <= e /\ e <= Len(input)
      /\ k = 0 => e = w
      /\ \A i \in (e - w)..(e - 1) : i \in (0..(Len(input) - 1)) \ DotsOf(input)
  BY <1>3 DEF OctetAt, Length
<1>5. ASSUME NEW j \in 1..3
      PROVE  /\ DigitOf(input, l, k, j) \in 0..9
             /\ IF j <= w THEN At(input, e - j) = 48 + DigitOf(input, l, k, j)
                          ELSE DigitOf(input, l, k, j) = 0
  <2>1. CASE j <= w
    <3>1. e - j \in (e - w)..(e - 1)
      BY <2>1
    <3>2. IsDigit(At(input, e - j))
      BY <1>1, <1>4, <3>1, Zenon DEF DigitsElsewhere
    <3>3. PICK c \in 48..57 : c = At(input, e - j)
      BY <3>2 DEF IsDigit
    <3>4. DigitOf(input, l, k, j) = c - 48
      BY <1>4, <2>1, <3>3 DEF DigitOf, Zero
    <3> QED BY <2>1, <3>3, <3>4
  <2>2. CASE ~ (j <= w)
    BY <1>4, <2>2 DEF DigitOf
  <2> QED BY <2>1, <2>2
<1>6. PICK x \in 0..9, y \in 0..9, z \in 0..9 :
        /\ x = DigitOf(input, l, k, 1) /\ y = DigitOf(input, l, k, 2)
        /\ z = DigitOf(input, l, k, 3)
  BY <1>5
<1>7. OctetOf(input, l, k) = 100 * z + 10 * y + x
  BY <1>6 DEF OctetOf
<1>8. /\ 100 * z + 10 * y + x <= 255
      /\ w = 2 => y # 0
      /\ w = 3 => z # 0
  <2>1. OctetOf(input, l, k) <= 255 /\ (w >= 2 => DigitOf(input, l, k, w) # 0)
    BY <1>1, <1>4 DEF IsOctetOf
  <2>2. w = 2 => y # 0
    BY <1>6, <2>1
  <2>3. w = 3 => z # 0
    BY <1>6, <2>1
  <2> QED BY <1>7, <2>1, <2>2, <2>3
<1>9. /\ At(input, e - 1) = 48 + x
      /\ IF w >= 2 THEN At(input, e - 2) = 48 + y ELSE y = 0
      /\ IF w = 3 THEN At(input, e - 3) = 48 + z ELSE z = 0
  BY <1>5, <1>6
<1>10. k = 3 => e = Len(input)
  <2>1. Len(input) \in 0..15 /\ DotsOf(input) \in SUBSET (0..(Len(input) - 1))
    BY <1>2, ShortText DEF Fits, Length
  <2> QED BY <1>1, <1>4, <2>1, LayoutOfText
<1>11. ASSUME k < 3
       PROVE  e < Len(input) /\ At(input, e) = Dot /\ EndOf(l, k + 1) - l[k + 1] = e + 1
  <2>1. k + 1 \in 0..3 /\ k + 1 > 0 /\ k + 1 - 1 = k
    BY <1>11
  <2>2. PICK f \in 1..15, v \in 1..3 : OctetAt(l, k + 1, f, v)
    BY <1>1, <1>2, <2>1, OctetLanes
  <2>3. /\ f = EndOf(l, k + 1) /\ v = l[k + 1] /\ f <= Len(input)
        /\ f - v - 1 = EndOf(l, k) /\ f - v - 1 \in DotsOf(input)
    BY <2>1, <2>2 DEF OctetAt, Length
  <2>4. At(input, e) = Dot
    BY <1>4, <2>3 DEF DotsOf
  <2> QED BY <1>4, <2>3, <2>4
<1>12. OctetIs(l, k, e, w, x, y, z)
  BY <1>4, <1>6, <1>7, <1>8, <1>9, <1>10, <1>11 DEF OctetIs
<1> QED BY <1>12

\* The value of the digits of octet k of the text t but the last m.
ReadUpTo(t, l, k, m) ==
  CASE m = 0 -> OctetOf(t, l, k)
    [] m = 1 -> 10 * DigitOf(t, l, k, 3) + DigitOf(t, l, k, 2)
    [] m = 2 -> DigitOf(t, l, k, 3)
    [] OTHER -> 0

\* The octets before digit_count are in the accumulator; the conversion of the
\* next has read the digits before first, in base 10.
ReadsQuad(l) ==
  /\ last = Len(input)
  /\ pc \in {"segment", "convert", "after"} =>
       /\ digit_count < 4
       /\ \A j \in 0..3 : j < digit_count => ipv4[j + 1] = OctetOf(input, l, j)
  /\ pc = "segment" => first = EndOf(l, digit_count) - l[digit_count]
  /\ pc = "convert" =>
       /\ radix = 10
       /\ \E m \in 0..l[digit_count] :
            /\ first = EndOf(l, digit_count) - m
            /\ converted = IF m = l[digit_count] THEN 0 ELSE 1
            /\ segment_result = <<0, ReadUpTo(input, l, digit_count, m)>>
  /\ pc = "after" =>
       /\ first = EndOf(l, digit_count)
       /\ segment_result = <<0, OctetOf(input, l, digit_count)>>
  /\ pc = "final" => \A j \in 0..3 : ipv4[j + 1] = OctetOf(input, l, j)
  /\ IF pc = "returned" THEN result = "accepted" /\ out = OctetsOf(input, l)
                        ELSE result = "pending" /\ out = OutBefore

\* At the head of the loop a digit is next that begins no prefix.
LEMMA SegmentOfQuad ==
  ASSUME AdaInv, NEW l \in Layouts, IsQuadOf(input, l), ReadsQuad(l), pc = "segment"
  PROVE  ~ViewEmpty /\ ~HasHexPrefix /\ ~IsOctal
<1>1. digit_count \in 0..3 /\ input \in Texts
  BY DEF AdaInv, AdaTypeOK, ReadsQuad
<1>2. PICK e \in 1..15, w \in 1..3, x \in 0..9, y \in 0..9, z \in 0..9 :
        OctetIs(l, digit_count, e, w, x, y, z)
  BY <1>1, QuadOctet
<1>3. first = e - w /\ last = Len(input) /\ e <= Len(input)
  BY <1>2 DEF ReadsQuad, OctetIs
<1>4. ~ViewEmpty
  BY <1>3 DEF ViewEmpty
<1>5. w >= 2 => View(0) # Zero
  <2>1. View(0) = At(input, e - w)
    BY <1>3 DEF View
  <2>2. w = 2 => At(input, e - w) = 48 + y /\ y # 0
    BY <1>2 DEF OctetIs
  <2>3. w = 3 => At(input, e - w) = 48 + z /\ z # 0
    BY <1>2 DEF OctetIs
  <2> QED BY <2>1, <2>2, <2>3 DEF Zero
<1>6. w = 1 /\ Size >= 2 => View(1) = Dot
  <2> SUFFICES ASSUME w = 1, Size >= 2 PROVE View(1) = Dot
    OBVIOUS
  <2>1. e < Len(input)
    BY <1>1, <1>3 DEF Size
  <2>2. digit_count = 3 => e = Len(input)
    BY <1>2, Zenon DEF OctetIs
  <2>3. digit_count < 3
    BY <1>1, <2>1, <2>2
  <2>4. At(input, e) = Dot
    BY <1>2, <2>3, Zenon DEF OctetIs
  <2>5. first + 1 = e
    BY <1>3
  <2> QED BY <2>4, <2>5 DEF View
<1>7. ~HasHexPrefix
  BY <1>5, <1>6 DEF HasHexPrefix, Dot
<1>8. ~IsOctal
  BY <1>5, <1>6 DEF IsOctal, IsDigit, Dot
<1> QED BY <1>4, <1>7, <1>8

\* One more digit of a value that stays small.
LEMMA SmallDigit ==
  ASSUME NEW r \in 0..99, NEW d \in 0..9
  PROVE  TimesPlus(<<0, r>>, 10, d) = <<0, 10 * r + d>> /\ ~Overflows(<<0, 10 * r + d>>)
<1>1. r * 10 + d \in 0..999
  OBVIOUS
<1>2. (r * 10 + d) \div 65536 = 0 /\ (r * 10 + d) % 65536 = 10 * r + d
  BY <1>1
<1> QED BY <1>2 DEF TimesPlus, Overflows, High, Low

\* The conversion takes the digits of the octet, and no more.
LEMMA ConversionOfQuad ==
  ASSUME AdaInv, NEW l \in Layouts, IsQuadOf(input, l), ReadsQuad(l), pc = "convert",
         NEW m \in 0..l[digit_count], first = EndOf(l, digit_count) - m,
         segment_result = <<0, ReadUpTo(input, l, digit_count, m)>>
  PROVE  /\ MoreDigits <=> m > 0
         /\ m > 0 => /\ NextSegment = <<0, ReadUpTo(input, l, digit_count, m - 1)>>
                     /\ ~Overflows(NextSegment)
<1>1. digit_count \in 0..3 /\ input \in Texts /\ radix = 10 /\ last = Len(input)
  BY DEF AdaInv, AdaTypeOK, ReadsQuad
<1>2. PICK e \in 1..15, w \in 1..3, x \in 0..9, y \in 0..9, z \in 0..9 :
        OctetIs(l, digit_count, e, w, x, y, z)
  BY <1>1, QuadOctet
<1>3. m \in 0..w /\ first = e - m /\ e <= Len(input)
  BY <1>2 DEF OctetIs
<1>4. /\ ReadUpTo(input, l, digit_count, 0) = 100 * z + 10 * y + x
      /\ ReadUpTo(input, l, digit_count, 1) = 10 * z + y
      /\ ReadUpTo(input, l, digit_count, 2) = z
      /\ ReadUpTo(input, l, digit_count, 3) = 0
  BY <1>2 DEF ReadUpTo, OctetIs
<1>5. /\ w >= 2 \/ y = 0
      /\ w = 3 \/ z = 0
  BY <1>2 DEF OctetIs
<1>6. CASE m = 0
  <2>1. ~ViewEmpty => View(0) = Dot
    <3> SUFFICES ASSUME ~ViewEmpty PROVE View(0) = Dot
      OBVIOUS
    <3>1. e # Len(input)
      BY <1>1, <1>3, <1>6 DEF ViewEmpty
    <3>2. digit_count < 3
      BY <1>1, <1>2, <3>1 DEF OctetIs
    <3>3. At(input, e) = Dot /\ first + 0 = e
      BY <1>2, <1>3, <1>6, <3>2 DEF OctetIs
    <3> QED BY <3>3 DEF View
  <2> QED BY <1>6, <2>1 DEF MoreDigits, IsHexDigit, IsDigit, Dot
<1>7. ASSUME m > 0
      PROVE  \E r \in 0..99, d \in 0..9 :
               /\ View(0) = 48 + d
               /\ ReadUpTo(input, l, digit_count, m) = r
               /\ ReadUpTo(input, l, digit_count, m - 1) = 10 * r + d
  <2>1. View(0) = At(input, e - m)
    BY <1>3 DEF View
  <2>2. CASE m = 1
    <3>1. At(input, e - 1) = 48 + x
      BY <1>2 DEF OctetIs
    <3>2. /\ View(0) = 48 + x /\ ReadUpTo(input, l, digit_count, m) = 10 * z + y
          /\ ReadUpTo(input, l, digit_count, m - 1) = 10 * (10 * z + y) + x
      BY <1>4, <2>1, <2>2, <3>1
    <3>3. 10 * z + y \in 0..99
      OBVIOUS
    <3> QED BY <3>2, <3>3
  <2>3. CASE m = 2
    <3>1. At(input, e - 2) = 48 + y
      BY <1>2, <1>3, <2>3 DEF OctetIs
    <3>2. /\ View(0) = 48 + y /\ ReadUpTo(input, l, digit_count, m) = z
          /\ ReadUpTo(input, l, digit_count, m - 1) = 10 * z + y
      BY <1>4, <2>1, <2>3, <3>1
    <3>3. z \in 0..99
      OBVIOUS
    <3> QED BY <3>2, <3>3
  <2>4. CASE m = 3
    <3>1. w = 3
      BY <1>3, <2>4
    <3>2. At(input, e - 3) = 48 + z
      BY <1>2, <3>1, Zenon DEF OctetIs
    <3>3. /\ View(0) = 48 + z /\ ReadUpTo(input, l, digit_count, m) = 0
          /\ ReadUpTo(input, l, digit_count, m - 1) = 10 * 0 + z
      BY <1>4, <2>1, <2>4, <3>2
    <3>4. 0 \in 0..99
      OBVIOUS
    <3> QED BY <3>3, <3>4
  <2> QED BY <1>3, <1>7, <2>2, <2>3, <2>4
<1>8. ASSUME m > 0
      PROVE  /\ MoreDigits
             /\ NextSegment = <<0, ReadUpTo(input, l, digit_count, m - 1)>>
             /\ ~Overflows(NextSegment)
  <2>1. PICK r \in 0..99, d \in 0..9 :
          /\ View(0) = 48 + d
          /\ ReadUpTo(input, l, digit_count, m) = r
          /\ ReadUpTo(input, l, digit_count, m - 1) = 10 * r + d
    BY <1>7, <1>8
  <2>2. IsDigit(View(0)) /\ HexToBinary(View(0)) = d
    BY <2>1 DEF IsDigit, HexToBinary
  <2>3. MoreDigits
    BY <1>1, <1>3, <1>8, <2>2 DEF MoreDigits, IsHexDigit, ViewEmpty
  <2>4. NextSegment = TimesPlus(<<0, r>>, 10, d)
    BY <1>1, <2>1, <2>2 DEF NextSegment
  <2> QED BY <2>1, <2>3, <2>4, SmallDigit
<1>9. m = 0 \/ m > 0
  BY <1>3
<1> QED BY <1>6, <1>8, <1>9

\* After an octet: the end of the text after the fourth, a dot after the others.
LEMMA AfterOctetOfQuad ==
  ASSUME AdaInv, NEW l \in Layouts, IsQuadOf(input, l), ReadsQuad(l), pc = "after"
  PROVE  /\ digit_count \in 0..3
         /\ ViewEmpty <=> digit_count = 3
         /\ digit_count = 3 =>
              /\ LastFits
              /\ Len(LastBytes(segment_result, 4 - digit_count)) = 1
              /\ LastBytes(segment_result, 4 - digit_count)[1] = OctetOf(input, l, 3)
         /\ digit_count < 3 =>
              /\ MiddleFits /\ Low(segment_result) = OctetOf(input, l, digit_count)
              /\ first + 1 = EndOf(l, digit_count + 1) - l[digit_count + 1]
<1>1. /\ digit_count \in 0..3 /\ input \in Texts /\ last = Len(input)
      /\ segment_result = <<0, OctetOf(input, l, digit_count)>>
      /\ first = EndOf(l, digit_count)
  BY DEF AdaInv, AdaTypeOK, ReadsQuad
<1>2. PICK e \in 1..15, w \in 1..3, x \in 0..9, y \in 0..9, z \in 0..9 :
        OctetIs(l, digit_count, e, w, x, y, z)
  BY <1>1, QuadOctet
<1>3. PICK o \in 0..255 : o = OctetOf(input, l, digit_count)
  <2>1. /\ OctetOf(input, l, digit_count) = 100 * z + 10 * y + x
        /\ 100 * z + 10 * y + x <= 255
    BY <1>2, Zenon DEF OctetIs
  <2>2. 100 * z + 10 * y + x \in 0..255
    BY <2>1
  <2> QED BY <2>1, <2>2, Zenon
<1>4. segment_result = <<0, o>> /\ first = e
  <2>1. e = EndOf(l, digit_count)
    BY <1>2 DEF OctetIs
  <2> QED BY <1>1, <1>3, <2>1
<1>5. digit_count = 3 => e = Len(input)
  BY <1>2, Zenon DEF OctetIs
<1>6. digit_count < 3 => /\ e < Len(input) /\ At(input, e) = Dot
                         /\ EndOf(l, digit_count + 1) - l[digit_count + 1] = e + 1
  BY <1>2, Zenon DEF OctetIs
<1>7. ViewEmpty <=> digit_count = 3
  BY <1>1, <1>4, <1>5, <1>6 DEF ViewEmpty
<1>8. ASSUME digit_count = 3
      PROVE  /\ LastFits
             /\ Len(LastBytes(segment_result, 4 - digit_count)) = 1
             /\ LastBytes(segment_result, 4 - digit_count)[1] = o
  <2>1. 4 - digit_count = 1 /\ 5 - 1 = 4
    BY <1>8
  <2>2. FitsBytes(segment_result, 1)
    BY <1>4 DEF FitsBytes, High, Low
  <2>3. BytesOf(segment_result) = <<0, 0, 0, o>>
    <3>1. 0 \div 256 = 0 /\ 0 % 256 = 0 /\ o \div 256 = 0 /\ o % 256 = o
      OBVIOUS
    <3> QED BY <1>4, <3>1 DEF BytesOf, High, Low
  <2>4. LET s == SubSeq(<<0, 0, 0, o>>, 4, 4) IN Len(s) = 1 /\ s[1] = o
    <3> DEFINE q == <<0, 0, 0, o>>
    <3>1. q[4] = o
      OBVIOUS
    <3> HIDE DEF q
    <3>2. \A i \in 4..4 : q[i] \in Nat
      BY <3>1
    <3>3. /\ Len(SubSeq(q, 4, 4)) = IF 4 <= 4 THEN 4 - 4 + 1 ELSE 0
          /\ \A i \in 1..(4 - 4 + 1) : SubSeq(q, 4, 4)[i] = q[4 + i - 1]
      BY <3>2, SubSeqProperties
    <3>4. Len(SubSeq(q, 4, 4)) = 1 /\ SubSeq(q, 4, 4)[1] = o
      BY <3>1, <3>3
    <3> QED BY <3>4 DEF q
  <2> QED BY <2>1, <2>2, <2>3, <2>4 DEF LastFits, LastBytes
<1>9. ASSUME digit_count < 3
      PROVE  /\ MiddleFits /\ Low(segment_result) = o
             /\ first + 1 = EndOf(l, digit_count + 1) - l[digit_count + 1]
  <2>1. View(0) = Dot
    BY <1>4, <1>6, <1>9 DEF View
  <2>2. FitsBytes(segment_result, 1) /\ Low(segment_result) = o
    BY <1>4 DEF FitsBytes, High, Low
  <2> QED BY <1>4, <1>6, <1>9, <2>1, <2>2 DEF MiddleFits
<1> QED BY <1>1, <1>3, <1>7, <1>8, <1>9

LEMMA InitReadsQuad ==
  ASSUME AdaInit, NEW l \in Layouts, IsQuadOf(input, l)
  PROVE  ReadsQuad(l)
BY DEF AdaInit, ReadsQuad

\* No step of a call with a quad rejects it.
LEMMA QuadIsNotRejected ==
  ASSUME AdaInv, NEW l \in Layouts, IsQuadOf(input, l), ReadsQuad(l)
  PROVE  ~RejectEmpty /\ ~RejectConversion /\ ~RejectSegment /\ ~RejectLoopEnd /\ ~LoopEnds
<1>1. ~RejectEmpty
  <2> SUFFICES ASSUME RejectEmpty PROVE FALSE
    OBVIOUS
  <2>1. first = 0 /\ last = Len(input) /\ first = last /\ input \in Texts
    BY DEF RejectEmpty, ViewEmpty, AdaInv, AdaTypeOK, LoopInv, ReadsQuad
  <2>2. 3 \in 0..3
    OBVIOUS
  <2>3. PICK e \in 1..15, w \in 1..3, x \in 0..9, y \in 0..9, z \in 0..9 :
          OctetIs(l, 3, e, w, x, y, z)
    BY <2>1, <2>2, QuadOctet
  <2>4. e = Len(input)
    BY <2>3, Zenon DEF OctetIs
  <2> QED BY <2>1, <2>4
<1>2. ~RejectConversion
  <2> SUFFICES ASSUME RejectConversion PROVE FALSE
    OBVIOUS
  <2>1. pc = "convert"
    BY DEF RejectConversion
  <2>2. PICK m \in 0..l[digit_count] :
          /\ first = EndOf(l, digit_count) - m
          /\ converted = IF m = l[digit_count] THEN 0 ELSE 1
          /\ segment_result = <<0, ReadUpTo(input, l, digit_count, m)>>
    BY <2>1 DEF ReadsQuad
  <2>3. /\ MoreDigits <=> m > 0
        /\ m > 0 => ~Overflows(NextSegment)
    BY <2>1, <2>2, ConversionOfQuad
  <2>4. digit_count \in 0..3
    BY <2>1 DEF ReadsQuad, AdaInv, AdaTypeOK
  <2>5. l[digit_count] \in 1..3
    BY <2>4, LayoutFacts
  <2>6. ~ (m > 0) => converted = 1
    BY <2>2, <2>5
  <2> QED BY <2>3, <2>6 DEF RejectConversion
<1>3. ~RejectSegment
  BY AfterOctetOfQuad DEF RejectSegment
<1>4. ~RejectLoopEnd
  <2> SUFFICES ASSUME RejectLoopEnd PROVE FALSE
    OBVIOUS
  <2>1. pc = "segment" /\ (digit_count = 4 \/ ViewEmpty)
    BY DEF RejectLoopEnd
  <2>2. digit_count < 4
    BY <2>1 DEF ReadsQuad
  <2>3. ~ViewEmpty
    BY <2>1, SegmentOfQuad
  <2> QED BY <2>1, <2>2, <2>3
<1>5. ~LoopEnds
  BY SegmentOfQuad DEF LoopEnds, FourSegments
<1> QED BY <1>1, <1>2, <1>3, <1>4, <1>5

\* Every step reads on in the quad.
LEMMA StepReadsQuad ==
  ASSUME AdaInv, AdaNext, NEW l \in Layouts, IsQuadOf(input, l), ReadsQuad(l)
  PROVE  ReadsQuad(l)'
<1> USE DEF view, address, conversion, caller
<1>1. last = Len(input) /\ input \in Texts
  BY DEF ReadsQuad, AdaInv, AdaTypeOK
<1>2. CASE Start
  <2>1. 3 \in 0..3
    OBVIOUS
  <2>2. PICK e \in 1..15, w \in 1..3, x \in 0..9, y \in 0..9, z \in 0..9 :
          OctetIs(l, 3, e, w, x, y, z)
    BY <1>1, <2>1, QuadOctet
  <2>3. e = last /\ At(input, e - 1) = 48 + x
    BY <1>1, <2>2, Zenon DEF OctetIs
  <2>4. At(input, last - 1) # Dot
    BY <2>3 DEF Dot
  <2>5. last' = last /\ first = 0 /\ digit_count = 0
    BY <1>2, <2>4 DEF Start, AdaInv, LoopInv
  <2>6. EndOf(l, 0) - l[0] = 0
    BY LayoutFacts
  <2> QED BY <1>1, <1>2, <2>5, <2>6 DEF Start, ReadsQuad, AdaInv, AdaTypeOK
<1>3. CASE BareHex
  BY <1>3, SegmentOfQuad DEF BareHex, ReadSegment, IsBareHex
<1>4. CASE StartConversion
  <2>1. pc = "segment" /\ ~HasHexPrefix /\ ~IsOctal
    BY <1>4, SegmentOfQuad DEF StartConversion, ReadSegment
  <2>2. /\ radix' = 10 /\ first' = first /\ segment_result' = <<0, 0>> /\ converted' = 0
        /\ pc' = "convert" /\ UNCHANGED <<last, digit_count, ipv4, input, result, out>>
    BY <1>4, <2>1 DEF StartConversion, ZeroWord32
  <2>3. digit_count \in 0..3 /\ first = EndOf(l, digit_count) - l[digit_count]
    BY <2>1 DEF ReadsQuad, AdaInv, AdaTypeOK
  <2>4. PICK e \in 1..15, w \in 1..3, x \in 0..9, y \in 0..9, z \in 0..9 :
          OctetIs(l, digit_count, e, w, x, y, z)
    BY <1>1, <2>3, QuadOctet
  <2>5. ReadUpTo(input, l, digit_count, w) = 0
    BY <2>4 DEF ReadUpTo, OctetIs
  <2>6. w = l[digit_count] /\ w \in 0..w
    <3>1. w = l[digit_count]
      BY <2>4, Zenon DEF OctetIs
    <3>2. w \in 0..w
      OBVIOUS
    <3> QED BY <3>1, <3>2
  <2>7. \E m \in 0..l[digit_count] :
          /\ first = EndOf(l, digit_count) - m
          /\ 0 = IF m = l[digit_count] THEN 0 ELSE 1
          /\ <<0, 0>> = <<0, ReadUpTo(input, l, digit_count, m)>>
    BY <2>3, <2>5, <2>6
  <2> QED BY <2>1, <2>2, <2>7 DEF ReadsQuad
<1>5. CASE ConvertDigit
  <2>1. /\ pc = "convert" /\ MoreDigits /\ segment_result' = NextSegment /\ converted' = 1
        /\ first' = first + 1 /\ UNCHANGED <<last, digit_count, ipv4, radix, pc, input, result, out>>
    BY <1>5 DEF ConvertDigit
  <2>2. PICK m \in 0..l[digit_count] :
          /\ first = EndOf(l, digit_count) - m
          /\ segment_result = <<0, ReadUpTo(input, l, digit_count, m)>>
    BY <2>1 DEF ReadsQuad
  <2>3. m > 0 /\ NextSegment = <<0, ReadUpTo(input, l, digit_count, m - 1)>>
    BY <2>1, <2>2, ConversionOfQuad
  <2>4. digit_count \in 0..3
    BY <2>1 DEF ReadsQuad, AdaInv, AdaTypeOK
  <2>5. PICK e \in 1..15, w \in 1..3 : e = EndOf(l, digit_count) /\ w = l[digit_count]
    BY <2>4, LayoutFacts
  <2>6. m - 1 \in 0..w /\ m - 1 # w /\ e - m + 1 = e - (m - 1)
    BY <2>3, <2>5
  <2>7. \E n \in 0..l[digit_count] :
          /\ first' = EndOf(l, digit_count) - n
          /\ converted' = IF n = l[digit_count] THEN 0 ELSE 1
          /\ segment_result' = <<0, ReadUpTo(input, l, digit_count, n)>>
    BY <2>1, <2>2, <2>3, <2>5, <2>6
  <2> QED BY <2>1, <2>7 DEF ReadsQuad
<1>6. CASE EndConversion
  <2>1. /\ pc = "convert" /\ ~MoreDigits /\ pc' = "after"
        /\ UNCHANGED <<first, last, digit_count, ipv4, segment_result, input, result, out>>
    BY <1>6 DEF EndConversion
  <2>2. PICK m \in 0..l[digit_count] :
          /\ first = EndOf(l, digit_count) - m
          /\ segment_result = <<0, ReadUpTo(input, l, digit_count, m)>>
    BY <2>1 DEF ReadsQuad
  <2>3. ~ (m > 0)
    BY <2>1, <2>2, ConversionOfQuad
  <2>4. digit_count \in 0..3
    BY <2>1 DEF ReadsQuad, AdaInv, AdaTypeOK
  <2>5. PICK e \in 1..15, w \in 1..3 : e = EndOf(l, digit_count) /\ w = l[digit_count]
    BY <2>4, LayoutFacts
  <2>6. m = 0
    BY <2>3, <2>5
  <2>7. first = EndOf(l, digit_count) /\ segment_result = <<0, OctetOf(input, l, digit_count)>>
    BY <2>2, <2>5, <2>6 DEF ReadUpTo
  <2> QED BY <2>1, <2>7 DEF ReadsQuad
<1>7. CASE LastSegment
  <2>1. /\ pc = "after" /\ ViewEmpty /\ pc' = "final"
        /\ ipv4' = ipv4 \o LastBytes(segment_result, 4 - digit_count)
        /\ UNCHANGED <<last, input, result, out>>
    BY <1>7 DEF LastSegment
  <2> DEFINE s == LastBytes(segment_result, 4 - digit_count)
  <2>2. digit_count = 3 /\ Len(s) = 1 /\ s[1] = OctetOf(input, l, 3)
    BY <2>1, AfterOctetOfQuad
  <2>3. s \in Seq(Byte)
    <3>1. 4 - digit_count \in 1..4 /\ segment_result \in Word \X Word
      BY <2>2 DEF AdaInv, AdaTypeOK
    <3> QED BY <3>1, LastBytesFill
  <2>4. /\ ipv4 \in Seq(Byte) /\ Len(ipv4) = 3
        /\ \A j \in 0..3 : j < 3 => ipv4[j + 1] = OctetOf(input, l, j)
    BY <2>1, <2>2 DEF ReadsQuad, AdaInv, AdaTypeOK, AccumulatorIsFilled
  <2> HIDE DEF s
  <2>5. \A i \in 1..4 : ipv4'[i] = IF i <= 3 THEN ipv4[i] ELSE s[i - 3]
    <3>1. \A i \in 1..(Len(ipv4) + Len(s)) :
            (ipv4 \o s)[i] = IF i <= Len(ipv4) THEN ipv4[i] ELSE s[i - Len(ipv4)]
      BY <2>3, <2>4, ConcatProperties
    <3>2. Len(ipv4) = 3 /\ Len(ipv4) + Len(s) = 4
      BY <2>2, <2>4
    <3>3. ipv4' = ipv4 \o s
      BY <2>1 DEF s
    <3> QED BY <3>1, <3>2, <3>3
  <2>6. \A j \in 0..3 : ipv4'[j + 1] = OctetOf(input, l, j)
    <3> TAKE j \in 0..3
    <3>1. j = 3 \/ j < 3
      OBVIOUS
    <3>2. j + 1 \in 1..4 /\ (j < 3 => j + 1 <= 3)
      OBVIOUS
    <3>3. ipv4'[j + 1] = IF j + 1 <= 3 THEN ipv4[j + 1] ELSE s[j + 1 - 3]
      BY <2>5, <3>2
    <3> QED BY <2>2, <2>4, <3>1, <3>2, <3>3
  <2> QED BY <2>1, <2>6 DEF ReadsQuad
<1>8. CASE MiddleSegment
  <2>1. /\ pc = "after" /\ ~ViewEmpty /\ pc' = "segment"
        /\ ipv4' = Append(ipv4, Low(segment_result))
        /\ digit_count' = digit_count + 1 /\ first' = first + 1
        /\ UNCHANGED <<last, input, result, out>>
    BY <1>8 DEF MiddleSegment
  <2>2. /\ digit_count \in 0..3 /\ digit_count # 3
        /\ digit_count < 3 =>
             /\ Low(segment_result) = OctetOf(input, l, digit_count)
             /\ first + 1 = EndOf(l, digit_count + 1) - l[digit_count + 1]
    BY <2>1, AfterOctetOfQuad
  <2>3. PICK k \in 0..2 : k = digit_count
    BY <2>2
  <2>4. /\ Len(ipv4) = k /\ ipv4 \in Seq(Byte)
        /\ \A j \in 0..3 : j < k => ipv4[j + 1] = OctetOf(input, l, j)
    BY <2>1, <2>3 DEF ReadsQuad, AdaInv, AdaTypeOK, AccumulatorIsFilled
  <2>5. /\ ipv4'[k + 1] = OctetOf(input, l, k)
        /\ \A i \in 1..k : ipv4'[i] = ipv4[i]
    BY <2>1, <2>2, <2>3, <2>4
  <2>6. \A j \in 0..3 : j < k + 1 => ipv4'[j + 1] = OctetOf(input, l, j)
    <3> TAKE j \in 0..3
    <3>1. j = k \/ j > k \/ (j < k /\ j + 1 \in 1..k)
      OBVIOUS
    <3> QED BY <2>4, <2>5, <3>1
  <2>7. digit_count' = k + 1 /\ k + 1 < 4 /\ first' = EndOf(l, k + 1) - l[k + 1]
    BY <2>1, <2>2, <2>3
  <2> QED BY <2>1, <2>6, <2>7 DEF ReadsQuad
<1>9. CASE Output
  <2>1. /\ pc = "final" /\ out' = [i \in 0..3 |-> ipv4[i + 1]] /\ result' = "accepted"
        /\ pc' = "returned" /\ UNCHANGED <<last, input>>
    BY <1>9 DEF Output
  <2>2. out' = OctetsOf(input, l)
    BY <2>1 DEF ReadsQuad, OctetsOf
  <2> QED BY <2>1, <2>2 DEF ReadsQuad
<1> QED BY <1>2, <1>3, <1>4, <1>5, <1>6, <1>7, <1>8, <1>9, QuadIsNotRejected DEF AdaNext

ReadsQuads == \A l \in Layouts : IsQuadOf(input, l) => ReadsQuad(l)

\* What parse_ipv4_ada makes of a strict dotted quad.
AcceptsQuads ==
  \A quad \in QuadsOf(input) :
    result # "rejected" /\ (result = "accepted" => out = quad)

LEMMA AlwaysReadsQuads == AdaSpec => [](AdaInv /\ ReadsQuads)
<1>1. AdaInit => ReadsQuads
  BY InitReadsQuad DEF ReadsQuads
<1>2. AdaInv /\ ReadsQuads /\ [AdaNext]_adaVars => ReadsQuads'
  <2> SUFFICES ASSUME AdaInv, ReadsQuads, [AdaNext]_adaVars PROVE ReadsQuads'
    OBVIOUS
  <2>1. CASE AdaNext
    <3>1. input' = input
      BY <2>1 DEF AdaNext, RejectEmpty, Start, BareHex, StartConversion, ConvertDigit,
         RejectConversion, EndConversion, LastSegment, MiddleSegment, RejectSegment,
         LoopEnds, RejectLoopEnd, Output, Reject, caller
    <3>2. ASSUME NEW l \in Layouts, IsQuadOf(input, l) PROVE ReadsQuad(l)'
      BY <2>1, <3>2, StepReadsQuad DEF ReadsQuads
    <3> QED BY <3>1, <3>2 DEF ReadsQuads
  <2>2. CASE UNCHANGED adaVars
    BY <2>2 DEF adaVars, view, address, conversion, caller, ReadsQuads, ReadsQuad
  <2> QED BY <2>1, <2>2
<1> QED BY <1>1, <1>2, AlwaysAdaInv, PTL DEF AdaSpec

\* parse_ipv4_ada accepts every strict dotted quad and stores its octets (43-98):
\* no octet looks like a number in another base, and the view shrinks to nothing
\* with the fourth.
THEOREM QuadsAreRead == AdaSpec => []AcceptsQuads
<1>1. ReadsQuads => AcceptsQuads
  BY DEF ReadsQuads, ReadsQuad, AcceptsQuads, QuadsOf
<1> QED BY <1>1, AlwaysReadsQuads, PTL

QuadReference == INSTANCE Parser WITH Meaning <- QuadsOf

\* In every call with a strict dotted quad parse_ipv4_ada keeps the contract of
\* Parser with the address of the quad: it answers once, and what it stores
\* are the four octets.  So the fallback of the AVX-512 parsers agrees with their
\* lanes on the texts that these take.
THEOREM QuadImplementation ==
  AdaSpec /\ QuadsOf(input) # {} => QuadReference!Spec
<1>1. AdaInit => QuadReference!Init
  BY DEF AdaInit, QuadReference!Init
<1>2. ASSUME AdaInv, ReadsQuads, QuadsOf(input) # {}, [AdaNext]_adaVars
      PROVE  /\ [QuadReference!Next]_(QuadReference!parserVars)
             /\ (QuadsOf(input) # {})'
  <2>1. PICK l \in Layouts : IsQuadOf(input, l)
    BY <1>2 DEF QuadsOf
  <2>2. ReadsQuad(l) /\ OctetsOf(input, l) \in QuadsOf(input)
    BY <1>2, <2>1 DEF ReadsQuads, QuadsOf
  <2>3. CASE Output
    <3>1. /\ result = "pending" /\ result' = "accepted" /\ input' = input
          /\ pc' = "returned"
      BY <2>2, <2>3 DEF Output, ReadsQuad
    <3>2. ReadsQuad(l)'
      BY <1>2, <2>1, <2>2, <2>3, StepReadsQuad DEF AdaNext
    <3>3. out' \in QuadsOf(input)
      BY <2>2, <3>1, <3>2 DEF ReadsQuad
    <3> QED BY <1>2, <3>1, <3>3 DEF QuadReference!Next, QuadReference!Accept
  <2>4. CASE AdaNext /\ ~Output
    <3>1. UNCHANGED <<input, result, out>>
      BY <1>2, <2>1, <2>2, <2>4, QuadIsNotRejected
         DEF AdaNext, Start, BareHex, StartConversion, ConvertDigit, EndConversion,
             LastSegment, MiddleSegment, caller
    <3> QED BY <1>2, <3>1 DEF QuadReference!parserVars
  <2>5. CASE UNCHANGED adaVars
    BY <1>2, <2>5 DEF adaVars, caller, QuadReference!parserVars
  <2> QED BY <1>2, <2>3, <2>4, <2>5
<1> QED BY <1>1, <1>2, AlwaysReadsQuads, PTL DEF AdaSpec, QuadReference!Spec
=============================================================================
