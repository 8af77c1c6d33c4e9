--------------------------- MODULE ParseIPProofs ---------------------------
(***************************************************************************)
(* What holds of parse_ip for every text, both byte orders, and any two    *)
(* parsers that keep the contract of Parser.                               *)
(***************************************************************************)
EXTENDS ParseIP, TLAPS

----------------------------------------------------------------------------
(* The bytes of w.                                                         *)

\* Flipping a bit of a byte gives a byte, and gives n only when it is flipped
\* back in n.
LEMMA FlipByte ==
  ASSUME NEW b \in Byte, NEW k \in {2, 8, 16, 32}
  PROVE  Flip(b, k) \in Byte
  <1>1. CASE k = 2 BY <1>1, SMT DEF Flip, Byte
  <1>2. CASE k = 8 BY <1>2, SMT DEF Flip, Byte
  <1>3. CASE k = 16 BY <1>3, SMT DEF Flip, Byte
  <1>4. CASE k = 32 BY <1>4, SMT DEF Flip, Byte
  <1> QED BY <1>1, <1>2, <1>3, <1>4

\* b ^ ':' is a byte, and it is zero exactly when b is ':' (109).
LEMMA XorColonIsZero ==
  ASSUME NEW b \in Byte
  PROVE  XorColon(b) \in Byte /\ (XorColon(b) = 0 <=> b = Colon)
  <1> DEFINE b1 == Flip(b, 32)
             b2 == Flip(b1, 16)
             b3 == Flip(b2, 8)
  <1>1. b1 \in Byte /\ (b1 = 26 <=> b = 58)
    BY FlipByte, SMT DEF Flip, Byte
  <1> HIDE DEF b1
  <1>2. b2 \in Byte /\ (b2 = 10 <=> b1 = 26)
    BY <1>1, FlipByte, SMT DEF Flip, Byte
  <1> HIDE DEF b2
  <1>3. b3 \in Byte /\ (b3 = 2 <=> b2 = 10)
    BY <1>2, FlipByte, SMT DEF Flip, Byte
  <1> HIDE DEF b3
  <1>4. Flip(b3, 2) \in Byte /\ (Flip(b3, 2) = 0 <=> b3 = 2)
    BY <1>3, FlipByte, SMT DEF Flip, Byte
  <1>5. XorColon(b) = Flip(b3, 2)
    BY DEF XorColon, b1, b2, b3
  <1> QED BY <1>1, <1>2, <1>3, <1>4, <1>5 DEF Colon

----------------------------------------------------------------------------
(* The inductive invariant of the probe: a borrow leaves a lane only above *)
(* a zero lane, which is a hit already, so hit says whether one of the     *)
(* lanes done held a colon.                                                *)

IsColonLane(k) == ByteAt(LaneIndex(k)) = Colon

ProbeInv ==
  /\ borrow = 1 => hit
  /\ hit <=> \E k \in 0..(lane - 1) : IsColonLane(k)
  /\ pc \in {"v4", "v6"} => lane = 8 /\ (pc = "v6" <=> hit)

\* What the parser that was called has answered, and what the caller returns.
CallInv ==
  /\ pc # "returned" => answer = "pending"
  /\ pc \in {"entry", "probe"} => called = "pending"
  /\ pc = "entry" => lane = 0
  /\ pc = "v6" /\ called = "accepted" => value \in V6Meaning(input)
  /\ pc = "v6" /\ called = "rejected" => V6Meaning(input) = {}
  /\ pc = "v4" /\ called = "accepted" => value \in V4Meaning(input)
  /\ pc = "v4" /\ called = "rejected" => V4Meaning(input) = {}

IInv == TypeOK /\ ProbeInv /\ CallInv

LEMMA BytesOfWord ==
  ASSUME TypeOK, NEW k \in Nat
  PROVE  ByteAt(LaneIndex(k)) \in Byte
  <1>1. input \in Seq(Byte) BY TextsAssumption DEF TypeOK
  <1>2. Len(input) \in Nat /\ \A i \in 1..Len(input) : input[i] \in Byte
    BY <1>1
  <1>3. LaneIndex(k) \in Int BY DEF LaneIndex, TypeOK
  <1>4. 0 \in Byte BY DEF Byte
  <1>5. CASE LaneIndex(k) \in 0..(Loaded - 1)
    <2>1. LaneIndex(k) + 1 \in 1..Len(input)
      BY <1>2, <1>5 DEF Loaded
    <2> QED BY <1>2, <1>5, <2>1 DEF ByteAt, At
  <1>6. CASE LaneIndex(k) \notin 0..(Loaded - 1)
    BY <1>4, <1>6 DEF ByteAt
  <1> QED BY <1>5, <1>6

\* The eight lanes hold the first five bytes and zeros.
LEMMA LanesCoverWindow ==
  ASSUME TypeOK
  PROVE  (\E k \in 0..7 : IsColonLane(k)) <=> ColonInFive(input)
  <1>1. Len(input) \in Nat BY TextsAssumption DEF TypeOK
  <1>2. \A i \in 0..7 : ByteAt(i) = Colon <=> i < 5 /\ i < Len(input) /\ At(input, i) = Colon
    BY <1>1 DEF ByteAt, Loaded, Colon
  <1>3. \A k \in 0..7 : LaneIndex(k) \in 0..7 /\ LaneIndex(LaneIndex(k)) = k
    BY DEF LaneIndex
  <1>4. (\E k \in 0..7 : IsColonLane(k)) <=> \E i \in 0..7 : ByteAt(i) = Colon
    BY <1>3 DEF IsColonLane
  <1>5. (\E i \in 0..7 : ByteAt(i) = Colon) <=> ColonInFive(input)
    BY <1>2 DEF ColonInFive
  <1> QED BY <1>4, <1>5

\* A text that is not empty gives the word one to five of its bytes (107).
LEMMA AtMostFive ==
  ASSUME NEW n \in Nat, n # 0
  PROVE  /\ (IF n < 5 THEN n ELSE 5) \in 1..8
         /\ (IF n < 5 THEN n ELSE 5) <= n
OBVIOUS

LEMMA LoadStaysInside ==
  ASSUME Len(input) \in Nat \ {0}
  PROVE  Loaded \in 1..8 /\ Loaded <= Len(input)
BY AtMostFive DEF Loaded

----------------------------------------------------------------------------
LEMMA InitIInv == Init => IInv
  <1> SUFFICES ASSUME Init PROVE IInv OBVIOUS
  <1>1. ZeroV4 \in V4Values BY DEF ZeroV4, V4Values, Byte
  <1>2. TypeOK
    <2>1. hit \in BOOLEAN
      BY Zenon DEF Init
    <2>2. lane \in 0..8 /\ borrow \in 0..1 /\ pc # "v4" /\ pc # "v6"
      BY SMT DEF Init
    <2> QED BY <1>1, <2>1, <2>2, Zenon DEF Init, TypeOK
  <1>3. ProbeInv BY DEF Init, ProbeInv
  <1>4. CallInv BY DEF Init, CallInv
  <1> QED BY <1>2, <1>3, <1>4 DEF IInv

\* One lane of the subtraction keeps the invariant.
LEMMA ProbeLaneKeeps ==
  ASSUME IInv, ProbeLane
  PROVE  IInv'
  <1> USE DEF IInv
  <1> DEFINE x == LaneByte
  <1>1. lane \in 0..7 /\ borrow \in 0..1 /\ pc = "probe"
    BY DEF TypeOK, ProbeLane, LanesLeft
  <1>2. x \in Byte /\ (x = 0 <=> IsColonLane(lane))
    BY <1>1, BytesOfWord, XorColonIsZero DEF LaneByte, IsColonLane
  <1>3. x \in Nat /\ x < 256
    BY <1>2 DEF Byte
  <1>4. LaneHit <=> LaneResult >= 128 /\ x < 128
    BY DEF LaneHit
  <1>5. LaneResult = (IF x - 1 - borrow < 0 THEN x - 1 - borrow + 256 ELSE x - 1 - borrow)
    BY DEF LaneResult, Borrows, Difference
  <1>6. Borrows <=> x - 1 - borrow < 0
    BY DEF Borrows, Difference
  <1> HIDE DEF x
  <1>7. x = 0 => LaneHit
    BY <1>1, <1>3, <1>4, <1>5
  <1>8. LaneHit => x = 0 \/ borrow = 1
    BY <1>1, <1>3, <1>4, <1>5
  <1>9. Borrows => x = 0 \/ borrow = 1
    BY <1>1, <1>3, <1>6
  <1>10. hit' <=> (hit \/ IsColonLane(lane))
    BY <1>2, <1>7, <1>8 DEF ProbeLane, ProbeInv
  <1>11. \A k : IsColonLane(k)' <=> IsColonLane(k)
    BY DEF ProbeLane, IsColonLane, ByteAt, Loaded, LaneIndex, At
  <1>12. lane' = lane + 1 /\ pc' = pc
    BY DEF ProbeLane
  <1>13. (\E k \in 0..(lane' - 1) : IsColonLane(k)')
           <=> (\E k \in 0..(lane - 1) : IsColonLane(k)) \/ IsColonLane(lane)
    <2>1. \A k : k \in 0..(lane' - 1) <=> k \in 0..(lane - 1) \/ k = lane
      BY <1>1, <1>12
    <2> QED BY <2>1, <1>11
  <1>14. ProbeInv'
    <2>1. (borrow = 1 => hit)'
      BY <1>1, <1>2, <1>9, <1>10 DEF ProbeLane, ProbeInv
    <2>2. (hit <=> \E k \in 0..(lane - 1) : IsColonLane(k))'
      BY <1>10, <1>13 DEF ProbeInv
    <2> QED BY <2>1, <2>2, <1>1, <1>12 DEF ProbeInv
  <1>15. TypeOK'
    <2>1. hit' \in BOOLEAN BY <1>1 DEF ProbeLane, TypeOK, LaneHit
    <2>2. Loaded' = Loaded /\ Len(input') = Len(input)
      BY DEF ProbeLane, Loaded
    <2> QED BY <2>1, <2>2, <1>1 DEF ProbeLane, TypeOK
  <1>16. CallInv'
    BY <1>1 DEF ProbeLane, CallInv
  <1> QED BY <1>14, <1>15, <1>16

\* The probe's state, and what it says of the lanes, survive the other steps.
LEMMA OtherStepsKeepProbe ==
  ASSUME IInv, UNCHANGED <<littleEndian, input, probe>>,
         (pc' \in {"v4", "v6"} => lane = 8 /\ (pc' = "v6" <=> hit))
  PROVE  ProbeInv'
  <1>1. \A k : IsColonLane(k)' <=> IsColonLane(k)
    BY DEF IsColonLane, ByteAt, Loaded, LaneIndex, At
  <1> QED BY <1>1 DEF IInv, ProbeInv, probe

LEMMA NextIInv == IInv /\ [Next]_vars => IInv'
  <1> SUFFICES ASSUME IInv, [Next]_vars PROVE IInv' OBVIOUS
  <1> USE DEF IInv
  <1>1. CASE Empty
    <2>1. TypeOK' BY <1>1 DEF Empty, TypeOK, probe
    <2>2. ProbeInv' BY <1>1, OtherStepsKeepProbe DEF Empty
    <2>3. CallInv' BY <1>1 DEF Empty, CallInv
    <2> QED BY <2>1, <2>2, <2>3
  <1>2. CASE StartProbe
    <2>1. TypeOK'
      <3>1. Len(input) \in Nat \ {0} /\ Loaded' = Loaded /\ Len(input') = Len(input)
        BY <1>2, TextsAssumption DEF StartProbe, TypeOK, Loaded
      <3>2. Loaded \in 1..8 /\ Loaded <= Len(input)
        BY <3>1, LoadStaysInside
      <3> QED BY <1>2, <3>1, <3>2 DEF StartProbe, TypeOK, probe
    <2>2. ProbeInv' BY <1>2, OtherStepsKeepProbe DEF StartProbe
    <2>3. CallInv' BY <1>2 DEF StartProbe, CallInv
    <2> QED BY <2>1, <2>2, <2>3
  <1>3. CASE ProbeLane
    BY <1>3, ProbeLaneKeeps
  <1>4. CASE CallV6
    <2>1. ZeroV6 \in V6Values BY DEF ZeroV6, V6Values, Byte
    <2>2. lane = 8 BY <1>4 DEF CallV6, LanesLeft, TypeOK
    <2>3. TypeOK' BY <1>4, <2>1 DEF CallV6, TypeOK, probe
    <2>4. ProbeInv' BY <1>4, <2>2, OtherStepsKeepProbe DEF CallV6
    <2>5. CallInv' BY <1>4 DEF CallV6, CallInv
    <2> QED BY <2>3, <2>4, <2>5
  <1>5. CASE CallV4
    <2>1. ZeroV4 \in V4Values BY DEF ZeroV4, V4Values, Byte
    <2>2. lane = 8 BY <1>5 DEF CallV4, LanesLeft, TypeOK
    <2>3. TypeOK' BY <1>5, <2>1 DEF CallV4, TypeOK, probe
    <2>4. ProbeInv' BY <1>5, <2>2, OtherStepsKeepProbe DEF CallV4
    <2>5. CallInv' BY <1>5 DEF CallV4, CallInv
    <2> QED BY <2>3, <2>4, <2>5
  <1>6. CASE RunV6
    <2>1. /\ pc = "v6" /\ UNCHANGED <<littleEndian, pc, probe, answer, input>>
          /\ called = "pending"
          /\ \/ called' = "accepted" /\ value' \in V6Meaning(input)
             \/ called' = "rejected" /\ V6Meaning(input) = {} /\ value' = value
      BY <1>6 DEF RunV6, V6!Next, V6!Accept, V6!Refuse
    <2>2. TypeOK'
      BY <2>1, MeaningAssumption DEF TypeOK, probe, Loaded
    <2>3. ProbeInv' BY <2>1, OtherStepsKeepProbe DEF ProbeInv
    <2>4. CallInv' BY <2>1 DEF CallInv
    <2> QED BY <2>2, <2>3, <2>4
  <1>7. CASE RunV4
    <2>1. /\ pc = "v4" /\ UNCHANGED <<littleEndian, pc, probe, answer, input>>
          /\ called = "pending"
          /\ \/ called' = "accepted" /\ value' \in V4Meaning(input)
             \/ called' = "rejected" /\ V4Meaning(input) = {} /\ value' = value
      BY <1>7 DEF RunV4, V4!Next, V4!Accept, V4!Refuse
    <2>2. TypeOK'
      BY <2>1, MeaningAssumption DEF TypeOK, probe, Loaded
    <2>3. ProbeInv' BY <2>1, OtherStepsKeepProbe DEF ProbeInv
    <2>4. CallInv' BY <2>1 DEF CallInv
    <2> QED BY <2>2, <2>3, <2>4
  <1>8. CASE ReturnV6
    <2>1. TypeOK' BY <1>8 DEF ReturnV6, TypeOK, probe
    <2>2. ProbeInv' BY <1>8, OtherStepsKeepProbe DEF ReturnV6
    <2>3. CallInv' BY <1>8 DEF ReturnV6, CallInv
    <2> QED BY <2>1, <2>2, <2>3
  <1>9. CASE ReturnV4
    <2>1. TypeOK' BY <1>9 DEF ReturnV4, TypeOK, probe
    <2>2. ProbeInv' BY <1>9, OtherStepsKeepProbe DEF ReturnV4
    <2>3. CallInv' BY <1>9 DEF ReturnV4, CallInv
    <2> QED BY <2>1, <2>2, <2>3
  <1>10. CASE UNCHANGED vars
    <2>1. TypeOK' BY <1>10 DEF vars, TypeOK, probe, Loaded
    <2>2. ProbeInv' BY <1>10, OtherStepsKeepProbe DEF vars, ProbeInv
    <2>3. CallInv' BY <1>10 DEF vars, probe, CallInv
    <2> QED BY <2>1, <2>2, <2>3
  <1> QED BY <1>1, <1>2, <1>3, <1>4, <1>5, <1>6, <1>7, <1>8, <1>9, <1>10 DEF Next

LEMMA Invariance == Spec => []IInv
  BY InitIInv, NextIInv, PTL DEF Spec

----------------------------------------------------------------------------
\* The types of parse_ip's locals, that the probe loads at least one byte, only
\* bytes of the text, and no more than its word holds (107-108), and that the
\* parser that is called is given the local of its own family.
THEOREM TypeCorrect == Spec => []TypeOK
  <1>1. IInv => TypeOK BY DEF IInv
  <1> QED BY <1>1, Invariance, PTL

LEMMA ProbeDecides == IInv => ProbeExact
  <1> SUFFICES ASSUME IInv, pc \in {"v4", "v6"}
               PROVE  pc = "v6" <=> ColonInFive(input)
    BY DEF ProbeExact
  <1>1. hit <=> \E k \in 0..7 : IsColonLane(k)
    BY DEF IInv, ProbeInv
  <1> QED BY <1>1, LanesCoverWindow DEF IInv, ProbeInv

\* is_ipv6_form answers whether one of the first five bytes is a colon, for
\* every text and both byte orders (105-112).
THEOREM ProbeIsExact == Spec => []ProbeExact
  BY Invariance, ProbeDecides, PTL

----------------------------------------------------------------------------
(* parse_ip implements the parser of both families, when the two grammars  *)
(* keep apart as the header says (24-37).                                  *)

LEMMA EitherInit == Init => Either!Init
  BY DEF Init, Either!Init, EitherResult, EitherOut, Nothing

\* A step that leaves the answer pending is a stutter of the abstract parser.
LEMMA PendingStutters ==
  ASSUME answer = "pending", UNCHANGED <<input, answer>>
  PROVE  UNCHANGED Either!parserVars
  BY DEF Either!parserVars, EitherResult, EitherOut

LEMMA EitherNext ==
  ASSUME ColonDecides, IInv, [Next]_vars
  PROVE  [Either!Next]_(Either!parserVars)
  <1> USE DEF Either!Next
  <1>t. input \in Texts /\ Len(input) \in Nat
    BY TextsAssumption DEF IInv, TypeOK
  <1>1. CASE Empty
    <2>1. EitherMeaning(input) = {}
      BY <1>1, <1>t DEF Empty, ColonDecides, ColonInFive, EitherMeaning
    <2>2. answer = "pending" /\ answer' = "empty" /\ input' = input
      BY <1>1 DEF Empty, IInv, CallInv
    <2> QED BY <2>1, <2>2 DEF Either!Refuse, EitherResult, EitherOut
  <1>2. CASE StartProbe \/ ProbeLane \/ CallV6 \/ CallV4
    <2>1. answer = "pending" /\ UNCHANGED <<input, answer>>
      BY <1>2 DEF StartProbe, ProbeLane, CallV6, CallV4, IInv, CallInv
    <2> QED BY <2>1, PendingStutters
  <1>3. CASE RunV6 \/ RunV4
    <2>1. answer = "pending" /\ UNCHANGED <<input, answer>>
      BY <1>3 DEF RunV6, RunV4, V6!Next, V6!Accept, V6!Refuse,
                  V4!Next, V4!Accept, V4!Refuse, IInv, CallInv
    <2> QED BY <2>1, PendingStutters
  <1>4. CASE ReturnV6
    <2>1. /\ answer = "pending" /\ UNCHANGED <<input, value>> /\ pc = "v6"
          /\ called # "pending"
          /\ answer' = IF called = "accepted" THEN "ipv6" ELSE "invalid_ipv6"
      BY <1>4 DEF ReturnV6, IInv, CallInv
    <2>2. CASE called = "accepted"
      <3>1. value \in EitherMeaning(input)
        BY <2>1, <2>2 DEF IInv, CallInv, EitherMeaning
      <3> QED BY <2>1, <2>2, <3>1 DEF Either!Accept, EitherResult, EitherOut
    <2>3. CASE called = "rejected"
      <3>1. ColonInFive(input)
        BY <2>1, ProbeDecides DEF ProbeExact
      <3>2. EitherMeaning(input) = {}
        BY <1>t, <2>1, <2>3, <3>1 DEF IInv, CallInv, ColonDecides, EitherMeaning
      <3> QED BY <2>1, <2>3, <3>2 DEF Either!Refuse, EitherResult, EitherOut
    <2> QED BY <2>1, <2>2, <2>3 DEF IInv, TypeOK
  <1>5. CASE ReturnV4
    <2>1. /\ answer = "pending" /\ UNCHANGED <<input, value>> /\ pc = "v4"
          /\ called # "pending"
          /\ answer' = IF called = "accepted" THEN "ipv4" ELSE "invalid_ipv4"
      BY <1>5 DEF ReturnV4, IInv, CallInv
    <2>2. CASE called = "accepted"
      <3>1. value \in EitherMeaning(input)
        BY <2>1, <2>2 DEF IInv, CallInv, EitherMeaning
      <3> QED BY <2>1, <2>2, <3>1 DEF Either!Accept, EitherResult, EitherOut
    <2>3. CASE called = "rejected"
      <3>1. ~ColonInFive(input)
        BY <2>1, ProbeDecides DEF ProbeExact
      <3>2. EitherMeaning(input) = {}
        BY <1>t, <2>1, <2>3, <3>1 DEF IInv, CallInv, ColonDecides, EitherMeaning
      <3> QED BY <2>1, <2>3, <3>2 DEF Either!Refuse, EitherResult, EitherOut
    <2> QED BY <2>1, <2>2, <2>3 DEF IInv, TypeOK
  <1>6. CASE UNCHANGED vars
    BY <1>6 DEF vars, Either!parserVars, EitherResult, EitherOut
  <1> QED BY <1>1, <1>2, <1>3, <1>4, <1>5, <1>6 DEF Next

\* No address of either family is lost by the probe in front of the parsers, and
\* none is added: for any two parsers whose texts the probe tells apart,
\* parse_ip is the parser of both families.
THEOREM Implementation ==
  ASSUME ColonDecides
  PROVE  Spec => ImplementsEitherParser
  <1>1. IInv /\ [Next]_vars => [Either!Next]_(Either!parserVars)
    BY EitherNext
  <1> QED BY <1>1, EitherInit, Invariance, PTL
          DEF Spec, ImplementsEitherParser, Either!Spec

=============================================================================
