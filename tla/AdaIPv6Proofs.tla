--------------------------- MODULE AdaIPv6Proofs ---------------------------
(***************************************************************************)
(* Theorems about parse_ipv6_ada for texts of every length and content:    *)
(* its accesses stay in bounds, its narrowing conversions are exact, the   *)
(* slots it has not reached hold zero, its pieces start at boundaries, and *)
(* every step makes progress; and on the texts without a dot, or without a *)
(* colon, it accepts the addresses of groups and stores them.              *)
(***************************************************************************)
EXTENDS AdaIPv6, TextProofs

\* What is true before the text is read.
EntryInv ==
  pc = "entry" => pointer = 0 /\ piece_index = 0 /\ compress = -1

\* The digits of the current hextet lie behind the pointer, and value is
\* below 16^length.
HextetInv ==
  pc = "hex" =>
    /\ length <= pointer
    /\ length = 0 => ~AtEnd /\ value = 0
    /\ length = 1 => value <= 15
    /\ length = 2 => value <= 255
    /\ length = 3 => value <= 4095

\* A quad begins in slot 6 at the latest, fills one slot with every second
\* octet, and never outruns the eight slots.
SlotInv ==
  /\ pc = "hex" => piece_index <= 7
  /\ pc = "number" => /\ numbers_seen < 2 => piece_index <= 6
                      /\ numbers_seen < 4 => piece_index <= 7
  /\ pc = "digit" => /\ numbers_seen < 4
                     /\ numbers_seen < 2 => piece_index <= 6
                     /\ numbers_seen < 4 => piece_index <= 7
  /\ HalfFilled => address[piece_index] <= 255

\* An octet in progress has a digit, read or about to be read.
OctetInv == pc = "digit" /\ ipv4_piece = -1 => CurrentIsDigit

\* The pieces still to move lie between "::" and the end.
SwapInv ==
  pc = "swap" => /\ piece_index <= 7
                 /\ compress >= 1
                 /\ compress + swaps <= 8

IInv ==
  /\ TypeOK
  /\ EntryInv
  /\ HextetInv
  /\ SlotInv
  /\ OctetInv
  /\ SwapInv
  /\ UnreachedSlotsAreZero
  /\ PiecesStartAtBoundaries

----------------------------------------------------------------------------
\* A uint16_t conversion yields a 16-bit value, the same one where it fits.
LEMMA Uint16Facts ==
  ASSUME NEW n \in Nat
  PROVE  Uint16(n) \in Word /\ (n <= 65535 => Uint16(n) = n)
BY DEF Uint16, Word

\* Before the fourth digit a hextet is below 16^3, so a digit more fits.
LEMMA ShortHextet ==
  ASSUME TypeOK, HextetInv, pc = "hex", length < 4
  PROVE  length \in 0..3 /\ value \in Nat /\ value <= 4095
<1>1. length \in 0..3 /\ value \in Nat
  BY DEF TypeOK, Word
<1> QED
  BY <1>1 DEF HextetInv

\* The pointer stays within the text, and reading it short of the end yields
\* a byte.
LEMMA TextFacts ==
  ASSUME TypeOK
  PROVE  /\ Len(input) \in Nat /\ pointer \in Nat /\ pointer <= Len(input)
         /\ ~AtEnd => pointer < Len(input) /\ Current \in Byte
<1>1. input \in Seq(Byte)
  BY TextsAssumption DEF TypeOK
<1>2. Len(input) \in Nat /\ pointer \in Nat /\ pointer <= Len(input)
  BY <1>1 DEF TypeOK
<1>3. ~AtEnd => pointer + 1 \in 1..Len(input)
  BY <1>2 DEF AtEnd
<1> QED
  BY <1>1, <1>2, <1>3 DEF AtEnd, Current, At

LEMMA InitIInv == Init => IInv
<1> SUFFICES ASSUME Init PROVE IInv
  OBVIOUS
<1>1. input \in Seq(Byte) /\ Len(input) \in Nat
  BY TextsAssumption DEF Init
<1>2. TypeOK
  BY <1>1, OutAssumption DEF Init, TypeOK, Labels, Word, Byte
<1>3. EntryInv /\ HextetInv /\ SlotInv /\ OctetInv /\ SwapInv
  BY DEF Init, EntryInv, HextetInv, SlotInv, OctetInv, SwapInv, HalfFilled
<1>4. UnreachedSlotsAreZero /\ PiecesStartAtBoundaries
  BY DEF Init, UnreachedSlotsAreZero, PiecesStartAtBoundaries, HalfFilled
<1> QED
  BY <1>2, <1>3, <1>4 DEF IInv

\* A call that rejects leaves every local as it was and returns.
LEMMA RejectIInv ==
  ASSUME IInv, Reject
  PROVE  IInv'
<1>1. UNCHANGED <<input, pointer, piece_index, compress, address, value, length,
                  numbers_seen, ipv4_piece, swaps, out>>
  BY DEF Reject, reading, hextet, quad
<1>2. pc' \in Labels /\ result' \in {"pending", "accepted", "rejected"}
  BY DEF Reject, Labels
<1>3. TypeOK'
  BY <1>1, <1>2 DEF IInv, TypeOK
<1>4. EntryInv' /\ HextetInv' /\ SlotInv' /\ OctetInv' /\ SwapInv'
  BY DEF Reject, EntryInv, HextetInv, SlotInv, OctetInv, SwapInv, HalfFilled
<1>5. UnreachedSlotsAreZero' /\ PiecesStartAtBoundaries'
  BY DEF Reject, UnreachedSlotsAreZero, PiecesStartAtBoundaries
<1> QED
  BY <1>3, <1>4, <1>5 DEF IInv

\* Every step of the call preserves the inductive invariant.
LEMMA StepIInv ==
  ASSUME IInv, Next
  PROVE  IInv'
<1> USE DEF reading, hextet, quad, caller, SlotsFull, QuadFits, ColonEndsText,
            BeforeDigits, EndsSlot
<1> DEFINE Rejecting == \/ RejectEmpty \/ RejectLoneColon \/ RejectPiece
                        \/ RejectHextet \/ RejectNumber \/ RejectShortQuad
                        \/ RejectDigit \/ RejectShort
<1>0. /\ Len(input) \in Nat /\ pointer \in Nat /\ pointer <= Len(input)
      /\ ~AtEnd => pointer < Len(input) /\ Current \in Byte
  BY TextFacts DEF IInv
<1>1. CASE Rejecting
  BY <1>1, RejectIInv DEF RejectEmpty, RejectLoneColon, RejectPiece,
     RejectHextet, RejectNumber, RejectShortQuad, RejectDigit, RejectShort
<1>2. CASE LeadingCompress
  <2>1. TypeOK'
    BY <1>0, <1>2 DEF IInv, TypeOK, Labels, LeadingCompress,
       OpensWithGap, EntryInv
  <2>2. (EntryInv /\ HextetInv /\ SlotInv /\ OctetInv /\ SwapInv)'
    BY <1>0, <1>2 DEF IInv, TypeOK, LeadingCompress, EntryInv,
       HextetInv, SlotInv, OctetInv, SwapInv, HalfFilled
  <2>3. UnreachedSlotsAreZero'
    BY <1>0, <1>2 DEF IInv, TypeOK, LeadingCompress,
       UnreachedSlotsAreZero, HalfFilled, EntryInv
  <2>4. PiecesStartAtBoundaries'
    BY <1>0, <1>2 DEF IInv, TypeOK, LeadingCompress,
       PiecesStartAtBoundaries, AtEnd, OpensWithGap, EntryInv,
       Current, At
  <2> QED
    BY <2>1, <2>2, <2>3, <2>4 DEF IInv
<1>3. CASE LeadingPiece
  <2>1. TypeOK'
    BY <1>0, <1>3 DEF IInv, TypeOK, Labels, LeadingPiece
  <2>2. (EntryInv /\ HextetInv /\ SlotInv /\ OctetInv /\ SwapInv)'
    BY <1>0, <1>3 DEF IInv, TypeOK, LeadingPiece, EntryInv, HextetInv,
       SlotInv, OctetInv, SwapInv, HalfFilled
  <2>3. UnreachedSlotsAreZero'
    BY <1>0, <1>3 DEF IInv, TypeOK, LeadingPiece,
       UnreachedSlotsAreZero, HalfFilled, EntryInv
  <2>4. PiecesStartAtBoundaries'
    BY <1>0, <1>3 DEF IInv, TypeOK, LeadingPiece,
       PiecesStartAtBoundaries, AtEnd, EntryInv
  <2> QED
    BY <2>1, <2>2, <2>3, <2>4 DEF IInv
<1>4. CASE Compress
  <2>1. TypeOK'
    <3>1. pointer < Len(input) /\ piece_index \in 0..7
      BY <1>0, <1>4 DEF Compress, IInv, TypeOK
    <3> QED
      BY <1>0, <1>4, <3>1 DEF IInv, TypeOK, Labels, Compress
  <2>2. (EntryInv /\ HextetInv /\ SlotInv /\ OctetInv /\ SwapInv)'
    BY <1>0, <1>4 DEF IInv, TypeOK, Compress, EntryInv, HextetInv,
       SlotInv, OctetInv, SwapInv, HalfFilled
  <2>3. UnreachedSlotsAreZero'
    BY <1>0, <1>4 DEF IInv, TypeOK, Compress, UnreachedSlotsAreZero,
       HalfFilled
  <2>4. PiecesStartAtBoundaries'
    BY <1>0, <1>4 DEF IInv, TypeOK, Compress, PiecesStartAtBoundaries,
       AtEnd, Current, At
  <2> QED
    BY <2>1, <2>2, <2>3, <2>4 DEF IInv
<1>5. CASE StartHextet
  <2>1. TypeOK'
    BY <1>0, <1>5 DEF IInv, TypeOK, Labels, StartHextet, Word
  <2>2. (EntryInv /\ HextetInv /\ SlotInv /\ OctetInv /\ SwapInv)'
    BY <1>0, <1>5 DEF IInv, TypeOK, StartHextet, EntryInv, HextetInv,
       SlotInv, OctetInv, SwapInv, HalfFilled, AtEnd
  <2>3. UnreachedSlotsAreZero'
    BY <1>0, <1>5 DEF IInv, TypeOK, StartHextet,
       UnreachedSlotsAreZero, HalfFilled
  <2>4. PiecesStartAtBoundaries'
    BY <1>0, <1>5 DEF IInv, TypeOK, StartHextet,
       PiecesStartAtBoundaries, AtEnd, HextetInv
  <2> QED
    BY <2>1, <2>2, <2>3, <2>4 DEF IInv
<1>6. CASE EndOfText
  <2>1. TypeOK'
    BY <1>0, <1>6 DEF IInv, TypeOK, Labels, EndOfText
  <2>2. (EntryInv /\ HextetInv /\ SlotInv /\ OctetInv /\ SwapInv)'
    BY <1>0, <1>6 DEF IInv, TypeOK, EndOfText, EntryInv, HextetInv,
       SlotInv, OctetInv, SwapInv, HalfFilled
  <2>3. UnreachedSlotsAreZero'
    BY <1>0, <1>6 DEF IInv, TypeOK, EndOfText, UnreachedSlotsAreZero,
       HalfFilled
  <2>4. PiecesStartAtBoundaries'
    BY <1>0, <1>6 DEF IInv, TypeOK, EndOfText,
       PiecesStartAtBoundaries, AtEnd
  <2> QED
    BY <2>1, <2>2, <2>3, <2>4 DEF IInv
<1>7. CASE HexDigit
  <2>1. TypeOK'
    <3>1. HexToBinary(Current) \in 0..15 /\ pointer < Len(input)
      BY <1>0, <1>7, HexDigitValue DEF HexDigit, MoreHex
    <3>2. length \in 0..3 /\ value \in Nat
      BY <1>7, ShortHextet DEF IInv, HexDigit, MoreHex
    <3>3. value' \in Word
      BY <1>7, <3>1, <3>2, Uint16Facts DEF HexDigit
    <3>4. length' \in 0..4 /\ pointer' \in 0..Len(input)
      BY <1>0, <1>7, <3>1, <3>2 DEF HexDigit
    <3> QED
      BY <1>7, <3>3, <3>4 DEF IInv, TypeOK, HexDigit
  <2>2. (EntryInv /\ HextetInv /\ SlotInv /\ OctetInv /\ SwapInv)'
    <3>1. HexToBinary(Current) \in 0..15 /\ pointer < Len(input)
      BY <1>0, <1>7, HexDigitValue DEF HexDigit, MoreHex
    <3>2. HextetInv'
      <4>1. value \in Nat /\ length \in 0..3 /\ value <= 4095
        BY <1>7, ShortHextet DEF IInv, HexDigit, MoreHex
      <4>2. value' = value * 16 + HexToBinary(Current)
        BY <1>7, <3>1, <4>1, Uint16Facts DEF HexDigit
      <4> QED
        <5>1. /\ length' = length + 1 /\ length <= pointer
              /\ length' <= pointer'
          BY <1>0, <1>7, <4>1 DEF IInv, HextetInv, HexDigit
        <5>2. /\ length = 0 => value' <= 15
              /\ length = 1 => value' <= 255
              /\ length = 2 => value' <= 4095
          <6>1. /\ length = 0 => value = 0
                /\ length = 1 => value <= 15
                /\ length = 2 => value <= 255
            BY <1>7 DEF IInv, HextetInv, HexDigit
          <6>2. PICK e \in 0..15 : e = HexToBinary(Current)
            BY <3>1
          <6>3. value' = value * 16 + e
            BY <4>2, <6>2
          <6> QED
            BY ONLY <4>1, <6>1, <6>3, e \in 0..15
        <5> QED
          BY <4>1, <5>1, <5>2 DEF HextetInv
    <3> QED
      BY <1>7, <3>2 DEF IInv, HexDigit, EntryInv, SlotInv, OctetInv, SwapInv,
         HalfFilled
  <2>3. UnreachedSlotsAreZero'
    BY <1>0, <1>7 DEF IInv, TypeOK, HexDigit, UnreachedSlotsAreZero,
       HalfFilled
  <2>4. PiecesStartAtBoundaries'
    BY <1>0, <1>7 DEF IInv, TypeOK, HexDigit, PiecesStartAtBoundaries,
       AtEnd, HextetInv
  <2> QED
    BY <2>1, <2>2, <2>3, <2>4 DEF IInv
<1>8. CASE EndHextet
  <2>1. TypeOK'
    <3>1. pointer' \in 0..Len(input)
      BY <1>0, <1>8 DEF EndHextet, CurrentIs
    <3>2. piece_index' \in 0..8
      BY <1>8 DEF IInv, TypeOK, SlotInv, EndHextet
    <3>3. address' \in [0..7 -> Word]
      BY <1>8 DEF IInv, TypeOK, EndHextet
    <3> QED
      BY <1>8, <3>1, <3>2, <3>3 DEF IInv, TypeOK, Labels, EndHextet
  <2>2. (EntryInv /\ HextetInv /\ SlotInv /\ OctetInv /\ SwapInv)'
    BY <1>0, <1>8 DEF IInv, TypeOK, EndHextet, EntryInv, HextetInv,
       SlotInv, OctetInv, SwapInv, HalfFilled
  <2>3. UnreachedSlotsAreZero'
    BY <1>0, <1>8 DEF IInv, TypeOK, EndHextet, UnreachedSlotsAreZero,
       HalfFilled, SlotInv
  <2>4. PiecesStartAtBoundaries'
    BY <1>0, <1>8 DEF IInv, TypeOK, EndHextet,
       PiecesStartAtBoundaries, AtEnd, CurrentIs, Current, At
  <2> QED
    BY <2>1, <2>2, <2>3, <2>4 DEF IInv
<1>9. CASE StartQuad
  <2>1. TypeOK'
    BY <1>0, <1>9 DEF IInv, TypeOK, Labels, StartQuad, HextetInv
  <2>2. (EntryInv /\ HextetInv /\ SlotInv /\ OctetInv /\ SwapInv)'
    BY <1>0, <1>9 DEF IInv, TypeOK, StartQuad, EntryInv, HextetInv,
       SlotInv, OctetInv, SwapInv, HalfFilled
  <2>3. UnreachedSlotsAreZero'
    BY <1>0, <1>9 DEF IInv, TypeOK, StartQuad, UnreachedSlotsAreZero,
       HalfFilled, SlotInv
  <2>4. PiecesStartAtBoundaries'
    BY <1>0, <1>9 DEF IInv, TypeOK, StartQuad,
       PiecesStartAtBoundaries, AtEnd, HextetInv
  <2> QED
    BY <2>1, <2>2, <2>3, <2>4 DEF IInv
<1>10. CASE StartNumber
  <2>1. TypeOK'
    <3>1. pointer' \in 0..Len(input)
      BY <1>0, <1>10 DEF StartNumber, OctetStart
    <3> QED
      BY <1>10, <3>1 DEF IInv, TypeOK, Labels, StartNumber
  <2>2. (EntryInv /\ HextetInv /\ SlotInv /\ OctetInv /\ SwapInv)'
    <3>1. OctetInv'
      BY <1>10 DEF StartNumber, NoOctet, OctetInv, CurrentIsDigit, AtEnd, Current
    <3>2. numbers_seen < 4
      BY <1>10 DEF IInv, TypeOK, StartNumber, NoSeparator
    <3> QED
      BY <1>10, <3>1, <3>2 DEF IInv, TypeOK, StartNumber, EntryInv, HextetInv,
         SlotInv, SwapInv, HalfFilled
  <2>3. UnreachedSlotsAreZero'
    BY <1>0, <1>10 DEF IInv, TypeOK, StartNumber,
       UnreachedSlotsAreZero, HalfFilled
  <2>4. PiecesStartAtBoundaries'
    BY <1>0, <1>10 DEF IInv, TypeOK, StartNumber,
       PiecesStartAtBoundaries, AtEnd
  <2> QED
    BY <2>1, <2>2, <2>3, <2>4 DEF IInv
<1>11. CASE EndQuad
  <2>1. TypeOK'
    BY <1>0, <1>11 DEF IInv, TypeOK, Labels, EndQuad
  <2>2. (EntryInv /\ HextetInv /\ SlotInv /\ OctetInv /\ SwapInv)'
    BY <1>0, <1>11 DEF IInv, TypeOK, EndQuad, EntryInv, HextetInv,
       SlotInv, OctetInv, SwapInv, HalfFilled
  <2>3. UnreachedSlotsAreZero'
    BY <1>0, <1>11 DEF IInv, TypeOK, EndQuad, UnreachedSlotsAreZero,
       HalfFilled
  <2>4. PiecesStartAtBoundaries'
    BY <1>0, <1>11 DEF IInv, TypeOK, EndQuad, PiecesStartAtBoundaries,
       AtEnd
  <2> QED
    BY <2>1, <2>2, <2>3, <2>4 DEF IInv
<1>12. CASE OctetDigit
  <2>1. TypeOK'
    <3>1. Current - Zero \in 0..9 /\ pointer < Len(input)
      BY <1>0, <1>12 DEF OctetDigit, CurrentIsDigit, IsDigit, Zero
    <3>2. ipv4_piece = -1 \/ ipv4_piece \in Nat
      BY DEF IInv, TypeOK, Byte
    <3>3. NextOctetValue \in Nat /\ NextOctetValue <= 255
      BY <1>12, <3>1, <3>2 DEF OctetDigit, NextOctetValue
    <3>4. ipv4_piece' \in Byte /\ pointer' \in 0..Len(input)
      BY <1>0, <1>12, <3>1, <3>3 DEF OctetDigit, Byte
    <3> QED
      BY <1>12, <3>4 DEF IInv, TypeOK, OctetDigit
  <2>2. (EntryInv /\ HextetInv /\ SlotInv /\ OctetInv /\ SwapInv)'
    <3>1. Current - Zero \in 0..9 /\ pointer < Len(input)
      BY <1>0, <1>12 DEF OctetDigit, CurrentIsDigit, IsDigit, Zero
    <3>2. ipv4_piece = -1 \/ ipv4_piece \in Nat
      BY DEF IInv, TypeOK, Byte
    <3>3. NextOctetValue \in Nat /\ NextOctetValue <= 255
      BY <1>12, <3>1, <3>2 DEF OctetDigit, NextOctetValue
    <3>4. OctetInv'
      BY <1>12, <3>3 DEF OctetDigit, OctetInv
    <3> QED
      BY <1>12, <3>4 DEF IInv, OctetDigit, EntryInv, HextetInv, SlotInv, SwapInv,
         HalfFilled
  <2>3. UnreachedSlotsAreZero'
    BY <1>0, <1>12 DEF IInv, TypeOK, OctetDigit,
       UnreachedSlotsAreZero, HalfFilled
  <2>4. PiecesStartAtBoundaries'
    BY <1>0, <1>12 DEF IInv, TypeOK, OctetDigit,
       PiecesStartAtBoundaries, AtEnd
  <2> QED
    BY <2>1, <2>2, <2>3, <2>4 DEF IInv
<1>13. CASE EndNumber
  <2>1. TypeOK'
    <3>1. piece_index \in 0..7 /\ numbers_seen \in 0..3
      BY <1>13 DEF IInv, TypeOK, SlotInv, EndNumber
    <3>2. piece_index' \in 0..8 /\ numbers_seen' \in 0..4
      BY <1>13, <3>1 DEF EndNumber
    <3>3. ipv4_piece \in Byte
      BY <1>13 DEF IInv, TypeOK, OctetInv, EndNumber
    <3>4. address' \in [0..7 -> Word]
      <4>1. Uint16(address[piece_index] * 256 + ipv4_piece) \in Word
        <5>1. address[piece_index] \in Nat /\ ipv4_piece \in Nat
          <6>1. address[piece_index] \in Word
            BY <3>1 DEF IInv, TypeOK
          <6> QED
            BY <3>3, <6>1 DEF Word, Byte
        <5> QED
          BY <5>1, Uint16Facts
      <4> QED
        BY <1>13, <3>1, <4>1 DEF IInv, TypeOK, EndNumber
    <3> QED
      BY <1>13, <3>2, <3>4 DEF IInv, TypeOK, Labels, EndNumber
  <2>2. (EntryInv /\ HextetInv /\ SlotInv /\ OctetInv /\ SwapInv)'
    <3>1. piece_index \in 0..7 /\ numbers_seen \in 0..3
      BY <1>13 DEF IInv, TypeOK, SlotInv, EndNumber
    <3>2. ipv4_piece \in Byte
      BY <1>13 DEF IInv, TypeOK, OctetInv, EndNumber
    <3>3. HalfFilled' => address'[piece_index'] <= 255
      <4>1. SUFFICES ASSUME numbers_seen \in {0, 2} PROVE address'[piece_index'] <= 255
        BY <1>13, <3>1 DEF EndNumber, HalfFilled
      <4>2. piece_index' = piece_index /\ address[piece_index] = 0
        BY <1>13, <3>1, <4>1 DEF IInv, EndNumber, UnreachedSlotsAreZero, HalfFilled
      <4> QED
        <5>1. ipv4_piece \in Nat /\ ipv4_piece <= 255
          BY <3>2 DEF Byte
        <5>2. Uint16(address[piece_index] * 256 + ipv4_piece) = ipv4_piece
          BY <4>2, <5>1, Uint16Facts
        <5> QED
          BY <1>13, <3>1, <4>2, <5>1, <5>2 DEF IInv, TypeOK, EndNumber
    <3>4. SlotInv'
      BY <1>13, <3>1, <3>3 DEF IInv, TypeOK, EndNumber, SlotInv
    <3> QED
      BY <1>13, <3>4 DEF IInv, EndNumber, EntryInv, HextetInv, OctetInv, SwapInv
  <2>3. UnreachedSlotsAreZero'
    <3>1. piece_index \in 0..7 /\ numbers_seen \in 0..3
      BY <1>13 DEF IInv, TypeOK, SlotInv, EndNumber
    <3>2. \A i \in 0..7 : i # piece_index => address'[i] = address[i]
      BY <1>13 DEF IInv, TypeOK, EndNumber
    <3> QED
      BY <1>13, <3>1, <3>2 DEF IInv, TypeOK, EndNumber, UnreachedSlotsAreZero, HalfFilled
  <2>4. PiecesStartAtBoundaries'
    BY <1>0, <1>13 DEF IInv, TypeOK, EndNumber,
       PiecesStartAtBoundaries, AtEnd
  <2> QED
    BY <2>1, <2>2, <2>3, <2>4 DEF IInv
<1>14. CASE EightPieces
  <2>1. TypeOK'
    BY <1>0, <1>14 DEF IInv, TypeOK, Labels, EightPieces
  <2>2. (EntryInv /\ HextetInv /\ SlotInv /\ OctetInv /\ SwapInv)'
    BY <1>0, <1>14 DEF IInv, TypeOK, EightPieces, EntryInv, HextetInv,
       SlotInv, OctetInv, SwapInv, HalfFilled
  <2>3. UnreachedSlotsAreZero'
    BY <1>0, <1>14 DEF IInv, TypeOK, EightPieces,
       UnreachedSlotsAreZero, HalfFilled
  <2>4. PiecesStartAtBoundaries'
    BY <1>0, <1>14 DEF IInv, TypeOK, EightPieces,
       PiecesStartAtBoundaries, AtEnd
  <2> QED
    BY <2>1, <2>2, <2>3, <2>4 DEF IInv
<1>15. CASE StartSwaps
  <2>1. TypeOK'
    <3>1. compress \in 1..piece_index /\ piece_index \in 0..8
      BY <1>15 DEF IInv, TypeOK, StartSwaps, UnreachedSlotsAreZero
    <3>2. swaps' \in 0..8 /\ piece_index' \in 0..8
      BY <1>15, <3>1 DEF StartSwaps
    <3> QED
      BY <1>15, <3>2 DEF IInv, TypeOK, Labels, StartSwaps
  <2>2. (EntryInv /\ HextetInv /\ SlotInv /\ OctetInv /\ SwapInv)'
    BY <1>0, <1>15 DEF IInv, TypeOK, StartSwaps, EntryInv, HextetInv,
       SlotInv, OctetInv, SwapInv, HalfFilled, UnreachedSlotsAreZero
  <2>3. UnreachedSlotsAreZero'
    BY <1>0, <1>15 DEF IInv, TypeOK, StartSwaps,
       UnreachedSlotsAreZero, HalfFilled
  <2>4. PiecesStartAtBoundaries'
    BY <1>0, <1>15 DEF IInv, TypeOK, StartSwaps,
       PiecesStartAtBoundaries, AtEnd
  <2> QED
    BY <2>1, <2>2, <2>3, <2>4 DEF IInv
<1>16. CASE Swap
  <2>1. TypeOK'
    <3>1. piece_index \in 1..7 /\ SwapSource \in 0..7 /\ swaps \in 1..8
      BY <1>16 DEF IInv, TypeOK, SwapInv, Swap, SwapSource
    <3>2. address' \in [0..7 -> Word]
      <4>1. address[piece_index] \in Word /\ address[SwapSource] \in Word
        BY <3>1 DEF IInv, TypeOK
      <4> QED
        BY <1>16, <3>1, <4>1 DEF IInv, TypeOK, Swap
    <3>3. piece_index' \in 0..8 /\ swaps' \in 0..8
      BY <1>16, <3>1 DEF Swap
    <3> QED
      BY <1>16, <3>2, <3>3 DEF IInv, TypeOK, Swap
  <2>2. (EntryInv /\ HextetInv /\ SlotInv /\ OctetInv /\ SwapInv)'
    BY <1>0, <1>16 DEF IInv, TypeOK, Swap, EntryInv, HextetInv,
       SlotInv, OctetInv, SwapInv, HalfFilled
  <2>3. UnreachedSlotsAreZero'
    BY <1>0, <1>16 DEF IInv, TypeOK, Swap, UnreachedSlotsAreZero,
       HalfFilled
  <2>4. PiecesStartAtBoundaries'
    BY <1>0, <1>16 DEF IInv, TypeOK, Swap, PiecesStartAtBoundaries,
       AtEnd
  <2> QED
    BY <2>1, <2>2, <2>3, <2>4 DEF IInv
<1>17. CASE EndSwaps
  <2>1. TypeOK'
    BY <1>0, <1>17 DEF IInv, TypeOK, Labels, EndSwaps
  <2>2. (EntryInv /\ HextetInv /\ SlotInv /\ OctetInv /\ SwapInv)'
    BY <1>0, <1>17 DEF IInv, TypeOK, EndSwaps, EntryInv, HextetInv,
       SlotInv, OctetInv, SwapInv, HalfFilled
  <2>3. UnreachedSlotsAreZero'
    BY <1>0, <1>17 DEF IInv, TypeOK, EndSwaps, UnreachedSlotsAreZero,
       HalfFilled
  <2>4. PiecesStartAtBoundaries'
    BY <1>0, <1>17 DEF IInv, TypeOK, EndSwaps,
       PiecesStartAtBoundaries, AtEnd
  <2> QED
    BY <2>1, <2>2, <2>3, <2>4 DEF IInv
<1>18. CASE Output
  <2>1. TypeOK'
    <3>1. NetworkBytes(address) \in [0..15 -> Byte]
      <4>1. ASSUME NEW i \in 0..15
            PROVE  i \div 2 \in 0..7
        BY <4>1
      <4>2. \A w \in Word : w \div 256 \in Byte /\ w % 256 \in Byte
        BY DEF Word, Byte
      <4> QED
        BY <4>1, <4>2 DEF IInv, TypeOK, NetworkBytes
    <3> QED
      BY <1>18, <3>1 DEF IInv, TypeOK, Labels, Output
  <2>2. (EntryInv /\ HextetInv /\ SlotInv /\ OctetInv /\ SwapInv)'
    BY <1>0, <1>18 DEF IInv, TypeOK, Output, EntryInv, HextetInv,
       SlotInv, OctetInv, SwapInv, HalfFilled
  <2>3. UnreachedSlotsAreZero'
    BY <1>0, <1>18 DEF IInv, TypeOK, Output, UnreachedSlotsAreZero,
       HalfFilled
  <2>4. PiecesStartAtBoundaries'
    BY <1>0, <1>18 DEF IInv, TypeOK, Output, PiecesStartAtBoundaries,
       AtEnd
  <2> QED
    BY <2>1, <2>2, <2>3, <2>4 DEF IInv
<1> QED
  BY <1>1, <1>2, <1>3, <1>4, <1>5, <1>6, <1>7, <1>8, <1>9, <1>10,
     <1>11, <1>12, <1>13, <1>14, <1>15, <1>16, <1>17, <1>18 DEF Next

----------------------------------------------------------------------------
\* The inductive invariant holds in every reachable state.
THEOREM AlwaysIInv == Spec => []IInv
<1>1. IInv /\ UNCHANGED vars => IInv'
  BY DEF IInv, TypeOK, EntryInv, HextetInv, SlotInv, OctetInv, SwapInv,
     UnreachedSlotsAreZero, PiecesStartAtBoundaries, HalfFilled, AtEnd,
     CurrentIsDigit, Current, vars, reading, hextet, quad, caller
<1> QED
  BY InitIInv, StepIInv, <1>1, PTL DEF Spec

\* parse_ipv6_ada keeps its locals in the ranges of TypeOK, for texts of any
\* length.
THEOREM TypeCorrect == Spec => []TypeOK
BY AlwaysIInv, PTL DEF IInv

\* No text makes parse_ipv6_ada subscript address[8] out of bounds, or step
\* back over the beginning of the text (lines 139, 164, 178, 186).
THEOREM SafeAccesses == Spec => []AccessesInBounds
<1>1. IInv => AccessesInBounds
  BY DEF IInv, TypeOK, AccessesInBounds, HextetInv, SlotInv, SwapInv, SwapSource
<1> QED
  BY AlwaysIInv, <1>1, PTL

\* No text makes a uint16_t conversion of parse_ipv6_ada lose a bit (132, 165).
THEOREM ExactCasts == Spec => []CastsAreExact
<1>1. ASSUME IInv, pc = "hex", MoreHex
      PROVE  value * 16 + HexToBinary(Current) <= 65535
  <2>1. HexToBinary(Current) \in 0..15
    BY <1>1, TextFacts, HexDigitValue DEF IInv, MoreHex
  <2>2. value \in Nat /\ value <= 4095
    BY <1>1, ShortHextet DEF IInv, MoreHex
  <2> QED
    BY <2>1, <2>2
<1>2. ASSUME IInv, pc = "digit"
      PROVE  address[piece_index] * 256 + ipv4_piece <= 65535
  <2>1. piece_index \in 0..7 /\ numbers_seen \in 0..3
    BY <1>2 DEF IInv, TypeOK, SlotInv
  <2>2. address[piece_index] \in Nat /\ address[piece_index] <= 255
    <3>1. address[piece_index] \in Word
      BY <1>2, <2>1 DEF IInv, TypeOK
    <3>2. ~HalfFilled => address[piece_index] = 0
      BY <1>2, <2>1 DEF IInv, TypeOK, UnreachedSlotsAreZero
    <3> QED
      BY <1>2, <3>1, <3>2 DEF IInv, SlotInv, Word
  <2>3. ipv4_piece = -1 \/ (ipv4_piece \in Nat /\ ipv4_piece <= 255)
    BY <1>2 DEF IInv, TypeOK, Byte
  <2> QED
    BY <2>2, <2>3
<1>3. IInv => CastsAreExact
  BY <1>1, <1>2 DEF CastsAreExact
<1> QED
  BY AlwaysIInv, <1>3, PTL

\* Line 186 exchanges with zeros only, and line 165 accumulates on zero.
THEOREM ZeroSlots == Spec => []UnreachedSlotsAreZero
BY AlwaysIInv, PTL DEF IInv

\* Pieces begin at the beginning of the text or after a ':'.
THEOREM PieceBoundaries == Spec => []PiecesStartAtBoundaries
BY AlwaysIInv, PTL DEF IInv

----------------------------------------------------------------------------
Progress == Phase' < Phase \/ (Phase' = Phase /\ Remaining' < Remaining)

\* A step to a later phase.
LEMMA LaterPhase ==
  ASSUME IInv, Next,
         \/ RejectEmpty \/ RejectLoneColon \/ LeadingCompress \/ LeadingPiece
         \/ RejectPiece \/ EndOfText \/ RejectHextet \/ StartQuad
         \/ RejectNumber \/ RejectShortQuad \/ EndQuad \/ RejectDigit
         \/ RejectShort \/ EightPieces \/ StartSwaps \/ EndSwaps \/ Output
  PROVE  Phase' < Phase
BY DEF RejectEmpty, RejectLoneColon, LeadingCompress, LeadingPiece,
   RejectPiece, EndOfText, RejectHextet, StartQuad, RejectNumber,
   RejectShortQuad, EndQuad, RejectDigit, RejectShort, EightPieces,
   StartSwaps, EndSwaps, Output, Reject, Phase

\* A step within a phase: it reads on, or leaves a hextet or an octet that has
\* a digit, or moves a piece.
LEMMA SamePhase ==
  ASSUME IInv, Next,
         \/ Compress \/ StartHextet \/ HexDigit \/ EndHextet
         \/ StartNumber \/ OctetDigit \/ EndNumber \/ Swap
  PROVE  Phase' = Phase /\ Remaining' < Remaining
<1> USE DEF caller, SlotsFull, ColonEndsText
<1>0. /\ Len(input) \in Nat /\ pointer \in Nat /\ pointer <= Len(input)
      /\ length \in Nat /\ swaps \in Nat
  BY TextFacts DEF IInv, TypeOK
<1>1. CASE Compress
  BY <1>0, <1>1 DEF Compress, Phase, Remaining, Rank
<1>2. CASE StartHextet
  BY <1>0, <1>2 DEF StartHextet, Phase, Remaining, Rank, reading
<1>3. CASE HexDigit
  BY <1>0, <1>3 DEF HexDigit, Phase, Remaining, Rank
<1>4. CASE EndHextet
  <2>1. AtEnd => length # 0
    BY <1>4 DEF IInv, HextetInv, EndHextet
  <2> QED
    BY <1>0, <1>4, <2>1 DEF EndHextet, Phase, Remaining, Rank, CurrentIs
<1>5. CASE StartNumber
  BY <1>0, <1>5 DEF StartNumber, OctetStart, Phase, Remaining, Rank
<1>6. CASE OctetDigit
  BY <1>0, <1>6 DEF OctetDigit, Phase, Remaining, Rank
<1>7. CASE EndNumber
  <2>1. ipv4_piece # -1
    BY <1>7 DEF IInv, OctetInv, EndNumber
  <2> QED
    BY <1>0, <1>7, <2>1 DEF EndNumber, Phase, Remaining, Rank
<1>8. CASE Swap
  BY <1>0, <1>8 DEF Swap, Phase, Remaining
<1> QED
  BY <1>1, <1>2, <1>3, <1>4, <1>5, <1>6, <1>7, <1>8

\* Each of the at most seven phases takes at most 3 * (length + 1) steps: every
\* step of a call leads to a later phase or leaves less to do in the same one.
THEOREM Progresses == Spec => StepsMakeProgress
<1>1. IInv /\ Next => Progress
  BY LaterPhase, SamePhase DEF Next, Progress
<1>2. IInv /\ [Next]_vars
        => [Phase' < Phase \/ (Phase' = Phase /\ Remaining' < Remaining)]_vars
  BY <1>1 DEF Progress
<1> QED
  BY AlwaysIInv, <1>2, PTL DEF Spec, StepsMakeProgress

----------------------------------------------------------------------------
(* What the slots hold of a text without a dot: the groups of its fields,  *)
(* as GroupText has them.                                                  *)

\* "::" before the first group leaves two fields empty and reserves one slot.
Shift == IF compress = 1 THEN 1 ELSE 0
NextField == piece_index + Shift

\* A slot holds the two bytes of field k.
HoldsField(slot, k) ==
  /\ slot \div 256 = GroupByte(input, Cut(input, k), Cut(input, k + 1), 0)
  /\ slot % 256 = GroupByte(input, Cut(input, k), Cut(input, k + 1), 1)

\* Every slot before piece_index holds a group, but for the one "::" reserved.
SlotsRead ==
  \A j \in 0..(piece_index - 1) :
    j # compress - 1 => IsGroup(input, j + Shift) /\ HoldsField(address[j], j + Shift)

\* The fields that "::" leaves empty.
GapRead ==
  compress # -1 => /\ Pitch(input, compress - 1 + Shift) = 1
                   /\ compress = 1 => Pitch(input, 0) = 1

\* The next field is still to be read; it is empty if the text ends in "::".
BeforeField ==
  /\ NextField < Fields(input) /\ pointer = Cut(input, NextField) + 1
  /\ AtEnd => compress = piece_index
  /\ piece_index = 0 => Pitch(input, 0) # 1

AfterLast == NextField = Fields(input) /\ AtEnd /\ compress # piece_index

\* length digits of field k are read.
InField(k) ==
  /\ k < Fields(input) /\ Pitch(input, k) >= 2
  /\ pointer = Cut(input, k) + 1 + length /\ pointer <= Cut(input, k + 1)
  /\ HexAfter(input, Cut(input, k), length) /\ value = ValueOf(input, Cut(input, k), length)

\* The groups read are all that the text has.
AllRead ==
  /\ compress = -1 => Fields(input) = piece_index
  /\ compress # -1 =>
       LET before == AtLeastOne(compress - 1)
       IN /\ Fields(input) = before + 1 + AtLeastOne(piece_index - compress)
          /\ piece_index = compress => Pitch(input, before + 1) = 1

\* Behind "::" the groups still to move follow it, those moved end the address,
\* and every other slot holds zero.
ToMove == 7 - piece_index + swaps
Unmoved(j) == j >= compress /\ j < compress + swaps
Moved(j) == j > piece_index
GroupsMove ==
  /\ GroupsAround(input, compress - 1, ToMove) /\ swaps <= ToMove
  /\ \A j \in 0..7 :
       /\ j < compress - 1 \/ Unmoved(j) => HoldsField(address[j], j + Shift)
       /\ Moved(j) => HoldsField(address[j], compress + (j - 8 + ToMove) + Shift)
       /\ j >= compress - 1 /\ ~Unmoved(j) /\ ~Moved(j) => address[j] = 0

EightRead == EightGroups(input) /\ \A j \in 0..7 : HoldsField(address[j], j)

ReadInv ==
  /\ compress # 0
  /\ pc \in {"piece", "hex"} => SlotsRead /\ GapRead
  /\ pc = "piece" => BeforeField \/ AfterLast
  /\ pc = "hex" => InField(NextField)
  /\ ~Dotted(input) =>
       /\ pc \notin {"number", "digit"}
       /\ pc = "finish" => SlotsRead /\ GapRead /\ AllRead
       /\ pc = "swap" => compress # -1 /\ GroupsMove
       /\ pc = "output" => IF compress = -1 THEN EightRead ELSE GroupsMove /\ swaps = 0

\* The address of groups that the text is of is stored, and no other text taken.
DotlessRead ==
  ~Dotted(input) =>
    /\ result = "accepted" => out \in GroupMeaning(input)
    /\ result = "rejected" => GroupMeaning(input) = {}

RInv == ReadInv /\ DotlessRead

LEMMA InitRInv == Init => RInv
BY DEF Init, RInv, ReadInv, DotlessRead

LEMMA InputIsText ==
  ASSUME TypeOK
  PROVE  input \in Seq(Byte)
BY TextsAssumption DEF TypeOK

\* The numbers that name slots and fields.
LEMMA SlotNumbers ==
  ASSUME IInv, ReadInv
  PROVE  /\ piece_index \in 0..8 /\ (compress = -1 \/ compress \in 1..8) /\ Shift \in 0..1
         /\ NextField \in Nat /\ NextField = piece_index + Shift /\ Fields(input) \in Nat
         /\ compress # -1 => AtLeastOne(compress - 1) = compress - 1 + Shift
         /\ pc \in {"piece", "hex", "finish"} /\ compress # -1 => compress <= piece_index
<1>1. piece_index \in 0..8 /\ compress \in -1..8 /\ compress # 0
  BY DEF IInv, TypeOK, ReadInv
<1>2. Fields(input) \in Nat
  BY InputIsText, Cuts DEF IInv
<1>3. pc \in {"piece", "hex", "finish"} /\ compress # -1 => compress \in 1..piece_index
  BY DEF IInv, UnreachedSlotsAreZero
<1> QED BY <1>1, <1>2, <1>3 DEF Shift, NextField, AtLeastOne

\* The group that "::" is found after is the one before the gap of the address.
LEMMA GapIsMeant ==
  ASSUME IInv, ReadInv, pc \in {"piece", "hex"}, compress # -1, NextField < Fields(input),
         GroupMeaning(input) # {}
  PROVE  \E n \in 0..7 : /\ compress - 1 + n <= 7
                         /\ Fields(input) = compress + Shift + AtLeastOne(n)
                         /\ \A k \in 0..(Fields(input) - 1) :
                              k > compress - 1 + Shift
                              => (Pitch(input, k) = 1 <=> n = 0 /\ k = Fields(input) - 1)
<1>1. PICK P \in 0..8, c \in 1..8, s \in 0..1, F \in Nat :
        /\ P = piece_index /\ c = compress /\ s = Shift /\ F = Fields(input)
        /\ c <= P /\ P + s < F /\ s = IF c = 1 THEN 1 ELSE 0
  BY SlotNumbers DEF Shift
<1>2. input \in Seq(Byte)
  BY InputIsText DEF IInv
<1>3. /\ Pitch(input, c - 1 + s) = 1 /\ (c = 1 => Pitch(input, 0) = 1)
      /\ c > 1 => IsGroup(input, 0)
  <2>1. SlotsRead /\ GapRead
    BY DEF ReadInv
  <2>2. c > 1 => 0 \in 0..(P - 1) /\ 0 # c - 1 /\ 0 + s = 0
    BY <1>1
  <2> QED BY <1>1, <2>1, <2>2 DEF SlotsRead, GapRead
<1>4. ~EightGroups(input)
  <2> SUFFICES ASSUME EightGroups(input) PROVE FALSE
    OBVIOUS
  <2>1. F = 8 /\ c - 1 + s \in 0..7
    BY <1>1 DEF EightGroups
  <2>2. Pitch(input, c - 1 + s) \in 2..5
    BY <2>1 DEF EightGroups
  <2> QED BY <1>3, <2>2
<1>5. PICK h \in Nat, n \in Nat : GroupsAround(input, h, n)
  BY <1>4, GroupMeanings
<1>6. PICK d \in 1..7, e \in 1..7 : /\ d = AtLeastOne(h) /\ e = AtLeastOne(n) /\ h + n <= 7
                                    /\ d = (IF h = 0 THEN 1 ELSE h) /\ e = (IF n = 0 THEN 1 ELSE n)
                                    /\ F = d + 1 + e
  BY <1>1, <1>5 DEF GroupsAround, AtLeastOne
<1>7. \A k \in 0..(F - 1) : Pitch(input, k) \in IF k \in Blocks(h, d + 1, n) THEN 2..5 ELSE {1}
  BY <1>1, <1>5, <1>6 DEF GroupsAround
<1>8. \A k \in 0..(F - 1) : Pitch(input, k) = 1 => k \notin Blocks(h, d + 1, n)
  BY <1>7
<1>9. \A k \in 0..(F - 1) : Pitch(input, k) = 1 =>
         (k = 0 /\ h = 0) \/ k = d \/ (k = F - 1 /\ n = 0)
  <2> SUFFICES ASSUME NEW k \in 0..(F - 1), k \notin Blocks(h, d + 1, n)
               PROVE  (k = 0 /\ h = 0) \/ k = d \/ (k = F - 1 /\ n = 0)
    BY <1>8
  <2>1. ~ (k < h) /\ ~ (d + 1 <= k /\ k <= d + n)
    BY DEF Blocks
  <2> QED BY <1>6, <2>1
<1>10. h = 0 <=> Pitch(input, 0) = 1
  <2>1. 0 \in 0..(F - 1) /\ (h # 0 => 0 \in Blocks(h, d + 1, n))
    BY <1>6 DEF Blocks
  <2>2. h = 0 => 0 \notin Blocks(h, d + 1, n)
    BY <1>6 DEF Blocks
  <2> QED BY <1>7, <2>1, <2>2
<1>11. c - 1 + s = d
  <2>1. c - 1 + s \in 1..(F - 2) /\ c - 1 + s \in 0..(F - 1)
    BY <1>1
  <2> QED BY <1>3, <1>9, <2>1
<1>12. c = 1 <=> h = 0
  BY <1>1, <1>3, <1>10 DEF IsGroup
<1>13. h = c - 1 /\ F = c + s + e
  BY <1>1, <1>6, <1>11, <1>12
<1>14. n \in 0..7 /\ c - 1 + n <= 7
  BY <1>6, <1>13
<1>15. Fields(input) = compress + Shift + AtLeastOne(n) /\ compress - 1 + n <= 7
  BY <1>1, <1>6, <1>13, <1>14
<1>16. ASSUME NEW k \in 0..(Fields(input) - 1), k > compress - 1 + Shift
       PROVE  Pitch(input, k) = 1 <=> n = 0 /\ k = Fields(input) - 1
  <2>1. k \in 0..(F - 1) /\ k > d /\ k # 0
    BY <1>1, <1>11, <1>16
  <2>2. n = 0 /\ k = F - 1 => k \notin Blocks(h, d + 1, n)
    BY <1>6, <2>1 DEF Blocks
  <2>3. n = 0 /\ k = F - 1 => Pitch(input, k) = 1
    BY <1>7, <2>1, <2>2
  <2> QED BY <1>1, <1>9, <2>1, <2>3
<1> QED BY <1>14, <1>15, <1>16

\* Groups in eight slots, or in as many as there are fields, are eight.
LEMMA EightAreMeant ==
  ASSUME IInv, SlotsRead, compress = -1, piece_index = 8 \/ piece_index = Fields(input),
         GroupMeaning(input) # {}
  PROVE  Fields(input) = 8
<1>1. PICK P \in 0..8, F \in Nat : P = piece_index /\ F = Fields(input)
  BY InputIsText, Cuts DEF IInv, TypeOK
<1>2. \A k \in 0..(P - 1) : Pitch(input, k) # 1
  <2>1. Shift = 0 /\ \A j \in 0..(P - 1) : j # compress - 1 /\ j + 0 = j
    BY DEF Shift
  <2> QED BY <1>1, <2>1 DEF SlotsRead, IsGroup
<1>3. EightGroups(input) \/ \E h, n \in Nat : GroupsAround(input, h, n)
  BY GroupMeanings
<1>4. ASSUME NEW h \in Nat, NEW n \in Nat, GroupsAround(input, h, n) PROVE FALSE
  <2>1. PICK d \in 1..7, e \in 1..7 : /\ d = AtLeastOne(h) /\ h + n <= 7 /\ F = d + 1 + e /\ h <= d
    BY <1>1, <1>4 DEF GroupsAround, AtLeastOne
  <2>2. d \in 0..(F - 1) /\ d \notin Blocks(h, d + 1, n) /\ d \in 0..(P - 1)
    BY <1>1, <2>1 DEF Blocks
  <2>3. Pitch(input, d) = 1
    BY <1>1, <1>4, <2>1, <2>2 DEF GroupsAround
  <2> QED BY <1>2, <2>2, <2>3
<1> QED BY <1>3, <1>4 DEF EightGroups

\* A step that leaves the slots alone leaves them read.
LEMMA SameSlots ==
  ASSUME UNCHANGED <<input, piece_index, compress, address>>
  PROVE  /\ SlotsRead => SlotsRead'
         /\ GapRead => GapRead'
         /\ NextField' = NextField /\ Shift' = Shift
BY DEF SlotsRead, GapRead, Shift, NextField, HoldsField

LEMMA SameAnswer ==
  ASSUME RInv, UNCHANGED <<input, result, out>>
  PROVE  DotlessRead' /\ Dotted(input)' = Dotted(input)
BY DEF RInv, DotlessRead

----------------------------------------------------------------------------
(* The rejections.                                                         *)

LEMMA RejectsRight ==
  ASSUME RInv, Reject, ~Dotted(input) => GroupMeaning(input) = {}
  PROVE  RInv'
<1>1. pc' = "returned" /\ result' = "rejected" /\ input' = input /\ compress' = compress
  BY DEF Reject, reading
<1> QED BY <1>1 DEF RInv, ReadInv, DotlessRead

LEMMA EntryRejects ==
  ASSUME IInv, RejectEmpty \/ RejectLoneColon
  PROVE  GroupMeaning(input) = {}
<1> SUFFICES ASSUME GroupMeaning(input) # {} PROVE FALSE
  OBVIOUS
<1>1. input \in Seq(Byte)
  BY InputIsText DEF IInv
<1>2. Len(input) \in 2..44 /\ NoLoneEdge(input)
  BY <1>1, MeantGroups, MeantEdges
<1>3. CASE RejectEmpty
  BY <1>2, <1>3 DEF RejectEmpty
<1>4. CASE RejectLoneColon
  <2>1. At(input, 0) = Colon /\ At(input, 1) # Colon
    <3>1. PICK L \in 2..44 : L = Len(input)
      BY <1>2
    <3>2. L > 1
      OBVIOUS
    <3>3. Len(input) > 1
      BY <3>1, <3>2, Zenon
    <3> QED BY <1>4, <3>3, Zenon DEF RejectLoneColon, OpensWithGap
  <2>2. 0 \in Places(input)
    <3>1. PICK L \in 2..44 : L = Len(input)
      BY <1>2
    <3>2. 0 \in 0..(L - 1)
      OBVIOUS
    <3> QED BY <3>1, <3>2 DEF Places
  <2>3. 0 \in ColonsOf(input) /\ 0 + 1 \notin ColonsOf(input)
    BY <2>1, <2>2 DEF ColonsOf
  <2> QED BY <1>2, <2>3 DEF NoLoneEdge, DoublesOf
<1> QED BY <1>3, <1>4

\* A ninth slot, or a second "::".
LEMMA PieceRejects ==
  ASSUME IInv, ReadInv, RejectPiece
  PROVE  GroupMeaning(input) = {}
<1> SUFFICES ASSUME GroupMeaning(input) # {} PROVE FALSE
  OBVIOUS
<1>1. input \in Seq(Byte)
  BY InputIsText DEF IInv
<1>2. /\ pc = "piece" /\ ~AtEnd /\ BeforeField /\ SlotsRead
      /\ piece_index = 8 \/ (Current = Colon /\ compress # -1)
  BY DEF RejectPiece, SlotsFull, ReadInv, AfterLast
<1>3. NextField < Fields(input) /\ pointer = Cut(input, NextField) + 1
  BY <1>2 DEF BeforeField
<1>4. /\ NextField \in Nat /\ NextField = piece_index + Shift /\ Fields(input) \in Nat
      /\ Shift \in 0..1 /\ piece_index \in 0..8
  BY SlotNumbers
<1>5. Current = Colon => NextField + 1 < Fields(input) /\ Pitch(input, NextField) = 1
  BY <1>1, <1>2, <1>3, <1>4, FieldStart DEF Current, AtEnd
<1>6. CASE compress = -1
  <2>1. Fields(input) = 8
    BY <1>2, <1>6, EightAreMeant
  <2> QED BY <1>2, <1>3, <1>4, <1>6, <2>1
<1>7. CASE compress # -1
  <2>1. PICK n \in 0..7 : /\ compress - 1 + n <= 7
                          /\ Fields(input) = compress + Shift + AtLeastOne(n)
                          /\ \A k \in 0..(Fields(input) - 1) :
                               k > compress - 1 + Shift
                               => (Pitch(input, k) = 1 <=> n = 0 /\ k = Fields(input) - 1)
    BY <1>2, <1>3, <1>7, GapIsMeant
  <2>2. compress \in 1..8 /\ compress <= piece_index
    BY <1>2, <1>7, SlotNumbers
  <2>3. NextField \in 0..(Fields(input) - 1) /\ NextField > compress - 1 + Shift
    BY <1>3, <1>4, <2>2
  <2>4. CASE Current = Colon
    BY <1>4, <1>5, <2>1, <2>3, <2>4
  <2>5. CASE piece_index = 8
    <3>1. n = 0 /\ NextField + 1 = Fields(input)
      BY <1>3, <1>4, <2>1, <2>2, <2>5 DEF AtLeastOne
    <3>2. Pitch(input, NextField) = 1
      BY <1>4, <2>1, <2>3, <3>1
    <3>3. pointer # Len(input)
      BY <1>2 DEF AtEnd
    <3>4. Current = Colon
      BY <1>1, <1>3, <1>4, <3>2, <3>3, FieldStart DEF Current
    <3> QED BY <1>4, <1>5, <3>1, <3>4
  <2> QED BY <1>2, <2>4, <2>5
<1> QED BY <1>6, <1>7

----------------------------------------------------------------------------
(* The steps between the fields.                                           *)

LEMMA LeadingCompressReads ==
  ASSUME IInv, RInv, LeadingCompress
  PROVE  RInv'
<1>1. /\ Len(input) > 0 /\ At(input, 0) = Colon /\ Len(input) > 1 /\ At(input, 1) = Colon
      /\ pc = "entry" /\ pc' = "piece" /\ pointer' = pointer + 2 /\ piece_index' = piece_index + 1
      /\ compress' = piece_index' /\ UNCHANGED <<address, input, result, out>>
  BY DEF LeadingCompress, OpensWithGap, caller
<1>2. pointer' = 2 /\ piece_index' = 1 /\ compress' = 1
  BY <1>1 DEF IInv, EntryInv
<1>3. input \in Seq(Byte)
  BY InputIsText DEF IInv
<1>4. 0 \in ColonsOf(input) /\ 0 \in DoublesOf(input)
  <2>1. PICK L \in Nat : L = Len(input) /\ L > 1
    BY <1>1, <1>3, TextBytes
  <2>2. 0 \in 0..(L - 1) /\ 1 \in 0..(L - 1) /\ 0 + 1 = 1
    BY <2>1
  <2>3. 0 \in ColonsOf(input) /\ 1 \in ColonsOf(input)
    BY <1>1, <2>1, <2>2 DEF ColonsOf, Places
  <2> QED BY <2>2, <2>3 DEF DoublesOf
<1>5. PICK F \in Nat \ {0} : F = Fields(input)
  BY <1>3, Cuts
<1>6. PICK k \in 1..(F - 2) : /\ Cut(input, k) = 0 /\ Cut(input, k + 1) = 0 + 1
                              /\ Pitch(input, k) = 1
  BY <1>3, <1>4, <1>5, DoubleInside
<1>7. Pitch(input, 0) = 1 /\ Cut(input, 1) = 0
  <2>1. Fields(input) >= 2
    BY <1>5, <1>6
  <2> QED BY <1>3, <1>4, <2>1, EdgeFields
<1>8. k = 1
  <2>1. k \in 0..F /\ 1 \in 0..F
    BY <1>6
  <2> QED BY <1>3, <1>5, <1>6, <1>7, <2>1, OneCut
<1>9. Shift' = 1 /\ NextField' = 2
  BY <1>2 DEF Shift, NextField
<1>10. SlotsRead'
  <2>1. \A j \in 0..(1 - 1) : j = 1 - 1
    OBVIOUS
  <2> QED BY <1>2, <2>1 DEF SlotsRead
<1>11. GapRead'
  BY <1>1, <1>2, <1>6, <1>7, <1>8, <1>9 DEF GapRead
<1>12. BeforeField'
  BY <1>1, <1>2, <1>5, <1>6, <1>8, <1>9 DEF BeforeField
<1> QED BY <1>1, <1>2, <1>10, <1>11, <1>12, SameAnswer DEF RInv, ReadInv

LEMMA LeadingPieceReads ==
  ASSUME IInv, RInv, LeadingPiece
  PROVE  RInv'
<1>1. /\ Len(input) > 0 /\ At(input, 0) # Colon
      /\ pc = "entry" /\ pc' = "piece"
      /\ UNCHANGED <<pointer, piece_index, compress, address, input, result, out>>
  BY DEF LeadingPiece, caller, reading
<1>2. pointer' = 0 /\ piece_index' = 0 /\ compress' = -1
  BY <1>1 DEF IInv, EntryInv
<1>3. input \in Seq(Byte)
  BY InputIsText DEF IInv
<1>4. Cut(input, 0) = -1 /\ 0 < Fields(input)
  BY <1>3, Cuts
<1>5. Pitch(input, 0) # 1
  <2>1. 0 = Cut(input, 0) + 1 /\ 0 # Len(input)
    BY <1>1, <1>4
  <2>2. Pitch(input, 0) >= 2
    BY <1>1, <1>3, <1>4, <2>1, FieldStart
  <2> QED BY <2>2
<1>6. Shift' = 0 /\ NextField' = 0
  BY <1>2 DEF Shift, NextField
<1>7. SlotsRead' /\ GapRead'
  BY <1>2 DEF SlotsRead, GapRead
<1>8. BeforeField'
  BY <1>1, <1>2, <1>4, <1>5, <1>6 DEF BeforeField, AtEnd
<1> QED BY <1>1, <1>2, <1>7, <1>8, SameAnswer DEF RInv, ReadInv

LEMMA CompressReads ==
  ASSUME IInv, RInv, Compress
  PROVE  RInv'
<1>1. /\ pc = "piece" /\ ~AtEnd /\ Current = Colon /\ compress = -1 /\ pc' = "piece"
      /\ pointer' = pointer + 1 /\ piece_index' = piece_index + 1 /\ compress' = piece_index'
      /\ UNCHANGED <<address, input, result, out>>
  BY DEF Compress, caller
<1>2. BeforeField /\ SlotsRead
  BY <1>1 DEF RInv, ReadInv, AfterLast
<1>3. input \in Seq(Byte)
  BY InputIsText DEF IInv
<1>4. piece_index \in 0..8 /\ NextField = piece_index /\ Shift = 0
  BY <1>1, SlotNumbers DEF RInv, Shift
<1>5. /\ piece_index + 1 < Fields(input) /\ Cut(input, piece_index + 1) = pointer
      /\ Pitch(input, piece_index) = 1
  <2>1. pointer = Cut(input, piece_index) + 1 /\ piece_index < Fields(input) /\ piece_index \in Nat
    BY <1>2, <1>4 DEF BeforeField
  <2> QED BY <1>1, <1>3, <2>1, FieldStart DEF AtEnd, Current
<1>6. piece_index \in 1..8
  BY <1>2, <1>4, <1>5 DEF BeforeField
<1>7. compress' = piece_index + 1 /\ compress' # 1 /\ compress' - 1 = piece_index /\ compress' # 0
      /\ compress' # -1
  BY <1>1, <1>6
<1>8. Shift' = 0 /\ NextField' = piece_index + 1
  BY <1>1, <1>6, <1>7 DEF Shift, NextField
<1>9. SlotsRead'
  <2> SUFFICES ASSUME NEW j \in 0..(piece_index' - 1), j # compress' - 1
               PROVE  IsGroup(input', j + Shift') /\ HoldsField(address[j], j + Shift)'
    BY DEF SlotsRead
  <2>1. j \in 0..(piece_index - 1) /\ j # compress - 1 /\ j + Shift' = j + Shift
    BY <1>1, <1>4, <1>7, <1>8
  <2> QED BY <1>1, <1>2, <2>1 DEF SlotsRead, HoldsField
<1>10. GapRead'
  <2>1. compress' - 1 + Shift' = piece_index
    BY <1>4, <1>7, <1>8
  <2> QED BY <1>1, <1>5, <1>7, <2>1 DEF GapRead
<1>11. BeforeField'
  BY <1>1, <1>5, <1>6, <1>8 DEF BeforeField
<1> QED BY <1>1, <1>7, <1>9, <1>10, <1>11, SameAnswer DEF RInv, ReadInv

LEMMA StartHextetReads ==
  ASSUME IInv, RInv, StartHextet
  PROVE  RInv'
<1>1. /\ pc = "piece" /\ ~AtEnd /\ Current # Colon /\ pc' = "hex" /\ value' = 0 /\ length' = 0
      /\ UNCHANGED <<pointer, piece_index, compress, address, input, result, out>>
  BY DEF StartHextet, caller, reading
<1>2. BeforeField /\ SlotsRead /\ GapRead /\ compress # 0
  BY <1>1 DEF RInv, ReadInv, AfterLast
<1>3. PICK k \in Nat : /\ k = NextField /\ k < Fields(input) /\ pointer = Cut(input, k) + 1
                       /\ NextField' = k
  BY <1>1, <1>2, SlotNumbers, SameSlots DEF RInv, BeforeField
<1>4. input \in Seq(Byte)
  BY InputIsText DEF IInv
<1>5. Pitch(input, k) >= 2
  BY <1>1, <1>3, <1>4, FieldStart DEF AtEnd, Current
<1>6. pointer = Cut(input, k) + 1 + 0 /\ pointer <= Cut(input, k + 1)
  BY <1>3, <1>4, FieldCuts
<1>7. HexAfter(input, Cut(input, k), 0) /\ ValueOf(input, Cut(input, k), 0) = 0
  BY DEF HexAfter, ValueOf
<1>8. InField(k)'
  BY <1>1, <1>3, <1>5, <1>6, <1>7 DEF InField
<1> QED BY <1>1, <1>2, <1>3, <1>8, SameAnswer, SameSlots DEF RInv, ReadInv

LEMMA EndOfTextReads ==
  ASSUME IInv, RInv, EndOfText
  PROVE  RInv'
<1>1. /\ pc = "piece" /\ AtEnd /\ pc' = "finish"
      /\ UNCHANGED <<pointer, piece_index, compress, address, input, result, out>>
  BY DEF EndOfText, caller, reading
<1>2. /\ BeforeField \/ AfterLast
      /\ SlotsRead /\ GapRead /\ compress # 0
  BY <1>1 DEF RInv, ReadInv
<1>3. /\ piece_index \in 0..8 /\ (compress = -1 \/ compress \in 1..8) /\ Shift \in 0..1
      /\ NextField = piece_index + Shift /\ Fields(input) \in Nat /\ NextField \in Nat
      /\ compress # -1 => AtLeastOne(compress - 1) = compress - 1 + Shift
      /\ compress # -1 => compress <= piece_index
  BY <1>1, SlotNumbers DEF RInv
<1>4. AllRead
  <2>1. CASE BeforeField
    <3>1. compress = piece_index /\ pointer = Cut(input, NextField) + 1 /\ NextField < Fields(input)
      BY <1>1, <2>1 DEF BeforeField
    <3>2. NextField + 1 = Fields(input) /\ Pitch(input, NextField) = 1
      <4>1. input \in Seq(Byte)
        BY InputIsText DEF IInv
      <4> QED BY <1>1, <1>3, <3>1, <4>1, FieldStart DEF AtEnd
    <3>3. compress - 1 + Shift + 1 = NextField /\ compress # -1
      BY <1>3, <3>1
    <3>4. AtLeastOne(piece_index - compress) = 1
      BY <1>3, <3>1 DEF AtLeastOne
    <3>5. AtLeastOne(compress - 1) + 1 = NextField
      BY <1>3, <3>3
    <3> QED BY <1>3, <3>2, <3>3, <3>4, <3>5 DEF AllRead
  <2>2. CASE AfterLast
    <3>1. compress = -1 => Shift = 0
      BY DEF Shift
    <3>2. compress # -1 => /\ piece_index - compress # 0
                           /\ compress - 1 + Shift + 1 + (piece_index - compress) = NextField
      BY <1>3, <2>2 DEF AfterLast
    <3> QED BY <1>3, <2>2, <3>1, <3>2 DEF AfterLast, AllRead, AtLeastOne
  <2> QED BY <1>2, <2>1, <2>2
<1>5. AllRead'
  BY <1>1, <1>4 DEF AllRead
<1> QED BY <1>1, <1>2, <1>5, SameAnswer, SameSlots DEF RInv, ReadInv

----------------------------------------------------------------------------
(* The digits of a field, and its end.                                     *)

\* The byte at the pointer is one of the field's just if it is none of ':' and
\* the end of the text.
LEMMA AtDigit ==
  ASSUME IInv, NEW k \in Nat, k < Fields(input), InField(k)
  PROVE  /\ Cut(input, k) \in Int /\ Cut(input, k + 1) \in Int /\ length \in 0..4
         /\ pointer = Cut(input, k) + 1 + length /\ pointer \in Nat
         /\ Pitch(input, k) = Cut(input, k + 1) - Cut(input, k) /\ Pitch(input, k) # 1
         /\ AtEnd => pointer = Cut(input, k + 1) /\ k + 1 = Fields(input)
         /\ CurrentIs(Colon) => pointer = Cut(input, k + 1) /\ k + 1 < Fields(input)
         /\ ~AtEnd /\ Current # Colon => /\ pointer < Cut(input, k + 1) /\ Current \in Byte
                                         /\ pointer \in Places(input)
                                         /\ Current = At(input, Cut(input, k) + (length + 1))
<1>1. input \in Seq(Byte) /\ length \in 0..4
  BY InputIsText DEF IInv, TypeOK
<1>2. PICK L \in Nat : L = Len(input)
  BY <1>1, TextBytes
<1>3. PICK a \in -1..L, b \in 0..L : /\ a = Cut(input, k) /\ b = Cut(input, k + 1)
                                     /\ Pitch(input, k) = b - a
                                     /\ b = L \/ b \in ColonsOf(input)
                                     /\ \A i \in Int : a < i /\ i < b
                                          => i \in Places(input) \ ColonsOf(input)
  BY <1>1, <1>2, FieldCuts
<1>4. pointer = a + 1 + length /\ pointer <= b /\ b - a >= 2 /\ pointer \in Nat
  BY <1>1, <1>3, TextFacts DEF InField, IInv
<1>5. PICK F \in Nat \ {0} : F = Fields(input)
  BY <1>1, Cuts
<1>6. b = L <=> k + 1 = F
  <2>1. k + 1 \in 0..F /\ F \in 0..F /\ Cut(input, F) = L
    BY <1>1, <1>2, <1>5, Cuts
  <2> QED BY <1>1, <1>3, <1>5, <2>1, OneCut
<1>7. AtEnd <=> pointer = L
  BY <1>2 DEF AtEnd
<1>8. pointer < b => /\ pointer \in Places(input) /\ pointer \notin ColonsOf(input)
                     /\ pointer < L /\ Current \in Byte
  <2>1. pointer < b => pointer \in Places(input) \ ColonsOf(input)
    <3>1. a < pointer /\ pointer \in Int
      BY <1>1, <1>4
    <3> QED BY <1>3, <3>1
  <2>2. pointer \in Places(input) => Current \in Byte
    BY <1>1, TextBytes DEF Current
  <2>3. pointer < b => pointer < L
    BY <1>3, <1>4
  <2> QED BY <2>1, <2>2, <2>3
<1>9. Current = Colon /\ pointer \in Places(input) => pointer \in ColonsOf(input)
  BY DEF Current, ColonsOf
<1>10. pointer = b => pointer = L \/ (pointer \in ColonsOf(input) /\ Current = Colon)
  BY <1>3 DEF ColonsOf, Current
<1>11. pointer = a + (length + 1)
  BY <1>1, <1>4
<1>12. pointer = b \/ pointer < b
  BY <1>4
<1>13. AtEnd => pointer = b /\ k + 1 = F
  BY <1>6, <1>7, <1>8, <1>12
<1>14. CurrentIs(Colon) => pointer = b /\ k + 1 < F
  <2>1. pointer # b => ~CurrentIs(Colon)
    BY <1>8, <1>9, <1>12 DEF CurrentIs
  <2>2. k + 1 = F \/ k + 1 < F
    BY <1>5
  <2> QED BY <1>6, <1>7, <2>1, <2>2 DEF CurrentIs
<1>15. ~AtEnd /\ Current # Colon => pointer < b
  BY <1>7, <1>10, <1>12
<1>16. Current = At(input, a + (length + 1))
  BY <1>11 DEF Current
<1>17. /\ Cut(input, k) \in Int /\ Cut(input, k + 1) \in Int /\ Pitch(input, k) # 1
       /\ Pitch(input, k) = Cut(input, k + 1) - Cut(input, k)
       /\ pointer = Cut(input, k) + 1 + length
  BY <1>3, <1>4
<1>18. /\ AtEnd => pointer = Cut(input, k + 1) /\ k + 1 = Fields(input)
       /\ CurrentIs(Colon) => pointer = Cut(input, k + 1) /\ k + 1 < Fields(input)
  BY <1>3, <1>5, <1>13, <1>14
<1>19. ~AtEnd /\ Current # Colon => /\ pointer < Cut(input, k + 1) /\ Current \in Byte
                                    /\ pointer \in Places(input)
                                    /\ Current = At(input, Cut(input, k) + (length + 1))
  BY <1>3, <1>8, <1>15, <1>16
<1> QED BY <1>1, <1>4, <1>17, <1>18, <1>19

\* What a call in the loop over digits has.
LEMMA AtField ==
  ASSUME IInv, RInv, pc = "hex"
  PROVE  \E k \in Nat : /\ k = NextField /\ k = piece_index + Shift /\ k < Fields(input)
                        /\ InField(k) /\ SlotsRead /\ GapRead /\ compress # 0
BY SlotNumbers DEF RInv, ReadInv, InField

\* Neither ':' nor the end of the text is a digit.
LEMMA DigitIsInside ==
  ASSUME MoreHex
  PROVE  ~AtEnd /\ Current # Colon /\ length < 4 /\ IsHexDigit(Current)
BY DEF MoreHex, IsHexDigit, IsDigit, Colon

LEMMA HexDigitReads ==
  ASSUME IInv, RInv, HexDigit
  PROVE  RInv'
<1>1. /\ pc = "hex" /\ pc' = "hex" /\ MoreHex
      /\ value' = Uint16(value * 16 + HexToBinary(Current))
      /\ length' = length + 1 /\ pointer' = pointer + 1
      /\ UNCHANGED <<piece_index, compress, address, input, result, out>>
  BY DEF HexDigit, caller
<1>2. PICK k \in Nat : /\ k = NextField /\ k < Fields(input) /\ InField(k)
                       /\ SlotsRead /\ GapRead /\ compress # 0
  BY <1>1, AtField
<1>3. ~AtEnd /\ Current # Colon /\ length < 4 /\ IsHexDigit(Current)
  BY <1>1, DigitIsInside
<1>4. PICK a \in Int, b \in Int, m \in 0..3 :
        /\ a = Cut(input, k) /\ b = Cut(input, k + 1) /\ m = length
        /\ pointer = a + 1 + m /\ pointer < b /\ Current \in Byte
        /\ Current = At(input, a + (m + 1))
  BY <1>2, <1>3, AtDigit
<1>5. HexAfter(input, a, m) /\ value = ValueOf(input, a, m) /\ Pitch(input, k) >= 2
  BY <1>2, <1>4 DEF InField
<1>6. HexAfter(input, a, m + 1)
  <2>1. \A i \in 1..(m + 1) : i \in 1..m \/ i = m + 1
    OBVIOUS
  <2> QED BY <1>3, <1>4, <1>5, <2>1 DEF HexAfter
<1>7. value * 16 + HexToBinary(At(input, a + (m + 1))) = ValueOf(input, a, m + 1)
  BY <1>5, <1>6, NextDigit
<1>8. value' = value * 16 + HexToBinary(Current)
  <2>1. PICK e \in 0..15 : e = HexToBinary(Current)
    BY <1>3, <1>4, HexDigitValue
  <2>2. value \in Nat /\ value <= 4095
    BY <1>1, <1>3, ShortHextet DEF IInv
  <2>3. value * 16 + e \in Nat /\ value * 16 + e <= 65535
    BY <2>2
  <2> QED BY <1>1, <2>1, <2>3, Uint16Facts
<1>9. value' = ValueOf(input, a, m + 1)
  BY <1>4, <1>7, <1>8
<1>10. pointer' = a + 1 + (m + 1) /\ pointer' <= b /\ length' = m + 1
  BY <1>1, <1>4
<1>11. NextField' = k
  BY <1>1, <1>2, SameSlots
<1>12. InField(k)'
  BY <1>1, <1>2, <1>4, <1>5, <1>6, <1>9, <1>10 DEF InField
<1> QED BY <1>1, <1>2, <1>11, <1>12, SameAnswer, SameSlots DEF RInv, ReadInv

\* A byte that is no digit or one too many, or a single ':' that ends the text.
LEMMA HextetRejects ==
  ASSUME IInv, RInv, RejectHextet, ~Dotted(input)
  PROVE  GroupMeaning(input) = {}
<1> SUFFICES ASSUME GroupMeaning(input) # {} PROVE FALSE
  OBVIOUS
<1>1. /\ pc = "hex" /\ ~MoreHex
      /\ \/ CurrentIs(Dot)
         \/ CurrentIs(Colon) /\ ColonEndsText
         \/ ~AtEnd /\ Current # Dot /\ Current # Colon
  BY DEF RejectHextet
<1>2. PICK k \in Nat : k < Fields(input) /\ InField(k)
  BY <1>1, AtField
<1>3. input \in Seq(Byte)
  BY InputIsText DEF IInv
<1>4. PICK a \in Int, b \in Int, m \in 0..4 :
        /\ a = Cut(input, k) /\ b = Cut(input, k + 1) /\ m = length
        /\ pointer = a + 1 + m /\ pointer \in Nat /\ Pitch(input, k) = b - a /\ b - a # 1
  BY <1>2, AtDigit
<1>5. IsGroup(input, k)
  <2>1. Pitch(input, k) # 1
    BY <1>4
  <2> QED BY <1>2, <1>3, <2>1, FullFieldIsGroup
<1>6. CASE ~AtEnd /\ Current # Colon
  <2>1. pointer < b /\ pointer \in Places(input)
    BY <1>2, <1>4, <1>6, AtDigit
  <2>2. IsHexDigit(Current)
    <3>1. a < pointer
      BY <1>4
    <3> QED BY <1>4, <1>5, <2>1, <3>1 DEF IsGroup, Current
  <2>3. b - a \in 2..5
    BY <1>4, <1>5 DEF IsGroup
  <2>4. length < 4
    BY <1>4, <2>1, <2>3
  <2> QED BY <1>1, <1>6, <2>2, <2>4 DEF MoreHex
<1>7. CASE CurrentIs(Colon) /\ ColonEndsText
  <2>1. pointer = b /\ k + 1 < Fields(input)
    BY <1>2, <1>4, <1>7, AtDigit
  <2>2. PICK L \in Nat : L = Len(input) /\ pointer + 1 = L
    BY <1>3, <1>7, TextBytes DEF ColonEndsText
  <2>3. L - 1 \in ColonsOf(input)
    <3>1. PICK p \in Nat : p = pointer
      BY <1>4
    <3>2. p \in 0..(L - 1) /\ L - 1 = p
      BY <2>2, <3>1
    <3>3. At(input, p) = Colon /\ p \in Places(input)
      BY <1>7, <2>2, <3>1, <3>2 DEF CurrentIs, Current, Places
    <3> QED BY <3>2, <3>3 DEF ColonsOf
  <2>4. L - 2 \in ColonsOf(input)
    BY <1>3, <2>2, <2>3, MeantEdges DEF NoLoneEdge, DoublesOf
  <2>5. L - 2 \in Int /\ a < L - 2 /\ L - 2 < b
    <3>1. b - a \in 2..5
      BY <1>4, <1>5 DEF IsGroup
    <3>2. b + 1 = L
      BY <2>1, <2>2, Zenon
    <3> QED BY <3>1, <3>2
  <2> QED BY <1>2, <1>3, <1>4, <2>4, <2>5, FieldCuts
<1>8. CASE CurrentIs(Dot)
  <2>1. ~AtEnd /\ Current # Colon
    BY <1>8 DEF CurrentIs, Dot, Colon
  <2> QED BY <1>6, <2>1
<1> QED BY <1>1, <1>6, <1>7, <1>8

LEMMA EndHextetReads ==
  ASSUME IInv, RInv, EndHextet
  PROVE  RInv'
<1>1. /\ pc = "hex" /\ pc' = "piece"
      /\ \/ AtEnd /\ pointer' = pointer
         \/ CurrentIs(Colon) /\ ~ColonEndsText /\ pointer' = pointer + 1
      /\ address' = [address EXCEPT ![piece_index] = value]
      /\ piece_index' = piece_index + 1
      /\ UNCHANGED <<compress, input, result, out>>
  BY DEF EndHextet, caller
<1>2. PICK k \in Nat : /\ k = NextField /\ k = piece_index + Shift /\ k < Fields(input)
                       /\ InField(k) /\ SlotsRead /\ GapRead /\ compress # 0
  BY <1>1, AtField
<1>3. input \in Seq(Byte)
  BY InputIsText DEF IInv
<1>4. PICK a \in Int, b \in Int, m \in 0..4 :
        /\ a = Cut(input, k) /\ b = Cut(input, k + 1) /\ m = length
        /\ pointer = a + 1 + m /\ pointer \in Nat /\ Pitch(input, k) = b - a /\ b - a # 1
        /\ pointer = b
  BY <1>1, <1>2, AtDigit
<1>5. m \in 1..4 /\ b = a + m + 1 /\ b - a \in 2..5
  BY <1>4
<1>6. HexAfter(input, a, m) /\ value = ValueOf(input, a, m)
  BY <1>2, <1>4 DEF InField
<1>7. IsGroup(input, k)
  <2>1. ASSUME NEW i \in Places(input), a < i, i < b PROVE IsHexDigit(At(input, i))
    <3>1. i \in Int
      BY <1>3, TextBytes
    <3>2. PICK j \in 1..m : i = a + j
      <4>1. i - a \in 1..m /\ i = a + (i - a)
        BY <1>5, <2>1, <3>1
      <4> QED BY <4>1
    <3> QED BY <1>6, <3>2 DEF HexAfter
  <2> QED BY <1>4, <1>5, <2>1 DEF IsGroup
<1>8. HoldsField(value, k)
  <2>1. /\ (value \div 256) % 256 = GroupByte(input, a, b, 0)
        /\ value % 256 = GroupByte(input, a, b, 1)
    BY <1>5, <1>6, ValueIsGroup
  <2>2. value \in Nat /\ value <= 65535
    BY DEF IInv, TypeOK, Word
  <2>3. (value \div 256) % 256 = value \div 256
    BY <2>2
  <2> QED BY <1>4, <2>1, <2>3 DEF HoldsField
<1>9. piece_index \in 0..7 /\ (compress = -1 \/ compress \in 1..piece_index) /\ Shift \in 0..1
  BY <1>1, <1>2, SlotNumbers DEF RInv, IInv, SlotInv, UnreachedSlotsAreZero
<1>10. Shift' = Shift /\ NextField' = k + 1
  BY <1>1, <1>2, <1>9 DEF Shift, NextField
<1>11. SlotsRead'
  <2> SUFFICES ASSUME NEW j \in 0..(piece_index' - 1), j # compress' - 1
               PROVE  IsGroup(input, j + Shift) /\ HoldsField(address'[j], j + Shift)
    BY <1>1, <1>10 DEF SlotsRead, HoldsField
  <2>1. address \in [0..7 -> Word]
    BY DEF IInv, TypeOK
  <2>2. CASE j = piece_index
    BY <1>1, <1>2, <1>7, <1>8, <1>9, <2>1, <2>2
  <2>3. CASE j # piece_index
    <3>1. j \in 0..(piece_index - 1) /\ address'[j] = address[j]
      BY <1>1, <1>9, <2>1, <2>3
    <3> QED BY <1>1, <1>2, <3>1 DEF SlotsRead
  <2> QED BY <2>2, <2>3
<1>12. GapRead'
  BY <1>1, <1>2, <1>10 DEF GapRead
<1>13. BeforeField' \/ AfterLast'
  <2>1. CASE AtEnd /\ pointer' = pointer
    <3>1. k + 1 = Fields(input)
      BY <1>2, <2>1, AtDigit
    <3>2. compress' # piece_index'
      BY <1>1, <1>9
    <3> QED BY <1>1, <1>10, <2>1, <3>1, <3>2 DEF AfterLast, AtEnd
  <2>2. CASE CurrentIs(Colon) /\ ~ColonEndsText /\ pointer' = pointer + 1
    <3>1. k + 1 < Fields(input) /\ pointer' = Cut(input, k + 1) + 1
      BY <1>2, <1>4, <2>2, AtDigit
    <3>2. ~AtEnd' /\ piece_index' # 0
      BY <1>1, <1>9, <2>2 DEF AtEnd, ColonEndsText
    <3> QED BY <1>1, <1>10, <3>1, <3>2 DEF BeforeField
  <2> QED BY <1>1, <2>1, <2>2
<1> QED BY <1>1, <1>2, <1>11, <1>12, <1>13, SameAnswer DEF RInv, ReadInv

----------------------------------------------------------------------------
(* A text with a dot: nothing is claimed of it.                            *)

LEMMA QuadReads ==
  ASSUME IInv, RInv,
         \/ StartQuad \/ RejectNumber \/ StartNumber \/ RejectShortQuad \/ EndQuad
         \/ RejectDigit \/ OctetDigit \/ EndNumber
  PROVE  RInv'
<1>1. Dotted(input)
  <2>1. CASE pc \in {"number", "digit"}
    BY <2>1 DEF RInv, ReadInv
  <2>2. CASE StartQuad
    <3>1. pointer \in Nat /\ Len(input) \in Nat /\ pointer < Len(input) /\ At(input, pointer) = Dot
      BY <2>2, TextFacts DEF IInv, StartQuad, CurrentIs, Current
    <3>2. pointer \in Places(input)
      BY <3>1 DEF Places
    <3> QED BY <3>1, <3>2 DEF Dotted
  <2> QED BY <2>1, <2>2 DEF RejectNumber, StartNumber, RejectShortQuad, EndQuad,
                            RejectDigit, OctetDigit, EndNumber
<1>2. CASE Reject
  BY <1>1, <1>2, RejectsRight
<1>3. CASE StartQuad \/ StartNumber \/ EndQuad \/ OctetDigit \/ EndNumber
  <2>1. UNCHANGED <<input, compress, result, out>> /\ pc' \in {"number", "digit", "finish"}
    BY <1>3 DEF StartQuad, StartNumber, EndQuad, OctetDigit, EndNumber, caller, reading
  <2>2. Dotted(input)' /\ DotlessRead'
    BY <1>1, <2>1, SameAnswer
  <2> QED BY <2>1, <2>2 DEF RInv, ReadInv
<1> QED BY <1>2, <1>3 DEF RejectNumber, RejectShortQuad, RejectDigit

----------------------------------------------------------------------------
(* The end of the text, and the pieces behind "::".                        *)

\* A text without "::" that does not fill the eight slots.
LEMMA ShortRejects ==
  ASSUME IInv, RInv, RejectShort
  PROVE  RInv'
<1>1. pc = "finish" /\ compress = -1 /\ piece_index # 8 /\ Reject
  BY DEF RejectShort
<1>2. ASSUME ~Dotted(input), GroupMeaning(input) # {} PROVE FALSE
  <2>1. SlotsRead /\ piece_index = Fields(input)
    BY <1>1, <1>2 DEF RInv, ReadInv, AllRead
  <2> QED BY <1>1, <1>2, <2>1, EightAreMeant
<1> QED BY <1>1, <1>2, RejectsRight

LEMMA EightPiecesReads ==
  ASSUME IInv, RInv, EightPieces
  PROVE  RInv'
<1>1. /\ pc = "finish" /\ compress = -1 /\ piece_index = 8 /\ pc' = "output"
      /\ UNCHANGED <<compress, address, input, result, out>>
  BY DEF EightPieces, caller, reading
<1>2. ASSUME ~Dotted(input) PROVE EightRead
  <2>1. SlotsRead /\ Fields(input) = 8
    BY <1>1, <1>2 DEF RInv, ReadInv, AllRead
  <2>2. Shift = 0 /\ \A j \in 0..7 : j \in 0..(piece_index - 1) /\ j # compress - 1 /\ j + 0 = j
    BY <1>1 DEF Shift
  <2>3. \A j \in 0..7 : IsGroup(input, j) /\ HoldsField(address[j], j)
    BY <2>1, <2>2 DEF SlotsRead
  <2> QED BY <2>1, <2>3, InputIsText, ReadIsEight DEF IInv, EightRead
<1>3. ~Dotted(input) => EightRead'
  BY <1>1, <1>2 DEF EightRead, HoldsField
<1> QED BY <1>1, <1>3, SameAnswer DEF RInv, ReadInv

\* The numbers of the groups that move.
LEMMA MoveNumbers ==
  ASSUME IInv, ReadInv, compress # -1
  PROVE  /\ compress \in 1..8 /\ piece_index \in 0..8 /\ swaps \in 0..8 /\ Shift \in 0..1
         /\ Shift = (IF compress = 1 THEN 1 ELSE 0)
         /\ AtLeastOne(compress - 1) = compress - 1 + Shift
         /\ pc = "finish" => compress <= piece_index
         /\ pc = "swap" => piece_index <= 7 /\ compress + swaps <= 8
BY SlotNumbers DEF IInv, TypeOK, SwapInv, Shift

LEMMA StartSwapsReads ==
  ASSUME IInv, RInv, StartSwaps
  PROVE  RInv'
<1>1. /\ pc = "finish" /\ compress # -1 /\ swaps' = piece_index - compress /\ piece_index' = 7
      /\ pc' = "swap" /\ UNCHANGED <<compress, address, input, result, out>>
  BY DEF StartSwaps, caller
<1>2. PICK p \in 0..8, c \in 1..8, s \in 0..1 :
        /\ p = piece_index /\ c = compress /\ s = Shift /\ c <= p
        /\ s = (IF c = 1 THEN 1 ELSE 0) /\ AtLeastOne(c - 1) = c - 1 + s
  BY <1>1, MoveNumbers DEF RInv
<1>3. ASSUME ~Dotted(input) PROVE GroupsMove'
  <2>1. SlotsRead /\ GapRead /\ AllRead
    BY <1>1, <1>3 DEF RInv, ReadInv
  <2>2. /\ \A j \in 0..(p - 1) : j # c - 1 => IsGroup(input, j + s) /\ HoldsField(address[j], j + s)
        /\ Pitch(input, c - 1 + s) = 1 /\ (c = 1 => Pitch(input, 0) = 1)
        /\ Fields(input) = c - 1 + s + 1 + AtLeastOne(p - c)
        /\ p = c => Pitch(input, c - 1 + s + 1) = 1
    BY <1>1, <1>2, <2>1 DEF SlotsRead, GapRead, AllRead
  <2>3. GroupsAround(input, c - 1, p - c)
    <3>1. PICK h \in Nat, n \in Nat, d \in Nat : /\ h = c - 1 /\ n = p - c /\ d = c - 1 + s /\ h + n <= 7
                                                 /\ (n = 0 <=> p = c) /\ (h = 0 <=> c = 1)
      BY <1>2
    <3>2. d = AtLeastOne(h) /\ Fields(input) = d + 1 + AtLeastOne(n)
      BY <1>2, <2>2, <3>1
    <3>3. /\ h = 0 => Pitch(input, 0) = 1
          /\ Pitch(input, d) = 1
          /\ n = 0 => Pitch(input, d + 1) = 1
      BY <2>2, <3>1
    <3>4. ASSUME NEW j \in 0..(h - 1) PROVE IsGroup(input, j)
      <4>1. j \in 0..(p - 1) /\ j # c - 1 /\ j + s = j
        BY <1>2, <3>1
      <4> QED BY <2>2, <4>1
    <3>5. ASSUME NEW j \in 0..(n - 1) PROVE IsGroup(input, d + 1 + j)
      <4>1. c + j \in 0..(p - 1) /\ c + j # c - 1 /\ c + j + s = d + 1 + j
        BY <1>2, <3>1
      <4> QED BY <2>2, <4>1
    <3>6. input \in Seq(Byte)
      BY InputIsText DEF IInv
    <3>7. GroupsAround(input, h, n)
      BY <3>1, <3>2, <3>3, <3>4, <3>5, <3>6, ReadIsAround, Zenon
    <3> QED BY <3>1, <3>7
  <2>4. ToMove' = p - c /\ swaps' = p - c /\ Shift' = s
    BY <1>1, <1>2 DEF ToMove, Shift
  <2>5. ASSUME NEW j \in 0..7
        PROVE  /\ j < c - 1 \/ Unmoved(j)' => HoldsField(address[j], j + s)
               /\ ~Moved(j)'
               /\ j >= c - 1 /\ ~Unmoved(j)' => address[j] = 0
    <3>1. (Unmoved(j)' <=> j >= c /\ j < p) /\ ~Moved(j)'
      BY <1>1, <1>2, <2>4 DEF Unmoved, Moved
    <3>2. j < c - 1 \/ (j >= c /\ j < p) => j \in 0..(p - 1) /\ j # c - 1
      BY <1>2
    <3>3. j >= c - 1 /\ ~ (j >= c /\ j < p) => j = c - 1 \/ j >= p
      BY <1>2
    <3>4. address[c - 1] = 0 /\ (j >= p => address[j] = 0)
      BY <1>1, <1>2 DEF IInv, UnreachedSlotsAreZero, HalfFilled
    <3> QED BY <2>2, <3>1, <3>2, <3>3, <3>4
  <2>6. compress' = c /\ address' = address /\ input' = input
    BY <1>1, <1>2
  <2>7. GroupsAround(input', compress' - 1, ToMove') /\ swaps' <= ToMove'
    BY <1>2, <2>3, <2>4, <2>6
  <2>8. \A j \in 0..7 :
          /\ j < compress' - 1 \/ Unmoved(j)' => HoldsField(address[j], j + Shift)'
          /\ ~Moved(j)'
          /\ j >= compress' - 1 /\ ~Unmoved(j)' => address'[j] = 0
    BY <2>4, <2>5, <2>6 DEF HoldsField
  <2> QED BY <2>7, <2>8 DEF GroupsMove
<1>4. compress' # -1 /\ compress' # 0
  BY <1>1, <1>2
<1> QED BY <1>1, <1>3, <1>4, SameAnswer DEF RInv, ReadInv

LEMMA SwapReads ==
  ASSUME IInv, RInv, Swap
  PROVE  RInv'
<1>1. /\ pc = "swap" /\ pc' = "swap" /\ piece_index # 0 /\ swaps > 0
      /\ address' = [address EXCEPT ![piece_index] = address[SwapSource],
                                    ![SwapSource] = address[piece_index]]
      /\ piece_index' = piece_index - 1 /\ swaps' = swaps - 1
      /\ UNCHANGED <<compress, input, result, out>>
  BY DEF Swap, caller
<1>2. ASSUME ~Dotted(input) PROVE compress # -1 /\ GroupsMove'
  <2>1. compress # -1 /\ GroupsMove
    BY <1>1, <1>2 DEF RInv, ReadInv
  <2>2. PICK p \in 1..7, c \in 1..8, s \in 0..1, w \in 1..8 :
          /\ p = piece_index /\ c = compress /\ s = Shift /\ w = swaps /\ c + w <= 8
    BY <1>1, <2>1, MoveNumbers DEF RInv
  <2>3. PICK m \in Nat : m = 7 - p + w /\ m = ToMove /\ GroupsAround(input, c - 1, m)
    BY <2>1, <2>2 DEF GroupsMove, ToMove
  <2>4. c - 1 + m <= 7
    BY <2>3 DEF GroupsAround
  <2>5. PICK q \in 0..7 : q = SwapSource /\ q = c + w - 1 /\ q <= p
    BY <2>2, <2>3, <2>4 DEF SwapSource
  <2>6. address'[p] = address[q] /\ address'[q] = address[p]
        /\ \A j \in 0..7 : j # p /\ j # q => address'[j] = address[j]
    <3>1. address \in [0..7 -> Word] /\ p \in 0..7
      BY DEF IInv, TypeOK
    <3> QED BY <1>1, <2>2, <2>5, <3>1
  <2>7. \A j \in 0..7 :
          /\ j < c - 1 \/ (j >= c /\ j < c + w) => HoldsField(address[j], j + s)
          /\ j > p => HoldsField(address[j], c + (j - 8 + m) + s)
          /\ j >= c - 1 /\ ~ (j >= c /\ j < c + w) /\ ~ (j > p) => address[j] = 0
    BY <2>1, <2>2, <2>3 DEF GroupsMove, Unmoved, Moved
  <2>8. \A j \in 0..7 :
          /\ j < c - 1 \/ (j >= c /\ j < c + w - 1) => HoldsField(address'[j], j + s)
          /\ j > p - 1 => HoldsField(address'[j], c + (j - 8 + m) + s)
          /\ j >= c - 1 /\ ~ (j >= c /\ j < c + w - 1) /\ ~ (j > p - 1) => address'[j] = 0
    <3> SUFFICES ASSUME NEW j \in 0..7
                 PROVE
          /\ j < c - 1 \/ (j >= c /\ j < c + w - 1) => HoldsField(address'[j], j + s)
          /\ j > p - 1 => HoldsField(address'[j], c + (j - 8 + m) + s)
          /\ j >= c - 1 /\ ~ (j >= c /\ j < c + w - 1) /\ ~ (j > p - 1) => address'[j] = 0
      OBVIOUS
    <3>1. CASE j = p
      <4>1. HoldsField(address[q], q + s)
        <5>1. q >= c /\ q < c + w
          BY <2>5
        <5> QED BY <2>7, <5>1
      <4>2. c + (j - 8 + m) + s = q + s
        BY <2>3, <2>5, <3>1
      <4>3. ~ (j < c - 1 \/ (j >= c /\ j < c + w - 1)) /\ j > p - 1
        BY <2>5, <3>1
      <4> QED BY <2>6, <3>1, <4>1, <4>2, <4>3
    <3>2. CASE j = q /\ j # p
      <4>1. address[p] = 0
        <5>1. p \in 0..7 /\ p >= c - 1 /\ ~ (p >= c /\ p < c + w) /\ ~ (p > p)
          BY <2>5, <3>2
        <5> QED BY <2>7, <5>1
      <4>2. ~ (j < c - 1 \/ (j >= c /\ j < c + w - 1)) /\ ~ (j > p - 1)
        BY <2>5, <3>2
      <4> QED BY <2>6, <3>2, <4>1, <4>2
    <3>3. CASE j # q /\ j # p
      <4>1. address'[j] = address[j]
        BY <2>6, <3>3
      <4>2. /\ j >= c /\ j < c + w - 1 => j >= c /\ j < c + w
            /\ j > p - 1 => j > p
            /\ ~ (j >= c /\ j < c + w - 1) => ~ (j >= c /\ j < c + w)
            /\ ~ (j > p - 1) => ~ (j > p)
        BY <2>5, <3>3
      <4> QED BY <2>7, <4>1, <4>2
    <3> QED BY <3>1, <3>2, <3>3
  <2>9. ToMove' = m /\ Shift' = s /\ compress' = c /\ swaps' = w - 1 /\ piece_index' = p - 1
        /\ input' = input /\ w - 1 <= m
    <3>1. 7 - (p - 1) + (w - 1) = m /\ w - 1 <= m
      BY <2>3
    <3> QED BY <1>1, <2>2, <3>1 DEF ToMove, Shift
  <2>10. \A j \in 0..7 : /\ Unmoved(j)' <=> j >= c /\ j < c + w - 1
                         /\ Moved(j)' <=> j > p - 1
    BY <2>9 DEF Unmoved, Moved
  <2>11. \A j, k : HoldsField(address[j], k)' <=> HoldsField(address'[j], k)
    BY <2>9 DEF HoldsField
  <2> QED BY <2>1, <2>3, <2>8, <2>9, <2>10, <2>11 DEF GroupsMove
<1> QED BY <1>1, <1>2, SameAnswer DEF RInv, ReadInv

LEMMA EndSwapsReads ==
  ASSUME IInv, RInv, EndSwaps
  PROVE  RInv'
<1>1. /\ pc = "swap" /\ (piece_index = 0 \/ swaps <= 0) /\ pc' = "output"
      /\ UNCHANGED <<piece_index, compress, address, swaps, input, result, out>>
  BY DEF EndSwaps, caller, reading
<1>2. ASSUME ~Dotted(input) PROVE compress # -1 /\ GroupsMove' /\ swaps = 0
  <2>1. compress # -1 /\ GroupsMove
    BY <1>1, <1>2 DEF RInv, ReadInv
  <2>2. GroupsMove'
    BY <1>1, <2>1 DEF GroupsMove, ToMove, Unmoved, Moved, Shift, HoldsField
  <2>3. PICK p \in 0..8, c \in 1..8, w \in 0..8 : p = piece_index /\ c = compress /\ w = swaps
    BY <2>1, MoveNumbers DEF RInv
  <2>4. c - 1 + (7 - p + w) <= 7
    BY <2>1, <2>3 DEF GroupsMove, ToMove, GroupsAround
  <2>5. w = 0
    BY <1>1, <2>3, <2>4
  <2> QED BY <2>1, <2>2, <2>3, <2>5
<1> QED BY <1>1, <1>2, SameAnswer DEF RInv, ReadInv

LEMMA OutputReads ==
  ASSUME IInv, RInv, Output
  PROVE  RInv'
<1>1. /\ pc = "output" /\ out' = NetworkBytes(address) /\ result' = "accepted"
      /\ pc' = "returned" /\ input' = input /\ compress' = compress
  BY DEF Output, reading
<1>2. ASSUME ~Dotted(input) PROVE out' \in GroupMeaning(input)
  <2>1. CASE compress = -1
    <3>1. EightRead
      BY <1>1, <1>2, <2>1 DEF RInv, ReadInv
    <3>2. ASSUME NEW b \in 0..15 PROVE NetworkBytes(address)[b] = FieldByte(input, b \div 2, b)
      <4>1. PICK g \in 0..7, o \in 0..1 : b = 2 * g + o /\ b \div 2 = g /\ b % 2 = o
        BY SlotOfByte
      <4>2. HoldsField(address[g], g)
        BY <3>1 DEF EightRead
      <4>3. NetworkBytes(address)[b] = IF o = 0 THEN address[g] \div 256 ELSE address[g] % 256
        BY <4>1 DEF NetworkBytes
      <4> QED BY <4>1, <4>2, <4>3 DEF HoldsField, FieldByte
    <3>3. NetworkBytes(address) = EightBytes(input)
      BY <3>2 DEF NetworkBytes, EightBytes
    <3> QED BY <1>1, <3>1, <3>3, GroupMeanings DEF EightRead
  <2>2. CASE compress # -1
    <3>1. GroupsMove /\ swaps = 0
      BY <1>1, <1>2, <2>2 DEF RInv, ReadInv
    <3>2. PICK p \in 0..8, c \in 1..8, s \in 0..1 :
            /\ p = piece_index /\ c = compress /\ s = Shift /\ s = (IF c = 1 THEN 1 ELSE 0)
            /\ AtLeastOne(c - 1) = c - 1 + s
      BY <2>2, MoveNumbers DEF RInv
    <3>3. PICK h \in Nat, m \in Nat : /\ h = c - 1 /\ m = 7 - p /\ m = ToMove
                                      /\ GroupsAround(input, h, m)
      <4>1. GroupsAround(input, c - 1, 7 - p) /\ 0 <= 7 - p /\ ToMove = 7 - p
        BY <3>1, <3>2 DEF GroupsMove, ToMove
      <4>2. c - 1 \in Nat /\ 7 - p \in Nat
        BY <4>1
      <4> QED BY <4>1, <4>2
    <3>4. \A j \in 0..7 :
            /\ j < h => HoldsField(address[j], j + s)
            /\ j > p => HoldsField(address[j], c + (j - 8 + m) + s)
            /\ j >= h /\ ~ (j > p) => address[j] = 0
      <4>1. \A j \in 0..7 : ~Unmoved(j) /\ (Moved(j) <=> j > p)
        BY <3>1, <3>2 DEF Unmoved, Moved
      <4> QED BY <3>1, <3>2, <3>3, <4>1 DEF GroupsMove
    <3>5. ASSUME NEW b \in 0..15 PROVE NetworkBytes(address)[b] = GapBytes(input, h, m)[b]
      <4>1. PICK g \in 0..7, o \in 0..1 : b = 2 * g + o /\ b \div 2 = g /\ b % 2 = o
        BY SlotOfByte
      <4>2. NetworkBytes(address)[b] = IF o = 0 THEN address[g] \div 256 ELSE address[g] % 256
        BY <4>1 DEF NetworkBytes
      <4>3. GapBytes(input, h, m)[b] =
              CASE g < h -> FieldByte(input, g, b)
                [] g >= 8 - m -> FieldByte(input, AtLeastOne(h) + 1 + g - (8 - m), b)
                [] OTHER -> 0
        BY <4>1 DEF GapBytes
      <4>4. CASE g < h
        <5>1. HoldsField(address[g], g)
          <6>1. g + s = g
            BY <3>2, <3>3, <4>4
          <6> QED BY <3>4, <4>4, <6>1
        <5>2. ~ (g >= 8 - m)
          <6>1. h + m <= 7
            BY <3>3 DEF GroupsAround
          <6> QED BY <4>4, <6>1
        <5> QED BY <4>1, <4>2, <4>3, <4>4, <5>1, <5>2 DEF HoldsField, FieldByte
      <4>5. CASE ~ (g < h) /\ g >= 8 - m
        <5>1. PICK f \in Int : f = c + (g - 8 + m) + s /\ f = AtLeastOne(h) + 1 + g - (8 - m)
          BY <3>2, <3>3
        <5>2. g > p
          BY <3>3, <4>5
        <5>3. HoldsField(address[g], f)
          BY <3>4, <5>1, <5>2
        <5> QED BY <4>1, <4>2, <4>3, <4>5, <5>1, <5>3 DEF HoldsField, FieldByte
      <4>6. CASE ~ (g < h) /\ ~ (g >= 8 - m)
        <5>1. g >= h /\ ~ (g > p)
          BY <3>3, <4>6
        <5>2. address[g] = 0
          BY <3>4, <5>1
        <5>3. 0 \div 256 = 0 /\ 0 % 256 = 0
          OBVIOUS
        <5> QED BY <4>2, <4>3, <4>6, <5>2, <5>3
      <4> QED BY <4>4, <4>5, <4>6
    <3>6. NetworkBytes(address) = GapBytes(input, h, m)
      BY <3>5 DEF NetworkBytes, GapBytes
    <3> QED BY <1>1, <3>3, <3>6, GroupMeanings
  <2> QED BY <2>1, <2>2
<1> QED BY <1>1, <1>2 DEF RInv, ReadInv, DotlessRead

LEMMA NextRInv == IInv /\ RInv /\ [Next]_vars => RInv'
  <1> SUFFICES ASSUME IInv, RInv, [Next]_vars PROVE RInv' OBVIOUS
  <1>1. CASE RejectEmpty \/ RejectLoneColon
    <2>1. Reject
      BY <1>1 DEF RejectEmpty, RejectLoneColon
    <2> QED BY <1>1, <2>1, EntryRejects, RejectsRight
  <1>2. CASE LeadingCompress BY <1>2, LeadingCompressReads
  <1>3. CASE LeadingPiece BY <1>3, LeadingPieceReads
  <1>4. CASE RejectPiece
    <2>1. Reject
      BY <1>4 DEF RejectPiece
    <2> QED BY <1>4, <2>1, PieceRejects, RejectsRight DEF RInv
  <1>5. CASE Compress BY <1>5, CompressReads
  <1>6. CASE StartHextet BY <1>6, StartHextetReads
  <1>7. CASE EndOfText BY <1>7, EndOfTextReads
  <1>8. CASE HexDigit BY <1>8, HexDigitReads
  <1>9. CASE RejectHextet
    <2>1. Reject
      BY <1>9 DEF RejectHextet
    <2> QED BY <1>9, <2>1, HextetRejects, RejectsRight
  <1>10. CASE EndHextet BY <1>10, EndHextetReads
  <1>11. CASE \/ StartQuad \/ RejectNumber \/ StartNumber \/ RejectShortQuad \/ EndQuad
              \/ RejectDigit \/ OctetDigit \/ EndNumber
    BY <1>11, QuadReads
  <1>12. CASE RejectShort BY <1>12, ShortRejects
  <1>13. CASE EightPieces BY <1>13, EightPiecesReads
  <1>14. CASE StartSwaps BY <1>14, StartSwapsReads
  <1>15. CASE Swap BY <1>15, SwapReads
  <1>16. CASE EndSwaps BY <1>16, EndSwapsReads
  <1>17. CASE Output BY <1>17, OutputReads
  <1>18. CASE UNCHANGED vars
    <2>1. UNCHANGED <<input, pc, pointer, piece_index, compress, address, value, length,
                      swaps, result, out>>
      BY <1>18 DEF vars, caller, reading, hextet
    <2>2. DotlessRead' /\ Dotted(input)' = Dotted(input)
      BY <2>1, SameAnswer
    <2>3. /\ SlotsRead => SlotsRead'
          /\ GapRead => GapRead'
          /\ NextField' = NextField /\ Shift' = Shift
      BY <2>1, SameSlots
    <2>4. ReadInv => ReadInv'
      BY <2>1, <2>2, <2>3 DEF ReadInv, BeforeField, AfterLast, InField, AllRead, GroupsMove,
                              EightRead, ToMove, Unmoved, Moved, HoldsField, AtEnd
    <2> QED BY <2>2, <2>4 DEF RInv
  <1> QED BY <1>1, <1>2, <1>3, <1>4, <1>5, <1>6, <1>7, <1>8, <1>9, <1>10, <1>11, <1>12,
             <1>13, <1>14, <1>15, <1>16, <1>17, <1>18, Zenon DEF Next

----------------------------------------------------------------------------
(* A text without a colon: one hextet, or the octets of one quad.          *)

LoneInv ==
  ColonsOf(input) = {} =>
    /\ result # "accepted"
    /\ pc # "returned" => compress = -1
    /\ pc = "piece" => piece_index = 0 \/ (piece_index = 1 /\ AtEnd)
    /\ pc = "hex" => piece_index = 0
    /\ pc \in {"number", "digit"} => piece_index = numbers_seen \div 2
    /\ pc = "finish" => piece_index <= 2
    /\ pc \notin {"swap", "output"}

LEMMA InitLoneInv == Init => LoneInv
BY DEF Init, LoneInv

LEMMA NoColonHere ==
  ASSUME ColonsOf(input) = {}, NEW i \in Nat, i < Len(input), Len(input) \in Nat
  PROVE  At(input, i) # Colon
BY DEF ColonsOf, Places

LEMMA NextLoneInv == IInv /\ LoneInv /\ [Next]_vars => LoneInv'
  <1> SUFFICES ASSUME IInv, LoneInv, [Next]_vars, ColonsOf(input') = {} PROVE LoneInv'
    BY DEF LoneInv
  <1> USE DEF caller, reading, quad, hextet
  <1>1. /\ Len(input) \in Nat /\ pointer \in Nat /\ (~AtEnd => pointer < Len(input))
        /\ piece_index \in 0..8 /\ numbers_seen \in 0..4
    BY TextFacts DEF IInv, TypeOK
  <1>2. input' = input /\ ColonsOf(input) = {}
    BY DEF Next, Reject, vars, RejectEmpty, RejectLoneColon, LeadingCompress, LeadingPiece,
           RejectPiece, Compress, StartHextet, EndOfText, HexDigit, RejectHextet, EndHextet,
           StartQuad, RejectNumber, StartNumber, RejectShortQuad, EndQuad, RejectDigit,
           OctetDigit, EndNumber, RejectShort, EightPieces, StartSwaps, Swap, EndSwaps, Output
  <1>3. ~AtEnd => Current # Colon
    BY <1>1, <1>2, NoColonHere DEF Current
  <1>4. CASE Reject
    BY <1>4 DEF LoneInv, Reject
  <1>5. CASE \/ RejectEmpty \/ RejectLoneColon \/ RejectPiece \/ RejectHextet \/ RejectNumber
             \/ RejectShortQuad \/ RejectDigit \/ RejectShort
    BY <1>4, <1>5, Zenon DEF RejectEmpty, RejectLoneColon, RejectPiece, RejectHextet,
                             RejectNumber, RejectShortQuad, RejectDigit, RejectShort
  <1>6. CASE LeadingCompress \/ Compress
    <2>1. CASE Compress
      BY <1>3, <2>1 DEF Compress
    <2>2. CASE LeadingCompress
      <3>1. At(input, 0) = Colon /\ Len(input) > 0
        BY <2>2 DEF LeadingCompress
      <3>2. At(input, 0) # Colon
        BY <1>1, <1>2, <3>1, NoColonHere
      <3> QED BY <3>1, <3>2
    <2> QED BY <1>6, <2>1, <2>2
  <1>7. CASE LeadingPiece
    BY <1>7 DEF LoneInv, LeadingPiece, IInv, EntryInv
  <1>8. CASE StartHextet
    BY <1>2, <1>8 DEF LoneInv, StartHextet
  <1>9. CASE EndOfText
    BY <1>2, <1>9 DEF LoneInv, EndOfText
  <1>10. CASE HexDigit
    BY <1>2, <1>10 DEF LoneInv, HexDigit
  <1>11. CASE EndHextet
    <2>1. AtEnd /\ pointer' = pointer
      BY <1>3, <1>11 DEF EndHextet, CurrentIs
    <2> QED BY <1>2, <1>11, <2>1 DEF LoneInv, EndHextet, AtEnd
  <1>12. CASE StartQuad
    BY <1>2, <1>12 DEF LoneInv, StartQuad
  <1>13. CASE StartNumber \/ OctetDigit
    BY <1>2, <1>13 DEF LoneInv, StartNumber, OctetDigit
  <1>14. CASE EndQuad
    BY <1>1, <1>2, <1>14 DEF LoneInv, EndQuad
  <1>15. CASE EndNumber
    <2>1. numbers_seen \in 0..3 /\ piece_index = numbers_seen \div 2 /\ compress = -1
          /\ result # "accepted"
      BY <1>1, <1>2, <1>15 DEF LoneInv, EndNumber, IInv, SlotInv
    <2>2. piece_index' = numbers_seen' \div 2
      BY <1>15, <2>1 DEF EndNumber, EndsSlot
    <2> QED BY <1>15, <2>1, <2>2 DEF LoneInv, EndNumber
  <1>16. CASE EightPieces \/ StartSwaps \/ Swap \/ EndSwaps \/ Output
    BY <1>1, <1>2, <1>16 DEF LoneInv, EightPieces, StartSwaps, Swap, EndSwaps, Output
  <1>17. CASE UNCHANGED vars
    BY <1>17 DEF LoneInv, vars, AtEnd
  <1> QED BY <1>5, <1>6, <1>7, <1>8, <1>9, <1>10, <1>11, <1>12, <1>13, <1>14, <1>15, <1>16,
             <1>17, Zenon DEF Next

----------------------------------------------------------------------------
\* What parse_ipv6_ada makes of it (108-198): it stores the address that the
\* text is of, and takes no other text.
ReadsGroups ==
  Quadless(input) =>
    /\ result = "accepted" => out \in GroupMeaning(input)
    /\ result = "rejected" => GroupMeaning(input) = {}

LEMMA AllAreRead ==
  ASSUME IInv, RInv, LoneInv
  PROVE  ReadsGroups
<1>1. CASE ~Dotted(input)
  BY <1>1 DEF RInv, DotlessRead, ReadsGroups
<1>2. CASE ColonsOf(input) = {}
  BY <1>2, InputIsText, ColonsAreMeant DEF IInv, LoneInv, ReadsGroups
<1> QED BY <1>1, <1>2 DEF Quadless, ReadsGroups

\* parse_ipv6_ada is right about every text without a dot or without a colon, of
\* any length (108-198): it accepts the eight groups of one to four hexadecimal
\* digits and the at most seven around one "::", and nothing else, and the swaps
\* that move the pieces behind "::" leave the bytes of that address to store.
THEOREM GroupsAreRead == Spec => []ReadsGroups
  <1>1. IInv /\ RInv /\ LoneInv => ReadsGroups
    BY AllAreRead
  <1> QED
    BY <1>1, AlwaysIInv, InitRInv, NextRInv, InitLoneInv, NextLoneInv, PTL DEF Spec

----------------------------------------------------------------------------
(* The contract of the library's parsers, for the addresses of groups.     *)

Reference == INSTANCE Parser WITH Meaning <- GroupMeaning

\* A call has answered when it returns, and not before.
Pending == pc # "returned" => result = "pending"

\* A step stores nothing for the caller unless it accepts.
LEMMA StepKinds ==
  ASSUME [Next]_vars
  PROVE  \/ /\ UNCHANGED <<input, result, out>>
            /\ pc' # "returned" => pc # "returned"
         \/ /\ pc # "returned" /\ pc' = "returned" /\ UNCHANGED <<input, out>>
            /\ result' = "rejected"
         \/ /\ pc # "returned" /\ pc' = "returned" /\ input' = input
            /\ result' = "accepted"
<1>1. CASE \/ RejectEmpty \/ RejectLoneColon \/ RejectPiece \/ RejectHextet \/ RejectNumber
           \/ RejectShortQuad \/ RejectDigit \/ RejectShort
  BY <1>1 DEF RejectEmpty, RejectLoneColon, RejectPiece, RejectHextet, RejectNumber,
              RejectShortQuad, RejectDigit, RejectShort, Reject
<1>2. CASE \/ LeadingCompress \/ LeadingPiece \/ Compress \/ StartHextet \/ EndOfText
           \/ HexDigit \/ EndHextet
  BY <1>2 DEF LeadingCompress, LeadingPiece, Compress, StartHextet, EndOfText, HexDigit,
              EndHextet, caller
<1>3. CASE StartQuad \/ StartNumber \/ EndQuad \/ OctetDigit \/ EndNumber
  BY <1>3 DEF StartQuad, StartNumber, EndQuad, OctetDigit, EndNumber, caller
<1>4. CASE EightPieces \/ StartSwaps \/ Swap \/ EndSwaps
  BY <1>4 DEF EightPieces, StartSwaps, Swap, EndSwaps, caller
<1>5. CASE Output
  BY <1>5 DEF Output
<1>6. CASE UNCHANGED vars
  BY <1>6 DEF vars, caller
<1> QED BY <1>1, <1>2, <1>3, <1>4, <1>5, <1>6, Zenon DEF Next

\* In every call with such a text parse_ipv6_ada keeps the contract of Parser,
\* the addresses being those of groups: it answers once, accepts the texts that
\* are addresses and no other, stores that address, and on return 0 has left the
\* caller's bytes as they were (108-198).
THEOREM GroupReference == Spec /\ Quadless(input) => Reference!Spec
  <1>1. Init => Reference!Init /\ Pending
    BY DEF Init, Reference!Init, Pending
  <1>2. Pending /\ [Next]_vars => Pending'
    BY StepKinds DEF Pending
  <1>3. Quadless(input) /\ [Next]_vars => Quadless(input)'
    BY StepKinds
  <1>4. /\ IInv /\ IInv' /\ RInv /\ LoneInv /\ Pending /\ Quadless(input)
        /\ [Next]_vars
        => [Reference!Next]_(Reference!parserVars)
    <2> SUFFICES ASSUME IInv, IInv', RInv, LoneInv, Pending, Quadless(input), [Next]_vars
                 PROVE  [Reference!Next]_(Reference!parserVars)
      OBVIOUS
    <2>1. ReadsGroups' /\ Quadless(input)'
      <3>1. RInv' /\ LoneInv'
        BY NextRInv, NextLoneInv
      <3>2. IInv' /\ RInv' /\ LoneInv' => ReadsGroups'
        BY AllAreRead, PTL
      <3> QED BY <1>3, <3>1, <3>2
    <2>2. CASE UNCHANGED <<input, result, out>>
      BY <2>2 DEF Reference!parserVars
    <2>3. CASE /\ pc # "returned" /\ UNCHANGED <<input, out>>
               /\ result' = "rejected"
      <3>1. result = "pending" /\ GroupMeaning(input) = {}
        BY <2>1, <2>3 DEF Pending, ReadsGroups
      <3> QED BY <2>3, <3>1 DEF Reference!Next, Reference!Refuse
    <2>4. CASE pc # "returned" /\ input' = input /\ result' = "accepted"
      <3>1. result = "pending" /\ out' \in GroupMeaning(input)
        BY <2>1, <2>4 DEF Pending, ReadsGroups
      <3> QED BY <2>4, <3>1 DEF Reference!Next, Reference!Accept
    <2> QED BY <2>2, <2>3, <2>4, StepKinds
  <1> QED
    BY <1>1, <1>2, <1>3, <1>4, AlwaysIInv, InitRInv, NextRInv, InitLoneInv,
       NextLoneInv, PTL DEF Spec, Reference!Spec
=============================================================================
