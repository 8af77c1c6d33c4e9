--------------------------- MODULE AdaHeadProofs ---------------------------
(***************************************************************************)
(* Theorems about parse_ipv6_ada_head_impl, prefiltered or not, for texts  *)
(* of every length and content: its locals keep their ranges, its stores   *)
(* stay in the address, and no move overwrites a piece still to be moved.  *)
(***************************************************************************)
EXTENDS AdaHead, TextProofs

\* What is true before the text is read.
EntryInv ==
  pc = "entry" => pointer = 0 /\ piece_index = 0 /\ compress = -1

\* A hextet that was read lies behind the pointer and has a slot.
HextetInv == pc = "hextet" => piece_index <= 7 /\ length <= pointer

\* A quad begins in slot 6 at the latest, and fills one slot with every second
\* octet.
QuadInv ==
  pc = "number" => /\ numbers_seen < 2 => piece_index <= 6
                   /\ numbers_seen < 4 => piece_index <= 7

\* The slot at piece_index holds an octet of the quad and waits for another.
HalfFilled == pc = "number" /\ numbers_seen \in {1, 3}

\* Slots that were not reached hold zero, and "::" lies behind piece_index.
ZeroInv ==
  pc \in {"entry", "piece", "hextet", "number", "finish"} =>
    /\ compress = -1 \/ compress \in 1..piece_index
    /\ \A i \in 0..7 :
         i > piece_index \/ (i = piece_index /\ ~HalfFilled) => address[i] = 0

\* The pieces to move have gaps of zeros after them, as wide as the move.
MoveInv ==
  pc = "move" =>
    /\ compress \in 1..piece_index /\ piece_index <= 7 /\ moves <= Right
    /\ \A i \in 0..7 : compress + moves <= i /\ i < Dest + moves => address[i] = 0

IInv ==
  /\ TypeOK
  /\ EntryInv
  /\ HextetInv
  /\ QuadInv
  /\ ZeroInv
  /\ MoveInv

----------------------------------------------------------------------------
\* The pointer stays within the text, and what is there short of the end is a
\* byte.
LEMMA TextFacts ==
  ASSUME TypeOK
  PROVE  /\ Len(input) \in Nat /\ pointer \in Nat /\ pointer <= Len(input)
         /\ ~AtEnd => pointer < Len(input)
         /\ \A i \in 0..(Len(input) - 1) : At(input, i) \in Byte
<1>1. input \in Seq(Byte)
  BY TextsAssumption DEF TypeOK
<1>2. Len(input) \in Nat /\ pointer \in Nat /\ pointer <= Len(input)
  BY <1>1 DEF TypeOK, Length
<1>3. ASSUME NEW i \in 0..(Len(input) - 1) PROVE At(input, i) \in Byte
  <2>1. i + 1 \in 1..Len(input)
    BY <1>2
  <2> QED
    BY <1>1, <2>1 DEF At
<1> QED
  BY <1>2, <1>3 DEF AtEnd, Length

\* A run of at most n characters of a class lies in the text, and each of them
\* is of the class.
LEMMA RunLengthFacts ==
  ASSUME TypeOK, NEW p \in Nat, p <= Len(input), NEW n \in Nat, NEW class
  PROVE  /\ RunLength(p, n, class) \in 0..n
         /\ p + RunLength(p, n, class) <= Len(input)
         /\ \A j \in 0..(RunLength(p, n, class) - 1) : At(input, p + j) \in class
<1> DEFINE K == {k \in 0..n : /\ p + k <= Length
                              /\ \A j \in 0..(k - 1) : At(input, p + j) \in class}
<1>1. Len(input) \in Nat
  BY TextFacts
<1>2. K \subseteq 0..n /\ 0 \in K
  BY <1>1 DEF Length
<1>3. PICK x \in K : \A y \in K : y <= x
  BY <1>2, GreatestNumber
<1>4. \A y \in K : x >= y
  BY <1>2, <1>3
<1>5. Max(K) \in K
  BY <1>4, <1>3 DEF Max
<1>6. RunLength(p, n, class) = Max(K)
  BY DEF RunLength
<1> QED
  BY <1>5, <1>6 DEF Length

\* The number that a run of at most four digits is, is a natural number; for
\* hexadecimal digits it has 16 bits.
LEMMA NumberFacts ==
  ASSUME TypeOK, NEW base \in {10, 16}, NEW p \in Nat, NEW n \in 0..4,
         \A j \in 0..(n - 1) : HexToBinary(At(input, p + j)) \in 0..15
  PROVE  Number(base, p, n) \in Nat /\ Number(16, p, n) \in Word
<1> DEFINE h(i) == HexToBinary(At(input, p + i))
           step(b, v, i) == IF i < n THEN v * b + h(i) ELSE v
<1>1. \A i \in 0..3 : i < n => h(i) \in 0..15
  OBVIOUS
<1>2. \A b \in {10, 16} : \A v \in Nat : \A i \in 0..3 : step(b, v, i) \in Nat
  BY <1>1
<1>3. ASSUME NEW b \in {10, 16}
      PROVE  step(b, step(b, step(b, step(b, 0, 0), 1), 2), 3) \in Nat
  <2> HIDE DEF step
  <2>1. 0 \in 0..3 /\ 1 \in 0..3 /\ 2 \in 0..3 /\ 3 \in 0..3
    OBVIOUS
  <2>2. PICK u \in Nat : u = step(b, 0, 0)
    BY <1>2, <2>1
  <2>3. PICK v \in Nat : v = step(b, u, 1)
    BY <1>2, <2>1
  <2>4. PICK w \in Nat : w = step(b, v, 2)
    BY <1>2, <2>1
  <2>5. step(b, w, 3) \in Nat
    BY <1>2, <2>1
  <2> QED BY <2>2, <2>3, <2>4, <2>5, Zenon
<1>4. step(16, step(16, step(16, step(16, 0, 0), 1), 2), 3) <= 65535
  <2>1. PICK u \in Nat : u = step(16, 0, 0) /\ u <= 15
    BY <1>1
  <2>2. PICK v \in Nat : v = step(16, u, 1) /\ v <= 255
    BY <1>1, <2>1
  <2>3. PICK w \in Nat : w = step(16, v, 2) /\ w <= 4095
    BY <1>1, <2>2
  <2>4. step(16, w, 3) <= 65535
    BY <1>1, <2>3
  <2> HIDE DEF step
  <2>5. step(16, step(16, step(16, step(16, 0, 0), 1), 2), 3) = step(16, w, 3)
    BY <2>1, <2>2, <2>3
  <2> QED BY <2>4, <2>5
<1>5. \A b \in {10, 16} :
        Number(b, p, n) = step(b, step(b, step(b, step(b, 0, 0), 1), 2), 3)
  BY DEF Number
<1>6. 16 \in {10, 16}
  OBVIOUS
<1> QED
  <2> HIDE DEF step
  <2> QED BY <1>3, <1>4, <1>5, <1>6 DEF Word

\* parse_hex_piece yields at most four digits and a 16-bit value.
LEMMA HexPieceFacts ==
  ASSUME TypeOK
  PROVE  LET n == RunLength(pointer, 4, HexDigits)
         IN /\ n \in 0..4 /\ pointer + n <= Len(input)
            /\ Number(16, pointer, n) \in Word
<1>1. pointer \in Nat /\ pointer <= Len(input)
  BY TextFacts
<1>2. PICK n : n = RunLength(pointer, 4, HexDigits)
  OBVIOUS
<1>3. /\ n \in 0..4 /\ pointer + n <= Len(input)
      /\ \A j \in 0..(n - 1) : At(input, pointer + j) \in HexDigits
  BY <1>1, <1>2, RunLengthFacts
<1>4. \A j \in 0..(n - 1) : HexToBinary(At(input, pointer + j)) \in 0..15
  BY <1>3, HexDigitValue DEF HexDigits
<1>5. Number(16, pointer, n) \in Word
  BY <1>1, <1>3, <1>4, NumberFacts
<1> QED
  BY <1>2, <1>3, <1>5

\* An octet starts in the text, has at most three digits there, and is a
\* natural number.
LEMMA OctetFacts ==
  ASSUME TypeOK, ~AtEnd
  PROVE  /\ OctetStart \in Nat /\ OctetStart <= Len(input)
         /\ OctetLength \in 0..3 /\ OctetStart + OctetLength <= Len(input)
         /\ Octet \in Nat
<1>1. OctetStart \in Nat /\ OctetStart <= Len(input)
  BY TextFacts DEF OctetStart
<1>2. /\ OctetLength \in 0..3 /\ OctetStart + OctetLength <= Len(input)
      /\ \A j \in 0..(OctetLength - 1) : At(input, OctetStart + j) \in 48..57
  BY <1>1, RunLengthFacts DEF OctetLength
<1>3. \A c \in 48..57 : HexToBinary(c) \in 0..15
  BY DEF HexToBinary, IsDigit
<1>4. Octet \in Nat
  <2>1. \A j \in 0..(OctetLength - 1) :
          HexToBinary(At(input, OctetStart + j)) \in 0..15
    BY <1>2, <1>3
  <2>2. OctetLength \in 0..4 /\ 10 \in {10, 16}
    BY <1>2
  <2>3. Number(10, OctetStart, OctetLength) \in Nat
    BY <1>1, <2>1, <2>2, NumberFacts
  <2> QED BY <2>3 DEF Octet
<1> QED
  BY <1>1, <1>2, <1>4

----------------------------------------------------------------------------
LEMMA InitIInv == Init => IInv
<1> SUFFICES ASSUME Init PROVE IInv
  OBVIOUS
<1>1. input \in Seq(Byte) /\ Len(input) \in Nat
  BY TextsAssumption DEF Init
<1>2. TypeOK
  BY <1>1, OutAssumption DEF Init, TypeOK, Length, Word
<1>3. EntryInv /\ HextetInv /\ QuadInv /\ ZeroInv /\ MoveInv
  BY DEF Init, EntryInv, HextetInv, QuadInv, ZeroInv, MoveInv
<1> QED
  BY <1>2, <1>3 DEF IInv

\* A call that rejects leaves every local as it was and returns.
LEMMA RejectIInv ==
  ASSUME IInv, Reject
  PROVE  IInv'
<1>1. TypeOK'
  BY DEF IInv, TypeOK, Reject, locals, Length
<1>2. EntryInv' /\ HextetInv' /\ QuadInv' /\ ZeroInv' /\ MoveInv'
  BY DEF Reject, EntryInv, HextetInv, QuadInv, ZeroInv, MoveInv
<1> QED
  BY <1>1, <1>2 DEF IInv

\* Every step of the call preserves the inductive invariant.
LEMMA StepIInv ==
  ASSUME IInv, Next
  PROVE  IInv'
<1> USE DEF locals, caller, SlotsFull, QuadFits, Length
<1>0. /\ Len(input) \in Nat /\ pointer \in Nat /\ pointer <= Len(input)
      /\ ~AtEnd => pointer < Len(input)
  BY TextFacts DEF IInv
<1>1. CASE \/ RejectShape \/ RejectPiece \/ RejectHextet \/ RejectNumber
           \/ RejectShort
  BY <1>1, RejectIInv DEF RejectShape, RejectPiece, RejectHextet,
     RejectNumber, RejectShort
<1>2. CASE EnterPieces
  <2>1. pointer' \in 0..Len(input) /\ piece_index' \in 0..8 /\ compress' \in -1..8
    <3>1. OpensWithGap => Len(input) > 1
      BY DEF OpensWithGap
    <3>2. pointer \in 0..Len(input) /\ piece_index \in 0..8 /\ compress \in -1..8
      BY DEF IInv, TypeOK
    <3>3. CASE OpensWithGap /\ pointer' = 2 /\ piece_index' = 1 /\ compress' = 1
      BY <1>0, <3>1, <3>3
    <3>4. CASE UNCHANGED <<pointer, piece_index, compress>>
      BY <3>2, <3>4
    <3> QED BY <1>2, <3>3, <3>4 DEF EnterPieces
  <2>2. TypeOK'
    BY <1>2, <2>1 DEF IInv, TypeOK, EnterPieces
  <2>3. (EntryInv /\ HextetInv /\ QuadInv /\ ZeroInv /\ MoveInv)'
    BY <1>2, <2>1 DEF IInv, EnterPieces, EntryInv, HextetInv, QuadInv, ZeroInv,
       MoveInv, HalfFilled
  <2> QED
    BY <2>2, <2>3 DEF IInv
<1>3. CASE Compress
  <2>1. piece_index \in 0..7 /\ pointer < Len(input)
    BY <1>0, <1>3 DEF IInv, TypeOK, Compress
  <2>2. TypeOK'
    BY <1>0, <1>3, <2>1 DEF IInv, TypeOK, Compress
  <2>3. (EntryInv /\ HextetInv /\ QuadInv /\ ZeroInv /\ MoveInv)'
    BY <1>3, <2>1 DEF IInv, Compress, EntryInv, HextetInv, QuadInv, ZeroInv,
       MoveInv, HalfFilled
  <2> QED
    BY <2>2, <2>3 DEF IInv
<1>4. CASE HexPiece
  <2>1. piece_index \in 0..7
    BY <1>4 DEF IInv, TypeOK, HexPiece
  <2>2. length' \in 0..4 /\ value' \in Word /\ pointer + length' <= Len(input)
    <3>1. /\ length' = RunLength(pointer, 4, HexDigits)
          /\ value' = Number(16, pointer, length')
      BY <1>4 DEF HexPiece
    <3> QED BY <3>1, HexPieceFacts DEF IInv
  <2>3. pointer' \in 0..Len(input) /\ length' <= pointer'
    BY <1>0, <1>4, <2>2 DEF HexPiece
  <2>4. TypeOK'
    BY <1>4, <2>2, <2>3 DEF IInv, TypeOK, HexPiece
  <2>5. (EntryInv /\ HextetInv /\ QuadInv /\ ZeroInv /\ MoveInv)'
    BY <1>4, <2>1, <2>3 DEF IInv, HexPiece, EntryInv, HextetInv, QuadInv,
       ZeroInv, MoveInv, HalfFilled
  <2> QED
    BY <2>4, <2>5 DEF IInv
<1>5. CASE EndOfText \/ EndQuad
  <2>1. TypeOK'
    BY <1>5 DEF IInv, TypeOK, EndOfText, EndQuad
  <2>2. (EntryInv /\ HextetInv /\ QuadInv /\ ZeroInv /\ MoveInv)'
    BY <1>5 DEF IInv, EndOfText, EndQuad, EntryInv, HextetInv, QuadInv,
       ZeroInv, MoveInv, HalfFilled
  <2> QED
    BY <2>1, <2>2 DEF IInv
<1>6. CASE StartQuad
  <2>1. length \in 0..4 /\ length <= pointer /\ piece_index \in 0..6
    BY <1>6 DEF IInv, TypeOK, HextetInv, StartQuad
  <2>2. pointer' \in 0..Len(input)
    BY <1>0, <1>6, <2>1 DEF StartQuad
  <2>3. TypeOK'
    BY <1>6, <2>2 DEF IInv, TypeOK, StartQuad
  <2>4. (EntryInv /\ HextetInv /\ QuadInv /\ ZeroInv /\ MoveInv)'
    BY <1>6, <2>1 DEF IInv, StartQuad, EntryInv, HextetInv, QuadInv, ZeroInv,
       MoveInv, HalfFilled
  <2> QED
    BY <2>3, <2>4 DEF IInv
<1>7. CASE EndHextet
  <2>1. piece_index \in 0..7
    BY <1>7 DEF IInv, TypeOK, HextetInv, EndHextet
  <2>2. pointer' \in 0..Len(input)
    BY <1>0, <1>7 DEF EndHextet, CurrentIs
  <2>3. /\ address' \in [0..7 -> Word]
        /\ \A i \in 0..7 : i # piece_index => address'[i] = address[i]
    BY <1>7 DEF IInv, TypeOK, EndHextet
  <2>4. TypeOK'
    BY <1>7, <2>1, <2>2, <2>3 DEF IInv, TypeOK, EndHextet
  <2>5. ZeroInv'
    BY <1>7, <2>1, <2>3 DEF IInv, ZeroInv, EndHextet, HalfFilled
  <2>6. (EntryInv /\ HextetInv /\ QuadInv /\ MoveInv)'
    BY <1>7 DEF IInv, EndHextet, EntryInv, HextetInv, QuadInv, MoveInv
  <2> QED
    BY <2>4, <2>5, <2>6 DEF IInv
<1>8. CASE ReadNumber
  <2>1. numbers_seen \in 0..3 /\ piece_index \in 0..7
    BY <1>8 DEF IInv, TypeOK, QuadInv, ReadNumber, IsOctetHere, Separated
  <2>2. pointer' \in 0..Len(input)
    BY <1>0, <1>8, OctetFacts DEF IInv, ReadNumber
  <2>3. /\ address' \in [0..7 -> Word]
        /\ \A i \in 0..7 : i # piece_index => address'[i] = address[i]
    <3>1. address[piece_index] \in Nat
      <4>1. address[piece_index] \in Word
        BY <2>1 DEF IInv, TypeOK
      <4> QED BY <4>1 DEF Word
    <3>2. Octet \in Nat
      BY <1>8, OctetFacts DEF IInv, ReadNumber
    <3>3. (address[piece_index] * 256 + Octet) % 65536 \in Word
      <4>1. \A v \in Nat : v % 65536 \in Word
        BY DEF Word
      <4>2. address[piece_index] * 256 + Octet \in Nat
        BY <3>1, <3>2
      <4> QED BY <4>1, <4>2
    <3>4. PICK v \in Word : v = (address[piece_index] * 256 + Octet) % 65536
      BY <3>3
    <3>5. address \in [0..7 -> Word]
      BY DEF IInv, TypeOK
    <3>6. address' = [address EXCEPT ![piece_index] = v]
      BY <1>8, <3>4 DEF ReadNumber
    <3> QED BY <2>1, <3>5, <3>6
  <2>4. /\ numbers_seen' = numbers_seen + 1
        /\ piece_index' \in {piece_index, piece_index + 1}
        /\ numbers_seen' \in {2, 4} => piece_index' = piece_index + 1
        /\ numbers_seen' \notin {2, 4} => piece_index' = piece_index
    BY <1>8 DEF ReadNumber
  <2>5. TypeOK'
    <3>1. numbers_seen' \in 0..4 /\ piece_index' \in 0..8
      BY <2>1, <2>4
    <3>2. UNCHANGED <<pc, compress, value, length, moves, caller>>
      BY <1>8 DEF ReadNumber
    <3> QED BY <2>2, <2>3, <3>1, <3>2 DEF IInv, TypeOK
  <2>6. ZeroInv'
    <3>1. compress' = -1 \/ compress' \in 1..piece_index'
      BY <1>8, <2>1, <2>4 DEF IInv, TypeOK, ZeroInv, ReadNumber
    <3>2. ASSUME NEW i \in 0..7,
                 i > piece_index' \/ (i = piece_index' /\ ~HalfFilled')
          PROVE  address'[i] = 0
      <4>1. i > piece_index
        <5>1. pc' = "number"
          BY <1>8 DEF ReadNumber
        <5>2. numbers_seen' \in {1, 3} \/ numbers_seen' \in {2, 4}
          BY <2>1, <2>4
        <5> QED BY <2>1, <2>4, <3>2, <5>1, <5>2 DEF HalfFilled
      <4>2. address[i] = 0
        BY <1>8, <4>1 DEF IInv, ZeroInv, ReadNumber
      <4> QED BY <2>1, <2>3, <4>1, <4>2
    <3>3. \A i \in 0..7 : i > piece_index' \/ (i = piece_index' /\ ~HalfFilled')
                              => address'[i] = 0
      BY <3>2
    <3> QED BY <3>1, <3>3, Zenon DEF ZeroInv
  <2>7. QuadInv'
    BY <1>8, <2>1, <2>4 DEF IInv, QuadInv, ReadNumber
  <2>8. (EntryInv /\ HextetInv /\ MoveInv)'
    BY <1>8 DEF ReadNumber, EntryInv, HextetInv, MoveInv
  <2> QED
    BY <2>5, <2>6, <2>7, <2>8 DEF IInv
<1>9. CASE InPlace
  <2>1. TypeOK'
    BY <1>9 DEF IInv, TypeOK, InPlace
  <2>2. (EntryInv /\ HextetInv /\ QuadInv /\ ZeroInv /\ MoveInv)'
    BY <1>9 DEF InPlace, EntryInv, HextetInv, QuadInv, ZeroInv, MoveInv
  <2> QED
    BY <2>1, <2>2 DEF IInv
<1>10. CASE StartMoves
  <2>1. compress \in 1..piece_index /\ piece_index \in 0..8
    BY <1>10 DEF IInv, TypeOK, ZeroInv, StartMoves
  <2>2. piece_index # 8
    BY <1>10, <2>1 DEF StartMoves, Dest, Right
  <2>3. moves' = piece_index - compress /\ moves' \in 0..7
    BY <1>10, <2>1 DEF StartMoves, Right
  <2>4. TypeOK'
    BY <1>10, <2>3 DEF IInv, TypeOK, StartMoves
  <2>5. MoveInv'
    <3>1. \A i \in 0..7 : i >= piece_index => address[i] = 0
      BY <1>10, <2>1 DEF IInv, ZeroInv, StartMoves, HalfFilled
    <3>2. /\ compress' = compress /\ piece_index' = piece_index
          /\ address' = address
      BY <1>10 DEF StartMoves
    <3> QED BY <2>1, <2>2, <2>3, <3>1, <3>2 DEF MoveInv, Right, Dest
  <2>6. (EntryInv /\ HextetInv /\ QuadInv /\ ZeroInv)'
    BY <1>10 DEF StartMoves, EntryInv, HextetInv, QuadInv, ZeroInv
  <2> QED
    BY <2>4, <2>5, <2>6 DEF IInv
<1>11. CASE Move
  <2>1. /\ compress \in 1..piece_index /\ piece_index \in 0..7
        /\ moves \in 1..7 /\ moves <= piece_index - compress
    BY <1>11 DEF IInv, TypeOK, MoveInv, Move, Right
  <2>2. PICK from, to : /\ from = compress + Moved /\ to = Dest + Moved
                        /\ from = compress + moves - 1
                        /\ to = 8 - (piece_index - compress) + moves - 1
    BY <2>1 DEF Moved, Dest, Right
  <2>3. from \in 0..7 /\ to \in 0..7 /\ from < to
    BY <2>1, <2>2
  <2>4. address' = [address EXCEPT ![to] = address[from], ![from] = 0]
    BY <1>11, <2>2 DEF Move
  <2>5. /\ address' \in [0..7 -> Word]
        /\ address'[from] = 0
        /\ \A i \in 0..7 : i \notin {from, to} => address'[i] = address[i]
    <3>1. address \in [0..7 -> Word] /\ 0 \in Word
      BY DEF IInv, TypeOK, Word
    <3> QED BY <2>3, <2>4, <3>1
  <2>6. /\ moves' = moves - 1 /\ compress' = compress
        /\ piece_index' = piece_index
    BY <1>11 DEF Move
  <2>7. TypeOK'
    <3>1. moves' \in 0..7
      BY <2>1, <2>6
    <3> QED BY <1>11, <2>5, <3>1 DEF IInv, TypeOK, Move
  <2>8. MoveInv'
    <3>1. ASSUME NEW i \in 0..7, from <= i, i < to
          PROVE  address'[i] = 0
      <4>1. CASE i = from
        BY <2>5, <4>1
      <4>2. CASE i # from
        <5>1. compress + moves <= i /\ i < Dest + moves
          BY <2>1, <2>2, <3>1, <4>2 DEF Dest, Right
        <5>2. address[i] = 0
          BY <1>11, <5>1 DEF IInv, MoveInv, Move
        <5> QED BY <2>3, <2>5, <3>1, <4>2, <5>2
      <4> QED BY <4>1, <4>2
    <3>2. /\ compress' + moves' = from
          /\ Dest' + moves' = to
          /\ compress' \in 1..piece_index' /\ piece_index' <= 7 /\ moves' <= Right'
      BY <2>1, <2>2, <2>6 DEF Dest, Right
    <3> QED BY <3>1, <3>2 DEF MoveInv
  <2>9. (EntryInv /\ HextetInv /\ QuadInv /\ ZeroInv)'
    BY <1>11 DEF Move, EntryInv, HextetInv, QuadInv, ZeroInv
  <2> QED
    BY <2>7, <2>8, <2>9 DEF IInv
<1>12. CASE EndMoves
  <2>1. TypeOK'
    BY <1>12 DEF IInv, TypeOK, EndMoves
  <2>2. (EntryInv /\ HextetInv /\ QuadInv /\ ZeroInv /\ MoveInv)'
    BY <1>12 DEF EndMoves, EntryInv, HextetInv, QuadInv, ZeroInv, MoveInv
  <2> QED
    BY <2>1, <2>2 DEF IInv
<1>13. CASE Output
  <2>1. out' \in [0..15 -> Byte]
    <3>1. \A i \in 0..15 : i \div 2 \in 0..7
      OBVIOUS
    <3>2. \A w \in Word : w \div 256 \in Byte /\ w % 256 \in Byte
      BY DEF Word, Byte
    <3> QED BY <1>13, <3>1, <3>2 DEF IInv, TypeOK, Output
  <2>2. TypeOK'
    BY <1>13, <2>1 DEF IInv, TypeOK, Output
  <2>3. (EntryInv /\ HextetInv /\ QuadInv /\ ZeroInv /\ MoveInv)'
    BY <1>13 DEF Output, EntryInv, HextetInv, QuadInv, ZeroInv, MoveInv
  <2> QED
    BY <2>2, <2>3 DEF IInv
<1> QED
  BY <1>1, <1>2, <1>3, <1>4, <1>5, <1>6, <1>7, <1>8, <1>9, <1>10, <1>11,
     <1>12, <1>13 DEF Next

----------------------------------------------------------------------------
\* The inductive invariant holds in every reachable state.
THEOREM AlwaysIInv == Spec => []IInv
<1>1. IInv /\ UNCHANGED vars => IInv'
  BY DEF IInv, TypeOK, EntryInv, HextetInv, QuadInv, ZeroInv, MoveInv,
     HalfFilled, Right, Dest, Length, vars, locals, caller
<1> QED
  BY InitIInv, StepIInv, <1>1, PTL DEF Spec

\* parse_ipv6_ada_head_impl keeps its locals in the ranges of TypeOK, for texts
\* of any length, with the prefilter and without.
THEOREM TypeCorrect == Spec => []TypeOK
BY AlwaysIInv, PTL DEF IInv

\* No text makes parse_ipv6_ada_head_impl store outside address[8] or step back
\* over the beginning of the text (lines 150, 176, 194).
THEOREM SafeStores == Spec => []StoresInBounds
<1>1. IInv => StoresInBounds
  BY DEF IInv, TypeOK, StoresInBounds, HextetInv, QuadInv, IsOctetHere, Separated
<1> QED
  BY AlwaysIInv, <1>1, PTL

\* No text makes the moves of lines 204-207 overwrite a piece that is still to
\* be moved.
THEOREM MovesLoseNothing == Spec => []MovesIntoZeros
<1>1. ASSUME IInv, pc = "move", moves > 0
      PROVE  address[Dest + Moved] = 0
  <2>1. /\ compress \in 1..piece_index /\ piece_index \in 0..7
        /\ moves \in 1..7 /\ moves <= piece_index - compress
    BY <1>1 DEF IInv, TypeOK, MoveInv, Right
  <2>2. PICK to : to = Dest + Moved
    OBVIOUS
  <2>3. to \in 0..7 /\ compress + moves <= to /\ to < Dest + moves
    BY <2>1, <2>2 DEF Dest, Right, Moved
  <2> QED
    BY <1>1, <2>2, <2>3 DEF IInv, MoveInv
<1>2. IInv => MovesIntoZeros
  BY <1>1 DEF MovesIntoZeros
<1> QED
  BY AlwaysIInv, <1>2, PTL

=============================================================================
