------------------------------ MODULE AdaHead ------------------------------
(***************************************************************************)
(* parse_ipv6_ada_head_impl of include/ada_ipv6_head.h, with its 512-bit   *)
(* prefilter and without.  It differs from AdaIPv6 in that a hextet and an *)
(* octet are read in one go, and that the pieces after "::" are moved and  *)
(* cleared instead of swapped.  pc names the place:                        *)
(*   "entry"   the tests before the pieces         (118)                   *)
(*   "piece"   the head of the loop over pieces    (136)                   *)
(*   "hextet"  after parse_hex_piece               (148)                   *)
(*   "number"  the head of the loop over octets    (154)                   *)
(*   "finish"  after the text                      (198)                   *)
(*   "move"    the head of the loop of moves       (204)                   *)
(*   "output"  storing the address                 (214)                   *)
(* and "returned" is the end.                                              *)
(***************************************************************************)
EXTENDS Ascii, FiniteSetsExt

CONSTANTS Texts,        \* the texts the call may be given
          OutBefore     \* the caller's 16 bytes before the call

ASSUME TextsAssumption == Texts \subseteq Seq(Byte)
ASSUME OutAssumption == OutBefore \in [0..15 -> Byte]

VARIABLES
  prefilter,                        \* the template parameter
  input, pc,
  pointer,                          \* pointer - input_ptr
  piece_index, compress, address,
  value, length,                    \* of the hextet that was read
  numbers_seen,                     \* octets of the quad
  moves,                            \* i of the loop of moves, before i--
  result, out

locals == <<value, length, numbers_seen, moves>>
caller == <<prefilter, input, result, out>>
vars == <<pc, pointer, piece_index, compress, address, locals, caller>>

Init ==
  /\ prefilter \in BOOLEAN
  /\ input \in Texts
  /\ pc = "entry"
  /\ pointer = 0 /\ piece_index = 0 /\ compress = -1
  /\ address = [i \in 0..7 |-> 0]
  /\ value = 0 /\ length = 0 /\ numbers_seen = 0 /\ moves = 0
  /\ result = "pending" /\ out = OutBefore

Length == Len(input)
AtEnd == pointer = Length
Current == At(input, pointer)
CurrentIs(c) == ~AtEnd /\ Current = c

\* return 0: nothing is stored.
Reject ==
  /\ pc' = "returned" /\ result' = "rejected"
  /\ UNCHANGED <<pointer, piece_index, compress, address, locals,
                 prefilter, input, out>>

----------------------------------------------------------------------------
(* ipv6_structure_plausible, lines 91-109.                                 *)

LanesOf(c) == {i \in 0..(Length - 1) : At(input, i) = c}
Colons == LanesOf(Colon)
Doubles == {i \in Colons : i - 1 \in Colons}

ShapePlausibleForSeven ==                       \* mutation: 7 colons at most
  /\ Length \in 2..45
  /\ Cardinality(Colons) <= 7
  /\ Cardinality(Doubles) <= 1
  /\ Doubles # {} \/ LanesOf(Dot) # {} \/ Cardinality(Colons) = 7
ShapePlausible ==
  /\ Length \in 2..45
  /\ Cardinality(Colons) <= 8
  /\ Cardinality(Doubles) <= 1
  /\ Doubles # {} \/ LanesOf(Dot) # {} \/ Cardinality(Colons) = 7

----------------------------------------------------------------------------
(* Lines 118-134.                                                          *)

Admitted == Length \in 1..45 /\ (prefilter => ShapePlausible)
OpensWithColon == At(input, 0) = Colon
OpensWithGap == OpensWithColon /\ Length > 1 /\ At(input, 1) = Colon

RejectShape ==
  /\ pc = "entry"
  /\ Admitted => OpensWithColon /\ ~OpensWithGap
  /\ Reject

EnterPieces ==
  /\ pc = "entry" /\ Admitted
  /\ \/ /\ OpensWithGap
        /\ pointer' = 2 /\ piece_index' = 1 /\ compress' = 1
     \/ /\ ~OpensWithColon
        /\ UNCHANGED <<pointer, piece_index, compress>>
  /\ pc' = "piece"
  /\ UNCHANGED <<address, locals, caller>>

----------------------------------------------------------------------------
(* Lines 136-146: the loop over pieces, and parse_hex_piece (52-86).       *)

NeverFull == FALSE                              \* mutation: no test
SlotsFull == piece_index = 8

RejectPiece ==
  /\ pc = "piece" /\ ~AtEnd
  /\ SlotsFull \/ (Current = Colon /\ compress # -1)
  /\ Reject

Compress ==
  /\ pc = "piece" /\ ~AtEnd /\ ~SlotsFull
  /\ Current = Colon /\ compress = -1
  /\ pointer' = pointer + 1
  /\ piece_index' = piece_index + 1
  /\ compress' = piece_index'
  /\ UNCHANGED <<pc, address, locals, caller>>

\* The bytes the table hex_nibble does not map to 0xff.
HexDigits == {c \in Byte : IsHexDigit(c)}

\* How many characters from p on are of the class, at most n.
RunLength(p, n, class) ==
  Max({k \in 0..n : /\ p + k <= Length
                    /\ \A j \in 0..(k - 1) : At(input, p + j) \in class})

\* The number that n characters from p on are, of the four at most that are read.
Number(base, p, n) ==
  LET append(v, i) ==
        IF i < n THEN v * base + HexToBinary(At(input, p + i)) ELSE v
  IN append(append(append(append(0, 0), 1), 2), 3)

HexPiece ==
  /\ pc = "piece" /\ ~AtEnd /\ ~SlotsFull
  /\ Current # Colon
  /\ length' = RunLength(pointer, 4, HexDigits)
  /\ value' = Number(16, pointer, length')
  /\ pointer' = pointer + length'
  /\ pc' = "hextet"
  /\ UNCHANGED <<piece_index, compress, address, numbers_seen, moves, caller>>

EndOfText ==
  /\ pc = "piece" /\ AtEnd
  /\ pc' = "finish"
  /\ UNCHANGED <<pointer, piece_index, compress, address, locals, caller>>

----------------------------------------------------------------------------
(* Lines 148-195: what follows the digits.                                 *)

QuadFitsLate == piece_index <= 7                \* mutation: one late
QuadFits == piece_index <= 6
ColonEndsText == CurrentIs(Colon) /\ pointer + 1 = Length

RejectHextet ==
  /\ pc = "hextet"
  /\ \/ length = 0
     \/ CurrentIs(Dot) /\ ~QuadFits
     \/ ColonEndsText
     \/ ~AtEnd /\ Current \notin {Dot, Colon}
  /\ Reject

StartQuad ==
  /\ pc = "hextet" /\ CurrentIs(Dot) /\ length # 0 /\ QuadFits
  /\ pointer' = pointer - length
  /\ numbers_seen' = 0
  /\ pc' = "number"
  /\ UNCHANGED <<piece_index, compress, address, value, length, moves, caller>>

EndHextet ==
  /\ pc = "hextet" /\ length # 0
  /\ \/ AtEnd /\ pointer' = pointer
     \/ CurrentIs(Colon) /\ ~ColonEndsText /\ pointer' = pointer + 1
  /\ address' = [address EXCEPT ![piece_index] = value]
  /\ piece_index' = piece_index + 1
  /\ pc' = "piece"
  /\ UNCHANGED <<compress, locals, caller>>

----------------------------------------------------------------------------
(* Lines 153-182: the quad.                                                *)

Separated == numbers_seen > 0 => Current = Dot /\ numbers_seen < 4
OctetStart == IF numbers_seen > 0 THEN pointer + 1 ELSE pointer
OctetLength == RunLength(OctetStart, 3, 48..57)
Octet == Number(10, OctetStart, OctetLength)

IsOctetHere ==
  /\ Separated
  /\ OctetLength # 0
  /\ OctetLength > 1 => At(input, OctetStart) # Zero
  /\ Octet <= 255

RejectNumber ==
  /\ pc = "number"
  /\ IF AtEnd THEN numbers_seen # 4 ELSE ~IsOctetHere
  /\ Reject

ReadNumber ==
  /\ pc = "number" /\ ~AtEnd /\ IsOctetHere
  /\ pointer' = OctetStart + OctetLength
  /\ address' = [address EXCEPT ![piece_index] = (@ * 256 + Octet) % 65536]
  /\ numbers_seen' = numbers_seen + 1
  /\ piece_index' = IF numbers_seen' \in {2, 4} THEN piece_index + 1 ELSE piece_index
  /\ UNCHANGED <<pc, compress, value, length, moves, caller>>

EndQuad ==
  /\ pc = "number" /\ AtEnd /\ numbers_seen = 4
  /\ pc' = "finish"
  /\ UNCHANGED <<pointer, piece_index, compress, address, locals, caller>>

----------------------------------------------------------------------------
(* Lines 198-218: the moves and the result.                                *)

Right == piece_index - compress
Dest == 8 - Right

RejectShort ==
  /\ pc = "finish" /\ compress = -1 /\ piece_index # 8
  /\ Reject

InPlace ==
  /\ pc = "finish"
  /\ IF compress = -1 THEN piece_index = 8 ELSE Right <= 0 \/ Dest = compress
  /\ pc' = "output"
  /\ UNCHANGED <<pointer, piece_index, compress, address, locals, caller>>

StartMoves ==
  /\ pc = "finish" /\ compress # -1 /\ Right > 0 /\ Dest # compress
  /\ moves' = Right
  /\ pc' = "move"
  /\ UNCHANGED <<pointer, piece_index, compress, address, value, length,
                 numbers_seen, caller>>

FromTheFront == Right - moves                   \* mutation: the other direction
Moved == moves - 1

Move ==
  /\ pc = "move" /\ moves > 0
  /\ address' = [address EXCEPT ![Dest + Moved] = address[compress + Moved],
                                ![compress + Moved] = 0]
  /\ moves' = moves - 1
  /\ UNCHANGED <<pc, pointer, piece_index, compress, value, length,
                 numbers_seen, caller>>

EndMoves ==
  /\ pc = "move" /\ moves = 0
  /\ pc' = "output"
  /\ UNCHANGED <<pointer, piece_index, compress, address, locals, caller>>

Output ==
  /\ pc = "output"
  /\ out' = [i \in 0..15 |-> IF i % 2 = 0 THEN address[i \div 2] \div 256
                                          ELSE address[i \div 2] % 256]
  /\ result' = "accepted"
  /\ pc' = "returned"
  /\ UNCHANGED <<pointer, piece_index, compress, address, locals, prefilter, input>>

Next ==
  \/ RejectShape \/ EnterPieces
  \/ RejectPiece \/ Compress \/ HexPiece \/ EndOfText
  \/ RejectHextet \/ StartQuad \/ EndHextet
  \/ RejectNumber \/ ReadNumber \/ EndQuad
  \/ RejectShort \/ InPlace \/ StartMoves \/ Move \/ EndMoves \/ Output

Spec == Init /\ [][Next]_vars

----------------------------------------------------------------------------
(* Properties.                                                             *)

\* The type invariant: the values the C types and the control flow leave the
\* locals of parse_ipv6_ada_head_impl.
TypeOK ==
  /\ prefilter \in BOOLEAN
  /\ input \in Texts
  /\ pc \in {"entry", "piece", "hextet", "number", "finish", "move", "output",
             "returned"}
  /\ pointer \in 0..Length
  /\ piece_index \in 0..8 /\ compress \in -1..8
  /\ address \in [0..7 -> Word]
  /\ value \in Word /\ length \in 0..4
  /\ numbers_seen \in 0..4 /\ moves \in 0..7
  /\ result \in {"pending", "accepted", "rejected"}
  /\ out \in [0..15 -> Byte]

\* The one test of piece_index at the head of the loop (137) keeps the stores
\* of lines 176 and 194 in address[8], through a quad that advances it twice,
\* and stepping back over a quad's digits (150) never leaves the text.
StoresInBounds ==
  /\ pc = "hextet" => piece_index \in 0..7 /\ length <= pointer
  /\ pc = "number" /\ ~AtEnd /\ IsOctetHere => piece_index \in 0..7

\* The moves never write over a piece that is still to be moved, although
\* source and destination overlap when "::" stands for fewer groups than
\* follow it: the slot a piece moves to holds zero (204-207).
MovesIntoZeros ==
  pc = "move" /\ moves > 0 => address[Dest + Moved] = 0

=============================================================================
