------------------------------ MODULE AdaIPv6 ------------------------------
(***************************************************************************)
(* parse_ipv6_ada of include/ada_ip.h, one action per loop iteration or    *)
(* branch.  pc names the loop the call is in:                              *)
(*   "entry"   before the leading-colon test       (115)                   *)
(*   "piece"   the head of the loop over pieces    (121)                   *)
(*   "hex"     reading the digits of a hextet      (131)                   *)
(*   "number"  the head of the loop over octets    (142)                   *)
(*   "digit"   reading the digits of an octet      (152)                   *)
(*   "finish"  after the text                      (182)                   *)
(*   "swap"    moving the pieces after "::"        (185)                   *)
(*   "output"  storing the address                 (194)                   *)
(* and "returned" is the end.  Locals that are dead keep their last value. *)
(***************************************************************************)
EXTENDS Ascii

CONSTANTS Texts,        \* the texts the call may be given
          OutBefore     \* the caller's 16 bytes before the call

ASSUME TextsAssumption == Texts \subseteq Seq(Byte)
ASSUME OutAssumption == OutBefore \in [0..15 -> Byte]

VARIABLES
  input,          \* the bytes of the string_view
  pc,             \* where the call is
  pointer,        \* pointer - input.data()
  piece_index, compress, address,
  value, length,                    \* of the hextet being read
  numbers_seen, ipv4_piece,         \* of the embedded quad being read
  swaps,
  result,         \* "pending", then what the call returns
  out             \* the 16 bytes at ptr

reading == <<pointer, piece_index, compress, address>>
hextet == <<value, length>>
quad == <<numbers_seen, ipv4_piece>>
caller == <<input, result, out>>
vars == <<reading, hextet, quad, swaps, pc, caller>>

Uint16(n) == n % 65536

Init ==
  /\ input \in Texts
  /\ pc = "entry"
  /\ pointer = 0
  /\ piece_index = 0
  /\ compress = -1
  /\ address = [i \in 0..7 |-> 0]
  /\ value = 0 /\ length = 0
  /\ numbers_seen = 0 /\ ipv4_piece = -1
  /\ swaps = 0
  /\ result = "pending"
  /\ out = OutBefore

AtEnd == pointer = Len(input)
Current == At(input, pointer)
CurrentIs(c) == ~AtEnd /\ Current = c
CurrentIsDigit == ~AtEnd /\ IsDigit(Current)

\* return 0: nothing is stored.
Reject ==
  /\ pc' = "returned"
  /\ result' = "rejected"
  /\ UNCHANGED <<reading, hextet, quad, swaps, input, out>>

----------------------------------------------------------------------------
(* Lines 108-119: a text that begins with ':' has to begin with "::".      *)

RejectEmpty == pc = "entry" /\ Len(input) = 0 /\ Reject

OpensWithGap == Len(input) > 1 /\ At(input, 1) = Colon

RejectLoneColon ==
  /\ pc = "entry"
  /\ Len(input) > 0 /\ At(input, 0) = Colon /\ ~OpensWithGap
  /\ Reject

LeadingCompress ==
  /\ pc = "entry"
  /\ Len(input) > 0 /\ At(input, 0) = Colon /\ OpensWithGap
  /\ pointer' = pointer + 2
  /\ piece_index' = piece_index + 1
  /\ compress' = piece_index'
  /\ pc' = "piece"
  /\ UNCHANGED <<address, hextet, quad, swaps, caller>>

LeadingPiece ==
  /\ pc = "entry"
  /\ Len(input) > 0 /\ At(input, 0) # Colon
  /\ pc' = "piece"
  /\ UNCHANGED <<reading, hextet, quad, swaps, caller>>

----------------------------------------------------------------------------
(* Lines 121-130: the loop over pieces.                                    *)

NeverFull == FALSE                                        \* mutation: no test
SlotsFull == piece_index = 8

RejectPiece ==
  /\ pc = "piece" /\ ~AtEnd
  /\ \/ SlotsFull
     \/ Current = Colon /\ compress # -1
  /\ Reject

Compress ==
  /\ pc = "piece" /\ ~AtEnd /\ ~SlotsFull
  /\ Current = Colon /\ compress = -1
  /\ pointer' = pointer + 1
  /\ piece_index' = piece_index + 1
  /\ compress' = piece_index'
  /\ UNCHANGED <<address, hextet, quad, swaps, pc, caller>>

StartHextet ==
  /\ pc = "piece" /\ ~AtEnd /\ ~SlotsFull
  /\ Current # Colon
  /\ value' = 0 /\ length' = 0
  /\ pc' = "hex"
  /\ UNCHANGED <<reading, quad, swaps, caller>>

EndOfText ==
  /\ pc = "piece" /\ AtEnd
  /\ pc' = "finish"
  /\ UNCHANGED <<reading, hextet, quad, swaps, caller>>

----------------------------------------------------------------------------
(* Lines 131-179: a hextet, and what may follow it.                        *)

AnyHex == ~AtEnd /\ IsHexDigit(Current)                 \* mutation: no limit
MoreHex == length < 4 /\ ~AtEnd /\ IsHexDigit(Current)

HexDigit ==
  /\ pc = "hex" /\ MoreHex
  /\ value' = Uint16(value * 16 + HexToBinary(Current))
  /\ length' = length + 1
  /\ pointer' = pointer + 1
  /\ UNCHANGED <<piece_index, compress, address, quad, swaps, pc, caller>>

NothingEnds == FALSE                                      \* mutation: no test
ColonEndsText == pointer + 1 = Len(input)

QuadFitsLate == piece_index <= 7                          \* mutation: one late
QuadFits == piece_index <= 6

RejectHextet ==
  /\ pc = "hex" /\ ~MoreHex
  /\ \/ CurrentIs(Dot) /\ (length = 0 \/ ~QuadFits)
     \/ CurrentIs(Colon) /\ ColonEndsText
     \/ ~AtEnd /\ Current # Dot /\ Current # Colon
  /\ Reject

EndHextet ==
  /\ pc = "hex" /\ ~MoreHex
  /\ \/ AtEnd /\ pointer' = pointer
     \/ CurrentIs(Colon) /\ ~ColonEndsText /\ pointer' = pointer + 1
  /\ address' = [address EXCEPT ![piece_index] = value]
  /\ piece_index' = piece_index + 1
  /\ pc' = "piece"
  /\ UNCHANGED <<compress, hextet, quad, swaps, caller>>

StayBehindDigits == pointer                               \* mutation: no step
BeforeDigits == pointer - length

\* The digits just read belong to an octet: go back and read them again.
StartQuad ==
  /\ pc = "hex" /\ ~MoreHex
  /\ CurrentIs(Dot) /\ length # 0 /\ QuadFits
  /\ pointer' = BeforeDigits
  /\ numbers_seen' = 0
  /\ pc' = "number"
  /\ UNCHANGED <<piece_index, compress, address, hextet, ipv4_piece, swaps,
                 caller>>

----------------------------------------------------------------------------
(* Lines 142-170: the embedded dotted quad.                                *)

\* The pointer at line 151, past the '.' between two octets.
OctetStart == IF numbers_seen > 0 THEN pointer + 1 ELSE pointer

NoSeparator == numbers_seen > 0 /\ ~(Current = Dot /\ numbers_seen < 4)

NoOctet == ~(OctetStart # Len(input) /\ IsDigit(At(input, OctetStart)))

RejectNumber ==
  /\ pc = "number" /\ ~AtEnd
  /\ NoSeparator \/ NoOctet
  /\ Reject

StartNumber ==
  /\ pc = "number" /\ ~AtEnd
  /\ ~NoSeparator /\ ~NoOctet
  /\ pointer' = OctetStart
  /\ ipv4_piece' = -1
  /\ pc' = "digit"
  /\ UNCHANGED <<piece_index, compress, address, hextet, numbers_seen, swaps,
                 caller>>

RejectShortQuad == pc = "number" /\ AtEnd /\ numbers_seen # 4 /\ Reject

EndQuad ==
  /\ pc = "number" /\ AtEnd /\ numbers_seen = 4
  /\ pc' = "finish"
  /\ UNCHANGED <<reading, hextet, quad, swaps, caller>>

NextOctetValue ==
  LET number == Current - Zero
  IN IF ipv4_piece = -1 THEN number ELSE ipv4_piece * 10 + number

RejectDigit ==
  /\ pc = "digit" /\ CurrentIsDigit
  /\ ipv4_piece = 0 \/ NextOctetValue > 255
  /\ Reject

OctetDigitStuck ==                                        \* mutation: no pointer++
  /\ pc = "digit" /\ CurrentIsDigit
  /\ ipv4_piece # 0 /\ NextOctetValue <= 255
  /\ ipv4_piece' = NextOctetValue
  /\ UNCHANGED <<reading, hextet, numbers_seen, swaps, pc, caller>>

OctetDigit ==
  /\ pc = "digit" /\ CurrentIsDigit
  /\ ipv4_piece # 0 /\ NextOctetValue <= 255
  /\ ipv4_piece' = NextOctetValue
  /\ pointer' = pointer + 1
  /\ UNCHANGED <<piece_index, compress, address, hextet, numbers_seen, swaps,
                 pc, caller>>

QuadEndsSlot(n) == n = 4                                  \* mutation: not at 2
EndsSlot(n) == n \in {2, 4}

EndNumber ==
  /\ pc = "digit" /\ ~CurrentIsDigit
  /\ address' = [address EXCEPT ![piece_index] = Uint16(@ * 256 + ipv4_piece)]
  /\ numbers_seen' = numbers_seen + 1
  /\ piece_index' = IF EndsSlot(numbers_seen') THEN piece_index + 1
                                               ELSE piece_index
  /\ pc' = "number"
  /\ UNCHANGED <<pointer, compress, hextet, ipv4_piece, swaps, caller>>

----------------------------------------------------------------------------
(* Lines 182-198: the pieces after "::" move to the end, and the result.   *)

RejectShort ==
  /\ pc = "finish"
  /\ compress = -1 /\ piece_index # 8
  /\ Reject

EightPieces ==
  /\ pc = "finish"
  /\ compress = -1 /\ piece_index = 8
  /\ pc' = "output"
  /\ UNCHANGED <<reading, hextet, quad, swaps, caller>>

StartSwaps ==
  /\ pc = "finish"
  /\ compress # -1
  /\ swaps' = piece_index - compress
  /\ piece_index' = 7
  /\ pc' = "swap"
  /\ UNCHANGED <<pointer, compress, address, hextet, quad, caller>>

SwapSource == compress + swaps - 1

SwapAgain ==                                              \* mutation: no counting
  /\ pc = "swap" /\ piece_index # 0 /\ swaps > 0
  /\ address' = [address EXCEPT ![piece_index] = address[SwapSource],
                                ![SwapSource] = address[piece_index]]
  /\ UNCHANGED <<pointer, piece_index, compress, hextet, quad, swaps, pc, caller>>

Swap ==
  /\ pc = "swap" /\ piece_index # 0 /\ swaps > 0
  /\ address' = [address EXCEPT ![piece_index] = address[SwapSource],
                                ![SwapSource] = address[piece_index]]
  /\ piece_index' = piece_index - 1
  /\ swaps' = swaps - 1
  /\ UNCHANGED <<pointer, compress, hextet, quad, pc, caller>>

EndSwaps ==
  /\ pc = "swap" /\ (piece_index = 0 \/ swaps <= 0)
  /\ pc' = "output"
  /\ UNCHANGED <<reading, hextet, quad, swaps, caller>>

NetworkBytes(pieces) ==
  [i \in 0..15 |-> IF i % 2 = 0 THEN pieces[i \div 2] \div 256
                                ELSE pieces[i \div 2] % 256]

Output ==
  /\ pc = "output"
  /\ out' = NetworkBytes(address)
  /\ result' = "accepted"
  /\ pc' = "returned"
  /\ UNCHANGED <<reading, hextet, quad, swaps, input>>

----------------------------------------------------------------------------
Next ==
  \/ RejectEmpty \/ RejectLoneColon \/ LeadingCompress \/ LeadingPiece
  \/ RejectPiece \/ Compress \/ StartHextet \/ EndOfText
  \/ HexDigit \/ RejectHextet \/ EndHextet \/ StartQuad
  \/ RejectNumber \/ StartNumber \/ RejectShortQuad \/ EndQuad
  \/ RejectDigit \/ OctetDigit \/ EndNumber
  \/ RejectShort \/ EightPieces \/ StartSwaps \/ Swap \/ EndSwaps
  \/ Output

Spec == Init /\ [][Next]_vars

\* A call is a thread that keeps executing: no statement of it blocks.
FairSpec == Spec /\ WF_vars(Next)

(***************************************************************************)
(* Properties.                                                             *)
(***************************************************************************)
Labels == {"entry", "piece", "hex", "number", "digit",
           "finish", "swap", "output", "returned"}

\* The type invariant: the values the C types and the control flow leave the
\* locals of parse_ipv6_ada.
TypeOK ==
  /\ input \in Texts
  /\ pc \in Labels
  /\ pointer \in 0..Len(input)
  /\ piece_index \in 0..8
  /\ compress \in -1..8
  /\ address \in [0..7 -> Word]
  /\ value \in Word
  /\ length \in 0..4
  /\ numbers_seen \in 0..4
  /\ ipv4_piece \in Byte \cup {-1}
  /\ swaps \in 0..8
  /\ result \in {"pending", "accepted", "rejected"}
  /\ out \in [0..15 -> Byte]

\* Every subscript of address[8] and every read at pointer stays in bounds:
\* the single test of piece_index at the head of the loop (122) is enough for
\* the stores of lines 164, 178 and 186, whatever mix of hextets, "::" and
\* quad the text has, and stepping back over a quad's digits (139) never
\* leaves the text.
AccessesInBounds ==
  /\ pc = "hex" => piece_index \in 0..7 /\ length <= pointer
  /\ pc = "digit" => piece_index \in 0..7
  /\ pc = "swap" /\ piece_index # 0 /\ swaps > 0
       => piece_index \in 0..7 /\ SwapSource \in 0..7

\* No uint16_t conversion (132, 165) loses a bit: a hextet has at most four
\* digits, and an octet is added to a slot that holds at most one octet.
CastsAreExact ==
  /\ pc = "hex" /\ MoreHex => value * 16 + HexToBinary(Current) <= 65535
  /\ pc = "digit" => address[piece_index] * 256 + ipv4_piece <= 65535

HalfFilled == pc \in {"number", "digit"} /\ numbers_seen \in {1, 3}

\* Until the pieces are moved, the slot "::" reserved and every slot that was
\* not reached hold zero.  The swaps of line 186 (which exchange, and do not
\* clear) and the accumulation of line 165 (which never initialises its slot)
\* rely on it.
UnreachedSlotsAreZero ==
  pc \in {"entry", "piece", "hex", "number", "digit", "finish"} =>
    /\ \A i \in 0..7 :
         i >= piece_index /\ ~(HalfFilled /\ i = piece_index) => address[i] = 0
    /\ compress # -1 => /\ compress \in 1..piece_index
                        /\ address[compress - 1] = 0

\* Pieces begin where the text begins or just after a ':': no byte is read
\* into two pieces or skipped between them, although the quad's first digits
\* are read twice.
PiecesStartAtBoundaries ==
  LET AtBoundary(p) == p = 0 \/ At(input, p - 1) = Colon
  IN /\ pc = "piece" /\ ~AtEnd => AtBoundary(pointer)
     /\ pc = "hex" => AtBoundary(pointer - length)
     /\ pc = "number" /\ numbers_seen = 0 => AtBoundary(pointer)

Phase == CASE pc = "entry" -> 6
           [] pc \in {"piece", "hex"} -> 5
           [] pc \in {"number", "digit"} -> 4
           [] pc = "finish" -> 3
           [] pc = "swap" -> 2
           [] pc = "output" -> 1
           [] OTHER -> 0

Rank == CASE pc = "hex" -> IF length = 0 THEN 0 ELSE 2
          [] pc = "digit" -> IF ipv4_piece = -1 THEN 0 ELSE 2
          [] OTHER -> 1

Remaining == IF pc = "swap" THEN swaps ELSE 3 * (Len(input) - pointer) + Rank

\* Every iteration of every loop makes progress, so that the number of steps
\* of a call is bounded by its length: the pointer may step back once, but
\* only into a later phase.
StepsMakeProgress ==
  [][Phase' < Phase \/ (Phase' = Phase /\ Remaining' < Remaining)]_vars

\* The call returns.
Returns == <>(pc = "returned")

=============================================================================
