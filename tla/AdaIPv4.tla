------------------------------ MODULE AdaIPv4 ------------------------------
(***************************************************************************)
(* parse_ipv4_ada of include/ada_ip.h.  The string_view `input`, which the *)
(* function shortens at both ends, is the bytes first..last-1 of text.     *)
(* The 64-bit accumulator ipv4 is the sequence of the octets it holds, the *)
(* first the most significant.  std::from_chars reads one digit a step.    *)
(*   "entry"    before the loop              (44)                          *)
(*   "segment"  the head of the loop         (49)                          *)
(*   "convert"  in std::from_chars           (60)                          *)
(*   "after"    a segment has been read      (73)                          *)
(*   "final"    the address is complete      (91)                          *)
(***************************************************************************)
EXTENDS Word32, IPv4Call

VARIABLES
  pc,
  first, last,        \* the string_view
  digit_count, ipv4,
  segment_result,
  radix, converted     \* of the from_chars call: its base, the digits it read

view == <<first, last>>
address == <<digit_count, ipv4>>
conversion == <<segment_result, radix, converted>>
caller == <<input, result, out>>
adaVars == <<view, address, conversion, pc, caller>>

AdaInit ==
  /\ input \in Texts
  /\ pc = "entry"
  /\ first = 0 /\ last = Len(input)
  /\ digit_count = 0 /\ ipv4 = <<>>
  /\ segment_result = ZeroWord32 /\ radix = 10 /\ converted = 0
  /\ result = "pending"
  /\ out = OutBefore

Size == last - first
View(i) == At(input, first + i)        \* input[i]
ViewEmpty == first = last

Reject ==
  /\ pc' = "returned"
  /\ result' = "rejected"
  /\ UNCHANGED <<view, address, conversion, input, out>>

----------------------------------------------------------------------------
(* Lines 44-48.                                                            *)

RejectEmpty == pc = "entry" /\ ViewEmpty /\ Reject

\* One trailing dot is dropped.
Start ==
  /\ pc = "entry" /\ ~ViewEmpty
  /\ last' = IF At(input, last - 1) = Dot THEN last - 1 ELSE last
  /\ pc' = "segment"
  /\ UNCHANGED <<first, address, conversion, caller>>

----------------------------------------------------------------------------
(* Lines 49-72: the form of a segment, and its value.                      *)

ReadSegment == pc = "segment" /\ digit_count < 4 /\ ~ViewEmpty

HasHexPrefix == Size >= 2 /\ View(0) = Zero /\ View(1) \in {88, 120}   \* X x
IsBareHex == HasHexPrefix /\ (Size > 2 => View(2) = Dot)
IsOctal == Size >= 2 /\ View(0) = Zero /\ IsDigit(View(1))

BareHex ==
  /\ ReadSegment /\ IsBareHex
  /\ segment_result' = ZeroWord32
  /\ first' = first + 2
  /\ pc' = "after"
  /\ UNCHANGED <<last, address, radix, converted, caller>>

StartConversion ==
  /\ ReadSegment /\ ~IsBareHex
  /\ segment_result' = ZeroWord32 /\ converted' = 0
  /\ \/ HasHexPrefix /\ radix' = 16 /\ first' = first + 2
     \/ ~HasHexPrefix /\ IsOctal /\ radix' = 8 /\ first' = first + 1
     \/ ~HasHexPrefix /\ ~IsOctal /\ radix' = 10 /\ first' = first
  /\ pc' = "convert"
  /\ UNCHANGED <<last, address, caller>>

MoreDigits == /\ ~ViewEmpty
              /\ IsHexDigit(View(0)) /\ HexToBinary(View(0)) < radix

NextSegment == TimesPlus(segment_result, radix, HexToBinary(View(0)))

ConvertDigitStuck ==                                      \* mutation: no ptr++
  /\ pc = "convert" /\ MoreDigits /\ ~Overflows(NextSegment)
  /\ segment_result' = NextSegment
  /\ converted' = 1
  /\ UNCHANGED <<view, address, radix, pc, caller>>

ConvertDigit ==
  /\ pc = "convert" /\ MoreDigits /\ ~Overflows(NextSegment)
  /\ segment_result' = NextSegment
  /\ converted' = 1
  /\ first' = first + 1
  /\ UNCHANGED <<last, address, radix, pc, caller>>

\* from_chars fails with no digit, or with a value that takes over 32 bits.
RejectConversion ==
  /\ pc = "convert"
  /\ \/ ~MoreDigits /\ converted = 0
     \/ MoreDigits /\ Overflows(NextSegment)
  /\ Reject

EndConversion ==
  /\ pc = "convert" /\ ~MoreDigits /\ converted # 0
  /\ pc' = "after"
  /\ UNCHANGED <<view, address, conversion, caller>>

----------------------------------------------------------------------------
(* Lines 73-97: the place of a segment in the address.                     *)

LastFitsLoosely == FitsBytes(segment_result, 5 - digit_count)   \* mutation: one off

\* The last segment fills the bits that are left.
LastFits == FitsBytes(segment_result, 4 - digit_count)

LastSegment ==
  /\ pc = "after" /\ ViewEmpty /\ LastFits
  /\ ipv4' = ipv4 \o LastBytes(segment_result, 4 - digit_count)
  /\ pc' = "final"
  /\ UNCHANGED <<view, digit_count, conversion, caller>>

MiddleFits == FitsBytes(segment_result, 1) /\ View(0) = Dot

MiddleSegment ==
  /\ pc = "after" /\ ~ViewEmpty /\ MiddleFits
  /\ ipv4' = Append(ipv4, Low(segment_result))
  /\ digit_count' = digit_count + 1
  /\ first' = first + 1
  /\ pc' = "segment"
  /\ UNCHANGED <<last, conversion, caller>>

RejectSegment ==
  /\ pc = "after"
  /\ IF ViewEmpty THEN ~LastFits ELSE ~MiddleFits
  /\ Reject

\* The loop ended at its head (90).
AnySegments == ViewEmpty                                  \* mutation: no count
FourSegments == digit_count = 4 /\ ViewEmpty

LoopEnds ==
  /\ pc = "segment" /\ FourSegments
  /\ pc' = "final"
  /\ UNCHANGED <<view, address, conversion, caller>>

RejectLoopEnd ==
  /\ pc = "segment" /\ ~FourSegments /\ (digit_count = 4 \/ ViewEmpty)
  /\ Reject

Output ==
  /\ pc = "final"
  /\ out' = [i \in 0..3 |-> ipv4[i + 1]]
  /\ result' = "accepted"
  /\ pc' = "returned"
  /\ UNCHANGED <<view, address, conversion, input>>

----------------------------------------------------------------------------
AdaNext ==
  \/ RejectEmpty \/ Start
  \/ BareHex \/ StartConversion \/ ConvertDigit
  \/ RejectConversion \/ EndConversion
  \/ LastSegment \/ MiddleSegment \/ RejectSegment
  \/ LoopEnds \/ RejectLoopEnd \/ Output

AdaSpec == AdaInit /\ [][AdaNext]_adaVars

\* A call is a thread that keeps executing: no statement of it blocks.
FairAdaSpec == AdaSpec /\ WF_adaVars(AdaNext)

----------------------------------------------------------------------------
(***************************************************************************)
(* Properties.                                                             *)
(***************************************************************************)

\* The type invariant: the values the C types and the control flow leave the
\* locals of parse_ipv4_ada.
AdaTypeOK ==
  /\ input \in Texts
  /\ pc \in {"entry", "segment", "convert", "after", "final", "returned"}
  /\ last \in 0..Len(input) /\ first \in 0..last
  /\ digit_count \in 0..4
  /\ ipv4 \in Seq(Byte)
  /\ segment_result \in Word \X Word
  /\ radix \in {8, 10, 16}
  /\ converted \in {0, 1}
  /\ result \in {"pending", "accepted", "rejected"}
  /\ out \in [0..3 -> Byte]

\* The accumulator holds 8 * digit_count bits whenever a segment is appended
\* (74-79), so the shift by 32 - 8 * digit_count is a shift by 8..32 and the
\* `|=` meets zeros only; and it holds exactly 32 bits at the stores (92-97),
\* by whichever of the two ways out of the loop the call came.
AccumulatorIsFilled ==
  /\ pc \in {"segment", "convert", "after"} => Len(ipv4) = digit_count
  /\ pc = "after" => digit_count < 4
  /\ pc = "final" => Len(ipv4) = 4

\* Four steps at most per byte of the view: a step reads a byte, or goes from
\* the head of the loop to from_chars to the segment's end at the same byte.
Remaining ==
  CASE pc = "entry" -> 4 * last + 6
    [] pc = "segment" -> 4 * Size + 5
    [] pc = "convert" -> 4 * Size + 4
    [] pc = "after" -> 4 * Size + 3
    [] pc = "final" -> 1
    [] OTHER -> 0

\* Every step of the call brings it closer to its return.
StepsMakeProgress == [][Remaining' \in Nat /\ Remaining' < Remaining]_adaVars

\* The call returns.
Returns == <>(pc = "returned")

=============================================================================
