------------------------------ MODULE SimdIPv4 ------------------------------
(***************************************************************************)
(* The AVX-512 IPv4 parsers of include/avx512ip.h: avx512vl, which places  *)
(* the digits by a table, notab, notab2 to notab5 and strict, which        *)
(* compute the places, and tiny, which is strict with the fallback the     *)
(* others have.  All of them put the text in sixteen lanes, place the      *)
(* digits of the four octets, and differ in how they find out that the     *)
(* text is not a strict dotted quad.                                       *)
(***************************************************************************)
EXTENDS QuadCall

CONSTANT Permissive(_)      \* the addresses parse_ipv4_ada finds in a text

\* The fallback stores bytes.
ASSUME MeaningAssumption ==
  \A t \in Texts : Permissive(t) \subseteq [0..3 -> Byte]

\* The URL standard's parser takes every strict quad, for the same address.
PermissiveTakesQuads == \A t \in Texts : QuadsOf(t) \subseteq Permissive(t)

VARIABLE phase              \* "entry", "ada", "returned"

simdVars == <<parser, input, result, out, phase>>

SimdParsers == {"avx512vl", "notab", "notab2", "notab3", "notab4", "notab5",
                "strict", "tiny"}

SimdInit ==
  /\ parser \in SimdParsers
  /\ input \in Texts
  /\ result = "pending"
  /\ out = OutBefore
  /\ phase = "entry"

Ada == INSTANCE Parser WITH Meaning <- Permissive

----------------------------------------------------------------------------
(* The text in sixteen lanes: the table parser fills the lanes after the   *)
(* text with '0', the others with '.'.                                     *)

\* _bzhi_u32 takes the low byte of its index, and has 32 bits to keep.
Kept == IF Low8(Length) < 32 THEN Low8(Length) ELSE 32
LenMask == 0..(Kept - 1)
Fill == IF parser = "avx512vl" THEN Zero ELSE Dot
V == [i \in 0..15 |-> IF i < Kept THEN At(input, i) ELSE Fill]

Digit == [i \in 0..15 |-> Low8(V[i] - Zero)]
IsDigitLanes == {i \in 0..15 : Digit[i] <= 9}
DigitOrZero(i) == IF Digit[i] <= 9 THEN Digit[i] ELSE 0

Delim == {i \in 0..15 : V[i] = Dot}
DotLanes == Delim \cap LenMask
Keep == LenMask \ DotLanes

\* The partition, for a strict quad its dots and its end: len_mask + 1, which is
\* nothing if the mask is full (154); or the '.' after the text (711).
Partition == IF parser = "avx512vl"
             THEN DotLanes \cup ({Low8(Length)} \cap 0..31)
             ELSE Delim \cap (0..Kept)

----------------------------------------------------------------------------
(* The layout the hash finds, lines 46-114 and 629-649.                    *)

Canonical == Table[HashKey(Partition)]

UnusedKey == Canonical = {}     \* mutation: an impostor of a layout passes
PartitionDiffers == \A l \in Canonical : Partition # DelimitersOf[l]

----------------------------------------------------------------------------
(* Placing the digits.                                                     *)

\* vpcompressb of the lane numbers by delim: the k-th delimiter, if there is one.
C(k) == LET delim == Delim
        IN IF k < Cardinality(delim)
           THEN CHOOSE i \in delim : RankIn(delim, i) = k
           ELSE 0
Prev(k) == IF k = 0 THEN -1 ELSE C(k - 1)

\* The byte n places before the end of octet k: a lane before the octet gives
\* zero, as the lane is clamped to the delimiter before it, or to -1 (276-283).
Computed(k, n) ==
  LET lane == Max({C(k) - n, Prev(k)})
  IN IF lane < 0 THEN 0 ELSE DigitOrZero(lane)

\* The same by the shuffle table (95-108): the bytes the layout has.
FromTable(k, n) ==
  LET lanes == {EndOf(l, k) - n : l \in {m \in Canonical : n <= m[k]}}
  IN IF lanes = {} THEN 0 ELSE Digit[CHOOSE i \in lanes : TRUE]

Place(k, n) == IF parser = "avx512vl" THEN FromTable(k, n) ELSE Computed(k, n)

\* The dot product with 100, 10 and 1 (178, 707).
Octet(k) == 100 * Place(k, 3) + 10 * Place(k, 2) + Place(k, 1)

----------------------------------------------------------------------------
(* What is not a strict quad.                                              *)

Hole(lanes) == (Keep \cap lanes) \ IsDigitLanes # {}

\* Octet over 255, by the value, or by its digits as one number in base 256.
OverValue == \E k \in 0..3 : Octet(k) > 255
OverDigits ==
  \E k \in 0..3 : Place(k, 1) + 256 * (Place(k, 2) + 256 * (Place(k, 3) + 256 * Place(k, 4)))
                    > 5 + 256 * (5 + 256 * 2)

Gap(k) == Low8(C(k) - (IF k = 0 THEN 0 ELSE C(k - 1)))
\* mutation: the dot before an octet is not counted in its gap.
GapWithoutDot == \E k \in 0..3 : Low8(Gap(k) - 1) > 2
\* Octets that are not 1 to 3 digits wide, from the gaps between delimiters.
BadGap ==
  \E k \in 0..3 : Low8(Gap(k) - (IF k = 0 THEN 1 ELSE 2)) > 2

\* The same from the dots alone (447-451).
BadLayout ==
  \/ Cardinality(DotLanes) # 3
  \/ 0 \in DotLanes \/ \E i \in DotLanes : i + 1 \notin LenMask
  \/ \E i \in DotLanes : i + 1 \in DotLanes
  \/ \E i \in Keep : (i + 1) \in Keep /\ (i + 2) \in Keep /\ (i + 3) \in Keep

\* A '0' where an octet starts, before one of the lanes of next.
Starts == {0} \cup {i + 1 : i \in DotLanes}
LeadingZero(next) == \E i \in Starts : i <= 15 /\ V[i] = Zero /\ (i + 1) \in next
\* By the table's mask of the first digits of the octets of two and three.
TableLeadingZero == \E l \in Canonical : \E k \in 0..3 : l[k] >= 2 /\ Place(k, l[k]) = 0

Error ==
  CASE parser = "avx512vl" ->
         PartitionDiffers \/ Hole(0..15) \/ OverValue \/ TableLeadingZero
    [] parser \in {"notab", "notab4"} ->
         Cardinality(DotLanes) # 3 \/ BadGap \/ Hole(0..15) \/ OverValue \/ LeadingZero(Keep)
    [] parser = "notab2" ->
         C(3) # Low8(Length) \/ BadGap \/ Hole(0..15) \/ OverValue \/ LeadingZero(IsDigitLanes)
    [] parser = "notab3" ->
         BadLayout \/ Hole(0..31) \/ OverValue \/ LeadingZero(Keep)
    [] parser = "notab5" ->
         Cardinality(DotLanes) # 3 \/ BadGap \/ Hole(0..15) \/ OverDigits \/ LeadingZero(Keep)
    [] OTHER ->
         PartitionDiffers \/ Hole(0..15) \/ OverDigits \/ LeadingZero(IsDigitLanes)

----------------------------------------------------------------------------
Fits == Length <= 15
Taken == Fits /\ ~Error

\* The four octets, one byte each, in the order they are written.
Store ==
  /\ phase = "entry" /\ Taken
  /\ out' = [k \in 0..3 |-> Low8(Octet(k))]
  /\ result' = "accepted"
  /\ phase' = "returned"
  /\ UNCHANGED <<parser, input>>

\* mutation: strict has the fallback of the others.
DeferAlways ==
  /\ phase = "entry" /\ ~Taken
  /\ phase' = "ada"
  /\ UNCHANGED <<parser, input, result, out>>
DeferToAda ==
  /\ phase = "entry" /\ parser # "strict" /\ ~Taken
  /\ phase' = "ada"
  /\ UNCHANGED <<parser, input, result, out>>

RejectStrict ==
  /\ phase = "entry" /\ parser = "strict" /\ ~Taken
  /\ result' = "rejected"
  /\ phase' = "returned"
  /\ UNCHANGED <<parser, input, out>>

RunAda ==
  /\ phase = "ada"
  /\ Ada!Next
  /\ phase' = "returned"
  /\ UNCHANGED parser

SimdNext == Store \/ DeferToAda \/ RejectStrict \/ RunAda

SimdSpec == SimdInit /\ [][SimdNext]_simdVars

----------------------------------------------------------------------------
(* Properties.                                                             *)

\* The type invariant: an octet is a byte, and strict never defers (687, 729).
SimdTypeOK ==
  /\ parser \in SimdParsers
  /\ input \in Texts
  /\ result \in {"pending", "accepted", "rejected"}
  /\ out \in [0..3 -> Byte]
  /\ phase \in {"entry", "ada", "returned"} \ (IF parser = "strict" THEN {"ada"} ELSE {})

\* What a call of a function on a text may store.
SimdPromised(call) == IF call[1] = "strict" THEN StrictQuad(call[2])
                                            ELSE Permissive(call[2])

SimdContract == INSTANCE Parser WITH
                  Texts <- SimdParsers \X Texts, input <- <<parser, input>>,
                  Meaning <- SimdPromised

\* The eight parsers, by their eight different validations, keep the contract
\* of parse_ipv4_ada (210-212, 732-738), and strict that of inet_pton: a text
\* the lanes wrongly take for a quad would be accepted, or stored with bytes
\* that are not its octets.
AgreesWithContract == SimdContract!Spec

\* The fast path misses no strict dotted quad: only unusual texts pay for a
\* second parse, "give the permissive ada parser a chance" (204-206).
StrictTakenFast == phase = "ada" => StrictQuad(input) = {}

=============================================================================
