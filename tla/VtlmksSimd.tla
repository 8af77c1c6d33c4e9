----------------------------- MODULE VtlmksSimd -----------------------------
(***************************************************************************)
(* parse_ipv6_avx512 of include/vtlmks_ipv6.h.  Both arms store into the   *)
(* caller's buffer before the text is known to be good (268, 304), and     *)
(* leave what they find bad to parse_ipv6_scalar, here any parser that     *)
(* keeps the contract of Parser with Meaning.                              *)
(***************************************************************************)
EXTENDS GroupText

CONSTANTS Texts,        \* the texts the call may be given
          OutBefore,    \* the caller's 16 bytes before the call
          Meaning(_)    \* the addresses parse_ipv6_scalar finds in a text

ASSUME TextsAssumption == Texts \subseteq Seq(Byte)
ASSUME OutAssumption == OutBefore \in [0..15 -> Byte]
ASSUME MeaningAssumption == \A t \in Texts : Meaning(t) \subseteq [0..15 -> Byte]

VARIABLES input, result, out,
          pc            \* "entry", "scalar", "returned"

vars == <<input, result, out, pc>>

Init ==
  /\ input \in Texts
  /\ result = "pending"
  /\ out = OutBefore
  /\ pc = "entry"

Scalar == INSTANCE Parser

----------------------------------------------------------------------------
(* The text in a vector, lines 240-249.                                    *)

Length == Len(input)
Active == 0..(Length - 1)
V(i) == IF i \in Active THEN At(input, i) ELSE 0
MColon == {i \in Active : V(i) = Colon}
Dc == {i \in MColon : i + 1 \in MColon}

\* The tables hex_lo and hex_hi (35-46), indexed by the low seven bits.
NotHex == 128
Nibble(b) == CASE b \in 48..57 -> b - 48
               [] b \in 65..70 -> b - 65 + 10
               [] b \in 97..102 -> b - 97 + 10
               [] OTHER -> NotHex
Nib(i) == Nibble(V(i) % 128)

\* Where the fields end, a separator at Length ending the last; and where they
\* start (258-260, 283-285).
Iota == [i \in 0..63 |-> i]
Comp == CompressLanes(Iota, MColon \cup {Length})
StartsOf(ends) == [k \in 0..15 |-> IF k = 0 THEN 0 ELSE Low8(ends[k - 1] + 1)]
WidthOf(ends, starts) == [k \in 0..15 |-> Low8(ends[k] - starts[k])]

\* The gather of lines 263-268 and 299-304: the last four bytes of each field,
\* those before its start read as zero, two nibbles a byte.
GatherNibble(ends, starts, g, k) ==
  LET index == Low8(ends[g] - 4 + k)
  IN IF Signed(index) < Signed(starts[g]) THEN 0 ELSE Nib(index % 64)
\* mutation: the sixteen-bit lanes are stored without being narrowed.
GatherWide(ends, starts) ==
  [b \in 0..15 |-> 16 * GatherNibble(ends, starts, b \div 2, 2 * (b % 2))
                     + GatherNibble(ends, starts, b \div 2, 2 * (b % 2) + 1)]
Gather(ends, starts) ==
  [b \in 0..15 |->
     LET g == b \div 2
         k == 2 * (b % 2)
     IN Low8(16 * GatherNibble(ends, starts, g, k)
                + GatherNibble(ends, starts, g, k + 1))]

\* mutation: the high bit of a byte, which the tables ignore, is not looked at.
BadNibbles == \E i \in Active : i \notin MColon /\ Nib(i) = NotHex
\* A byte of 128 or more, or a byte that is neither a hexadecimal digit nor ':'.
BadBytes == \E i \in Active : V(i) >= 128 \/ (i \notin MColon /\ Nib(i) = NotHex)

----------------------------------------------------------------------------
(* The clean form of eight groups, lines 254-278.                          *)

CleanWidth == WidthOf(Comp, StartsOf(Comp))

CleanBad ==
  \/ Cardinality(MColon) # 7
  \/ \E g \in 0..7 : Low8(CleanWidth[g] - 1) > 3
  \/ BadBytes

----------------------------------------------------------------------------
(* The "::" form, lines 280-316.                                           *)

NColon == Cardinality(MColon)
Starts == StartsOf(Comp)
Width == WidthOf(Comp, Starts)

FirstDc == CHOOSE i \in Dc : \A j \in Dc : i <= j
HeadFields == IF FirstDc = 0 THEN 0
              ELSE Cardinality({i \in MColon : i < FirstDc}) + 1

\* The lanes of (1u << n) - 1.  For n outside 0..31 the shift is undefined (291,
\* 295): x86 shifts by n modulo 32, or, where the compiler makes it a bzhi,
\* keeps all bits.
OnesBelow(n) == IF n \in 0..31 THEN {0..(n - 1)}
                ELSE {0..((n % 32) - 1), 0..31}

FieldMasks == {ones \cap (0..15) : ones \in OnesBelow(NColon + 1)}
Kept(fields) == {k \in fields : Signed(Width[k]) > 0}

\* outm: the slots that are not zero groups; 8 - nkept wraps around.
SlotMasks(kept) ==
  {(0..7) \ {HeadFields + i : i \in ones} : ones \in OnesBelow(8 - Cardinality(kept))}

Slots(v, kept, slots) == ExpandLanes(CompressLanes(v, kept), slots)

SevenGroupsLeft(kept) == Cardinality(kept) >= 7   \* mutation: off by one
NoGroupLeft(kept) == Cardinality(kept) >= 8

GapBad(kept) ==
  \/ BadBytes
  \/ \E i \in Dc : i # FirstDc
  \/ NoGroupLeft(kept)
  \/ \E k \in kept : Width[k] > 4
  \/ 0 \in MColon /\ 0 \notin Dc
  \/ (Length - 1) \in MColon /\ (Length - 2) \notin Dc

----------------------------------------------------------------------------
OutOfRange ==
  /\ pc = "entry" /\ (Length < 2 \/ Length > 45)
  /\ pc' = "scalar"
  /\ UNCHANGED <<input, result, out>>

\* The store, then the verdict: both leave the other variables as they are.
Decide(stored, bad) ==
  /\ out' = stored
  /\ pc' = IF bad THEN "scalar" ELSE "returned"
  /\ result' = IF bad THEN result ELSE "accepted"
  /\ UNCHANGED input

CleanForm ==
  /\ pc = "entry" /\ Length \in 2..45 /\ Dc = {}
  /\ Decide(Gather(Comp, StartsOf(Comp)), CleanBad)

GapForm ==
  /\ pc = "entry" /\ Length \in 2..45 /\ Dc # {}
  /\ \E fields \in FieldMasks : \E slots \in SlotMasks(Kept(fields)) :
       Decide(Gather(Slots(Comp, Kept(fields), slots),
                     Slots(Starts, Kept(fields), slots)),
              GapBad(Kept(fields)))

RunScalar ==
  /\ pc = "scalar"
  /\ Scalar!Next
  /\ pc' = "returned"

Next == OutOfRange \/ CleanForm \/ GapForm \/ RunScalar

Spec == Init /\ [][Next]_vars

----------------------------------------------------------------------------
(* Properties.                                                             *)

\* The type invariant: every lane is packed into a byte.
TypeOK ==
  /\ input \in Texts
  /\ result \in {"pending", "accepted", "rejected"}
  /\ out \in [0..15 -> Byte]
  /\ pc \in {"entry", "scalar", "returned"}

Contract == INSTANCE Parser WITH
              out <- IF result = "accepted" THEN out ELSE OutBefore

\* The two SIMD forms answer what the scalar reference answers, with the same
\* bytes.  Only what a rejected call leaves in the buffer differs: the
\* speculative stores stay in it.
AgreesWithScalar == Contract!Spec

\* What the proofs take Meaning to be on the texts the SIMD forms are for.
MeaningOfGroups == \A t \in Texts : Dotted(t) \/ Meaning(t) = GroupMeaning(t)

\* "Embedded IPv4 and anything malformed drop to the scalar reference" (232):
\* an address without a dot never does.  vtlmks_ipv6_opt.h (46-51) rejects on
\* the strength of it.
OnlyQuadsFallBack ==
  pc = "scalar" /\ Meaning(input) # {} => \E i \in Active : V(i) = Dot

=============================================================================
