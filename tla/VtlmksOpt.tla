------------------------------ MODULE VtlmksOpt ------------------------------
(***************************************************************************)
(* parse_ipv6_avx512_opt of include/vtlmks_ipv6_opt.h.  parse_ipv6_core,   *)
(* the two SIMD forms, stores into the caller's buffer and then accepts or *)
(* declines.  It runs on the text; parse_ipv6_embedded_v4 rejects what it  *)
(* declined, or runs it again on the text with its dotted quad rewritten   *)
(* as two hextets, or asks parse_ipv6_scalar, here any parser that keeps   *)
(* the contract of Parser with Meaning.                                    *)
(***************************************************************************)
EXTENDS GroupText

CONSTANTS Texts,            \* the texts the call may be given
          OutBefore,        \* the caller's 16 bytes before the call
          Meaning(_),       \* the addresses parse_ipv6_scalar finds in a text
          StrictQuad(_)     \* the address parse_ipv4_avx512vl_strict finds

ASSUME TextsAssumption == Texts \subseteq Seq(Byte)
ASSUME OutAssumption == OutBefore \in [0..15 -> Byte]
ASSUME MeaningAssumption == \A t \in Texts : Meaning(t) \subseteq [0..15 -> Byte]
\* Of what follows a colon in a text: it finds one address at most, in 7 to 15 bytes.
ASSUME QuadAssumption ==
  \A t \in Texts : \A i \in 1..Len(t) :
    t[i] = Colon =>
      LET rest == SubSeq(t, i + 1, Len(t))
      IN /\ StrictQuad(rest) \subseteq [0..3 -> Byte]
         /\ StrictQuad(rest) # {} => Len(rest) \in 7..15
         /\ \A p, q \in StrictQuad(rest) : p = q

VARIABLES input, result, out,
          src,          \* what the core is given: the text, or buf
          pc            \* "entry", "embedded", "rewritten", "scalar", "returned"

vars == <<input, result, out, src, pc>>

Init ==
  /\ input \in Texts
  /\ result = "pending"
  /\ out = OutBefore
  /\ src = input
  /\ pc = "entry"

Scalar == INSTANCE Parser

----------------------------------------------------------------------------
(* The text in 64 lanes, ':' in those after it: lines 144-167.             *)

Length == Len(src)
Active == 0..(Length - 1)
V(i) == IF i \in Active THEN At(src, i) ELSE Colon
MColon == {i \in 0..63 : V(i) = Colon}

\* mutation: a colon that ends the text makes a "::" with the fill.
DcInFill(mc) == {i \in mc : i + 1 \in mc}
Dc(mc) == {i \in mc : i + 1 \in mc /\ i + 1 \in Active}

\* The tables hex_lo and hex_hi, indexed by the low seven bits.
NotHex == 128
Nibble(b) == CASE IsHexDigit(b) -> HexToBinary(b)
               [] b = Colon -> 0
               [] OTHER -> NotHex
Nib(i) == Nibble(V(i) % 128)

\* The colons that end the fields, and those before them, -1 for the first.
Iota == [i \in 0..63 |-> i]
Comp(mc) == CompressLanes(Iota, mc)
Before(ends) == [k \in 0..15 |-> IF k = 0 THEN Low8(-1) ELSE ends[k - 1]]
Width1(ends, prev) == [k \in 0..15 |-> Low8(ends[k] - prev[k])]

\* gather_store: the last four bytes of each field, those before it clamped to
\* the colon before it, two nibbles a byte.
GatherNibble(ends, prev, g, k) ==
  LET index == Low8(ends[g] - 4 + k)
      clamped == IF Signed(index) >= Signed(prev[g]) THEN index ELSE prev[g]
  IN Nib(clamped % 64)
\* mutation: the sixteen-bit lanes are stored without being narrowed.
GatherWide(ends, prev) ==
  [b \in 0..15 |-> 16 * GatherNibble(ends, prev, b \div 2, 2 * (b % 2))
                     + GatherNibble(ends, prev, b \div 2, 2 * (b % 2) + 1)]
Gather(ends, prev) ==
  [b \in 0..15 |->
     LET g == b \div 2
         k == 2 * (b % 2)
     IN Low8(16 * GatherNibble(ends, prev, g, k)
                + GatherNibble(ends, prev, g, k + 1))]

\* mutation: the high bit of a byte, which the tables ignore, is not looked at.
BadNibbles(mc) == \E i \in Active : i \notin mc /\ Nib(i) = NotHex
\* A byte of 128 or more, or a byte that is neither a hexadecimal digit nor ':'.
BadBytes(mc) == \E i \in Active : V(i) >= 128 \/ (i \notin mc /\ Nib(i) = NotHex)

----------------------------------------------------------------------------
(* The clean form of eight groups, lines 169-185.                          *)

CleanBad(mc, w1) ==
  \/ Cardinality(mc \cap Active) # 7
  \/ \E g \in 0..7 : Low8(w1[g] - 2) > 3
  \/ BadBytes(mc)

----------------------------------------------------------------------------
(* The "::" form, lines 187-219.                                           *)

First(dc) == CHOOSE i \in dc : \A j \in dc : i <= j

\* The fields before the first "::": the colons in the lanes of dc - 1, which are
\* those before it and the other lanes of dc, and one more unless dc is 1.
HeadFields(mc, dc) ==
  Cardinality({i \in mc : i < First(dc)} \cup (dc \ {First(dc)}))
    + (IF dc = {0} THEN 0 ELSE 1)

Kept(w1) == {k \in 0..15 : Signed(w1[k]) > 1}

\* _bzhi_u32(0xffffffff, 8 - nkept), the subtraction wrapping around.
ZeroGroups(kept) == LET zeros == Low8(8 - Cardinality(kept))
                    IN 0..((IF zeros < 32 THEN zeros ELSE 32) - 1)

\* The slots of the eight that are no zero groups.  Shifting by 32 or more, as 33
\* colons in a row do, is undefined: x86 shifts by n modulo 32, a compiler may shift all
\* bits out.
SlotMasks(head, kept) ==
  LET shifted(n) == {i + n : i \in ZeroGroups(kept)}
  IN {(0..7) \ lanes : lanes \in IF head < 32 THEN {shifted(head)}
                                 ELSE {shifted(head % 32), {}}}

SlotsOf(fill, v, kept, slots) == ExpandInto(AllLanes(fill), CompressLanes(v, kept), slots)

SevenGroupsKept(kept) == Cardinality(kept) >= 7   \* mutation: off by one
NoGroupLeft(kept) == Cardinality(kept) >= 8

GapBad(mc, dc, w1, kept) ==
  \/ BadBytes(mc)
  \/ Cardinality(dc) > 1
  \/ NoGroupLeft(kept)
  \/ \E k \in kept : w1[k] > 5
  \/ 0 \in mc /\ 0 \notin dc
  \/ (Length - 1) \in mc /\ (Length - 2) \notin dc

----------------------------------------------------------------------------
(* The dotted quad, lines 237-288.                                         *)

LanesOf(t, c) == {i \in Places(t) : At(t, i) = c}
LastColon(t) == CHOOSE i \in LanesOf(t, Colon) : \A j \in LanesOf(t, Colon) : j <= i

NoQuad(t) == LanesOf(t, Dot) = {} \/ LanesOf(t, Colon) = {}

Prefix(t) == SubSeq(t, 1, LastColon(t) + 1)
Quad(t) == SubSeq(t, LastColon(t) + 2, Len(t))

\* mutation: room for the prefix only.
PrefixFits(t) == Len(Prefix(t)) <= 36 - 9
Fits(t) == Len(Prefix(t)) + 9 <= 45

\* Whether the dots are all after the last colon.
DotsLast(t) == \A i \in LanesOf(t, Dot) : i > LastColon(t)
OneQuadAtEnd(t) ==
  /\ DotsLast(t)
  /\ Len(Quad(t)) \in 7..15
  /\ StrictQuad(Quad(t)) # {}
  /\ Fits(t)

HexDigit(n) == IF n < 10 THEN 48 + n ELSE 97 + n - 10
\* mutation: the high nibble of an octet is dropped.
LowNibbleOnly(b) == <<HexDigit(0), HexDigit(b % 16)>>
TwoDigits(b) == <<HexDigit(b \div 16), HexDigit(b % 16)>>
\* "d.d.d.d" as "AABB:CCDD".
Hextets(q) == TwoDigits(q[0]) \o TwoDigits(q[1]) \o <<Colon>>
                \o TwoDigits(q[2]) \o TwoDigits(q[3])
Rewrites(t) == {Prefix(t) \o Hextets(q) : q \in StrictQuad(Quad(t))}

----------------------------------------------------------------------------
OutOfRange ==
  /\ pc = "entry" /\ Length \notin 2..45
  /\ pc' = "scalar"
  /\ UNCHANGED <<input, result, out, src>>

RunsCore == pc = "rewritten" \/ (pc = "entry" /\ Length \in 2..45)

\* The store, then the verdict.
Decide(stored, bad) ==
  /\ out' = stored
  /\ pc' = IF ~bad THEN "returned"
           ELSE IF pc = "entry" THEN "embedded" ELSE "scalar"
  /\ result' = IF bad THEN result ELSE "accepted"
  /\ UNCHANGED <<input, src>>

CleanForm ==
  /\ RunsCore
  /\ LET mc == MColon
         ends == Comp(mc)
         prev == Before(ends)
     IN /\ Dc(mc) = {}
        /\ Decide(Gather(ends, prev), CleanBad(mc, Width1(ends, prev)))

GapForm ==
  /\ RunsCore
  /\ LET mc == MColon
         dc == Dc(mc)
         ends == Comp(mc)
         prev == Before(ends)
         w1 == Width1(ends, prev)
         kept == Kept(w1)
     IN /\ dc # {}
        /\ \E slots \in SlotMasks(HeadFields(mc, dc), kept) :
             Decide(Gather(SlotsOf(0, ends, kept, slots),
                           SlotsOf(Low8(-1), prev, kept, slots)),
                    GapBad(mc, dc, w1, kept))

\* What the core declined and has no dot or no colon is no address.
RejectUnasked ==
  /\ pc = "embedded" /\ NoQuad(input)
  /\ result' = "rejected"
  /\ pc' = "returned"
  /\ UNCHANGED <<input, out, src>>

Rewrite ==
  /\ pc = "embedded" /\ ~NoQuad(input) /\ OneQuadAtEnd(input)
  /\ src' \in Rewrites(input)
  /\ pc' = "rewritten"
  /\ UNCHANGED <<input, result, out>>

AskScalar ==
  /\ pc = "embedded" /\ ~NoQuad(input) /\ ~OneQuadAtEnd(input)
  /\ pc' = "scalar"
  /\ UNCHANGED <<input, result, out, src>>

RunScalar ==
  /\ pc = "scalar"
  /\ Scalar!Next
  /\ pc' = "returned"
  /\ UNCHANGED src

Next ==
  \/ OutOfRange \/ CleanForm \/ GapForm
  \/ RejectUnasked \/ Rewrite \/ AskScalar \/ RunScalar

Spec == Init /\ [][Next]_vars

----------------------------------------------------------------------------
(* Properties.                                                             *)

\* The type invariant: every lane is packed into a byte, and the core is given no
\* more than the 45 bytes it requires (141), the rewritten text included.
TypeOK ==
  /\ input \in Texts
  /\ result \in {"pending", "accepted", "rejected"}
  /\ out \in [0..15 -> Byte]
  /\ src \in Seq(Byte) /\ (src = input \/ Len(src) \in 2..45)
  /\ pc \in {"entry", "embedded", "rewritten", "scalar", "returned"}

Contract == INSTANCE Parser WITH
              out <- IF result = "accepted" THEN out ELSE OutBefore

\* The rewrite, the two SIMD forms with their clamped gather, and the rejection
\* without a second parse answer what the scalar reference answers (62), with
\* the same bytes.  Only what a rejected call leaves in the buffer differs.
AgreesWithScalar == Contract!Spec

\* What the proofs take Meaning to be: on the texts the core may accept, and on those
\* with a quad at the end.
CoreTexts ==
  Texts \cup UNION {Rewrites(t) : t \in {t \in Texts : ~NoQuad(t) /\ OneQuadAtEnd(t)}}
MeaningOfGroups == \A t \in CoreTexts : NoQuad(t) => Meaning(t) = GroupMeaning(t)
MeaningOfQuads ==
  \A t \in Texts : ~NoQuad(t) /\ DotsLast(t)
    => Meaning(t) = UNION {QuadMeaning(t, q) : q \in StrictQuad(Quad(t))}

\* "X:d.d.d.d denotes exactly the address X:AABB:CCDD" (226), whatever X is: the
\* prefix is validated only after the rewrite, so that texts which are no
\* address must not become one.
RewriteKeepsAddress == pc = "rewritten" => Meaning(src) = Meaning(input)

\* What the core stores and accepts is an address of the text it is given, also
\* of the rewritten one.
CoreStoresAnAddress ==
  [][RunsCore /\ result' = "accepted" => out' \in Meaning(src)]_vars

\* "The core only ever declines over a dotted quad" (50): an address it declines
\* has a dot, and a colon, so that line 251 may reject without asking the scalar
\* reference.
DeclinesQuadsOnly == pc = "embedded" /\ NoQuad(input) => Meaning(input) = {}

\* Of the addresses within the core's range only those with a quad before "::"
\* cost a scalar walk: a quad that ends an address always fits (261-262), and
\* its rewrite is never declined (283-286).
OnlyHeadQuadsWalked ==
  pc = "scalar" /\ Meaning(input) # {} /\ Len(input) \in 2..45
    => \E i \in LanesOf(input, Dot) : i < LastColon(input)

=============================================================================
