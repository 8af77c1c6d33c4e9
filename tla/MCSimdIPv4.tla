----------------------------- MODULE MCSimdIPv4 -----------------------------
(***************************************************************************)
(* The AVX-512 IPv4 parsers on the texts that tell their checks apart:     *)
(* those of MCQuadTexts, texts too long for the lanes, and texts of the    *)
(* permissive parser.                                                      *)
(***************************************************************************)
EXTENDS SimdIPv4, MCQuadTexts, IPv4Text

\* Texts whose first characters are a quad, or a quad and a dot.
TooLong == {WithDots(n, dots) : n \in {16, 31, 32, 33},
                                dots \in {{2, 4, 6}, {2, 4, 6, 8}}}

Unusual == {JoinParts(parts) : parts \in UNION {OneOdd(n) : n \in 1..5}}

LaneTexts == AllLayouts \cup LongLayouts \cup TooLong \cup Quads
               \cup WithJunk \cup Unusual

MCTexts == LaneTexts

\* A buffer no text denotes: what is left in it shows.
MCOutBefore == [i \in 0..3 |-> 160 + i]

ASSUME StrictQuadIsQuad /\ PermissiveTakesQuads

=============================================================================
