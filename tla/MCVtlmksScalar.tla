--------------------------- MODULE MCVtlmksScalar ---------------------------
(***************************************************************************)
(* parse_ipv6_scalar on the texts of MCIPv6Texts and on texts with quads   *)
(* on both sides of "::", against the grammar it accepts and inet_pton's.  *)
(***************************************************************************)
EXTENDS VtlmksScalar, MCIPv6Texts, IPv6Text

Quad == <<49,46,50,46,51,46,52>>                         \* 1.2.3.4

\* "::" with k hextets before it, or k hextets and a quad, and n after it.
HeadQuads ==
  {JoinFields(Plain(k) \o <<Quad>> \o <<<<>>>> \o after) :
     k \in 1..7, after \in {<<<<>>>>, <<Quad>>} \cup {Plain(n) : n \in 1..7}}

ScalarTexts == IPv6Texts \cup HeadQuads \cup WithOneOddField(<<Quad, <<>>, <<>>>>)

MCTexts == ScalarTexts

\* A buffer no text denotes: what is left in it shows.
MCOutBefore == [i \in 0..15 |-> 160 + i]

Accepted == INSTANCE Parser WITH Meaning <- VtlmksMeaning
InetPton == INSTANCE Parser WITH Meaning <- IPv6Meaning

\* parse_ipv6_scalar accepts inet_pton's texts and those with a quad before
\* "::", stores the bytes they denote, and on return 0 has stored nothing.
ImplementsVtlmks == Accepted!Spec

\* "the scalar reference, which matches inet_pton" (233).
MatchesInetPton == InetPton!Spec

=============================================================================
