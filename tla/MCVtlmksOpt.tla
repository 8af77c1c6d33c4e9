----------------------------- MODULE MCVtlmksOpt -----------------------------
(***************************************************************************)
(* parse_ipv6_avx512_opt on the texts of MCIPv6Texts, on prefixes of every *)
(* shape and of full width before a quad, and on texts with so many colons *)
(* that its shift is undefined.                                            *)
(***************************************************************************)
EXTENDS VtlmksOpt, MCIPv6Texts, IPv4Text

TailQuads == {<<49,46,50,46,51,46,52>>,                         \* 1.2.3.4
              <<50,53,53,46,48,46,49,54,46,49,55,49>>,          \* 255.0.16.171
              <<50,53,53,46,50,53,53,46,50,53,53,46,50,53,53>>} \* 255.255.255.255

\* Every placement of colons in up to nine fields, ended by a quad.
BeforeQuad == {SubSeq(t, 1, Len(t) - 1) \o q :
                 t \in {p \in UNION {ColonPatterns(n) : n \in 2..9} : Last(p) # Colon},
                 q \in TailQuads}

\* The same with groups of four digits: 36 characters before the quad are the
\* most that are rewritten.
Wide(n) == JoinFields([i \in 1..n |-> << 70, 102, 57, 48 >>])   \* Ff90
WidePrefixes == {Wide(n) \o tail : n \in 1..7, tail \in
                   {<<Colon>>, <<Colon, Colon>>, <<Colon, 49, Colon>>,
                    <<Colon, 49, 50, Colon>>, <<Colon, Colon, 49, 50, Colon>>}}
WideTexts == {p \o q : p \in WidePrefixes, q \in TailQuads}
               \cup {Wide(n) : n \in 1..9}

\* n fields of one digit, and then "::".
ManyGroups == {JoinFields([i \in 1..n |-> <<49>>] \o << <<>>, <<>> >>) : n \in 9..22}
ManyColons == {[i \in 1..n |-> Colon] \o <<49>> : n \in 29..46}

OptTexts == IPv6Texts \cup BeforeQuad \cup WideTexts \cup ManyGroups \cup ManyColons

MCTexts == OptTexts

\* A buffer no text denotes: what is left in it shows.
MCOutBefore == [i \in 0..15 |-> 160 + i]

ASSUME MeaningOfGroups /\ MeaningOfQuads

=============================================================================
