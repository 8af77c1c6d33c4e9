---------------------------- MODULE MCVtlmksSimd ----------------------------
(***************************************************************************)
(* parse_ipv6_avx512 on the texts of MCIPv6Texts, on texts that are too    *)
(* long for it, and on texts with so many colons or groups that its shifts *)
(* are undefined.                                                          *)
(***************************************************************************)
EXTENDS VtlmksSimd, MCIPv6Texts, IPv6Text

\* n fields of one digit, and then "::".
ManyGroups == {JoinFields([i \in 1..n |-> <<49>>] \o <<<<>>, <<>>>>) : n \in 9..22}
ManyColons == {[i \in 1..n |-> Colon] \o <<49>> : n \in 29..46}

SimdTexts == IPv6Texts \cup ManyGroups \cup ManyColons

MCTexts == SimdTexts

\* A buffer no text denotes: what is left in it shows.
MCOutBefore == [i \in 0..15 |-> 160 + i]

\* The grammar of VtlmksMeaning and that of GroupText are the same but for quads.
ASSUME MeaningOfGroups

=============================================================================
