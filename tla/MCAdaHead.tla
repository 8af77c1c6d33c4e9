----------------------------- MODULE MCAdaHead -----------------------------
(***************************************************************************)
(* parse_ipv6_ada_head, with and without its prefilter, on the texts of    *)
(* MCIPv6Texts and on texts at the limits of length and of colons.         *)
(***************************************************************************)
EXTENDS AdaHead, MCIPv6Texts, IPv6Text

Wide(n) == [i \in 1..n |-> <<49, 49, 49, 49>>]
WideQuad == <<50, 53, 53, 46, 50, 53, 53, 46, 50, 53, 53, 46, 50, 53, 53>>

\* The longest address, one more character, and runs of colons.
Limits == {JoinFields(Wide(6) \o <<WideQuad>>), JoinFields(Wide(6) \o <<WideQuad \o <<49>>>>),
           JoinFields(Wide(8)), JoinFields(Wide(7)), JoinFields(Wide(9)),
           JoinFields(Wide(7) \o <<WideQuad>>)}
            \cup {[i \in 1..n |-> Colon] : n \in 1..46}

HeadTexts == IPv6Texts \cup Limits

MCTexts == HeadTexts

\* A buffer no text denotes: what is left in it shows.
MCOutBefore == [i \in 0..15 |-> 160 + i]

InetPton == INSTANCE Parser WITH Meaning <- IPv6Meaning

\* With the prefilter and without it the parser accepts exactly the texts
\* inet_pton accepts and stores the same bytes: the prefilter "only ever
\* removes work on *invalid* input" (13).
ImplementsInetPton == InetPton!Spec

=============================================================================
