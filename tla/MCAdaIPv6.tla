----------------------------- MODULE MCAdaIPv6 -----------------------------
(***************************************************************************)
(* parse_ipv6_ada on the texts of MCIPv6Texts, against the IPv6 grammar.   *)
(***************************************************************************)
EXTENDS AdaIPv6, MCIPv6Texts, IPv6Text

MCTexts == IPv6Texts

\* A buffer no text denotes: what is left in it shows.
MCOutBefore == [i \in 0..15 |-> 160 + i]

InetPton == INSTANCE Parser WITH Meaning <- IPv6Meaning

\* parse_ipv6_ada accepts exactly the texts inet_pton accepts, stores the same
\* sixteen bytes, and does not touch the caller's buffer when it rejects.
ImplementsInetPton == InetPton!Spec

=============================================================================
