----------------------------- MODULE MCAdaIPv4 -----------------------------
(***************************************************************************)
(* parse_ipv4_ada on the texts of MCIPv4Texts, against the URL standard.   *)
(***************************************************************************)
EXTENDS AdaIPv4, MCIPv4Texts

MCTexts == IPv4Texts
MCOutBefore == [i \in 0..3 |-> 160 + i]

Reference == INSTANCE IPv4Text

Permissive == INSTANCE Parser WITH Meaning <- Reference!AdaIPv4Meaning
Whatwg == INSTANCE Parser WITH Meaning <- Reference!WhatwgMeaning

\* parse_ipv4_ada accepts exactly the texts of the URL standard and, besides,
\* four parts followed by two dots; it stores the address they denote, and
\* does not touch the caller's buffer when it rejects.
ImplementsPermissive == Permissive!Spec

\* ada_ip.h:12 calls the IPv4 parser WHATWG-conformant: a text is accepted
\* only if the URL standard accepts it.
WhatwgConformant ==
  result = "accepted" => out \in Reference!WhatwgMeaning(input)

=============================================================================
