----------------------------- MODULE MCParseIP -----------------------------
(***************************************************************************)
(* parse_ip in front of the two parsers of the portable build: V4Meaning   *)
(* is what AdaIPv4 implements, V6Meaning what AdaIPv6 implements.          *)
(***************************************************************************)
EXTENDS ParseIP, MCIPTexts, IPv4Text

MCTexts == IPTexts

\* The hypothesis of the theorems of ParseIPProofs holds of these parsers.
ASSUME PortableColonDecides == ColonDecides

=============================================================================
