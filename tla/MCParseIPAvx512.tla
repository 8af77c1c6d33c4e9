-------------------------- MODULE MCParseIPAvx512 --------------------------
(***************************************************************************)
(* parse_ip in front of the parsers of the AVX-512 build: V6Meaning is     *)
(* what VtlmksScalar implements, the parser vtlmks::parse_ipv6_avx512      *)
(* leaves every text with a dot to.                                        *)
(***************************************************************************)
EXTENDS ParseIP, MCIPTexts, IPv4Text

MCTexts == IPTexts

=============================================================================
