----------------------------- MODULE MCIPTexts -----------------------------
(***************************************************************************)
(* The texts of both families the model checker runs parse_ip on: every    *)
(* text of up to five bytes that matter to the probe, and addresses.       *)
(***************************************************************************)
EXTENDS MCIPv6Texts, MCIPv4Texts

\* ':', and the bytes whose xor with ':' is 1, 128 and 129: the lanes a borrow
\* empties, and the lanes at the sign bit.
ProbeBytes == {58, 59, 186, 187, 49}

ProbeTexts == UNION {[1..n -> ProbeBytes] : n \in 0..5}

\* A colon after the fifth byte.
LateColons == {
  <<49,50,51,52,53,58,58>>, <<49,46,50,46,51,46,52,58,58>>,     \* 12345::  1.2.3.4::
  <<49,58,49,46,50,46,51,46,52,58,58>>,                          \* 1:1.2.3.4::
  <<48,49,50,51,52,58,49>>, <<49,50,51,52,58,58,49>>,           \* 01234:1  1234::1
  <<97,98,99,100,58,58>>, <<91,58,58,49,93>>}                    \* abcd::  [::1]

IPTexts == ProbeTexts \cup LateColons
           \cup {JoinParts(p) : p \in UNION {OneOdd(n) : n \in 1..5}}
           \cup ColonPatterns(4) \cup ColonPatterns(8)
           \cup WithOneOddField(Plain(8)) \cup WithOneOddField(Gapped(2, 0))

=============================================================================
