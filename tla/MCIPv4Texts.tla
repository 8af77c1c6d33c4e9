---------------------------- MODULE MCIPv4Texts ----------------------------
(***************************************************************************)
(* The IPv4 texts the model checker runs the parsers on: up to six parts,  *)
(* one or two of them odd, followed by up to three dots.                   *)
(***************************************************************************)
EXTENDS Ascii, SequencesExt

JoinParts(parts) ==
  FoldLeft(LAMBDA t, p : t \o <<Dot>> \o p, Head(parts), Tail(parts))

Dots(n) == [i \in 1..n |-> Dot]

OddParts == {
  <<>>, <<48>>, <<55>>, <<48, 48>>, <<48, 56>>, <<48, 49, 48>>,  \* 0 7 00 08 010
  <<48, 120>>, <<48, 88, 49, 102>>, <<48, 120, 103>>,            \* 0x 0X1f 0xg
  <<50, 53, 53>>, <<50, 53, 54>>, <<48, 51, 55, 55>>,            \* 255 256 0377
  <<48, 120, 49, 48, 48>>,                                       \* 0x100
  <<54, 53, 53, 51, 53>>, <<54, 53, 53, 51, 54>>,                \* 65535 65536
  <<49, 54, 55, 55, 55, 50, 49, 53>>,                            \* 16777215
  <<49, 54, 55, 55, 55, 50, 49, 54>>,                            \* 16777216
  <<52, 50, 57, 52, 57, 54, 55, 50, 57, 53>>,                    \* 4294967295
  <<52, 50, 57, 52, 57, 54, 55, 50, 57, 54>>,                    \* 4294967296
  <<48, 120, 70, 70, 70, 70, 70, 70, 70, 70>>,                   \* 0xFFFFFFFF
  <<48, 120, 49, 48, 48, 48, 48, 48, 48, 48, 48>>,               \* 0x100000000
  <<97>>, <<49, 97>>, <<45, 49>>, <<32, 49>>, <<49, 58>>}        \* a 1a -1 " 1" 1:

PlainParts(n) == [i \in 1..n |-> <<48 + i>>]

WithOneOddPart(parts) ==
  {[parts EXCEPT ![i] = p] : i \in DOMAIN parts, p \in OddParts}
OneOdd(n) == WithOneOddPart(PlainParts(n))
TwoOdd(n) == UNION {WithOneOddPart(parts) : parts \in OneOdd(n)}

IPv4Texts ==
  {JoinParts(parts) : parts \in
     (UNION {OneOdd(n) : n \in 1..6}) \cup (UNION {TwoOdd(n) : n \in 2..4})}
  \cup
  {JoinParts(parts) \o Dots(k) : parts \in UNION {OneOdd(n) : n \in 1..5},
                                 k \in 1..3}

=============================================================================
