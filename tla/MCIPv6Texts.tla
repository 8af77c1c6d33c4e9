---------------------------- MODULE MCIPv6Texts ----------------------------
(***************************************************************************)
(* The IPv6 texts the model checker runs the parsers on: every placement   *)
(* of colons in up to ten fields, and every valid shape with one of its    *)
(* fields replaced by each of a list of odd ones.                          *)
(***************************************************************************)
EXTENDS Ascii, SequencesExt

JoinFields(fields) ==
  FoldLeft(LAMBDA t, f : t \o <<Colon>> \o f, Head(fields), Tail(fields))

\* The one-digit field of the i-th place; every place has its own digit.
Field(i) == <<49 + (i % 8)>>

\* Fields present or empty in every combination: "", "::", "1::3", ":2:", ...
ColonPatterns(n) ==
  {JoinFields([i \in 1..n |-> IF i \in present THEN Field(i) ELSE <<>>]) :
     present \in SUBSET (1..n)}

\* The valid shapes: no "::" and n fields, or "::" after the first k of them.
Plain(n) == [i \in 1..n |-> Field(i)]
Gapped(n, k) ==
  (IF k = 0 THEN <<<<>>>> ELSE SubSeq(Plain(n), 1, k)) \o <<<<>>>> \o
  (IF k = n THEN <<<<>>>> ELSE SubSeq(Plain(n), k + 1, n))

OddHextets == {
  <<48, 48, 48, 48>>, <<97, 66, 99, 68>>, <<70, 70, 70, 70>>,  \* 0000 aBcD FFFF
  <<48, 48, 48, 48, 49>>, <<49, 50, 51, 52, 53>>,              \* 00001 12345
  <<103>>, <<49, 71>>, <<96>>, <<47>>, <<37, 49>>, <<0>>,       \* g 1G ` / %1 NUL
  <<177>>, <<186>>}            \* '1' and ':' with the high bit set

OddQuads == {
  <<49,46,50,46,51,46,52>>,                                     \* 1.2.3.4
  <<50,53,53,46,50,53,53,46,50,53,53,46,50,53,53>>,             \* 255.255.255.255
  <<49,48,46,48,46,49,50,56,46,50,53,54>>,                      \* 10.0.128.256
  <<48,49,46,50,46,51,46,52>>,                                  \* 01.2.3.4
  <<49,46,50,46,51,46,48,52>>,                                  \* 1.2.3.04
  <<49,46,50,46,51>>, <<49,46,50,46,51,46>>,                    \* 1.2.3  1.2.3.
  <<49,46,50,46,51,46,52,46>>, <<49,46,50,46,51,46,52,46,53>>,  \* 1.2.3.4. 1.2.3.4.5
  <<46,49,46,50,46,51>>, <<49,46,46,50,46,51>>, <<46>>,         \* .1.2.3 1..2.3 .
  <<49,46,50,46,97,46,52>>, <<49,97,46,50,46,51,46,52>>,        \* 1.2.a.4 1a.2.3.4
  <<49,50,51,52,46,49,46,49,46,49>>}                            \* 1234.1.1.1

OddFields == OddHextets \cup OddQuads

WithOneOddField(shape) ==
  {JoinFields([shape EXCEPT ![i]= f]) : i \in DOMAIN shape, f \in OddFields}

OddTexts ==
  (UNION {WithOneOddField(Plain(n)) : n \in {1, 2, 6, 7, 8, 9}}) \cup
  (UNION {UNION {WithOneOddField(Gapped(n, k)) : k \in 0..n} : n \in 1..8})

IPv6Texts == (UNION {ColonPatterns(n) : n \in 1..10}) \cup OddTexts

=============================================================================
