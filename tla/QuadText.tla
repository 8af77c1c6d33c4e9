------------------------------ MODULE QuadText ------------------------------
(***************************************************************************)
(* The strict dotted quads of inet_pton(AF_INET), by their layout: where   *)
(* the dots and the end are, digits elsewhere, no octet over 255 and none  *)
(* that begins with a zero it does not need.  The same texts and addresses *)
(* as those of IPv4Text, which splits the text instead.                    *)
(***************************************************************************)
EXTENDS Ascii, QuadHash

DotsOf(t) == {i \in 0..(Len(t) - 1) : At(t, i) = Dot}
HasLayout(t, layout) == DotsOf(t) \cup {Len(t)} = DelimitersOf[layout]

DigitsElsewhere(t) == \A i \in (0..(Len(t) - 1)) \ DotsOf(t) : IsDigit(At(t, i))

\* The digit n places before the end of octet k, zero where the octet is shorter.
DigitOf(t, layout, k, n) ==
  IF n <= layout[k] THEN At(t, EndOf(layout, k) - n) - Zero ELSE 0
OctetOf(t, layout, k) ==
  100 * DigitOf(t, layout, k, 3) + 10 * DigitOf(t, layout, k, 2) + DigitOf(t, layout, k, 1)

IsOctetOf(t, layout, k) ==
  /\ OctetOf(t, layout, k) <= 255
  /\ layout[k] >= 2 => DigitOf(t, layout, k, layout[k]) # 0

IsQuadOf(t, layout) ==
  /\ HasLayout(t, layout) /\ DigitsElsewhere(t)
  /\ \A k \in 0..3 : IsOctetOf(t, layout, k)

OctetsOf(t, layout) == [k \in 0..3 |-> OctetOf(t, layout, k)]
QuadsOf(t) == {OctetsOf(t, layout) : layout \in {l \in Layouts : IsQuadOf(t, l)}}

=============================================================================
