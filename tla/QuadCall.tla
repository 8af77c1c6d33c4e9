------------------------------ MODULE QuadCall ------------------------------
(***************************************************************************)
(* A call of one of the parsers that look for a strict dotted quad in the  *)
(* lanes of a vector.                                                      *)
(***************************************************************************)
EXTENDS IPv4Call, Lanes, QuadText

CONSTANT StrictQuad(_)      \* the address of a strict dotted quad

VARIABLE parser             \* which function is called

Length == Len(input)

\* What the theorems ask of StrictQuad: that it is the grammar of QuadText.
StrictQuadIsQuad == \A t \in Texts : StrictQuad(t) = QuadsOf(t)

=============================================================================
