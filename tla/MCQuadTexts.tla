---------------------------- MODULE MCQuadTexts ----------------------------
(***************************************************************************)
(* Texts that tell the checks of a parser of dotted quads apart: every     *)
(* layout of dots of up to nine characters, three dots anywhere in ten to  *)
(* fifteen, octets around 255 and with leading zeros in every position,    *)
(* and a character that is no digit in every place.                        *)
(***************************************************************************)
EXTENDS MCIPv4Texts, FiniteSetsExt

\* A text of n characters, '.' in some lanes and '1' in the others.
WithDots(n, dots) == [i \in 1..n |-> IF i \in dots THEN Dot ELSE 49]
AllLayouts == UNION {{WithDots(n, dots) : dots \in SUBSET (1..n)} : n \in 0..9}
LongLayouts ==
  UNION {{WithDots(n, dots) : dots \in kSubset(3, 1..n)} : n \in 10..15}

Edges == {<<48>>, <<48, 48>>, <<48, 48, 49>>, <<50, 53, 53>>, <<50, 53, 54>>,
          <<50, 54, 48>>, <<51, 48, 48>>, <<57, 57, 57>>, <<50, 53, 53, 48>>,
          <<48, 50, 53, 53>>, <<>>}                    \* 0 00 001 255 ... 0255
Quads == {JoinParts(parts) :
            parts \in UNION {{[PlainParts(4) EXCEPT ![i] = p, ![j] = q] :
                                p \in Edges, q \in Edges} :
                             i \in 1..4, j \in 1..4}}

\* 192.168.10.1 and 255.255.255.255 with one character that is no digit.
Junk == {32, 47, 58, 176, 0, 255}
Whole == {<<49, 57, 50, 46, 49, 54, 56, 46, 49, 48, 46, 49>>,
          JoinParts([i \in 1..4 |-> <<50, 53, 53>>])}
WithJunk == UNION {{[t EXCEPT ![i] = c] : i \in DOMAIN t, c \in Junk} : t \in Whole}
              \cup {Append(t, c) : t \in Whole, c \in Junk}

=============================================================================
