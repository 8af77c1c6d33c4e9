----------------------------- MODULE MCSseIPv4 -----------------------------
(***************************************************************************)
(* The SSE IPv4 parsers on the texts of MCQuadTexts, on every text of dots *)
(* and ones whose dots, with the end of the text, have the key of another  *)
(* layout that ends there, and with four continuations in memory.          *)
(***************************************************************************)
EXTENDS SseIPv4, MCQuadTexts, IPv4Text

\* Sets of lanes with their products, those of a text in two halves.
Summed(lanes) == {<<dots, MapThenSumSet(Product, dots)>> : dots \in SUBSET lanes}

Impostors(n) ==
  LET ending == {layout \in Layouts : EndOf(layout, 3) = n}
      exact == {DelimitersOf[layout] : layout \in ending}
      keys == {HashKey(delimiters) : delimiters \in exact}
      halves == Summed(0..7) \X Summed(8..(n - 1))
      sum(h) == h[1][2] + h[2][2] + Product(n)
      lanes(h) == h[1][1] \cup h[2][1] \cup {n}
  IN {lanes(h) : h \in {g \in halves : /\ (sum(g) \div 2 ^ 13) % 256 \in keys
                                       /\ lanes(g) \notin exact}}
ImpostorTexts ==
  UNION {{WithDots(n, {i + 1 : i \in lanes}) : lanes \in Impostors(n)} : n \in 10..15}

\* 127.0.0 and 10.20.30, which with .40 after them are quads.
Stems == {JoinParts(<< <<49, 50, 55>>, <<48>>, <<48>> >>),
          JoinParts(<< <<49, 48>>, <<50, 48>>, <<51, 48>> >>)}

TooLong == {WithDots(16, {2, 4, 6}), WithDots(16, {4, 8, 12})}

SseTexts == AllLayouts \cup LongLayouts \cup ImpostorTexts \cup Quads
              \cup WithJunk \cup Stems \cup TooLong
MCTexts == SseTexts

\* NULs, "/24", "5" and ".40" after the text.
Padded(t) == [i \in 1..16 |-> IF i <= Len(t) THEN t[i] ELSE 0]
SomeTails == {Padded(t) : t \in {<<>>, <<47, 50, 52>>, <<53>>, <<46, 52, 48>>}}
MCTails == SomeTails

\* A buffer no text denotes: what is left in it shows.
MCOutBefore == [i \in 0..3 |-> 160 + i]

ASSUME StrictQuadIsQuad

=============================================================================
