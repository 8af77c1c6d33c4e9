------------------------------ MODULE QuadHash ------------------------------
(***************************************************************************)
(* The perfect hash of the layouts of a dotted quad, which the table of    *)
(* include/avx512ip.h and that of include/simdzone_ipv4.h share.           *)
(***************************************************************************)
EXTENDS FiniteSetsExt

Layouts == [0..3 -> 1..3]           \* the digits of each octet
EndOf(layout, k) ==
  CASE k = 0 -> layout[0]
    [] k = 1 -> layout[0] + layout[1] + 1
    [] k = 2 -> layout[0] + layout[1] + layout[2] + 2
    [] k = 3 -> layout[0] + layout[1] + layout[2] + layout[3] + 3
DelimitersOf == [layout \in Layouts |-> {EndOf(layout, k) : k \in 0..3}]

\* (partition * kHashMul) >> 24 in 32 bits; kHashMul is 6639 * 2^11, so that
\* what lane i adds to the product is, above its eleven zeros:
Product(i) == IF i < 21 THEN 2 ^ i * (6639 % 2 ^ (21 - i)) ELSE 0
HashKey(lanes) == (MapThenSumSet(Product, lanes) \div 2 ^ 13) % 256

\* make_tables does not compile if two layouts have one key (94, 643).
ASSUME PerfectHash ==
  \A l, m \in Layouts : HashKey(DelimitersOf[l]) = HashKey(DelimitersOf[m]) => l = m

\* The 32-bit product shifted by 24 is a key of eight bits.
ASSUME KeyAssumption == \A lanes \in SUBSET (0..15) : HashKey(lanes) \in 0..255

\* No layout loses a dot and keeps its key: what simdzone rests on, which looks
\* for no dot where the layout has one.
ASSUME SubsetsDiffer ==
  \A layout \in Layouts : \A lanes \in SUBSET DelimitersOf[layout] :
    EndOf(layout, 3) \in lanes /\ HashKey(lanes) = HashKey(DelimitersOf[layout])
      => lanes = DelimitersOf[layout]

\* The layout of each key, none for the keys that are not used.
Table == [key \in 0..255 |-> {l \in Layouts : HashKey(DelimitersOf[l]) = key}]

=============================================================================
