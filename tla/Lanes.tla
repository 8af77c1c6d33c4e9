-------------------------------- MODULE Lanes --------------------------------
(***************************************************************************)
(* Vectors of byte lanes: a vector is a function on its lanes, a mask the  *)
(* set of its lanes that are 1, a byte is unsigned.                        *)
(***************************************************************************)
EXTENDS Integers, FiniteSets

Low8(n) == n % 256

\* A byte read as two's complement.
Signed(b) == IF b < 128 THEN b ELSE b - 256

\* vpcompressb: lane k holds the byte in the mask's lane of rank k, and the lanes
\* after the last hold zero.  vpexpandb: the other way round, the lanes that are
\* not in the mask keeping the bytes of src.
RankIn(mask, i) == Cardinality({j \in mask : j < i})
CompressLanes(v, mask) ==
  [k \in 0..15 |-> IF k < Cardinality(mask)
                   THEN v[CHOOSE i \in mask : RankIn(mask, i) = k] ELSE 0]
ExpandInto(src, v, mask) ==
  [i \in 0..15 |-> IF i \in mask THEN v[RankIn(mask, i)] ELSE src[i]]

AllLanes(b) == [i \in 0..15 |-> b]
ExpandLanes(v, mask) == ExpandInto(AllLanes(0), v, mask)

=============================================================================
