------------------------------ MODULE GroupText ------------------------------
(***************************************************************************)
(* The IPv6 texts of RFC 4291 section 2.2 that have no dotted quad, by     *)
(* where their colons are: eight groups of one to four hexadecimal digits, *)
(* or at most seven around one "::".  The same texts and addresses as      *)
(* those of IPv6Text, which splits the text instead; MCVtlmksSimd compares *)
(* the two.                                                                *)
(***************************************************************************)
EXTENDS Ascii, Lanes

Places(t) == 0..(Len(t) - 1)
ColonsOf(t) == {i \in Places(t) : At(t, i) = Colon}

\* The colons that another one follows.
DoublesOf(t) == {i \in ColonsOf(t) : i + 1 \in ColonsOf(t)}

HexElsewhere(t) == \A i \in Places(t) \ ColonsOf(t) : IsHexDigit(At(t, i))

\* The colons and the end of the text separate its fields, numbered from 0.
\* Field k is between cuts k and k + 1; the first cut is before the text.
Fields(t) == Cardinality(ColonsOf(t)) + 1
Separators(t) == ColonsOf(t) \cup {Len(t)}
Cut(t, g) == IF g = 0 THEN -1
             ELSE CHOOSE i \in Separators(t) : RankIn(Separators(t), i) = g - 1

\* One more than the number of bytes of field k.
Pitch(t, k) == Cut(t, k + 1) - Cut(t, k)

----------------------------------------------------------------------------
\* The value of digit k of the last four before hi, zero where there are fewer
\* after lo; high and low byte, o = 0 and 1, of the group between lo and hi.
DigitIn(t, lo, hi, k) ==
  LET i == hi - 4 + k
  IN IF i > lo THEN HexToBinary(At(t, i)) ELSE 0
GroupByte(t, lo, hi, o) ==
  16 * DigitIn(t, lo, hi, 2 * o) + DigitIn(t, lo, hi, 2 * o + 1)

\* Byte b of a buffer that has field k in the slot of that byte.
FieldByte(t, k, b) == GroupByte(t, Cut(t, k), Cut(t, k + 1), b % 2)

EightGroups(t) ==
  /\ Fields(t) = 8 /\ HexElsewhere(t)
  /\ \A k \in 0..7 : Pitch(t, k) \in 2..5
EightBytes(t) == [b \in 0..15 |-> FieldByte(t, b \div 2, b)]

\* The numbers below h, and n numbers from b on.
Blocks(h, b, n) == (0..(h - 1)) \cup (b..(b + n - 1))

\* h groups, "::" and n groups.  A side without groups has one field, which is
\* empty, as is the field inside "::".
AtLeastOne(n) == IF n = 0 THEN 1 ELSE n
GroupsAround(t, h, n) ==
  /\ h + n <= 7 /\ Fields(t) = AtLeastOne(h) + 1 + AtLeastOne(n)
  /\ HexElsewhere(t)
  /\ \A k \in 0..(Fields(t) - 1) :
       Pitch(t, k) \in IF k \in Blocks(h, AtLeastOne(h) + 1, n) THEN 2..5 ELSE {1}

\* The groups before "::", the groups after it, and zeros between.
GapBytes(t, h, n) ==
  [b \in 0..15 |->
     LET g == b \div 2
     IN CASE g < h -> FieldByte(t, g, b)
          [] g >= 8 - n -> FieldByte(t, AtLeastOne(h) + 1 + g - (8 - n), b)
          [] OTHER -> 0]

GroupMeaning(t) ==
  (IF EightGroups(t) THEN {EightBytes(t)} ELSE {}) \cup
  {GapBytes(t, s[1], s[2]) : s \in {s \in (0..7) \X (0..7) : GroupsAround(t, s[1], s[2])}}

----------------------------------------------------------------------------
(* Where the last field is a dotted quad of the octets q, for two groups.  *)

HexBeforeLast(t) ==
  \A i \in Places(t) \ ColonsOf(t) : i < Cut(t, Fields(t) - 1) => IsHexDigit(At(t, i))

SixAndQuad(t) ==
  /\ Fields(t) = 7 /\ HexBeforeLast(t)
  /\ \A k \in 0..5 : Pitch(t, k) \in 2..5

\* h groups, "::", n groups and the quad.
QuadAround(t, h, n) ==
  /\ h + n <= 5 /\ Fields(t) = AtLeastOne(h) + 1 + n + 1
  /\ HexBeforeLast(t)
  /\ \A k \in 0..(Fields(t) - 2) :
       Pitch(t, k) \in IF k \in Blocks(h, AtLeastOne(h) + 1, n) THEN 2..5 ELSE {1}

\* The groups before the gap of the first twelve bytes, the groups after it, and
\* the quad.
BytesWithQuad(t, h, n, q) ==
  [b \in 0..15 |->
     LET g == b \div 2
     IN CASE g < h -> FieldByte(t, g, b)
          [] g \in (6 - n)..5 -> FieldByte(t, AtLeastOne(h) + 1 + g - (6 - n), b)
          [] g > 5 -> q[b - 12]
          [] OTHER -> 0]

QuadMeaning(t, q) ==
  (IF SixAndQuad(t) THEN {BytesWithQuad(t, 6, 0, q)} ELSE {}) \cup
  {BytesWithQuad(t, s[1], s[2], q) : s \in {s \in (0..5) \X (0..5) : QuadAround(t, s[1], s[2])}}

Dotted(t) == \E i \in Places(t) : At(t, i) = Dot

=============================================================================
