------------------------------- MODULE Word32 -------------------------------
(***************************************************************************)
(* Unsigned 32-bit values as their two halves <<high, low>>.               *)
(***************************************************************************)
EXTENDS Ascii

ZeroWord32 == <<0, 0>>

High(w) == w[1]
Low(w) == w[2]

\* w * base + digit, whose high half exceeds 16 bits when it overflows.
TimesPlus(w, base, digit) ==
  LET low == Low(w) * base + digit
  IN <<High(w) * base + low \div 65536, low % 65536>>

NeverOverflows(w) == FALSE                                \* mutation: no limit
Overflows(w) == High(w) > 65535

\* w < 2^(8 * n), for n in 1..4.
FitsBytes(w, n) ==
  CASE n = 1 -> High(w) = 0 /\ Low(w) < 256
    [] n = 2 -> High(w) = 0
    [] n = 3 -> High(w) < 256
    [] OTHER -> ~Overflows(w)

\* The four bytes of w, the most significant first.
BytesOf(w) == <<High(w) \div 256, High(w) % 256, Low(w) \div 256, Low(w) % 256>>

\* Its last n bytes.
LastBytes(w, n) == SubSeq(BytesOf(w), 5 - n, 4)

=============================================================================
