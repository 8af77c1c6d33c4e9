------------------------------ MODULE IPv4Text ------------------------------
(***************************************************************************)
(* The IPv4 texts of the WHATWG URL standard ("IPv4 parser" and "IPv4      *)
(* number parser"), which ada_ip.h names as its reference, and the strict  *)
(* dotted quad of inet_pton(AF_INET), as grammars.                         *)
(***************************************************************************)
EXTENDS IPv6Text, Word32

HasHexPrefix(f) == Len(f) >= 2 /\ f[1] = Zero /\ f[2] \in {88, 120}   \* X x

\* The radix of a part, and its digits.
Radix(f) == IF HasHexPrefix(f) THEN 16
            ELSE IF Len(f) >= 2 /\ f[1] = Zero THEN 8 ELSE 10

Digits(f) == SubSeq(f, CASE Radix(f) = 16 -> 3 [] Radix(f) = 8 -> 2
                         [] OTHER -> 1, Len(f))

IsPart(f) ==
  /\ f # <<>>
  /\ \A i \in DOMAIN Digits(f) :
       IsHexDigit(Digits(f)[i]) /\ HexToBinary(Digits(f)[i]) < Radix(f)

\* The value of a part; one that overflows stays overflown.
PartValue(f) ==
  FoldLeft(LAMBDA w, c : IF Overflows(w) THEN w
                         ELSE TimesPlus(w, Radix(f), HexToBinary(c)),
           ZeroWord32, Digits(f))

\* The four bytes of n parts: one byte each for all but the last, which fills
\* the rest.
WhatwgBytes(t) ==
  LET split == SplitBy(t, Dot)
      parts == IF Len(split) > 1 /\ Last(split) = <<>> THEN Front(split)
                                                       ELSE split
      n == Len(parts)
      valid == /\ n <= 4
               /\ \A i \in 1..n : IsPart(parts[i])
               /\ \A i \in 1..(n - 1) : FitsBytes(PartValue(parts[i]), 1)
               /\ FitsBytes(PartValue(parts[n]), 5 - n)
  IN IF valid
     THEN {[i \in 1..(n - 1) |-> Low(PartValue(parts[i]))]
             \o LastBytes(PartValue(parts[n]), 5 - n)}
     ELSE {}

Buffer4(bytes) == [i \in 0..3 |-> bytes[i + 1]]

WhatwgMeaning(t) == {Buffer4(b) : b \in WhatwgBytes(t)}

\* What parse_ipv4_ada accepts: those texts, and four parts followed by two
\* dots.
AdaIPv4Meaning(t) ==
  LET twoDots == /\ Len(t) >= 2 /\ t[Len(t)] = Dot /\ t[Len(t) - 1] = Dot
                 /\ Len(SplitBy(t, Dot)) = 6
  IN WhatwgMeaning(t) \cup (IF twoDots THEN WhatwgMeaning(Front(t)) ELSE {})

\* The strict dotted quad.
StrictQuadMeaning(t) == IF IsQuad(t) THEN {Buffer4(QuadBytes(t))} ELSE {}

=============================================================================
