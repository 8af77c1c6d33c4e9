------------------------------ MODULE IPv6Text ------------------------------
(***************************************************************************)
(* The IPv6 texts of RFC 4291 section 2.2 as inet_pton(AF_INET6) reads     *)
(* them, stated as a grammar and not as an algorithm.  It is the reference *)
(* tests/test_parse_ip.cpp and benchmarks/benchmark.cpp compare with.      *)
(***************************************************************************)
EXTENDS Ascii, SequencesExt

\* The parts of t between the bytes equal to sep; one more than there are seps.
SplitBy(t, sep) ==
  FoldLeft(LAMBDA parts, c :
             IF c = sep THEN Append(parts, <<>>)
                        ELSE Append(Front(parts), Append(Last(parts), c)),
           << <<>> >>, t)

NumberIn(base, digits) ==
  FoldLeft(LAMBDA n, c : n * base + HexToBinary(c), 0, digits)

----------------------------------------------------------------------------
\* 1 to 4 hexadecimal digits: two bytes of the address.
IsHextet(f) == Len(f) \in 1..4 /\ \A i \in DOMAIN f : IsHexDigit(f[i])

HextetBytes(f) == <<NumberIn(16, f) \div 256, NumberIn(16, f) % 256>>

\* A decimal octet, which has no leading zero.
IsOctet(f) ==
  /\ Len(f) \in 1..3
  /\ \A i \in DOMAIN f : IsDigit(f[i])
  /\ f[1] = Zero => Len(f) = 1
  /\ NumberIn(10, f) <= 255

\* A dotted quad: four bytes of the address.
IsQuad(f) ==
  LET octets == SplitBy(f, Dot)
  IN Len(octets) = 4 /\ \A i \in 1..4 : IsOctet(octets[i])

QuadBytes(f) == [i \in 1..4 |-> NumberIn(10, SplitBy(f, Dot)[i])]

FieldBytes(f) == IF IsHextet(f) THEN HextetBytes(f) ELSE QuadBytes(f)

\* The bytes of a ':'-separated run of hextets, which may be empty, and which
\* a quad may end where mayEndInQuad; the empty set if t is no such run.
RunBytes(t, mayEndInQuad) ==
  LET fields == SplitBy(t, Colon)
      ok(i) == \/ IsHextet(fields[i])
               \/ mayEndInQuad /\ i = Len(fields) /\ IsQuad(fields[i])
  IN IF t = <<>> THEN {<<>>}
     ELSE IF \A i \in DOMAIN fields : ok(i)
     THEN {FoldLeft(LAMBDA bs, f : bs \o FieldBytes(f), <<>>, fields)}
     ELSE {}

Zeros(n) == [i \in 1..n |-> 0]

\* "::" stands for one hextet of zeros or more, and occurs at most once.  A quad
\* may end the text and, where quadBeforeGap, also what comes before "::".
AddressBytes(t, quadBeforeGap) ==
  LET gaps == {i \in 1..(Len(t) - 1) : t[i] = Colon /\ t[i + 1] = Colon}
      gap == CHOOSE i \in gaps : TRUE
      before == RunBytes(SubSeq(t, 1, gap - 1), quadBeforeGap)
      after == RunBytes(SubSeq(t, gap + 2, Len(t)), TRUE)
  IN CASE gaps = {} -> {b \in RunBytes(t, TRUE) : Len(b) = 16}
       [] gaps = {gap} -> {b \o Zeros(16 - Len(b) - Len(a)) \o a :
                             <<b, a>> \in {p \in before \X after :
                                             Len(p[1]) + Len(p[2]) <= 14}}
       [] OTHER -> {}

Buffer16(bytes) == [i \in 0..15 |-> bytes[i + 1]]

\* The 16-byte buffers, indexed from 0, that t denotes.
IPv6Meaning(t) == {Buffer16(b) : b \in AddressBytes(t, FALSE)}

\* What the vtlmks parsers accept: those texts, and texts with a quad before
\* "::", which inet_pton refuses.
VtlmksMeaning(t) == {Buffer16(b) : b \in AddressBytes(t, TRUE)}

=============================================================================
