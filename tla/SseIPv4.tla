------------------------------- MODULE SseIPv4 -------------------------------
(***************************************************************************)
(* The two SSE IPv4 parsers: parse_ipv4_mula_sse of include/               *)
(* mula_sse_ipv4.h, and parse_ipv4_simdzone of include/simdzone_ipv4.h     *)
(* with sse_inet_aton, which it calls.  Both load sixteen bytes, the text  *)
(* and whatever the caller has in memory after it.  mula takes the         *)
(* length it is told; simdzone finds a length of its own and never         *)
(* compares the dots with the layout that its hash finds.                  *)
(***************************************************************************)
EXTENDS QuadCall

CONSTANT Tails              \* what may follow a text in memory

\* "the caller must guarantee 16 readable bytes at input" (17, and 14 of mula).
ASSUME TailsAssumption ==
  Tails \subseteq Seq(Byte) /\ \A tail \in Tails : Len(tail) >= 16

VARIABLE after              \* the bytes after the text

sseVars == <<parser, input, result, out, after>>

SseParsers == {"mula", "simdzone"}

SseInit ==
  /\ parser \in SseParsers
  /\ input \in Texts
  /\ after \in Tails
  /\ result = "pending"
  /\ out = OutBefore

Loaded == LET memory == input \o after IN [i \in 0..15 |-> At(memory, i)]
LanesOfDots(v) == {i \in 0..15 : v[i] = Dot}

----------------------------------------------------------------------------
(* parse_ipv4_mula_sse.                                                    *)

Mask == 0..(Length - 1)

\* The signed comparison of v - (-128 + '0') with -128 + 10.
DigitLanes(v) == {i \in 0..15 : Signed(Low8(v[i] + 128 - Zero)) < -128 + 10}

\* The virtual dot after the text ends the last component.
Ends(v) == (LanesOfDots(v) \cap Mask) \cup {Length}
End(ends, k) == CHOOSE e \in ends : RankIn(ends, e) = k
First(ends, k) == IF k = 0 THEN 0 ELSE End(ends, k - 1) + 1
Width(ends, k) == End(ends, k) - First(ends, k)

\* The digit n places before the end of component k, if the component has it.
DigitAt(v, ends, k, n) ==
  IF n <= Width(ends, k) THEN v[End(ends, k) - n] - Zero ELSE 0
Component(v, ends, k) ==
  100 * DigitAt(v, ends, k, 3) + 10 * DigitAt(v, ends, k, 2) + DigitAt(v, ends, k, 1)

IsComponent(value, digits) ==
  CASE digits = 1 -> TRUE
    [] digits = 2 -> value >= 10
    [] digits = 3 -> value \in 100..255
    [] OTHER -> FALSE

MulaTakes(v) ==
  /\ Cardinality(LanesOfDots(v) \cap Mask) = 3
  /\ (DigitLanes(v) \cup LanesOfDots(v)) \cap Mask = Mask
  /\ LET ends == Ends(v)
     IN \A k \in 0..3 : IsComponent(Component(v, ends, k), Width(ends, k))

----------------------------------------------------------------------------
(* sse_inet_aton.                                                          *)

\* c ^ '0': 0 to 9 for the digits, and for them only.
XorZero(c) == (IF (c \div 32) % 2 = 1 THEN c - 32 ELSE c + 32)
                + (IF (c \div 16) % 2 = 1 THEN -16 ELSE 16)

\* Adding 0x76 with unsigned saturation sets the high bit of all but the digits,
\* and subtracting it with signed saturation leaves 0..9, or -128..-119.
Raised(v) == [i \in 0..15 |-> Min({XorZero(v[i]) + 118, 255})]
NonDigitLanes(raised) == {i \in 0..15 : raised[i] >= 128}
\* mutation: subtracted without saturation, a dot counts as 30.
Wrapped(raised) == [i \in 0..15 |-> Signed(Low8(raised[i] - 118))]
Lowered(raised) == [i \in 0..15 |-> Max({Signed(raised[i]) - 118, -128})]

\* Up to the first byte that is neither digit nor dot: bad ^ (bad - 1), which
\* is all 32 bits if there is none.
Clip(bad) == IF bad = {} THEN 0..31 ELSE 0..Min(bad)

\* The layout whose id patterns_id has for the partition, if it has one.
PatternOf(partition) == Table[HashKey(partition)]

\* The digit of octet k that the layout has n places before its end: zero if the
\* octet is shorter.
Shuffled(digit, layout, k, n) ==
  IF n <= layout[k] THEN digit[EndOf(layout, k) - n] ELSE 0

\* The 16-bit products, a negative one read as a large unsigned one, and their
\* saturated sum.
Total(digit, layout, k) ==
  LET Word16(n) == n % 65536
      low == Word16(Shuffled(digit, layout, k, 1) + 10 * Shuffled(digit, layout, k, 2))
      high == Word16(100 * Shuffled(digit, layout, k, 3))
  IN Min({low + high, 65535})

ZeroLeads(digit, layout, k) ==
  layout[k] >= 2 /\ Shuffled(digit, layout, k, layout[k]) = 0
Checked(digit, layout) ==
  \E k \in 0..3 : ZeroLeads(digit, layout, k) \/ Total(digit, layout, k) > 255

\* mutation: the sums are narrowed without saturation.
Unpacked(w) == IF w > 32767 THEN w - 65536 ELSE w
\* packus_epi16: signed words to bytes.
Packed(w) == IF w > 32767 THEN 0 ELSE Min({w, 255})

----------------------------------------------------------------------------
Short == Length < 7 \/ Length > 15

RejectLength ==
  /\ result = "pending" /\ Short
  /\ result' = "rejected"
  /\ UNCHANGED <<parser, input, out, after>>

MulaReject ==
  /\ result = "pending" /\ parser = "mula" /\ ~Short
  /\ ~MulaTakes(Loaded)
  /\ result' = "rejected"
  /\ UNCHANGED <<parser, input, out, after>>

MulaStore ==
  /\ result = "pending" /\ parser = "mula" /\ ~Short
  /\ LET v == Loaded
         ends == Ends(v)
     IN /\ MulaTakes(v)
        /\ out' = [k \in 0..3 |-> Low8(Component(v, ends, k))]
  /\ result' = "accepted"
  /\ UNCHANGED <<parser, input, after>>

\* No layout has the key: rejected before the store.  Otherwise the four bytes
\* are stored, and then the text is accepted if the checks pass and both lengths,
\* that of the layout and that of the text, are the length found.
Simdzone ==
  /\ result = "pending" /\ parser = "simdzone" /\ ~Short
  /\ LET raised == Raised(Loaded)
         nonDigits == NonDigitLanes(raised)
         digit == Lowered(raised)
         clip == Clip(nonDigits \ LanesOfDots(Loaded))
         found == Cardinality(clip) - 1
         pattern == PatternOf(nonDigits \cap clip)
     IN \/ /\ pattern = {}
           /\ result' = "rejected"
           /\ UNCHANGED out
        \/ \E layout \in pattern :
             /\ out' = [k \in 0..3 |-> Packed(Total(digit, layout, k))]
             /\ result' = IF /\ ~Checked(digit, layout)
                             /\ found = EndOf(layout, 3)
                             /\ found = Length
                          THEN "accepted" ELSE "rejected"
  /\ UNCHANGED <<parser, input, after>>

SseNext == RejectLength \/ MulaReject \/ MulaStore \/ Simdzone

SseSpec == SseInit /\ [][SseNext]_sseVars

----------------------------------------------------------------------------
(* Properties.                                                             *)

\* The type invariant: sums and components are packed into bytes.
SseTypeOK ==
  /\ parser \in SseParsers
  /\ input \in Texts
  /\ after \in Tails
  /\ result \in {"pending", "accepted", "rejected"}
  /\ out \in [0..3 -> Byte]

\* A text of which simdzone finds the end: one that a digit or a dot follows
\* looks longer.
EndIsFound(tail) == ~IsDigit(tail[1]) /\ tail[1] # Dot

\* What a call of a parser on a text in memory may store.
SsePromised(call) == IF call[1] = "mula" \/ EndIsFound(call[3])
                     THEN StrictQuad(call[2]) ELSE {}

SseContract == INSTANCE Parser WITH
                 Texts <- SseParsers \X Texts \X Tails, input <- <<parser, input, after>>,
                 out <- IF parser = "mula" \/ result = "accepted" THEN out ELSE OutBefore,
                 Meaning <- SsePromised

\* Both accept the strict dotted quads and nothing else, mula whatever follows
\* the text and simdzone unless a digit or a dot does.  Without the comparison
\* that avx512ip.h makes, simdzone rests on this: the dots of an impostor of a
\* layout stand where it wants a digit, and there count as -128.
KeepsContract == SseContract!Spec

=============================================================================
