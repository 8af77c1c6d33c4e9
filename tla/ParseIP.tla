------------------------------ MODULE ParseIP ------------------------------
(***************************************************************************)
(* parse_ip of include/parse_ip.h: the probe that tells the families       *)
(* apart, the call of the chosen parser, and the answer.  The two parsers  *)
(* are any that keep the contract of Parser; which ones they are is the    *)
(* choice of the build (117, 127), here of the constants.                  *)
(*                                                                         *)
(* The probe's 64-bit subtraction w - 0x0101010101010101 is taken from the *)
(* least significant byte lane up, one lane a step, because a borrow that  *)
(* leaves a lane changes the next one: that is what its identity is about. *)
(***************************************************************************)
EXTENDS Ascii

CONSTANTS Texts,            \* the inputs
          V4Meaning(_),     \* the addresses detail::parse_v4 finds in a text
          V6Meaning(_)      \* the addresses detail::parse_v6 finds in a text

V4Values == [0..3 -> Byte]
V6Values == [0..15 -> Byte]

ASSUME TextsAssumption == Texts \subseteq Seq(Byte)
ASSUME MeaningAssumption ==
  \A t \in Texts : V4Meaning(t) \subseteq V4Values /\ V6Meaning(t) \subseteq V6Values

VARIABLES
  littleEndian,             \* of the target: the first byte is the lowest lane
  input, pc,
  lane, borrow, hit,        \* of the probe: lanes done, the borrow, any hit
  called,                   \* what the parser returned: "pending", ...
  value,                    \* the local the parser stores into
  answer                    \* what parse_ip returns

probe == <<lane, borrow, hit>>
vars == <<littleEndian, input, pc, probe, called, value, answer>>

ZeroV6 == [i \in 0..15 |-> 0]
ZeroV4 == [i \in 0..3 |-> 0]

V6 == INSTANCE Parser WITH OutBefore <- ZeroV6, Meaning <- V6Meaning,
                           result <- called, out <- value
V4 == INSTANCE Parser WITH OutBefore <- ZeroV4, Meaning <- V4Meaning,
                           result <- called, out <- value

Init ==
  /\ littleEndian \in BOOLEAN
  /\ input \in Texts
  /\ pc = "entry"
  /\ lane = 0 /\ borrow = 0 /\ hit = FALSE
  /\ called = "pending"
  /\ value = ZeroV4
  /\ answer = "pending"

----------------------------------------------------------------------------
(* is_ipv6_form, lines 105-112.                                            *)

\* min(input.size(), 5) bytes are loaded; the others stay zero.
UnboundedLoad == Len(input)                             \* mutation: the min is lost
FourLoaded == IF Len(input) < 4 THEN Len(input) ELSE 4  \* mutation: 4 for 5
Loaded == IF Len(input) < 5 THEN Len(input) ELSE 5
ByteAt(i) == IF i \in 0..(Loaded - 1) THEN At(input, i) ELSE 0

\* The index in the text of the byte in the k-th lane from the bottom.
LaneIndex(k) == IF littleEndian THEN k ELSE 7 - k

\* b ^ k, for a k with one bit set; and b ^ ':', whose bits are 0011 1010.
Flip(b, k) == IF (b \div k) % 2 = 1 THEN b - k ELSE b + k
XorColon(b) == Flip(Flip(Flip(Flip(b, 32), 16), 8), 2)

LaneByte == XorColon(ByteAt(LaneIndex(lane)))

\* The lane of w - 0x01...01, modulo 256, and whether it borrows from the next.
Difference == LaneByte - 1 - borrow
Borrows == Difference < 0
LaneResult == IF Borrows THEN Difference + 256 ELSE Difference

\* The sign bit of (w - 0x01...01) & ~w, in this lane.
SignOfDifference == LaneResult >= 128     \* mutation: the & ~w is lost
LaneHit == LaneResult >= 128 /\ LaneByte < 128

LanesLeft == lane < 8

ProbeLane ==
  /\ pc = "probe" /\ LanesLeft
  /\ hit' = (hit \/ LaneHit)
  /\ borrow' = IF Borrows THEN 1 ELSE 0
  /\ lane' = lane + 1
  /\ UNCHANGED <<littleEndian, input, pc, called, value, answer>>

----------------------------------------------------------------------------
(* parse_ip, lines 148-165.                                                *)

Empty ==
  /\ pc = "entry" /\ Len(input) = 0
  /\ answer' = "empty"
  /\ pc' = "returned"
  /\ UNCHANGED <<littleEndian, input, probe, called, value>>

StartProbe ==
  /\ pc = "entry" /\ Len(input) # 0
  /\ pc' = "probe"
  /\ UNCHANGED <<littleEndian, input, probe, called, value, answer>>

CallV6 ==
  /\ pc = "probe" /\ ~LanesLeft /\ hit
  /\ value' = ZeroV6
  /\ pc' = "v6"
  /\ UNCHANGED <<littleEndian, input, probe, called, answer>>

CallV4 ==
  /\ pc = "probe" /\ ~LanesLeft /\ ~hit
  /\ value' = ZeroV4
  /\ pc' = "v4"
  /\ UNCHANGED <<littleEndian, input, probe, called, answer>>

\* The callee runs: its own module shows that it keeps this contract.
RunV6 ==
  /\ pc = "v6" /\ V6!Next
  /\ UNCHANGED <<littleEndian, pc, probe, answer>>
RunV4 ==
  /\ pc = "v4" /\ V4!Next
  /\ UNCHANGED <<littleEndian, pc, probe, answer>>

ReturnV6 ==
  /\ pc = "v6" /\ called # "pending"
  /\ answer' = IF called = "accepted" THEN "ipv6" ELSE "invalid_ipv6"
  /\ pc' = "returned"
  /\ UNCHANGED <<littleEndian, input, probe, called, value>>

ReturnV4 ==
  /\ pc = "v4" /\ called # "pending"
  /\ answer' = IF called = "accepted" THEN "ipv4" ELSE "invalid_ipv4"
  /\ pc' = "returned"
  /\ UNCHANGED <<littleEndian, input, probe, called, value>>

Next ==
  \/ Empty \/ StartProbe \/ ProbeLane
  \/ CallV6 \/ RunV6 \/ ReturnV6
  \/ CallV4 \/ RunV4 \/ ReturnV4

Spec == Init /\ [][Next]_vars

----------------------------------------------------------------------------
(* Properties.                                                             *)

\* The types, which local the chosen parser was given, and that the memcpy of
\* line 108 copies at least a byte, none from behind the text and none past the
\* eight bytes of w.
TypeOK ==
  /\ littleEndian \in BOOLEAN
  /\ input \in Texts
  /\ pc \in {"entry", "probe", "v4", "v6", "returned"}
  /\ lane \in 0..8 /\ borrow \in 0..1 /\ hit \in BOOLEAN
  /\ pc = "probe" => Loaded \in 1..8 /\ Loaded <= Len(input)
  /\ called \in {"pending", "accepted", "rejected"}
  /\ value \in V4Values \cup V6Values
  /\ pc = "v4" => value \in V4Values
  /\ pc = "v6" => value \in V6Values
  /\ answer \in {"pending", "empty", "ipv4", "ipv6",
                 "invalid_ipv4", "invalid_ipv6"}

ColonInFive(t) == \E i \in 0..4 : i < Len(t) /\ At(t, i) = Colon

\* The zero-byte identity has no false positive and no false negative, on
\* targets of either byte order: is_ipv6_form answers whether one of the first
\* five bytes is a colon, though a borrow can make a lane above the colon's
\* look like a hit too (97-101).
ProbeExact ==
  pc \in {"v4", "v6"} => (pc = "v6" <=> ColonInFive(input))

\* "Misrouting can only ever happen to input that both parsers reject" (37):
\* a family's error is never given for an address of the other family.
NoMisrouting ==
  /\ answer = "invalid_ipv4" => V6Meaning(input) = {}
  /\ answer = "invalid_ipv6" => V4Meaning(input) = {}

\* What the note at the top of the header says of both grammars (24-37): the
\* answer of the probe, and a byte at least, are necessary.
ColonDecides ==
  \A t \in Texts : /\ V6Meaning(t) # {} => ColonInFive(t)
                   /\ V4Meaning(t) # {} => Len(t) # 0 /\ ~ColonInFive(t)

EitherMeaning(t) == V4Meaning(t) \cup V6Meaning(t)

EitherResult == CASE answer = "pending" -> "pending"
                  [] answer \in {"ipv4", "ipv6"} -> "accepted"
                  [] OTHER -> "rejected"
Nothing == "nothing"        \* std::expected holds no address
EitherOut == IF EitherResult = "accepted" THEN value ELSE Nothing

Either == INSTANCE Parser WITH OutBefore <- Nothing, Meaning <- EitherMeaning,
                               result <- EitherResult, out <- EitherOut

\* parse_ip is itself a parser, of the texts of both families: whatever either
\* parser accepts it accepts with that parser's address, and nothing else; the
\* probe before them loses and adds none.
ImplementsEitherParser == Either!Spec

=============================================================================
