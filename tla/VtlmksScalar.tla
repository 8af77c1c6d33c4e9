---------------------------- MODULE VtlmksScalar ----------------------------
(***************************************************************************)
(* parse_ipv6_scalar of include/vtlmks_ipv6.h with the parse_groups and    *)
(* parse_ipv4_tail it calls, the reference of both vtlmks SIMD parsers.    *)
(* pc names where the call is:                                             *)
(*   "entry"   looking for "::"                         (168-196, 213)     *)
(*   "groups"  on entry to parse_groups                 (105)              *)
(*   "token"   the loop that looks for a token's end    (110-118)          *)
(*   "quad"    the loop of parse_ipv4_tail              (69)               *)
(*   "hextet"  the loop over the digits of a hextet     (137)              *)
(*   "produced"  parse_groups has returned 1            (201, 204, 217)    *)
(* The search for "::" changes nothing but an index and is one step.       *)
(***************************************************************************)
EXTENDS Ascii

CONSTANTS Texts,        \* the texts the call may be given
          OutBefore     \* the caller's 16 bytes before the call

ASSUME TextsAssumption == Texts \subseteq Seq(Byte)
ASSUME OutAssumption == OutBefore \in [0..15 -> Byte]

VARIABLES
  input, pc,
  dc,                   \* the index of "::", or -1
  group,                \* which call of parse_groups: "head", "tail", "whole"
  tokenAt, tokenEnd,    \* p and q of parse_groups
  filled,               \* its bytes
  val, ndig, octet,     \* of the token being read
  bufs,                 \* headbuf, tailbuf and tmp, by the call they are given to
  hb,                   \* the bytes produced by the head
  result, out

place == <<dc, group, hb>>
token == <<tokenAt, tokenEnd, val, ndig, octet>>
vars == <<input, pc, place, token, filled, bufs, result, out>>

\* headbuf and tailbuf are uninitialised (197-198).
Unset == -1

Init ==
  /\ input \in Texts
  /\ pc = "entry"
  /\ dc = -1 /\ group = "whole" /\ hb = 0
  /\ tokenAt = 0 /\ tokenEnd = 0 /\ val = 0 /\ ndig = 0 /\ octet = 0
  /\ filled = 0
  /\ bufs = [head |-> [i \in 0..15 |-> Unset], tail |-> [i \in 0..15 |-> Unset],
             whole |-> [i \in 0..15 |-> 0]]
  /\ result = "pending"
  /\ out = OutBefore

\* Every return 0 between 169 and 221: nothing is stored.
Reject ==
  /\ pc' = "returned"
  /\ result' = "rejected"
  /\ UNCHANGED <<input, place, token, filled, bufs, out>>

ColonAt(i) == 0 <= i /\ i < Len(input) /\ At(input, i) = Colon
GapAt(i) == ColonAt(i) /\ ColonAt(i + 1)
Gaps == {i \in 0..Len(input) : GapAt(i)}
IsFirstGap(i) == i \in Gaps /\ \A j \in Gaps : i <= j

----------------------------------------------------------------------------
(* Lines 168-196 and 213.                                                  *)

RejectEmpty == pc = "entry" /\ Len(input) = 0 /\ Reject

\* A second "::" after the first one, or a third colon on either side of it.
RejectGap ==
  /\ pc = "entry"
  /\ \E i \in Gaps : /\ IsFirstGap(i)
                     /\ \/ \E j \in Gaps : j >= i + 2
                        \/ ColonAt(i - 1)
                        \/ ColonAt(i + 2)
  /\ Reject

StartHead ==
  /\ pc = "entry"
  /\ \E i \in Gaps : /\ IsFirstGap(i)
                     /\ \A j \in Gaps : j < i + 2
                     /\ ~ColonAt(i - 1) /\ ~ColonAt(i + 2)
                     /\ dc' = i
  /\ group' = "head"
  /\ tokenAt' = 0
  /\ pc' = "groups"
  /\ UNCHANGED <<input, hb, tokenEnd, val, ndig, octet, filled, bufs, result, out>>

EdgeColon == ColonAt(0) \/ ColonAt(Len(input) - 1)

RejectEdgeColon ==
  /\ pc = "entry" /\ Len(input) > 0 /\ Gaps = {} /\ EdgeColon
  /\ Reject

StartWhole ==
  /\ pc = "entry" /\ Len(input) > 0 /\ Gaps = {} /\ ~EdgeColon
  /\ group' = "whole"
  /\ tokenAt' = 0
  /\ pc' = "groups"
  /\ UNCHANGED <<input, dc, hb, tokenEnd, val, ndig, octet, filled, bufs, result, out>>

----------------------------------------------------------------------------
(* parse_groups, lines 104-162: [p, end) into out, of cap bytes.           *)

RunEndIgnoresGap == Len(input)        \* mutation: the head runs to the end
RunEnd == IF group = "head" THEN dc ELSE Len(input)
Cap == 16

EnterGroups ==
  /\ pc = "groups"
  /\ filled' = 0
  /\ pc' = IF tokenAt = RunEnd THEN "produced" ELSE "token"
  /\ tokenEnd' = tokenAt
  /\ UNCHANGED <<input, place, tokenAt, val, ndig, octet, bufs, result, out>>

\* The scan for the end of the token, q starting at p (111, 113-118).
ScanEnds == tokenEnd = RunEnd \/ ColonAt(tokenEnd)
\* mutation: ++q only when the byte is no dot.
ScanStopsAtDot == IF At(input, tokenEnd) = Dot THEN tokenEnd ELSE tokenEnd + 1
ScanNext == tokenEnd + 1

ScanToken ==
  /\ pc = "token" /\ ~ScanEnds
  /\ tokenEnd' = ScanNext
  /\ UNCHANGED <<input, pc, place, tokenAt, val, ndig, octet, filled, bufs, result, out>>

HasDot == \E j \in tokenAt..(tokenEnd - 1) : At(input, j) = Dot

QuadFitsLate == filled + 2 <= Cap     \* mutation: room for two bytes only
QuadFits == filled + 4 <= Cap
HextetFits == filled + 2 <= Cap

RejectToken ==
  /\ pc = "token" /\ ScanEnds
  /\ tokenEnd = tokenAt \/ (HasDot /\ ~QuadFits)
  /\ Reject

\* allow_v4 is 1 in all three calls (201, 204, 217).
StartToken ==
  /\ pc = "token" /\ ScanEnds
  /\ tokenEnd # tokenAt /\ (HasDot => QuadFits)
  /\ pc' = IF HasDot THEN "quad" ELSE "hextet"
  /\ val' = 0 /\ ndig' = 0 /\ octet' = 0
  /\ UNCHANGED <<input, place, tokenAt, tokenEnd, filled, bufs, result, out>>

\* The bytes of a token are read at tokenAt, which is p of parse_ipv4_tail (70)
\* and r of the loop over digits (137).
AtTokenEnd == tokenAt = tokenEnd
Current == At(input, tokenAt)

Stored(i, byte) == [bufs EXCEPT ![group] = [@ EXCEPT ![i] = byte]]

\* After a token: the run ends at its end, or goes on after a colon, with the
\* scan of the next token at its first byte (152-158, 111).
\* mutation: a colon at the end of the run is not seen.
LooseNextToken ==
  /\ tokenAt' = tokenEnd + 1
  /\ pc' = IF tokenEnd = RunEnd \/ tokenEnd + 1 = RunEnd THEN "produced" ELSE "token"
  /\ tokenEnd' = IF pc' = "token" THEN tokenAt' ELSE tokenEnd
  /\ UNCHANGED result
NextToken ==
  /\ tokenAt' = tokenEnd + 1
  /\ pc' = CASE tokenEnd = RunEnd -> "produced"
             [] tokenEnd # RunEnd /\ tokenEnd + 1 = RunEnd -> "returned"
             [] OTHER -> "token"
  /\ tokenEnd' = IF pc' = "token" THEN tokenAt' ELSE tokenEnd
  /\ result' = IF pc' = "returned" THEN "rejected" ELSE result

----------------------------------------------------------------------------
(* parse_ipv4_tail, lines 65-98, and what parse_groups does after it.      *)

NextOctetValue == val * 10 + (Current - Zero)

OctetGoesOn ==
  /\ IsDigit(Current)
  /\ ~(ndig = 1 /\ val = 0)
  /\ NextOctetValue <= 255 /\ ndig + 1 <= 3
AnyOctetEnds == Current = Dot /\ ndig # 0     \* mutation: a fifth octet
OctetEnds == Current = Dot /\ ndig # 0 /\ octet < 3
QuadEnds == ndig # 0 /\ octet = 3

QuadDigit ==
  /\ pc = "quad" /\ ~AtTokenEnd /\ OctetGoesOn
  /\ val' = NextOctetValue
  /\ ndig' = ndig + 1
  /\ tokenAt' = tokenAt + 1
  /\ UNCHANGED <<input, pc, place, tokenEnd, octet, filled, bufs, result, out>>

QuadDot ==
  /\ pc = "quad" /\ ~AtTokenEnd /\ OctetEnds
  /\ bufs' = Stored(filled + octet, val)
  /\ octet' = octet + 1
  /\ val' = 0 /\ ndig' = 0
  /\ tokenAt' = tokenAt + 1
  /\ UNCHANGED <<input, pc, place, tokenEnd, filled, result, out>>

RejectQuad ==
  /\ pc = "quad"
  /\ IF AtTokenEnd THEN ~QuadEnds \/ tokenEnd # RunEnd
                   ELSE ~OctetGoesOn /\ ~OctetEnds
  /\ Reject

EndQuad ==
  /\ pc = "quad" /\ AtTokenEnd /\ QuadEnds /\ tokenEnd = RunEnd
  /\ bufs' = Stored(filled + octet, val)
  /\ filled' = filled + 4
  /\ pc' = "produced"
  /\ UNCHANGED <<input, place, token, result, out>>

----------------------------------------------------------------------------
(* The hextets of parse_groups, lines 135-158.                             *)

\* hex_value, lines 49-60.
HexValue(c) == CASE c \in 48..57 -> c - 48
                 [] c \in 97..102 -> c - 97 + 10
                 [] c \in 65..70 -> c - 65 + 10
                 [] OTHER -> -1

HextetGoesOn == HexValue(Current) >= 0 /\ ndig + 1 <= 4

HextetDigit ==
  /\ pc = "hextet" /\ ~AtTokenEnd /\ HextetGoesOn
  /\ val' = val * 16 + HexValue(Current)
  /\ ndig' = ndig + 1
  /\ tokenAt' = tokenAt + 1
  /\ UNCHANGED <<input, pc, place, tokenEnd, octet, filled, bufs, result, out>>

RejectHextet ==
  /\ pc = "hextet"
  /\ IF AtTokenEnd THEN ~HextetFits ELSE ~HextetGoesOn
  /\ Reject

\* mutation: one byte is stored where two are counted.
EndHextetShort ==
  /\ pc = "hextet" /\ AtTokenEnd /\ HextetFits
  /\ bufs' = [bufs EXCEPT ![group] = [@ EXCEPT ![filled] = val % 256]]
  /\ filled' = filled + 2
  /\ NextToken
  /\ UNCHANGED <<input, place, val, ndig, octet, out>>
EndHextet ==
  /\ pc = "hextet" /\ AtTokenEnd /\ HextetFits
  /\ bufs' = [bufs EXCEPT ![group] = [@ EXCEPT ![filled] = (val \div 256) % 256,
                                               ![filled + 1] = val % 256]]
  /\ filled' = filled + 2
  /\ NextToken
  /\ UNCHANGED <<input, place, val, ndig, octet, out>>

----------------------------------------------------------------------------
(* parse_ipv6_scalar after its calls, lines 201-226.                       *)

StartTail ==
  /\ pc = "produced" /\ group = "head"
  /\ hb' = filled
  /\ group' = "tail"
  /\ tokenAt' = dc + 2
  /\ pc' = "groups"
  /\ UNCHANGED <<input, dc, tokenEnd, val, ndig, octet, filled, bufs, result, out>>

RoomForGap == hb + filled <= 14

\* tmp after the two memcpys (210-211).
Joined ==
  [i \in 0..15 |-> IF i >= 16 - filled THEN bufs["tail"][i - (16 - filled)]
                   ELSE IF i < hb THEN bufs["head"][i] ELSE bufs["whole"][i]]

Accepts == CASE group = "tail" -> RoomForGap
             [] group = "whole" -> filled = 16
             [] OTHER -> FALSE

Output ==
  /\ pc = "produced" /\ Accepts
  /\ out' = IF group = "tail" THEN Joined ELSE bufs["whole"]
  /\ result' = "accepted"
  /\ pc' = "returned"
  /\ UNCHANGED <<input, place, token, filled, bufs>>

RejectLength == pc = "produced" /\ group # "head" /\ ~Accepts /\ Reject

Next ==
  \/ RejectEmpty \/ RejectGap \/ StartHead \/ RejectEdgeColon \/ StartWhole
  \/ EnterGroups \/ ScanToken \/ RejectToken \/ StartToken
  \/ QuadDigit \/ QuadDot \/ RejectQuad \/ EndQuad
  \/ HextetDigit \/ RejectHextet \/ EndHextet
  \/ StartTail \/ Output \/ RejectLength

Spec == Init /\ [][Next]_vars

\* A call is a thread that keeps executing: no statement of it blocks.
FairSpec == Spec /\ WF_vars(Next)

(***************************************************************************)
(* Properties.                                                             *)
(***************************************************************************)
Labels == {"entry", "groups", "token", "quad", "hextet", "produced", "returned"}
Groups == {"head", "tail", "whole"}

\* The type invariant: the values the locals of the three functions take.
TypeOK ==
  /\ input \in Texts /\ pc \in Labels
  /\ dc \in -1..Len(input) /\ group \in Groups /\ hb \in 0..16
  /\ tokenAt \in 0..(Len(input) + 1) /\ tokenEnd \in 0..Len(input)
  /\ val \in Word /\ ndig \in 0..4 /\ octet \in 0..3
  /\ filled \in 0..16
  /\ bufs \in [Groups -> [0..15 -> Byte \cup {Unset}]]
  /\ result \in {"pending", "accepted", "rejected"}
  /\ out \in [0..15 -> Byte]

\* parse_ipv4_tail is given no length for out4 (65): its four stores, and the
\* conversions of val to uint8_t (86, 96, 150), are right because of what was
\* tested before the call (123), while the digits were read (77, 143) and at
\* each dot (83).
StoresAreExact ==
  /\ pc = "quad" => filled + octet < 16 /\ filled + 3 < 16 /\ val \in Byte
  /\ pc = "hextet" => val \in Word

\* The bytes parse_groups reports as produced are the bytes it has written: the
\* memcpys of lines 210-211 read no uninitialised byte of headbuf or tailbuf,
\* and no byte of tmp before the bytes of the run differs from zero.
ProducedIsWritten ==
  LET written(g, n) == \A i \in 0..(n - 1) : bufs[g][i] # Unset
      fresh(g, n) == \A i \in 0..15 :
                       i >= n => bufs[g][i] = IF g = "whole" THEN 0 ELSE Unset
      current == filled + IF pc = "quad" THEN octet ELSE 0
  IN pc \in {"token", "quad", "hextet", "produced"} =>
       /\ written(group, current) /\ fresh(group, current)
       /\ group = "tail" => written("head", hb)
       /\ group # "whole" => fresh("whole", 0)

\* A call of parse_groups stays in its own half of the text: the head is read
\* before "::" only, the tail after it only, by the scan for the end of a token
\* as by the loops over its bytes, and a token never holds a colon.
TokensStayInRun ==
  LET inRun(i) == CASE group = "head" -> i < dc
                    [] group = "tail" -> dc + 2 <= i /\ i < Len(input)
                    [] OTHER -> i < Len(input)
  IN /\ pc = "token" => inRun(tokenAt) /\ (~ScanEnds => inRun(tokenEnd))
     /\ pc \in {"quad", "hextet"} =>
          /\ tokenAt <= tokenEnd
          /\ tokenAt < tokenEnd => inRun(tokenAt) /\ ~ColonAt(tokenAt)

\* The call returns: each of its loops comes to an end, the scan for the end of a
\* token (113-118) on every byte it meets.
Returns == <>(pc = "returned")

=============================================================================
