------------------------- MODULE VtlmksScalarProofs -------------------------
(***************************************************************************)
(* Theorems about parse_ipv6_scalar for texts of every length and content: *)
(* its locals keep their ranges, its stores stay in the three buffers and  *)
(* lose no bit, it copies only bytes it has written, each of its scans     *)
(* stays on its own side of "::", and it reads the texts of groups as      *)
(* GroupText has them.                                                     *)
(***************************************************************************)
EXTENDS VtlmksScalar, TextProofs

----------------------------------------------------------------------------
(* The inductive invariant.                                                *)

\* The run that parse_groups is given lies in the text, the token in the run,
\* and no colon is in what the scan has passed of it, or is left of it to read.
RunInv ==
  /\ group # "whole" => dc >= 0 /\ dc + 2 <= Len(input)
  /\ pc = "groups" => tokenAt <= RunEnd /\ (group = "tail" => tokenAt = dc + 2)
  /\ pc = "token" => tokenAt < RunEnd
  /\ pc \in {"token", "quad", "hextet"} /\ group = "tail" => dc + 2 <= tokenAt
  /\ pc \in {"token", "quad", "hextet"} =>
       /\ tokenAt <= tokenEnd /\ tokenEnd <= RunEnd
       /\ \A j \in tokenAt..(tokenEnd - 1) : ~ColonAt(j)

\* A quad has room for its four bytes, an octet is a byte, and a hextet is below
\* 16^ndig.
ValueInv ==
  /\ pc = "quad" => filled <= 12 /\ val <= 255
  /\ pc = "hextet" => /\ ndig = 0 => val = 0
                      /\ ndig = 1 => val <= 15
                      /\ ndig = 2 => val <= 255
                      /\ ndig = 3 => val <= 4095

Written(g, n) == \A i \in 0..(n - 1) : bufs[g][i] # Unset
Fresh(g, n) == \A i \in 0..15 : i >= n => bufs[g][i] = IF g = "whole" THEN 0 ELSE Unset
Produced == filled + IF pc = "quad" THEN octet ELSE 0

\* What parse_groups has produced is written, and nothing else is: the buffers of
\* the calls to come are as they were, and that of the head keeps its hb bytes.
BufInv ==
  /\ pc = "entry" => group = "whole" /\ \A g \in Groups : Fresh(g, 0)
  /\ pc = "groups" => Fresh(group, 0)
  /\ pc \in {"token", "quad", "hextet", "produced"} =>
       Written(group, Produced) /\ Fresh(group, Produced)
  /\ group = "head" => Fresh("tail", 0)
  /\ group = "tail" => Written("head", hb)
  /\ group # "whole" => Fresh("whole", 0)

IInv == TypeOK /\ RunInv /\ ValueInv /\ BufInv

LEMMA Lengths ==
  ASSUME TypeOK
  PROVE  Len(input) \in Nat /\ \A i \in 0..(Len(input) - 1) : At(input, i) \in Byte
BY TextsAssumption DEF TypeOK, At

\* The end of the run is in the text.
LEMMA RunEndInText ==
  ASSUME TypeOK, RunInv
  PROVE  RunEnd \in 0..Len(input)
BY Lengths DEF TypeOK, RunInv, RunEnd

\* No colon is taken for a digit, and hex_value gives four bits.
LEMMA HexValueRange ==
  ASSUME NEW c \in Byte
  PROVE  HexValue(c) \in -1..15
BY DEF HexValue, Byte

LEMMA InitIInv == Init => IInv
  <1> SUFFICES ASSUME Init PROVE IInv OBVIOUS
  <1>1. TypeOK
    <2>1. input \in Seq(Byte) /\ Len(input) \in Nat
      BY TextsAssumption DEF Init
    <2>2. bufs \in [Groups -> [0..15 -> Byte \cup {Unset}]]
      BY DEF Init, Groups, Byte, Unset
    <2>3. -1 \in -1..Len(input) /\ 0 \in 0..(Len(input) + 1) /\ 0 \in 0..Len(input)
      BY <2>1
    <2> QED BY <2>2, <2>3, OutAssumption DEF Init, TypeOK, Labels, Groups, Word
  <1>2. RunInv BY DEF Init, RunInv
  <1>3. ValueInv BY DEF Init, ValueInv
  <1>4. BufInv BY DEF Init, BufInv, Fresh, Groups
  <1> QED BY <1>1, <1>2, <1>3, <1>4 DEF IInv

----------------------------------------------------------------------------
(* The steps that store nothing.                                           *)

\* The buffers that are not touched stay written and fresh.
LEMMA SameBuffers ==
  ASSUME bufs' = bufs
  PROVE  \A g, n : (Written(g, n)' <=> Written(g, n)) /\ (Fresh(g, n)' <=> Fresh(g, n))
BY DEF Written, Fresh

LEMMA RejectKeeps ==
  ASSUME IInv, Reject
  PROVE  IInv'
  <1>1. TypeOK' BY DEF IInv, TypeOK, Reject, place, token, Labels
  <1>2. RunInv' BY DEF IInv, RunInv, Reject, place, token
  <1>3. ValueInv' BY DEF Reject, ValueInv
  <1>4. BufInv' BY SameBuffers DEF IInv, BufInv, Reject, place
  <1> QED BY <1>1, <1>2, <1>3, <1>4 DEF IInv

LEMMA StartHeadKeeps ==
  ASSUME IInv, StartHead
  PROVE  IInv'
  <1>1. dc' \in Gaps BY DEF StartHead, IsFirstGap
  <1>2. dc' \in 0..Len(input) /\ dc' + 2 <= Len(input)
    BY <1>1, Lengths DEF Gaps, GapAt, ColonAt, IInv
  <1>3. TypeOK'
    <2>1. /\ pc' = "groups" /\ group' = "head" /\ tokenAt' = 0
          /\ UNCHANGED <<input, hb, tokenEnd, val, ndig, octet, filled, bufs, result, out>>
      BY DEF StartHead
    <2>2. dc' \in -1..Len(input) /\ 0 \in 0..(Len(input) + 1)
      BY <1>2, Lengths DEF IInv
    <2> QED BY <2>1, <2>2 DEF IInv, TypeOK, Labels, Groups
  <1>4. RunInv'
    BY <1>2 DEF StartHead, RunInv, RunEnd
  <1>5. ValueInv' BY DEF StartHead, ValueInv
  <1>6. BufInv'
    BY SameBuffers DEF IInv, BufInv, StartHead, Groups
  <1> QED BY <1>3, <1>4, <1>5, <1>6 DEF IInv

LEMMA StartWholeKeeps ==
  ASSUME IInv, StartWhole
  PROVE  IInv'
  <1>1. TypeOK'
    BY Lengths DEF IInv, TypeOK, StartWhole, Labels, Groups
  <1>2. RunInv'
    BY Lengths DEF IInv, StartWhole, RunInv, RunEnd
  <1>3. ValueInv' BY DEF StartWhole, ValueInv
  <1>4. BufInv'
    BY SameBuffers DEF IInv, BufInv, StartWhole, Groups
  <1> QED BY <1>1, <1>2, <1>3, <1>4 DEF IInv

LEMMA EnterGroupsKeeps ==
  ASSUME IInv, EnterGroups
  PROVE  IInv'
  <1>1. TypeOK'
    <2>1. tokenAt \in 0..Len(input)
      BY Lengths, RunEndInText DEF IInv, TypeOK, RunInv, EnterGroups
    <2> QED BY <2>1 DEF IInv, TypeOK, EnterGroups, place, Labels
  <1>2. RunInv'
    BY Lengths, RunEndInText DEF IInv, TypeOK, EnterGroups, place, RunInv, RunEnd
  <1>3. ValueInv' BY DEF EnterGroups, ValueInv
  <1>4. BufInv'
    <2>1. Written(group, 0) BY DEF Written
    <2>2. Produced' = 0 /\ group' = group /\ hb' = hb
      BY DEF EnterGroups, Produced, place
    <2>3. pc' # "groups" /\ pc' # "entry" BY DEF EnterGroups
    <2> QED BY <2>1, <2>2, <2>3, SameBuffers DEF IInv, BufInv, EnterGroups
  <1> QED BY <1>1, <1>2, <1>3, <1>4 DEF IInv

\* The scan passes the byte it is at, which is no colon and in the run.
LEMMA ScanTokenKeeps ==
  ASSUME IInv, ScanToken
  PROVE  IInv'
  <1>1. /\ pc = "token" /\ tokenEnd # RunEnd /\ ~ColonAt(tokenEnd)
        /\ tokenEnd' = tokenEnd + 1
        /\ UNCHANGED <<input, pc, dc, group, hb, tokenAt, val, ndig, octet, filled, bufs,
                       result, out>>
    BY DEF ScanToken, ScanEnds, ScanNext, place
  <1>2. PICK e \in Nat, z \in Nat, n \in Nat :
          e = tokenEnd /\ z = RunEnd /\ n = Len(input) /\ e < z /\ z <= n
    <2>1. Len(input) \in Nat /\ RunEnd \in 0..Len(input)
      BY Lengths, RunEndInText DEF IInv
    <2>2. tokenEnd \in Nat /\ tokenEnd <= RunEnd /\ tokenEnd # RunEnd
      BY <1>1, <2>1 DEF IInv, TypeOK, RunInv
    <2>3. PICK z \in Nat : z = RunEnd /\ z <= Len(input)
      BY <2>1
    <2>4. PICK e \in Nat : e = tokenEnd
      BY <2>2
    <2>5. e < z
      BY <2>2, <2>3, <2>4
    <2> QED BY <2>1, <2>3, <2>4, <2>5
  <1>3. TypeOK'
    <2>1. tokenEnd' \in 0..Len(input) BY <1>1, <1>2
    <2> QED BY <1>1, <2>1 DEF IInv, TypeOK
  <1>4. RunInv'
    <2>1. \A j : ColonAt(j)' <=> ColonAt(j) BY <1>1 DEF ColonAt, At
    <2>2. RunEnd' = RunEnd BY <1>1 DEF RunEnd
    <2>3. tokenAt \in Nat /\ tokenAt <= e
          /\ \A j \in tokenAt..(e - 1) : ~ColonAt(j)
      BY <1>1, <1>2 DEF IInv, TypeOK, RunInv
    <2>4. tokenAt' <= tokenEnd' /\ tokenEnd' <= RunEnd'
      BY <1>1, <1>2, <2>2, <2>3
    <2>5. \A j \in tokenAt'..(tokenEnd' - 1) : ~ColonAt(j)'
      <3>1. \A j : j \in tokenAt'..(tokenEnd' - 1) => j \in tokenAt..(e - 1) \/ j = e
        BY <1>1, <1>2, <2>3
      <3> QED BY <1>1, <1>2, <2>1, <2>3, <3>1
    <2> QED BY <1>1, <2>2, <2>4, <2>5 DEF IInv, RunInv
  <1>5. ValueInv' BY <1>1 DEF ValueInv
  <1>6. BufInv'
    <2>1. Produced' = Produced BY <1>1 DEF Produced
    <2> QED BY <1>1, <2>1, SameBuffers DEF IInv, BufInv
  <1> QED BY <1>3, <1>4, <1>5, <1>6 DEF IInv

\* Where the scan is to stop (113).
IsTokenEnd(i) ==
  /\ tokenAt <= i /\ i <= RunEnd
  /\ i = RunEnd \/ ColonAt(i)
  /\ \A j \in tokenAt..(i - 1) : ~ColonAt(j)

LEMMA ScanFindsEnd ==
  ASSUME IInv, pc = "token", ScanEnds
  PROVE  IsTokenEnd(tokenEnd) /\ tokenEnd \in 0..Len(input)
BY DEF IInv, TypeOK, RunInv, ScanEnds, IsTokenEnd

LEMMA StartTokenKeeps ==
  ASSUME IInv, StartToken
  PROVE  IInv'
  <1>1. /\ HasDot => QuadFits
        /\ pc' = IF HasDot THEN "quad" ELSE "hextet"
        /\ pc = "token"
    BY DEF StartToken
  <1>2. TypeOK'
    BY <1>1 DEF IInv, TypeOK, StartToken, place, Labels, Word
  <1>3. RunInv'
    <2>1. \A j : ColonAt(j)' <=> ColonAt(j)
      BY DEF StartToken, ColonAt, At
    <2>2. RunEnd' = RunEnd BY DEF RunEnd, StartToken, place
    <2> QED BY <1>1, <2>1, <2>2 DEF IInv, RunInv, StartToken, place
  <1>4. ValueInv'
    BY <1>1 DEF IInv, TypeOK, StartToken, ValueInv, QuadFits, Cap
  <1>5. BufInv'
    <2>1. Produced' = Produced
      BY <1>1 DEF IInv, TypeOK, StartToken, Produced
    <2> QED BY <1>1, <2>1, SameBuffers DEF IInv, BufInv, StartToken, place
  <1> QED BY <1>2, <1>3, <1>4, <1>5 DEF IInv

----------------------------------------------------------------------------
(* The steps inside a token.                                               *)

\* The byte at the pointer is one of the token's, and what is left after it is
\* still free of colons.
LEMMA OneByteOn ==
  ASSUME IInv, pc \in {"quad", "hextet"}, ~AtTokenEnd,
         tokenAt' = tokenAt + 1, pc' = pc,
         UNCHANGED <<input, dc, group, tokenEnd>>
  PROVE  /\ RunInv'
         /\ Current \in Byte
         /\ tokenAt' \in 0..(Len(input) + 1)
  <1>1. tokenAt \in Nat /\ tokenEnd \in Nat /\ tokenAt < tokenEnd
        /\ tokenEnd <= Len(input) /\ Len(input) \in Nat
    BY Lengths DEF IInv, RunInv, TypeOK, AtTokenEnd
  <1>2. \A j : ColonAt(j)' <=> ColonAt(j)
    BY DEF ColonAt, At
  <1>3. RunEnd' = RunEnd BY DEF RunEnd
  <1>4. Current \in Byte
    BY <1>1, Lengths DEF Current, IInv
  <1>5. tokenAt' <= tokenEnd' /\ tokenEnd' <= RunEnd'
    BY <1>1, <1>3 DEF IInv, RunInv
  <1>6. \A j \in tokenAt'..(tokenEnd' - 1) : ~ColonAt(j)'
    BY <1>1, <1>2 DEF IInv, RunInv
  <1>7. group' = "tail" => dc' + 2 <= tokenAt'
    BY <1>1 DEF IInv, RunInv, TypeOK
  <1>8. group' # "whole" => dc' >= 0 /\ dc' + 2 <= Len(input')
    BY DEF IInv, RunInv
  <1>9. RunInv'
    BY <1>5, <1>6, <1>7, <1>8 DEF RunInv
  <1> QED BY <1>1, <1>4, <1>9

LEMMA QuadDigitKeeps ==
  ASSUME IInv, QuadDigit
  PROVE  IInv'
  <1>1. RunInv' /\ Current \in Byte /\ tokenAt' \in 0..(Len(input) + 1)
    BY OneByteOn DEF QuadDigit, place
  <1>2. val' \in Nat /\ val' <= 255 /\ ndig' \in 0..4
    BY <1>1 DEF IInv, TypeOK, QuadDigit, OctetGoesOn, NextOctetValue, IsDigit, Zero, Word
  <1>3. TypeOK'
    BY <1>1, <1>2 DEF IInv, TypeOK, QuadDigit, place, Word
  <1>4. ValueInv'
    BY <1>2 DEF IInv, ValueInv, QuadDigit
  <1>5. BufInv'
    <2>1. Produced' = Produced BY DEF QuadDigit, Produced
    <2> QED BY <2>1, SameBuffers DEF IInv, BufInv, QuadDigit, place
  <1> QED BY <1>1, <1>3, <1>4, <1>5 DEF IInv

LEMMA HextetDigitKeeps ==
  ASSUME IInv, HextetDigit
  PROVE  IInv'
  <1>1. RunInv' /\ Current \in Byte /\ tokenAt' \in 0..(Len(input) + 1)
    BY OneByteOn DEF HextetDigit, place
  <1>2. HexValue(Current) \in 0..15
    BY <1>1, HexValueRange DEF HextetDigit, HextetGoesOn
  <1>3. /\ ndig \in 0..3 /\ ndig' = ndig + 1 /\ val \in Nat
        /\ val' = val * 16 + HexValue(Current)
    BY DEF IInv, TypeOK, HextetDigit, HextetGoesOn, Word
  <1>4. ValueInv' /\ val' \in Nat /\ val' < 65536
    BY <1>2, <1>3 DEF IInv, ValueInv, HextetDigit
  <1>5. TypeOK'
    <2>1. val' \in Word /\ ndig' \in 0..4
      BY <1>3, <1>4 DEF Word
    <2> QED BY <1>1, <2>1 DEF IInv, TypeOK, HextetDigit, place
  <1>6. BufInv'
    <2>1. Produced' = Produced BY DEF HextetDigit, Produced
    <2> QED BY <2>1, SameBuffers DEF IInv, BufInv, HextetDigit, place
  <1> QED BY <1>1, <1>4, <1>5, <1>6 DEF IInv

----------------------------------------------------------------------------
(* The steps that store.                                                   *)

\* A byte stored where the buffer of the call ends to be written.
LEMMA StoredByte ==
  ASSUME bufs \in [Groups -> [0..15 -> Byte \cup {Unset}]], group \in Groups,
         NEW n \in 0..15, NEW byte \in Byte,
         Written(group, n), Fresh(group, n),
         group' = group, bufs' = Stored(n, byte)
  PROVE  /\ bufs' \in [Groups -> [0..15 -> Byte \cup {Unset}]]
         /\ Written(group, n + 1)' /\ Fresh(group, n + 1)'
         /\ \A g \in Groups \ {group} : bufs'[g] = bufs[g]
  <1>1. bufs' = [bufs EXCEPT ![group] = [bufs[group] EXCEPT ![n] = byte]]
    BY DEF Stored
  <1>2. bufs[group] \in [0..15 -> Byte \cup {Unset}] OBVIOUS
  <1>3. /\ bufs'[group] = [bufs[group] EXCEPT ![n] = byte]
        /\ \A g \in Groups \ {group} : bufs'[g] = bufs[g]
    BY <1>1
  <1>4. bufs'[group] \in [0..15 -> Byte \cup {Unset}]
    BY <1>2, <1>3
  <1>5. /\ bufs'[group][n] = byte
        /\ \A i \in 0..15 : i # n => bufs'[group][i] = bufs[group][i]
    BY <1>2, <1>3
  <1>6. byte # Unset BY DEF Byte, Unset
  <1>7. \A i \in 0..n : bufs'[group][i] # Unset
    BY <1>5, <1>6 DEF Written
  <1>8. \A i \in 0..15 : i >= n + 1
          => bufs'[group][i] = IF group = "whole" THEN 0 ELSE Unset
    BY <1>5 DEF Fresh
  <1>9. bufs' \in [Groups -> [0..15 -> Byte \cup {Unset}]]
    BY <1>1, <1>2
  <1> QED BY <1>3, <1>7, <1>8, <1>9 DEF Written, Fresh

\* The buffers of the other calls are not stored into.
LEMMA OtherBuffers ==
  ASSUME BufInv, group \in Groups, UNCHANGED <<group, hb>>,
         \A g \in Groups \ {group} : bufs'[g] = bufs[g]
  PROVE  /\ group' = "head" => Fresh("tail", 0)'
         /\ group' = "tail" => Written("head", hb)'
         /\ group' # "whole" => Fresh("whole", 0)'
BY DEF BufInv, Fresh, Written, Groups

LEMMA QuadDotKeeps ==
  ASSUME IInv, QuadDot
  PROVE  IInv'
  <1>1. RunInv' /\ Current \in Byte /\ tokenAt' \in 0..(Len(input) + 1)
    BY OneByteOn DEF QuadDot, place
  <1>2. /\ filled \in 0..12 /\ octet \in 0..2 /\ val \in Byte
        /\ pc = "quad" /\ pc' = "quad" /\ filled' = filled /\ octet' = octet + 1
        /\ bufs' = Stored(filled + octet, val)
    <2>1. pc = "quad" /\ filled \in 0..16 /\ octet \in 0..3 /\ val \in Nat
      BY DEF IInv, TypeOK, QuadDot, Word
    <2>2. filled <= 12 /\ val <= 255 /\ octet < 3
      BY <2>1 DEF IInv, ValueInv, QuadDot, OctetEnds
    <2> QED BY <2>1, <2>2 DEF QuadDot, Byte
  <1> PICK n \in 0..15, byte \in Byte : n = filled + octet /\ byte = val
    BY <1>2
  <1>3. Produced = n /\ Produced' = n + 1
    BY <1>2 DEF Produced
  <1>4. /\ bufs' \in [Groups -> [0..15 -> Byte \cup {Unset}]]
        /\ Written(group, n + 1)' /\ Fresh(group, n + 1)'
        /\ \A g \in Groups \ {group} : bufs'[g] = bufs[g]
    <2>1. bufs' = Stored(n, byte) BY <1>2
    <2>2. Written(group, n) /\ Fresh(group, n)
      BY <1>2, <1>3 DEF IInv, BufInv
    <2>3. group \in Groups /\ group' = group
          /\ bufs \in [Groups -> [0..15 -> Byte \cup {Unset}]]
      BY DEF IInv, TypeOK, QuadDot, place
    <2> QED BY <2>1, <2>2, <2>3, StoredByte
  <1>5. TypeOK'
    <2>1. octet' \in 0..3 /\ val' \in Word /\ ndig' \in 0..4
      BY <1>2 DEF QuadDot, Word
    <2> QED BY <1>1, <1>4, <2>1 DEF IInv, TypeOK, QuadDot, place
  <1>6. ValueInv'
    BY <1>2 DEF ValueInv, QuadDot
  <1>7. BufInv'
    <2>1. group \in Groups /\ UNCHANGED <<group, hb>>
      BY DEF IInv, TypeOK, QuadDot, place
    <2>2. Written(group, Produced)' /\ Fresh(group, Produced)'
      BY <1>3, <1>4 DEF Written, Fresh
    <2> QED BY <1>2, <1>4, <2>1, <2>2, OtherBuffers DEF IInv, BufInv
  <1> QED BY <1>1, <1>5, <1>6, <1>7 DEF IInv

LEMMA EndQuadKeeps ==
  ASSUME IInv, EndQuad
  PROVE  IInv'
  <1>1. /\ filled \in 0..12 /\ octet = 3 /\ val \in Byte
        /\ pc = "quad" /\ pc' = "produced" /\ filled' = filled + 4
        /\ bufs' = Stored(filled + 3, val)
    <2>1. pc = "quad" /\ filled \in 0..16 /\ octet = 3 /\ val \in Nat
      BY DEF IInv, TypeOK, EndQuad, QuadEnds, Word
    <2>2. filled <= 12 /\ val <= 255
      BY <2>1 DEF IInv, ValueInv
    <2> QED BY <2>1, <2>2 DEF EndQuad, Byte
  <1> PICK n \in 3..15, byte \in Byte : n = filled + 3 /\ byte = val
    BY <1>1
  <1>2. Produced = n /\ Produced' = n + 1
    BY <1>1 DEF Produced
  <1>3. group \in Groups /\ UNCHANGED <<input, group, hb, dc>>
        /\ bufs \in [Groups -> [0..15 -> Byte \cup {Unset}]]
    BY DEF IInv, TypeOK, EndQuad, place
  <1>4. /\ bufs' \in [Groups -> [0..15 -> Byte \cup {Unset}]]
        /\ Written(group, n + 1)' /\ Fresh(group, n + 1)'
        /\ \A g \in Groups \ {group} : bufs'[g] = bufs[g]
    <2>1. n \in 0..15 /\ bufs' = Stored(n, byte) BY <1>1
    <2>2. Written(group, n) /\ Fresh(group, n)
      BY <1>1, <1>2 DEF IInv, BufInv
    <2> QED BY <1>3, <2>1, <2>2, StoredByte
  <1>5. TypeOK'
    <2>1. filled' \in 0..16 BY <1>1
    <2> QED BY <1>1, <1>3, <1>4, <2>1 DEF IInv, TypeOK, EndQuad, place, token, Labels
  <1>6. RunInv'
    BY <1>1, <1>3 DEF IInv, RunInv
  <1>7. ValueInv'
    BY <1>1 DEF ValueInv
  <1>8. BufInv'
    <2>1. Written(group, Produced)' /\ Fresh(group, Produced)'
      BY <1>2, <1>4 DEF Written, Fresh
    <2> QED BY <1>1, <1>3, <1>4, <2>1, OtherBuffers DEF IInv, BufInv
  <1> QED BY <1>5, <1>6, <1>7, <1>8 DEF IInv

\* Two bytes at once.
LEMMA StoredPair ==
  ASSUME bufs \in [Groups -> [0..15 -> Byte \cup {Unset}]], group \in Groups,
         NEW n \in 0..14, NEW high \in Byte, NEW low \in Byte,
         Written(group, n), Fresh(group, n), group' = group,
         bufs'[group] = [bufs[group] EXCEPT ![n] = high, ![n + 1] = low]
  PROVE  Written(group, n + 2)' /\ Fresh(group, n + 2)'
  <1>1. bufs[group] \in [0..15 -> Byte \cup {Unset}] OBVIOUS
  <1>3. n + 1 \in 0..15 OBVIOUS
  <1>5. /\ bufs'[group][n] = high /\ bufs'[group][n + 1] = low
        /\ \A i \in 0..15 : i # n /\ i # n + 1 => bufs'[group][i] = bufs[group][i]
    BY <1>1, <1>3
  <1>6. high # Unset /\ low # Unset BY DEF Byte, Unset
  <1>7. \A i \in 0..(n + 1) : bufs'[group][i] # Unset
    <2> SUFFICES ASSUME NEW i \in 0..(n + 1) PROVE bufs'[group][i] # Unset
      OBVIOUS
    <2>1. CASE i \in 0..(n - 1)
      <3>1. bufs'[group][i] = bufs[group][i] BY <1>5, <2>1
      <3> QED BY <2>1, <3>1 DEF Written
    <2>2. CASE i \in {n, n + 1}
      BY <1>5, <1>6, <2>2
    <2> QED BY <2>1, <2>2
  <1>8. \A i \in 0..15 : i >= n + 2
          => bufs'[group][i] = IF group = "whole" THEN 0 ELSE Unset
    BY <1>5 DEF Fresh
  <1> QED BY <1>7, <1>8 DEF Written, Fresh

LEMMA EndHextetKeeps ==
  ASSUME IInv, EndHextet
  PROVE  IInv'
  <1>1. /\ pc = "hextet" /\ filled \in 0..14 /\ val \in Nat /\ filled' = filled + 2
        /\ UNCHANGED <<input, dc, group, hb, val, ndig, octet, out>>
    <2>1. filled \in 0..16 /\ val \in Nat BY DEF IInv, TypeOK, Word
    <2>2. pc = "hextet" /\ filled + 2 <= 16 /\ filled' = filled + 2
      BY DEF EndHextet, HextetFits, Cap
    <2>3. UNCHANGED <<input, dc, group, hb, val, ndig, octet, out>>
      BY DEF EndHextet, place
    <2> QED BY <2>1, <2>2, <2>3
  <1>2. /\ tokenAt' = tokenEnd + 1
        /\ \/ pc' = "produced" /\ tokenEnd' = tokenEnd
           \/ pc' = "returned" /\ tokenEnd' = tokenEnd
           \/ /\ pc' = "token" /\ tokenEnd' = tokenEnd + 1
              /\ tokenEnd # RunEnd /\ tokenEnd + 1 # RunEnd
        /\ result' \in {"pending", "accepted", "rejected"}
    <2>1. CASE tokenEnd = RunEnd
      BY <2>1 DEF EndHextet, NextToken, IInv, TypeOK
    <2>2. CASE tokenEnd # RunEnd /\ tokenEnd + 1 = RunEnd
      BY <2>2 DEF EndHextet, NextToken, IInv, TypeOK
    <2>3. CASE tokenEnd # RunEnd /\ tokenEnd + 1 # RunEnd
      BY <2>3 DEF EndHextet, NextToken, IInv, TypeOK
    <2> QED BY <2>1, <2>2, <2>3
  <1>3. tokenAt \in Nat /\ tokenEnd \in Nat /\ tokenEnd <= Len(input) /\ Len(input) \in Nat
        /\ tokenAt <= tokenEnd /\ tokenEnd <= RunEnd /\ RunEnd \in Nat
    BY <1>1, Lengths, RunEndInText DEF IInv, TypeOK, RunInv
  <1> PICK n \in 0..14, high \in Byte, low \in Byte :
        n = filled /\ high = (val \div 256) % 256 /\ low = val % 256
    BY <1>1 DEF Byte
  <1>4. /\ bufs' \in [Groups -> [0..15 -> Byte \cup {Unset}]]
        /\ Written(group, n + 2)' /\ Fresh(group, n + 2)'
        /\ \A g \in Groups \ {group} : bufs'[g] = bufs[g]
    <2> DEFINE stored == [bufs[group] EXCEPT ![n] = high, ![n + 1] = low]
    <2>1. bufs' = [bufs EXCEPT ![group] = stored]
      BY DEF EndHextet
    <2>2. Written(group, n) /\ Fresh(group, n)
      BY <1>1 DEF IInv, BufInv, Produced
    <2>3. group \in Groups /\ group' = group
          /\ bufs \in [Groups -> [0..15 -> Byte \cup {Unset}]]
      BY <1>1 DEF IInv, TypeOK
    <2>4. stored \in [0..15 -> Byte \cup {Unset}]
      BY <2>3
    <2>5. /\ bufs'[group] = [bufs[group] EXCEPT ![n] = high, ![n + 1] = low]
          /\ group \in Groups /\ group' = group
      BY <2>1, <2>3
    <2>6. Written(group, n + 2)' /\ Fresh(group, n + 2)'
      BY ONLY <2>2, <2>3, <2>5, StoredPair
    <2> HIDE DEF stored
    <2>7. /\ bufs' \in [Groups -> [0..15 -> Byte \cup {Unset}]]
          /\ \A g \in Groups \ {group} : bufs'[g] = bufs[g]
      BY <2>1, <2>3, <2>4
    <2> QED BY <2>6, <2>7
  <1>5. TypeOK'
    <2>1. tokenAt' \in 0..(Len(input) + 1) /\ filled' \in 0..16 /\ pc' \in Labels
      BY <1>1, <1>2, <1>3 DEF Labels
    <2>2. RunEnd <= Len(input)
      BY RunEndInText, Lengths DEF IInv
    <2>3. tokenEnd' \in 0..Len(input)
      BY <1>2, <1>3, <2>2
    <2> QED BY <1>1, <1>2, <1>4, <2>1, <2>3 DEF IInv, TypeOK
  <1>6. RunInv'
    <2>1. pc' = "token" => tokenAt' < RunEnd'
      BY <1>1, <1>2, <1>3 DEF RunEnd
    <2>2. group = "tail" => dc + 2 <= tokenAt' /\ dc \in Int
      BY <1>1, <1>2, <1>3 DEF IInv, RunInv, TypeOK
    <2>3. RunEnd' = RunEnd
      BY <1>1 DEF RunEnd
    <2>4. pc' = "token" => tokenEnd' = tokenAt' /\ tokenAt' \in Nat /\ tokenEnd' <= RunEnd'
      BY <1>2, <1>3, <2>3
    <2>5. pc' = "token" => \A j : j \notin tokenAt'..(tokenEnd' - 1)
      BY <2>4
    <2> QED BY <1>1, <1>2, <2>1, <2>2, <2>4, <2>5 DEF IInv, RunInv
  <1>7. ValueInv'
    BY <1>2 DEF ValueInv
  <1>8. BufInv'
    <2>1. Produced' = n + 2 BY <1>1, <1>2 DEF Produced
    <2>2. Written(group, Produced)' /\ Fresh(group, Produced)'
      BY <1>4, <2>1 DEF Written, Fresh
    <2>3. group \in Groups BY DEF IInv, TypeOK
    <2> QED BY <1>1, <1>2, <1>4, <2>2, <2>3, OtherBuffers DEF IInv, BufInv
  <1> QED BY <1>5, <1>6, <1>7, <1>8 DEF IInv

----------------------------------------------------------------------------
(* The steps of parse_ipv6_scalar after its calls.                         *)

LEMMA StartTailKeeps ==
  ASSUME IInv, StartTail
  PROVE  IInv'
  <1>1. /\ pc = "produced" /\ group = "head" /\ hb' = filled /\ group' = "tail"
        /\ tokenAt' = dc + 2 /\ pc' = "groups" /\ bufs' = bufs
        /\ UNCHANGED <<input, dc, tokenEnd, val, ndig, octet, filled, result, out>>
    BY DEF StartTail
  <1>2. dc \in Nat /\ dc + 2 <= Len(input) /\ Len(input) \in Nat
    BY <1>1, Lengths DEF IInv, RunInv, TypeOK
  <1>3. TypeOK'
    <2>1. tokenAt' \in 0..(Len(input) + 1) BY <1>1, <1>2
    <2> QED BY <1>1, <2>1 DEF IInv, TypeOK, Labels, Groups
  <1>4. RunInv'
    BY <1>1, <1>2 DEF RunInv, RunEnd
  <1>5. ValueInv' BY <1>1 DEF ValueInv
  <1>6. BufInv'
    <2>1. filled = Produced BY <1>1 DEF Produced, IInv, TypeOK
    <2>2. Written("head", filled) /\ Fresh("tail", 0) /\ Fresh("whole", 0)
      BY <1>1, <2>1 DEF IInv, BufInv
    <2> QED BY <1>1, <2>2 DEF BufInv, Written, Fresh
  <1> QED BY <1>3, <1>4, <1>5, <1>6 DEF IInv

\* What is copied out are bytes that were written, or the zeros of tmp.
LEMMA OutputIsBytes ==
  ASSUME IInv, Output
  PROVE  out' \in [0..15 -> Byte]
  <1>1. /\ pc = "produced" /\ Produced = filled /\ filled \in 0..16 /\ hb \in 0..16
        /\ Written(group, filled)
    BY DEF Output, IInv, TypeOK, BufInv, Produced
  <1>2. \A g \in Groups : \A i \in 0..15 :
          bufs[g][i] # Unset => bufs[g][i] \in Byte
    BY DEF IInv, TypeOK
  <1>3. CASE group = "tail"
    <2>1. Written("tail", filled) /\ Written("head", hb) /\ Fresh("whole", 0)
      BY <1>1, <1>3 DEF IInv, BufInv
    <2>2. "tail" \in Groups /\ "head" \in Groups BY DEF Groups
    <2>3. \A i \in 0..15 : i >= 16 - filled => bufs["tail"][i - (16 - filled)] \in Byte
      <3> SUFFICES ASSUME NEW i \in 0..15, i >= 16 - filled
                   PROVE  bufs["tail"][i - (16 - filled)] \in Byte
        OBVIOUS
      <3>1. i - (16 - filled) \in 0..(filled - 1) /\ i - (16 - filled) \in 0..15
        BY <1>1
      <3>2. bufs["tail"][i - (16 - filled)] # Unset
        BY <2>1, <3>1 DEF Written
      <3> QED BY <1>2, <2>2, <3>1, <3>2
    <2>4. \A i \in 0..15 : i < hb => bufs["head"][i] \in Byte
      BY <1>1, <1>2, <2>1, <2>2 DEF Written
    <2>5. \A i \in 0..15 : bufs["whole"][i] \in Byte
      BY <2>1 DEF Fresh, Byte
    <2>6. Joined \in [0..15 -> Byte]
      BY <1>1, <2>3, <2>4, <2>5 DEF Joined
    <2> QED BY <1>3, <2>6 DEF Output
  <1>4. CASE group # "tail"
    <2>1. group = "whole" /\ filled = 16
      BY <1>4 DEF Output, Accepts, IInv, TypeOK, Groups
    <2>2. \A i \in 0..15 : bufs["whole"][i] \in Byte
      BY <1>1, <1>2, <2>1 DEF Written, Groups
    <2>3. bufs["whole"] \in [0..15 -> Byte]
      BY <2>2 DEF IInv, TypeOK, Groups
    <2> QED BY <2>1, <2>3 DEF Output
  <1> QED BY <1>3, <1>4

LEMMA OutputKeeps ==
  ASSUME IInv, Output
  PROVE  IInv'
  <1>1. out' \in [0..15 -> Byte] BY OutputIsBytes
  <1>2. TypeOK' BY <1>1 DEF IInv, TypeOK, Output, place, token, Labels
  <1>3. RunInv' BY DEF IInv, RunInv, Output, place, token
  <1>4. ValueInv' BY DEF Output, ValueInv
  <1>5. BufInv' BY SameBuffers DEF IInv, BufInv, Output, place
  <1> QED BY <1>2, <1>3, <1>4, <1>5 DEF IInv

LEMMA NextIInv == IInv /\ [Next]_vars => IInv'
  <1> SUFFICES ASSUME IInv, [Next]_vars PROVE IInv' OBVIOUS
  <1>1. CASE Reject BY <1>1, RejectKeeps
  <1>2. CASE \/ RejectEmpty \/ RejectGap \/ RejectEdgeColon \/ RejectToken
             \/ RejectQuad \/ RejectHextet \/ RejectLength
    BY <1>1, <1>2, Zenon DEF RejectEmpty, RejectGap, RejectEdgeColon, RejectToken,
                             RejectQuad, RejectHextet, RejectLength
  <1>3. CASE StartHead BY <1>3, StartHeadKeeps
  <1>4. CASE StartWhole BY <1>4, StartWholeKeeps
  <1>5. CASE EnterGroups BY <1>5, EnterGroupsKeeps
  <1>6. CASE StartToken BY <1>6, StartTokenKeeps
  <1>7. CASE QuadDigit BY <1>7, QuadDigitKeeps
  <1>8. CASE QuadDot BY <1>8, QuadDotKeeps
  <1>9. CASE EndQuad BY <1>9, EndQuadKeeps
  <1>10. CASE HextetDigit BY <1>10, HextetDigitKeeps
  <1>11. CASE EndHextet BY <1>11, EndHextetKeeps
  <1>12. CASE StartTail BY <1>12, StartTailKeeps
  <1>13. CASE Output BY <1>13, OutputKeeps
  <1>14. CASE ScanToken BY <1>14, ScanTokenKeeps
  <1>15. CASE UNCHANGED vars
    <2>1. UNCHANGED <<input, pc, dc, group, hb, tokenAt, tokenEnd, val, ndig, octet,
                      filled, bufs, result, out>>
      BY <1>15 DEF vars, place, token
    <2>2. TypeOK' BY <2>1 DEF IInv, TypeOK
    <2>3. RunInv' BY <2>1 DEF IInv, RunInv, RunEnd, ColonAt, At
    <2>4. ValueInv' BY <2>1 DEF IInv, ValueInv
    <2>5. BufInv' BY <2>1, SameBuffers DEF IInv, BufInv, Produced
    <2> QED BY <2>2, <2>3, <2>4, <2>5 DEF IInv
  <1> QED BY <1>2, <1>3, <1>4, <1>5, <1>6, <1>7, <1>8, <1>9, <1>10, <1>11, <1>12,
             <1>13, <1>14, <1>15, Zenon DEF Next

LEMMA Invariance == Spec => []IInv
  BY InitIInv, NextIInv, PTL DEF Spec

----------------------------------------------------------------------------
\* The locals of parse_ipv6_scalar, parse_groups and parse_ipv4_tail keep their
\* ranges, and what is copied to the caller are bytes.
THEOREM TypeCorrect == Spec => []TypeOK
  <1>1. IInv => TypeOK BY DEF IInv
  <1> QED BY <1>1, Invariance, PTL

\* No store of parse_ipv4_tail leaves the buffer it was given without a length,
\* and no conversion of val loses a bit (65-98, 123, 147-151).
THEOREM ExactStores == Spec => []StoresAreExact
  <1>1. IInv => StoresAreExact
    <2> SUFFICES ASSUME IInv PROVE StoresAreExact OBVIOUS
    <2>1. filled \in 0..16 /\ octet \in 0..3 /\ val \in Word
      BY DEF IInv, TypeOK
    <2>2. pc = "quad" => filled <= 12 /\ val <= 255
      BY DEF IInv, ValueInv
    <2> QED BY <2>1, <2>2 DEF StoresAreExact, Byte, Word
  <1> QED BY <1>1, Invariance, PTL

\* No uninitialised byte of headbuf or tailbuf is copied (197-211), whatever the
\* text.
THEOREM OnlyWrittenIsProduced == Spec => []ProducedIsWritten
  <1>1. IInv => ProducedIsWritten
    BY DEF IInv, BufInv, ProducedIsWritten, Written, Fresh, Produced
  <1> QED BY <1>1, Invariance, PTL

\* Neither call of parse_groups reads the other side of "::" (201-204), and a
\* token never holds a colon (113-118).
THEOREM TokensOnTheirSide == Spec => []TokensStayInRun
  <1>1. IInv => TokensStayInRun
    <2> SUFFICES ASSUME IInv PROVE TokensStayInRun OBVIOUS
    <2>1. RunEnd \in Nat /\ RunEnd <= Len(input) /\ Len(input) \in Nat
          /\ tokenAt \in Nat /\ tokenEnd \in Nat /\ dc \in Int
      BY Lengths, RunEndInText DEF IInv, TypeOK
    <2>2. pc = "token" => tokenAt < RunEnd BY DEF IInv, RunInv
    <2>3. pc \in {"token", "quad", "hextet"} /\ group = "tail" => dc + 2 <= tokenAt
      BY DEF IInv, RunInv
    <2>4. pc \in {"token", "quad", "hextet"} => tokenAt <= tokenEnd /\ tokenEnd <= RunEnd
      BY DEF IInv, RunInv
    <2>5. pc \in {"quad", "hextet"} /\ tokenAt < tokenEnd => ~ColonAt(tokenAt)
      BY <2>1 DEF IInv, RunInv
    <2>6. ~ScanEnds => tokenEnd # RunEnd
      BY DEF ScanEnds
    <2> QED BY <2>1, <2>2, <2>3, <2>4, <2>5, <2>6 DEF TokensStayInRun, RunEnd
  <1> QED BY <1>1, Invariance, PTL

----------------------------------------------------------------------------
(* The fields that the current call of parse_groups is to read.            *)

\* hex_value takes what ada_convert_hex_to_binary takes.
LEMMA HexValueIsBinary ==
  ASSUME NEW c \in Byte
  PROVE  /\ HexValue(c) >= 0 <=> IsHexDigit(c)
         /\ IsHexDigit(c) => HexValue(c) = HexToBinary(c)
BY DEF HexValue, IsHexDigit, IsDigit, HexToBinary, SetBit5, Byte, Zero

GapField == RankIn(ColonsOf(input), dc) + 1
FirstField == IF group = "tail" THEN GapField + 1 ELSE 0
EndField == IF group = "head" THEN GapField ELSE Fields(input)

Busy == pc \notin {"entry", "returned"}

\* A "::" is found before the first call, and there is no second one.
PlaceInv == Busy => DoublesOf(input) = IF group = "whole" THEN {} ELSE {dc}

LEMMA InputIsText ==
  ASSUME TypeOK
  PROVE  input \in Seq(Byte)
BY TextsAssumption DEF TypeOK

\* The run of parse_groups is the fields from FirstField up to EndField.
LEMMA RunOfFields ==
  ASSUME IInv, PlaceInv, Busy
  PROVE  /\ FirstField \in Nat /\ EndField \in Nat \ {0} /\ Fields(input) \in Nat \ {0}
         /\ FirstField < EndField /\ EndField <= Fields(input)
         /\ RunEnd = Cut(input, EndField)
         /\ group = "tail" => dc + 2 = Cut(input, FirstField) + 1
         /\ group # "tail" => Cut(input, FirstField) = -1
         /\ group # "whole" => /\ GapField \in 1..(Fields(input) - 2)
                               /\ Cut(input, GapField) = dc /\ Pitch(input, GapField) = 1
<1>1. input \in Seq(Byte) /\ group \in Groups
  BY InputIsText DEF IInv, TypeOK
<1>2. PICK F \in Nat \ {0} : F = Fields(input)
  BY <1>1, Cuts
<1>3. Cut(input, F) = Len(input) /\ Cut(input, 0) = -1 /\ Len(input) \in Nat
  BY <1>1, <1>2, Cuts
<1>4. CASE group = "whole"
  BY <1>2, <1>3, <1>4 DEF FirstField, EndField, RunEnd
<1>5. CASE group # "whole"
  <2>1. dc \in DoublesOf(input)
    BY <1>5 DEF PlaceInv
  <2>2. PICK k \in 1..(F - 2) : /\ k = RankIn(ColonsOf(input), dc) + 1 /\ Cut(input, k) = dc
                                /\ Cut(input, k + 1) = dc + 1 /\ Pitch(input, k) = 1
    BY <1>1, <1>2, <2>1, DoubleInside
  <2>3. GapField = k
    BY <2>2 DEF GapField
  <2>4. dc \in Int
    BY DEF IInv, TypeOK
  <2>5. CASE group = "head"
    BY <1>2, <1>3, <2>2, <2>3, <2>4, <2>5 DEF FirstField, EndField, RunEnd
  <2>6. CASE group = "tail"
    BY <1>2, <1>3, <2>2, <2>3, <2>4, <2>6 DEF FirstField, EndField, RunEnd
  <2> QED BY <1>1, <1>5, <2>5, <2>6 DEF Groups
<1> QED BY <1>4, <1>5

\* What the run holds when the text is an address.
LEMMA MeantRun ==
  ASSUME IInv, PlaceInv, Busy, GroupMeaning(input) # {}
  PROVE  EndField <= FirstField + 8 /\ GroupsOrNone(input, FirstField, EndField)
<1>1. input \in Seq(Byte) /\ group \in Groups
  BY InputIsText DEF IInv, TypeOK
<1>2. CASE group = "whole"
  <2>1. EightGroups(input)
    BY <1>1, <1>2, MeantGroups DEF PlaceInv
  <2>2. FirstField = 0 /\ EndField = 8
    BY <1>2, <2>1 DEF FirstField, EndField, EightGroups
  <2>3. ASSUME NEW k \in 0..(8 - 1) PROVE IsGroup(input, k)
    <3>1. k \in Nat /\ k < Fields(input) /\ HexElsewhere(input) /\ Pitch(input, k) \in 2..5
      BY <2>1 DEF EightGroups
    <3> QED BY <1>1, <3>1, HexFieldIsGroup
  <2> QED BY <2>2, <2>3 DEF GroupsOrNone
<1>3. CASE group # "whole"
  <2>1. DoublesOf(input) = {dc}
    BY <1>3 DEF PlaceInv
  <2>2. PICK h \in Nat, n \in Nat : GroupsAround(input, h, n) /\ GapShape(input, dc, h, n)
    BY <1>1, <2>1, MeantGroups
  <2>3. PICK d \in 1..7, e \in 1..7 : d = AtLeastOne(h) /\ e = AtLeastOne(n)
    BY <2>2 DEF GroupsAround, AtLeastOne
  <2>4. GapField = d /\ Fields(input) = d + 1 + e
    BY <2>2, <2>3 DEF GapShape, GapField
  <2>5. /\ GroupsOrNone(input, 0, d) /\ GroupsOrNone(input, d + 1, Fields(input))
    BY <1>1, <2>2, <2>3, PitchesAround
  <2>6. CASE group = "head"
    <3>1. FirstField = 0 /\ EndField = d
      BY <2>4, <2>6 DEF FirstField, EndField
    <3> QED BY <2>5, <3>1
  <2>7. CASE group = "tail"
    <3>1. FirstField = d + 1 /\ EndField = Fields(input)
      BY <2>4, <2>7 DEF FirstField, EndField
    <3> QED BY <2>4, <2>5, <3>1
  <2> QED BY <1>1, <1>3, <2>6, <2>7 DEF Groups
<1> QED BY <1>2, <1>3

----------------------------------------------------------------------------
(* The inductive invariant of a text without a dot.                        *)

\* The n fields from f on are groups, and their bytes are in the buffer of g.
FieldsRead(g, f, n) ==
  \A j \in 0..(n - 1) :
    /\ IsGroup(input, f + j)
    /\ \A o \in 0..1 :
         bufs[g][2 * j + o] = GroupByte(input, Cut(input, f + j), Cut(input, f + j + 1), o)

\* n groups are all that stands in the fields from f up to e.
AllFields(f, e, n) == e = f + AtLeastOne(n) /\ (n = 0 => Pitch(input, f) = 1)

RunRead(n) == /\ filled = 2 * n /\ FieldsRead(group, FirstField, n)
              /\ AllFields(FirstField, EndField, n)
HeadRead(n) == hb = 2 * n /\ FieldsRead("head", 0, n) /\ AllFields(0, GapField, n)

\* n groups of the run are read, and it has another field.
AtField(n) == filled = 2 * n /\ FieldsRead(group, FirstField, n) /\ FirstField + n < EndField

\* ndig digits of field k are read.
InField(k) ==
  /\ tokenAt = Cut(input, k) + 1 + ndig /\ tokenEnd = Cut(input, k + 1)
  /\ Pitch(input, k) >= 2
  /\ HexAfter(input, Cut(input, k), ndig) /\ val = ValueOf(input, Cut(input, k), ndig)

ReadInv ==
  /\ pc # "quad"
  /\ pc = "groups" => tokenAt = Cut(input, FirstField) + 1
  /\ pc = "token" => \E n \in 0..8 : AtField(n) /\ tokenAt = Cut(input, FirstField + n) + 1
  /\ pc = "hextet" => \E n \in 0..8 : AtField(n) /\ InField(FirstField + n)
  /\ pc = "produced" => \E n \in 0..8 : RunRead(n)
  /\ Busy /\ group = "tail" => \E n \in 0..8 : HeadRead(n)

\* The address of groups that the text is of is stored, and no other text taken.
DotlessRead ==
  ~Dotted(input) =>
    /\ result = "accepted" => out \in GroupMeaning(input)
    /\ result = "rejected" => GroupMeaning(input) = {}

RInv == PlaceInv /\ (~Dotted(input) => ReadInv) /\ DotlessRead

LEMMA InitRInv == Init => RInv
BY DEF Init, RInv, PlaceInv, ReadInv, DotlessRead, Busy

\* A step that leaves the text and the call alone leaves the run as it is.
LEMMA SameRun ==
  ASSUME UNCHANGED <<input, dc, group>>
  PROVE  /\ FirstField' = FirstField /\ EndField' = EndField /\ GapField' = GapField
         /\ RunEnd' = RunEnd
         /\ DoublesOf(input)' = DoublesOf(input) /\ Dotted(input)' = Dotted(input)
BY DEF FirstField, EndField, GapField, RunEnd, RankIn, ColonsOf, Places, DoublesOf, Dotted, At,
       Fields

\* A buffer that is not stored into holds what it held.
LEMMA SameFields ==
  ASSUME input' = input, NEW g, bufs'[g] = bufs[g], NEW f, NEW n
  PROVE  FieldsRead(g, f, n) <=> \A j \in 0..(n - 1) :
           /\ IsGroup(input', f + j)
           /\ \A o \in 0..1 :
                bufs'[g][2 * j + o] = GroupByte(input', Cut(input', f + j), Cut(input', f + j + 1), o)
BY DEF FieldsRead

\* Nothing but the place in the run changes.
LEMMA HeadStaysRead ==
  ASSUME RInv, UNCHANGED <<input, dc, group, hb>>, Busy,
         group = "tail" => bufs'["head"] = bufs["head"]
  PROVE  ~Dotted(input) /\ group = "tail" => \E n \in 0..8 : HeadRead(n)'
<1> SUFFICES ASSUME ~Dotted(input), group = "tail" PROVE \E n \in 0..8 : HeadRead(n)'
  OBVIOUS
<1>1. PICK n \in 0..8 : HeadRead(n)
  BY DEF RInv, ReadInv
<1>2. FieldsRead("head", 0, n)'
  BY <1>1, SameFields DEF HeadRead, FieldsRead
<1>3. AllFields(0, GapField, n)'
  BY <1>1, SameRun DEF HeadRead, AllFields
<1> QED BY <1>1, <1>2, <1>3 DEF HeadRead

----------------------------------------------------------------------------
(* The rejections.                                                         *)

LEMMA RejectsRight ==
  ASSUME RInv, Reject, ~Dotted(input) => GroupMeaning(input) = {}
  PROVE  RInv'
<1>1. pc' = "returned" /\ result' = "rejected" /\ input' = input
  BY DEF Reject
<1> QED BY <1>1 DEF RInv, PlaceInv, ReadInv, DotlessRead, Busy

\* The colons that another one follows are those where GapAt finds "::".
LEMMA GapsAreDoubles ==
  ASSUME TypeOK
  PROVE  Gaps = DoublesOf(input) /\ Gaps \in SUBSET Nat
<1>1. Len(input) \in Nat
  BY Lengths
<1>2. \A i \in Int : ColonAt(i) <=> i \in ColonsOf(input)
  BY <1>1 DEF ColonAt, ColonsOf, Places
<1>3. \A i \in Gaps : i \in DoublesOf(input) /\ i \in Nat
  BY <1>1, <1>2 DEF Gaps, GapAt, DoublesOf
<1>4. \A i \in DoublesOf(input) : i \in 0..(Len(input) - 1) /\ i + 1 \in ColonsOf(input)
                                  /\ i \in ColonsOf(input)
  BY DEF DoublesOf, ColonsOf, Places
<1>5. ASSUME NEW i \in DoublesOf(input) PROVE i \in Gaps
  <2>1. i \in 0..Len(input) /\ i \in Int /\ i + 1 \in Int
    BY <1>1, <1>4
  <2> QED BY <1>2, <1>4, <2>1 DEF Gaps, GapAt
<1> QED BY <1>3, <1>5

LEMMA EntryRejects ==
  ASSUME IInv, RejectEmpty \/ RejectGap \/ RejectEdgeColon
  PROVE  GroupMeaning(input) = {}
<1> SUFFICES ASSUME GroupMeaning(input) # {} PROVE FALSE
  OBVIOUS
<1>1. TypeOK /\ input \in Seq(Byte)
  BY InputIsText DEF IInv
<1>2. /\ Len(input) \in 2..44
      /\ DoublesOf(input) = {} => EightGroups(input)
      /\ DoublesOf(input) # {} => \E p : DoublesOf(input) = {p}
  BY <1>1, MeantGroups
<1>3. CASE RejectEmpty
  BY <1>2, <1>3 DEF RejectEmpty
<1>4. CASE RejectGap
  <2>1. PICK i \in Gaps : /\ IsFirstGap(i)
                          /\ \/ \E j \in Gaps : j >= i + 2
                             \/ ColonAt(i - 1)
                             \/ ColonAt(i + 2)
    BY <1>4 DEF RejectGap
  <2>2. \A j \in Gaps : j = i
    BY <1>1, <1>2, GapsAreDoubles
  <2>3. i \in Nat /\ i \in 0..Len(input) /\ ColonAt(i) /\ ColonAt(i + 1) /\ Len(input) \in Nat
    BY <1>1, <1>2, GapsAreDoubles DEF Gaps, GapAt
  <2>4. ~ \E j \in Gaps : j >= i + 2
    BY <2>2, <2>3
  <2>5. ~ ColonAt(i - 1)
    <3> SUFFICES ASSUME ColonAt(i - 1) PROVE FALSE
      OBVIOUS
    <3>1. i - 1 \in 0..Len(input) /\ i - 1 + 1 = i
      BY <2>3 DEF ColonAt
    <3>2. i - 1 \in Gaps
      BY <2>3, <3>1 DEF Gaps, GapAt
    <3> QED BY <2>2, <2>3, <3>2
  <2>6. ~ ColonAt(i + 2)
    <3> SUFFICES ASSUME ColonAt(i + 2) PROVE FALSE
      OBVIOUS
    <3>1. i + 1 \in 0..Len(input) /\ i + 1 + 1 = i + 2
      BY <2>3 DEF ColonAt
    <3>2. i + 1 \in Gaps
      BY <2>3, <3>1 DEF Gaps, GapAt
    <3> QED BY <2>2, <2>3, <3>2
  <2> QED BY <2>1, <2>4, <2>5, <2>6
<1>5. CASE RejectEdgeColon
  <2>1. Gaps = {} /\ (ColonAt(0) \/ ColonAt(Len(input) - 1))
    BY <1>5 DEF RejectEdgeColon, EdgeColon
  <2>2. EightGroups(input)
    BY <1>1, <1>2, <2>1, GapsAreDoubles
  <2>3. Fields(input) = 8 /\ Pitch(input, 0) \in 2..5 /\ Pitch(input, 8 - 1) \in 2..5
    BY <2>2 DEF EightGroups
  <2>4. 0 \notin ColonsOf(input) /\ Len(input) - 1 \notin ColonsOf(input)
    BY <1>1, <2>3, EdgeFields
  <2>5. 0 \in Places(input) /\ Len(input) - 1 \in Places(input)
    <3>1. PICK L \in 2..44 : L = Len(input)
      BY <1>2
    <3>2. 0 \in 0..(L - 1) /\ L - 1 \in 0..(L - 1)
      OBVIOUS
    <3> QED BY <3>1, <3>2 DEF Places
  <2> QED BY <2>1, <2>4, <2>5 DEF ColonAt, ColonsOf
<1> QED BY <1>3, <1>4, <1>5

----------------------------------------------------------------------------
(* The steps that take no digit.                                           *)

LEMMA SamePlace ==
  ASSUME RInv, UNCHANGED <<input, dc, group>>, Busy
  PROVE  PlaceInv'
<1>1. DoublesOf(input) = IF group = "whole" THEN {} ELSE {dc}
  BY DEF RInv, PlaceInv
<1> QED BY <1>1, SameRun DEF PlaceInv

LEMMA SameAnswer ==
  ASSUME RInv, UNCHANGED <<input, result, out>>
  PROVE  DotlessRead'
BY DEF RInv, DotlessRead

LEMMA StartHeadReads ==
  ASSUME IInv, RInv, StartHead
  PROVE  RInv'
<1>1. input' = input /\ result' = result /\ out' = out /\ group' = "head" /\ tokenAt' = 0
      /\ pc' = "groups"
  BY DEF StartHead
<1>2. TypeOK /\ input \in Seq(Byte)
  BY InputIsText DEF IInv
<1>3. DoublesOf(input) = {dc'}
  <2>1. PICK i \in Gaps : /\ IsFirstGap(i) /\ \A j \in Gaps : j < i + 2
                          /\ ~ColonAt(i + 2) /\ dc' = i
    BY DEF StartHead
  <2>2. \A j \in Gaps : j = i
    <3> SUFFICES ASSUME NEW j \in Gaps PROVE j = i
      OBVIOUS
    <3>1. i \in Nat /\ j \in Nat
      BY <1>2, GapsAreDoubles
    <3>2. i <= j /\ j < i + 2
      BY <2>1 DEF IsFirstGap
    <3>3. j # i + 1
      <4>1. j = i + 1 => ColonAt(i + 1 + 1) /\ i + 1 + 1 = i + 2
        BY <3>1 DEF Gaps, GapAt
      <4> QED BY <2>1, <4>1
    <3> QED BY <3>1, <3>2, <3>3
  <2> QED BY <1>2, <2>1, <2>2, GapsAreDoubles
<1>4. PlaceInv'
  BY <1>1, <1>3 DEF PlaceInv
<1>5. FirstField' = 0 /\ Cut(input', 0) = -1
  BY <1>1, <1>2, Cuts DEF FirstField
<1>6. ReadInv'
  BY <1>1, <1>5 DEF ReadInv
<1> QED BY <1>1, <1>4, <1>6, SameAnswer DEF RInv

LEMMA StartWholeReads ==
  ASSUME IInv, RInv, StartWhole
  PROVE  RInv'
<1>1. input' = input /\ result' = result /\ out' = out /\ group' = "whole" /\ tokenAt' = 0
      /\ pc' = "groups"
  BY DEF StartWhole
<1>2. TypeOK /\ input \in Seq(Byte)
  BY InputIsText DEF IInv
<1>3. DoublesOf(input) = {}
  BY <1>2, GapsAreDoubles DEF StartWhole
<1>4. PlaceInv'
  BY <1>1, <1>3 DEF PlaceInv
<1>5. FirstField' = 0 /\ Cut(input', 0) = -1
  BY <1>1, <1>2, Cuts DEF FirstField
<1>6. ReadInv'
  BY <1>1, <1>5 DEF ReadInv
<1> QED BY <1>1, <1>4, <1>6, SameAnswer DEF RInv

LEMMA EnterGroupsReads ==
  ASSUME IInv, RInv, EnterGroups
  PROVE  RInv'
<1>1. /\ pc = "groups" /\ filled' = 0 /\ pc' = IF tokenAt = RunEnd THEN "produced" ELSE "token"
      /\ UNCHANGED <<input, dc, group, hb, tokenAt, bufs, result, out>>
  BY DEF EnterGroups, place
<1>2. Busy
  BY <1>1 DEF Busy
<1>3. PlaceInv'
  BY <1>1, <1>2, SamePlace
<1>4. ASSUME ~Dotted(input) PROVE ReadInv'
  <2>1. input \in Seq(Byte)
    BY InputIsText DEF IInv
  <2>2. PICK f \in Nat, e \in Nat \ {0} :
          /\ f = FirstField /\ e = EndField /\ f < e /\ e <= Fields(input)
          /\ RunEnd = Cut(input, e)
    BY <1>2, RunOfFields DEF RInv
  <2>3. tokenAt = Cut(input, f) + 1
    BY <1>1, <1>4, <2>2 DEF RInv, ReadInv
  <2>4. FirstField' = f /\ EndField' = e
    BY <1>1, <2>2, SameRun
  <2>5. FieldsRead(group, f, 0)'
    BY DEF FieldsRead
  <2>6. CASE tokenAt = RunEnd
    <3>1. e = f + 1 /\ Pitch(input, f) = 1
      BY <2>1, <2>2, <2>3, <2>6, NextCut
    <3>2. AllFields(f, e, 0)'
      BY <1>1, <3>1 DEF AllFields, AtLeastOne
    <3>3. RunRead(0)'
      BY <1>1, <2>4, <2>5, <3>2 DEF RunRead, FieldsRead
    <3>4. pc' = "produced" /\ 0 \in 0..8
      BY <1>1, <2>6
    <3> QED BY <1>1, <1>2, <1>4, <3>3, <3>4, HeadStaysRead DEF ReadInv
  <2>7. CASE tokenAt # RunEnd
    <3>1. AtField(0)' /\ tokenAt' = Cut(input', f + 0) + 1
      BY <1>1, <2>2, <2>3, <2>4, <2>5 DEF AtField, FieldsRead
    <3>2. pc' = "token" /\ 0 \in 0..8
      BY <1>1, <2>7
    <3> QED BY <1>1, <1>2, <1>4, <2>4, <3>1, <3>2, HeadStaysRead DEF ReadInv
  <2> QED BY <2>6, <2>7
<1> QED BY <1>1, <1>3, <1>4, SameAnswer DEF RInv

----------------------------------------------------------------------------
(* The steps that find a token and read its digits.                        *)

LEMMA NoDotInToken ==
  ASSUME IInv, ~Dotted(input)
  PROVE  ~HasDot
<1>1. tokenAt \in Nat /\ Len(input) \in Nat /\ tokenEnd \in 0..Len(input)
  BY Lengths DEF IInv, TypeOK
<1>2. \A j \in tokenAt..(tokenEnd - 1) : j \in 0..(Len(input) - 1)
  BY <1>1
<1> QED BY <1>2 DEF HasDot, Dotted, Places

\* A token that starts a field ends with it.
LEMMA TokenEndIsCut ==
  ASSUME IInv, NEW k \in Nat, NEW e \in Nat, k < e, e <= Fields(input),
         RunEnd = Cut(input, e), tokenAt = Cut(input, k) + 1,
         NEW i \in 0..Len(input), IsTokenEnd(i)
  PROVE  i = Cut(input, k + 1)
<1>1. input \in Seq(Byte) /\ RunEnd \in 0..Len(input) /\ Len(input) \in Nat
  BY InputIsText, RunEndInText, Lengths DEF IInv
<1>2. PICK a \in Int, z \in Int : a = Cut(input, k) /\ z = Cut(input, e)
  BY <1>1, NextCut
<1>3. k < Fields(input) /\ Fields(input) \in Nat
  BY <1>1, Cuts
<1>4. PICK c \in 0..Len(input) : c = Cut(input, k + 1)
  BY <1>1, <1>3, FieldCuts
<1>5. /\ a < c /\ (c = Len(input) \/ c \in ColonsOf(input))
      /\ \A j \in Int : a < j /\ j < c => j \in Places(input) \ ColonsOf(input)
  BY <1>1, <1>2, <1>3, <1>4, FieldCuts
<1>6. c <= z
  <2>1. k + 1 = e \/ k + 1 < e
    OBVIOUS
  <2>2. k + 1 < e => c < z
    BY <1>1, <1>2, <1>4, NextCut
  <2> QED BY <1>2, <1>4, <2>1, <2>2
<1>7. /\ a + 1 <= i /\ i <= z /\ (i = z \/ ColonAt(i))
      /\ \A j \in (a + 1)..(i - 1) : ~ColonAt(j)
  BY <1>1, <1>2 DEF IsTokenEnd
<1>8. \A j \in ColonsOf(input) : ColonAt(j)
  BY <1>1 DEF ColonsOf, ColonAt, Places
<1>9. ~ (i < c)
  <2> SUFFICES ASSUME i < c PROVE FALSE
    OBVIOUS
  <2>1. i \in Places(input) \ ColonsOf(input)
    BY <1>1, <1>5, <1>7
  <2>2. ColonAt(i)
    BY <1>4, <1>6, <1>7
  <2> QED BY <2>1, <2>2 DEF ColonAt, ColonsOf
<1>10. ~ (c < i)
  <2> SUFFICES ASSUME c < i PROVE FALSE
    OBVIOUS
  <2>1. c # Len(input) /\ c \in (a + 1)..(i - 1)
    BY <1>1, <1>4, <1>5
  <2> QED BY <1>5, <1>7, <1>8, <2>1
<1> QED BY <1>4, <1>9, <1>10

\* What a run of groups has at the head of the loop over tokens.
LEMMA AtToken ==
  ASSUME IInv, RInv, pc = "token", ~Dotted(input)
  PROVE  \E f, e \in Nat, n \in 0..8 :
           /\ f = FirstField /\ e = EndField /\ e <= Fields(input) /\ RunEnd = Cut(input, e)
           /\ filled = 2 * n /\ FieldsRead(group, f, n) /\ f + n < e
           /\ tokenAt = Cut(input, f + n) + 1
<1>1. PICK n \in 0..8 : AtField(n) /\ tokenAt = Cut(input, FirstField + n) + 1
  BY DEF RInv, ReadInv
<1>2. /\ FirstField \in Nat /\ EndField \in Nat /\ EndField <= Fields(input)
      /\ RunEnd = Cut(input, EndField)
  BY RunOfFields DEF RInv, Busy
<1> QED BY <1>1, <1>2 DEF AtField

\* The scan changes nothing of what is read.
LEMMA ScanTokenReads ==
  ASSUME IInv, RInv, ScanToken
  PROVE  RInv'
<1>1. /\ pc = "token"
      /\ UNCHANGED <<input, pc, dc, group, hb, tokenAt, filled, bufs, result, out>>
  BY DEF ScanToken, place
<1>2. Busy
  BY <1>1 DEF Busy
<1>3. PlaceInv'
  BY <1>1, <1>2, SamePlace
<1>4. ASSUME ~Dotted(input) PROVE ReadInv'
  <2>1. PICK n \in 0..8 : AtField(n) /\ tokenAt = Cut(input, FirstField + n) + 1
    BY <1>1, <1>4 DEF RInv, ReadInv
  <2>2. AtField(n)' /\ (tokenAt = Cut(input, FirstField + n) + 1)'
    BY <1>1, <2>1, SameRun DEF AtField, FieldsRead
  <2> QED BY <1>1, <1>2, <1>4, <2>2, HeadStaysRead DEF ReadInv
<1> QED BY <1>1, <1>3, <1>4, SameAnswer DEF RInv

LEMMA RejectTokenReads ==
  ASSUME IInv, RInv, RejectToken
  PROVE  RInv'
<1>1. PICK i \in 0..Len(input) : IsTokenEnd(i) /\ (i = tokenAt \/ HasDot)
  BY ScanFindsEnd DEF RejectToken
<1>2. pc = "token" /\ Reject
  BY DEF RejectToken
<1>3. ASSUME ~Dotted(input), GroupMeaning(input) # {} PROVE FALSE
  <2>1. PICK f \in Nat, e \in Nat, n \in 0..8 :
           /\ f = FirstField /\ e = EndField /\ e <= Fields(input) /\ RunEnd = Cut(input, e)
           /\ filled = 2 * n /\ FieldsRead(group, f, n) /\ f + n < e
           /\ tokenAt = Cut(input, f + n) + 1
    BY <1>2, <1>3, AtToken
  <2>2. PICK k \in Nat : k = f + n
    OBVIOUS
  <2>3. input \in Seq(Byte) /\ i = tokenAt
    BY <1>1, <1>3, InputIsText, NoDotInToken DEF IInv
  <2>4. Cut(input, k) + 1 = Cut(input, k + 1)
    BY <1>1, <2>1, <2>2, <2>3, TokenEndIsCut
  <2>5. k < Fields(input) /\ k + 1 <= Fields(input) /\ Fields(input) \in Nat
    BY <2>1, <2>2, <2>3, Cuts
  <2>6. Pitch(input, k) = 1
    BY <2>3, <2>4, <2>5, NextCut
  <2>7. GroupsOrNone(input, f, e)
    BY <1>2, <1>3, <2>1, MeantRun DEF RInv, Busy
  <2>8. ~ IsGroup(input, k) /\ k \in f..(e - 1)
    BY <2>1, <2>2, <2>6 DEF IsGroup
  <2>9. e = k + 1
    BY <2>1, <2>2, <2>7, <2>8 DEF GroupsOrNone
  <2>10. tokenAt < RunEnd
    BY <1>2 DEF IInv, RunInv
  <2> QED BY <1>1, <2>1, <2>3, <2>2, <2>4, <2>9, <2>10
<1> QED BY <1>2, <1>3, RejectsRight

LEMMA StartTokenReads ==
  ASSUME IInv, RInv, StartToken
  PROVE  RInv'
<1>1. PICK i \in 0..Len(input) : /\ IsTokenEnd(i) /\ i # tokenAt /\ tokenEnd' = i
                                 /\ pc' = IF HasDot THEN "quad" ELSE "hextet"
  BY ScanFindsEnd DEF StartToken
<1>2. /\ pc = "token" /\ val' = 0 /\ ndig' = 0
      /\ UNCHANGED <<input, dc, group, hb, tokenAt, filled, bufs, result, out>>
  BY DEF StartToken, place
<1>3. Busy
  BY <1>2 DEF Busy
<1>4. PlaceInv'
  BY <1>2, <1>3, SamePlace
<1>5. ASSUME ~Dotted(input) PROVE ReadInv'
  <2>1. PICK f \in Nat, e \in Nat, n \in 0..8 :
           /\ f = FirstField /\ e = EndField /\ e <= Fields(input) /\ RunEnd = Cut(input, e)
           /\ filled = 2 * n /\ FieldsRead(group, f, n) /\ f + n < e
           /\ tokenAt = Cut(input, f + n) + 1
    BY <1>2, <1>5, AtToken
  <2>2. PICK k \in Nat : k = f + n
    OBVIOUS
  <2>3. input \in Seq(Byte) /\ pc' = "hextet"
    BY <1>1, <1>5, InputIsText, NoDotInToken DEF IInv
  <2>4. i = Cut(input, k + 1)
    BY <1>1, <2>1, <2>2, TokenEndIsCut
  <2>5. Pitch(input, k) >= 2
    <3>1. k < Fields(input) /\ k + 1 <= Fields(input) /\ Fields(input) \in Nat
      BY <2>1, <2>2, <2>3, Cuts
    <3>2. /\ Cut(input, k) \in Int /\ Cut(input, k + 1) \in Int
          /\ Cut(input, k) < Cut(input, k + 1)
      BY <2>3, <3>1, NextCut
    <3> QED BY <1>1, <2>1, <2>2, <2>4, <3>2 DEF Pitch
  <2>6. FirstField' = f /\ EndField' = e
    BY <1>2, <2>1, SameRun
  <2>7. FieldsRead(group, f, n)'
    BY <1>2, <2>1 DEF FieldsRead
  <2>8. AtField(n)'
    BY <1>2, <2>1, <2>6, <2>7 DEF AtField
  <2>9. Cut(input, k) \in Int
    BY <2>1, <2>2, <2>3, NextCut
  <2>10. InField(k)'
    <3>1. HexAfter(input', Cut(input', k), 0) /\ ValueOf(input', Cut(input', k), 0) = 0
      BY DEF HexAfter, ValueOf
    <3>2. tokenAt' = Cut(input', k) + 1 + 0
      BY <1>2, <2>1, <2>2, <2>9
    <3> QED BY <1>1, <1>2, <2>4, <2>5, <3>1, <3>2 DEF InField
  <2> QED BY <1>2, <1>3, <1>5, <2>2, <2>3, <2>6, <2>8, <2>10, HeadStaysRead DEF ReadInv
<1> QED BY <1>2, <1>4, <1>5, SameAnswer DEF RInv

\* What a run of groups has in the loop over digits, and the field it is in.
LEMMA AtDigit ==
  ASSUME IInv, RInv, pc = "hextet", ~Dotted(input)
  PROVE  \E f, e \in Nat, n \in 0..8 :
           /\ f = FirstField /\ e = EndField /\ e <= Fields(input) /\ RunEnd = Cut(input, e)
           /\ filled = 2 * n /\ FieldsRead(group, f, n) /\ f + n < e /\ InField(f + n)
<1>1. PICK n \in 0..8 : AtField(n) /\ InField(FirstField + n)
  BY DEF RInv, ReadInv
<1>2. /\ FirstField \in Nat /\ EndField \in Nat /\ EndField <= Fields(input)
      /\ RunEnd = Cut(input, EndField)
  BY RunOfFields DEF RInv, Busy
<1> QED BY <1>1, <1>2 DEF AtField

\* The byte at the pointer is one of the field's, and no colon.
LEMMA DigitOfField ==
  ASSUME IInv, pc = "hextet", NEW k \in Nat, k < Fields(input), InField(k)
  PROVE  /\ Cut(input, k) \in Int /\ Cut(input, k + 1) \in Int /\ ndig \in 0..4
         /\ Pitch(input, k) = Cut(input, k + 1) - Cut(input, k) /\ Pitch(input, k) # 1
         /\ AtTokenEnd => Cut(input, k + 1) = Cut(input, k) + 1 + ndig
         /\ ~AtTokenEnd => /\ Cut(input, k) + 1 + ndig < Cut(input, k + 1)
                           /\ tokenAt \in Places(input) /\ Current \in Byte
                           /\ Current = At(input, Cut(input, k) + (ndig + 1))
<1>1. input \in Seq(Byte) /\ ndig \in 0..4 /\ tokenAt <= tokenEnd
  BY InputIsText DEF IInv, TypeOK, RunInv
<1>2. PICK L \in Nat : L = Len(input)
  BY <1>1, TextBytes
<1>3. PICK a \in -1..L, b \in 0..L : /\ a = Cut(input, k) /\ b = Cut(input, k + 1)
                                     /\ Pitch(input, k) = b - a
  BY <1>1, <1>2, FieldCuts
<1>4. tokenAt = a + 1 + ndig /\ tokenEnd = b /\ Pitch(input, k) >= 2
  BY <1>3 DEF InField
<1>5. CASE AtTokenEnd
  BY <1>1, <1>3, <1>4, <1>5 DEF AtTokenEnd
<1>6. CASE ~AtTokenEnd
  <2>1. a + 1 + ndig < b
    BY <1>1, <1>4, <1>6 DEF AtTokenEnd
  <2>2. tokenAt \in 0..(L - 1) /\ tokenAt = a + (ndig + 1)
    BY <1>1, <1>4, <2>1
  <2>3. tokenAt \in Places(input)
    BY <1>2, <2>2 DEF Places
  <2>4. Current \in Byte
    BY <1>1, <2>3, TextBytes DEF Current
  <2> QED BY <1>1, <1>3, <1>4, <1>6, <2>1, <2>2, <2>3, <2>4 DEF Current
<1> QED BY <1>5, <1>6

LEMMA HextetDigitReads ==
  ASSUME IInv, RInv, HextetDigit
  PROVE  RInv'
<1>1. /\ pc = "hextet" /\ ~AtTokenEnd /\ HexValue(Current) >= 0 /\ ndig + 1 <= 4
      /\ val' = val * 16 + HexValue(Current) /\ ndig' = ndig + 1 /\ tokenAt' = tokenAt + 1
      /\ UNCHANGED <<input, pc, dc, group, hb, tokenEnd, filled, bufs, result, out>>
  BY DEF HextetDigit, HextetGoesOn, place
<1>2. Busy
  BY <1>1 DEF Busy
<1>3. PlaceInv'
  BY <1>1, <1>2, SamePlace
<1>4. ASSUME ~Dotted(input) PROVE ReadInv'
  <2>1. PICK f \in Nat, e \in Nat, n \in 0..8 :
           /\ f = FirstField /\ e = EndField /\ e <= Fields(input) /\ RunEnd = Cut(input, e)
           /\ filled = 2 * n /\ FieldsRead(group, f, n) /\ f + n < e /\ InField(f + n)
    BY <1>1, <1>4, AtDigit
  <2>2. PICK k \in Nat : k = f + n
    OBVIOUS
  <2>3. k < Fields(input) /\ InField(k)
    <3>1. Fields(input) \in Nat
      BY InputIsText, Cuts DEF IInv
    <3> QED BY <2>1, <2>2, <3>1
  <2>4. /\ Cut(input, k) \in Int /\ ndig \in 0..4 /\ Current \in Byte
        /\ Current = At(input, Cut(input, k) + (ndig + 1))
    BY <1>1, <2>3, DigitOfField
  <2>5. PICK a \in Int, m \in 0..3 : a = Cut(input, k) /\ m = ndig
    BY <1>1, <2>4
  <2>6. /\ HexAfter(input, a, m) /\ val = ValueOf(input, a, m) /\ tokenAt = a + 1 + m
        /\ tokenEnd = Cut(input, k + 1) /\ Pitch(input, k) >= 2
    BY <2>3, <2>5 DEF InField
  <2>7. /\ IsHexDigit(Current) /\ HexValue(Current) = HexToBinary(Current)
    BY <1>1, <2>4, HexValueIsBinary
  <2>8. HexAfter(input, a, m + 1)
    <3>1. \A i \in 1..(m + 1) : i \in 1..m \/ i = m + 1
      OBVIOUS
    <3> QED BY <2>4, <2>5, <2>6, <2>7, <3>1 DEF HexAfter
  <2>9. val * 16 + HexToBinary(At(input, a + (m + 1))) = ValueOf(input, a, m + 1)
    BY <2>6, <2>8, NextDigit
  <2>10. val' = ValueOf(input, a, m + 1)
    BY <1>1, <2>4, <2>5, <2>7, <2>9
  <2>11. ndig' = m + 1 /\ tokenAt' = a + 1 + (m + 1)
    BY <1>1, <2>5, <2>6
  <2>12. InField(k)'
    BY <1>1, <2>5, <2>6, <2>8, <2>10, <2>11 DEF InField
  <2>13. FirstField' = f /\ EndField' = e
    BY <1>1, <2>1, SameRun
  <2>14. FieldsRead(group, f, n)'
    BY <1>1, <2>1 DEF FieldsRead
  <2>15. AtField(n)'
    BY <1>1, <2>1, <2>13, <2>14 DEF AtField
  <2> QED BY <1>1, <1>2, <1>4, <2>2, <2>12, <2>13, <2>15, HeadStaysRead DEF ReadInv
<1> QED BY <1>1, <1>3, <1>4, SameAnswer DEF RInv

\* A digit too many, a byte that is none, or a group too many.
LEMMA RejectHextetReads ==
  ASSUME IInv, RInv, RejectHextet
  PROVE  RInv'
<1>1. /\ pc = "hextet" /\ Reject
      /\ AtTokenEnd => ~ (filled + 2 <= 16)
      /\ ~AtTokenEnd => ~ (HexValue(Current) >= 0) \/ ~ (ndig + 1 <= 4)
  BY DEF RejectHextet, HextetFits, HextetGoesOn, Cap
<1>2. ASSUME ~Dotted(input), GroupMeaning(input) # {} PROVE FALSE
  <2>1. PICK f \in Nat, e \in Nat, n \in 0..8 :
           /\ f = FirstField /\ e = EndField /\ e <= Fields(input) /\ RunEnd = Cut(input, e)
           /\ filled = 2 * n /\ FieldsRead(group, f, n) /\ f + n < e /\ InField(f + n)
    BY <1>1, <1>2, AtDigit
  <2>2. PICK k \in Nat : k = f + n
    OBVIOUS
  <2>3. k < Fields(input) /\ InField(k) /\ input \in Seq(Byte)
    <3>1. Fields(input) \in Nat /\ input \in Seq(Byte)
      BY InputIsText, Cuts DEF IInv
    <3> QED BY <2>1, <2>2, <3>1
  <2>4. e <= f + 8 /\ GroupsOrNone(input, f, e)
    BY <1>1, <1>2, <2>1, MeantRun DEF RInv, Busy
  <2>5. Pitch(input, k) # 1
    BY <1>1, <2>3, DigitOfField
  <2>6. IsGroup(input, k)
    <3>1. k \in f..(e - 1) /\ (e = f + 1 => k = f)
      BY <2>1, <2>2
    <3> QED BY <2>4, <2>5, <3>1 DEF GroupsOrNone
  <2>7. CASE AtTokenEnd
    BY <1>1, <2>1, <2>4, <2>7
  <2>8. CASE ~AtTokenEnd
    <3>1. PICK a \in Int, b \in Int, m \in 0..4 :
            /\ a = Cut(input, k) /\ b = Cut(input, k + 1) /\ m = ndig
            /\ Pitch(input, k) = b - a /\ a + 1 + m < b
      BY <1>1, <2>3, <2>8, DigitOfField
    <3>2. m + 1 <= 4
      BY <2>6, <3>1 DEF IsGroup
    <3>3. tokenAt \in Places(input) /\ Current \in Byte /\ tokenAt = a + 1 + m
      BY <1>1, <2>3, <2>8, <3>1, DigitOfField DEF InField
    <3>4. a < tokenAt /\ tokenAt < b
      BY <3>1, <3>3
    <3>5. IsHexDigit(Current)
      BY <2>6, <3>1, <3>3, <3>4 DEF IsGroup, Current
    <3>6. HexValue(Current) >= 0
      BY <3>3, <3>5, HexValueIsBinary
    <3> QED BY <1>1, <2>8, <3>1, <3>2, <3>6
  <2> QED BY <2>7, <2>8
<1> QED BY <1>1, <1>2, RejectsRight

\* A text without a dot has no quad.
LEMMA QuadReads ==
  ASSUME RInv, pc = "quad", UNCHANGED <<input, dc, group>>
  PROVE  RInv'
<1>1. Dotted(input) /\ Busy
  BY DEF RInv, ReadInv, Busy
<1>2. PlaceInv' /\ Dotted(input)'
  BY <1>1, SamePlace
<1> QED BY <1>2 DEF RInv, DotlessRead

----------------------------------------------------------------------------
(* The end of a group, and of the head.                                    *)

\* A group stored where the buffer of the call ends to be written.
LEMMA StoredGroup ==
  ASSUME NEW f \in Nat, NEW n \in 0..7, FieldsRead(group, f, n), IsGroup(input, f + n),
         NEW high, NEW low, bufs[group] \in [0..15 -> Byte \cup {Unset}],
         high = GroupByte(input, Cut(input, f + n), Cut(input, f + n + 1), 0),
         low = GroupByte(input, Cut(input, f + n), Cut(input, f + n + 1), 1),
         bufs'[group] = [bufs[group] EXCEPT ![2 * n] = high, ![2 * n + 1] = low],
         UNCHANGED <<input, group>>
  PROVE  FieldsRead(group, f, n + 1)'
<1>1. /\ bufs'[group][2 * n] = high /\ bufs'[group][2 * n + 1] = low
      /\ \A i \in 0..15 : i # 2 * n /\ i # 2 * n + 1 => bufs'[group][i] = bufs[group][i]
  <2>1. 2 * n \in 0..15 /\ 2 * n + 1 \in 0..15 /\ 2 * n # 2 * n + 1
    OBVIOUS
  <2> QED BY <2>1
<1>2. ASSUME NEW j \in 0..n
      PROVE  /\ IsGroup(input, f + j)
             /\ \A o \in 0..1 : bufs'[group][2 * j + o]
                                  = GroupByte(input, Cut(input, f + j), Cut(input, f + j + 1), o)
  <2>1. CASE j = n
    <3>1. \A o \in 0..1 : (o = 0 /\ 2 * n + o = 2 * n) \/ o = 1
      OBVIOUS
    <3> QED BY <1>1, <2>1, <3>1
  <2>2. CASE j # n
    <3>1. j \in 0..(n - 1)
      BY <2>2
    <3>2. \A o \in 0..1 : 2 * j + o \in 0..15 /\ 2 * j + o # 2 * n /\ 2 * j + o # 2 * n + 1
      BY <3>1
    <3>3. \A o \in 0..1 : bufs'[group][2 * j + o] = bufs[group][2 * j + o]
      BY <1>1, <3>2
    <3> QED BY <3>1, <3>3 DEF FieldsRead
  <2> QED BY <2>1, <2>2
<1>3. n + 1 - 1 = n
  OBVIOUS
<1> QED BY <1>2, <1>3 DEF FieldsRead

\* The field that ends is a group, and val has its bytes.
LEMMA EndOfField ==
  ASSUME IInv, pc = "hextet", AtTokenEnd, NEW k \in Nat, k < Fields(input), InField(k)
  PROVE  /\ IsGroup(input, k)
         /\ (val \div 256) % 256 = GroupByte(input, Cut(input, k), Cut(input, k + 1), 0)
         /\ val % 256 = GroupByte(input, Cut(input, k), Cut(input, k + 1), 1)
<1>1. PICK a \in Int, b \in Int, m \in 0..4 :
        /\ a = Cut(input, k) /\ b = Cut(input, k + 1) /\ m = ndig
        /\ Pitch(input, k) = b - a /\ b = a + 1 + m /\ Pitch(input, k) # 1
  BY DigitOfField
<1>2. HexAfter(input, a, m) /\ val = ValueOf(input, a, m)
  BY <1>1 DEF InField
<1>3. m \in 1..4 /\ b = a + m + 1 /\ Pitch(input, k) \in 2..5
  BY <1>1
<1>4. ASSUME NEW i \in Places(input), a < i, i < b PROVE IsHexDigit(At(input, i))
  <2>1. i \in Int
    BY InputIsText, TextBytes DEF IInv
  <2>2. PICK j \in 1..m : i = a + j
    <3>1. i - a \in 1..m /\ i = a + (i - a)
      BY <1>1, <1>4, <2>1
    <3> QED BY <3>1
  <2> QED BY <1>2, <2>2 DEF HexAfter
<1>5. IsGroup(input, k)
  BY <1>1, <1>3, <1>4 DEF IsGroup
<1>6. /\ (val \div 256) % 256 = GroupByte(input, a, b, 0)
      /\ val % 256 = GroupByte(input, a, b, 1)
  BY <1>2, <1>3, ValueIsGroup
<1> QED BY <1>1, <1>5, <1>6

LEMMA EndHextetReads ==
  ASSUME IInv, RInv, EndHextet
  PROVE  RInv'
<1>1. /\ pc = "hextet" /\ AtTokenEnd /\ filled + 2 <= 16 /\ filled' = filled + 2
      /\ bufs' = [bufs EXCEPT ![group] = [@ EXCEPT ![filled] = (val \div 256) % 256,
                                                   ![filled + 1] = val % 256]]
      /\ tokenAt' = tokenEnd + 1
      /\ UNCHANGED <<input, dc, group, hb, out>>
  BY DEF EndHextet, HextetFits, Cap, NextToken, place
<1>2. /\ tokenEnd = RunEnd => pc' = "produced" /\ result' = result
      /\ tokenEnd # RunEnd /\ tokenEnd + 1 = RunEnd => pc' = "returned" /\ result' = "rejected"
      /\ tokenEnd # RunEnd /\ tokenEnd + 1 # RunEnd => pc' = "token" /\ result' = result
  BY DEF EndHextet, NextToken
<1>3. Busy
  BY <1>1 DEF Busy
<1>4. PlaceInv'
  BY <1>1, <1>3, SamePlace
<1>5. CASE Dotted(input)
  BY <1>1, <1>4, <1>5 DEF RInv, DotlessRead
<1>6. CASE ~Dotted(input)
  <2>1. PICK f \in Nat, e \in Nat, n \in 0..8 :
           /\ f = FirstField /\ e = EndField /\ e <= Fields(input) /\ RunEnd = Cut(input, e)
           /\ filled = 2 * n /\ FieldsRead(group, f, n) /\ f + n < e /\ InField(f + n)
    BY <1>1, <1>6, AtDigit
  <2>2. PICK k \in Nat : k = f + n
    OBVIOUS
  <2>3. k < Fields(input) /\ InField(k) /\ input \in Seq(Byte) /\ k + 1 <= Fields(input)
    <3>1. Fields(input) \in Nat /\ input \in Seq(Byte)
      BY InputIsText, Cuts DEF IInv
    <3> QED BY <2>1, <2>2, <3>1
  <2>4. /\ IsGroup(input, k)
        /\ (val \div 256) % 256 = GroupByte(input, Cut(input, k), Cut(input, k + 1), 0)
        /\ val % 256 = GroupByte(input, Cut(input, k), Cut(input, k + 1), 1)
    BY <1>1, <2>3, EndOfField
  <2>5. n \in 0..7 /\ n + 1 \in 0..8 /\ filled' = 2 * (n + 1) /\ f + (n + 1) = k + 1
    BY <1>1, <2>1, <2>2
  <2>6. group \in Groups /\ bufs \in [Groups -> [0..15 -> Byte \cup {Unset}]]
    BY DEF IInv, TypeOK
  <2>7. /\ bufs'[group] = [bufs[group] EXCEPT ![2 * n] = (val \div 256) % 256,
                                              ![2 * n + 1] = val % 256]
        /\ group = "tail" => bufs'["head"] = bufs["head"]
    BY <1>1, <2>1, <2>6 DEF Groups
  <2>8. FieldsRead(group, f, n + 1)'
    <3>1. bufs[group] \in [0..15 -> Byte \cup {Unset}] /\ UNCHANGED <<input, group>>
      BY <1>1, <2>6
    <3>2. PICK high, low : high = (val \div 256) % 256 /\ low = val % 256
      OBVIOUS
    <3>3. /\ IsGroup(input, f + n)
          /\ high = GroupByte(input, Cut(input, f + n), Cut(input, f + n + 1), 0)
          /\ low = GroupByte(input, Cut(input, f + n), Cut(input, f + n + 1), 1)
      BY <2>2, <2>4, <3>2
    <3>4. bufs'[group] = [bufs[group] EXCEPT ![2 * n] = high, ![2 * n + 1] = low]
      BY <2>7, <3>2
    <3> QED BY <2>1, <2>5, <3>1, <3>3, <3>4, StoredGroup
  <2>9. FirstField' = f /\ EndField' = e
    BY <1>1, <2>1, SameRun
  <2>10. tokenEnd = Cut(input, k + 1) /\ tokenAt' = Cut(input, k + 1) + 1
    BY <1>1, <2>3 DEF InField
  <2>11. CASE tokenEnd = RunEnd
    <3>1. ~ (k + 1 < e)
      BY <2>1, <2>3, <2>10, <2>11, NextCut
    <3>2. e = f + (n + 1)
      BY <2>1, <2>2, <3>1
    <3>3. AllFields(f, e, n + 1)'
      BY <2>5, <3>2 DEF AllFields, AtLeastOne
    <3>4. RunRead(n + 1)'
      BY <2>5, <2>8, <2>9, <3>3 DEF RunRead
    <3>5. pc' = "produced" /\ result' = result
      BY <1>2, <2>11
    <3>6. ReadInv'
      BY <1>1, <1>3, <1>6, <2>5, <2>7, <3>4, <3>5, HeadStaysRead DEF ReadInv
    <3> QED BY <1>1, <1>4, <3>5, <3>6, SameAnswer DEF RInv
  <2>12. CASE tokenEnd # RunEnd /\ tokenEnd + 1 = RunEnd
    <3>1. k + 1 < e
      BY <2>1, <2>2, <2>10, <2>12
    <3>2. Pitch(input, k + 1) = 1
      BY <2>1, <2>3, <2>10, <2>12, <3>1, NextCut
    <3>3. ~ IsGroup(input, k + 1) /\ k + 1 \in f..(e - 1) /\ e # f + 1
      BY <2>1, <2>2, <3>1, <3>2 DEF IsGroup
    <3>4. ~ GroupsOrNone(input, f, e)
      BY <3>3 DEF GroupsOrNone
    <3>5. GroupMeaning(input) = {}
      BY <1>3, <2>1, <3>4, MeantRun DEF RInv
    <3>6. pc' = "returned" /\ result' = "rejected"
      BY <1>2, <2>12
    <3> QED BY <1>1, <1>4, <3>5, <3>6 DEF RInv, ReadInv, DotlessRead, Busy
  <2>13. CASE tokenEnd # RunEnd /\ tokenEnd + 1 # RunEnd
    <3>1. f + (n + 1) < e
      BY <2>1, <2>2, <2>10, <2>13
    <3>2. AtField(n + 1)'
      BY <2>5, <2>8, <2>9, <3>1 DEF AtField
    <3>3. pc' = "token" /\ result' = result /\ tokenAt' = Cut(input', f + (n + 1)) + 1
      BY <1>1, <1>2, <2>5, <2>10, <2>13
    <3>4. ReadInv'
      BY <1>1, <1>3, <1>6, <2>5, <2>7, <2>9, <3>2, <3>3, HeadStaysRead DEF ReadInv
    <3> QED BY <1>1, <1>4, <3>3, <3>4, SameAnswer DEF RInv
  <2> QED BY <2>11, <2>12, <2>13
<1> QED BY <1>5, <1>6

\* What stands before "::" has been read.
LEMMA StartTailReads ==
  ASSUME IInv, RInv, StartTail
  PROVE  RInv'
<1>1. /\ pc = "produced" /\ group = "head" /\ hb' = filled /\ group' = "tail"
      /\ tokenAt' = dc + 2 /\ pc' = "groups" /\ UNCHANGED <<input, dc, bufs, result, out>>
  BY DEF StartTail
<1>2. Busy
  BY <1>1 DEF Busy
<1>3. PlaceInv'
  BY <1>1, <1>2 DEF RInv, PlaceInv
<1>4. GapField' = GapField /\ FirstField' = GapField + 1
  BY <1>1 DEF GapField, FirstField
<1>5. tokenAt' = Cut(input', FirstField') + 1
  <2>1. PICK k \in 1..(Fields(input) - 2) :
          /\ k = RankIn(ColonsOf(input), dc) + 1 /\ Cut(input, k + 1) = dc + 1
    <3>1. dc \in DoublesOf(input) /\ input \in Seq(Byte)
      BY <1>1, <1>2, InputIsText DEF RInv, PlaceInv, IInv
    <3> QED BY <3>1, DoubleInside
  <2>2. dc \in Int
    BY DEF IInv, TypeOK
  <2> QED BY <1>1, <1>4, <2>1, <2>2 DEF GapField
<1>6. ASSUME ~Dotted(input) PROVE ReadInv'
  <2>1. PICK n \in 0..8 : RunRead(n)
    BY <1>1, <1>6 DEF RInv, ReadInv
  <2>2. filled = 2 * n /\ FieldsRead("head", 0, n) /\ AllFields(0, GapField, n)
    BY <1>1, <2>1 DEF RunRead, FirstField, EndField
  <2>3. FieldsRead("head", 0, n)' /\ AllFields(0, GapField, n)'
    BY <1>1, <1>4, <2>2 DEF FieldsRead, AllFields
  <2>4. HeadRead(n)'
    BY <1>1, <2>2, <2>3 DEF HeadRead
  <2> QED BY <1>1, <1>5, <2>4 DEF ReadInv
<1> QED BY <1>1, <1>3, <1>6, SameAnswer DEF RInv

----------------------------------------------------------------------------
(* What parse_ipv6_scalar does with the bytes of its calls.                *)

\* The bytes of the fields that the buffers hold are those of the address.
LEMMA WholeIsEight ==
  ASSUME TypeOK, FieldsRead("whole", 0, 8)
  PROVE  bufs["whole"] = EightBytes(input)
<1>1. bufs["whole"] \in [0..15 -> Byte \cup {Unset}]
  BY DEF TypeOK, Groups
<1>0. \A j \in 0..(8 - 1), o \in 0..1 : \A b :
        b % 2 = o => bufs["whole"][2 * j + o] = FieldByte(input, 0 + j, b)
  BY DEF FieldsRead, FieldByte
<1>2. ASSUME NEW b \in 0..15 PROVE bufs["whole"][b] = FieldByte(input, b \div 2, b)
  <2>1. PICK g \in 0..7, o \in 0..1 : b = 2 * g + o /\ b \div 2 = g /\ b % 2 = o
    BY SlotOfByte
  <2>2. g \in 0..(8 - 1) /\ g = 0 + g
    OBVIOUS
  <2>3. bufs["whole"][2 * g + o] = FieldByte(input, 0 + g, b)
    BY <1>0, <2>1, <2>2, Zenon
  <2> QED BY <2>1, <2>2, <2>3
<1> QED BY <1>1, <1>2 DEF EightBytes

LEMMA JoinedIsGap ==
  ASSUME NEW h \in Nat, NEW n \in Nat, h + n <= 7, hb = 2 * h, filled = 2 * n,
         FieldsRead("head", 0, h), FieldsRead("tail", AtLeastOne(h) + 1, n), Fresh("whole", 0)
  PROVE  Joined = GapBytes(input, h, n)
<1>1. PICK d \in Nat : d = AtLeastOne(h)
  BY DEF AtLeastOne
<1>0. /\ \A j \in 0..(h - 1), o \in 0..1 : \A b :
           b % 2 = o => bufs["head"][2 * j + o] = FieldByte(input, 0 + j, b)
      /\ \A j \in 0..(n - 1), o \in 0..1 : \A b :
           b % 2 = o => bufs["tail"][2 * j + o] = FieldByte(input, d + 1 + j, b)
  BY <1>1 DEF FieldsRead, FieldByte
<1>2. ASSUME NEW b \in 0..15 PROVE Joined[b] = GapBytes(input, h, n)[b]
  <2>1. PICK g \in 0..7, o \in 0..1 : b = 2 * g + o /\ b \div 2 = g /\ b % 2 = o
    BY SlotOfByte
  <2>2. Joined[b] = IF b >= 16 - 2 * n THEN bufs["tail"][b - (16 - 2 * n)]
                    ELSE IF b < 2 * h THEN bufs["head"][b] ELSE bufs["whole"][b]
    BY DEF Joined
  <2>3. GapBytes(input, h, n)[b] =
          CASE g < h -> FieldByte(input, g, b)
            [] g >= 8 - n -> FieldByte(input, d + 1 + g - (8 - n), b)
            [] OTHER -> 0
    BY <1>1, <2>1 DEF GapBytes
  <2>4. CASE g < h
    <3>1. ~ (b >= 16 - 2 * n) /\ b < 2 * h /\ ~ (g >= 8 - n) /\ g \in 0..(h - 1) /\ g = 0 + g
      BY <2>1, <2>4
    <3>2. bufs["head"][2 * g + o] = FieldByte(input, 0 + g, b)
      BY <1>0, <2>1, <3>1, Zenon
    <3> QED BY <2>1, <2>2, <2>3, <2>4, <3>1, <3>2
  <2>5. CASE g >= 8 - n
    <3>1. PICK j \in 0..(n - 1) : g = 8 - n + j
      <4>1. g - (8 - n) \in 0..(n - 1) /\ g = 8 - n + (g - (8 - n))
        BY <2>5
      <4> QED BY <4>1
    <3>2. /\ b >= 16 - 2 * n /\ ~ (g < h) /\ b - (16 - 2 * n) = 2 * j + o
          /\ d + 1 + g - (8 - n) = d + 1 + j
      BY <2>1, <3>1
    <3>3. bufs["tail"][2 * j + o] = FieldByte(input, d + 1 + j, b)
      BY <1>0, <2>1, Zenon
    <3> QED BY <2>2, <2>3, <2>5, <3>2, <3>3
  <2>6. CASE ~ (g < h) /\ ~ (g >= 8 - n)
    <3>1. ~ (b >= 16 - 2 * n) /\ ~ (b < 2 * h)
      BY <2>1, <2>6
    <3>2. bufs["whole"][b] = 0
      BY DEF Fresh
    <3> QED BY <2>2, <2>3, <2>6, <3>1, <3>2
  <2> QED BY <2>4, <2>5, <2>6
<1> QED BY <1>2 DEF Joined, GapBytes

\* What the two calls around "::" have read, when both have returned.
LEMMA BothRead ==
  ASSUME IInv, RInv, pc = "produced", group = "tail", ~Dotted(input)
  PROVE  \E h, n \in 0..8, d \in Nat :
           /\ hb = 2 * h /\ filled = 2 * n /\ d = AtLeastOne(h) /\ d = GapField
           /\ FieldsRead("head", 0, h) /\ FieldsRead("tail", d + 1, n)
           /\ Fields(input) = d + 1 + AtLeastOne(n)
           /\ h = 0 => Pitch(input, 0) = 1
           /\ Pitch(input, d) = 1
           /\ n = 0 => Pitch(input, d + 1) = 1
<1>1. PICK h \in 0..8, n \in 0..8 : HeadRead(h) /\ RunRead(n)
  BY DEF RInv, ReadInv, Busy
<1>2. PICK d \in Nat : d = AtLeastOne(h)
  BY DEF AtLeastOne
<1>3. GapField = d
  BY <1>1, <1>2 DEF HeadRead, AllFields
<1>4. FirstField = d + 1 /\ EndField = Fields(input)
  BY <1>3 DEF FirstField, EndField
<1>5. Pitch(input, d) = 1
  BY <1>3, RunOfFields DEF RInv, Busy
<1> QED BY <1>1, <1>2, <1>3, <1>4, <1>5 DEF HeadRead, RunRead, AllFields

LEMMA OutputReads ==
  ASSUME IInv, RInv, Output
  PROVE  RInv'
<1>1. /\ pc = "produced" /\ Accepts /\ pc' = "returned" /\ result' = "accepted" /\ input' = input
      /\ out' = IF group = "tail" THEN Joined ELSE bufs["whole"]
  BY DEF Output
<1>2. TypeOK /\ input \in Seq(Byte)
  BY InputIsText DEF IInv
<1>3. ASSUME ~Dotted(input) PROVE out' \in GroupMeaning(input)
  <2>1. CASE group = "tail"
    <3>1. PICK h \in 0..8, n \in 0..8, d \in Nat :
           /\ hb = 2 * h /\ filled = 2 * n /\ d = AtLeastOne(h) /\ d = GapField
           /\ FieldsRead("head", 0, h) /\ FieldsRead("tail", d + 1, n)
           /\ Fields(input) = d + 1 + AtLeastOne(n)
           /\ h = 0 => Pitch(input, 0) = 1
           /\ Pitch(input, d) = 1
           /\ n = 0 => Pitch(input, d + 1) = 1
      BY <1>1, <1>3, <2>1, BothRead
    <3>2. h + n <= 7
      BY <1>1, <2>1, <3>1 DEF Accepts, RoomForGap
    <3>3. \A j \in 0..(h - 1) : IsGroup(input, j)
      <4>1. FieldsRead("head", 0, h)
        BY <3>1
      <4>2. \A j \in 0..(h - 1) : IsGroup(input, 0 + j) /\ 0 + j = j
        BY <4>1 DEF FieldsRead
      <4> QED BY <4>2
    <3>4. \A j \in 0..(n - 1) : IsGroup(input, d + 1 + j)
      BY <3>1 DEF FieldsRead
    <3>5. GroupsAround(input, h, n)
      <4>1. h \in Nat /\ n \in Nat
        OBVIOUS
      <4> QED BY <1>2, <3>1, <3>2, <3>3, <3>4, <4>1, ReadIsAround, Zenon
    <3>6. Fresh("whole", 0)
      BY <2>1 DEF IInv, BufInv
    <3>7. Joined = GapBytes(input, h, n)
      <4>1. h \in Nat /\ n \in Nat /\ FieldsRead("tail", AtLeastOne(h) + 1, n)
        BY <3>1
      <4> QED BY <3>1, <3>2, <3>6, <4>1, JoinedIsGap, Zenon
    <3> QED BY <1>1, <2>1, <3>5, <3>7, GroupMeanings
  <2>2. CASE group # "tail"
    <3>1. group = "whole" /\ filled = 16
      BY <1>1, <1>2, <2>2 DEF Accepts, TypeOK, Groups
    <3>2. PICK n \in 0..8 : RunRead(n)
      BY <1>1, <1>3 DEF RInv, ReadInv
    <3>3. n = 8 /\ FirstField = 0 /\ EndField = Fields(input)
      BY <3>1, <3>2 DEF RunRead, FirstField, EndField
    <3>4. FieldsRead("whole", 0, 8) /\ AllFields(0, Fields(input), 8)
      BY <3>1, <3>2, <3>3 DEF RunRead
    <3>5. Fields(input) = 8
      BY <3>4 DEF AllFields, AtLeastOne
    <3>6. \A k \in 0..7 : IsGroup(input, k)
      <4>1. \A j \in 0..(8 - 1) : IsGroup(input, 0 + j) /\ 0 + j = j
        BY <3>4 DEF FieldsRead
      <4> QED BY <4>1
    <3>7. EightGroups(input)
      BY <1>2, <3>5, <3>6, ReadIsEight
    <3> QED BY <1>1, <1>2, <2>2, <3>4, <3>7, WholeIsEight, GroupMeanings
  <2> QED BY <2>1, <2>2
<1> QED BY <1>1, <1>3 DEF RInv, PlaceInv, ReadInv, DotlessRead, Busy

\* Too many groups around "::", or not eight without it.
LEMMA RejectLengthReads ==
  ASSUME IInv, RInv, RejectLength
  PROVE  RInv'
<1>1. pc = "produced" /\ group # "head" /\ ~Accepts /\ Reject
  BY DEF RejectLength
<1>2. TypeOK /\ input \in Seq(Byte) /\ Busy
  BY <1>1, InputIsText DEF IInv, Busy
<1>3. ASSUME ~Dotted(input), GroupMeaning(input) # {} PROVE FALSE
  <2>1. CASE group = "tail"
    <3>1. PICK h \in 0..8, n \in 0..8, d \in Nat :
           /\ hb = 2 * h /\ filled = 2 * n /\ d = AtLeastOne(h) /\ d = GapField
           /\ FieldsRead("head", 0, h) /\ FieldsRead("tail", d + 1, n)
           /\ Fields(input) = d + 1 + AtLeastOne(n)
           /\ h = 0 => Pitch(input, 0) = 1
           /\ Pitch(input, d) = 1
           /\ n = 0 => Pitch(input, d + 1) = 1
      BY <1>1, <1>3, <2>1, BothRead
    <3>2. ~ (2 * h + 2 * n <= 14)
      BY <1>1, <2>1, <3>1 DEF Accepts, RoomForGap
    <3>3. DoublesOf(input) = {dc}
      BY <1>2, <2>1 DEF RInv, PlaceInv
    <3>4. PICK i \in Nat, j \in Nat : GroupsAround(input, i, j) /\ GapShape(input, dc, i, j)
      BY <1>2, <1>3, <3>3, MeantGroups
    <3>5. PICK c \in 1..7, e \in 1..7 : c = AtLeastOne(i) /\ e = AtLeastOne(j) /\ i + j <= 7
      BY <3>4 DEF GroupsAround, AtLeastOne
    <3>6. c = d /\ Fields(input) = c + 1 + e
      BY <3>1, <3>4, <3>5 DEF GapShape, GapField
    <3>7. \A k \in 0..(c + e) :
            Pitch(input, k) \in IF k \in Blocks(i, c + 1, j) THEN 2..5 ELSE {1}
      <4>1. Fields(input) - 1 = c + e
        BY <3>6
      <4> QED BY <3>4, <3>5, <4>1 DEF GroupsAround
    <3>8. h = i
      <4>1. h # 0 => IsGroup(input, 0)
        <5>1. h # 0 => 0 \in 0..(h - 1) /\ 0 + 0 = 0
          OBVIOUS
        <5> QED BY <3>1, <5>1 DEF FieldsRead
      <4>2. 0 \in 0..(c + e) /\ (i # 0 <=> 0 \in Blocks(i, c + 1, j))
        BY <3>5 DEF Blocks
      <4>3. (i = 0 => Pitch(input, 0) = 1) /\ (i # 0 => Pitch(input, 0) >= 2)
        BY <3>7, <4>2
      <4>4. AtLeastOne(h) = AtLeastOne(i) /\ h \in Nat
        BY <3>1, <3>5, <3>6
      <4> QED BY <3>1, <4>1, <4>3, <4>4, SameCount
    <3>9. n = j
      <4>1. n # 0 => IsGroup(input, d + 1)
        <5>1. n # 0 => 0 \in 0..(n - 1) /\ d + 1 + 0 = d + 1
          OBVIOUS
        <5> QED BY <3>1, <5>1 DEF FieldsRead
      <4>2. d + 1 \in 0..(c + e) /\ (j # 0 <=> d + 1 \in Blocks(i, c + 1, j))
        BY <3>5, <3>6 DEF Blocks, AtLeastOne
      <4>3. (j = 0 => Pitch(input, d + 1) = 1) /\ (j # 0 => Pitch(input, d + 1) >= 2)
        BY <3>7, <4>2
      <4>4. AtLeastOne(n) = AtLeastOne(j) /\ n \in Nat
        <5>1. PICK x \in Nat : x = AtLeastOne(n)
          BY DEF AtLeastOne
        <5>2. d + 1 + x = d + 1 + e
          BY <3>1, <3>6, <5>1
        <5> QED BY <3>5, <5>1, <5>2
      <4> QED BY <3>1, <4>1, <4>3, <4>4, SameCount
    <3> QED BY <3>2, <3>5, <3>8, <3>9
  <2>2. CASE group # "tail"
    <3>1. group = "whole" /\ filled # 16
      BY <1>1, <1>2, <2>2 DEF Accepts, TypeOK, Groups
    <3>2. PICK n \in 0..8 : RunRead(n)
      BY <1>1, <1>3 DEF RInv, ReadInv
    <3>3. EightGroups(input)
      BY <1>2, <1>3, <3>1, MeantGroups DEF RInv, PlaceInv
    <3>4. filled = 2 * n /\ AllFields(0, Fields(input), n)
      BY <3>1, <3>2 DEF RunRead, FirstField, EndField
    <3>5. 8 = AtLeastOne(n)
      <4>1. PICK x \in Nat : x = AtLeastOne(n)
        BY DEF AtLeastOne
      <4> QED BY <3>3, <3>4, <4>1 DEF AllFields, EightGroups
    <3> QED BY <3>1, <3>4, <3>5 DEF AtLeastOne
  <2> QED BY <2>1, <2>2
<1> QED BY <1>1, <1>3, RejectsRight

LEMMA NextRInv == IInv /\ RInv /\ [Next]_vars => RInv'
  <1> SUFFICES ASSUME IInv, RInv, [Next]_vars PROVE RInv' OBVIOUS
  <1>1. CASE RejectEmpty \/ RejectGap \/ RejectEdgeColon
    <2>1. Reject
      BY <1>1 DEF RejectEmpty, RejectGap, RejectEdgeColon
    <2> QED BY <1>1, <2>1, EntryRejects, RejectsRight
  <1>2. CASE QuadDigit \/ QuadDot \/ RejectQuad \/ EndQuad
    <2>1. pc = "quad" /\ UNCHANGED <<input, dc, group>>
      BY <1>2 DEF QuadDigit, QuadDot, RejectQuad, EndQuad, Reject, place
    <2> QED BY <2>1, QuadReads
  <1>3. CASE StartHead BY <1>3, StartHeadReads
  <1>4. CASE StartWhole BY <1>4, StartWholeReads
  <1>5. CASE EnterGroups BY <1>5, EnterGroupsReads
  <1>6. CASE RejectToken BY <1>6, RejectTokenReads
  <1>7. CASE StartToken BY <1>7, StartTokenReads
  <1>8. CASE HextetDigit BY <1>8, HextetDigitReads
  <1>9. CASE RejectHextet BY <1>9, RejectHextetReads
  <1>10. CASE EndHextet BY <1>10, EndHextetReads
  <1>11. CASE StartTail BY <1>11, StartTailReads
  <1>12. CASE Output BY <1>12, OutputReads
  <1>13. CASE RejectLength BY <1>13, RejectLengthReads
  <1>14. CASE ScanToken BY <1>14, ScanTokenReads
  <1>15. CASE UNCHANGED vars
    <2>1. UNCHANGED <<input, pc, dc, group, hb, tokenAt, tokenEnd, val, ndig, octet,
                      filled, bufs, result, out>>
      BY <1>15 DEF vars, place, token
    <2>2. DotlessRead'
      BY <2>1, SameAnswer
    <2>3. PlaceInv'
      BY <2>1, SameRun DEF RInv, PlaceInv, Busy
    <2>4. ReadInv => ReadInv'
      BY <2>1 DEF ReadInv, Busy, AtField, InField, RunRead, HeadRead, FieldsRead, AllFields,
                  FirstField, EndField, GapField
    <2> QED BY <2>1, <2>2, <2>3, <2>4 DEF RInv
  <1> QED BY <1>1, <1>2, <1>3, <1>4, <1>5, <1>6, <1>7, <1>8, <1>9, <1>10, <1>11, <1>12,
             <1>13, <1>14, <1>15, Zenon DEF Next

----------------------------------------------------------------------------
(* A text without a colon: one token, of two bytes or four.                *)

LoneInv ==
  ColonsOf(input) = {} =>
    /\ result # "accepted"
    /\ Busy => group = "whole"
    /\ pc = "token" => filled = 0
    /\ pc \in {"quad", "hextet"} => filled = 0 /\ tokenEnd = RunEnd
    /\ pc = "produced" => filled <= 4

LEMMA NoColonAt ==
  ASSUME ColonsOf(input) = {}, NEW i \in Int
  PROVE  ~ColonAt(i)
BY DEF ColonAt, ColonsOf, Places

LEMMA InitLoneInv == Init => LoneInv
BY DEF Init, LoneInv, Busy

LEMMA NextLoneInv == IInv /\ LoneInv /\ [Next]_vars => LoneInv'
  <1> SUFFICES ASSUME IInv, LoneInv, [Next]_vars, ColonsOf(input') = {} PROVE LoneInv'
    BY DEF LoneInv
  <1> USE DEF Busy
  <1>1. /\ Len(input) \in Nat /\ RunEnd \in 0..Len(input)
    BY Lengths, RunEndInText DEF IInv
  <1>2. CASE Reject
    BY <1>2 DEF LoneInv, Reject
  <1>3. CASE \/ RejectEmpty \/ RejectGap \/ RejectEdgeColon \/ RejectToken
             \/ RejectQuad \/ RejectHextet \/ RejectLength
    BY <1>2, <1>3, Zenon DEF RejectEmpty, RejectGap, RejectEdgeColon, RejectToken,
                             RejectQuad, RejectHextet, RejectLength
  <1>4. CASE StartHead
    <2>1. PICK i \in Gaps : TRUE
      BY <1>4 DEF StartHead, IsFirstGap
    <2>2. i \in Int /\ ColonAt(i)
      BY <1>1, <2>1 DEF Gaps, GapAt
    <2> QED BY <1>4, <2>2, NoColonAt DEF StartHead
  <1>5. CASE StartWhole
    BY <1>5 DEF LoneInv, StartWhole
  <1>6. CASE EnterGroups
    BY <1>6 DEF LoneInv, EnterGroups, place
  <1>14. CASE ScanToken
    BY <1>14 DEF LoneInv, ScanToken, place
  <1>7. CASE StartToken
    <2>1. pc' \in {"quad", "hextet"} /\ tokenEnd' = tokenEnd /\ ScanEnds
      BY <1>7 DEF StartToken
    <2>2. tokenEnd = RunEnd
      BY <1>7, <2>1, NoColonAt DEF IInv, TypeOK, ScanEnds, StartToken
    <2> QED BY <1>7, <2>1, <2>2, SameRun DEF LoneInv, StartToken, place
  <1>8. CASE QuadDigit \/ QuadDot \/ HextetDigit
    BY <1>8, SameRun DEF LoneInv, QuadDigit, QuadDot, HextetDigit, place
  <1>9. CASE EndQuad
    BY <1>9 DEF LoneInv, EndQuad, place
  <1>10. CASE EndHextet
    <2>1. filled = 0 /\ tokenEnd = RunEnd /\ group = "whole" /\ result # "accepted"
      BY <1>10 DEF LoneInv, EndHextet
    <2>2. pc' = "produced" /\ result' = result /\ filled' = filled + 2 /\ group' = group
      BY <1>10, <2>1 DEF EndHextet, NextToken, place
    <2> QED BY <2>1, <2>2 DEF LoneInv
  <1>11. CASE StartTail
    BY <1>11 DEF LoneInv, StartTail
  <1>12. CASE Output
    BY <1>12 DEF LoneInv, Output, Accepts
  <1>13. CASE UNCHANGED vars
    BY <1>13, SameRun DEF LoneInv, vars, place, token
  <1> QED BY <1>3, <1>4, <1>5, <1>6, <1>7, <1>8, <1>9, <1>10, <1>11, <1>12, <1>13,
             <1>14, Zenon DEF Next

----------------------------------------------------------------------------
\* What parse_ipv6_scalar makes of it (165-227): it stores the address that the
\* text is of, and takes no other text.
ReadsGroups ==
  Quadless(input) =>
    /\ result = "accepted" => out \in GroupMeaning(input)
    /\ result = "rejected" => GroupMeaning(input) = {}

LEMMA AllAreRead ==
  ASSUME IInv, RInv, LoneInv
  PROVE  ReadsGroups
<1>1. CASE ~Dotted(input)
  BY <1>1 DEF RInv, DotlessRead, ReadsGroups
<1>2. CASE ColonsOf(input) = {}
  BY <1>2, InputIsText, ColonsAreMeant DEF IInv, LoneInv, ReadsGroups
<1> QED BY <1>1, <1>2 DEF Quadless, ReadsGroups

\* parse_ipv6_scalar is right about every text without a dot or without a colon,
\* of any length (165-227): it accepts the eight groups of one to four hexadecimal
\* digits and the at most seven around one "::", and nothing else, and stores
\* their bytes.
THEOREM GroupsAreRead == Spec => []ReadsGroups
  <1>1. IInv /\ RInv /\ LoneInv => ReadsGroups
    BY AllAreRead
  <1> QED
    BY <1>1, Invariance, InitRInv, NextRInv, InitLoneInv, NextLoneInv, PTL DEF Spec

----------------------------------------------------------------------------
(* The contract of the library's parsers, for the addresses of groups.     *)

Reference == INSTANCE Parser WITH Meaning <- GroupMeaning

\* A call has answered when it returns, and not before.
Pending == pc # "returned" => result = "pending"

\* A step stores nothing for the caller unless it accepts.
LEMMA StepKinds ==
  ASSUME [Next]_vars
  PROVE  \/ /\ UNCHANGED <<input, result, out>>
            /\ pc' # "returned" => pc # "returned"
         \/ /\ pc # "returned" /\ pc' = "returned" /\ UNCHANGED <<input, out>>
            /\ result' = "rejected"
         \/ /\ pc # "returned" /\ pc' = "returned" /\ input' = input
            /\ result' = "accepted"
<1>1. CASE \/ RejectEmpty \/ RejectGap \/ RejectEdgeColon \/ RejectToken
           \/ RejectQuad \/ RejectHextet \/ RejectLength
  BY <1>1 DEF RejectEmpty, RejectGap, RejectEdgeColon, RejectToken, RejectQuad, RejectHextet,
              RejectLength, Reject
<1>2. CASE StartHead \/ StartWhole \/ EnterGroups \/ ScanToken \/ StartToken \/ StartTail
  BY <1>2 DEF StartHead, StartWhole, EnterGroups, ScanToken, StartToken, StartTail
<1>3. CASE QuadDigit \/ QuadDot \/ EndQuad \/ HextetDigit
  BY <1>3 DEF QuadDigit, QuadDot, EndQuad, HextetDigit
<1>4. CASE EndHextet
  <2>1. pc = "hextet" /\ UNCHANGED <<input, out>>
    BY <1>4 DEF EndHextet
  <2>2. \/ pc' # "returned" /\ result' = result
        \/ pc' = "returned" /\ result' = "rejected"
    BY <1>4 DEF EndHextet, NextToken
  <2> QED BY <2>1, <2>2
<1>5. CASE Output
  BY <1>5 DEF Output
<1>6. CASE UNCHANGED vars
  BY <1>6 DEF vars
<1> QED BY <1>1, <1>2, <1>3, <1>4, <1>5, <1>6, Zenon DEF Next

\* In every call with such a text parse_ipv6_scalar keeps the contract of Parser,
\* the addresses being those of groups: it answers once, accepts the texts that
\* are addresses and no other, stores that address, and on return 0 has left the
\* caller's bytes as they were (165-227).
THEOREM GroupReference == Spec /\ Quadless(input) => Reference!Spec
  <1>1. Init => Reference!Init /\ Pending
    BY DEF Init, Reference!Init, Pending
  <1>2. Pending /\ [Next]_vars => Pending'
    BY StepKinds DEF Pending
  <1>3. Quadless(input) /\ [Next]_vars => Quadless(input)'
    BY StepKinds
  <1>4. /\ IInv /\ RInv /\ LoneInv /\ Pending /\ Quadless(input)
        /\ [Next]_vars
        => [Reference!Next]_(Reference!parserVars)
    <2> SUFFICES ASSUME IInv, RInv, LoneInv, Pending, Quadless(input), [Next]_vars
                 PROVE  [Reference!Next]_(Reference!parserVars)
      OBVIOUS
    <2>1. ReadsGroups' /\ Quadless(input)'
      <3>1. IInv' /\ RInv' /\ LoneInv'
        BY NextIInv, NextRInv, NextLoneInv
      <3>2. IInv' /\ RInv' /\ LoneInv' => ReadsGroups'
        BY AllAreRead, PTL
      <3> QED BY <1>3, <3>1, <3>2
    <2>2. CASE UNCHANGED <<input, result, out>>
      BY <2>2 DEF Reference!parserVars
    <2>3. CASE /\ pc # "returned" /\ UNCHANGED <<input, out>>
               /\ result' = "rejected"
      <3>1. result = "pending" /\ GroupMeaning(input) = {}
        BY <2>1, <2>3 DEF Pending, ReadsGroups
      <3> QED BY <2>3, <3>1 DEF Reference!Next, Reference!Refuse
    <2>4. CASE pc # "returned" /\ input' = input /\ result' = "accepted"
      <3>1. result = "pending" /\ out' \in GroupMeaning(input)
        BY <2>1, <2>4 DEF Pending, ReadsGroups
      <3> QED BY <2>4, <3>1 DEF Reference!Next, Reference!Accept
    <2> QED BY <2>2, <2>3, <2>4, StepKinds
  <1> QED
    BY <1>1, <1>2, <1>3, <1>4, Invariance, InitRInv, NextRInv, InitLoneInv,
       NextLoneInv, PTL DEF Spec, Reference!Spec

=============================================================================
