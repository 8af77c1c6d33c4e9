------------------------------- MODULE Ascii -------------------------------
(***************************************************************************)
(* The bytes of a text, and the character tests of include/ada_ip.h.       *)
(* A text is a sequence of bytes; At(t, i) is the C expression t[i].       *)
(***************************************************************************)
EXTENDS Integers, Sequences

\* The values of the unsigned C types of one and of two bytes.
Byte == {n \in Nat : n < 256}
Word == {n \in Nat : n < 65536}

Colon == 58         \* ':'
Dot == 46           \* '.'
Zero == 48          \* '0'

At(t, i) == t[i + 1]

----------------------------------------------------------------------------
\* ada_is_digit
IsDigit(c) == c \in 48..57

\* ada_is_ascii_hex_digit
IsHexDigit(c) == IsDigit(c) \/ c \in 97..102 \/ c \in 65..70

\* c | 0x20
SetBit5(c) == IF (c \div 32) % 2 = 1 THEN c ELSE c + 32

\* ada_convert_hex_to_binary: meaningful for hexadecimal digits only.
HexToBinary(c) == IF IsDigit(c) THEN c - 48 ELSE SetBit5(c) - 97 + 10

=============================================================================
