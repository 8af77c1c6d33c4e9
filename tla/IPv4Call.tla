------------------------------ MODULE IPv4Call ------------------------------
(***************************************************************************)
(* A call of a parser of IPv4 texts,                                       *)
(*     int parse(const char *input, size_t len, uint32_t *out):            *)
(* its text, its answer, and the four bytes of the caller.                 *)
(***************************************************************************)
EXTENDS Ascii

CONSTANTS Texts,            \* the texts a call may be given
          OutBefore         \* the caller's four bytes before the call

ASSUME TextsAssumption == Texts \subseteq Seq(Byte)
ASSUME OutAssumption == OutBefore \in [0..3 -> Byte]

VARIABLES input, result, out

=============================================================================
