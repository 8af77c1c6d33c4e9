------------------------------- MODULE Parser -------------------------------
(***************************************************************************)
(* What every parser of the library promises: a call                       *)
(*     int parse(const char *input, size_t len, T *out)                    *)
(* answers once; it accepts exactly the texts that denote an address, then *)
(* leaves that address in the caller's buffer, and otherwise leaves the    *)
(* buffer as it was.  Meaning(t) is the set of the addresses t denotes: it *)
(* has one element or none.                                                *)
(***************************************************************************)
CONSTANTS Texts,        \* the inputs of a call
          OutBefore,    \* the caller's buffer before the call
          Meaning(_)    \* the set of the addresses a text denotes

VARIABLES input, result, out

parserVars == <<input, result, out>>

Init ==
  /\ input \in Texts
  /\ result = "pending"
  /\ out = OutBefore

Accept ==
  /\ result = "pending"
  /\ result' = "accepted"
  /\ out' \in Meaning(input)
  /\ UNCHANGED input

Refuse ==
  /\ result = "pending"
  /\ result' = "rejected"
  /\ Meaning(input) = {}
  /\ UNCHANGED <<input, out>>

Next == Accept \/ Refuse

Spec == Init /\ [][Next]_parserVars

=============================================================================
