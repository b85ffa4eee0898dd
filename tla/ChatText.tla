------------------------------ MODULE ChatText ------------------------------
(***************************************************************************)
(* What the models of the answer path share.  A text is a sequence of       *)
(* symbols, a symbol standing for one character; finish reasons are         *)
(* strings, of which the code writes "stop" and "tool_calls" itself.        *)
(***************************************************************************)
EXTENDS Integers, Sequences, FiniteSets

CONSTANTS
  Symbol,    \* the characters of decrypted text
  Reasons,   \* the finish reasons that occur
  None       \* absent value

ASSUME ReasonAssumption ==
  /\ None \notin Reasons \cup Seq(Symbol)
  /\ {"stop", "tool_calls"} \subseteq Reasons

\* An absent field adds nothing to a text.
TextOf(field) == IF field = None THEN << >> ELSE field

=============================================================================
