-------------------------- MODULE CompletionBuffer --------------------------
(***************************************************************************)
(* A whole answer put together from upstream events, for a client that does *)
(* not stream (OpenAiChatCompletionBuffer, src/src/http.rs).  Each operator *)
(* says when it fails and otherwise what buffer it leaves.                  *)
(*                                                                         *)
(* A choice is one upstream chunk after decryption: an empty or missing     *)
(* encrypted field is None, and a field that is there may decrypt to the    *)
(* empty text.  The id, time and model of the answer are left out.          *)
(***************************************************************************)
EXTENDS ChatText

CONSTANTS
  Malformed,           \* a choice index that is not a non-negative integer
  RequireEncrypted     \* e2ee.require_encrypted_response_content

ASSUME CompletionAssumption ==
  /\ RequireEncrypted \in BOOLEAN
  /\ None \notin Nat \cup {Malformed}
  /\ Malformed \notin Nat

Choice ==
  [ index     : Nat \cup {Malformed},
    content   : Seq(Symbol) \cup {None},
    reasoning : Seq(Symbol) \cup {None},
    finish    : Reasons \cup {None} ]

Buffer ==
  [ index     : Nat \cup {None},   \* choice_index
    encrypted : BOOLEAN,           \* saw_encrypted_response_field
    content   : Seq(Symbol),
    reasoning : Seq(Symbol),
    finish    : Reasons \cup {None},
    usage     : BOOLEAN ]

NewBuffer ==
  [ index |-> None, encrypted |-> FALSE, content |-> << >>, reasoning |-> << >>,
    finish |-> None, usage |-> FALSE ]

\* Wrong variant: the index is compared with the first one but not validated.
AcceptsAnyIndex(buffer, choice) == buffer.index \in {None, Malformed, choice.index}

Accepts(buffer, choice) ==
  /\ choice.index # Malformed
  /\ buffer.index \in {None, choice.index}

Add(buffer, choice) ==
  [ buffer EXCEPT
      !.index = choice.index,
      !.encrypted = @ \/ choice.content # None \/ choice.reasoning # None,
      !.content = @ \o TextOf(choice.content),
      !.reasoning = @ \o TextOf(choice.reasoning),
      !.finish = IF choice.finish = None THEN @ ELSE choice.finish ]

AddUsage(buffer) == [buffer EXCEPT !.usage = TRUE]

\* [DONE]: an answer without any encrypted field is refused if one is required.
Complete(buffer) == RequireEncrypted => buffer.encrypted

Completion(buffer) ==
  [buffer EXCEPT !.finish = IF @ = None THEN "stop" ELSE @]

=============================================================================
