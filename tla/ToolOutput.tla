----------------------------- MODULE ToolOutput -----------------------------
(***************************************************************************)
(* The verdict on a text in which the model may have written tool calls     *)
(* (classify_assistant_output, src/src/tools.rs).                           *)
(*                                                                         *)
(* Limits are in bytes, and some characters take two.  What the parsers and *)
(* the schema make of a text is a parameter.                                *)
(***************************************************************************)
EXTENDS ChatText

CONSTANTS
  Wide,             \* those that take two bytes in UTF-8
  MaxBytes,         \* tools.tool_call_max_bytes
  MaxRetries,       \* tools.max_retries
  RequireToolCall,  \* tool_choice is "required" or names a function
  Unparsable(_),    \* parsing or validation rejects the text
  HasCalls(_)       \* the text holds valid tool calls

ASSUME ToolOutputAssumption ==
  /\ Wide \subseteq Symbol
  /\ MaxBytes \in Nat \ {0}
  /\ MaxRetries \in Nat
  /\ RequireToolCall \in BOOLEAN

Bytes(text) == Len(text) + Cardinality({n \in DOMAIN text : text[n] \in Wide})

Classify(text) ==
  IF Bytes(text) > MaxBytes \/ Unparsable(text) THEN "invalid"
  ELSE IF HasCalls(text) THEN "calls"
  ELSE IF RequireToolCall THEN "invalid"
  ELSE "text"

=============================================================================
