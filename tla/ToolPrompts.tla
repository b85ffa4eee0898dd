---------------------------- MODULE ToolPrompts ----------------------------
(***************************************************************************)
(* What the proxy adds to the messages of a request with tools              *)
(* (src/src/tools.rs, tool_emulated_messages in src/src/http.rs).           *)
(*                                                                         *)
(* A message has a role and a content, a sequence of pieces; a prompt is    *)
(* one piece, which holds what its wording depends on.                      *)
(***************************************************************************)
EXTENDS ToolContext, SequencesExt

CONSTANTS
  CorrectionLimit,   \* CORRECTION_INVALID_OUTPUT_MAX_BYTES
  Cut                \* the mark behind a text that was cut

\* The model id as the sequence of its parts, in lower case.
PromptFormat(model) ==
  CASE "glm" \in Range(model)  -> "glm_xml"
    [] "qwen" \in Range(model) -> "qwen_xml"
    [] OTHER                   -> "hermes_json"

Controller(request) ==
  [ prompt   |-> "controller",
    format   |-> PromptFormat(request.model),
    required |-> RequireToolCall(request.tool_choice),
    tools    |-> Offered(request.tools, request.tool_choice) ]

\* truncate_at_char_boundary, between whole words
Truncated(text) ==
  IF Len(text) <= CorrectionLimit THEN text ELSE Append(SubSeq(text, 1, CorrectionLimit), Cut)

\* failure: what was wrong with the last answer, and the answer
Correction(request, failure) ==
  [ prompt |-> "correction",
    format |-> PromptFormat(request.model),
    error  |-> failure.error,
    output |-> Truncated(failure.output),
    tools  |-> Offered(request.tools, request.tool_choice) ]

IsSystem(message) == message.role = "system"

\* Wrong variant: what the client's own system prompt says is replaced.
ReplaceSystemMessage(messages, content) ==
  IF \E m \in Range(messages) : IsSystem(m)
  THEN [messages EXCEPT ![SelectInSeq(messages, IsSystem)].content = content]
  ELSE <<[role |-> "system", content |-> content]>> \o messages

\* The first system message takes the content, a new one if there is none.
AppendToSystemMessage(messages, content) ==
  IF \E m \in Range(messages) : IsSystem(m)
  THEN [messages EXCEPT ![SelectInSeq(messages, IsSystem)].content = @ \o content]
  ELSE <<[role |-> "system", content |-> content]>> \o messages

\* The messages of an attempt.  correction: the failure to mention, if there is one,
\* as a sequence of it.
EmulatedMessages(request, correction) ==
  LET corrections == [n \in DOMAIN correction |-> Correction(request, correction[n])]
  IN  AppendToSystemMessage(request.messages, <<Controller(request)>> \o corrections)

=============================================================================
