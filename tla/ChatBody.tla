------------------------------ MODULE ChatBody ------------------------------
(***************************************************************************)
(* From the body of a chat request to the request for the upstream, before  *)
(* encryption (src/src/openai/chat.rs).                                     *)
(*                                                                         *)
(* A JSON object is a function on its fields, whatever they are: DOMAIN     *)
(* tells which are there.  Of a value the code asks for its kind and        *)
(* whether a text is blank, so that Misfit stands for any value of a wrong  *)
(* kind, Blank for any text of white space only, and Fraction for a number  *)
(* that is no unsigned 64-bit integer.  A text is a sequence of words, an   *)
(* identifier one of characters.  Where serde reads a struct from an array, *)
(* the object stands for both.                                              *)
(***************************************************************************)
EXTENDS Naturals, SequencesExt

CONSTANTS Null, Misfit, Blank, Fraction, Absent, Off

Fine == "ok"

\* The first of two checks that fails.
a ?? b == IF a = Fine THEN b ELSE a

Check(holds, code) == IF holds THEN Fine ELSE code

Field(object, f) == IF f \in DOMAIN object THEN object[f] ELSE Absent

Known(object, fields) == Check(DOMAIN object \subseteq fields, "unsupported_request_field")

(* Kinds of values. *)

RequiredText(v) == v \notin {Absent, Null, Misfit, Blank}
OptionalText(v) == v \notin {Misfit, Blank}
OptionalBool(v) == v \in BOOLEAN \/ v = Absent
OptionalNumber(v) == v \notin {Misfit, Blank}
OptionalU64(v) == v \in Nat \/ v \in {Absent, Null}
OptionalStop(v) == v # Misfit

Struct(v, fields) == v \notin {Null, Misfit} /\ DOMAIN v \subseteq fields

(* Options of the request. *)

StreamOptionsOK(v) ==
  v # Absent => Struct(v, {"include_usage"}) /\ OptionalBool(Field(v, "include_usage"))

ReasoningOK(v) ==
  v # Absent => /\ Struct(v, {"enabled", "effort"})
                /\ OptionalBool(Field(v, "enabled"))
                /\ Field(v, "effort") \notin {Null, Misfit, Blank}

EffortsAgree(reasoning, effort) ==
  \/ reasoning = Absent \/ Field(reasoning, "effort") = Absent
  \/ effort \in {Absent, Null}
  \/ effort = reasoning.effort

ToolsOK(v) ==
  v # Absent => /\ v \notin {Null, Misfit}
                /\ \A n \in DOMAIN v : v[n] # Misfit /\ v[n].name # Blank

ToolChoiceOK(v) ==
  v \notin {Absent, Null} => v # Misfit /\ ("function" \in DOMAIN v => v.function # Blank)

PassthroughOK(body) ==
  /\ OptionalNumber(Field(body, "temperature")) /\ OptionalNumber(Field(body, "top_p"))
  /\ OptionalU64(Field(body, "max_tokens")) /\ OptionalU64(Field(body, "max_completion_tokens"))
  /\ OptionalStop(Field(body, "stop"))

VeniceSwitches ==
  {"enable_e2ee", "include_venice_system_prompt", "strip_thinking_response", "disable_thinking"}

VeniceReadable(v) ==
  /\ Struct(v, VeniceSwitches \cup {"enable_web_search"})
  /\ \A f \in VeniceSwitches : OptionalBool(Field(v, f))
  /\ Field(v, "enable_web_search") \notin {Null, Misfit}

VeniceAllowed(v) ==
  /\ Field(v, "enable_e2ee") # FALSE
  /\ Field(v, "include_venice_system_prompt") # TRUE
  /\ LET search == Field(v, "enable_web_search") IN search = Absent \/ search = Off \/ search = FALSE

VeniceError(v) ==
  IF v = Absent THEN Fine
  ELSE Check(VeniceReadable(v), "invalid_request") ?? Check(VeniceAllowed(v), "unsupported_venice_parameter")

\* What passes, with the defaults.
VeniceParameters(v) ==
  LET set(f) == v # Absent /\ Field(v, f) = TRUE
  IN  [ enable_e2ee                  |-> TRUE,
        include_venice_system_prompt |-> FALSE,
        strip_thinking_response      |-> set("strip_thinking_response"),
        disable_thinking             |-> set("disable_thinking"),
        enable_web_search            |-> Off ]

(* Messages. *)

ContentError(v, required) ==
  LET refused == "unsupported_message_content"
  IN  IF v \in {Absent, Null} THEN Check(~required, refused)
      ELSE IF v = Misfit THEN refused
      ELSE IF "parts" \in DOMAIN v THEN Check(v.parts # << >> /\ Misfit \notin Range(v.parts), refused)
      ELSE Fine

Joined(texts) == FoldLeft(LAMBDA a, b : a \o b, << >>, texts)

\* Wrong variant: a new part replaces those before it.
LastPart(v) ==
  IF v \in {Absent, Null} THEN Absent ELSE IF "parts" \in DOMAIN v THEN v.parts[Len(v.parts)] ELSE v.text

ContentText(v) ==
  IF v \in {Absent, Null} THEN Absent ELSE IF "parts" \in DOMAIN v THEN Joined(v.parts) ELSE v.text

ToolCallOK(call) ==
  /\ call # Misfit
  /\ call.id # Blank /\ call.name # Blank /\ call.type = "function"
  /\ call.arguments \notin {Blank, Misfit}

ToolCallsOK(v) ==
  v # Absent => v \notin {Null, Misfit, << >>} /\ \A n \in DOMAIN v : ToolCallOK(v[n])

\* Characters that would end an attribute, as entities of one symbol.
Entity(c) ==
  CASE c = "&" -> "&amp;" [] c = "<" -> "&lt;" [] c = ">" -> "&gt;" [] c = "\"" -> "&quot;" [] OTHER -> c

Escaped(id) == [n \in DOMAIN id |-> Entity(id[n])]

\* JSON text as the serializer writes it.
Canonical(arguments) == [arguments EXCEPT !.spaced = FALSE]

Rendered(calls) ==
  [n \in DOMAIN calls |-> [ call      |-> Escaped(calls[n].id),
                            name      |-> Escaped(calls[n].name),
                            arguments |-> Canonical(calls[n].arguments) ]]

MessageFields(role) ==
  CASE role = "assistant" -> {"role", "content", "tool_calls"}
    [] role = "tool"      -> {"role", "content", "tool_call_id"}
    [] OTHER              -> {"role", "content"}

AssistantError(m) ==
  LET content == Field(m, "content")
  IN  ContentError(content, FALSE)
        ?? Check(ToolCallsOK(Field(m, "tool_calls")), "invalid_tool_call_history")
        ?? Check(ContentText(content) \notin {Absent, << >>} \/ "tool_calls" \in DOMAIN m, "invalid_request")

ToolResultError(m) ==
  Check(RequiredText(Field(m, "tool_call_id")), "invalid_request") ?? ContentError(Field(m, "content"), TRUE)

MessageError(m) ==
  Check(m # Misfit, "invalid_request")
    ?? Check(RequiredText(Field(m, "role")), "invalid_request")
    ?? Check(m.role \in {"system", "developer", "user", "assistant", "tool"}, "unsupported_message_role")
    ?? Known(m, MessageFields(m.role))
    ?? CASE m.role = "assistant" -> AssistantError(m)
         [] m.role = "tool"      -> ToolResultError(m)
         [] OTHER                -> ContentError(Field(m, "content"), TRUE)

\* The message that fails first decides.
MessagesError(v) ==
  IF v \in {Absent, Null, Misfit, << >>} THEN "invalid_request"
  ELSE LET failing == {n \in DOMAIN v : MessageError(v[n]) # Fine}
       IN  IF failing = {} THEN Fine ELSE MessageError(v[Min(failing)])

\* An empty content hides the calls next to it.
AssistantText(m) ==
  LET text == ContentText(Field(m, "content"))
  IN  IF "tool_calls" \notin DOMAIN m \/ text = << >> THEN text
      ELSE IF text = Absent THEN Rendered(m.tool_calls)
      ELSE text \o Rendered(m.tool_calls)

\* A tool's result becomes a message of the user.
ToolResult(m) == << [result |-> Escaped(m.tool_call_id), text |-> ContentText(m.content)] >>

NormalizeMessage(m) ==
  CASE m.role = "assistant" -> [role |-> m.role, content |-> AssistantText(m)]
    [] m.role = "tool"      -> [role |-> "user", content |-> ToolResult(m)]
    [] OTHER                -> [role |-> m.role, content |-> ContentText(m.content)]

NormalizeMessages(v) == [n \in DOMAIN v |-> NormalizeMessage(v[n])]

(* The request. *)

PassthroughFields == {"temperature", "top_p", "max_tokens", "max_completion_tokens", "stop"}

RequestFields ==
  PassthroughFields \cup
    {"model", "messages", "stream", "stream_options", "reasoning", "reasoning_effort", "tools",
     "tool_choice", "parallel_tool_calls", "metadata", "venice_parameters"}

\* The first reason to refuse the body.
RequestError(body) ==
  LET given(f) == Field(body, f)
      valid(holds) == Check(holds, "invalid_request")
  IN  valid(body # Misfit)
        ?? Known(body, RequestFields)
        ?? valid(given("metadata") # Misfit)
        ?? valid(RequiredText(given("model")))
        ?? MessagesError(given("messages"))
        ?? valid(OptionalBool(given("stream")))
        ?? valid(StreamOptionsOK(given("stream_options")))
        ?? VeniceError(given("venice_parameters"))
        ?? valid(PassthroughOK(body))
        ?? valid(ReasoningOK(given("reasoning")))
        ?? valid(OptionalText(given("reasoning_effort")))
        ?? valid(EffortsAgree(given("reasoning"), given("reasoning_effort")))
        ?? valid(ToolsOK(given("tools")))
        ?? valid(ToolChoiceOK(given("tool_choice")))
        ?? valid(OptionalBool(given("parallel_tool_calls")))

Default(v, d) == IF v \in {Absent, Null} THEN d ELSE v

\* The fields that are there and not null.
Present(body, fields) == {f \in fields \cap DOMAIN body : body[f] # Null}

\* Wrong variant: a zero is taken for no value.
NonZero(body) ==
  [f \in {g \in Present(body, PassthroughFields) : g = "stop" \/ body[g] # 0} |-> body[f]]

Passthrough(body) == [f \in Present(body, PassthroughFields) |-> body[f]]

\* ChatCompletionRequest of a body that is not refused.
Request(body) ==
  LET given(f) == Field(body, f)
  IN  [ model             |-> body.model,
        messages          |-> NormalizeMessages(body.messages),
        stream            |-> Default(given("stream"), FALSE),
        stream_options    |-> Default(given("stream_options"), << >>),
        venice_parameters |-> VeniceParameters(given("venice_parameters")),
        passthrough       |-> Passthrough(body),
        reasoning         |-> given("reasoning"),
        reasoning_effort  |-> Default(given("reasoning_effort"), Absent),
        tools             |-> Default(given("tools"), << >>),
        tool_choice       |-> Default(given("tool_choice"), [mode |-> "auto"]) ]

\* VeniceE2eeChatRequest but for its messages.
Settings(request) ==
  LET own == [ model             |-> request.model,
               stream            |-> TRUE,
               stream_options    |-> [include_usage |-> Default(Field(request.stream_options, "include_usage"), TRUE)],
               venice_parameters |-> request.venice_parameters ]
      optional == {f \in {"reasoning", "reasoning_effort"} : request[f] # Absent}
      fields   == DOMAIN own \cup DOMAIN request.passthrough \cup optional
  IN  [f \in fields |-> IF f \in DOMAIN own THEN own[f]
                        ELSE IF f \in optional THEN request[f]
                        ELSE request.passthrough[f]]

=============================================================================
