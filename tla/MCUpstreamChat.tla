--------------------------- MODULE MCUpstreamChat ---------------------------
(***************************************************************************)
(* A small instance of UpstreamChat for TLC: bodies that differ from a      *)
(* plain one in a field or in their messages, with tools and without.       *)
(***************************************************************************)
EXTENDS UpstreamChat

CONSTANTS w, u, High, On, Schema, Proxy, Old, New, Wrong

MCSize(text) == IF text = NotText THEN 1 ELSE Len(text)
MCShapeOK(schema) == schema = Schema
MCEnclaves == {Old, New}
MCWords == {w, u}
MCAnswers == {<< >>, <<w, u>>}
MCFaults == {Wrong}

Message(role, content) == [role |-> role, content |-> content]
Text(words) == [text |-> words]
Parts(parts) == [parts |-> parts]

Tool(name) == [name |-> name, schema |-> Schema]
Args(value, spaced) == [value |-> value, spaced |-> spaced]
ToolCall(id, arguments) == [id |-> id, type |-> "function", name |-> <<"f">>, arguments |-> arguments]
Calls == <<ToolCall(<<"&", "1">>, Args(w, TRUE)), ToolCall(<<"\"">>, Args(u, FALSE))>>

ToolResultOf(id, content) == [role |-> "tool", tool_call_id |-> id, content |-> content]
Assistant(content, calls) == [role |-> "assistant", content |-> content, tool_calls |-> calls]

Accepted ==
  { Message("user", Text(<<w>>)), Message("system", Text(<<u>>)), Message("developer", Text(<< >>)),
    Message("user", Parts(<< <<w, u>>, << >>, <<w>> >>)), Message("assistant", Parts(<< <<u>>, <<w>> >>)),
    Assistant(Null, Calls), Assistant(Text(<<w>>), Calls), Assistant(Text(<< >>), Calls),
    [role |-> "assistant", tool_calls |-> <<Calls[1]>>],
    ToolResultOf(<<"<", "a", ">">>, Text(<<w, u>>)) }

Refused ==
  { Misfit, Message("user", Null), Message("user", Misfit), Message("user", Parts(<< >>)),
    Message("user", Parts(<< <<w>>, Misfit >>)), Message("function", Text(<<w>>)), Message(Blank, Text(<<w>>)),
    [role |-> "user"], [role |-> "user", content |-> Text(<<w>>), name |-> u],
    Message("assistant", Text(<< >>)), Message("assistant", Null),
    Assistant(Text(<<w>>), << >>), Assistant(Null, Null),
    Assistant(Null, <<ToolCall(Blank, Args(w, TRUE))>>), Assistant(Null, <<ToolCall(<<"1">>, Misfit)>>),
    ToolResultOf(Blank, Text(<<w>>)), ToolResultOf(<<"1">>, Null) }

User == Message("user", Text(<<w>>))
System == Message("system", Text(<<u>>))

Plain == [model |-> <<"qwen">>, messages |-> <<User>>]
WithTools == Plain @@ ("tools" :> <<Tool("f"), Tool("g")>>)

\* The body with one field more, or another value of it.
With(object, f, v) == (f :> v) @@ object

Fields ==
  { <<"model", Blank>>, <<"model", <<"glm", "qwen">> >>, <<"metadata", << >> >>, <<"metadata", Misfit>>, <<"n", 1>>,
    <<"stream", Null>>, <<"stream_options", << >> >>,
    <<"stream_options", [include_usage |-> FALSE]>>, <<"stream_options", [include_usage |-> Null]>>, <<"stream_options", [usage |-> TRUE]>>,
    <<"temperature", 0>>, <<"temperature", Fraction>>, <<"temperature", Null>>, <<"top_p", Misfit>>, <<"top_p", 0>>,
    <<"max_tokens", 0>>, <<"max_tokens", Fraction>>, <<"max_completion_tokens", 7>>, <<"stop", w>>, <<"stop", << >> >>, <<"stop", Misfit>>,
    <<"reasoning", [effort |-> High]>>, <<"reasoning", [enabled |-> FALSE]>>, <<"reasoning", Null>>,
    <<"reasoning_effort", High>>, <<"reasoning_effort", Null>>, <<"reasoning_effort", Blank>>,
    <<"parallel_tool_calls", FALSE>>, <<"parallel_tool_calls", Null>>,
    <<"venice_parameters", [enable_e2ee |-> TRUE, strip_thinking_response |-> TRUE]>>,
    <<"venice_parameters", [enable_e2ee |-> FALSE]>>, <<"venice_parameters", [include_venice_system_prompt |-> TRUE]>>,
    <<"venice_parameters", [enable_web_search |-> On]>>, <<"venice_parameters", [enable_web_search |-> FALSE]>>,
    <<"venice_parameters", [unheard |-> TRUE]>>,
    <<"tool_choice", NoTools>>, <<"tool_choice", Required>>, <<"tool_choice", Function("f")>>,
    <<"tool_choice", Function("h")>>, <<"tool_choice", Function(Blank)>>, <<"tool_choice", Misfit>>,
    <<"tools", Null>>, <<"tools", << >> >>, <<"tools", <<Tool("f"), Tool("f")>> >>, <<"tools", <<[Tool("f") EXCEPT !.schema = Null]>> >> }

Conversations ==
  {<<m>> : m \in Accepted \cup Refused}
    \cup {<<m, n>> : m \in {User, System}, n \in Accepted \cup {Misfit}}
    \cup {<<m, System, n>> : m \in {User}, n \in {System, Assistant(Text(<<w>>), Calls)}}

Disagreeing == With(With(Plain, "reasoning", [effort |-> High]), "reasoning_effort", On)

MCBodies ==
  LET base == { With(object, "messages", messages) : object \in {Plain, WithTools}, messages \in Conversations}
                \cup {With(object, f[1], f[2]) : object \in {Plain, WithTools}, f \in Fields}
                \cup {Disagreeing}
  IN  {Misfit, With(Plain, "stream", Misfit), With(Plain, "messages", << >>), With(Plain, "messages", Misfit)}
        \cup base
        \cup {With(object, "stream", TRUE) : object \in {Plain, WithTools, With(WithTools, "messages", <<System, User>>),
                                                      With(WithTools, "tool_choice", Function("f"))}}

MCConfigs ==
  [instance : {TRUE}, tools : [enabled : {TRUE}, validate : {TRUE}]]
    \cup {[instance |-> FALSE, tools |-> [enabled |-> TRUE, validate |-> TRUE]],
          [instance |-> TRUE, tools |-> [enabled |-> FALSE, validate |-> TRUE]]}

=============================================================================
