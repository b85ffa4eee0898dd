---------------------------- MODULE ToolContext ----------------------------
(***************************************************************************)
(* What a request makes of tool emulation, before anything is sent          *)
(* (ToolEmulationContext::from_request, src/src/tools.rs).                  *)
(*                                                                         *)
(* A configuration has enabled (emulation is enabled and its mode is not    *)
(* none) and validate (validate_json_schema); tools is a sequence of        *)
(* [name, schema]; a choice is a mode or the name of a function, as it      *)
(* stands in the request.                                                   *)
(***************************************************************************)
EXTENDS Sequences, Functions

Automatic == [mode |-> "auto"]
NoTools == [mode |-> "none"]
Required == [mode |-> "required"]
Function(name) == [function |-> name]

ToolChoices(names) == {Automatic, NoTools, Required} \cup {Function(name) : name \in names}

Names(tools) == {tools[i].name : i \in DOMAIN tools}

\* The request is answered without emulation.
IsPlain(config, tools, choice) ==
  \/ ~config.enabled
  \/ choice = NoTools
  \/ tools = << >> /\ choice = Automatic

\* The request asks for emulation and cannot have it.  shapesOK: the schemas of its tools
\* have the supported shape.
IsRefused(config, tools, choice, shapesOK) ==
  /\ ~IsPlain(config, tools, choice)
  /\ \/ tools = << >>
     \/ \E i, k \in DOMAIN tools : i # k /\ tools[i].name = tools[k].name
     \/ config.validate /\ ~shapesOK
     \/ choice \notin {Automatic, Required} \cup {Function(name) : name \in Names(tools)}

Offered(tools, choice) ==
  {tool \in Range(tools) : choice \in {Automatic, Required, Function(tool.name)}}

RequireToolCall(choice) == choice # Automatic

=============================================================================
