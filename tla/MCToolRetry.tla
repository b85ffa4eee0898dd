---------------------------- MODULE MCToolRetry ----------------------------
(***************************************************************************)
(* A small instance of ToolRetry for TLC: "c" makes a text a valid call,    *)
(* "x" an invalid one, "w" takes two bytes.                                 *)
(***************************************************************************)
EXTENDS ToolRetry

MCSymbol == {"a", "w", "c", "x"}
MCWide == {"w"}
MCReasons == {"stop", "length", "tool_calls"}

Contains(text, symbol) == \E n \in DOMAIN text : text[n] = symbol
MCUnparsable(text) == Contains(text, "x")
MCHasCalls(text) == Contains(text, "c")

Chunk(index, content, reasoning, finish) ==
  [index |-> index, content |-> content, reasoning |-> reasoning, finish |-> finish]

MCChoices ==
  { Chunk(0, <<"a">>, None, None),
    Chunk(0, <<"w", "w">>, None, "length"),
    Chunk(0, <<"c">>, <<"a">>, None),
    Chunk(0, <<"x">>, None, "stop"),
    Chunk(0, None, None, "stop"),
    Chunk(1, <<"a">>, None, None),
    Chunk(Malformed, None, None, None) }

=============================================================================
