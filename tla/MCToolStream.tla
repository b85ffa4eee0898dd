---------------------------- MODULE MCToolStream ----------------------------
(***************************************************************************)
(* Small instances of ToolStream for TLC.  The marker has three characters, *)
(* and the chunks below cut it at every place; "w" takes two bytes, "c" is  *)
(* the body of a valid call, "x" of an invalid one.                         *)
(***************************************************************************)
EXTENDS ToolStream

MCSymbol == {"a", "w", "<", "t", ">", "c", "x"}
MCWide == {"w"}
MCMarker == <<"<", "t", ">">>

Contains(text, symbol) == \E n \in DOMAIN text : text[n] = symbol
MCUnparsable(text) == Contains(text, "x")
MCHasCalls(text) == Contains(text, "c")

Choice(content, reasoning, finish) ==
  [content |-> content, reasoning |-> reasoning, finish |-> finish]

Pieces == { <<"a">>, <<"w", "<">>, <<"a", "<", "t">>, <<"t", ">", "c">>, <<">", "x">>,
            <<"<", "t", ">">>, <<"c">> }

MCChoices ==
  {Choice(piece, FALSE, None) : piece \in Pieces} \cup
  { Choice(None, TRUE, None),              \* reasoning only
    Choice(None, FALSE, "length"),         \* finish only
    Choice(<<"t">>, TRUE, None),           \* reasoning and content
    Choice(<<">", "c">>, FALSE, "stop") }  \* content and finish

MCReasons == {"stop", "length", "tool_calls"}

=============================================================================
