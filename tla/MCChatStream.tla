---------------------------- MODULE MCChatStream ----------------------------
(***************************************************************************)
(* A small instance of ChatStream for TLC: every shape of a choice, with    *)
(* two indexes and one that is malformed, two finish reasons, and a field   *)
(* that decrypts to the empty text.                                         *)
(***************************************************************************)
EXTENDS ChatStream

MCSymbol == {"a", "b"}
MCReasons == {"stop", "length", "tool_calls"}

MCChoices ==
  [ index     : {0, 1, Malformed},
    content   : {<<"a">>, << >>, None},
    reasoning : {<<"b">>, None},
    finish    : {"stop", "length", None} ]

=============================================================================
