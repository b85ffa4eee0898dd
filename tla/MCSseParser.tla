---------------------------- MODULE MCSseParser ----------------------------
(***************************************************************************)
(* A small instance of SseParser for TLC.  The first byte of a line is its  *)
(* field, the others are its value: "d" data, "e" event, "i" id or retry,   *)
(* ":" a comment, anything else unsupported.  "D" as data is [DONE], "r" is *)
(* data that cannot be used.                                                *)
(***************************************************************************)
EXTENDS SseParser

MCField(line) ==
  CASE line[1] = "d" -> "data"
    [] line[1] = "e" -> "event"
    [] line[1] = "i" -> "other"
    [] line[1] = ":" -> "comment"
    [] OTHER         -> "unsupported"

MCValue(line) == IF line = <<"e", "!">> THEN ErrorType ELSE Tail(line)

MCPayload(data) ==
  CASE data = <<<<"D">>>> -> "done"
    [] data = <<<<"r">>>> -> "refused"
    [] OTHER              -> "chunk"

Event(line) == line \o <<"lf", "lf">>

\* What wires are made of.
Pieces == { <<"d", "x">>, <<"d">> \o <<"hi", "lo">>, <<"e", "!">>, <<"?">>, <<"i">>,
            <<"cr">>, <<"lf">>, <<"cr", "lf">>, <<"cr", "lf", "cr", "lf">>,
            Event(<<"d", "x">>), Event(<<"d", "D">>), Event(<<"d", "r">>), Event(<<":">>),
            Event(<<"?">>) }

MCWires == {a \o b \o c : a \in Pieces, b \in Pieces, c \in Pieces}

=============================================================================
