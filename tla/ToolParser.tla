----------------------------- MODULE ToolParser -----------------------------
(***************************************************************************)
(* The parser of tool calls that are JSON between markers                   *)
(* (src/src/vllm_tool_parser/json), for its two formats, "hermes" and       *)
(* "qwen".  It reads what it is pushed, keeps what it cannot decide yet and *)
(* returns the calls it has read.                                           *)
(*                                                                         *)
(* A text is a sequence of tokens: "open" and "close" are the markers, "cut"*)
(* is a closing marker that breaks off, after its "<" or later, "tag" is    *)
(* anything else that begins with "<", "nl" is white space, { } [ ] and     *)
(* "quote" are themselves and "escaped" is \".  A token in DOMAIN Header is *)
(*   {"name": ..., "arguments":                                             *)
(* and "half" is the beginning of one; "string" opens a member whose value  *)
(* is a string.  All other tokens are whole as far as JSON's lexical rules  *)
(* go.                                                                      *)
(***************************************************************************)
EXTENDS Integers, SequencesExt

CONSTANT Header   \* header tokens |-> the name in them

ASSUME HeaderAssumption ==
  DOMAIN Header \cap {"open", "close", "cut", "tag", "nl", "{", "}", "[", "]", "quote", "escaped", "half", "string"} = {}

\* How many tokens of white space text begins with.
Blanks(text) == SelectInSeq(text \o <<"end">>, LAMBDA t : t # "nl") - 1

From(text, n) == SubSeq(text, n, Len(text))

(* The lexical state of an arguments object. *)

NewScan == [phase |-> "initial", objects |-> 0, arrays |-> 0, inString |-> FALSE]

Scan(s, t) ==
  IF s.phase \in {"complete", "failed"} THEN s
  ELSE IF s.phase = "initial" THEN
    IF t = "{" THEN [s EXCEPT !.phase = "scanning", !.objects = 1] ELSE [s EXCEPT !.phase = "failed"]
  ELSE IF s.inString THEN [s EXCEPT !.inString = t \notin {"quote", "string"}]
  ELSE IF t \in {"quote", "escaped", "string"} THEN [s EXCEPT !.inString = TRUE]
  ELSE IF t \in DOMAIN Header \cup {"{", "half"} THEN [s EXCEPT !.objects = @ + 1]
  ELSE IF t = "}" THEN
    [s EXCEPT !.objects = @ - 1,
              !.phase = IF s.objects > 1 THEN @ ELSE IF s.arrays = 0 THEN "complete" ELSE "failed"]
  ELSE IF t = "[" THEN [s EXCEPT !.arrays = @ + 1]
  ELSE IF t # "]" THEN s
  ELSE IF s.arrays = 0 THEN [s EXCEPT !.phase = "failed"]
  ELSE [s EXCEPT !.arrays = @ - 1]

Scanned(s, text) == FoldLeft(Scan, s, text)

\* What take_json_object takes: up to the end of the object, or all there is.
Taken(s, text) ==
  LET ends == {n \in DOMAIN text : Scanned(s, SubSeq(text, 1, n)).phase = "complete"}
  IN IF ends = {} THEN Len(text) ELSE CHOOSE n \in ends : \A m \in ends : n <= m

(* The parser. *)

NewParser(format) ==
  [format |-> format, mode |-> "text", scan |-> NewScan, buffer |-> << >>, calls |-> << >>, status |-> "ready"]

Waits(p) == [p EXCEPT !.status = "waits"]
Fails(p) == [p EXCEPT !.status = "failed"]

\* White space at a marker: "hermes" takes all there is, "qwen" exactly one token.  Is it
\* missing from text, or is text too short to tell where it ends?
Spaces(p, text) == IF p.format = "qwen" THEN 1 ELSE Blanks(text)
SpaceMissing(p, text) == p.format = "qwen" /\ text # << >> /\ Blanks(text) = 0
SpaceOpen(p, text) == IF p.format = "qwen" THEN text = << >> ELSE Blanks(text) = Len(text)

TextEvent(p) ==
  LET open == SelectInSeq(p.buffer, LAMBDA t : t = "open")
      rest == From(p.buffer, 2)
  IN IF p.buffer = << >> THEN Waits(p)
     ELSE IF open = 0 THEN [p EXCEPT !.buffer = << >>]
     ELSE IF open > 1 THEN [p EXCEPT !.buffer = From(@, open)]
     ELSE IF SpaceMissing(p, rest) \/ SpaceOpen(p, rest) THEN Waits(p)
     ELSE [p EXCEPT !.mode = "header", !.buffer = From(rest, Spaces(p, rest) + 1)]

HeaderEvent(p) ==
  LET start == Blanks(p.buffer) + 1
      rest  == From(p.buffer, start + 1)
  IN IF start > Len(p.buffer) THEN Waits(p)
     ELSE IF p.buffer[start] \notin DOMAIN Header \cup {"half"} THEN Fails(p)
     ELSE IF Blanks(rest) = Len(rest) THEN Waits(p)
     ELSE IF p.buffer[start] = "half" THEN Fails(p)
     ELSE [p EXCEPT !.mode = "arguments", !.scan = NewScan, !.buffer = From(rest, Blanks(rest) + 1),
                    !.calls = Append(@, [name |-> Header[p.buffer[start]], arguments |-> << >>])]

ArgumentsEvent(p) ==
  LET n    == Taken(p.scan, p.buffer)
      part == SubSeq(p.buffer, 1, n)
      scan == Scanned(p.scan, part)
  IN IF p.buffer = << >> THEN Waits(p)
     ELSE IF scan.phase = "failed" THEN Fails(p)
     ELSE [p EXCEPT !.scan = scan, !.buffer = From(@, n + 1), !.calls[Len(p.calls)].arguments = @ \o part]

CloseEvent(p) ==
  LET rest == From(p.buffer, 2)
      end  == From(rest, Spaces(p, rest) + 1)
  IN IF p.buffer = << >> THEN Waits(p)
     ELSE IF p.buffer[1] # "}" \/ SpaceMissing(p, rest) THEN Fails(p)
     ELSE IF SpaceOpen(p, rest) \/ end \in {<< >>, <<"cut">>} THEN Waits(p)
     ELSE IF end[1] # "close" THEN Fails(p)
     ELSE [p EXCEPT !.mode = "text", !.buffer = From(end, 2)]

NextEvent(p) ==
  IF p.mode = "text" THEN TextEvent(p)
  ELSE IF p.mode = "header" THEN HeaderEvent(p)
  ELSE IF p.scan.phase = "complete" THEN CloseEvent(p)
  ELSE ArgumentsEvent(p)

\* Every event but the last takes something off the buffer.
Run(p) ==
  LET after[n \in Nat] ==
        IF n = 0 THEN p
        ELSE LET q == after[n - 1] IN IF q.status = "ready" THEN NextEvent(q) ELSE q
  IN  after[Len(p.buffer) + 1]

Push(p, text) == Run([p EXCEPT !.buffer = @ \o text, !.status = "ready"])

\* A text may end where no call is open; what is left over is text then.
MayFinish(p) == p.status # "failed" /\ p.mode = "text"

Failure == [ok |-> FALSE, calls |-> << >>]

ParseComplete(format, text) ==
  LET p == Push(NewParser(format), text)
  IN IF MayFinish(p) THEN [ok |-> TRUE, calls |-> p.calls] ELSE Failure

=============================================================================
