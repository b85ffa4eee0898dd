------------------------------ MODULE SseParser ------------------------------
(***************************************************************************)
(* How upstream bytes become events (src/src/http.rs): next_sse_events, the *)
(* SseEventParser and the first look at an event, classify_upstream_event.  *)
(*                                                                         *)
(* The network cuts the bytes into chunks as it likes.  All events that a   *)
(* chunk completes are parsed before the first of them is handed on to the  *)
(* transformer or the completion buffer, which take it from here.           *)
(*                                                                         *)
(* A byte is a symbol.  A line says with its first byte what it is, and     *)
(* Lead followed by Trail is the one character that takes two bytes.        *)
(***************************************************************************)
EXTENDS Integers, SequencesExt

CONSTANTS
  CR, LF,            \* line ends
  Lead, Trail,       \* the bytes of a two-byte character
  Field(_),          \* a line's field: "data", "event", "other", "comment", "unsupported"
  Value(_),          \* a line's value
  Payload(_),        \* what data is: "done", "chunk" or, if it cannot be used, "refused"
  Wires              \* what upstreams may send

ASSUME BytesAssumption == CR # LF
ASSUME WiresAssumption == \A w \in Wires : w \in Seq(ToSet(w))

ErrorType == <<"error">>     \* the value of an event field that names an error event

VARIABLES
  phase,    \* "reading", "done", "failed" or "broken"
  wire,     \* all the upstream sends
  taken,    \* how many bytes of it have arrived
  pending,  \* the parser's: the beginning of an event
  handed    \* events handed on

sseVars == <<phase, wire, taken, pending, handed>>

-----------------------------------------------------------------------------
(***************************************************************************)
(* One event.                                                               *)
(***************************************************************************)
WithoutCR(line) ==
  IF line # << >> /\ line[Len(line)] = CR THEN SubSeq(line, 1, Len(line) - 1) ELSE line

\* str::lines, and the carriage return stripped
LinesOf(raw) ==
  LET read(lines, byte) ==
        IF byte = LF THEN Append(lines, << >>)
        ELSE [lines EXCEPT ![Len(lines)] = Append(@, byte)]
      lines == FoldLeft(read, << << >> >>, raw)
  IN  [n \in DOMAIN lines |-> WithoutCR(lines[n])]

Nothing == [outcome |-> "nothing", type |-> << >>, data |-> << >>]
MalformedEvent == [outcome |-> "malformed", type |-> << >>, data |-> << >>]

LinesFor(lines, field) == {n \in DOMAIN lines : lines[n] # << >> /\ Field(lines[n]) = field}

TypeOf(lines) ==
  LET types == LinesFor(lines, "event")
  IN  IF types = {} THEN << >> ELSE Value(lines[Max(types)])

DataOf(lines) ==
  LET data == SelectSeq(lines, LAMBDA line : line # << >> /\ Field(line) = "data")
  IN  [n \in DOMAIN data |-> Value(data[n])]

\* Wrong variant: an event without data is malformed, heartbeats included.
ParseEventStrict(raw) ==
  LET lines == LinesOf(raw)
  IN  IF LinesFor(lines, "unsupported") # {} \/ LinesFor(lines, "data") = {} THEN MalformedEvent
      ELSE [outcome |-> "event", type |-> TypeOf(lines), data |-> DataOf(lines)]

\* parse_sse_event
ParseEvent(raw) ==
  LET lines == LinesOf(raw)
      others == DOMAIN lines \ LinesFor(lines, "comment")
  IN  IF LinesFor(lines, "unsupported") # {} THEN MalformedEvent
      ELSE IF \A n \in others : lines[n] = << >> THEN Nothing
      ELSE IF LinesFor(lines, "data") = {} THEN MalformedEvent
      ELSE [outcome |-> "event", type |-> TypeOf(lines), data |-> DataOf(lines)]

\* A heartbeat is no event.
Noted(parsed) == IF parsed = Nothing THEN << >> ELSE <<parsed>>

\* classify_upstream_event
Classify(event) == IF event.type = ErrorType THEN "refused" ELSE Payload(event.data)

-----------------------------------------------------------------------------
(***************************************************************************)
(* The parser.                                                              *)
(***************************************************************************)
Delimiters == { <<CR, LF, CR, LF>>, <<LF, LF>>, <<CR, CR>> }

DelimiterAt(text, n, delimiter) ==
  /\ n + Len(delimiter) - 1 <= Len(text)
  /\ \A k \in DOMAIN delimiter : text[n + k - 1] = delimiter[k]

Boundaries(text) == {b \in (DOMAIN text) \X Delimiters : DelimiterAt(text, b[1], b[2])}

\* Wrong variant: the first delimiter of the list that occurs, wherever it does.
BoundaryByKind(text) ==
  LET lines == {b \in Boundaries(text) : b[2] = <<LF, LF>>}
      among == IF lines # {} THEN lines ELSE Boundaries(text)
  IN  CHOOSE b \in among : \A other \in among : b[1] <= other[1]

\* sse_event_boundary, where there is one
Boundary(text) == CHOOSE b \in Boundaries(text) : \A other \in Boundaries(text) : b[1] <= other[1]

\* The loop of push: what the complete events of the text parse to, and the rest.
Split(text) ==
  LET rest(n) == SubSeq(text, n, Len(text))
      split[n \in 1..(Len(text) + 1)] ==
        IF Boundaries(rest(n)) = {} THEN [parsed |-> << >>, rest |-> rest(n)]
        ELSE LET b     == Boundary(rest(n))
                 later == split[n + b[1] - 1 + Len(b[2])]
             IN  [later EXCEPT !.parsed = Noted(ParseEvent(SubSeq(text, n, n + b[1] - 2))) \o @]
  IN  split[1]

Utf8(bytes) ==
  \A n \in DOMAIN bytes :
    /\ bytes[n] = Lead => n < Len(bytes) /\ bytes[n + 1] = Trail
    /\ bytes[n] = Trail => n > 1 /\ bytes[n - 1] = Lead

(***************************************************************************)
(* What the events of one chunk lead to: all are handed on up to the first  *)
(* that ends the stream.                                                    *)
(***************************************************************************)
Stops(events) == {n \in DOMAIN events : Classify(events[n]) # "chunk"}

\* Wrong variant: events behind one that is refused are handed on, too.
HandedOnRegardless(events) ==
  LET usable(event) == Classify(event) = "chunk" IN SelectSeq(events, usable)

HandedOn(events) ==
  IF Stops(events) = {} THEN events ELSE SubSeq(events, 1, Min(Stops(events)) - 1)

Verdict(events) ==
  IF Stops(events) = {} THEN "reading"
  ELSE IF Classify(events[Min(Stops(events))]) = "done" THEN "done" ELSE "failed"

-----------------------------------------------------------------------------
SseInit ==
  /\ phase = "reading"
  /\ wire \in Wires
  /\ taken = 0
  /\ pending = << >>
  /\ handed = << >>

(***************************************************************************)
(* A network chunk of any length.  One that is not UTF-8 by itself, or that *)
(* completes an event that is malformed, ends the stream, with the events   *)
(* it completes before that one.                                            *)
(***************************************************************************)
TakeChunk ==
  /\ phase = "reading" /\ taken < Len(wire)
  /\ \E n \in 1..(Len(wire) - taken) :
       LET chunk == SubSeq(wire, taken + 1, taken + n)
           split == Split(pending \o chunk)
       IN  /\ taken' = taken + n
           /\ \/ /\ ~Utf8(chunk) \/ \E k \in DOMAIN split.parsed : split.parsed[k] = MalformedEvent
                 /\ phase' = "failed"
                 /\ UNCHANGED <<pending, handed>>
              \/ /\ Utf8(chunk) /\ \A k \in DOMAIN split.parsed : split.parsed[k] # MalformedEvent
                 /\ phase' = Verdict(split.parsed)
                 /\ pending' = split.rest
                 /\ handed' = handed \o HandedOn(split.parsed)
  /\ UNCHANGED wire

\* The upstream closes before [DONE], a read fails or times out.
ConnectionLost ==
  /\ phase = "reading"
  /\ phase' = "broken"
  /\ UNCHANGED <<wire, taken, pending, handed>>

StreamOver ==
  /\ phase # "reading"
  /\ UNCHANGED sseVars

SseNext == TakeChunk \/ ConnectionLost \/ StreamOver

SseSpec == SseInit /\ [][SseNext]_sseVars

-----------------------------------------------------------------------------
(***************************************************************************)
(* The reference: read byte by byte, an event ends where the text since the *)
(* last event ends with a delimiter.                                        *)
(***************************************************************************)
EndsWith(text, delimiter) ==
  Len(delimiter) <= Len(text) /\ DelimiterAt(text, Len(text) - Len(delimiter) + 1, delimiter)

ReadByte(read, byte) ==
  LET text   == Append(read.text, byte)
      ending == {delimiter \in Delimiters : EndsWith(text, delimiter)}
  IN  IF ending = {} THEN [read EXCEPT !.text = text]
      ELSE LET raw == SubSeq(text, 1, Len(text) - Max({Len(delimiter) : delimiter \in ending}))
           IN  [ text   |-> << >>,
                 raws   |-> Append(read.raws, raw),
                 parsed |-> read.parsed \o Noted(ParseEvent(raw)) ]

ReadAlone(bytes) == FoldLeft(ReadByte, [text |-> << >>, raws |-> << >>, parsed |-> << >>], bytes)

BytesReceived == SubSeq(wire, 1, taken)

\* All there is in the bytes that have arrived, heartbeats left out.
Arrived == ReadAlone(BytesReceived).parsed

(***************************************************************************)
(* The events do not depend on how the network cuts the bytes: while the    *)
(* stream is read, exactly the events that have arrived were handed on, as  *)
(* soon as they were complete, and all of them could be used; and a stream  *)
(* is done when [DONE] has arrived behind events that were all handed on.   *)
(***************************************************************************)
CutsDoNotMatter ==
  /\ phase = "reading" => handed = Arrived
  /\ phase = "done" =>
       /\ Len(handed) < Len(Arrived)
       /\ IsPrefix(handed, Arrived)
       /\ Classify(Arrived[Len(handed) + 1]) = "done"

(***************************************************************************)
(* Where a stream fails, the events handed on before are a beginning of     *)
(* those that arrived: none is skipped, and none behind a bad one is used.  *)
(***************************************************************************)
FailureKeepsOrder ==
  phase \in {"failed", "broken"} =>
    /\ IsPrefix(handed, Arrived)
    /\ \A n \in DOMAIN handed : Classify(handed[n]) = "chunk"

(***************************************************************************)
(* A stream fails for a cause that is in the bytes: an event that is        *)
(* malformed or refused, or bytes that are no text, among which counts a    *)
(* character the network has cut in two.  Heartbeats, fields without a      *)
(* meaning here and mixed line ends are no cause.                           *)
(***************************************************************************)
Fields(raw) == {Field(line) : line \in {l \in ToSet(LinesOf(raw)) : l # << >>}} \ {"comment"}

FailsForCause ==
  phase = "failed" =>
    \/ ~Utf8(BytesReceived)
    \/ \E raw \in ToSet(ReadAlone(BytesReceived).raws) :
         \/ "unsupported" \in Fields(raw)
         \/ Fields(raw) # {} /\ "data" \notin Fields(raw)
         \/ Classify(ParseEvent(raw)) \notin {"chunk", "done"}

=============================================================================
