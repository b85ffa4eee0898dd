----------------------------- MODULE ToolCalls -----------------------------
(***************************************************************************)
(* From the text of an answer to the tool calls the client gets             *)
(* (src/src/tools.rs): the tools that a request offers, the parsers, the    *)
(* lenient one and the fallback to it, and the validation of each call.     *)
(*                                                                         *)
(* A job is one request with one answer:                                    *)
(*   enabled, validate  the configuration of tool emulation                 *)
(*   tools, choice      those of the request (ToolContext); a tool without a *)
(*                      schema has AnySchema                                *)
(*   format             what the model writes: "hermes", "qwen" or "glm"   *)
(*   text               its answer                                          *)
(* The limit on the length of a text is in ToolOutput.                      *)
(***************************************************************************)
EXTENDS GlmParser, ToolContext

CONSTANTS
  Jobs,     \* sets of jobs
  Member    \* tokens that are members of an object |-> [field, value]

\* An answer is a finite text, in one of the formats.
ASSUME JobsAssumption ==
  \A jobs \in Jobs : \A j \in jobs :
    j.text \in Seq(Range(j.text)) /\ j.format \in {"hermes", "qwen", "glm"}

VARIABLES
  job,
  at,        \* "context", "native", "hermes", "judge" or "done"
  native,    \* what the model's own format holds, validated
  parser,    \* the strict parser inside of the lenient one
  unread,    \* text that has not been pushed yet
  read,      \* what the lenient parser has read
  result     \* the verdict, with the calls if it is "calls"

vars == <<job, at, native, parser, unread, read, result>>

(* Validation of one call. *)

\* Arguments as JSON: members between braces, a string up to its quote.
AddToken(o, t) ==
  IF o.inString THEN
    [o EXCEPT !.inString = t # "quote",
              !.ok = @ /\ t \notin DOMAIN Header \cup DOMAIN Member \cup {"nl", "half"}]
  ELSE IF t \in DOMAIN Member THEN
    [o EXCEPT !.inString = t = "string", !.fields = WithField(@, Member[t].field, Member[t].value)]
  ELSE IF t = "nl" THEN o
  ELSE [o EXCEPT !.ok = FALSE]

Parsed(arguments) ==
  LET inner  == SubSeq(arguments, 2, Len(arguments) - 1)
      object == FoldLeft(AddToken, [ok |-> TRUE, inString |-> FALSE, fields |-> << >>], inner)
  IN [ok |-> object.ok /\ ~object.inString, value |-> [kind |-> "object", fields |-> object.fields]]

\* Those of a GLM call are JSON that the parser made.
Arguments(call) ==
  IF "object" \in DOMAIN call THEN [ok |-> TRUE, value |-> call.object] ELSE Parsed(call.arguments)

ValidCall(j, call) ==
  \E tool \in Offered(j.tools, j.choice) :
    /\ tool.name = call.name
    /\ Arguments(call).ok
    /\ j.validate => Valid(Arguments(call).value, tool.schema)

Validated(j, parsed) ==
  IF parsed.ok /\ \A i \in DOMAIN parsed.calls : ValidCall(j, parsed.calls[i]) THEN parsed ELSE Failure

(* The lenient parser. *)

\* Wrong variant: only the markers start a piece.
PieceToMarker(text) ==
  CHOOSE n \in DOMAIN text :
    /\ n = Len(text) \/ text[n + 1] \in {"open", "close"}
    /\ \A m \in 1 .. n - 1 : text[m + 1] \notin {"open", "close"}

\* Where the first piece of a text ends: every tag starts a piece of its own.
PieceEnd(text) ==
  CHOOSE n \in DOMAIN text :
    /\ n = Len(text) \/ text[n + 1] \in TagStarts
    /\ \A m \in 1 .. n - 1 : text[m + 1] \notin TagStarts

\* The scanner of the arguments that were read last.
Feed(s, t) ==
  IF s.inString THEN [s EXCEPT !.inString = t \notin {"quote", "string"}]
  ELSE IF t \in {"quote", "escaped", "string"} THEN [s EXCEPT !.inString = TRUE, !.started = TRUE]
  ELSE IF t \in DOMAIN Header \cup {"{", "half", "["} THEN [s EXCEPT !.depth = @ + 1, !.started = TRUE]
  ELSE IF t \in {"}", "]"} THEN [s EXCEPT !.depth = IF @ = 0 THEN 0 ELSE @ - 1]
  ELSE [s EXCEPT !.started = @ \/ t # "nl"]

\* Wrong variant: it is enough that a call was begun.
AnyArguments(calls) == calls # << >>

ArgumentsComplete(calls) ==
  LET last == FoldLeft(Feed, [started |-> FALSE, depth |-> 0, inString |-> FALSE],
                       IF calls = << >> THEN << >> ELSE calls[Len(calls)].arguments)
  IN last.started /\ last.depth = 0 /\ ~last.inString

\* The end of the text: a call that lacks only its closing marker is closed.
Recovered(p) ==
  LET closed == Push(p, <<"close">>)
  IN IF MayFinish(p) THEN [ok |-> TRUE, calls |-> p.calls]
     ELSE IF MayFinish(closed) THEN [ok |-> TRUE, calls |-> closed.calls]
     ELSE Failure

-----------------------------------------------------------------------------

Init ==
  /\ \E jobs \in Jobs : job \in jobs
  /\ at = "context"
  /\ native = Failure
  /\ parser = NewParser("hermes")
  /\ unread = << >>
  /\ read = Failure
  /\ result = [verdict |-> "none", calls |-> << >>]

Conclude(verdict, calls) ==
  /\ at' = "done"
  /\ result' = [verdict |-> verdict, calls |-> calls]

RefusesTools ==
  IsRefused(job, job.tools, job.choice, \A i \in DOMAIN job.tools : ShapeOK(job.tools[i].schema))

Refuse ==
  /\ at = "context"
  /\ RefusesTools
  /\ Conclude("refused", << >>)
  /\ UNCHANGED <<job, native, parser, unread, read>>

AnswerPlainly ==
  /\ at = "context"
  /\ IsPlain(job, job.tools, job.choice)
  /\ Conclude("plain", << >>)
  /\ UNCHANGED <<job, native, parser, unread, read>>

OfferTools ==
  /\ at = "context"
  /\ ~IsPlain(job, job.tools, job.choice)
  /\ ~RefusesTools
  /\ at' = IF job.format = "hermes" THEN "hermes" ELSE "native"
  /\ unread' = job.text
  /\ UNCHANGED <<job, native, parser, read, result>>

InGlm(text) == ParseGlm(text, Offered(job.tools, job.choice))

ReadNatively ==
  IF job.format = "glm" THEN InGlm(job.text)
  ELSE ParseComplete(job.format, job.text)

\* The model's own format settles the matter, or Hermes is tried.
Settled(parsed) == parsed.ok /\ (parsed.calls # << >> \/ "open" \notin Range(job.text))

ParseNative ==
  /\ at = "native"
  /\ native' = Validated(job, ReadNatively)
  /\ at' = IF Settled(native') THEN "judge" ELSE "hermes"
  /\ UNCHANGED <<job, parser, unread, read, result>>

\* What does not parse behind a complete call is ignored with all that follows.
PushPiece ==
  /\ at = "hermes"
  /\ unread # << >>
  /\ LET pushed == Push(parser, SubSeq(unread, 1, PieceEnd(unread)))
     IN IF pushed.status # "failed"
        THEN /\ parser' = pushed
             /\ unread' = From(unread, PieceEnd(unread) + 1)
             /\ UNCHANGED <<at, read>>
        ELSE /\ read' = IF ArgumentsComplete(parser.calls) THEN [ok |-> TRUE, calls |-> parser.calls] ELSE Failure
             /\ at' = "judge"
             /\ UNCHANGED <<parser, unread>>
  /\ UNCHANGED <<job, native, result>>

FinishText ==
  /\ at = "hermes"
  /\ unread = << >>
  /\ read' = Recovered(parser)
  /\ at' = "judge"
  /\ UNCHANGED <<job, native, parser, unread, result>>

UsesHermes == job.format = "hermes" \/ ~Settled(native)

\* The fallback counts only if it finds calls and all of them are valid.
Judged ==
  LET hermes == Validated(job, read)
  IN IF UsesHermes /\ (job.format = "hermes" \/ hermes.calls # << >>) THEN hermes ELSE native

Judge ==
  /\ at = "judge"
  /\ IF Judged.ok /\ Judged.calls # << >> THEN Conclude("calls", Judged.calls)
     ELSE Conclude(IF Judged.ok /\ ~RequireToolCall(job.choice) THEN "text" ELSE "invalid", << >>)
  /\ UNCHANGED <<job, native, parser, unread, read>>

Next ==
  \/ Refuse \/ AnswerPlainly \/ OfferTools
  \/ ParseNative \/ PushPiece \/ FinishText \/ Judge

Spec == Init /\ [][Next]_vars

-----------------------------------------------------------------------------

(***************************************************************************)
(* The lenient parser reads what the strict one does, in pieces as in       *)
(* one, and more only as documented: at the end of the text the closing     *)
(* marker of a call may be missing, and where a tag stands in place of the  *)
(* end of a call with whole arguments, the calls up to it are read and      *)
(* nothing behind it.  A text that breaks off within that marker is neither *)
(* of the two: the parser waits for the rest, which the marker pushed at    *)
(* the end is not, and nothing is read.                                     *)
(***************************************************************************)
LenientReading ==
  at = "judge" /\ UsesHermes =>
    /\ \A strict \in {ParseComplete("hermes", job.text \o end) : end \in {<< >>, <<"close">>}} :
         strict.ok => read = strict
    /\ \A n \in 1 .. Len(job.text) - 1 :
         job.text[n + 1] \in TagStarts \ {"close"} =>
           LET before  == SubSeq(job.text, 1, n)
               marker  == ParseComplete("hermes", before \o <<"close">>)
               brace   == ParseComplete("hermes", before \o <<"}", "close">>)
               breaks  == job.text[n + 1] = "cut" /\ n + 1 = Len(job.text)
           IN  ~ParseComplete("hermes", before).ok =>
                 /\ marker.ok => read = IF breaks THEN Failure ELSE marker
                 /\ brace.ok => read = brace

\* The call by itself, and the call in the text behind the marker at i.
Alone(call, header) == <<"open", header>> \o call.arguments \o <<"}", "close">>

JsonStandsAt(call, i) ==
  \E j \in i + 1 .. Len(job.text), k \in i + 2 .. Len(job.text) - Len(call.arguments) + 1 :
    /\ j < k /\ job.text[j] \in DOMAIN Header
    /\ \A n \in i + 1 .. k - 1 : n # j => job.text[n] = "nl"
    /\ Header[job.text[j]] = call.name
    /\ SubSeq(job.text, k, k + Len(call.arguments) - 1) = call.arguments
    /\ ParseComplete("hermes", Alone(call, job.text[j])).calls = <<call>>

\* What stands between the tags from and to, each of them where it is first.
Between(text, from, to) ==
  {Spelled(Trimmed(SubSeq(text, n + 1, n + First(From(text, n + 1), to) - 1))) :
     n \in {m \in DOMAIN text : text[m] = from /\ to \in Range(From(text, m + 1))}}

\* What the text of a parameter can mean.
Meanings(raw) ==
  {JsonString(raw)} \cup (IF raw = "null" THEN {[kind |-> "null"]} ELSE {})
    \cup (UNION {AsType(raw, t) : t \in {"null", "boolean", "integer", "number", "array", "object"}})

\* Where the name of the function starts, if there is one.
NameAt(body) == SelectInSeq(body, LAMBDA t : t # "nl")

GlmStandsAt(call, i) ==
  LET body == SubSeq(job.text, i + 1, i + First(From(job.text, i + 1), "close") - 1)
      name == NameAt(body)
  IN  /\ name > 0 /\ \E n \in name .. Len(body) : Spelled(SubSeq(body, name, n)) = call.name
      /\ \A f \in DOMAIN call.object.fields :
           /\ f \in Between(body, "<arg_key>", "</arg_key>")
           /\ \E raw \in Between(body, "<arg_value>", "</arg_value>") : call.object.fields[f] \in Meanings(raw)

StandsAt(call, i) ==
  job.text[i] = "open" /\ IF "object" \in DOMAIN call THEN GlmStandsAt(call, i) ELSE JsonStandsAt(call, i)

(***************************************************************************)
(* No call is made up or put together: the calls read stand in the text, in *)
(* this order, each behind a marker, with arguments that are an object by   *)
(* themselves or, for a GLM model, with the parameters that stand there.    *)
(***************************************************************************)
CallsStandInText ==
  at = "done" =>
    \A calls \in {read.calls, result.calls} :
      \E place \in [DOMAIN calls -> DOMAIN job.text] :
        /\ \A n \in DOMAIN calls : StandsAt(calls[n], place[n])
        /\ \A m, n \in DOMAIN calls : m < n => place[m] < place[n]

\* A text that ends with a call, where each end of a call is that of one read from it.
IsRow(text, calls) ==
  Last(text) = "close" /\ Cardinality({n \in DOMAIN text : text[n] = "close"}) = Len(calls)

\* raw can be read as a value of the type.  Any JSON passes for "object" and "array".
CanBe(raw, type) ==
  \/ type = "string"
  \/ type \in {"integer", "number", "boolean"} /\ Reads(raw, type)
  \/ type \in {"object", "array"} /\ (raw = "" \/ Reads(raw, "json"))

\* value is raw as the first of types that raw can be read as, or else its text.
ReadAsDeclared(value, types, raw) ==
  LET possible == {k \in DOMAIN types : CanBe(raw, types[k])}
      first    == {k \in possible : \A m \in possible : ~(m < k)}
  IN  /\ value \in Meanings(raw)
      /\ raw # "null" /\ Range(types) \subseteq TypeNames =>
           IF first = {} THEN value = JsonString(raw)
           ELSE \E k \in first : types[k] \in {"object", "array"} \/ MatchesType(value, types[k])

(***************************************************************************)
(* A GLM model's calls are read one by one as long as only white space is   *)
(* between them, one that cannot be read or has no end fails all, except a  *)
(* bare marker at the end, and behind other text none is read.  A parameter *)
(* of a function that is offered is of the first type its schema lists that *)
(* its text can be read as, and its text if there is none.  (Names that are *)
(* no types, which mean a string, are left out.)                            *)
(***************************************************************************)
GlmReading ==
  at \in {"judge", "done"} /\ job.format = "glm" /\ result.verdict \notin {"plain", "refused"} =>
    /\ \A n \in 1 .. Len(job.text) - 1 :
         \A row \in {SubSeq(job.text, 1, n)}, rest \in {SkipBlanks(From(job.text, n + 1))} :
           \A first \in {InGlm(row)}, next \in {InGlm(rest)} :
               first.ok /\ IsRow(row, first.calls) =>
                 InGlm(job.text) =
                   IF rest = << >> \/ rest[1] # "open" THEN first
                   ELSE IF next.ok /\ ("close" \in Range(rest) \/ rest = <<"open">>)
                   THEN [ok |-> TRUE, calls |-> first.calls \o next.calls]
                   ELSE Failure
    /\ \A call \in Range(ReadNatively.calls) :
         LET schemas == PropertiesOf(Offered(job.tools, job.choice), call.name)
         IN  \A f \in DOMAIN call.object.fields \cap DOMAIN schemas :
               \E raw \in Between(job.text, "<arg_value>", "</arg_value>") :
                 ReadAsDeclared(call.object.fields[f], Types(schemas[f]), raw)

(***************************************************************************)
(* A client gets only calls that it can execute: of a tool that it offered, *)
(* of the one it chose if it chose one, with arguments that conform to its  *)
(* schema if the proxy validates.                                           *)
(***************************************************************************)
AcceptedCallsConform ==
  \A n \in DOMAIN result.calls :
    LET call == result.calls[n]
    IN \E i \in DOMAIN job.tools :
         /\ job.tools[i].name = call.name
         /\ job.choice \in {Automatic, Required, Function(call.name)}
         /\ Arguments(call).ok
         /\ job.validate => Conforms(Arguments(call).value, job.tools[i].schema)

=============================================================================
