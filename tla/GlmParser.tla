----------------------------- MODULE GlmParser -----------------------------
(***************************************************************************)
(* The parser of tool calls that are XML between markers, for GLM models    *)
(* (src/src/vllm_tool_parser/glm_xml), and how the text of a parameter      *)
(* becomes JSON of the type its schema declares (parameters.rs).            *)
(*                                                                         *)
(* Texts are those of ToolParser.  The tags <arg_key>, </arg_key>,          *)
(* <arg_value> and </arg_value> are tokens of their own, "nl" is white      *)
(* space, and all others are texts without any, which spell themselves.     *)
(***************************************************************************)
EXTENDS ToolParser, JsonSchema

\* Texts that are a literal |-> its readings: as the JSON value it is, and as a value of
\* type "integer", "number" or "boolean" if it has one.
CONSTANT Readings

ASSUME ReadingsAssumption ==
  \A text \in DOMAIN Readings : \A type \in DOMAIN Readings[text] \ {"json"} :
    type \in {"integer", "number", "boolean"} /\ MatchesType(Readings[text][type], type)

TagStarts == {"open", "close", "cut", "tag", "<arg_key>", "</arg_key>", "<arg_value>", "</arg_value>"}

Spelled(text) == FoldLeft(LAMBDA a, b : a \o b, "", text)

Trimmed(text) ==
  LET ends == {n \in DOMAIN text : text[n] # "nl"}
  IN  IF ends = {} THEN << >> ELSE SubSeq(text, Min(ends), Max(ends))

\* Where token t is first, 0 if it is not there.
First(text, t) == SelectInSeq(text, LAMBDA u : u = t)

SkipBlanks(text) == From(text, Blanks(text) + 1)

(* Parameters. *)

\* The types a schema lists, where listed[s] are those of the schemas in its `anyOf'.
OwnTypes(schema, listed) ==
  IF Has(schema, "type") THEN schema.type
  ELSE IF Has(schema, "anyOf") THEN
    LET types == FlattenSeq([n \in DOMAIN schema.anyOf |-> listed[schema.anyOf[n]]])
    IN  IF types = << >> THEN <<"object">> ELSE types
  ELSE IF Has(schema, "enum") THEN <<"string">>
  ELSE IF Has(schema, "items") THEN <<"array">>
  ELSE IF Has(schema, "properties") \/ Has(schema, "additionalProperties") THEN <<"object">>
  ELSE << >>

\* The types a property may have, in the order in which they are tried.  `anyOf' counts
\* here only: the validation of a call does not look at it.
Types(schema) ==
  LET options[n \in 0 .. Nesting] ==
        IF n = 0 THEN {schema}
        ELSE UNION {Range(s.anyOf) : s \in {t \in options[n - 1] : Has(t, "anyOf")}}
      listed[n \in 0 .. Nesting] ==
        IF n = 0 THEN [s \in options[Nesting] |-> << >>]
        ELSE LET deeper == listed[n - 1] IN [s \in options[Nesting - n] |-> OwnTypes(s, deeper)]
  IN  listed[Nesting][schema]

JsonString(text) == [kind |-> "string", is |-> text]

Reads(text, reading) == text \in DOMAIN Readings /\ reading \in DOMAIN Readings[text]

\* What text is as a value of the type, as a set of at most one.  A name that is none of
\* TypeNames stands for those that mean a string too, as "text" does.
AsType(text, type) ==
  LET reading == IF type \in {"object", "array"} THEN "json" ELSE type
  IN  IF type \notin TypeNames \ {"string"} THEN {JsonString(text)}
      ELSE IF type = "object" /\ text = "" THEN {[kind |-> "object", fields |-> << >>]}
      ELSE IF type = "array" /\ text = "" THEN {[kind |-> "array", items |-> << >>]}
      ELSE IF type # "null" /\ Reads(text, reading) THEN {Readings[text][reading]} ELSE {}

\* A parameter's value: null is null, whatever is declared; what no type reads is a string.
Converted(schemas, f, text) ==
  LET types == IF f \in DOMAIN schemas THEN Types(schemas[f]) ELSE << >>
      first == {k \in DOMAIN types : /\ AsType(text, types[k]) # {}
                                     /\ \A m \in DOMAIN types : m < k => AsType(text, types[m]) = {}}
  IN  IF text = "null" THEN [kind |-> "null"]
      ELSE IF first = {} THEN JsonString(text)
      ELSE CHOOSE v \in UNION {AsType(text, types[k]) : k \in first} : TRUE

PropertiesOf(tools, name) ==
  LET given == {tool \in tools : tool.name = name /\ Has(tool.schema, "properties")}
  IN  IF given = {} THEN << >> ELSE (CHOOSE tool \in given : TRUE).schema.properties

(* The body of a call. *)

\* A key that comes again takes its last value.
WithField(fields, f, value) == [x \in {f} \cup DOMAIN fields |-> IF x = f THEN value ELSE fields[x]]

\* Between pairs and between a key and its value there is white space only.
ReadParameter(s, t, schemas) ==
  IF s.at = "gap" /\ t = "<arg_key>" THEN [s EXCEPT !.at = "key", !.text = << >>]
  ELSE IF s.at = "key" /\ t = "</arg_key>" THEN
    [s EXCEPT !.at = IF s.text = << >> THEN "failed" ELSE "pair", !.key = Spelled(Trimmed(s.text))]
  ELSE IF s.at = "pair" /\ t = "<arg_value>" THEN [s EXCEPT !.at = "value", !.text = << >>]
  ELSE IF s.at = "value" /\ t = "</arg_value>" THEN
    [s EXCEPT !.at = "gap", !.fields = WithField(@, s.key, Converted(schemas, s.key, Spelled(Trimmed(s.text))))]
  ELSE IF s.at \in {"key", "value"} THEN [s EXCEPT !.text = Append(@, t)]
  ELSE IF s.at \in {"gap", "pair"} /\ t = "nl" THEN s
  ELSE [s EXCEPT !.at = "failed"]

Parameters(text, schemas) ==
  FoldLeft(LAMBDA s, t : ReadParameter(s, t, schemas),
           [at |-> "gap", key |-> "", text |-> << >>, fields |-> << >>], text)

CallOf(body, tools) ==
  LET text == SkipBlanks(body)
      n    == SelectInSeq(text \o <<"nl">>, LAMBDA t : t \in TagStarts \cup {"nl"}) - 1
      name == Spelled(SubSeq(text, 1, n))
      read == Parameters(From(text, n + 1), PropertiesOf(tools, name))
  IN  IF n = 0 \/ read.at # "gap" THEN [ok |-> FALSE]
      ELSE [ok |-> TRUE, call |-> [name |-> name, object |-> [kind |-> "object", fields |-> read.fields]]]

(* The parser. *)

GlmTextEvent(p) ==
  LET open == First(p.buffer, "open")
  IN  IF p.buffer = << >> THEN Waits(p)
      ELSE IF open = 0 THEN [p EXCEPT !.buffer = << >>]
      ELSE IF open > 1 THEN [p EXCEPT !.buffer = From(@, open)]
      ELSE [p EXCEPT !.mode = "call", !.buffer = From(@, 2)]

CallEvent(p, tools) ==
  LET close == First(p.buffer, "close")
      read  == CallOf(SubSeq(p.buffer, 1, close - 1), tools)
  IN  IF close = 0 THEN Waits(p)
      ELSE IF ~read.ok THEN Fails(p)
      ELSE [p EXCEPT !.mode = "after", !.buffer = From(@, close + 1), !.calls = Append(@, read.call)]

\* Wrong variant: text behind a call is skipped up to the next one.
SkipToNextCall(p) ==
  LET open == First(p.buffer, "open")
  IN  IF open = 0 THEN Waits(p) ELSE [p EXCEPT !.mode = "call", !.buffer = From(@, open + 1)]

\* Behind a call only white space may come before the next one: all else is ignored, with
\* the calls in it.
AfterCallEvent(p) ==
  LET rest == SkipBlanks(p.buffer)
  IN  IF rest = << >> THEN Waits(p)
      ELSE IF rest[1] = "open" THEN [p EXCEPT !.mode = "call", !.buffer = From(rest, 2)]
      ELSE [p EXCEPT !.buffer = << >>]

NextGlmEvent(p, tools) ==
  IF p.mode = "text" THEN GlmTextEvent(p)
  ELSE IF p.mode = "call" THEN CallEvent(p, tools)
  ELSE AfterCallEvent(p)

RunGlm(p, tools) ==
  LET after[n \in Nat] ==
        IF n = 0 THEN p
        ELSE LET q == after[n - 1] IN IF q.status = "ready" THEN NextGlmEvent(q, tools) ELSE q
  IN  after[Len(p.buffer) + 1]

\* What is left over behind a marker is an incomplete call; the bare marker is not.
GlmFinished(p) ==
  IF p.status = "failed" \/ (p.mode = "call" /\ p.buffer # << >>) THEN Failure
  ELSE [ok |-> TRUE, calls |-> p.calls]

ParseGlm(text, tools) ==
  GlmFinished(RunGlm([mode |-> "text", buffer |-> text, calls |-> << >>, status |-> "ready"], tools))

=============================================================================
