---------------------------- MODULE MCToolCalls ----------------------------
(***************************************************************************)
(* A small instance of ToolCalls for TLC: every text put together from a    *)
(* few fragments, for a tool with a simple schema, and one good call with   *)
(* arguments of every kind for tools with schemas of every kind.            *)
(***************************************************************************)
EXTENDS ToolCalls

MCHeader == [call_a |-> "a", call_x |-> "x"]

(* Values and members. *)

Null == [kind |-> "null"]
One(k) == [kind |-> k, is |-> "1"]
Text == [kind |-> "string", is |-> "s"]
Array(vs) == [kind |-> "array", items |-> vs]
Object(fields) == [kind |-> "object", fields |-> fields]

Values ==
  [ null |-> Null, true |-> [kind |-> "boolean"], one |-> One("integer"), oneDot |-> One("whole"),
    half_ |-> [kind |-> "fraction", is |-> "0.5"], none |-> Array(<< >>),
    ones |-> Array(<<One("integer"), One("whole")>>), texts |-> Array(<<Text>>),
    empty |-> Object(<< >>), nested |-> Object([q |-> One("integer")]) ]

MCMember ==
  [t \in DOMAIN Values |-> [field |-> "q", value |-> Values[t]]]
    @@ [string |-> [field |-> "q", value |-> Text], other |-> [field |-> "z", value |-> One("integer")]]

(* Schemas. *)

Typed(types) == [type |-> types]

ValueSchemas ==
  {AnySchema, Typed(<<"number">>), Typed(<<"integer", "string">>), Typed(<<"null", "boolean">>),
   Typed(<<"array">>), Typed(<<"object", "null">>),
   [enum |-> {One("integer"), Text}], [items |-> Typed(<<"integer">>)],
   [required |-> {"q"}], [properties |-> [q |-> Typed(<<"string">>)]],
   [properties |-> [q |-> Typed(<<"number">>)], additionalProperties |-> {}],
   [malformed |-> TRUE], Typed(<<"text", "integer">>), Typed(<< >>)}

ToolSchemas ==
  {AnySchema, Typed(<<"string">>), Typed(<<"object">>) @@ [required |-> {"q", "z"}]}
    \cup {[properties |-> [q |-> s]] : s \in ValueSchemas}
    \cup {[additionalProperties |-> {s}] : s \in ValueSchemas}
    \cup {[properties |-> [q |-> s], required |-> {"q"}, additionalProperties |-> {}] : s \in ValueSchemas}
    \cup {[properties |-> [z |-> s], additionalProperties |-> {AnySchema}] : s \in ValueSchemas}
    \cup {[additionalProperties |-> {}]}

Tool(name, schema) == [name |-> name, schema |-> schema]

Plain == [enabled |-> TRUE, validate |-> TRUE, choice |-> Automatic, format |-> "hermes",
          tools |-> <<Tool("a", [properties |-> [q |-> Typed(<<"integer", "string">>)]])>>]

(* Texts. *)

Written(header, members) == <<"open", "nl", header, "{">> \o members \o <<"}", "}", "nl", "close">>

Fragments ==
  << <<"open">>, <<"close">>, <<"cut">>, <<"tag">>, <<"nl">>, <<"word">>, <<"half">>, <<"{">>, <<"}">>,
     <<"call_a", "{">>, <<"one">>, <<"string">>, <<"quote">>, <<"[", "}">>,
     <<"}", "}">>, <<"open", "nl", "call_a", "{", "one", "}">>, Written("call_a", <<"one">>) >>

Beginnings == << << >>, <<"open", "nl", "call_a", "{">>, Written("call_a", <<"one">>) >>

With(r, text) ==
  [ enabled |-> r.enabled, validate |-> r.validate, choice |-> r.choice, format |-> r.format,
    tools |-> r.tools, text |-> text ]

SchemaJobs ==
  {With([Plain EXCEPT !.tools = <<Tool("a", s)>>, !.validate = v], Written("call_a", m)) :
     s \in ToolSchemas, v \in BOOLEAN,
     m \in {<<t>> : t \in DOMAIN MCMember \ {"string"}} \cup {<< >>, <<"one", "other">>}
             \cup {<<"string", t, "quote">> : t \in {"word", "open", "}", "escaped"}}}

RequestJobs ==
  {With([Plain EXCEPT !.enabled = e, !.choice = c, !.tools = ts, !.format = f], text) :
     e \in BOOLEAN, c \in ToolChoices({"a", "x"}), f \in {"hermes", "qwen", "glm"},
     ts \in {<< >>, <<Tool("a", AnySchema)>>, <<Tool("x", AnySchema), Tool("a", AnySchema)>>,
             <<Tool("a", AnySchema), Tool("a", Typed(<<"object">>))>>},
     text \in {<<"word">>, Written("call_a", << >>), Written("call_a", << >>) \o Written("call_x", <<"one">>)}}

(* Texts of a GLM model. *)

MCReadings ==
  ("1" :> [integer |-> One("integer"), number |-> One("integer"), boolean |-> Values.true, json |-> One("integer")])
    @@ ("1.0" :> [number |-> One("whole"), json |-> One("whole")])
    @@ ("big" :> [number |-> One("integer"), json |-> One("integer")])
    @@ ("true" :> [boolean |-> Values.true, json |-> Values.true])
    @@ ("[1]" :> [json |-> Array(<<One("integer")>>)])
    @@ ("{}" :> [json |-> Object(<< >>)])
    @@ ("s" :> << >>)

Pair(f, raw) == <<"<arg_key>", f, "</arg_key>", "nl", "<arg_value>">> \o raw \o <<"</arg_value>">>

GlmCall(body) == <<"open", "a", "nl">> \o body \o <<"close">>

GlmFragments ==
  << <<"open">>, <<"close">>, <<"cut">>, <<"tag">>, <<"nl">>, <<"a">>, <<"word">>, <<"<arg_key>">>, <<"</arg_key>">>,
     <<"<arg_value>">>, <<"</arg_value>">>, Pair("q", <<"nl", "1">>), Pair("q", <<"s", "nl">>), Pair("z", << >>),
     <<"a">> \o Pair("z", <<"null">>), <<"open", "a">> \o Pair("q", <<"1">>) \o <<"nl", "close">>,
     Written("call_a", <<"one">>) >>

GlmBeginnings == << << >>, <<"open", "a", "nl">>, GlmCall(Pair("q", <<"1">>)) >>

\* What `anyOf' lists counts for the conversion only.
GlmSchemas ==
  {[properties |-> [q |-> s]] : s \in
     {Typed(<<"string", "integer">>), Typed(<<"boolean", "number">>), Typed(<<"array", "integer">>),
      [anyOf |-> <<Typed(<<"integer">>), Typed(<<"string">>)>>], [anyOf |-> << >>],
      [additionalProperties |-> {}]}}

GlmSchemaJobs ==
  {With([Plain EXCEPT !.format = "glm", !.tools = <<Tool("a", s)>>, !.validate = v], GlmCall(b)) :
     s \in ToolSchemas \cup GlmSchemas, v \in BOOLEAN,
     b \in {<< >>, Pair("q", <<"1">>) \o Pair("q", <<"s">>), Pair("q", <<"1">>) \o <<"nl">> \o Pair("z", <<"1">>)}
             \cup {Pair("q", raw) : raw \in {<< >>, <<"null">>} \cup {<<r>> : r \in DOMAIN MCReadings}}}

\* Calls of an offered function and of one that is not.
GlmChoiceJobs ==
  {With([Plain EXCEPT !.format = "glm", !.choice = c,
                      !.tools = <<Tool("a", AnySchema), Tool("x", [properties |-> [q |-> Typed(<<"integer">>)]])>>],
        <<"open", name, "nl">> \o Pair("q", <<raw>>) \o <<"close">>) :
     c \in ToolChoices({"a", "x"}), name \in {"a", "x"}, raw \in DOMAIN MCReadings}

(* A beginning and three fragments, in every format. *)

TextOf(format, a, b, c, d) ==
  IF format = "glm" THEN GlmBeginnings[a] \o GlmFragments[b] \o GlmFragments[c] \o GlmFragments[d]
  ELSE Beginnings[a] \o Fragments[b] \o Fragments[c] \o Fragments[d]

ParserJobs ==
  {With([Plain EXCEPT !.format = f], TextOf(f, a, b, c, d)) :
     f \in {"hermes", "qwen", "glm"}, a \in 1 .. 3, b \in 1 .. 17, c \in 1 .. 17, d \in 1 .. 17}

MCJobs == {ParserJobs, SchemaJobs, RequestJobs, GlmSchemaJobs, GlmChoiceJobs}

=============================================================================
