----------------------------- MODULE JsonSchema -----------------------------
(***************************************************************************)
(* The subset of JSON Schema that tool arguments are checked against        *)
(* (src/src/tools.rs), and what its keywords mean.                          *)
(*                                                                         *)
(* A value is a record with its kind; a number is an "integer", a "whole"   *)
(* one written as a fraction (1.0) or a "fraction".  A schema is a function *)
(* on the keywords it has; a keyword in a form that the code rejects is the *)
(* keyword "malformed".  `type' is the sequence of the types that are       *)
(* listed, `additionalProperties' the set of the schemas that other fields  *)
(* may use: none for false, AnySchema for true.                             *)
(*                                                                         *)
(* Where the code calls itself for what is inside of a value and a schema,  *)
(* the levels are counted here: what is said of one level rests on what is  *)
(* said of the next.                                                        *)
(***************************************************************************)
EXTENDS Integers, Sequences, Functions

CONSTANT Nesting   \* the levels that JSON can have: serde_json reads no more than 128

ASSUME NestingAssumption == Nesting \in Nat

Has(schema, keyword) == keyword \in DOMAIN schema

AnySchema == << >>

SubSchemas(schema) ==
  (IF Has(schema, "properties") THEN Range(schema.properties) ELSE {})
    \cup (IF Has(schema, "items") THEN {schema.items} ELSE {})
    \cup (IF Has(schema, "additionalProperties") THEN schema.additionalProperties ELSE {})

Elements(value) ==
  CASE value.kind = "object" -> Range(value.fields)
    [] value.kind = "array" -> Range(value.items)
    [] OTHER -> {}

\* The whole and what is inside of it, at any level.
AllWithin(whole, parts(_)) ==
  LET level[n \in 0 .. Nesting] ==
        IF n = 0 THEN {whole} ELSE UNION {parts(part) : part \in level[n - 1]}
  IN  UNION {level[n] : n \in 0 .. Nesting}

SchemasWithin(schema) == AllWithin(schema, SubSchemas)

\* Each value with each schema.
PairsWithin(value, schema) == AllWithin(value, Elements) \X SchemasWithin(schema)

(* A tool may be offered with this schema. *)

TypeNames == {"object", "array", "string", "integer", "number", "boolean", "null"}

ShapeOK(schema) ==
  \A sub \in SchemasWithin(schema) :
    /\ ~Has(sub, "malformed")
    /\ Has(sub, "type") => sub.type # << >> /\ Range(sub.type) \subseteq TypeNames

(* The check of the code. *)

MatchesType(value, type) ==
  \/ value.kind = type
  \/ type = "number" /\ value.kind \in {"integer", "whole", "fraction"}
  \/ type \notin TypeNames

ImpliesObject(schema) ==
  \/ Has(schema, "type") /\ "object" \in Range(schema.type)
  \/ \E keyword \in {"properties", "required", "additionalProperties"} : Has(schema, keyword)

ImpliesArray(schema) ==
  \/ Has(schema, "type") /\ "array" \in Range(schema.type)
  \/ Has(schema, "items")

\* Wrong variant: without `properties' nothing is additional.
AdditionalToProperties(value, schema) ==
  IF Has(schema, "properties") THEN DOMAIN value.fields \ DOMAIN schema.properties ELSE {}

\* The fields that `additionalProperties' is about.
Additional(value, schema) ==
  DOMAIN value.fields \ (IF Has(schema, "properties") THEN DOMAIN schema.properties ELSE {})

\* deeper: the pairs of a value and a schema inside of these that are valid.
Passes(value, schema, deeper) ==
  /\ Has(schema, "enum") => value \in schema.enum
  /\ Has(schema, "type") => \E type \in Range(schema.type) : MatchesType(value, type)
  /\ ImpliesObject(schema) =>
       /\ value.kind = "object"
       /\ Has(schema, "required") => schema.required \subseteq DOMAIN value.fields
       /\ Has(schema, "properties") =>
            \A f \in DOMAIN schema.properties \cap DOMAIN value.fields :
              <<value.fields[f], schema.properties[f]>> \in deeper
       /\ Has(schema, "additionalProperties") =>
            \A f \in Additional(value, schema) :
              \E sub \in schema.additionalProperties : <<value.fields[f], sub>> \in deeper
  /\ ImpliesArray(schema) =>
       /\ value.kind = "array"
       /\ Has(schema, "items") =>
            \A i \in DOMAIN value.items : <<value.items[i], schema.items>> \in deeper

Valid(value, schema) ==
  LET valid[n \in 0 .. Nesting] ==
        IF n = 0 THEN {}
        ELSE LET deeper == valid[n - 1]
             IN  {pair \in PairsWithin(value, schema) : Passes(pair[1], pair[2], deeper)}
  IN  <<value, schema>> \in valid[Nesting]

(***************************************************************************)
(* The reference: what the keywords say, each about the values it applies   *)
(* to.  A field answers to its property schema or else to the additional    *)
(* ones; 1.0 is an integer and equals 1; nothing conforms to a schema that  *)
(* has no meaning.                                                          *)
(***************************************************************************)
Number(value) ==
  IF value.kind = "whole" THEN [kind |-> "integer", is |-> value.is] ELSE value

MayHold(schema, f) ==
  IF Has(schema, "properties") /\ f \in DOMAIN schema.properties THEN {schema.properties[f]}
  ELSE IF Has(schema, "additionalProperties") THEN schema.additionalProperties
  ELSE {AnySchema}

Means(value, schema, deeper) ==
  /\ ~Has(schema, "malformed")
  /\ Has(schema, "enum") => \E v \in schema.enum : Number(v) = Number(value)
  /\ Has(schema, "type") =>
       \/ Number(value).kind \in Range(schema.type)
       \/ value.kind \in {"integer", "whole", "fraction"} /\ "number" \in Range(schema.type)
  /\ value.kind = "object" =>
       /\ Has(schema, "required") => schema.required \subseteq DOMAIN value.fields
       /\ \A f \in DOMAIN value.fields :
            \E sub \in MayHold(schema, f) : sub = AnySchema \/ <<value.fields[f], sub>> \in deeper
  /\ value.kind = "array" /\ Has(schema, "items") =>
       \A item \in Range(value.items) : <<item, schema.items>> \in deeper

Conforms(value, schema) ==
  LET conforming[n \in 0 .. Nesting] ==
        IF n = 0 THEN {}
        ELSE LET deeper == conforming[n - 1]
             IN  {pair \in PairsWithin(value, schema) : Means(pair[1], pair[2], deeper)}
  IN  <<value, schema>> \in conforming[Nesting]

=============================================================================
