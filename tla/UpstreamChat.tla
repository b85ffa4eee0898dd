---------------------------- MODULE UpstreamChat ----------------------------
(***************************************************************************)
(* One chat request from its body to its answer: what is sent upstream, how *)
(* often, sealed for whom, and what the client is told                      *)
(* (create_chat_completion and the paths behind it, src/src/http.rs).       *)
(*                                                                         *)
(* The session store, the attestation and the answer's chunks have modules  *)
(* of their own: here a session is a model key that may be an old one, and  *)
(* an answer one payload.  The environment is the enclave, which can change *)
(* its key at any time, and the upstream, which can refuse an attempt,      *)
(* answer it with anything, or break off.                                   *)
(***************************************************************************)
EXTENDS ChatBody, E2ee, ProxyErrors, ToolPrompts

CONSTANTS
  Bodies,        \* JSON values a client sends
  ShapeOK(_),    \* what validate_schema_shape passes
  Configs,       \* instance: there is a proxy key; tools: the configuration of the tools
  MaxRetries,    \* tools.max_retries
  ProxyPair,     \* the key pair of the proxy
  Enclaves,      \* key pairs the enclave has, one after another
  Words,         \* words of texts
  Answers,       \* texts the model writes
  Faults         \* what can be wrong with the text of an answer

Late == "tool-emulated completion did not finish"

IsText(text) == Size(text) \in Nat /\ text # NotText

Entities == {"&amp;", "&lt;", "&gt;", "&quot;"}

\* A character is no entity.
IsIdentifier(id) == id \in Seq(Range(id)) /\ Range(id) \cap Entities = {}

\* A message as JSON can have it.
IsMessage(m) ==
  /\ Field(m, "content") \notin {Absent, Null} =>
       IF "parts" \in DOMAIN m.content THEN m.content.parts \in Seq(Seq(Words))
       ELSE m.content.text \in Seq(Words)
  /\ "tool_calls" \in DOMAIN m =>
       /\ m.tool_calls \in Seq(Range(m.tool_calls))
       /\ \A call \in Range(m.tool_calls) :
            /\ IsIdentifier(call.id) /\ IsIdentifier(call.name)
            /\ call.arguments \in [value : {call.arguments.value}, spaced : BOOLEAN]
  /\ "tool_call_id" \in DOMAIN m => IsIdentifier(m.tool_call_id)

\* What there can be to correct, as a sequence of at most one failure.
Failures == [error : Faults \cup {Late}, output : Answers \cup {<< >>}]
Corrections == {<< >>} \cup {<<failure>> : failure \in Failures}

ASSUME RetriesAssumption == MaxRetries \in Nat /\ CorrectionLimit \in Nat
ASSUME KeysAssumption ==
  /\ NoPoint \notin {ProxyPair} \cup Enclaves \cup (Nat \X Nat)
  /\ ProxyPair \notin Enclaves
ASSUME AnswersAssumption ==
  /\ Answers \subseteq Seq(Words) /\ \A text \in Answers : Size(text) \in Nat
  /\ Late \notin Faults
ASSUME BodiesAssumption == \A b \in Bodies : b # Misfit => \A f \in DOMAIN b : b[f] # Absent
ASSUME MessagesAssumption ==
  /\ Absent \notin Seq(Words)
  /\ \A b \in Bodies : RequestError(b) = Fine =>
       b.messages \in Seq(Range(b.messages)) /\ \A m \in Range(b.messages) : IsMessage(m)
ASSUME PlaintextAssumption ==   \* of what is sealed for the enclave
  \A b \in Bodies : RequestError(b) = Fine =>
    /\ \A m \in Range(Request(b).messages) : IsText(m.content)
    /\ \A c \in Corrections : \A m \in Range(EmulatedMessages(Request(b), c)) : IsText(m.content)
    /\ Words \cap ({Controller(Request(b))} \cup {Correction(Request(b), failure) : failure \in Failures}) = {}

VARIABLES
  body, config,  \* what the client sends, how the proxy is configured
  enclave,       \* the key pair of the enclave
  pc,            \* where the handler is
  request,       \* the body as it was read, Absent before that
  key,           \* the model key of the session, as the handler copied it
  retries,
  correction,    \* the failure the next attempt mentions, as a sequence of at most one
  response,      \* what the client has: status 0 before it has any
  sent,          \* history: the requests sent upstream
  outcomes,      \* history: how each of them was taken
  answers        \* history: how each attempt that was taken ended

vars == <<body, config, enclave, pc, request, key, retries, correction, response, sent, outcomes, answers>>

Places == {"parse", "session", "attest", "prepare", "send", "upstream", "answer", "done"}

NoKey == PublicKeyHex(NoPoint)
NoResponse == [status |-> 0, code |-> Fine, text |-> Absent]

(* The request. *)

Emulated == ~IsPlain(config.tools, request.tools, request.tool_choice)

\* What the random generator yields for message n of an attempt: no value comes twice.
Drawn(attempt, n) == <<attempt, n>>

Sealed(messages, attempt) ==
  [n \in DOMAIN messages |->
     [ role    |-> messages[n].role,
       content |-> EncryptContent(messages[n].content, key, Drawn(attempt, n), Drawn(attempt, n)).payload ]]

Plaintext == IF Emulated THEN EmulatedMessages(request, correction) ELSE request.messages

\* The request as it is sent, with the headers of both keys.
Outgoing ==
  [ client   |-> PublicKeyHex(ProxyPair),
    model    |-> key,
    settings |-> Settings(request),
    messages |-> Sealed(Plaintext, Len(sent) + 1) ]

(* Answers. *)

Begun == response.status # 0

\* A stream that has begun can only break off.
FailureOf(e) ==
  IF Begun THEN [response EXCEPT !.code = CodeOf(e)]
  ELSE [status |-> StatusOf(e), code |-> CodeOf(e), text |-> Absent]

Fail(e) ==
  /\ response' = FailureOf(e)
  /\ pc' = "done"

Succeed(text) ==
  /\ response' = [status |-> 200, code |-> Fine, text |-> text]
  /\ pc' = "done"

Init ==
  /\ body \in Bodies /\ config \in Configs
  /\ enclave \in Enclaves
  /\ pc = "parse" /\ request = Absent /\ key = NoKey
  /\ retries = 0 /\ correction = << >>
  /\ response = NoResponse
  /\ sent = << >> /\ outcomes = << >> /\ answers = << >>

inputs == <<body, config, enclave>>
attempt == <<retries, correction>>
history == <<sent, outcomes, answers>>

-----------------------------------------------------------------------------

\* ChatCompletionRequest::parse
RefuseBody ==
  /\ pc = "parse" /\ RequestError(body) # Fine
  /\ Fail(Error("request", RequestError(body)))
  /\ UNCHANGED <<inputs, request, key, attempt, history>>

LackKey ==
  /\ pc = "parse" /\ RequestError(body) = Fine
  /\ ~config.instance
  /\ Fail(Error("proxy_instance_key_unavailable", "none"))
  /\ UNCHANGED <<inputs, request, key, attempt, history>>

Accept ==
  /\ pc = "parse" /\ RequestError(body) = Fine
  /\ config.instance
  /\ request' = Request(body)
  /\ pc' = "session"
  /\ UNCHANGED <<inputs, key, attempt, response, history>>

\* SessionManager::get_or_create: a session with the key of some enclave, or with none.
FindSession ==
  /\ pc = "session"
  /\ \/ pc' = "attest" /\ key' = key
     \/ \E pair \in Enclaves : pc' = "prepare" /\ key' = PublicKeyHex(pair)
  /\ UNCHANGED <<inputs, request, attempt, response, history>>

NoSession ==
  /\ pc = "session"
  /\ \E kind \in IdentifierErrors \cup {"exhausted"} : Fail(Error("session", kind))
  /\ UNCHANGED <<inputs, request, key, attempt, history>>

\* ensure_attested_session
Attest ==
  /\ pc = "attest"
  /\ key' = PublicKeyHex(enclave)
  /\ pc' = "prepare"
  /\ UNCHANGED <<inputs, request, attempt, response, history>>

AttestationFails ==
  /\ pc = "attest"
  /\ \/ \E kind \in DOMAIN AttestationCodes \ {"InvalidRequest"} : Fail(Error("attestation", kind))
     \/ Fail(Error("session", "expired"))
  /\ UNCHANGED <<inputs, request, key, attempt, history>>

RefusesTools ==
  IsRefused(config.tools, request.tools, request.tool_choice,
            \A i \in DOMAIN request.tools : ShapeOK(request.tools[i].schema))

\* ToolEmulationContext::from_request, after the session was counted
RefuseTools ==
  /\ pc = "prepare" /\ RefusesTools
  /\ Fail(Error("request", "invalid_request"))
  /\ UNCHANGED <<inputs, request, key, attempt, history>>

Prepare ==
  /\ pc = "prepare" /\ ~RefusesTools
  /\ pc' = "send"
  /\ UNCHANGED <<inputs, request, key, attempt, response, history>>

\* to_venice_e2ee_request, create_chat_completion_stream
Send ==
  /\ pc = "send"
  /\ sent' = Append(sent, Outgoing)
  /\ pc' = "upstream"
  /\ UNCHANGED <<inputs, request, key, attempt, response, outcomes, answers>>

(* The upstream. *)

\* The enclave changes its key.
Rotate ==
  /\ pc # "done"
  /\ \E pair \in Enclaves \ {enclave} : enclave' = pair
  /\ UNCHANGED <<body, config, pc, request, key, attempt, response, history>>

Readable == \A m \in Range(sent[Len(sent)].messages) : DecryptContent(m.content, enclave).ok

\* Only an attempt the enclave can read is taken.
Taken ==
  /\ pc = "upstream" /\ Readable
  /\ outcomes' = Append(outcomes, Status(200))
  /\ response' = IF request.stream THEN [NoResponse EXCEPT !.status = 200] ELSE response
  /\ pc' = "answer"
  /\ UNCHANGED <<inputs, request, key, attempt, sent, answers>>

NotTaken ==
  /\ pc = "upstream"
  /\ \E outcome \in {Status(401), Status(500), Failed("timeout"), Failed("request")} :
       /\ outcomes' = Append(outcomes, outcome)
       /\ Fail(UpstreamError(outcome))
  /\ UNCHANGED <<inputs, request, key, attempt, sent, answers>>

\* Payloads that can come back for a text: what it was sealed as, or a damaged one.
Payloads(text) ==
  LET draw == Drawn(Len(sent), 0)
      good == Encrypted(text, sent[Len(sent)].client.point, draw, draw)
  IN  { good, Encrypted(text, enclave, draw, draw),
        [good EXCEPT !.nonce = Drawn(0, 0)], [good EXCEPT !.point = NoPoint],
        [good EXCEPT !.digits = FALSE], [good EXCEPT !.chars = 2 * MinPackedPayloadLen - 2] }

Ended(payload, fault) == answers' = Append(answers, [payload |-> payload, fault |-> fault])

\* The stream fails, or ends before the answer does.
BreakOff ==
  /\ pc = "answer"
  /\ Ended(Absent, Absent)
  /\ \E kind \in {"stream", "malformed"} : Fail(Error("stream", kind))
  /\ UNCHANGED <<inputs, request, key, attempt, sent, outcomes>>

Undecryptable ==
  /\ pc = "answer"
  /\ \E text \in Answers \cup {NotText} : \E payload \in Payloads(text) :
       /\ ~DecryptContent(payload, ProxyPair).ok
       /\ Ended(payload, Absent)
  /\ Fail(Error("stream", "decryption"))
  /\ UNCHANGED <<inputs, request, key, attempt, sent, outcomes>>

\* A text, or the calls in it.
Complete ==
  /\ pc = "answer"
  /\ \E text \in Answers : \E payload \in Payloads(text) :
       /\ DecryptContent(payload, ProxyPair).ok
       /\ Ended(payload, Absent)
       /\ Succeed(DecryptContent(payload, ProxyPair).text)
  /\ UNCHANGED <<inputs, request, key, attempt, sent, outcomes>>

\* Wrong variant: the first correction stays.
AskAgainAsBefore(error, output) ==
  /\ retries' = retries + 1
  /\ correction' = Append(correction, [error |-> error, output |-> output])
  /\ pc' = "send"
  /\ response' = response

\* One more attempt, with this correction and no other.
AskAgain(error, output) ==
  /\ retries' = retries + 1
  /\ correction' = <<[error |-> error, output |-> output]>>
  /\ pc' = "send"
  /\ response' = response

\* Wrong variant: one retry too many.
RetryOnceMore(error, output) ==
  IF retries > MaxRetries
  THEN Fail(Error("exhausted", error)) /\ UNCHANGED attempt
  ELSE AskAgain(error, output)

Retry(error, output) ==
  IF retries >= MaxRetries
  THEN Fail(Error("exhausted", error)) /\ UNCHANGED attempt
  ELSE AskAgain(error, output)

InvalidCall ==
  /\ pc = "answer" /\ Emulated
  /\ \E text \in Answers, fault \in Faults : \E payload \in Payloads(text) :
       /\ DecryptContent(payload, ProxyPair).ok
       /\ Ended(payload, fault)
       /\ Retry(fault, DecryptContent(payload, ProxyPair).text)
  /\ UNCHANGED <<inputs, request, key, sent, outcomes>>

\* Only a buffered answer has a time limit.
TooLate ==
  /\ pc = "answer" /\ Emulated /\ ~request.stream
  /\ Ended(Absent, Late)
  /\ Retry(Late, << >>)
  /\ UNCHANGED <<inputs, request, key, sent, outcomes>>

Next ==
  \/ RefuseBody \/ LackKey \/ Accept
  \/ FindSession \/ NoSession \/ Attest \/ AttestationFails
  \/ RefuseTools \/ Prepare \/ Send
  \/ Rotate \/ Taken \/ NotTaken
  \/ BreakOff \/ Undecryptable \/ Complete \/ InvalidCall \/ TooLate

Spec == Init /\ [][Next]_vars

-----------------------------------------------------------------------------
(***************************************************************************)
(* Properties.                                                              *)
(***************************************************************************)

\* Type: every attempt that was taken was sent, every answer belongs to one that was
\* taken, there are no more attempts than retries allow, and at most one correction.
TypeOK ==
  /\ body \in Bodies /\ config \in Configs /\ enclave \in Enclaves
  /\ pc \in Places
  /\ key \in {PublicKeyHex(pair) : pair \in Enclaves \cup {NoPoint}}
  /\ retries \in 0 .. MaxRetries
  /\ Len(correction) <= 1 /\ Len(correction) <= retries
  /\ Len(sent) \in 0 .. retries + 1
  /\ Len(outcomes) \in 0 .. Len(sent) /\ Len(answers) \in 0 .. Len(outcomes)
  /\ response.status \in {0, 200, 400, 500, 502, 503}

\* The enclave that has the pair a request names as the model's key.
Opened(k) ==
  [n \in DOMAIN sent[k].messages |->
     [ role    |-> sent[k].messages[n].role,
       content |-> DecryptContent(sent[k].messages[n].content, sent[k].model.point).text ]]

IsPrompt(piece) == piece \notin Words /\ "prompt" \in DOMAIN piece

\* A content without the prompts behind it.
Unprompted(content) ==
  SubSeq(content, 1, Max({0} \cup {n \in DOMAIN content : ~IsPrompt(content[n])}))

\* Messages without what the proxy itself says; one it put in front is gone.
OfClient(messages) ==
  LET said  == [n \in DOMAIN messages |->
                  [messages[n] EXCEPT !.content = Unprompted(@)]]
      added == Len(messages) > Len(body.messages)
  IN  IF added /\ messages[1].role = "system" /\ said[1].content = << >> THEN Tail(said) ELSE said

Character(e) ==
  CASE e = "&amp;" -> "&" [] e = "&lt;" -> "<" [] e = "&gt;" -> ">" [] e = "&quot;" -> "\"" [] OTHER -> e

\* An identifier, read back from the attribute it stands in.
Unescaped(id) == [n \in DOMAIN id |-> Character(id[n])]

\* The words of a content, whatever its form.
WordsOf(content) ==
  IF content \in {Absent, Null} THEN << >>
  ELSE IF "parts" \in DOMAIN content THEN FlattenSeq(content.parts) ELSE content.text

TellsCalls(pieces, calls) ==
  /\ Len(pieces) = Len(calls)
  /\ \A n \in DOMAIN calls : /\ Unescaped(pieces[n].call) = calls[n].id
                             /\ Unescaped(pieces[n].name) = calls[n].name
                             /\ pieces[n].arguments.value = calls[n].arguments.value

Conveys(told, m) ==
  LET words == WordsOf(Field(m, "content"))
      calls == IF "tool_calls" \in DOMAIN m THEN m.tool_calls ELSE << >>
  IN  IF m.role = "tool"
      THEN /\ told.role = "user" /\ Len(told.content) = 1
           /\ told.content[1].text = words
           /\ Unescaped(told.content[1].result) = m.tool_call_id
      ELSE /\ told.role = m.role
           /\ IsPrefix(words, told.content)
           /\ TellsCalls(SubSeq(told.content, Len(words) + 1, Len(told.content)), calls)

\* A content that is an empty text, with calls next to it.
IsEmptyText(m) ==
  /\ Field(m, "content") \notin {Absent, Null} /\ WordsOf(m.content) = << >>
  /\ "tool_calls" \in DOMAIN m

ToldAs(k, n) ==
  LET told == OfClient(Opened(k))
  IN  Len(told) = Len(body.messages) /\ Conveys(told[n], body.messages[n])

\* What the model reads is the conversation the client sent: whatever the form of the
\* contents, in every attempt, whoever holds the key named in the header finds each of
\* the client's messages once and in its place, with its words, its calls and its result
\* (normalize_messages, to_venice_e2ee_request, tool_emulated_messages).  Calls next to
\* an empty text are ToolHistoryArrives.
ConversationArrives ==
  \A k \in DOMAIN sent : \A n \in DOMAIN body.messages :
    ~IsEmptyText(body.messages[n]) => ToldAs(k, n)

\* An assistant message brings its earlier calls to the model, whatever is in its content
\* (normalize_assistant_message, which says it normalizes "supported prior tool-call
\* history").
ToolHistoryArrives ==
  \A k \in DOMAIN sent : \A n \in DOMAIN body.messages :
    "tool_calls" \in DOMAIN body.messages[n] => ToldAs(k, n)

\* An attempt after the first is the first one and one correction more, whichever attempt
\* it is: the correction tells of the answer just before it, no earlier one is left, and
\* no more of that answer is repeated than the limit allows (tool_emulated_messages,
\* correction_message).
RetryAddsOnlyCorrection ==
  \A k \in DOMAIN sent \ {1} :
    /\ sent[k].settings = sent[1].settings
    /\ sent[k].model = sent[1].model /\ sent[k].client = sent[1].client
    /\ LET before == Opened(1)
           after  == Opened(k)
       IN  /\ DOMAIN after = DOMAIN before
           /\ \E n \in DOMAIN before :
                LET said == after[n].content[Len(after[n].content)]
                IN  /\ after = [before EXCEPT ![n].content = Append(@, said)]
                    /\ IsSystem(before[n]) /\ said.prompt = "correction"
                    /\ said.error = answers[k - 1].fault
                    /\ Len(said.output) <= CorrectionLimit + 1
                    /\ IF answers[k - 1].fault = Late THEN said.output = << >>
                       ELSE \/ said.output = answers[k - 1].payload.sealed.text
                            \/ IsPrefix(Front(said.output), answers[k - 1].payload.sealed.text)

\* The settings of a request go upstream as they are, at any value a JSON number or text
\* can have, and the proxy makes none up: what is left out is null, or it is read by the
\* proxy itself, or it is one of the two fields that are documented as ignored.
SettingsHonoured ==
  \A k \in DOMAIN sent :
    LET settings  == sent[k].settings
        forwarded == {f \in DOMAIN settings \cap DOMAIN body : settings[f] = body[f]}
        own       == {"stream", "stream_options", "venice_parameters"}
        read      == own \cup {"messages", "tools", "tool_choice", "metadata", "parallel_tool_calls"}
    IN  /\ \A f \in DOMAIN body \ read : f \in forwarded \/ (body[f] = Null /\ f \notin DOMAIN settings)
        /\ DOMAIN settings \subseteq forwarded \cup own
        /\ settings.stream /\ settings.venice_parameters.enable_e2ee
        /\ ~settings.venice_parameters.include_venice_system_prompt
        /\ settings.stream_options.include_usage \/ Field(Field(body, "stream_options"), "include_usage") = FALSE

\* The status tells what became of the request: what the client or the proxy is to blame
\* for was never sent, an upstream that refuses the proxy's own credentials is a bad
\* gateway, and a success was taken by the upstream in its last attempt
\* (ProxyError::status, code).
StatusTellsCourse ==
  pc = "done" =>
    /\ response.status \in {400, 500, 503} => sent = << >>
    /\ response.status = 200 => outcomes # << >> /\ outcomes[1] = Status(200)
    /\ response.code = Fine =>
         /\ response.status = 200
         /\ outcomes[Len(outcomes)] = Status(200) /\ Len(answers) = Len(sent)
    /\ response.code = "invalid_tool_call" => Len(sent) = MaxRetries + 1 /\ Len(answers) = Len(sent)
    /\ response.code \in {"upstream_authentication_failed", "upstream_status_error",
                          "upstream_timeout", "upstream_unavailable"} =>
         /\ response.status \in {200, 502}
         /\ ~IsSuccess(outcomes[Len(outcomes)]) /\ Len(answers) < Len(sent)

\* What the client is given was sealed for this proxy by the last attempt, unchanged, and
\* a payload sealed for it is never refused, even that of an empty text
\* (decrypt_content, validate_packed_payload_hex).
SealedBothWays ==
  LET last == answers[Len(answers)]
      ours(p) == /\ p = Encrypted(p.sealed.text, ProxyPair, p.point, p.nonce)
                 /\ p.point # NoPoint /\ p.sealed.text # NotText
  IN  /\ pc = "done" /\ response.code = Fine =>
           last.fault = Absent /\ ours(last.payload) /\ response.text = last.payload.sealed.text
      /\ pc = "done" /\ response.code = "e2ee_response_decryption_failed" => ~ours(last.payload)

=============================================================================
