# A verification of the Venice E2EE proxy

The proxy (`src/src`, Rust) accepts OpenAI chat requests in clear text, encrypts
them to a model key it has attested, and gives the client back the decrypted
answer. It emulates tool calling in text, because an encrypted upstream cannot
do it. These TLA+ modules model the parts of it that keep state, TLC checks them
on small instances, and TLAPS proves the most important facts for all instances.

Line numbers refer to the repository, paths are relative to `src/`.

## 1. Inventory

| Component | State it keeps | Operations | What is hard about it |
|---|---|---|---|
| Session store, `src/sessions.rs` | map from (model, session id) to a session: request count, deadlines, attested model key | `get_or_create`, `set_attested_model_state`, `cleanup_expired` | shared by all requests; three limits; the clock is read outside of the lock |
| Chat handler, `src/http.rs` 157-292 | a clone of the session, carried over an await | `create_chat_completion`, `ensure_attested_session` | check, await, act: the session may change between look-up and store |
| Streamed tool emulation, `src/http.rs` 310-349, 687-932, 1685-2056 | transformer per upstream attempt: pending text, tool buffer, flags; retry count and correction | one upstream event, attempt start, retry | a marker cut across chunks; retries on a stream the client already reads; limits |
| Buffered tool loop, `src/http.rs` 351-459, 522-629 | retry count, last correction, completion buffer | attempt, timeout, classification, answer | a timeout racing a late answer, the retry bound |
| Plain chat stream, `src/http.rs` 761-807, 1503-1684 | role sent, finish sent | choice, usage, done | interleaved choices, content after the finish |
| Completion buffer, `src/http.rs` 1267-1440 | roles, texts and finish per choice, usage, metadata | choice, usage, done, answer | agreement with the streamed form of the same answer |
| SSE parser, `src/http.rs` 1012-1079, 1443-1500 | rest of an unfinished event | push a network chunk, finish | independence from where the network cuts; errors behind good events |
| Attestation policy, `src/attestation.rs` | none | `verify_model_attestation` and the TDX and NVIDIA policies | many optional fields: none may be skipped |
| Tool emulation, `src/tools.rs` | what the request offers; the lenient parser's scanner | context, prompts, classification, schema validation | damaged output: what is lenience and what is guessing |
| Request conversion, `src/openai/chat.rs` | none | body to request or first refusal, message normalisation, settings for the upstream | many optional fields; a conversation must arrive whole |
| Venice client, `src/venice.rs` | none | list models, fetch evidence, open a stream | connect and read timeouts, which failure is whose fault |
| E2EE codec and keys, `src/e2ee.rs`, `src/keys.rs` | the proxy's key pair | encrypt, decrypt, validate keys and payloads | the enclave may change its key under a session |
| Errors, `src/http.rs` 2243-2350 | none | status and code of every error | the same error before and after a stream has begun |
| Configuration, start-up, logging | constants | load, validate | nothing concurrent |
| vLLM tool parsers, `src/vllm_tool_parser` | undecided text, lexical state of the arguments | push, finish; conversion of GLM parameters by schema | incremental: a result must not depend on the pieces |
| Model list | none | filter | nothing concurrent |

How they meet: a handler (one task per request) asks the session store for its
session under one short mutex; if the session has no model key it awaits the
attestation endpoint and writes the result back under the same key. With the
key in hand it sends the upstream request. The answer arrives as network chunks,
which the SSE parser cuts into events; a transformer (streamed answer) or a
buffer (whole answer) consumes them one by one. With tools, a text that should
be a tool call and is not one makes the handler ask again with a correction.

What makes each correct: a session serves no more and no longer than its limits
say, and its key stays with its conversation; a handler encrypts to a key
attested for the model it was asked for; a client sees each text once and in
order, tool calls only whole and validated, one finish, and an end; what is held
back is bounded; retries end.

## 2. Plan

In the order of importance; all of it is done except what 11 names. The theorems
about 4, 5 and 6, all that comes from Venice, are together in `Venice_proofs`.

1. `SessionManager`, `ChatRequests`, `ChatRequests_proofs`: the store and the
   handlers over it, their safety proved.
2. `ClientStream` (what a streaming client is promised) and `ToolStream` (the
   streamed emulation with its retries), which implements it, proved in
   `ToolStream_proofs`.
3. `RetryLoop` (what a request with tools promises about its upstream requests)
   and `ToolRetry` (the buffered loop with its timeout), which implements it,
   with `ToolRetry_proofs`; `ToolStream` implements it too.
4. `ChatStream` over `CompletionBuffer`: the plain stream and the whole answer
   fed the same upstream events.
5. `SseParser`: how network chunks become events, against a reader that takes
   one byte at a time.
6. `Attestation`: concurrent verifications and the decision over optional
   fields.
7. `ToolCalls` with `ToolParser` and `JsonSchema`: from the text of an answer to
   validated calls, against the strict parser and the meaning of the keywords
   (the transformers take the verdict as a parameter), with `ToolCalls_proofs`.
8. `UpstreamChat`: one request from its body to its answer, over `ChatBody`
   (parsing), `E2ee` (codec), `ProxyErrors` (statuses), `ToolContext` and
   `ToolPrompts` (what emulation adds), with `UpstreamChat_proofs`.
9. `GlmParser`: the third format of `ToolCalls`. `Parsers_proofs` has the lemmas
   about the parsers and the schema check by themselves.
10. `SequenceLemmas`: least and greatest elements, induction, folds and steps that
    are repeated, for the proofs of 2, 5, 7 and 8.
11. Left: a lease of a model key as an abstract specification of the store that
    also covers its use after the session has expired, and the model list.

## 3. Modules

### SessionManager and ChatRequests

`SessionManager` has the map and one action per exit of each operation:
`ReuseSession` and `OpenSession` (`get_or_create`), `SetAttested`, `DropExpired`
and `MissSession` (`set_attested_model_state`), `CleanupExpired`. An operation
holds the mutex from beginning to end, so it is atomic; its clock reading is a
parameter because the code takes it before the lock. Identifiers and model ids are
sequences of symbols, because what the code does with them is to concatenate them
with a colon between (`session_key`), which either may hold: the code asks of both
only that they are not blank.

`ChatRequests` has one program counter per request and the handler's locals:
`hold` is the clone of the session. `Admit` is everything up to the first await,
`AttestationVerified` and `AttestationFails` are the outcomes of the await,
`StoreAttestation` the write back (under the session's key only, so that late
evidence may land in the session that replaced the one it was fetched for), `Answer`
the rest of the handler, which uses only the clone; `Disconnect` drops the handler
where it awaits. `AttestationStep` is what follows the look-up until the handler has
its key. `served` and `admitted` are history.

Two conversations are stored under one text if their models and identifiers format
alike: model `a` with identifier `c:d` and model `a:c` with `d`. They share a session
in the model as they do in the code. So the properties about keys and evidence say
two things: what holds always (the key was attested for a model under which the
conversation could be named, `NameOf`), and what holds of a conversation whose name
has one reading only (`Unambiguous`), which then gets its own model's key. A uuid that
the proxy draws is a symbol of its own, and a client may send it back, alone or within
a longer identifier, as soon as the headers of an answer have told it (`Told`,
`CanBeSent`).

The clock may disagree with itself: every reading is within `Skew` of `now`.

### ClientStream and ToolStream

`ClientStream` is short: text that grows (`Speak`), one conclusion that brings
the tool calls and the finish reason (`Conclude`), the end marker (`Close`), or
silence (`Abort`). `ToolStream` runs the transformer of `http.rs` on sequences
of symbols: `PushContent` is `push_decrypted_content`, `FinishContent` is
`finish_buffered_content`, `HandleContent` is `handle_choice_chunk`,
`RetryOrFail` is `tool_stream_event_outputs`. `Connect`, `ConnectFails`,
`TakeChoice`, `TakeUsage`, `TakeDone`, `BreakOff` and `Leave` are what can
happen to an attempt. `ClientPromise` maps it to `ClientStream`.

Lengths are in bytes as in the code (`Bytes` counts a wide character twice), so
that the cut of the held-back end at a character boundary is modelled. What a
text parses to is a parameter (`Unparsable`, `HasCalls`): `Classify` keeps the
order of the tests and the limit.

### ChatText, ToolOutput and CompletionBuffer

What the answer path shares: texts (`ChatText`), the verdict on a text
(`ToolOutput`, `classify_assistant_output`) and the buffer of a whole answer
(`CompletionBuffer`, `OpenAiChatCompletionBuffer`). They have no variables; each
operator of the buffer is a branch of `handle_event`. A chunk after decryption
is a record whose text fields may be absent, which is not the same as empty.

### UpstreamChat, ChatBody, E2ee, ProxyErrors, ToolContext and ToolPrompts

`UpstreamChat` follows one request through the whole of the program, with the
parts that have modules of their own reduced to what they hand over. The handler
is at one of the places `parse`, `session`, `attest`, `prepare`, `send`,
`upstream`, `answer`, `done`. `RefuseBody`, `LackKey` and `Accept` are the outcomes
of parsing; `FindSession`, `NoSession`, `Attest` and `AttestationFails` are those of
`ensure_attested_session`; `RefuseTools` and `Prepare` those of
`ToolEmulationContext::from_request`; `Send` is `to_venice_e2ee_request` with the
messages of this attempt; `Taken` and `NotTaken` the answer of the HTTP layer;
`Complete`, `BreakOff`, `Undecryptable`, `InvalidCall` and `TooLate` the ends of one
attempt. The environment acts too: `Rotate` gives the enclave another key at any
moment, so the key of a session may be an old one, and a payload that comes back
may be sealed for somebody else, damaged or too short (`Payloads`). `sent`,
`outcomes` and `answers` are history.

`ChatBody` is `ChatCompletionRequest::parse`: `RequestError` is the code of the
first check that fails, `Request` what is read otherwise, with the messages of
`normalize_messages` and the settings of the upstream request. A JSON object is a
function on its fields; of a value the code asks for little more than its kind, so
that `Misfit`, `Blank` and `Fraction` stand for many. `E2ee` has the formats of keys
and payloads with all tests in their order, on symbolic cryptography: a key pair is
an atom and a sealed text opens with the shared secret, the context string and the
nonce it was sealed with. `ProxyErrors` is the table of statuses and codes.
`ToolContext` says when a request is plain, refused or emulated and which tools it
offers, `ToolPrompts` where the prompts go and what a correction holds; a prompt is
one piece with what its wording depends on. What is a message that JSON can have
(`IsMessage`), a text that can be sealed (`IsText`) and an identifier whose characters
are no entities (`IsIdentifier`) are the assumptions on the bodies; `Unprompted` takes
the prompts from behind a content, for the properties.

### RetryLoop and ToolRetry

`RetryLoop` counts requests: at most `MaxTries`, none after the outcome, and
"exhausted" only after all of them. `ToolRetry` is the loop of
`openai_tool_emulated_chat_response`: `Connect` and `ConnectFails` send the
request with the correction, `TakeChoice` and `TakeUsage` fill the buffer,
`TakeDone` passes it to `Classify`, `Timeout` is the timer around one attempt and
can fire at any moment of it, `BreakOff` is any error of the attempt. The history
`got` is what the attempt has sent and `failures` what was wrong with each one
before: the answer and the correction are compared with those. `Outcome` maps
the loop to `RetryLoop`, here and in `ToolStream`.

### ChatStream

Which implementation answers a request without tools depends on its `stream`
flag. `ChatStream` runs both on the same events: `StreamTakesChoice` and
`StreamTakesDone` are `OpenAiChatStreamTransformer`, `WholeTakesChoice` and
`WholeTakesDone` use `CompletionBuffer`. Each goes its own way once it has failed.
The client of the stream adds up what it receives. `orderly` remembers whether
the upstream has kept to its own order, because the plain stream, unlike the one
with tools, passes on choices that follow a finish.

### SseParser

The layer below the transformers: `ParseEvent` is `parse_sse_event` (an event has
the type of its last event field, `TypeOf`, and all of its data, `DataOf`), `Noted`
drops what is no event, `Boundary` is `sse_event_boundary`, `Split` the loop of `push`, `Classify` the outcome of
`classify_upstream_event` and `TakeChunk` one turn of `next_sse_events` together
with the consumer's loop over the events. Bytes are symbols and a line shows its
field in its first byte; JSON is the parameter `Payload`. The reference
`ReadAlone` reads byte by byte and never looks ahead; it has the text since the last event, the
events as they were and what they parse to (`Arrived`, of the `BytesReceived`). The code decodes each
network chunk as UTF-8 by itself, so a character that the network cuts in two
ends the stream, and `push` drops the events that it has parsed from a chunk if
a later event of the same chunk is malformed, so a complete answer may be lost to
what follows it: both are in the model, and are why `CutsDoNotMatter` speaks of
streams that go on or are done. A connection that is lost is `ConnectionLost`; how a
stream that fails ends for its client is in `ToolStream` and `ChatStream` (`BreakOff`).
Some names begin with `Sse` here and with `Attest` in `Attestation`, because
`Venice_proofs` extends both together with `ChatStream`.

### Attestation

Calls of `verify_model_attestation` that overlap, each with a nonce of its own:
`Begin` sends the request, `Answered` is the answer together with
`verify_attestation_evidence`, `FetchFails` everything that is no evidence. The
decision is `Refusal`, made of `EnvelopeRefusal`, `KeyRefusal`, `TdxRefusal` and
`NvidiaRefusal` in the order of the code; it is the error the call ends with, and
"none" is acceptance. A key has three encodings and an address two spellings, which
the code makes one (`NormalizeKey`, `NormalizeAddress`); report data is the digest
or the address it begins with. The policy is part of the initial state, so one
run checks all of them. The upstream may send any evidence with any nonce
that somebody has sent (history `earlier`: those sent before a call). In
`ChatRequests` a call of this is one await (`AttestationVerified`,
`AttestationFails`), which is right for its model because of `EvidenceOfThisCall`.

### ToolCalls, ToolParser, GlmParser and JsonSchema

The verdict that the answer path takes as a parameter. `ToolParser` is the
vendored parser of marked JSON, for its Hermes and Qwen formats: `NextEvent` makes
one event of the buffer, waits or fails, `Push` runs it to the end of the text.
It works on tokens; a header (`{"name": ..., "arguments":`) is one, and white space,
braces, quotes and markers are others. `cut` is an end marker that breaks off: behind
whole arguments the parser waits for the rest of it, and takes nothing else. `ToolCalls` has one step per push: `OfferTools`,
`AnswerPlainly` and `Refuse` are the outcomes of `from_request`, `ParseNative` the
model's own format, `PushPiece` and `FinishText` the lenient parser, `Judge`
validation, fallback and verdict. The second scanner of the lenient parser only
looks at the arguments of the last call read, so it is a function of the calls
(`ArgumentsComplete`). A piece that fails loses the calls it had just read:
`PushPiece` keeps the parser of before. What is `unread` is pushed piece by piece, each
up to the next tag (`PieceEnd`).

`GlmParser` is the parser of GLM's XML: `GlmTextEvent`, `CallEvent` and
`AfterCallEvent` are its three modes, `ReadParameter` reads the pairs of a call, one
tag or word at a time. A parameter is text, and what it becomes depends on the
schema: `Types` lists the types that the schema gives it, in its order (`anyOf` counts
here and nowhere else), and `Converted` takes the first that can read the text
(`AsType`, with the JSON readings of a text as the parameter `Readings`) and the text
itself if there is none. Whatever is declared, `null` is null; whatever is valid
JSON is an object or an array for a schema that lists one of these, the number 5
too, which validation then refuses. A name in a schema that is no type means a string.
The end of a text (`GlmFinished`) fails a call that has begun, and forgives a marker
with nothing behind it.

Where the code calls itself or loops, these modules have recursive functions, so that
they can be proved about: of the place in the text for the parsers (`Push`, `RunGlm`
take one event after the other until one waits or fails), of the level for what is
nested. JSON and schemas have at most `Nesting` levels, as serde_json reads no more than
128; what is said of one level rests on the next (`AllWithin`, `Valid`, `Types`).

`JsonSchema` has the check as the code writes it (`Valid`) and what the keywords
mean (`Conforms`). The two are not the same: a schema that mentions `object` in a
list of types, or has one of the keywords for objects and no type, must hold an
object for the code, so that `type: ["object", "null"]` refuses null, and 1.0 is no
integer for it. The code is the stricter one in each case, which is what
`AcceptedCallsConform` says. Also in the model, and no violation of anything the
documentation says: an answer that ends behind a start marker is a normal text,
and a call that is malformed behind a whole one is dropped silently.

## 4. Runs

| Run | Instance | What it shows |
|---|---|---|
| `sessions_safety` | 3 requests, models and identifiers that format alike, the request fallback and uuids sent back, budget 2, idle 3, lifetime 4, clock to 3, readings off by 1 | keys and evidence stay with the name of the conversation, and with its model where the name has one reading; a request without an identifier is by itself; budget, lifetime, idle limit and dropping are exact |
| `sessions_last_request` | 1 request, budget 1 | *violation*: the last request of a budget is refused if it must store evidence |
| `tool_stream` | marker of 3 characters, limit of 6 bytes, 2 corrections, 3 chunks an attempt | text, marker, buffers, retries, role; the promise; the end |
| `tool_stream_required` | the same, a call is required | *violation*: a streamed answer without a call is accepted |
| `tool_stream_no_retry` | as `tool_stream`, with 1 correction | *violation*: a stream is retried after bad output |
| `tool_retry` | limit of 3 bytes, 2 corrections, 2 chunks an attempt, a timeout anywhere | one attempt's answer, and valid; the right correction; bounded retries; the end |
| `chat_stream` | 3 events of any shape, 3 choice indexes of which one malformed | streamed and whole answers agree; the role; the promise |
| `sse_parser` | three pieces of 14 (fields, halves of events, all line ends, whole events), cut at any byte | events do not depend on the cuts; what is handed on is in order and usable; failures have a cause |
| `attestation` | 2 calls, 2 models, 2 nonces, 2 keys, all 12 policies, evidence with one wrong field or any hardware evidence | evidence is trusted by the call it was made for, its key is bound, the policy is monotone, required verifiers fail closed |
| `tool_calls` | texts of three of 17 fragments behind nothing, an open call or a whole one, in three formats; 52 schemas with 17 arguments, 58 with 11 lists of GLM parameters; all request shapes | lenience adds only what is documented; calls stand in the text, whole; GLM calls are read one by one and their parameters as declared; accepted calls conform |
| `upstream_chat` | some 300 bodies that differ from a plain one in a field or in their messages, with tools and without; 2 enclave keys, 2 answers, 6 payloads for each, 2 corrections | the conversation arrives whole in every attempt, a retry adds one correction, settings go through, an answer was sealed for the proxy, the status tells what happened |
| `chat_history` | the same | *violation*: calls next to an empty text do not reach the model |

Why the bounds are enough. Three requests are one that fills a session, one that
expires or exhausts it, one that replaces it; that is the longest story the
store can tell about a key, and two models and two scopes tell the keys apart.
A clock of four values passes both limits with readings on either side of them.
Requests of `a` with `c:d` and of `a:c` with `d` meet in one session while either
attests; a third one replaces it. With a budget of 2 a session that is used again is
used up, so that its lifetime is put to the test where evidence is stored late; for
greater budgets `LifetimeTheorem` speaks. A uuid is sent back alone here, in
`PrivacyTheorem` within any model id or identifier.
In `tool_stream` three chunks cut a marker of three characters in every way, and
six bytes let a call fit and be overrun both in the buffer and in the pending
text of a corrected attempt. Two corrections distinguish the first from the last.
In `tool_retry` two chunks make a call, an invalid one, a text that fits and one
that does not, with a rest that a timeout can cut off. In `chat_stream` three
events are a delta, a finish and something after it. In `sse_parser` two pieces
make an event, mix its line ends or leave its delimiter open, and the third is
what comes behind it. In `attestation` two calls overlap or follow one another,
and a second nonce, model and key are what is wrong about evidence. In
`tool_calls` a damage has a place, a cause and something behind it: three
fragments, a marker that breaks off among them, behind each of the three states the
parser can be in; no schema, value or `anyOf` of it has more levels than `Nesting`, which is 4. A GLM parameter is each text
that the conversion tells apart: one with every reading, with some or with none, a
number too large for an integer, nothing and `null`. In
`upstream_chat` the fields of a body are checked one by one in the code, each
against its own value only, so that bodies differ in one field, and messages are
converted one by one, except that the tool prompt looks at the first: one, two and
three messages put a system message at any place. Two keys are the right one and an
old one.
`MaxTime`, `Skew`, `MaxEvents` and `MaxRequests` (of `ToolStream` and
`ToolRetry`, a saturating count) are the bounds of the models and have no counterpart in the code.

Fairness. `ChatRequests` assumes none, and no property says that every request ends,
because the code does not see to it: the fetch of the evidence has
`venice.request_timeout` as a whole, but the chat call (`src/venice.rs` 100-112) has
only a connect timeout and a timeout for each read (57-58), and what reads its answer,
streamed or plain and whole (`src/http.rs` 301-303, 578-605), reads until the upstream
stops. An upstream that keeps sending a little keeps the handler for ever. That no
handler is left without a step, whatever becomes of its session, is the check for
deadlock in `sessions_safety`.

`tool_stream` assumes that each wait for the upstream returns, as the timeouts for
connecting and reading make it (weak fairness of `Progress`), and, by `MaxEvents`, an
upstream that does not send chunks forever: the code has no limit of its own there
either. `tool_retry` assumes only that sending a request returns (`Connect` or
`ConnectFails`) and that the timer fires (`Timeout`), nothing of the upstream: the
buffered path with tools ends by itself.

Each property of a passing run has a wrong variant of the code it must catch,
defined next to the right one and marked `Wrong variant`.

## 5. Findings

Each of these is a run that TLC must find violated.

- `sessions_last_request`: the request that brings a session to `max_requests` is
  refused if it is the one that attests it, since the store tests the limit again
  when the evidence is stored (`src/sessions.rs` 211, 297); `max_requests = 1`, which
  the configuration accepts, serves nobody.
- `tool_stream_no_retry`: `README.md` 189 says that streamed tool calls cannot be
  retried after bad output and fail the stream. They are retried, with as many
  corrections as whole answers (`RetryOrFail` of `ToolStream`, `src/http.rs` 904).
- `tool_stream_required`: a streamed answer need not contain the tool call that the
  request requires (`src/http.rs` 1818 against `src/tools.rs` 355).
- `chat_history`: an assistant message with `content: ""` and tool calls loses its
  calls (`src/openai/chat.rs` 699); with `null` or no content it keeps them.

### Divergences

What the models follow although something else in the repository reads otherwise;
none of it has a run of its own.

- `src/sessions.rs` 418 says that the key scopes an identifier to a model id. It joins
  the two with a colon (420), which both may hold, so a request for model `a:c` with
  identifier `d` gets the session and the key of model `a` with `c:d`. This happens in
  `sessions_safety`; `KeyForRequestedModel` and `EvidenceOfSameConversation` say what
  holds of such pairs, and what holds of all others.
- `src/e2ee.rs` 123 fails closed on missing encrypted content. Only whole answers
  take this path: a stream that ends without any content is passed on as an empty
  answer. `PathsAgree` says where the two differ.
- `src/tools.rs` 351 says that text around calls is dropped. For a GLM model all that
  is behind other text behind a call is dropped, further calls too (`AfterCallEvent`).

## 6. Proofs

`SequenceLemmas` has what several proofs rest on. Induction is stated about sets: one
that contains 0 and the successor of each of its elements contains all naturals
(`Induction`, from the least element of a set of naturals, `LeastNatural`), and so does
one that contains each natural below which it has all (`StrongInduction`); one that
contains the empty sequence and what `Append` makes of its elements contains all
sequences (`SequenceInduction`). A fold takes one step for each element, and there is
a function that takes them (`FoldExists`, with `TakesSteps`): what the steps keep
holds of the fold of every beginning (`RunTyped`), and folds that take the same steps
have the same values (`SameRuns`). Steps that are repeated define a function of how
often (`IterationExists`); if each makes something smaller they end (`EndsInTime`), and
end in the same way from any of the values on the way (`SameEnd`).

`ChatRequests_proofs` begins with lemmas about the store: a key ends like the
identifier in it, so that keys that agree mention the same uuids however they are cut
(`KeyEndsLikeIdentifier`), and the effect of each operation on the map. It proves for
any number of requests, any model ids and identifiers, any limits and any clock skew:

| Theorem | Property |
|---|---|
| `TypeCorrect` | `TypeOK` |
| `BudgetTheorem` | `BudgetKept` |
| `LifetimeTheorem` | `LifetimeBounded` |
| `KeyBinding` | `KeyForRequestedModel` |
| `EvidenceIsolation` | `EvidenceOfSameConversation` |
| `DropTheorem` | `DroppedOnlyWhenExpired` |
| `StickyTheorem` | `AttestationSticky` |
| `PrivacyTheorem` | `RequestScopeIsPrivate` |
| `IdleTheorem` | `NoIdleGap`, if `2 * Skew < IdleTtl` |

Nothing is assumed of the names in a model id. Where no model id has a colon each
conversation is `Unambiguous` (`DelimiterFreeUnambiguous`), and the second halves of
`KeyBinding` and `EvidenceIsolation` are then about all of them; where one has, they
are about those that no other model and identifier are formatted like.

The invariant is `IInv` of `ChatRequests`. The budget is not inductive alone: a
count in the map says nothing of how many requests were served unless it *is*
that number. So `SessionsTellHistory` says that the count, the deadline and the
evidence of each session in the map are those of the history, `OpenersDistinct`
that no two keys hold the same session, `ClonesFit` that what a handler carries
over its await belongs to what it asked for, and `OpenersServed` that a session
was counted first for the request that opened it. `QuietStep` serves all actions
that leave the store alone; `AdmitStep` and `StoreStep` are the two that matter.

Three more invariants stand on it. `SharingInv`: identifiers are what
`resolve_identifier` makes, and requests counted in one session asked under one key.
`PrivacyInv`: nobody has sent a uuid before it was told (`UuidKept`), so a request with
a fresh uuid opens its session and, until its answer begins, is alone in it
(`OwnSession`). An identifier that mentions the uuid is either its own or was sent
(`ResolvedIsTold`), a step takes back nothing that was told, and what a handler does
behind its look-up touches its own session only (`HandlerStep`, `PrivacyStep`).
`UseInv`: `last_used_at` is the reading
of some request counted in the session, no reading is ahead of the clock by more
than `Skew`, and no instant between two readings of a session is `idle_ttl` or more
after all readings before it (`Unbroken`). The last part is what `NoIdleGap` needs to
be inductive: readings come out of order, so a new one may be the earliest, and then
it must be close to the next (`StaysUnbroken`). Both use one summary of what a step
does to the histories (`KeepsHistories`, `Counts`).

`ToolStream_proofs` begins with lemmas on the texts that the transformer rests on:
bytes of a concatenation (`BytesJoined`), where the first marker of a text is and that
more text does not move it (`FirstMarkerIs`, `MarkerStays`), that no marker begins in
text already passed on if as many bytes as a marker has less one were held back
behind it (`NoMarkerAcross`, `MarkersOfPending`), and how much `Streamable` holds back
(`StreamablePlace`). It proves for any marker of one-byte
characters, any alphabet, limits, chunks and verdicts:

| Theorem | Property |
|---|---|
| `ToolStreamTypes` | `TypeOK` |
| `FaithfulText` | `TextFaithful` |
| `HeldBackMarkers` | `MarkerHeldBack` |
| `BoundedBuffers` | `BuffersBounded` |
| `LeadingRoles` | `RoleLeads` |
| `RetryTheorem` | `RetryPromise`: `ToolStream` implements `RetryLoop` |
| `PromiseTheorem` | `ClientPromise`: `ToolStream` implements `ClientStream` |

None of these is inductive. That all text is kept says nothing of a marker that
is only half there, so `Holding` adds what the held-back end is for: as soon as
anything was passed on, at least `Held` bytes stay, and there is a marker in what
was sent exactly if the transformer is buffering. `Finished` is what remains of
it afterwards. `RequestsCounted` ties the number of requests to the number of
corrections, `ConclusionKept` the transformer's finish to the client's. The lemmas
go event by event: `PushKeeps` for content (one lemma for each of its branches),
`FinishKeeps` for the finish, `HandleKeeps` for both in a row, `TakenKeeps` for what
the client gets.

`ToolRetry_proofs` proves `ToolRetryTypes` (`TypeOK`), `ValidAnswers`
(`AnswerIsValid`), `CurrentCorrections` (`CorrectionIsCurrent`) and `RetryTheorem`
(`RetryPromise`). Its invariant adds `RequestsCounted` and `BufferIsCurrent`: the buffer
is a function of what this attempt has sent, of no earlier one.

`Venice_proofs` proves of `ChatStream` `ChatStreamTypes`, `AgreementTheorem` (`PathsAgree`) and
`PromiseTheorem` (`OrderlyPromise`). Its invariant relates the two paths after every
event that both have taken (`InStep`), and each flag to what the client has seen
(`FinishRemembered`, `RoleRemembered`).

Of `SseParser` it proves for any bytes an upstream may send, any payloads and fields and
any cuts:

| Theorem | Property |
|---|---|
| `CutsTheorem` | `CutsDoNotMatter` |
| `OrderTheorem` | `FailureKeepsOrder` |
| `CauseTheorem` | `FailsForCause` |

The invariant is `ParserInv`. `CutsDoNotMatter` does not say what is in the buffer, and
a chunk is read together with it: `ReadSoFar` adds that the buffer is the text the
reference has left over, and that all bytes so far are text. The argument is about the
operators. The reference reads the second part of a text as if it stood behind what
the first has left over (`ReadInParts`, by induction over the second part); where a
text that had no delimiter gets one, it ends with exactly one of the three (`EndIsNew`,
`EndsOnce`), so the reference ends its events where the first delimiter of the code's
search is (`ReadFirst`); and so the loop of `push` finds the same events and leaves the
same rest (`SplitReads`, by induction over the length of what is left). This is where
a delimiter that the network cuts in two could have gone wrong: `BoundaryByKind`, a
search in the order of the list, breaks the run. What a chunk adds is then what the
reference adds (`ChunkReads`), handed on up to the first event that is not a chunk
(`HandedOnToStop`), and an event that is malformed has a cause in its fields
(`MalformedForCause`). A chunk behind a text is text if and only if it is by itself
(`TextOfParts`), which is why a character cut in two is a cause.

Of `Attestation` it proves for any number of calls and any evidence:
`AttestationTypes` (`AttestTypeOK`), `FreshEvidence` (`EvidenceOfThisCall`), `BoundKeys`
(`KeyIsBound`), `MonotonePolicy` (`WeakerAcceptsMore`) and `FailClosed`
(`VerifiersFailClosed`). The facts about the decision are lemmas of their own
(`Monotone`, `OnlyTheVerifier`, `RequiredMeansRefused`); the invariant says that
nonces are apart and that what a call has become is the decision on its answer
(`Decided`).

`UpstreamChat_proofs` proves for any bodies, keys, answers and number of retries:

| Theorem | Property |
|---|---|
| `UpstreamChatTypes` | `TypeOK` |
| `StatusTheorem` | `StatusTellsCourse` |
| `SealedTheorem` | `SealedBothWays` |
| `SettingsTheorem` | `SettingsHonoured` |
| `ConversationTheorem` | `ConversationArrives` |
| `RetryTheorem` | `RetryAddsOnlyCorrection` |

Three facts about the operators carry the first four: a refused body has one of six codes (`RequestVerdict`), none of
them a code of the upstream; a payload that opens with a key was sealed for it
(`SealedOpens`, `OpensIsOurs`); and a setting that is read is the field of the body or
null. The invariant `IInv` says at each place what has been sent, taken and answered
so far (`Course`), and that what was read came from the body (`Read`).

The last two look at what the enclave opens, so they need to know what was sealed.
`Told` says it: each attempt is what `Outgoing` makes of the request, the key of the
session and the failure read from the answer before it, and so it needs no history of
the prompts. It is an invariant because no answer is taken back (`ToldAgain`) and a
retry follows the answer that it tells of (`ToldRetry`). The holder of the model's key
then reads the messages that were to be sent (`OpenedIs`), and the rest is about
operators:
- for retries: the proxy appends what it says to the first system message or puts one
  in front, in the same place whatever it says (`SystemPlace`), so that one correction
  more is one piece more in that place (`OnePieceMore`), and what the correction repeats
  is the answer or a beginning of it (`TruncatedIs`);
- for the conversation: what the proxy adds can be taken out again and leaves the
  messages as they were (`OfClientAppended`), and a message that is not refused is
  normalized to one with the same words, calls and result, for each kind of message
  (`PlainConveyed`, `ResultConveyed`, `AssistantConveyed`): parts are joined in order
  (`JoinedFlat`), an identifier is read back from the attribute it is escaped in
  (`IdentifierBack`), and calls are told one by one (`CallsTold`).

Assumed are `KeysAssumption` (the proxy's pair is no enclave's), `AnswersAssumption` (an
answer is words with a size, and no fault of one is worded as the timeout is),
`BodiesAssumption`, `MessagesAssumption` (accepted bodies have messages as JSON can have
them), `PlaintextAssumption` (what is sealed is text with a size, and nothing a client
says is a prompt of the proxy) and `RetriesAssumption`. An identifier is made of
characters and no entity is a character, which is what escaping needs to be undone.

`ToolCalls_proofs` proves for any request, any schemas, any readings of a parameter, and
answers of any length in all three formats:

| Theorem | Property |
|---|---|
| `CallsTheorem` | `AcceptedCallsConform` |
| `LenientTheorem` | `LenientReading` |
| `StandTheorem` | `CallsStandInText` |
| `GlmTheorem` | `GlmReading` |

Most of it is about operators, in `Parsers_proofs`.

`AcceptedCallsConform` holds because only validated calls are kept (`CallsInv`), and what
`Valid` accepts conforms, level by level: the levels of a check are those of the meaning
of the keywords, and one is shown from the next (`LevelsExist`, `ValidConforms`). That
the code is stricter than the keywords in some cases is no obstacle.

`LenientReading` compares a parser that is given pieces, and recovers from a text that
ends too early, with the strict parser on the whole text. `LenientInv` says that at every
step the parser is where it would be if all before `unread` had been given to it at once
(`HasRead`). It needs these facts:
- A parser with more text behind makes of a first event the same, except for how much
  text or how much of the arguments it takes at once (`EventExtends`), so a run over a
  text and then over more is a run over both (`RunExtends`, by induction over the length of
  what is left), and a piece more is more of the text (`HasReadMore`). What has failed
  stays failed (`FailsForGood`). So the pieces do not matter.
- What is recovered is the reading of the text with one token more. That token is foreign
  to a header, ends the arguments or not, or is the closing marker at the end
  (`TokenInHeader`, `TokenInArguments`, `TokenAtEnd`).
- A text that breaks off within the closing marker is the exception. A parser that waits
  has used up what it was given, but for the beginning of a marker or header, or the end
  of a call up to a marker that breaks off (`RestsIs`, `CutOff`). Whatever comes behind
  that is refused (`RefusedBehind`), the marker that `finish` pushes too, so nothing is
  read (`BreaksHere`, `CutShort`).
- The lenient parser has a scanner of its own, which looks at the arguments a second time.
  It and the parser agree on where an object ends, because what they remember of the
  arguments is related after each token (`FedAlong`) and the arguments that a parser has
  taken are an object or the beginning of one (`Accounted`, `CompleteCalls`).

`CallsStandInText` is not inductive in the calls alone: where a call is that is still
being read, and how far the text is used up, has to be known to place the next one. So
`Placed` gives each call of the parser a place in the text that it has read, says what
stands between that place and what is left (`Written`), and keeps places in order;
every event keeps it (`EventPlaced`, `ReadPlaced`). That a call's arguments are an object
*by themselves* is the other half: what stands at that place is read alone as it was read
among the others (`AloneRead`). In GLM's format names and values stand between tags and
not in the calls' own words, so `GlmPlaced` has the places only, and `ParametersStand`,
from what the reader of parameters has found so far (`ReadSoFarOf`), says that a value is
one of the meanings of a text between tags. `StandInv` carries it to the result; the
fallback from one format to the other is where it matters that each keeps its own.

`GlmReading` needs no invariant beyond `LenientInv`, since a GLM answer is parsed in one step, but
the parser's steps have to be got rid of: `Outcome` is what becomes of a text in each of
the parser's modes, and `TextIsRead`, `CallIsRead` and `AfterIsRead` give it by cases
without a run (that a run ends the same from its second event on is `SameEnd`). Then
calls that are read behind others are read as if they stood alone (`ReadsOn`), and the
calls of a text are never more than the ends in it (`EndsCount`), so that
in a row, where they are as many, none of the text was skipped, and what comes behind it
is read behind them (`RowReads`, `RowsAreRead`). For the types of parameters, each call is
what a part of the text makes of it (`CallsFrom`), a value is what `Converted` makes of a
text between tags of that part and so of the whole (`BetweenPart`), and the conversion
takes the first type that can read it (`ConvertedAsDeclared`).

Assumed are `HeaderAssumption` (no token is both a header and one that the parsers know
by name), `NestingAssumption`, `JobsAssumption` (answers are finite texts in one of the
formats) and `ReadingsAssumption` (a reading as a type has the type).

The proofs assume the named assumptions of the modules only: limits as
`ProxyConfig::validate` accepts them, uuids that are new when they are drawn (none is
a colon or in the fallback identifier, and clients learn them from answers), a marker of one-byte characters, and the bounds of the models large enough not to
be reached (`BoundAssumption`).

Some theorems state types that no run lists any more because the other properties
of the module say more (`ChatStreamTypes`, `ToolRetryTypes`, `AttestationTypes`), and
`LeadingRoles` (`RoleLeads`) is part of what `ClientPromise` implies.

Only model-checked:
- everything temporal beyond safety: liveness and fairness are out of the prover's
  reach;
- the four runs that expect a violation, which refute a property and prove none.

An operator that selects from a sequence by a predicate (`SelectSeq`) cannot be expanded
by the provers either. In `SseParser` the data of an event are selected so (`DataOf`);
no theorem needs to know more of them than that they are the same for the same lines.
`Unprompted` is written without it for this reason.

## 7. Not modelled

- The wording and layout of prompts, headers, errors and logs, and the metadata
  headers of a response: nothing depends on them.
- Configuration loading, start-up, the set-up of the HTTP client, the model list:
  they run once or keep no state. What `ProxyConfig::validate` guarantees is assumed
  where it is needed (`LimitsAssumption`).
- Of the vendored parsers what the proxy never calls: structured parameters and the
  newline-separated GLM variant.
- Cryptography itself: `E2ee` is symbolic, `Attestation` has digests and signatures
  as what they can be found to be.

The upstream service, the attestation endpoint, the enclave and the HTTP stack are
present as the choices they leave: what arrives, what fails, who disconnects, when a
key changes.
