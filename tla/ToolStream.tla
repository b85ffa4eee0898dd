----------------------------- MODULE ToolStream -----------------------------
(***************************************************************************)
(* The streamed answer to a chat request with tools (src/src/http.rs):      *)
(* tool_emulated_chat_sse_event_stream_with_retries and the transformer it  *)
(* runs for each upstream attempt.                                          *)
(*                                                                         *)
(* The model writes its tool calls as text between markers.  Text is passed *)
(* on as it arrives until a start marker shows up, from there it is held    *)
(* back, and at the finish the held text is parsed and validated.  If it is *)
(* no valid call the proxy drops the upstream and asks again with a         *)
(* correction, on the stream the client is already reading; a corrected     *)
(* attempt passes on no text before its finish.                             *)
(*                                                                         *)
(* One step handles one upstream event; the chunks it gives the client are  *)
(* yielded one by one in the code, so a client that leaves within a step    *)
(* has seen a beginning of them.                                            *)
(***************************************************************************)
EXTENDS ToolOutput

CONSTANTS
  Marker,           \* TOOL_CALL_START_MARKER, one-byte characters
  IncludeUsage,     \* stream_options.include_usage
  UpstreamChoices,  \* the upstream choices considered
  MaxEvents,        \* bound of the model: events of one upstream attempt
  MaxRequests       \* bound of the model: requests are counted up to this

ASSUME MarkerAssumption ==
  /\ Marker \in Seq(Symbol) /\ Marker # << >>
  /\ \A n \in DOMAIN Marker : Marker[n] \notin Wide

ASSUME BoundAssumption ==
  /\ MaxEvents \in Nat
  /\ MaxRequests \in Nat /\ MaxRequests > MaxRetries + 1
  /\ IncludeUsage \in BOOLEAN

ASSUME ChoiceAssumption ==
  UpstreamChoices \subseteq [ content   : Seq(Symbol) \cup {None},
                              reasoning : BOOLEAN,
                              finish    : Reasons \cup {None} ]

-----------------------------------------------------------------------------
(***************************************************************************)
(* Texts.                                                                   *)
(***************************************************************************)
MarkerAt(text, n) ==
  /\ n + Len(Marker) - 1 <= Len(text)
  /\ \A k \in DOMAIN Marker : text[n + k - 1] = Marker[k]

HasMarker(text) == \E n \in DOMAIN text : MarkerAt(text, n)

FirstMarker(text) ==
  CHOOSE n \in DOMAIN text :
    MarkerAt(text, n) /\ \A k \in DOMAIN text : MarkerAt(text, k) => n <= k

First(text, n) == SubSeq(text, 1, n)
After(text, n) == SubSeq(text, n + 1, Len(text))

(***************************************************************************)
(* As much of the pending text as can be passed on: all but the bytes that  *)
(* could be the beginning of a marker, cut at a character boundary.         *)
(***************************************************************************)
Held == Len(Marker) - 1

\* Wrong variant: one byte too few held back.
StreamableOneMore(text) ==
  IF Bytes(text) <= Held - 1 THEN 0
  ELSE CHOOSE n \in 0..Len(text) :
         /\ Bytes(First(text, n)) <= Bytes(text) - Held + 1
         /\ \A k \in 0..Len(text) : Bytes(First(text, k)) <= Bytes(text) - Held + 1 => k <= n

Streamable(text) ==
  IF Bytes(text) <= Held THEN 0
  ELSE CHOOSE n \in 0..Len(text) :
         /\ Bytes(First(text, n)) <= Bytes(text) - Held
         /\ \A k \in 0..Len(text) : Bytes(First(text, k)) <= Bytes(text) - Held => k <= n

-----------------------------------------------------------------------------
VARIABLES
  pc,        \* what the stream is doing
  retries,   \* corrections asked for so far
  tr,        \* the transformer of the current attempt
  client,    \* what the client has received
  requests,  \* history: upstream requests sent
  got,       \* history: the content of the current attempt, up to its finish
  spoken,    \* history: the client's text when the current attempt began
  events     \* bound of the model: events left in the current attempt

vars == <<pc, retries, tr, client, requests, got, spoken, events>>

Ended == {"done", "exhausted", "broken", "rejected", "gone"}

Transformer ==
  [ pending   : Seq(Symbol),   \* pending_text
    buffer    : Seq(Symbol),   \* tool_buffer
    buffering : BOOLEAN,       \* buffering_tool_call
    suppress  : BOOLEAN,       \* suppress_normal_output
    finished  : BOOLEAN,       \* sent_final_finish
    sent_role : BOOLEAN ]

Received ==
  [ text      : Seq(Symbol),
    reasoning : BOOLEAN,         \* whether some reasoning was received
    calls     : BOOLEAN,
    reason    : Reasons \cup {None},
    usage     : BOOLEAN,         \* whether a usage chunk was received
    roles     : Nat ]            \* deltas with the assistant role

TypeOK ==
  /\ pc \in {"connecting", "reading"} \cup Ended
  /\ retries \in Nat
  /\ tr \in Transformer
  /\ client \in Received
  /\ requests \in Nat
  /\ got \in Seq(Symbol)
  /\ spoken \in Seq(Symbol)
  /\ events \in Nat

NewTransformer(retrying) ==
  [ pending |-> << >>, buffer |-> << >>, buffering |-> FALSE, suppress |-> retrying,
    finished |-> FALSE, sent_role |-> FALSE ]

Init ==
  /\ pc = "connecting"
  /\ retries = 0
  /\ tr = NewTransformer(FALSE)
  /\ client = [text |-> << >>, reasoning |-> FALSE, calls |-> FALSE, reason |-> None,
               usage |-> FALSE, roles |-> 0]
  /\ requests = 0
  /\ got = << >>
  /\ spoken = << >>
  /\ events = 0

-----------------------------------------------------------------------------
(***************************************************************************)
(* The transformer.  Each operator gives the transformer it leaves, the     *)
(* text it passes on and whether it succeeds: "ok", "invalid" for an error  *)
(* that a correction may repair, "broken" for one that ends the stream.     *)
(***************************************************************************)
Step(s, text, verdict) == [tr |-> s, text |-> text, calls |-> FALSE, verdict |-> verdict]

\* Wrong variant: a buffer that outgrew the limit is kept on being filled.
PushContentUnbounded(s, content) ==
  LET text == s.pending \o content
  IN  IF s.buffering
      THEN Step([s EXCEPT !.buffer = @ \o content], << >>, "ok")
      ELSE IF HasMarker(text)
      THEN Step([s EXCEPT !.pending = << >>, !.buffering = TRUE,
                          !.buffer = After(text, FirstMarker(text) - 1)],
                IF s.suppress THEN << >> ELSE First(text, FirstMarker(text) - 1), "ok")
      ELSE IF s.suppress
      THEN Step([s EXCEPT !.pending = text], << >>, "ok")
      ELSE Step([s EXCEPT !.pending = After(text, Streamable(text))],
                First(text, Streamable(text)), "ok")

\* push_decrypted_content
PushContent(s, content) ==
  LET text   == s.pending \o content
      buffer == IF s.buffering THEN s.buffer \o content
                ELSE After(text, FirstMarker(text) - 1)
      fits   == IF Bytes(buffer) <= MaxBytes THEN "ok" ELSE "broken"
  IN  IF s.buffering
      THEN Step([s EXCEPT !.buffer = buffer], << >>, fits)
      ELSE IF HasMarker(text)
      THEN Step([s EXCEPT !.pending = << >>, !.buffer = buffer, !.buffering = TRUE],
                IF s.suppress THEN << >> ELSE First(text, FirstMarker(text) - 1), fits)
      ELSE IF s.suppress
      THEN Step([s EXCEPT !.pending = text], << >>,
                IF Bytes(text) <= MaxBytes THEN "ok" ELSE "invalid")
      ELSE Step([s EXCEPT !.pending = After(text, Streamable(text))],
                First(text, Streamable(text)), "ok")

\* Wrong variant: the held-back end of a plain text is forgotten.
FinishContentDropping(s) ==
  LET end == [s EXCEPT !.finished = TRUE, !.pending = << >>]
  IN  IF s.buffering
      THEN CASE Bytes(s.buffer) > MaxBytes    -> Step(s, << >>, "broken")
             [] Classify(s.buffer) = "calls" -> [Step(end, << >>, "ok") EXCEPT !.calls = TRUE]
             [] Classify(s.buffer) = "text"  ->
                  Step([end EXCEPT !.buffering = FALSE, !.buffer = << >>], s.buffer, "ok")
             [] OTHER                        -> Step(s, << >>, "invalid")
      ELSE IF s.suppress THEN Step(s, << >>, "invalid")
      ELSE Step(end, << >>, "ok")

\* finish_buffered_content, with buffered_tool_call_chunks
FinishContent(s) ==
  LET end == [s EXCEPT !.finished = TRUE, !.pending = << >>]
  IN  IF s.buffering
      THEN CASE Bytes(s.buffer) > MaxBytes    -> Step(s, << >>, "broken")
             [] Classify(s.buffer) = "calls" -> [Step(end, << >>, "ok") EXCEPT !.calls = TRUE]
             [] Classify(s.buffer) = "text"  ->
                  Step([end EXCEPT !.buffering = FALSE, !.buffer = << >>], s.buffer, "ok")
             [] OTHER                        -> Step(s, << >>, "invalid")
      ELSE IF s.suppress THEN Step(s, << >>, "invalid")
      ELSE Step(end, s.pending, "ok")

(***************************************************************************)
(* handle_choice_chunk and finish_stream put the parts together: content    *)
(* first, then the finish, and nothing of either once the attempt has       *)
(* finished.  An error loses what the event would have given the client.    *)
(***************************************************************************)
Then(first, second) ==
  IF first.verdict # "ok" THEN first
  ELSE [second EXCEPT !.text = first.text \o second.text]

\* Wrong variant: content and finishes are taken after the finish, too.
HandleContentAlways(s, content, finish) ==
  LET pushed == IF content # None THEN PushContent(s, content) ELSE Step(s, << >>, "ok")
  IN  IF finish = None THEN pushed
      ELSE Then(pushed, FinishContent(pushed.tr))

HandleContent(s, content, finish) ==
  LET pushed == IF content # None THEN PushContent(s, content) ELSE Step(s, << >>, "ok")
  IN  IF s.finished THEN Step(s, << >>, "ok")
      ELSE IF finish = None THEN pushed
      ELSE Then(pushed, FinishContent(pushed.tr))

-----------------------------------------------------------------------------
(***************************************************************************)
(* What the client receives of one event: reasoning, text, tool calls and   *)
(* the finish, in this order; the first delta of an attempt has the role.   *)
(***************************************************************************)

Speaks(step, reasoning) == reasoning \/ step.text # << >> \/ step.calls

Deliver(step, reasoning, finish) ==
  LET roles == IF Speaks(step, reasoning) /\ ~tr.sent_role THEN 1 ELSE 0
      finishing == finish # None /\ ~tr.finished
  IN  /\ client' =
           [client EXCEPT !.reasoning = @ \/ reasoning,
                          !.text = @ \o step.text,
                          !.calls = @ \/ step.calls,
                          !.reason = IF ~finishing THEN @
                                     ELSE IF step.calls THEN "tool_calls" ELSE finish,
                          !.roles = @ + roles]
      /\ tr' = [step.tr EXCEPT !.sent_role = @ \/ Speaks(step, reasoning)]

\* Wrong variant: a correction is not counted.
RetryOrFailUncounted ==
  /\ IF retries < MaxRetries
     THEN /\ pc' = "connecting"
          /\ tr' = NewTransformer(TRUE)
          /\ got' = << >>
          /\ spoken' = client.text
     ELSE /\ pc' = "exhausted"
          /\ UNCHANGED <<tr, got, spoken>>
  /\ UNCHANGED <<retries, client>>

\* tool_stream_event_outputs for an invalid tool call
RetryOrFail ==
  /\ IF retries < MaxRetries
     THEN /\ pc' = "connecting"
          /\ retries' = retries + 1
          /\ tr' = NewTransformer(TRUE)
          /\ got' = << >>
          /\ spoken' = client.text
     ELSE /\ pc' = "exhausted"
          /\ UNCHANGED <<retries, tr, got, spoken>>
  /\ UNCHANGED client

(***************************************************************************)
(* The upstream request.  The first one is sent before the response to the  *)
(* client is started, and its failure is an ordinary error response; the    *)
(* failure of a later one ends the stream.                                  *)
(***************************************************************************)
OneMore == IF requests < MaxRequests THEN requests + 1 ELSE requests

Connect ==
  /\ pc = "connecting"
  /\ pc' = "reading"
  /\ requests' = OneMore
  /\ events' = MaxEvents
  /\ UNCHANGED <<retries, tr, client, got, spoken>>

ConnectFails ==
  /\ pc = "connecting"
  /\ pc' = IF retries = 0 THEN "rejected" ELSE "broken"
  /\ requests' = OneMore
  /\ UNCHANGED <<retries, tr, client, got, spoken, events>>

(***************************************************************************)
(* One upstream event: a chunk with one choice, a usage chunk, or [DONE].   *)
(***************************************************************************)
TakeChoice ==
  /\ pc = "reading" /\ events > 0
  /\ events' = events - 1
  /\ \E choice \in UpstreamChoices :
       LET step == HandleContent(tr, choice.content, choice.finish)
           reasoning == choice.reasoning /\ ~tr.finished /\ ~tr.suppress
       IN  \/ /\ step.verdict = "ok"
              /\ Deliver(step, reasoning, choice.finish)
              /\ got' = IF choice.content = None \/ tr.finished THEN got
                        ELSE got \o choice.content
              /\ UNCHANGED <<pc, retries, spoken>>
           \/ /\ step.verdict = "invalid"
              /\ RetryOrFail
           \/ /\ step.verdict = "broken"
              /\ pc' = "broken"
              /\ UNCHANGED <<retries, tr, client, got, spoken>>
  /\ UNCHANGED requests

TakeUsage ==
  /\ pc = "reading" /\ events > 0
  /\ events' = events - 1
  /\ client' = [client EXCEPT !.usage = @ \/ IncludeUsage]
  /\ UNCHANGED <<pc, retries, tr, requests, got, spoken>>

\* Wrong variant: the missing finish is made up with a reason clients do not know.
TakeDoneUnknownReason ==
  /\ pc = "reading"
  /\ LET step == HandleContent(tr, None, "done")
     IN  \/ /\ step.verdict = "ok"
            /\ Deliver(step, FALSE, "done")
            /\ pc' = "done"
            /\ UNCHANGED <<retries, got, spoken>>
         \/ /\ step.verdict = "invalid"
            /\ RetryOrFail
  /\ UNCHANGED <<requests, events>>

TakeDone ==
  /\ pc = "reading"
  /\ LET step == HandleContent(tr, None, "stop")
     IN  \/ /\ step.verdict = "ok"
            /\ Deliver(step, FALSE, "stop")
            /\ pc' = "done"
            /\ UNCHANGED <<retries, got, spoken>>
         \/ /\ step.verdict = "invalid"
            /\ RetryOrFail
  /\ UNCHANGED <<requests, events>>

(***************************************************************************)
(* Everything else that ends an attempt ends the stream: a read error or    *)
(* timeout, the end of the upstream without [DONE], text that is not UTF-8, *)
(* an event that does not parse, an error event, a field of the wrong type, *)
(* a decryption failure.                                                    *)
(***************************************************************************)
BreakOff ==
  /\ pc = "reading"
  /\ pc' = "broken"
  /\ UNCHANGED <<retries, tr, client, requests, got, spoken, events>>

\* The client goes away and the server drops the stream.
Leave ==
  /\ pc \in {"connecting", "reading"}
  /\ pc' = "gone"
  /\ UNCHANGED <<retries, tr, client, requests, got, spoken, events>>

Over ==
  /\ pc \in Ended
  /\ UNCHANGED vars

Progress == Connect \/ ConnectFails \/ TakeChoice \/ TakeUsage \/ TakeDone \/ BreakOff

Next == Progress \/ Leave \/ Over

Spec == Init /\ [][Next]_vars

(***************************************************************************)
(* The HTTP client has a connect timeout and a timeout for each read, so an *)
(* upstream that says nothing more becomes an error.  That it does not send *)
(* chunks forever is not the proxy's doing: MaxEvents assumes it.           *)
(***************************************************************************)
FairSpec == Spec /\ WF_vars(Progress)

-----------------------------------------------------------------------------
(***************************************************************************)
(* No text is lost, doubled or reordered on its way: what this attempt has  *)
(* given the client, followed by what is held back, is what the model sent. *)
(* A corrected attempt gives no text, unless all it sent from the marker on *)
(* turns out to be plain text.                                              *)
(***************************************************************************)
Given == After(client.text, Len(spoken))

TextFaithful ==
  pc \in {"reading", "done"} =>
    /\ First(client.text, Len(spoken)) = spoken
    /\ ~tr.suppress => Given \o tr.pending \o tr.buffer = got
    /\ tr.suppress /\ Given # << >> =>
         /\ tr.finished /\ ~client.calls /\ HasMarker(got)
         /\ Given = After(got, FirstMarker(got) - 1)

(***************************************************************************)
(* A marker is recognised however the upstream cuts it into chunks, at its  *)
(* first occurrence, and the client sees none of its characters: before the *)
(* finish the text from the first marker on is in the buffer, all of it.    *)
(***************************************************************************)
MarkerHeldBack ==
  pc = "reading" /\ ~tr.finished =>
    /\ tr.buffering <=> HasMarker(got)
    /\ tr.buffering => tr.buffer = After(got, FirstMarker(got) - 1)

(***************************************************************************)
(* What is held back is bounded: by the configured limit in the buffer and  *)
(* in a corrected attempt, and otherwise by the marker, so that text never  *)
(* waits longer than it must.                                               *)
(***************************************************************************)
BuffersBounded ==
  pc = "reading" =>
    /\ Bytes(tr.buffer) <= MaxBytes
    /\ Bytes(tr.pending) <= IF tr.suppress THEN MaxBytes ELSE Held + 1

(***************************************************************************)
(* tools.max_retries bounds the upstream requests made for one client, and  *)
(* they are all used before the stream fails for want of a valid call.      *)
(***************************************************************************)
Outcome ==
  CASE pc \in {"connecting", "reading"} -> "none"
    [] pc = "done"                      -> "answered"
    [] pc = "exhausted"                 -> "exhausted"
    [] pc = "gone"                      -> "abandoned"
    [] OTHER                            -> "failed"

Tries == INSTANCE RetryLoop
  WITH MaxTries <- MaxRetries + 1, tries <- requests, outcome <- Outcome

RetryPromise == Tries!Promise

(***************************************************************************)
(* The assistant role comes with or before anything else the client is      *)
(* told, and no attempt repeats its own.                                    *)
(***************************************************************************)
RoleLeads ==
  /\ client.text # << >> \/ client.reasoning \/ client.calls => client.roles > 0
  /\ client.roles <= requests

(***************************************************************************)
(* The client is kept what ClientStream promises, across all attempts: text *)
(* only grows, tool calls come with the one finish, nothing follows it.     *)
(***************************************************************************)
Phase ==
  IF pc \in {"exhausted", "broken", "rejected", "gone"} THEN "aborted"
  ELSE IF pc = "done" THEN "closed"
  ELSE IF client.reason # None THEN "concluded" ELSE "open"

Abstract == INSTANCE ClientStream
  WITH phase <- Phase, text <- client.text, calls <- client.calls, reason <- client.reason

ClientPromise == Abstract!Promise

(***************************************************************************)
(* The inductive invariant.  Requests and corrections are counted together; *)
(* a conclusion, its calls and the transformer's finish come together; the  *)
(* roles are counted per attempt; and what an attempt has given, with what  *)
(* it holds, is what it was sent: up to the finish all is held from the     *)
(* first marker on, and before it at least the bytes a marker could begin   *)
(* with.                                                                    *)
(***************************************************************************)
RequestsCounted ==
  /\ retries <= MaxRetries
  /\ pc = "connecting" => requests = retries
  /\ pc = "reading" => requests = retries + 1

ConclusionKept ==
  /\ client.calls => client.reason # None
  /\ pc \in {"connecting", "reading"} => (tr.finished <=> client.reason # None)
  /\ pc = "connecting" => ~tr.finished

RolesCounted ==
  /\ pc = "connecting" => ~tr.sent_role
  /\ pc = "reading" /\ ~tr.sent_role => client.roles < requests
  /\ tr.sent_role => client.roles > 0

Holding(s, given, sent) ==
  /\ s.buffering <=> HasMarker(sent)
  /\ s.buffering => s.pending = << >> /\ s.buffer = After(sent, FirstMarker(sent) - 1)
  /\ ~s.buffering => s.buffer = << >>
  /\ s.suppress => given = << >> /\ (~s.buffering => s.pending = sent)
  /\ ~s.suppress => given \o s.pending \o s.buffer = sent
  /\ ~s.suppress /\ ~s.buffering /\ given # << >> => Bytes(s.pending) >= Held

Finished(s, calls, given, sent) ==
  /\ ~s.suppress => given \o s.pending \o s.buffer = sent
  /\ s.suppress /\ given # << >> =>
       ~calls /\ HasMarker(sent) /\ given = After(sent, FirstMarker(sent) - 1)

Bounded(s) ==
  /\ Bytes(s.buffer) <= MaxBytes
  /\ Bytes(s.pending) <= IF s.suppress THEN MaxBytes ELSE Held + 1

AttemptKept ==
  pc \in {"connecting", "reading", "done"} =>
    /\ Len(spoken) <= Len(client.text)
    /\ First(client.text, Len(spoken)) = spoken
    /\ IF tr.finished THEN Finished(tr, client.calls, Given, got) ELSE Holding(tr, Given, got)
    /\ Bounded(tr)

IInv ==
  /\ TypeOK
  /\ RequestsCounted
  /\ ConclusionKept
  /\ RolesCounted
  /\ RoleLeads
  /\ AttemptKept

(***************************************************************************)
(* Every stream comes to an end: attempts do not follow each other forever. *)
(***************************************************************************)
EveryStreamEnds == <>(pc \in Ended)

-----------------------------------------------------------------------------
(***************************************************************************)
(* What sources other than the code say, and the code does not do.          *)
(***************************************************************************)

(***************************************************************************)
(* src/src/tools.rs:355, "expected the assistant response to include a tool *)
(* call": a request that requires a tool call is not answered without one.  *)
(***************************************************************************)
RequiredCallDelivered == RequireToolCall /\ pc = "done" => client.calls

(***************************************************************************)
(* src/README.md:189, "streaming tool-call parsing cannot retry after bad   *)
(* output and will fail the stream": an attempt that is being read is not   *)
(* followed by another upstream request.                                    *)
(***************************************************************************)
BadOutputEndsStream == [][pc = "reading" => pc' # "connecting"]_vars

=============================================================================
