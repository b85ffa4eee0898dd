----------------------------- MODULE ToolRetry -----------------------------
(***************************************************************************)
(* The whole answer to a chat request with tools (the loop of               *)
(* openai_tool_emulated_chat_response, src/src/http.rs).                    *)
(*                                                                         *)
(* An attempt sends the request, buffers the answer under a time limit and  *)
(* looks at the text.  A text that should be a tool call and is none, and   *)
(* an attempt that runs out of time, lead to another attempt with a         *)
(* correction, up to max_retries; everything else that goes wrong ends the  *)
(* request.  An attempt that ran out of time is dropped, and with it what   *)
(* its upstream still sends.                                                *)
(***************************************************************************)
EXTENDS ToolOutput, CompletionBuffer

CONSTANTS
  UpstreamChoices,  \* the upstream choices considered
  MaxEvents,    \* bound of the model: events of one upstream attempt
  MaxRequests   \* bound of the model: requests are counted up to this

ASSUME BoundAssumption ==
  /\ UpstreamChoices \subseteq Choice
  /\ MaxEvents \in Nat
  /\ MaxRequests \in Nat /\ MaxRequests > MaxRetries + 1

VARIABLES
  pc,           \* what the handler is doing
  retries,      \* corrections asked for so far
  correction,   \* what the next request says of the last answer, or None
  buffer,       \* the answer of the current attempt
  answer,       \* what the client is given, or None
  requests,     \* history: upstream requests sent
  got,          \* history: the content the current attempt has sent
  failures,     \* history: what was wrong with each attempt so far
  events        \* bound of the model: events left in the current attempt

vars == <<pc, retries, correction, buffer, answer, requests, got, failures, events>>

Ended == {"answered", "exhausted", "failed", "gone"}

Failure == [why : {"timeout", "invalid"}, output : Seq(Symbol)]

Answer ==
  [ content : Seq(Symbol) \cup {None}, reasoning : Seq(Symbol), calls : BOOLEAN,
    reason : Reasons, usage : BOOLEAN, tool_retries : Nat ]

TypeOK ==
  /\ pc \in {"connecting", "reading"} \cup Ended
  /\ retries \in Nat
  /\ correction \in Failure \cup {None}
  /\ buffer \in Buffer
  /\ answer \in Answer \cup {None}
  /\ requests \in Nat
  /\ got \in Seq(Symbol)
  /\ failures \in Seq(Failure)
  /\ events \in Nat

Init ==
  /\ pc = "connecting"
  /\ retries = 0
  /\ correction = None
  /\ buffer = NewBuffer
  /\ answer = None
  /\ requests = 0
  /\ got = << >>
  /\ failures = << >>
  /\ events = 0

-----------------------------------------------------------------------------
OneMore == IF requests < MaxRequests THEN requests + 1 ELSE requests

\* Wrong variant: the buffer of the attempt before is filled on.
ConnectKeepingBuffer ==
  /\ pc = "connecting"
  /\ pc' = "reading"
  /\ requests' = OneMore
  /\ got' = << >>
  /\ events' = MaxEvents
  /\ UNCHANGED <<retries, correction, buffer, answer, failures>>

Connect ==
  /\ pc = "connecting"
  /\ pc' = "reading"
  /\ requests' = OneMore
  /\ buffer' = NewBuffer
  /\ got' = << >>
  /\ events' = MaxEvents
  /\ UNCHANGED <<retries, correction, answer, failures>>

ConnectFails ==
  /\ pc = "connecting"
  /\ pc' = "failed"
  /\ requests' = OneMore
  /\ UNCHANGED <<retries, correction, buffer, answer, got, failures, events>>

(***************************************************************************)
(* One upstream event.  A choice with another index than the first one      *)
(* fails the request, as does a complete answer without an encrypted field. *)
(***************************************************************************)
TakeChoice ==
  /\ pc = "reading" /\ events > 0
  /\ events' = events - 1
  /\ \E choice \in UpstreamChoices :
       \/ /\ Accepts(buffer, choice)
          /\ buffer' = Add(buffer, choice)
          /\ got' = got \o TextOf(choice.content)
          /\ UNCHANGED pc
       \/ /\ ~Accepts(buffer, choice)
          /\ pc' = "failed"
          /\ UNCHANGED <<buffer, got>>
  /\ UNCHANGED <<retries, correction, answer, requests, failures>>

TakeUsage ==
  /\ pc = "reading" /\ events > 0
  /\ events' = events - 1
  /\ buffer' = AddUsage(buffer)
  /\ UNCHANGED <<pc, retries, correction, answer, requests, got, failures>>

\* Wrong variant: the correction of an attempt that ran out of time stays.
RetryStaleCorrection(failure) ==
  /\ IF retries < MaxRetries
     THEN /\ pc' = "connecting"
          /\ retries' = retries + 1
          /\ correction' = IF failure.why = "timeout" /\ correction # None
                           THEN correction ELSE failure
     ELSE /\ pc' = "exhausted"
          /\ UNCHANGED <<retries, correction>>
  /\ failures' = Append(failures, failure)
  /\ UNCHANGED <<buffer, answer>>

\* Wrong variant: one attempt too many.
RetryOnceMore(failure) ==
  /\ IF retries <= MaxRetries
     THEN /\ pc' = "connecting"
          /\ retries' = retries + 1
          /\ correction' = failure
     ELSE /\ pc' = "exhausted"
          /\ UNCHANGED <<retries, correction>>
  /\ failures' = Append(failures, failure)
  /\ UNCHANGED <<buffer, answer>>

RetryOrFail(failure) ==
  /\ IF retries < MaxRetries
     THEN /\ pc' = "connecting"
          /\ retries' = retries + 1
          /\ correction' = failure
     ELSE /\ pc' = "exhausted"
          /\ UNCHANGED <<retries, correction>>
  /\ failures' = Append(failures, failure)
  /\ UNCHANGED <<buffer, answer>>

(***************************************************************************)
(* The completion as it is, or with tool calls in the place of its text.    *)
(***************************************************************************)
Give(completion, calls) ==
  [ content      |-> IF calls THEN None ELSE completion.content,
    reasoning    |-> completion.reasoning,
    calls        |-> calls,
    reason       |-> IF calls THEN "tool_calls" ELSE completion.finish,
    usage        |-> completion.usage,
    tool_retries |-> retries ]

TakeDone ==
  /\ pc = "reading"
  /\ LET completion == Completion(buffer)
         verdict    == Classify(completion.content)
     IN  \/ /\ ~Complete(buffer)
            /\ pc' = "failed"
            /\ UNCHANGED <<retries, correction, buffer, answer, failures>>
         \/ /\ Complete(buffer)
            /\ verdict \in {"text", "calls"}
            /\ pc' = "answered"
            /\ buffer' = completion
            /\ answer' = Give(completion, verdict = "calls")
            /\ UNCHANGED <<retries, correction, failures>>
         \/ /\ Complete(buffer)
            /\ verdict = "invalid"
            /\ RetryOrFail([why |-> "invalid", output |-> completion.content])
  /\ UNCHANGED <<requests, got, events>>

\* Wrong variant: only an attempt that has not sent anything can run out of time.
TimeoutBeforeContent ==
  /\ pc = "reading"
  /\ got = << >>
  /\ RetryOrFail([why |-> "timeout", output |-> << >>])
  /\ UNCHANGED <<requests, got, events>>

(***************************************************************************)
(* tool_call_marker_timeout: the time for buffering one answer is over.     *)
(***************************************************************************)
Timeout ==
  /\ pc = "reading"
  /\ RetryOrFail([why |-> "timeout", output |-> << >>])
  /\ UNCHANGED <<requests, got, events>>

\* Any other end of an attempt: read errors, malformed events, no [DONE].
BreakOff ==
  /\ pc = "reading"
  /\ pc' = "failed"
  /\ UNCHANGED <<retries, correction, buffer, answer, requests, got, failures, events>>

\* The client goes away and the server drops the handler.
Leave ==
  /\ pc \in {"connecting", "reading"}
  /\ pc' = "gone"
  /\ UNCHANGED <<retries, correction, buffer, answer, requests, got, failures, events>>

Over ==
  /\ pc \in Ended
  /\ UNCHANGED vars

Next ==
  \/ Connect \/ ConnectFails
  \/ TakeChoice \/ TakeUsage \/ TakeDone
  \/ Timeout \/ BreakOff
  \/ Leave \/ Over

Spec == Init /\ [][Next]_vars

(***************************************************************************)
(* Sending a request returns, with an error after a timeout at the latest,  *)
(* and a timer fires.  Nothing is assumed of what the upstream sends.       *)
(***************************************************************************)
FairSpec == Spec /\ WF_vars(Connect \/ ConnectFails) /\ WF_vars(Timeout)

-----------------------------------------------------------------------------
(***************************************************************************)
(* What the client is given is what one attempt said, the last one, and it  *)
(* passed the tests: calls that are valid, or a text that needs none.  The  *)
(* header counts the attempts that did not.                                 *)
(***************************************************************************)
AnswerIsValid ==
  pc = "answered" =>
    /\ Bytes(got) <= MaxBytes /\ ~Unparsable(got)
    /\ answer.tool_retries = Len(failures)
    /\ IF answer.calls
       THEN HasCalls(got) /\ answer.content = None /\ answer.reason = "tool_calls"
       ELSE ~HasCalls(got) /\ answer.content = got /\ ~RequireToolCall

(***************************************************************************)
(* The correction a retry carries is about the attempt right before it: its *)
(* error and its output, none if it ran out of time.                        *)
(***************************************************************************)
CorrectionIsCurrent ==
  pc \in {"connecting", "reading"} =>
    /\ retries = Len(failures)
    /\ correction = IF failures = << >> THEN None ELSE failures[Len(failures)]

(***************************************************************************)
(* tools.max_retries bounds the upstream requests made for one client, and  *)
(* they are all used before it is told that no answer was valid.            *)
(***************************************************************************)
Outcome ==
  CASE pc \in {"connecting", "reading"} -> "none"
    [] pc = "answered"                  -> "answered"
    [] pc = "exhausted"                 -> "exhausted"
    [] pc = "gone"                      -> "abandoned"
    [] OTHER                            -> "failed"

Tries == INSTANCE RetryLoop
  WITH MaxTries <- MaxRetries + 1, tries <- requests, outcome <- Outcome

RetryPromise == Tries!Promise

(***************************************************************************)
(* The inductive invariant: requests and corrections are counted together,  *)
(* and the buffer holds what the current attempt has sent.                  *)
(***************************************************************************)
RequestsCounted ==
  /\ retries <= MaxRetries
  /\ pc = "connecting" => requests = retries
  /\ pc = "reading" => requests = retries + 1

BufferIsCurrent == pc = "reading" => buffer.content = got

IInv ==
  /\ TypeOK
  /\ RequestsCounted
  /\ CorrectionIsCurrent
  /\ BufferIsCurrent
  /\ AnswerIsValid

(***************************************************************************)
(* Every request ends, even if the upstream never finishes an answer.       *)
(***************************************************************************)
EveryRequestEnds == <>(pc \in Ended)

=============================================================================
