----------------------------- MODULE ChatStream -----------------------------
(***************************************************************************)
(* The answer to a chat request without tools (src/src/http.rs), streamed   *)
(* by OpenAiChatStreamTransformer and put together by                       *)
(* OpenAiChatCompletionBuffer.  Which of the two a request gets depends on  *)
(* its "stream" flag only, so this module gives both the same upstream      *)
(* events and compares what their clients have in the end.                  *)
(*                                                                         *)
(* Every upstream event is taken by both, unless it has failed before.  The *)
(* client of the stream adds up what it receives.                           *)
(***************************************************************************)
EXTENDS CompletionBuffer

CONSTANTS
  IncludeUsage,   \* stream_options.include_usage
  UpstreamChoices,  \* the upstream choices considered
  MaxEvents       \* bound of the model: upstream events

ASSUME BoundAssumption ==
  /\ IncludeUsage \in BOOLEAN
  /\ UpstreamChoices \subseteq Choice
  /\ MaxEvents \in Nat

VARIABLES
  stream,     \* the streamed answer: "reading", "done", "broken" or "gone"
  finished,   \* sent_final_finish
  sent_role,  \* sent_role
  client,     \* what the client of the stream has received
  whole,      \* the buffered answer: "reading", "done" or "failed"
  buffer,     \* the completion buffer
  orderly,    \* history: the upstream has sent no choice after a finish
  events      \* bound of the model: events left

vars == <<stream, finished, sent_role, client, whole, buffer, orderly, events>>

Received ==
  [ text      : Seq(Symbol),
    reasoning : Seq(Symbol),
    reason    : Reasons \cup {None},   \* the last finish reason
    usage     : BOOLEAN,
    roles     : Nat ]                  \* deltas with the assistant role

TypeOK ==
  /\ stream \in {"reading", "done", "broken", "gone"}
  /\ finished \in BOOLEAN
  /\ sent_role \in BOOLEAN
  /\ client \in Received
  /\ whole \in {"reading", "done", "failed"}
  /\ buffer \in Buffer
  /\ orderly \in BOOLEAN
  /\ events \in Nat

Init ==
  /\ stream = "reading"
  /\ finished = FALSE
  /\ sent_role = FALSE
  /\ client = [text |-> << >>, reasoning |-> << >>, reason |-> None, usage |-> FALSE, roles |-> 0]
  /\ whole = "reading"
  /\ buffer = NewBuffer
  /\ orderly = TRUE
  /\ events = MaxEvents

-----------------------------------------------------------------------------
(***************************************************************************)
(* A choice on the streamed path: one delta with the role, if it is the     *)
(* first, and both texts, then the finish.  The choice index is looked at   *)
(* only when there is a chunk to write it to.                               *)
(***************************************************************************)
Delta(choice) == choice.content # None \/ choice.reasoning # None

\* Wrong variant: the text that comes with a finish is dropped.
StreamChoiceFinishOnly(choice) ==
  /\ sent_role' = (sent_role \/ Delta(choice))
  /\ finished' = (finished \/ choice.finish # None)
  /\ client' =
       [client EXCEPT
         !.text = IF choice.finish = None THEN @ \o TextOf(choice.content) ELSE @,
         !.reasoning = @ \o TextOf(choice.reasoning),
         !.reason = IF choice.finish = None THEN @ ELSE choice.finish,
         !.roles = IF Delta(choice) /\ ~sent_role THEN @ + 1 ELSE @]
  /\ UNCHANGED stream

\* Wrong variant: the role is not remembered when only reasoning was sent.
StreamChoiceForgettingRole(choice) ==
  /\ sent_role' = (sent_role \/ choice.content # None)
  /\ finished' = (finished \/ choice.finish # None)
  /\ client' =
       [client EXCEPT
         !.text = @ \o TextOf(choice.content),
         !.reasoning = @ \o TextOf(choice.reasoning),
         !.reason = IF choice.finish = None THEN @ ELSE choice.finish,
         !.roles = IF Delta(choice) /\ ~sent_role THEN @ + 1 ELSE @]
  /\ UNCHANGED stream

StreamChoice(choice) ==
  /\ sent_role' = (sent_role \/ Delta(choice))
  /\ finished' = (finished \/ choice.finish # None)
  /\ client' =
       [client EXCEPT
         !.text = @ \o TextOf(choice.content),
         !.reasoning = @ \o TextOf(choice.reasoning),
         !.reason = IF choice.finish = None THEN @ ELSE choice.finish,
         !.roles = IF Delta(choice) /\ ~sent_role THEN @ + 1 ELSE @]
  /\ UNCHANGED stream

StreamRefuses(choice) ==
  choice.index = Malformed /\ (Delta(choice) \/ choice.finish # None)

StreamTakesChoice(choice) ==
  \/ /\ stream = "reading" /\ ~StreamRefuses(choice)
     /\ StreamChoice(choice)
  \/ /\ stream = "reading" /\ StreamRefuses(choice)
     /\ stream' = "broken"
     /\ UNCHANGED <<finished, sent_role, client>>
  \/ /\ stream # "reading"
     /\ UNCHANGED <<stream, finished, sent_role, client>>

WholeTakesChoice(choice) ==
  \/ /\ whole = "reading" /\ Accepts(buffer, choice)
     /\ buffer' = Add(buffer, choice)
     /\ UNCHANGED whole
  \/ /\ whole = "reading" /\ ~Accepts(buffer, choice)
     /\ whole' = "failed"
     /\ UNCHANGED buffer
  \/ /\ whole # "reading"
     /\ UNCHANGED <<whole, buffer>>

Running == stream = "reading" \/ whole = "reading"

TakeChoice ==
  /\ Running /\ events > 0
  /\ events' = events - 1
  /\ \E choice \in UpstreamChoices :
       /\ StreamTakesChoice(choice)
       /\ WholeTakesChoice(choice)
       /\ orderly' = (orderly /\ client.reason = None)

TakeUsage ==
  /\ Running /\ events > 0
  /\ events' = events - 1
  /\ client' = [client EXCEPT !.usage = @ \/ (stream = "reading" /\ IncludeUsage)]
  /\ buffer' = IF whole = "reading" THEN AddUsage(buffer) ELSE buffer
  /\ UNCHANGED <<stream, finished, sent_role, whole, orderly>>

\* Wrong variant: a finish is made up even if there was one.
StreamTakesDoneTwice ==
  \/ /\ stream = "reading"
     /\ stream' = "done"
     /\ finished' = TRUE
     /\ client' = [client EXCEPT !.reason = "stop"]
     /\ UNCHANGED sent_role
  \/ /\ stream # "reading"
     /\ UNCHANGED <<stream, finished, sent_role, client>>

\* [DONE]: a stream without a finish is given one.
StreamTakesDone ==
  \/ /\ stream = "reading"
     /\ stream' = "done"
     /\ finished' = TRUE
     /\ client' = [client EXCEPT !.reason = IF finished THEN @ ELSE "stop"]
     /\ UNCHANGED sent_role
  \/ /\ stream # "reading"
     /\ UNCHANGED <<stream, finished, sent_role, client>>

WholeTakesDone ==
  \/ /\ whole = "reading" /\ Complete(buffer)
     /\ whole' = "done"
     /\ buffer' = Completion(buffer)
  \/ /\ whole = "reading" /\ ~Complete(buffer)
     /\ whole' = "failed"
     /\ UNCHANGED buffer
  \/ /\ whole # "reading"
     /\ UNCHANGED <<whole, buffer>>

TakeDone ==
  /\ Running
  /\ StreamTakesDone
  /\ WholeTakesDone
  /\ UNCHANGED <<orderly, events>>

(***************************************************************************)
(* Whatever ends the upstream or does not parse or decrypt fails both.      *)
(***************************************************************************)
BreakOff ==
  /\ Running
  /\ stream' = IF stream = "reading" THEN "broken" ELSE stream
  /\ whole' = IF whole = "reading" THEN "failed" ELSE whole
  /\ UNCHANGED <<finished, sent_role, client, buffer, orderly, events>>

\* The client of the stream goes away.
Leave ==
  /\ stream = "reading"
  /\ stream' = "gone"
  /\ UNCHANGED <<finished, sent_role, client, whole, buffer, orderly, events>>

Over ==
  /\ ~Running
  /\ UNCHANGED vars

Next == TakeChoice \/ TakeUsage \/ TakeDone \/ BreakOff \/ Leave \/ Over

Spec == Init /\ [][Next]_vars

-----------------------------------------------------------------------------
(***************************************************************************)
(* The two clients have the same answer: what the one adds up is what the   *)
(* other is handed, text, reasoning, finish and, where asked for, usage.    *)
(***************************************************************************)
AnswersAgree ==
  /\ client.text = buffer.content
  /\ client.reasoning = buffer.reasoning
  /\ client.reason = buffer.finish
  /\ client.usage = (IncludeUsage /\ buffer.usage)

SameAnswer == stream = "done" /\ whole = "done" => AnswersAgree

(***************************************************************************)
(* The buffered path refuses every upstream the streamed one breaks off at. *)
(***************************************************************************)
BufferIsStricter == stream = "broken" => whole = "failed"

(***************************************************************************)
(* The role comes once, with or before the first text of either kind.       *)
(***************************************************************************)
RoleOnce ==
  /\ client.roles <= 1
  /\ client.text # << >> \/ client.reasoning # << >> => client.roles = 1

(***************************************************************************)
(* The stream flag does not change what a client gets of an upstream: the   *)
(* same message, its role once and before all else, or, of an upstream that *)
(* one path breaks off at, an error from the buffered one at least.         *)
(***************************************************************************)
PathsAgree == SameAnswer /\ BufferIsStricter /\ RoleOnce

(***************************************************************************)
(* As long as the upstream sends no choice after its finish, the client of  *)
(* the stream is kept what ClientStream promises; the streamed path without *)
(* tools does not enforce that order itself.                                *)
(***************************************************************************)
Phase ==
  CASE stream = "done" -> "closed"
    [] stream \in {"broken", "gone"} -> "aborted"
    [] OTHER -> IF client.reason = None THEN "open" ELSE "concluded"

Abstract == INSTANCE ClientStream
  WITH phase <- Phase, text <- client.text, calls <- FALSE, reason <- client.reason

OrderlyPromise ==
  [][orderly' => Abstract!Continue \/ UNCHANGED Abstract!promised]_vars

(***************************************************************************)
(* The inductive invariant: the two paths agree after every event both have *)
(* taken, and they take the same events until one of them fails.            *)
(***************************************************************************)
InStep ==
  /\ stream = "reading" => whole \in {"reading", "failed"}
  /\ whole = "reading" => stream \in {"reading", "gone"}
  /\ stream = "reading" /\ whole = "reading" => AnswersAgree

FinishRemembered == finished <=> client.reason # None

RoleRemembered ==
  /\ client.roles = IF sent_role THEN 1 ELSE 0
  /\ ~sent_role => client.text = << >> /\ client.reasoning = << >>

IInv ==
  /\ TypeOK
  /\ InStep
  /\ SameAnswer
  /\ BufferIsStricter
  /\ FinishRemembered
  /\ RoleRemembered

=============================================================================
