----------------------------- MODULE RetryLoop -----------------------------
(***************************************************************************)
(* What a chat request with tools promises about its upstream requests,     *)
(* streamed or not: there are at most MaxTries of them, none follows the    *)
(* outcome, and the client is told that the retries are exhausted only when *)
(* all of them were used.                                                   *)
(***************************************************************************)
EXTENDS Naturals

CONSTANT MaxTries

VARIABLES
  tries,     \* upstream requests sent
  outcome    \* "none" while the loop runs

loop == <<tries, outcome>>

Begin == tries = 0 /\ outcome = "none"

Try ==
  /\ outcome = "none"
  /\ tries < MaxTries
  /\ tries' = tries + 1
  /\ UNCHANGED outcome

Succeed ==
  /\ outcome = "none"
  /\ tries > 0
  /\ outcome' = "answered"
  /\ UNCHANGED tries

Exhaust ==
  /\ outcome = "none"
  /\ tries = MaxTries
  /\ outcome' = "exhausted"
  /\ UNCHANGED tries

\* Any other failure, that of the upstream request itself included.
Fail ==
  /\ outcome = "none"
  /\ tries <= MaxTries
  /\ tries' \in {tries, tries + 1} \cap 1..MaxTries
  /\ outcome' = "failed"

Abandon ==
  /\ outcome = "none"
  /\ outcome' = "abandoned"
  /\ UNCHANGED tries

Continue == Try \/ Succeed \/ Exhaust \/ Fail \/ Abandon

Promise == Begin /\ [][Continue]_loop

=============================================================================
