-------------------------- MODULE ToolRetry_proofs --------------------------
(***************************************************************************)
(* The buffered tool loop gives valid answers only and keeps the promise of *)
(* RetryLoop, for any retry limit, any upstream and any verdict of the      *)
(* parsers.                                                                 *)
(***************************************************************************)
EXTENDS ToolRetry, FiniteSetTheorems, TLAPS

\* Requests are counted exactly up to one beyond the promised number.
LEMMA OneMoreCounts ==
  ASSUME TypeOK
  PROVE  /\ OneMore \in Nat
         /\ requests <= MaxRetries => OneMore = requests + 1
BY BoundAssumption, ToolOutputAssumption DEF OneMore, TypeOK

LEMMA AddEffect ==
  ASSUME buffer \in Buffer, NEW choice \in Choice, Accepts(buffer, choice)
  PROVE  /\ Add(buffer, choice) \in Buffer
         /\ Add(buffer, choice).content = buffer.content \o TextOf(choice.content)
<1> DEFINE encrypted == buffer.encrypted \/ choice.content # None \/ choice.reasoning # None
           finish == IF choice.finish = None THEN buffer.finish ELSE choice.finish
<1>1. encrypted \in BOOLEAN /\ finish \in Reasons \cup {None} /\ choice.index \in Nat
  BY DEF Buffer, Choice, Accepts
<1>2. /\ buffer.content \o TextOf(choice.content) \in Seq(Symbol)
      /\ buffer.reasoning \o TextOf(choice.reasoning) \in Seq(Symbol)
  BY DEF Buffer, Choice, TextOf
<1>3. Add(buffer, choice) =
        [buffer EXCEPT !.index = choice.index, !.encrypted = encrypted,
                       !.content = @ \o TextOf(choice.content),
                       !.reasoning = @ \o TextOf(choice.reasoning), !.finish = finish]
  BY DEF Add
<1> HIDE DEF encrypted, finish
<1> QED
  BY <1>1, <1>2, <1>3 DEF Buffer

LEMMA CompletionEffect ==
  ASSUME buffer \in Buffer
  PROVE  /\ Completion(buffer) \in Buffer
         /\ Completion(buffer).finish \in Reasons
         /\ Completion(buffer).content = buffer.content
BY ReasonAssumption DEF Completion, Buffer

\* What the verdict says of a text.
LEMMA ClassifyMeans ==
  ASSUME NEW text \in Seq(Symbol), Classify(text) # "invalid"
  PROVE  /\ Bytes(text) <= MaxBytes /\ ~Unparsable(text)
         /\ Classify(text) = "calls" => HasCalls(text)
         /\ Classify(text) # "calls" => ~HasCalls(text) /\ ~RequireToolCall
<1>1. ~(Bytes(text) > MaxBytes) /\ ~Unparsable(text)
  BY DEF Classify
<1>2. Bytes(text) \in Int
  <2> DEFINE wide == {n \in DOMAIN text : text[n] \in Wide}
  <2>1. Len(text) \in Nat /\ wide \subseteq 1..Len(text)
    OBVIOUS
  <2>2. IsFiniteSet(wide)
    BY <2>1, FS_Interval, FS_Subset
  <2>3. Cardinality(wide) \in Nat
    BY <2>2, FS_CardinalityType
  <2> QED
    BY <2>1, <2>3 DEF Bytes
<1> QED
  BY <1>1, <1>2, ToolOutputAssumption DEF Classify

-----------------------------------------------------------------------------
LEMMA InitInvariant == Init => IInv
<1> SUFFICES ASSUME Init PROVE IInv
  OBVIOUS
<1>1. << >> \in Seq(Symbol) /\ << >> \in Seq(Failure) /\ Len(<< >>) = 0
  OBVIOUS
<1>2. buffer \in Buffer
  BY <1>1 DEF Init, Buffer, NewBuffer
<1> QED
  BY <1>1, <1>2, ToolOutputAssumption
  DEF Init, IInv, TypeOK, RequestsCounted, CorrectionIsCurrent, BufferIsCurrent, AnswerIsValid

(***************************************************************************)
(* A failed attempt (RetryOrFail, after a timeout or an invalid text).      *)
(***************************************************************************)
LEMMA RetryStep ==
  ASSUME IInv, pc = "reading", NEW failure \in Failure, RetryOrFail(failure),
         UNCHANGED <<requests, got, events>>
  PROVE  IInv'
<1>1. failures' \in Seq(Failure) /\ Len(failures') = Len(failures) + 1
      /\ failures' # << >> /\ failures'[Len(failures')] = failure
  BY DEF RetryOrFail, IInv, TypeOK
<1>2. TypeOK'
  BY <1>1 DEF RetryOrFail, IInv, TypeOK, Ended
<1>3. RequestsCounted'
  BY ToolOutputAssumption DEF RetryOrFail, IInv, TypeOK, RequestsCounted
<1>4. CorrectionIsCurrent'
  BY <1>1 DEF RetryOrFail, IInv, TypeOK, CorrectionIsCurrent
<1>5. BufferIsCurrent' /\ AnswerIsValid'
  BY DEF RetryOrFail, BufferIsCurrent, AnswerIsValid
<1> QED
  BY <1>2, <1>3, <1>4, <1>5 DEF IInv

LEMMA ConnectStep ==
  ASSUME IInv, Connect
  PROVE  IInv'
<1>1. << >> \in Seq(Symbol)
  OBVIOUS
<1>2. buffer' \in Buffer /\ buffer'.content = << >>
  BY <1>1 DEF Connect, Buffer, NewBuffer
<1>3. requests' = requests + 1
  BY OneMoreCounts DEF Connect, IInv, RequestsCounted
<1> QED
  BY <1>1, <1>2, <1>3, BoundAssumption
  DEF Connect, IInv, TypeOK, RequestsCounted, CorrectionIsCurrent, BufferIsCurrent, AnswerIsValid

LEMMA ChoiceStep ==
  ASSUME IInv, TakeChoice
  PROVE  IInv'
<1> PICK choice \in UpstreamChoices :
      \/ /\ Accepts(buffer, choice)
         /\ buffer' = Add(buffer, choice)
         /\ got' = got \o TextOf(choice.content)
         /\ UNCHANGED pc
      \/ /\ ~Accepts(buffer, choice)
         /\ pc' = "failed"
         /\ UNCHANGED <<buffer, got>>
  BY DEF TakeChoice
<1>1. choice \in Choice /\ buffer \in Buffer
  BY BoundAssumption DEF IInv, TypeOK
<1>2. TextOf(choice.content) \in Seq(Symbol)
  BY <1>1 DEF Choice, TextOf
<1>3. buffer' \in Buffer /\ got' \in Seq(Symbol)
  <2>1. got \in Seq(Symbol)
    BY DEF IInv, TypeOK
  <2>2. got \o TextOf(choice.content) \in Seq(Symbol)
    BY <1>2, <2>1
  <2>3. CASE Accepts(buffer, choice)
    BY <1>1, <2>2, <2>3, AddEffect
  <2>4. CASE ~Accepts(buffer, choice)
    BY <1>1, <2>1, <2>4
  <2> QED
    BY <2>3, <2>4
<1>4. BufferIsCurrent'
  BY <1>1, AddEffect DEF TakeChoice, IInv, BufferIsCurrent
<1> QED
  BY <1>3, <1>4
  DEF TakeChoice, IInv, TypeOK, Ended, RequestsCounted, CorrectionIsCurrent, AnswerIsValid

LEMMA DoneStep ==
  ASSUME IInv, TakeDone
  PROVE  IInv'
<1> DEFINE completion == Completion(buffer)
           verdict == Classify(completion.content)
<1>1. completion \in Buffer /\ completion.content = got /\ completion.finish \in Reasons
  BY CompletionEffect DEF TakeDone, IInv, TypeOK, BufferIsCurrent
<1>2. CASE pc' = "failed" /\ UNCHANGED <<retries, correction, buffer, answer, failures>>
  BY <1>2
  DEF TakeDone, IInv, TypeOK, Ended, RequestsCounted, CorrectionIsCurrent, BufferIsCurrent, AnswerIsValid
<1>3. CASE /\ verdict \in {"text", "calls"}
           /\ pc' = "answered"
           /\ buffer' = completion
           /\ answer' = Give(completion, verdict = "calls")
           /\ UNCHANGED <<retries, correction, failures>>
  <2>1. got \in Seq(Symbol) /\ got' = got
    BY DEF IInv, TypeOK, TakeDone
  <2>2. /\ Bytes(got) <= MaxBytes /\ ~Unparsable(got)
        /\ verdict = "calls" => HasCalls(got)
        /\ verdict # "calls" => ~HasCalls(got) /\ ~RequireToolCall
    BY <1>1, <1>3, <2>1, ClassifyMeans
  <2> HIDE DEF completion, verdict
  <2>3. /\ answer'.tool_retries = retries
        /\ answer'.calls <=> verdict = "calls"
        /\ verdict = "calls" => answer'.content = None /\ answer'.reason = "tool_calls"
        /\ verdict # "calls" => answer'.content = completion.content
    BY <1>3 DEF Give
  <2>4. answer' \in Answer
    <3>1. completion.usage \in BOOLEAN /\ completion.reasoning \in Seq(Symbol)
          /\ completion.content \in Seq(Symbol) /\ retries \in Nat
      BY <1>1 DEF Buffer, IInv, TypeOK
    <3>2. CASE verdict = "calls"
      <4>1. answer' = [content |-> None, reasoning |-> completion.reasoning, calls |-> TRUE,
                       reason |-> "tool_calls", usage |-> completion.usage,
                       tool_retries |-> retries]
        BY <1>3, <3>2 DEF Give
      <4> QED
        BY <3>1, <4>1, ReasonAssumption DEF Answer
    <3>3. CASE verdict # "calls"
      <4>1. answer' = [content |-> completion.content, reasoning |-> completion.reasoning,
                       calls |-> FALSE, reason |-> completion.finish,
                       usage |-> completion.usage, tool_retries |-> retries]
        BY <1>3, <3>3 DEF Give
      <4> QED
        BY <1>1, <3>1, <4>1 DEF Answer
    <3> QED
      BY <3>2, <3>3
  <2>5. TypeOK'
    BY <1>1, <1>3, <2>4 DEF TakeDone, IInv, TypeOK, Ended
  <2>6. retries = Len(failures)
    BY DEF TakeDone, IInv, CorrectionIsCurrent
  <2>7. AnswerIsValid'
    BY <1>1, <1>3, <2>1, <2>2, <2>3, <2>6 DEF AnswerIsValid
  <2> QED
    BY <1>3, <2>5, <2>7
    DEF TakeDone, IInv, RequestsCounted, CorrectionIsCurrent, BufferIsCurrent
<1>4. CASE RetryOrFail([why |-> "invalid", output |-> completion.content])
  <2>1. [why |-> "invalid", output |-> completion.content] \in Failure
    BY <1>1 DEF Failure, IInv, TypeOK
  <2> QED
    BY <1>4, <2>1, RetryStep DEF TakeDone
<1> QED
  BY <1>2, <1>3, <1>4 DEF TakeDone

LEMMA TimeoutStep ==
  ASSUME IInv, Timeout
  PROVE  IInv'
<1>1. [why |-> "timeout", output |-> << >>] \in Failure
  BY DEF Failure
<1> QED
  BY <1>1, RetryStep DEF Timeout

LEMMA OtherSteps ==
  ASSUME IInv, ConnectFails \/ TakeUsage \/ BreakOff \/ Leave \/ Over \/ UNCHANGED vars
  PROVE  IInv'
<1>1. CASE ConnectFails
  BY <1>1, OneMoreCounts
  DEF ConnectFails, IInv, TypeOK, Ended, RequestsCounted, CorrectionIsCurrent, BufferIsCurrent, AnswerIsValid
<1>2. CASE TakeUsage
  <2>1. buffer' \in Buffer /\ buffer'.content = buffer.content
    BY <1>2 DEF TakeUsage, AddUsage, IInv, TypeOK, Buffer
  <2> QED
    BY <1>2, <2>1
    DEF TakeUsage, IInv, TypeOK, Ended, RequestsCounted, CorrectionIsCurrent, BufferIsCurrent, AnswerIsValid
<1>3. CASE BreakOff \/ Leave \/ Over \/ UNCHANGED vars
  BY <1>3
  DEF BreakOff, Leave, Over, vars, IInv, TypeOK, Ended, RequestsCounted, CorrectionIsCurrent,
      BufferIsCurrent, AnswerIsValid
<1> QED
  BY <1>1, <1>2, <1>3

LEMMA SpecInvariant == Spec => []IInv
<1>1. IInv /\ [Next]_vars => IInv'
  BY ConnectStep, ChoiceStep, DoneStep, TimeoutStep, OtherSteps DEF Next
<1> QED
  BY InitInvariant, <1>1, PTL DEF Spec

-----------------------------------------------------------------------------
(***************************************************************************)
(* Type correctness of the loop.                                            *)
(***************************************************************************)
THEOREM ToolRetryTypes == Spec => []TypeOK
<1>1. IInv => TypeOK
  BY DEF IInv
<1> QED
  BY SpecInvariant, <1>1, PTL

(***************************************************************************)
(* A client without streaming gets the valid answer of one attempt.         *)
(***************************************************************************)
THEOREM ValidAnswers == Spec => []AnswerIsValid
<1>1. IInv => AnswerIsValid
  BY DEF IInv
<1> QED
  BY SpecInvariant, <1>1, PTL

(***************************************************************************)
(* A correction is about the attempt right before it.                       *)
(***************************************************************************)
THEOREM CurrentCorrections == Spec => []CorrectionIsCurrent
<1>1. IInv => CorrectionIsCurrent
  BY DEF IInv
<1> QED
  BY SpecInvariant, <1>1, PTL

-----------------------------------------------------------------------------
(***************************************************************************)
(* Every step of the loop is one of RetryLoop or changes nothing there.     *)
(***************************************************************************)
LEMMA LoopStep ==
  ASSUME IInv, [Next]_vars
  PROVE  [Tries!Continue]_Tries!loop
<1> USE DEF Tries!Continue, Tries!loop
<1>0. requests \in Nat /\ retries \in Nat /\ MaxRetries \in Nat
  BY ToolOutputAssumption DEF IInv, TypeOK
<1>1. CASE Connect \/ ConnectFails
  <2>1. requests <= MaxRetries /\ requests' = requests + 1
    BY <1>0, <1>1, OneMoreCounts DEF Connect, ConnectFails, IInv, RequestsCounted
  <2>2. CASE Connect
    <3>1. Tries!Try
      BY <1>0, <2>1, <2>2 DEF Connect, Tries!Try, Outcome
    <3> QED
      BY <3>1
  <2>3. CASE ConnectFails
    <3>1. Tries!Fail
      BY <1>0, <2>1, <2>3 DEF ConnectFails, Tries!Fail, Outcome
    <3> QED
      BY <3>1
  <2> QED
    BY <1>1, <2>2, <2>3
<1>2. ASSUME pc = "reading", UNCHANGED requests,
             pc' \in {"reading", "connecting", "answered", "failed", "gone"}
      PROVE  [Tries!Continue]_Tries!loop
  <2>1. requests = retries + 1 /\ requests <= MaxRetries + 1
    BY <1>0, <1>2 DEF IInv, RequestsCounted
  <2>2. CASE pc' \in {"reading", "connecting"}
    BY <1>2, <2>2 DEF Outcome
  <2>3. CASE pc' = "answered"
    <3>1. Tries!Succeed
      BY <1>0, <1>2, <2>1, <2>3 DEF Tries!Succeed, Outcome
    <3> QED
      BY <3>1
  <2>4. CASE pc' = "failed"
    <3>1. Tries!Fail
      BY <1>0, <1>2, <2>1, <2>4 DEF Tries!Fail, Outcome
    <3> QED
      BY <3>1
  <2>5. CASE pc' = "gone"
    <3>1. Tries!Abandon
      BY <1>2, <2>5 DEF Tries!Abandon, Outcome
    <3> QED
      BY <3>1
  <2> QED
    BY <1>2, <2>2, <2>3, <2>4, <2>5
<1>3. ASSUME NEW failure, pc = "reading", UNCHANGED requests, RetryOrFail(failure)
      PROVE  [Tries!Continue]_Tries!loop
  <2>1. CASE retries < MaxRetries
    BY <1>2, <1>3, <2>1 DEF RetryOrFail
  <2>2. CASE ~(retries < MaxRetries)
    <3>1. pc' = "exhausted" /\ requests = MaxRetries + 1
      BY <1>0, <1>3, <2>2 DEF RetryOrFail, IInv, RequestsCounted
    <3>2. Tries!Exhaust
      BY <1>3, <3>1 DEF Tries!Exhaust, Outcome
    <3> QED
      BY <3>2
  <2> QED
    BY <2>1, <2>2
<1>4. CASE TakeChoice \/ TakeUsage \/ BreakOff
  <2>1. pc = "reading" /\ UNCHANGED requests /\ pc' \in {"reading", "failed"}
    BY <1>4 DEF TakeChoice, TakeUsage, BreakOff
  <2> QED
    BY <1>2, <2>1
<1>5. CASE TakeDone
  <2>1. pc = "reading" /\ UNCHANGED requests
    BY <1>5 DEF TakeDone
  <2>2. \/ pc' \in {"failed", "answered"}
        \/ RetryOrFail([why |-> "invalid", output |-> Completion(buffer).content])
    BY <1>5 DEF TakeDone
  <2> QED
    BY <1>2, <1>3, <2>1, <2>2
<1>6. CASE Timeout
  BY <1>3, <1>6 DEF Timeout
<1>7. CASE Leave
  <2>1. Tries!Abandon
    BY <1>7 DEF Leave, Tries!Abandon, Outcome
  <2> QED
    BY <2>1
<1>8. CASE Over \/ UNCHANGED vars
  BY <1>8 DEF Over, vars, Outcome
<1> QED
  BY <1>1, <1>4, <1>5, <1>6, <1>7, <1>8 DEF Next

(***************************************************************************)
(* The loop keeps the promise of RetryLoop.                                 *)
(***************************************************************************)
THEOREM RetryTheorem == Spec => RetryPromise
<1>1. Init => Tries!Begin
  BY DEF Init, Tries!Begin, Outcome
<1>2. IInv /\ [Next]_vars => [Tries!Continue]_Tries!loop
  BY LoopStep
<1> QED
  BY SpecInvariant, <1>1, <1>2, PTL DEF Spec, RetryPromise, Tries!Promise

=============================================================================
