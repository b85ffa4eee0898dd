------------------------ MODULE UpstreamChat_proofs ------------------------
(***************************************************************************)
(* Proofs about UpstreamChat: how a request ends and what the model reads   *)
(* in each of its attempts, whatever the body, the keys of the enclave and  *)
(* the answers.                                                             *)
(*                                                                         *)
(* Three facts carry the first: a refused body has one of six codes, so     *)
(* that no other end looks like it; a payload opens exactly if it was       *)
(* sealed for the key it is opened with; and the place of the handler tells *)
(* how many attempts were sent, taken and answered (Course).                *)
(*                                                                         *)
(* Three more carry the second: what was sent is told from the request and  *)
(* from the answers (Told); what the proxy adds to the messages can be      *)
(* taken out again (OfClientAppended); and a message that is not refused    *)
(* is normalized to one that says the same (MessageConveyed).               *)
(***************************************************************************)
EXTENDS UpstreamChat, SequenceLemmas

IsSequence(s) == s \in Seq(Range(s))

LEMMA AppendAny ==
  ASSUME NEW s, IsSequence(s), NEW e
  PROVE  /\ IsSequence(Append(s, e))
         /\ Len(Append(s, e)) = Len(s) + 1
         /\ Append(s, e)[Len(s) + 1] = e
         /\ \A i \in 1 .. Len(s) : Append(s, e)[i] = s[i]
         /\ DOMAIN Append(s, e) = 1 .. Len(s) + 1
<1> DEFINE S == Range(s) \cup {e}
           t == Append(s, e)
<1>1. Range(s) \subseteq S /\ e \in S
  OBVIOUS
<1>2. s \in Seq(S)
  BY <1>1, SeqMonotonic DEF IsSequence
<1>3. /\ t \in Seq(S) /\ Len(t) = Len(s) + 1
      /\ \A i \in 1 .. Len(s) : t[i] = s[i]
      /\ t[Len(s) + 1] = e /\ Len(s) \in Nat
  BY <1>1, <1>2, AppendProperties
<1>4. DOMAIN t = 1 .. Len(s) + 1
  BY <1>3, LenProperties
<1>5. t \in Seq(Range(t))
  <2>1. t \in [1 .. Len(t) -> S]
    BY <1>3, LenProperties
  <2>2. t \in [1 .. Len(t) -> Range(t)]
    BY <2>1 DEF Range
  <2> HIDE DEF t, S
  <2>3. Seq(Range(t)) = UNION {[1 .. n -> Range(t)] : n \in Nat}
    BY SeqDef
  <2> QED
    BY <2>2, <2>3, <1>3
<1> QED
  BY <1>3, <1>4, <1>5 DEF IsSequence

LEMMA NoneYet == IsSequence(<< >>) /\ Len(<< >>) = 0 /\ DOMAIN << >> = {}
BY EmptySeq, LenProperties DEF IsSequence

-----------------------------------------------------------------------------
(* Codes of a refused body. *)

RequestCodes ==
  {"invalid_request", "unsupported_request_field", "unsupported_message_content",
   "unsupported_message_role", "invalid_tool_call_history", "unsupported_venice_parameter"}

Verdicts == RequestCodes \cup {Fine}

LEMMA FirstOf ==
  ASSUME NEW a \in Verdicts, NEW b \in Verdicts
  PROVE  (a ?? b) \in Verdicts
BY DEF ??, Verdicts

LEMMA CheckVerdict ==
  ASSUME NEW holds \in BOOLEAN, NEW code \in Verdicts
  PROVE  Check(holds, code) \in Verdicts
BY DEF Check, Verdicts

LEMMA BothFine ==
  ASSUME NEW a, NEW b, (a ?? b) = Fine
  PROVE  a = Fine /\ b = Fine
BY DEF ??

LEMMA CheckHolds ==
  ASSUME NEW holds \in BOOLEAN, NEW code \in RequestCodes, Check(holds, code) = Fine
  PROVE  holds
BY DEF Check, RequestCodes, Fine

LEMMA ContentVerdict ==
  ASSUME NEW v, NEW required \in BOOLEAN
  PROVE  ContentError(v, required) \in Verdicts
BY DEF ContentError, Check, Verdicts, RequestCodes

LEMMA MessageVerdict ==
  ASSUME NEW m
  PROVE  MessageError(m) \in Verdicts
<1>1. AssistantError(m) \in Verdicts
  BY ContentVerdict, FirstOf DEF AssistantError, Check, Verdicts, RequestCodes
<1>2. ToolResultError(m) \in Verdicts
  BY ContentVerdict, FirstOf DEF ToolResultError, Check, Verdicts, RequestCodes
<1>3. ContentError(Field(m, "content"), TRUE) \in Verdicts
  BY ContentVerdict
<1>4. Known(m, MessageFields(m.role)) \in Verdicts
  BY DEF Known, Check, Verdicts, RequestCodes
<1>5. CASE m.role = "assistant"
  BY <1>1, <1>4, <1>5, FirstOf DEF MessageError, Check, Verdicts, RequestCodes
<1>6. CASE m.role = "tool"
  BY <1>2, <1>4, <1>6, FirstOf DEF MessageError, Check, Verdicts, RequestCodes
<1>7. CASE m.role # "assistant" /\ m.role # "tool"
  BY <1>3, <1>4, <1>7, FirstOf DEF MessageError, Check, Verdicts, RequestCodes
<1> QED
  BY <1>5, <1>6, <1>7

LEMMA MessagesVerdict ==
  ASSUME NEW v
  PROVE  MessagesError(v) \in Verdicts
<1> DEFINE failing == {n \in DOMAIN v : MessageError(v[n]) # Fine}
<1>1. MessageError(v[Min(failing)]) \in Verdicts
  BY MessageVerdict
<1> QED
  BY <1>1 DEF MessagesError, Verdicts, RequestCodes

LEMMA VeniceVerdict ==
  ASSUME NEW v
  PROVE  VeniceError(v) \in Verdicts
BY FirstOf DEF VeniceError, Check, Verdicts, RequestCodes

(* The codes of a refused body are its own: no other end of a request has one of them. *)
LEMMA RequestVerdict ==
  ASSUME NEW b
  PROVE  RequestError(b) \in Verdicts
<1> DEFINE given(f) == Field(b, f)
           valid(holds) == Check(holds, "invalid_request")
<1>1. ASSUME NEW holds
      PROVE  valid(holds) \in Verdicts
  BY DEF Check, Verdicts, RequestCodes
<1>2. Known(b, RequestFields) \in Verdicts
  BY DEF Known, Check, Verdicts, RequestCodes
<1>3. MessagesError(given("messages")) \in Verdicts
  BY MessagesVerdict
<1>4. VeniceError(given("venice_parameters")) \in Verdicts
  BY VeniceVerdict
<1> QED
  BY <1>1, <1>2, <1>3, <1>4, FirstOf DEF RequestError

-----------------------------------------------------------------------------
(* What opens with the key of a pair was sealed for it, and the other way round. *)

Ours(p) ==
  /\ p = Encrypted(p.sealed.text, ProxyPair, p.point, p.nonce)
  /\ p.point # NoPoint /\ p.sealed.text # NotText

LEMMA SealedOpens ==
  ASSUME NEW p, Ours(p), Size(p.sealed.text) \in Nat
  PROVE  DecryptContent(p, ProxyPair).ok
<1> DEFINE q == Encrypted(p.sealed.text, ProxyPair, p.point, p.nonce)
<1>1. p = q
  BY DEF Ours
<1>2. /\ q.chars = 2 * (93 + Size(p.sealed.text)) /\ q.digits /\ q.first = 4
      /\ q.point = p.point /\ q.nonce = p.nonce
      /\ q.sealed.text = p.sealed.text /\ q.sealed.nonce = p.nonce
      /\ q.sealed.key = ContentKey(p.point, ProxyPair, HkdfInfo)
  BY DEF Encrypted, Seal, PackedPrefixLen, EphemeralPublicKeyLen, NonceLen, AesGcmTagLen
<1>3. /\ p.chars = 2 * (93 + Size(p.sealed.text)) /\ p.digits /\ p.first = 4
      /\ p.sealed.nonce = p.nonce
      /\ p.sealed.key = ContentKey(p.point, ProxyPair, HkdfInfo)
  BY <1>1, <1>2
<1> HIDE DEF q
<1>4. WellFormed(p)
  <2>1. /\ p.chars # 0 /\ p.chars % 2 = 0 /\ p.chars >= 186
    BY <1>3
  <2> QED
    BY <2>1, <1>3 DEF WellFormed, MinPackedPayloadLen, PackedPrefixLen, EphemeralPublicKeyLen, NonceLen, AesGcmTagLen
<1>5. Unpacks(p)
  <2>1. p.chars \div 2 >= 93
    BY <1>3
  <2>2. p.point # NoPoint
    BY DEF Ours
  <2> QED
    BY <2>1, <2>2, <1>3 DEF Unpacks, MinPackedPayloadLen, PackedPrefixLen, EphemeralPublicKeyLen, NonceLen, AesGcmTagLen
<1>6. Opens(p, ProxyPair)
  BY <1>3 DEF Opens, ContentKey, SharedSecret
<1>7. p.sealed.text # NotText
  BY DEF Ours
<1> QED
  BY <1>4, <1>5, <1>6, <1>7 DEF DecryptContent

LEMMA OpenedParts ==
  ASSUME NEW p, NEW own, DecryptContent(p, own).ok
  PROVE  /\ WellFormed(p) /\ Unpacks(p) /\ Opens(p, own)
         /\ p.sealed.text # NotText
         /\ DecryptContent(p, own).text = p.sealed.text
BY DEF DecryptContent

(* Of the payloads that can come back only those sealed for the proxy open. *)
LEMMA OpensIsOurs ==
  ASSUME NEW text, NEW p \in Payloads(text), DecryptContent(p, ProxyPair).ok,
         Len(sent) \in Nat \ {0}, sent[Len(sent)].client = PublicKeyHex(ProxyPair),
         enclave \in Enclaves
  PROVE  /\ Ours(p)
         /\ DecryptContent(p, ProxyPair).text = p.sealed.text
<1> DEFINE draw == Drawn(Len(sent), 0)
           good == Encrypted(text, ProxyPair, draw, draw)
           other == Encrypted(text, enclave, draw, draw)
<1>1. /\ WellFormed(p) /\ Unpacks(p) /\ Opens(p, ProxyPair)
      /\ p.sealed.text # NotText
      /\ DecryptContent(p, ProxyPair).text = p.sealed.text
  BY OpenedParts
<1>2. \/ p = good \/ p = other
      \/ p = [good EXCEPT !.nonce = Drawn(0, 0)] \/ p = [good EXCEPT !.point = NoPoint]
      \/ p = [good EXCEPT !.digits = FALSE] \/ p = [good EXCEPT !.chars = 2 * MinPackedPayloadLen - 2]
  BY DEF Payloads, PublicKeyHex
<1>3. /\ good.point = draw /\ good.nonce = draw /\ good.sealed.nonce = draw /\ good.sealed.text = text
  BY DEF Encrypted, Seal
<1>4. CASE p = good
  <2>1. p.sealed.text = text /\ p.point = draw /\ p.nonce = draw
    BY <1>3, <1>4
  <2>2. p.point # NoPoint
    BY <1>1 DEF Unpacks
  <2> QED
    BY <1>1, <1>4, <2>1, <2>2 DEF Ours
<1>5. CASE p = other
  <2>1. p.sealed.key.secret = {draw, enclave} /\ p.point = draw
    BY <1>5 DEF Encrypted, Seal, ContentKey, SharedSecret
  <2>2. p.sealed.key.secret = {ProxyPair, draw}
    BY <1>1, <2>1 DEF Opens, ContentKey, SharedSecret
  <2>3. enclave = ProxyPair
    BY <2>1, <2>2, SMTT(30)
  <2> QED
    BY <2>3, KeysAssumption
<1>6. CASE p = [good EXCEPT !.nonce = Drawn(0, 0)]
  <2>1. p.nonce = <<0, 0>> /\ p.sealed.nonce = <<Len(sent), 0>>
    BY <1>3, <1>6 DEF Encrypted, Seal, Drawn
  <2>2. p.sealed.nonce = p.nonce
    BY <1>1 DEF Opens
  <2> QED
    BY <2>1, <2>2
<1>7. CASE p = [good EXCEPT !.point = NoPoint]
  BY <1>1, <1>7 DEF Encrypted, Unpacks
<1>8. CASE p = [good EXCEPT !.digits = FALSE]
  BY <1>1, <1>8 DEF Encrypted, WellFormed
<1>9. CASE p = [good EXCEPT !.chars = 2 * MinPackedPayloadLen - 2]
  BY <1>1, <1>9 DEF Encrypted, WellFormed, MinPackedPayloadLen, PackedPrefixLen,
                    EphemeralPublicKeyLen, NonceLen, AesGcmTagLen
<1> QED
  BY <1>1, <1>2, <1>4, <1>5, <1>6, <1>7, <1>8, <1>9

-----------------------------------------------------------------------------
(* The inductive invariant. *)

Early == {"parse", "session", "attest", "prepare"}
Working == {"send", "upstream", "answer"}

Streaming == [NoResponse EXCEPT !.status = 200]

Histories ==
  /\ IsSequence(sent) /\ IsSequence(outcomes) /\ IsSequence(answers)
  /\ \A k \in DOMAIN sent : sent[k].client = PublicKeyHex(ProxyPair)

\* How far the request is, told from the place of the handler.
Course ==
  /\ pc \in Early =>
       /\ sent = << >> /\ outcomes = << >> /\ answers = << >>
       /\ retries = 0 /\ correction = << >>
       /\ response = NoResponse
  /\ pc \in Working =>
       /\ Len(answers) = retries
       /\ Len(sent) = (IF pc = "send" THEN retries ELSE retries + 1)
       /\ Len(outcomes) = (IF pc = "answer" THEN retries + 1 ELSE retries)
       /\ \A k \in DOMAIN outcomes : outcomes[k] = Status(200)
       /\ response = NoResponse \/ (response = Streaming /\ outcomes # << >>)

IInv == TypeOK /\ Histories /\ Course /\ StatusTellsCourse /\ SealedBothWays

(* How an end is told. *)

LEMMA FailSays ==
  ASSUME NEW e, Fail(e), response = NoResponse \/ response = Streaming
  PROVE  /\ pc' = "done"
         /\ response'.code = CodeOf(e)
         /\ response'.status = IF response = NoResponse THEN StatusOf(e) ELSE 200
<1>1. NoResponse # Streaming /\ NoResponse.status = 0 /\ Streaming.status = 200
  BY DEF NoResponse, Streaming
<1>2. CASE response = NoResponse
  BY <1>1, <1>2 DEF Fail, FailureOf, Begun
<1>3. CASE response = Streaming
  <2>1. response' = [response EXCEPT !.code = CodeOf(e)]
    BY <1>1, <1>3 DEF Fail, FailureOf, Begun
  <2>2. response'.code = CodeOf(e) /\ response'.status = 200
    BY <2>1, <1>3 DEF Streaming, NoResponse
  <2> QED
    BY <1>1, <1>3, <2>2 DEF Fail
<1> QED
  BY <1>2, <1>3

\* The codes that say something of what was sent.
TellingCodes ==
  {Fine, "invalid_tool_call", "e2ee_response_decryption_failed",
   "upstream_authentication_failed", "upstream_status_error", "upstream_timeout", "upstream_unavailable"}

LEMMA EndEarly ==
  ASSUME IInv, pc \in Early, NEW e, Fail(e),
         CodeOf(e) \notin TellingCodes, StatusOf(e) \in {400, 500, 502, 503},
         UNCHANGED <<inputs, request, key, attempt, history>>
  PROVE  IInv'
<1> USE DEF inputs, attempt, history
<1>1. sent' = << >> /\ outcomes' = << >> /\ answers' = << >> /\ response = NoResponse
  BY DEF IInv, Course
<1>2. pc' = "done" /\ response'.code \notin TellingCodes /\ response'.status \in {400, 500, 502, 503}
  BY <1>1, FailSays
<1>3. TypeOK'
  BY <1>2 DEF IInv, TypeOK, Places
<1>4. Histories'
  BY DEF IInv, Histories
<1>5. Course'
  BY <1>2 DEF Course, Early, Working
<1>6. StatusTellsCourse'
  BY <1>1, <1>2 DEF StatusTellsCourse, TellingCodes
<1>7. SealedBothWays'
  BY <1>2 DEF SealedBothWays, TellingCodes
<1> QED
  BY <1>3, <1>4, <1>5, <1>6, <1>7 DEF IInv

LEMMA RequestEnds ==
  ASSUME NEW kind \in RequestCodes
  PROVE  /\ CodeOf(Error("request", kind)) \notin TellingCodes
         /\ StatusOf(Error("request", kind)) = 400
BY DEF CodeOf, StatusOf, Error, RequestCodes, TellingCodes, Fine

LEMMA SessionEnds ==
  ASSUME NEW kind \in IdentifierErrors \cup {"exhausted", "expired"}
  PROVE  /\ CodeOf(Error("session", kind)) \notin TellingCodes
         /\ StatusOf(Error("session", kind)) \in {400, 500}
BY DEF CodeOf, StatusOf, Error, IdentifierErrors, TellingCodes, Fine

LEMMA AttestationEnds ==
  ASSUME NEW kind \in DOMAIN AttestationCodes
  PROVE  /\ CodeOf(Error("attestation", kind)) \notin TellingCodes
         /\ StatusOf(Error("attestation", kind)) \in {502, 503}
<1>1. AttestationCodes[kind] \notin TellingCodes
  BY DEF AttestationCodes, TellingCodes, Fine
<1>2. CodeOf(Error("attestation", kind)) = AttestationCodes[kind]
  BY DEF CodeOf, Error
<1> QED
  BY <1>1, <1>2 DEF StatusOf, Error

LEMMA VeniceEnds ==
  ASSUME NEW outcome \in {Status(401), Status(500), Failed("timeout"), Failed("request")}
  PROVE  /\ ~IsSuccess(outcome)
         /\ CodeOf(UpstreamError(outcome)) \in
              {"upstream_authentication_failed", "upstream_status_error", "upstream_timeout", "upstream_unavailable"}
         /\ StatusOf(UpstreamError(outcome)) = 502
<1>1. CASE outcome = Status(401)
  <2>1. UpstreamError(outcome) = Error("venice", "authentication")
    BY <1>1 DEF UpstreamError, Status
  <2> QED
    BY <1>1, <2>1 DEF Status, IsSuccess, CodeOf, StatusOf, Error, VeniceErrorCode
<1>2. CASE outcome = Status(500)
  <2>1. UpstreamError(outcome) = Error("venice", "status")
    BY <1>2 DEF UpstreamError, Status
  <2> QED
    BY <1>2, <2>1 DEF Status, IsSuccess, CodeOf, StatusOf, Error, VeniceErrorCode
<1>3. CASE outcome = Failed("timeout")
  <2>1. UpstreamError(outcome) = Error("venice", "timeout")
    BY <1>3 DEF UpstreamError, Failed
  <2> QED
    BY <1>3, <2>1 DEF Failed, IsSuccess, CodeOf, StatusOf, Error, VeniceErrorCode
<1>4. CASE outcome = Failed("request")
  <2>1. UpstreamError(outcome) = Error("venice", "request")
    BY <1>4 DEF UpstreamError, Failed
  <2> QED
    BY <1>4, <2>1 DEF Failed, IsSuccess, CodeOf, StatusOf, Error, VeniceErrorCode
<1> QED
  BY <1>1, <1>2, <1>3, <1>4

LEMMA StreamEnds ==
  ASSUME NEW kind \in {"stream", "malformed", "decryption"}
  PROVE  /\ CodeOf(Error("stream", kind)) =
              (IF kind = "decryption" THEN "e2ee_response_decryption_failed"
               ELSE IF kind = "stream" THEN "upstream_stream_error" ELSE "upstream_malformed_response")
         /\ StatusOf(Error("stream", kind)) = 502
BY DEF CodeOf, StatusOf, Error, StreamErrorCode

LEMMA ExhaustedEnds ==
  ASSUME NEW kind
  PROVE  /\ CodeOf(Error("exhausted", kind)) = "invalid_tool_call"
         /\ StatusOf(Error("exhausted", kind)) = 502
BY DEF CodeOf, StatusOf, Error

-----------------------------------------------------------------------------
(* The steps. *)

LEMMA StartsWell == Init => IInv
<1> SUFFICES ASSUME Init PROVE IInv
  OBVIOUS
<1> USE DEF Init
<1>1. NoKey = PublicKeyHex(NoPoint)
  BY DEF NoKey
<1>2. TypeOK
  BY <1>1, NoneYet, RetriesAssumption DEF TypeOK, Places, NoResponse
<1>3. Histories
  BY NoneYet DEF Histories
<1>4. Course
  BY DEF Course, Early, Working
<1>5. StatusTellsCourse /\ SealedBothWays
  BY DEF StatusTellsCourse, SealedBothWays
<1> QED
  BY <1>2, <1>3, <1>4, <1>5 DEF IInv

LEMMA EarlyEnds ==
  ASSUME IInv, RefuseBody \/ LackKey \/ NoSession \/ AttestationFails \/ RefuseTools
  PROVE  IInv'
<1>1. CASE RefuseBody
  <2>1. RequestError(body) \in RequestCodes
    BY <1>1, RequestVerdict DEF RefuseBody, Verdicts
  <2> QED
    BY <1>1, <2>1, RequestEnds, EndEarly DEF RefuseBody, Early
<1>2. CASE LackKey
  <2> DEFINE e == Error("proxy_instance_key_unavailable", "none")
  <2>1. CodeOf(e) \notin TellingCodes /\ StatusOf(e) = 500
    BY DEF CodeOf, StatusOf, Error, TellingCodes, Fine
  <2> QED
    BY <1>2, <2>1, EndEarly DEF LackKey, Early
<1>3. CASE NoSession
  <2>1. PICK kind \in IdentifierErrors \cup {"exhausted"} : Fail(Error("session", kind))
    BY <1>3 DEF NoSession
  <2> QED
    BY <1>3, <2>1, SessionEnds, EndEarly DEF NoSession, Early
<1>4. CASE AttestationFails
  <2>1. pc \in Early /\ UNCHANGED <<inputs, request, key, attempt, history>>
    BY <1>4 DEF AttestationFails, Early
  <2>2. CASE Fail(Error("session", "expired"))
    BY <2>1, <2>2, SessionEnds, EndEarly
  <2>3. CASE \E kind \in DOMAIN AttestationCodes : Fail(Error("attestation", kind))
    <3>1. PICK kind \in DOMAIN AttestationCodes : Fail(Error("attestation", kind))
      BY <2>3
    <3> QED
      BY <2>1, <3>1, AttestationEnds, EndEarly
  <2> QED
    BY <1>4, <2>2, <2>3 DEF AttestationFails
<1>5. CASE RefuseTools
  BY <1>5, RequestEnds, EndEarly DEF RefuseTools, Early, RequestCodes
<1> QED
  BY <1>1, <1>2, <1>3, <1>4, <1>5

\* A step that leaves what was sent and told as it is, and stays in one part of the way.
LEMMA MovesOn ==
  ASSUME IInv, UNCHANGED <<response, attempt, history>>, pc' # "done",
         body' \in Bodies, config' \in Configs, enclave' \in Enclaves,
         key' \in {PublicKeyHex(pair) : pair \in Enclaves \cup {NoPoint}},
         \/ pc \in Early /\ pc' \in Early \cup {"send"}
         \/ pc \in Working /\ pc' = pc
  PROVE  IInv'
<1> USE DEF attempt, history
<1>1. TypeOK'
  BY DEF IInv, TypeOK, Early, Places, Working
<1>2. Histories'
  BY DEF IInv, Histories
<1>3. Course'
  <2>1. CASE pc \in Early
    BY <2>1, NoneYet DEF IInv, Course, Early, Working
  <2>2. CASE pc \in Working
    BY <2>2 DEF IInv, Course, Early, Working
  <2> QED
    BY <2>1, <2>2
<1>4. StatusTellsCourse' /\ SealedBothWays'
  BY DEF StatusTellsCourse, SealedBothWays
<1> QED
  BY <1>1, <1>2, <1>3, <1>4 DEF IInv

LEMMA Moves ==
  ASSUME IInv, Accept \/ FindSession \/ Attest \/ Prepare \/ Rotate
  PROVE  IInv'
<1> USE DEF inputs, attempt, history
<1>1. /\ body \in Bodies /\ config \in Configs /\ enclave \in Enclaves
      /\ key \in {PublicKeyHex(pair) : pair \in Enclaves \cup {NoPoint}} /\ pc \in Places
  BY DEF IInv, TypeOK
<1>2. CASE Accept
  BY <1>1, <1>2, MovesOn DEF Accept, Early
<1>3. CASE FindSession
  <2>1. key' \in {PublicKeyHex(pair) : pair \in Enclaves \cup {NoPoint}} /\ pc' \in {"attest", "prepare"}
    BY <1>1, <1>3 DEF FindSession
  <2> QED
    BY <1>1, <1>3, <2>1, MovesOn DEF FindSession, Early
<1>4. CASE Attest
  BY <1>1, <1>4, MovesOn DEF Attest, Early
<1>5. CASE Prepare
  BY <1>1, <1>5, MovesOn DEF Prepare, Early
<1>6. CASE Rotate
  BY <1>1, <1>6, MovesOn DEF Rotate, Early, Working, Places
<1> QED
  BY <1>2, <1>3, <1>4, <1>5, <1>6

\* What the invariant says while attempts are made.
LEMMA AtWork ==
  ASSUME IInv, pc \in Working
  PROVE  /\ retries \in 0 .. MaxRetries /\ MaxRetries \in Nat
         /\ IsSequence(sent) /\ IsSequence(outcomes) /\ IsSequence(answers)
         /\ DOMAIN sent = 1 .. Len(sent) /\ DOMAIN outcomes = 1 .. Len(outcomes)
         /\ Len(answers) = retries
         /\ Len(sent) = (IF pc = "send" THEN retries ELSE retries + 1)
         /\ Len(outcomes) = (IF pc = "answer" THEN retries + 1 ELSE retries)
         /\ \A k \in DOMAIN outcomes : outcomes[k] = Status(200)
         /\ response = NoResponse \/ (response = Streaming /\ outcomes # << >>)
         /\ \A k \in DOMAIN sent : sent[k].client = PublicKeyHex(ProxyPair)
BY RetriesAssumption, LenProperties DEF IInv, TypeOK, Histories, Course, IsSequence

LEMMA SendStep ==
  ASSUME IInv, Send
  PROVE  IInv'
<1> USE DEF inputs, attempt, history
<1>1. pc = "send" /\ pc' = "upstream" /\ sent' = Append(sent, Outgoing)
      /\ UNCHANGED <<inputs, request, key, attempt, response, outcomes, answers>>
  BY DEF Send
<1>2. pc \in Working
  BY <1>1 DEF Working
<1>3. /\ IsSequence(sent') /\ Len(sent') = retries + 1 /\ DOMAIN sent' = 1 .. Len(sent) + 1
      /\ \A k \in 1 .. Len(sent) : sent'[k] = sent[k]
      /\ sent'[Len(sent) + 1] = Outgoing
  BY <1>1, <1>2, AtWork, AppendAny
<1>4. TypeOK'
  BY <1>1, <1>2, <1>3, AtWork DEF IInv, TypeOK, Places
<1>5. Histories'
  <2>1. Outgoing.client = PublicKeyHex(ProxyPair)
    BY DEF Outgoing
  <2> QED
    BY <1>1, <1>2, <1>3, <2>1, AtWork DEF Histories
<1>6. Course'
  BY <1>1, <1>2, <1>3, AtWork DEF Course, Early, Working
<1>7. StatusTellsCourse' /\ SealedBothWays'
  BY <1>1 DEF StatusTellsCourse, SealedBothWays
<1> QED
  BY <1>4, <1>5, <1>6, <1>7 DEF IInv

LEMMA TakenStep ==
  ASSUME IInv, Taken
  PROVE  IInv'
<1> USE DEF inputs, attempt, history
<1>1. pc = "upstream" /\ pc' = "answer" /\ outcomes' = Append(outcomes, Status(200))
      /\ response' = (IF request.stream THEN Streaming ELSE response)
      /\ UNCHANGED <<inputs, request, key, attempt, sent, answers>>
  BY DEF Taken, Streaming
<1>2. pc \in Working
  BY <1>1 DEF Working
<1>3. /\ IsSequence(outcomes') /\ Len(outcomes') = retries + 1 /\ DOMAIN outcomes' = 1 .. Len(outcomes) + 1
      /\ \A k \in 1 .. Len(outcomes) : outcomes'[k] = outcomes[k]
      /\ outcomes'[Len(outcomes) + 1] = Status(200)
  BY <1>1, <1>2, AtWork, AppendAny
<1>4. outcomes' # << >>
  BY <1>2, <1>3, NoneYet, AtWork
<1>5. response' \in {NoResponse, Streaming}
  BY <1>1, <1>2, AtWork
<1>6. TypeOK'
  <2>1. response'.status \in {0, 200}
    BY <1>5 DEF NoResponse, Streaming
  <2> QED
    BY <1>1, <1>2, <1>3, <2>1, AtWork DEF IInv, TypeOK, Places
<1>7. Histories'
  BY <1>1, <1>2, <1>3, AtWork DEF IInv, Histories
<1>8. Course'
  BY <1>1, <1>2, <1>3, <1>4, <1>5, AtWork DEF Course, Early, Working
<1>9. StatusTellsCourse' /\ SealedBothWays'
  BY <1>1 DEF StatusTellsCourse, SealedBothWays
<1> QED
  BY <1>6, <1>7, <1>8, <1>9 DEF IInv

LEMMA NotTakenStep ==
  ASSUME IInv, NotTaken
  PROVE  IInv'
<1> USE DEF inputs, attempt, history
<1>1. pc = "upstream" /\ UNCHANGED <<inputs, request, key, attempt, sent, answers>>
  BY DEF NotTaken
<1>2. PICK outcome \in {Status(401), Status(500), Failed("timeout"), Failed("request")} :
        outcomes' = Append(outcomes, outcome) /\ Fail(UpstreamError(outcome))
  BY DEF NotTaken
<1>3. pc \in Working
  BY <1>1 DEF Working
<1>4. /\ IsSequence(outcomes') /\ Len(outcomes') = retries + 1
      /\ \A k \in 1 .. retries : outcomes'[k] = outcomes[k]
      /\ outcomes'[retries + 1] = outcome
  BY <1>1, <1>2, <1>3, AtWork, AppendAny
<1>5. /\ pc' = "done"
      /\ response'.code \in {"upstream_authentication_failed", "upstream_status_error",
                             "upstream_timeout", "upstream_unavailable"}
      /\ response'.status = (IF response = NoResponse THEN 502 ELSE 200)
      /\ ~IsSuccess(outcome)
  BY <1>2, <1>3, AtWork, FailSays, VeniceEnds
<1>6. Len(sent) = retries + 1 /\ Len(answers) = retries /\ retries \in Nat
  BY <1>1, <1>3, AtWork
<1>7. TypeOK'
  BY <1>1, <1>3, <1>4, <1>5, <1>6, AtWork DEF IInv, TypeOK, Places
<1>8. Histories'
  BY <1>1, <1>3, <1>4, AtWork DEF IInv, Histories
<1>9. Course'
  BY <1>5 DEF Course, Early, Working
<1>10. StatusTellsCourse'
  <2>1. response'.status = 200 => outcomes' # << >> /\ outcomes'[1] = Status(200)
    <3> SUFFICES ASSUME response'.status = 200
                 PROVE  outcomes' # << >> /\ outcomes'[1] = Status(200)
      OBVIOUS
    <3>1. response = Streaming /\ outcomes # << >>
      BY <1>3, <1>5, AtWork
    <3>2. Len(outcomes) = retries /\ DOMAIN outcomes = 1 .. retries
      BY <1>1, <1>3, AtWork
    <3>3. retries # 0
      BY <1>3, <3>1, <3>2, EmptySeq, AtWork DEF IsSequence
    <3>4. 1 \in DOMAIN outcomes
      BY <1>6, <3>2, <3>3
    <3>5. outcomes[1] = Status(200)
      BY <1>3, <3>4, AtWork
    <3>6. outcomes'[1] = Status(200)
      BY <1>4, <3>2, <3>4, <3>5
    <3>7. outcomes' # << >>
      BY <1>4, <1>6, NoneYet
    <3> QED
      BY <3>6, <3>7
  <2>2. ~IsSuccess(outcomes'[Len(outcomes')])
    BY <1>4, <1>5
  <2>3. Len(answers') < Len(sent')
    BY <1>1, <1>6
  <2>4. response'.status \in {200, 502} /\ response'.code # Fine /\ response'.code # "invalid_tool_call"
    BY <1>5 DEF Fine
  <2> QED
    BY <2>1, <2>2, <2>3, <2>4 DEF StatusTellsCourse
<1>11. SealedBothWays'
  BY <1>5 DEF SealedBothWays, Fine
<1> QED
  BY <1>7, <1>8, <1>9, <1>10, <1>11 DEF IInv

\* An answer is the last, and what the response then says of it.
EndsInAnswer ==
  /\ pc = "answer" /\ pc' = "done"
  /\ UNCHANGED <<inputs, request, key, attempt, sent, outcomes>>
  /\ response'.status \in {200, 502}
  /\ response'.code \notin {"upstream_authentication_failed", "upstream_status_error",
                            "upstream_timeout", "upstream_unavailable"}
  /\ response'.code = Fine => response'.status = 200
  /\ response'.code = "invalid_tool_call" => retries = MaxRetries

AllButSealed == TypeOK /\ Histories /\ Course /\ StatusTellsCourse

\* An answer is added, and the request ends.
LEMMA AnswerEnds ==
  ASSUME IInv, EndsInAnswer, NEW payload, NEW fault, Ended(payload, fault)
  PROVE  AllButSealed' /\ answers'[Len(answers')] = [payload |-> payload, fault |-> fault]
<1>0. /\ pc = "answer" /\ pc' = "done"
      /\ UNCHANGED <<inputs, request, key, attempt, sent, outcomes>>
      /\ response'.status \in {200, 502}
      /\ response'.code \notin {"upstream_authentication_failed", "upstream_status_error",
                                "upstream_timeout", "upstream_unavailable"}
      /\ response'.code = Fine => response'.status = 200
      /\ response'.code = "invalid_tool_call" => retries = MaxRetries
  BY DEF EndsInAnswer
<1> USE <1>0 DEF inputs, attempt, history
<1>1. pc \in Working
  BY DEF Working
<1>2. /\ IsSequence(answers') /\ Len(answers') = retries + 1
      /\ answers'[retries + 1] = [payload |-> payload, fault |-> fault]
  BY <1>1, AtWork, AppendAny DEF Ended
<1>3. Len(sent) = retries + 1 /\ Len(outcomes) = retries + 1 /\ retries \in Nat
  BY <1>1, AtWork
<1>4. \A k \in 1 .. retries + 1 : outcomes[k] = Status(200)
  BY <1>1, <1>3, AtWork
<1>5. outcomes # << >>
  BY <1>3, NoneYet
<1>6. TypeOK'
  BY <1>2, <1>3, AtWork, <1>1 DEF IInv, TypeOK, Places
<1>7. Histories'
  BY <1>1, <1>2, AtWork DEF IInv, Histories
<1>8. Course'
  BY DEF Course, Early, Working
<1>9. StatusTellsCourse'
  <2>1. outcomes' # << >> /\ outcomes'[1] = Status(200) /\ outcomes'[Len(outcomes')] = Status(200)
    BY <1>3, <1>4, <1>5
  <2>2. Len(answers') = Len(sent') /\ (response'.code = "invalid_tool_call" => Len(sent') = MaxRetries + 1)
    BY <1>2, <1>3
  <2> QED
    BY <2>1, <2>2 DEF StatusTellsCourse
<1>10. AllButSealed'
  BY <1>6, <1>7, <1>8, <1>9 DEF AllButSealed
<1> QED
  BY <1>2, <1>10

LEMMA FailsInAnswer ==
  ASSUME IInv, pc = "answer", NEW e, Fail(e), StatusOf(e) = 502
  PROVE  pc' = "done" /\ response'.code = CodeOf(e) /\ response'.status \in {200, 502}
<1>1. response = NoResponse \/ response = Streaming
  BY AtWork DEF Working
<1> QED
  BY <1>1, FailSays

LEMMA BreakOffStep ==
  ASSUME IInv, BreakOff
  PROVE  IInv'
<1>1. pc = "answer" /\ Ended(Absent, Absent)
      /\ UNCHANGED <<inputs, request, key, attempt, sent, outcomes>>
  BY DEF BreakOff
<1>2. PICK kind \in {"stream", "malformed"} : Fail(Error("stream", kind))
  BY DEF BreakOff
<1>3. /\ pc' = "done" /\ response'.status \in {200, 502}
      /\ response'.code \in {"upstream_stream_error", "upstream_malformed_response"}
  BY <1>1, <1>2, FailsInAnswer, StreamEnds
<1>a. /\ response'.code \notin {"upstream_authentication_failed", "upstream_status_error",
                                "upstream_timeout", "upstream_unavailable"}
      /\ response'.code # Fine /\ response'.code # "invalid_tool_call"
  BY <1>3 DEF Fine
<1>b. EndsInAnswer
  BY <1>1, <1>3, <1>a DEF EndsInAnswer
<1>4. AllButSealed'
  BY <1>1, <1>b, AnswerEnds
<1>5. SealedBothWays'
  BY <1>3 DEF SealedBothWays, Fine
<1> QED
  BY <1>4, <1>5 DEF IInv, AllButSealed

LEMMA UndecryptableStep ==
  ASSUME IInv, Undecryptable
  PROVE  IInv'
<1>1. pc = "answer" /\ Fail(Error("stream", "decryption"))
      /\ UNCHANGED <<inputs, request, key, attempt, sent, outcomes>>
  BY DEF Undecryptable
<1>a. PICK text \in Answers \cup {NotText} : \E payload \in Payloads(text) :
        ~DecryptContent(payload, ProxyPair).ok /\ Ended(payload, Absent)
  BY DEF Undecryptable
<1>2. PICK payload \in Payloads(text) :
        ~DecryptContent(payload, ProxyPair).ok /\ Ended(payload, Absent)
  BY <1>a
<1>3. /\ pc' = "done" /\ response'.status \in {200, 502}
      /\ response'.code = "e2ee_response_decryption_failed"
  BY <1>1, FailsInAnswer, StreamEnds
<1>b. EndsInAnswer
  BY <1>1, <1>3 DEF EndsInAnswer, Fine
<1>4. AllButSealed' /\ answers'[Len(answers')] = [payload |-> payload, fault |-> Absent]
  BY <1>2, <1>b, AnswerEnds
<1>5. ~Ours(payload)
  <2>1. payload.sealed.text = text
    BY <1>2 DEF Payloads, Encrypted, Seal
  <2>2. CASE text = NotText
    BY <2>1, <2>2 DEF Ours
  <2>3. CASE text \in Answers
    BY <1>2, <2>1, <2>3, SealedOpens, AnswersAssumption
  <2> QED
    BY <2>2, <2>3
<1>6. SealedBothWays'
  BY <1>3, <1>4, <1>5 DEF SealedBothWays, Ours, Fine
<1> QED
  BY <1>4, <1>6 DEF IInv, AllButSealed

LEMMA CompleteStep ==
  ASSUME IInv, Complete
  PROVE  IInv'
<1>1. pc = "answer" /\ UNCHANGED <<inputs, request, key, attempt, sent, outcomes>>
  BY DEF Complete
<1>a. PICK text \in Answers : \E payload \in Payloads(text) :
        /\ DecryptContent(payload, ProxyPair).ok
        /\ Ended(payload, Absent)
        /\ Succeed(DecryptContent(payload, ProxyPair).text)
  BY DEF Complete
<1>2. PICK payload \in Payloads(text) :
        /\ DecryptContent(payload, ProxyPair).ok
        /\ Ended(payload, Absent)
        /\ Succeed(DecryptContent(payload, ProxyPair).text)
  BY <1>a
<1>3. /\ pc' = "done" /\ response'.status = 200 /\ response'.code = Fine
      /\ response'.text = DecryptContent(payload, ProxyPair).text
  BY <1>2 DEF Succeed
<1>b. EndsInAnswer
  BY <1>1, <1>3 DEF EndsInAnswer, Fine
<1>4. AllButSealed' /\ answers'[Len(answers')] = [payload |-> payload, fault |-> Absent]
  BY <1>2, <1>b, AnswerEnds
<1>5. Ours(payload) /\ response'.text = payload.sealed.text
  <2>1. Len(sent) \in Nat \ {0} /\ Len(sent) \in DOMAIN sent
    BY <1>1, AtWork DEF Working
  <2>2. sent[Len(sent)].client = PublicKeyHex(ProxyPair)
    BY <2>1 DEF IInv, Histories
  <2> QED
    BY <1>2, <1>3, <2>1, <2>2, OpensIsOurs DEF IInv, TypeOK
<1>6. SealedBothWays'
  BY <1>3, <1>4, <1>5 DEF SealedBothWays, Ours, Fine
<1> QED
  BY <1>4, <1>6 DEF IInv, AllButSealed

LEMMA RetryStep ==
  ASSUME IInv, pc = "answer", NEW payload, NEW fault, NEW output,
         Ended(payload, fault), Retry(fault, output),
         UNCHANGED <<inputs, request, key, sent, outcomes>>
  PROVE  IInv'
<1> USE DEF inputs, attempt, history
<1>1. /\ pc \in Working /\ retries \in 0 .. MaxRetries /\ MaxRetries \in Nat
      /\ Len(sent) = retries + 1 /\ Len(outcomes) = retries + 1
  BY AtWork DEF Working
<1>2. CASE retries >= MaxRetries
  <2>1. Fail(Error("exhausted", fault)) /\ UNCHANGED attempt
    BY <1>2 DEF Retry
  <2>2. pc' = "done" /\ response'.status \in {200, 502} /\ response'.code = "invalid_tool_call"
    BY <2>1, FailsInAnswer, ExhaustedEnds
  <2>a. /\ response'.code \notin {"upstream_authentication_failed", "upstream_status_error",
                                  "upstream_timeout", "upstream_unavailable"}
        /\ response'.code # Fine /\ retries = MaxRetries
    BY <1>1, <1>2, <2>2 DEF Fine
  <2>b. UNCHANGED <<inputs, request, key, attempt, sent, outcomes>>
    BY <2>1
  <2>c. EndsInAnswer
    BY <2>2, <2>a, <2>b DEF EndsInAnswer
  <2>3. AllButSealed'
    BY <2>c, AnswerEnds
  <2>4. SealedBothWays'
    BY <2>2 DEF SealedBothWays, Fine
  <2> QED
    BY <2>3, <2>4 DEF IInv, AllButSealed
<1>3. CASE ~(retries >= MaxRetries)
  <2>1. /\ retries' = retries + 1 /\ pc' = "send" /\ response' = response
        /\ correction' = <<[error |-> fault, output |-> output]>>
    BY <1>3 DEF Retry, AskAgain
  <2>2. Len(correction') = 1
    BY <2>1
  <2>3. IsSequence(answers') /\ Len(answers') = retries + 1
    BY <1>1, AtWork, AppendAny DEF Ended
  <2>4. TypeOK'
    BY <1>1, <1>3, <2>1, <2>2, <2>3 DEF IInv, TypeOK, Places
  <2>5. Histories'
    BY <2>3 DEF IInv, Histories
  <2>6. Course'
    BY <1>1, <2>1, <2>3, AtWork DEF Course, Early, Working
  <2>7. StatusTellsCourse' /\ SealedBothWays'
    BY <2>1 DEF StatusTellsCourse, SealedBothWays
  <2> QED
    BY <2>4, <2>5, <2>6, <2>7 DEF IInv
<1> QED
  BY <1>2, <1>3

LEMMA AsksAgain ==
  ASSUME IInv, InvalidCall \/ TooLate
  PROVE  IInv'
<1>1. CASE InvalidCall
  <2>1. \E text \in Answers, fault \in Faults : \E payload \in Payloads(text) :
          /\ Ended(payload, fault)
          /\ Retry(fault, DecryptContent(payload, ProxyPair).text)
    BY <1>1 DEF InvalidCall
  <2> QED
    BY <1>1, <2>1, RetryStep DEF InvalidCall
<1>2. CASE TooLate
  BY <1>2, RetryStep DEF TooLate
<1> QED
  BY <1>1, <1>2

LEMMA StaysWell ==
  ASSUME IInv, [Next]_vars
  PROVE  IInv'
<1>1. CASE UNCHANGED vars
  <2> USE <1>1 DEF vars
  <2>1. TypeOK' /\ Histories' /\ Course'
    BY DEF IInv, TypeOK, Histories, Course
  <2>2. StatusTellsCourse' /\ SealedBothWays'
    BY DEF IInv, StatusTellsCourse, SealedBothWays
  <2> QED
    BY <2>1, <2>2 DEF IInv
<1>2. CASE Next
  BY <1>2, EarlyEnds, Moves, SendStep, TakenStep, NotTakenStep, BreakOffStep, UndecryptableStep,
     CompleteStep, AsksAgain DEF Next
<1> QED
  BY <1>1, <1>2

LEMMA AlwaysWell == Spec => []IInv
<1>1. Init => IInv
  BY StartsWell
<1>2. IInv /\ [Next]_vars => IInv'
  BY StaysWell
<1> QED
  BY <1>1, <1>2, PTL DEF Spec

(* Every attempt that was taken was sent, every answer belongs to one that was taken, and
   there are no more attempts than retries allow, whatever the upstream does
   (openai_tool_emulated_chat_response). *)
THEOREM UpstreamChatTypes == Spec => []TypeOK
<1>1. IInv => TypeOK
  BY DEF IInv
<1> QED
  BY <1>1, AlwaysWell, PTL

(* The status of an answer tells what became of the request, whatever the body and
   however the upstream behaves (ProxyError::status, code). *)
THEOREM StatusTheorem == Spec => []StatusTellsCourse
<1>1. IInv => StatusTellsCourse
  BY DEF IInv
<1> QED
  BY <1>1, AlwaysWell, PTL

(* The client is given only what was sealed for the proxy, and nothing sealed for it is
   refused, for answers of every length and any keys of the enclave (decrypt_content). *)
THEOREM SealedTheorem == Spec => []SealedBothWays
<1>1. IInv => SealedBothWays
  BY DEF IInv
<1> QED
  BY <1>1, AlwaysWell, PTL

-----------------------------------------------------------------------------
(* The settings of an accepted body. *)

LEMMA AcceptedBody ==
  ASSUME NEW b, RequestError(b) = Fine
  PROVE  /\ b # Misfit
         /\ DOMAIN b \subseteq RequestFields
         /\ StreamOptionsOK(Field(b, "stream_options"))
         /\ ReasoningOK(Field(b, "reasoning"))
         /\ "model" \in DOMAIN b
<1> DEFINE given(f) == Field(b, f)
           valid(holds) == Check(holds, "invalid_request")
<1>2. /\ valid(b # Misfit) = Fine /\ Known(b, RequestFields) = Fine
      /\ valid(StreamOptionsOK(given("stream_options"))) = Fine
      /\ valid(ReasoningOK(given("reasoning"))) = Fine
      /\ valid(RequiredText(given("model"))) = Fine
  BY BothFine DEF RequestError
<1>3. DOMAIN b \subseteq RequestFields
  BY <1>2 DEF Known, Check, Fine
<1>4. b # Misfit
  BY <1>2 DEF Check, Fine
<1>5. StreamOptionsOK(given("stream_options"))
  BY <1>2 DEF Check, Fine
<1>6. ReasoningOK(given("reasoning"))
  BY <1>2 DEF Check, Fine
<1>7. RequiredText(given("model"))
  BY <1>2 DEF Check, Fine
<1>8. "model" \in DOMAIN b
  BY <1>7 DEF RequiredText, Field
<1> QED
  BY <1>3, <1>4, <1>5, <1>6, <1>8

Own == {"model", "stream", "stream_options", "venice_parameters"}

LEMMA SettingsParts ==
  ASSUME NEW r
  PROVE  LET optional == {f \in {"reasoning", "reasoning_effort"} : r[f] # Absent}
         IN  /\ DOMAIN Settings(r) = Own \cup DOMAIN r.passthrough \cup optional
             /\ Settings(r)["model"] = r.model
             /\ Settings(r)["stream"] = TRUE
             /\ Settings(r)["venice_parameters"] = r.venice_parameters
             /\ Settings(r)["stream_options"] =
                  [include_usage |-> Default(Field(r.stream_options, "include_usage"), TRUE)]
             /\ \A f \in optional : Settings(r)[f] = r[f]
             /\ \A f \in DOMAIN r.passthrough \ (Own \cup optional) : Settings(r)[f] = r.passthrough[f]
BY DEF Settings, Own

\* What SettingsHonoured says of the settings of one attempt.
Honoured(b, settings) ==
  LET forwarded == {f \in DOMAIN settings \cap DOMAIN b : settings[f] = b[f]}
      own       == {"stream", "stream_options", "venice_parameters"}
      read      == own \cup {"messages", "tools", "tool_choice", "metadata", "parallel_tool_calls"}
  IN  /\ \A f \in DOMAIN b \ read : f \in forwarded \/ (b[f] = Null /\ f \notin DOMAIN settings)
      /\ DOMAIN settings \subseteq forwarded \cup own
      /\ settings.stream /\ settings.venice_parameters.enable_e2ee
      /\ ~settings.venice_parameters.include_venice_system_prompt
      /\ settings.stream_options.include_usage \/ Field(Field(b, "stream_options"), "include_usage") = FALSE

LEMMA SettingsForwarded ==
  ASSUME NEW b, RequestError(b) = Fine, \A f \in DOMAIN b : b[f] # Absent
  PROVE  Honoured(b, Settings(Request(b)))
<1> DEFINE r == Request(b)
           s == Settings(r)
           optional == {f \in {"reasoning", "reasoning_effort"} : r[f] # Absent}
           through == DOMAIN r.passthrough
<1>1. /\ b # Misfit /\ DOMAIN b \subseteq RequestFields
      /\ StreamOptionsOK(Field(b, "stream_options"))
      /\ ReasoningOK(Field(b, "reasoning"))
      /\ "model" \in DOMAIN b
  BY AcceptedBody
<1>2. /\ r.model = b.model
      /\ r.passthrough = Passthrough(b)
      /\ r.reasoning = Field(b, "reasoning")
      /\ r.reasoning_effort = Default(Field(b, "reasoning_effort"), Absent)
      /\ r.stream_options = Default(Field(b, "stream_options"), << >>)
      /\ r.venice_parameters.enable_e2ee
      /\ ~r.venice_parameters.include_venice_system_prompt
  BY DEF Request, VeniceParameters
<1>3. /\ through = {f \in PassthroughFields \cap DOMAIN b : b[f] # Null}
      /\ \A f \in through : r.passthrough[f] = b[f]
  BY <1>2 DEF Passthrough, Present
<1>4. /\ DOMAIN s = Own \cup through \cup optional
      /\ s["model"] = r.model
      /\ s["stream"] = TRUE
      /\ s["venice_parameters"] = r.venice_parameters
      /\ s["stream_options"] =
           [include_usage |-> Default(Field(r.stream_options, "include_usage"), TRUE)]
      /\ \A f \in optional : s[f] = r[f]
      /\ \A f \in through \ (Own \cup optional) : s[f] = r.passthrough[f]
  BY SettingsParts
<1> HIDE DEF r, s, optional, through
<1>5. \A f \in optional : f \in DOMAIN b /\ s[f] = b[f] /\ b[f] # Null
  <2>2. "reasoning_effort" \in optional =>
           /\ "reasoning_effort" \in DOMAIN b
           /\ s["reasoning_effort"] = b["reasoning_effort"]
           /\ b["reasoning_effort"] # Null
    BY <1>2, <1>4 DEF optional, Default, Field
  <2>3. "reasoning" \in optional =>
           "reasoning" \in DOMAIN b /\ s["reasoning"] = b["reasoning"] /\ b["reasoning"] # Null
    BY <1>1, <1>2, <1>4 DEF optional, Field, ReasoningOK, Struct
  <2> QED
    BY <2>2, <2>3 DEF optional
<1>6. \A f \in through : f \in DOMAIN b /\ s[f] = b[f]
  <2>1. through \cap (Own \cup optional) = {}
    BY <1>3 DEF optional, Own, PassthroughFields
  <2> QED
    BY <1>3, <1>4, <2>1
<1>7. "model" \in DOMAIN s /\ s["model"] = b["model"]
  BY <1>2, <1>4 DEF Own
<1>8. ASSUME NEW f \in DOMAIN b \ {"stream", "stream_options", "venice_parameters", "messages", "tools",
                                  "tool_choice", "metadata", "parallel_tool_calls"}
      PROVE  (f \in DOMAIN s /\ s[f] = b[f]) \/ (b[f] = Null /\ f \notin DOMAIN s)
  <2>1. f \in PassthroughFields \cup {"model", "reasoning", "reasoning_effort"}
    BY <1>1 DEF RequestFields
  <2>2. CASE f \in PassthroughFields
    <3>1. f \in through \/ b[f] = Null
      BY <1>3, <2>2
    <3>2. f \notin Own \cup optional
      BY <2>2 DEF PassthroughFields, Own, optional
    <3>3. f \notin through => f \notin DOMAIN s
      BY <1>4, <3>2
    <3>4. f \in through => f \in DOMAIN s /\ s[f] = b[f]
      BY <1>4, <1>6
    <3>5. f \in through => b[f] # Null
      BY <1>3
    <3> QED
      BY <3>1, <3>3, <3>4
  <2>3. CASE f = "model"
    BY <1>7, <2>3
  <2>4. CASE f \in {"reasoning", "reasoning_effort"}
    <3>1. f \in optional => f \in DOMAIN s /\ s[f] = b[f]
      BY <1>4, <1>5
    <3>2. f \notin optional => f \notin DOMAIN s
      BY <1>3, <1>4, <2>4 DEF Own, PassthroughFields
    <3>3. f \notin optional => b[f] = Null
      <4> SUFFICES ASSUME f \notin optional PROVE b[f] = Null
        OBVIOUS
      <4>1. CASE f = "reasoning"
        BY <1>2, <4>1 DEF optional, Field
      <4>2. CASE f = "reasoning_effort"
        BY <1>2, <4>2 DEF optional, Field, Default
      <4> QED
        BY <2>4, <4>1, <4>2
    <3> QED
      BY <3>1, <3>2, <3>3
  <2> QED
    BY <2>1, <2>2, <2>3, <2>4
<1>9. ASSUME NEW f \in DOMAIN s, f \notin {"stream", "stream_options", "venice_parameters"}
      PROVE  f \in DOMAIN b /\ s[f] = b[f]
  BY <1>1, <1>4, <1>5, <1>6, <1>7, <1>9 DEF Own
<1>10. s["stream_options"].include_usage \/ Field(Field(b, "stream_options"), "include_usage") = FALSE
  <2> DEFINE given == Field(b, "stream_options")
             usage == Field(given, "include_usage")
  <2>1. s["stream_options"].include_usage = Default(Field(r.stream_options, "include_usage"), TRUE)
    BY <1>4
  <2>2. CASE given = Absent
    <3>1. r.stream_options = << >>
      BY <1>2, <2>2 DEF Default
    <3>2. "include_usage" \notin DOMAIN << >>
      BY NoneYet
    <3>3. Field(r.stream_options, "include_usage") = Absent
      BY <3>1, <3>2 DEF Field
    <3> QED
      BY <2>1, <3>3 DEF Default
  <2>3. CASE given # Absent
    <3>1. given # Null /\ OptionalBool(usage)
      BY <1>1, <2>3 DEF StreamOptionsOK, Struct
    <3>2. Field(r.stream_options, "include_usage") = usage
      BY <1>2, <2>3, <3>1 DEF Default
    <3>3. usage = TRUE \/ usage = FALSE \/ usage = Absent
      BY <3>1 DEF OptionalBool
    <3>4. CASE usage = FALSE
      BY <3>4
    <3>5. CASE usage = Absent
      BY <2>1, <3>2, <3>5 DEF Default
    <3>6. CASE usage = TRUE
      BY <2>1, <3>2, <3>6 DEF Default
    <3> QED
      BY <3>3, <3>4, <3>5, <3>6
  <2> QED
    BY <2>2, <2>3
<1>11. s.stream /\ s.venice_parameters.enable_e2ee /\ ~s.venice_parameters.include_venice_system_prompt
  BY <1>2, <1>4
<1> QED
  BY <1>8, <1>9, <1>10, <1>11 DEF Honoured, r, s

\* From its acceptance on, the request is what the body makes of it.
Read ==
  /\ body \in Bodies
  /\ pc \in (Early \cup Working) \ {"parse"} => RequestError(body) = Fine /\ request = Request(body)
  /\ IsSequence(sent)
  /\ \A k \in DOMAIN sent : RequestError(body) = Fine /\ sent[k].settings = Settings(Request(body))

LEMMA StartsRead == Init => Read
BY NoneYet DEF Init, Read

LEMMA StaysRead ==
  ASSUME Read, [Next]_vars
  PROVE  Read'
<1> USE DEF inputs, attempt, history, Early, Working
<1>1. CASE UNCHANGED vars
  BY <1>1 DEF Read, vars
<1>2. CASE Send
  <2>1. /\ pc = "send" /\ UNCHANGED <<body, request>> /\ sent' = Append(sent, Outgoing)
        /\ RequestError(body) = Fine /\ request = Request(body) /\ body \in Bodies
    BY <1>2 DEF Send, Read
  <2>2. Outgoing.settings = Settings(Request(body))
    BY <2>1 DEF Outgoing
  <2>3. /\ IsSequence(sent')
        /\ DOMAIN sent' = 1 .. Len(sent) + 1 /\ DOMAIN sent = 1 .. Len(sent) /\ Len(sent) \in Nat
        /\ \A k \in 1 .. Len(sent) : sent'[k] = sent[k]
        /\ sent'[Len(sent) + 1] = Outgoing
    BY <2>1, AppendAny, LenProperties DEF Read, IsSequence
  <2>4. \A k \in DOMAIN sent' : sent'[k].settings = Settings(Request(body))
    BY <2>2, <2>3 DEF Read
  <2> QED
    BY <2>1, <2>3, <2>4 DEF Read
<1>3. CASE Accept
  BY <1>3 DEF Accept, Read
<1>4. CASE RefuseBody \/ LackKey \/ NoSession \/ AttestationFails \/ RefuseTools
  BY <1>4 DEF RefuseBody, LackKey, NoSession, AttestationFails, RefuseTools, Fail, Read
<1>5. CASE FindSession \/ Attest \/ Prepare \/ Rotate \/ Taken
  BY <1>5 DEF FindSession, Attest, Prepare, Rotate, Taken, Read
<1>6. CASE NotTaken \/ BreakOff \/ Undecryptable \/ Complete
  BY <1>6 DEF NotTaken, BreakOff, Undecryptable, Complete, Fail, Succeed, Read
<1>7. CASE InvalidCall \/ TooLate
  <2>1. pc = "answer" /\ UNCHANGED <<body, request, sent>>
    BY <1>7 DEF InvalidCall, TooLate
  <2>2. pc' \in {"send", "done"}
    BY <1>7 DEF InvalidCall, TooLate, Retry, AskAgain, Fail
  <2> QED
    BY <2>1, <2>2 DEF Read
<1> QED
  BY <1>1, <1>2, <1>3, <1>4, <1>5, <1>6, <1>7 DEF Next

(* The settings of every attempt are those of the body, whatever fields it has and
   whatever their values (ChatCompletionRequest::parse, to_venice_e2ee_request). *)
THEOREM SettingsTheorem == Spec => []SettingsHonoured
<1>1. Read => SettingsHonoured
  <2> SUFFICES ASSUME Read, NEW k \in DOMAIN sent
               PROVE  Honoured(body, sent[k].settings)
    BY DEF SettingsHonoured, Honoured
  <2>1. RequestError(body) = Fine /\ sent[k].settings = Settings(Request(body)) /\ body \in Bodies
    BY DEF Read
  <2>2. \A f \in DOMAIN body : body[f] # Absent
    BY <2>1, AcceptedBody, BodiesAssumption
  <2> QED
    BY <2>1, <2>2, SettingsForwarded
<1>2. Init => Read
  BY StartsRead
<1>3. Read /\ [Next]_vars => Read'
  BY StaysRead
<1> QED
  BY <1>1, <1>2, <1>3, PTL DEF Spec

-----------------------------------------------------------------------------
(* Contents in parts: how the parts are joined, here and in the words of a content. *)

LEMMA JoinedRun ==
  ASSUME NEW B, NEW texts \in Seq(Seq(B))
  PROVE  \E a : /\ Joined(texts) = a[1..Len(texts)]
                /\ a[1..0] = << >>
                /\ \A k \in 1..Len(texts) : a[1..k] = a[1..(k - 1)] \o texts[k]
                /\ \A k \in 0..Len(texts) : a[1..k] \in Seq(B)
<1> DEFINE n == Len(texts)
           T == Seq(B)
           step == [k \in 1..n |-> [s \in T |-> s \o texts[k]]]
           Fits(iter) == iter = [s \in SUBSET (1..n) |->
                                   IF s = {} THEN << >> ELSE iter[s \ {Max(s)}] \o texts[Max(s)]]
           run == CHOOSE iter : Fits(iter)
<1>1. n \in Nat /\ DOMAIN texts = 1..n /\ \A k \in 1..n : texts[k] \in T
  OBVIOUS
<1>2. step \in [1..n -> [T -> T]] /\ << >> \in T
  BY <1>1
<1>3. \A s \in SUBSET (1..n) : s # {} => Max(s) \in 1..n
  <2>1. ASSUME NEW s \in SUBSET (1..n), s # {} PROVE Max(s) \in s
    <3>1. s \in SUBSET (0..n)
      OBVIOUS
    <3> QED
      BY <1>1, <2>1, <3>1, MaxBounded
  <2> QED
    BY <2>1
<1>4. \E iter : Fits(iter)
  <2>2. PICK iter \in [SUBSET (1..n) -> T] : TakesSteps(iter, step, << >>, n)
    <3> HIDE DEF step, T, n
    <3> QED
      BY <1>1, <1>2, FoldExists
  <2>3. ASSUME NEW s \in SUBSET (1..n), s # {}
        PROVE  step[Max(s)][iter[s \ {Max(s)}]] = iter[s \ {Max(s)}] \o texts[Max(s)]
    BY <1>3, <2>3
  <2>4. Fits(iter)
    BY <2>2, <2>3 DEF TakesSteps
  <2> QED
    BY <2>4
<1>5. Fits(run)
  <2> HIDE DEF Fits
  <2> QED
    BY <1>4
<1>6. Joined(texts) = run[1..n]
  BY <1>1 DEF Joined, FoldLeft, MapThenFoldSet
<1>7. \A s \in SUBSET (1..n) :
        run[s] = IF s = {} THEN << >> ELSE run[s \ {Max(s)}] \o texts[Max(s)]
  <2> HIDE DEF run
  <2> QED
    BY <1>5
<1> HIDE DEF run, n, Fits, T
<1>8. run[1..0] = << >>
  BY <1>1, <1>7, Beginnings
<1>9. ASSUME NEW k \in 1..n PROVE run[1..k] = run[1..(k - 1)] \o texts[k]
  <2>1. /\ 1..k \in SUBSET (1..n) /\ 1..k # {}
        /\ Max(1..k) = k /\ (1..k) \ {Max(1..k)} = 1..(k - 1)
    BY <1>1, Beginnings
  <2> QED
    BY <1>7, <2>1
<1>10. \A k \in 0..n : run[1..k] \in T
  <2>0. \A s, t \in Seq(B) : s \o t \in Seq(B)
    OBVIOUS
  <2>1. \A k \in 1..n : run[1..(k - 1)] \in T => run[1..k] \in T
    BY <1>1, <1>9, <2>0 DEF T
  <2>2. run[1..0] \in T
    BY <1>8 DEF T
  <2> QED
    BY <1>1, <2>1, <2>2, RunTyped
<1> QED
  BY <1>6, <1>8, <1>9, <1>10 DEF n, T

(* Every part is where it is in the joined text, however it is joined (deserialize_content). *)
LEMMA JoinedFlat ==
  ASSUME NEW B, NEW texts \in Seq(Seq(B)), texts # << >>
  PROVE  Joined(texts) \in Seq(B) /\ FlattenSeq(texts) = Joined(texts)
<1> DEFINE n == Len(texts)
           value(f, i) == IF i = 1 THEN texts[i] ELSE f[i - 1] \o texts[i]
           Fits(f) == f = [i \in 1..n |-> value(f, i)]
           flatten == CHOOSE f : Fits(f)
<1>1. n \in Nat \ {0} /\ \A k \in 1..n : texts[k] \in Seq(B)
  OBVIOUS
<1>2. PICK a : /\ Joined(texts) = a[1..n]
               /\ a[1..0] = << >>
               /\ \A k \in 1..n : a[1..k] = a[1..(k - 1)] \o texts[k]
               /\ \A k \in 0..n : a[1..k] \in Seq(B)
  BY JoinedRun
<1>3. FlattenSeq(texts) = flatten[n]
  BY <1>1 DEF FlattenSeq
<1> HIDE DEF n
<1>4. \A i \in 1..n : i - 1 \in 0..n /\ (i # 1 => i - 1 \in 1..n)
  BY <1>1
<1>5. a[1..1] = texts[1] /\ 1 \in 1..n
  <2>1. 1 \in 1..n /\ 1 - 1 = 0
    BY <1>1
  <2>2. << >> \o texts[1] = texts[1]
    BY <1>1, <2>1
  <2> QED
    BY <1>2, <2>1, <2>2
<1>6. \E f : Fits(f)
  <2> DEFINE g == [i \in 1..n |-> a[1..i]]
  <2>1. ASSUME NEW i \in 1..n PROVE g[i] = value(g, i)
    <3>1. CASE i = 1
      BY <1>5, <3>1
    <3>2. CASE i # 1
      BY <1>2, <1>4, <3>2
    <3> QED
      BY <3>1, <3>2
  <2>2. g = [i \in 1..n |-> g[i]]
    OBVIOUS
  <2> HIDE DEF g, value
  <2> QED
    BY <2>1, <2>2
<1>7. Fits(flatten)
  <2> HIDE DEF Fits
  <2> QED
    BY <1>6
<1>8. \A i \in 1..n : flatten[i] = value(flatten, i)
  <2> HIDE DEF flatten, value
  <2> QED
    BY <1>7
<1> HIDE DEF flatten, Fits
<1>9. \A m \in Nat : m + 1 <= n => a[1..(m + 1)] = flatten[m + 1]
  <2> DEFINE Same(m) == m + 1 <= n => a[1..(m + 1)] = flatten[m + 1]
             S == {m \in Nat : Same(m)}
  <2>1. 0 \in S
    BY <1>5, <1>8
  <2>2. ASSUME NEW m \in Nat, m \in S PROVE m + 1 \in S
    <3>1. SUFFICES ASSUME (m + 1) + 1 <= n PROVE a[1..((m + 1) + 1)] = flatten[(m + 1) + 1]
      OBVIOUS
    <3>2. /\ (m + 1) + 1 \in 1..n /\ (m + 1) + 1 # 1 /\ ((m + 1) + 1) - 1 = m + 1
          /\ m + 1 <= n
      BY <1>1, <3>1
    <3>3. a[1..(m + 1)] = flatten[m + 1]
      BY <2>2, <3>2
    <3> DEFINE k == (m + 1) + 1
    <3>4. k \in 1..n /\ k # 1 /\ k - 1 = m + 1
      BY <3>2
    <3> HIDE DEF k
    <3>5. flatten[k] = flatten[k - 1] \o texts[k]
      BY <1>8, <3>4
    <3>6. a[1..k] = a[1..(k - 1)] \o texts[k]
      BY <1>2, <3>4
    <3> QED
      BY <3>3, <3>4, <3>5, <3>6 DEF k
  <2>3. Nat \subseteq S
    <3> HIDE DEF S
    <3> QED
      BY <2>1, <2>2, Induction
  <2> QED
    BY <2>3
<1>10. a[1..n] = flatten[n] /\ n \in 0..n
  <2>1. n - 1 \in Nat /\ (n - 1) + 1 = n /\ n <= n /\ n \in 0..n
    BY <1>1
  <2>2. (n - 1) + 1 <= n => a[1..((n - 1) + 1)] = flatten[(n - 1) + 1]
    BY <1>9, <2>1
  <2> QED
    BY <2>1, <2>2
<1> QED
  BY <1>2, <1>3, <1>10

-----------------------------------------------------------------------------
(* What was sent, read back: words, identifiers and calls. *)

LEMMA ContentWords ==
  ASSUME NEW v, v \notin {Absent, Null}, NEW required, ContentError(v, required) = Fine,
         IF "parts" \in DOMAIN v THEN v.parts \in Seq(Seq(Words)) ELSE v.text \in Seq(Words)
  PROVE  ContentText(v) \in Seq(Words) /\ WordsOf(v) = ContentText(v)
<1>1. CASE "parts" \in DOMAIN v
  <2>1. v.parts # << >>
    BY <1>1 DEF ContentError, Check, Fine
  <2> QED
    BY <1>1, <2>1, JoinedFlat DEF ContentText, WordsOf
<1>2. CASE "parts" \notin DOMAIN v
  BY <1>2 DEF ContentText, WordsOf
<1> QED
  BY <1>1, <1>2

LEMMA CharacterBack ==
  ASSUME NEW c, c \notin Entities
  PROVE  Character(Entity(c)) = c
<1>1. CASE c \in {"&", "<", ">", "\""}
  BY <1>1 DEF Character, Entity
<1>2. CASE c \notin {"&", "<", ">", "\""}
  <2>1. Entity(c) = c
    BY <1>2 DEF Entity
  <2> QED
    BY <2>1 DEF Character, Entities
<1> QED
  BY <1>1, <1>2

(* An identifier is read back from its attribute as it was (escape_xml_attr). *)
LEMMA IdentifierBack ==
  ASSUME NEW id, IsIdentifier(id)
  PROVE  Unescaped(Escaped(id)) = id
<1> DEFINE new == Escaped(id)
<1>1. id = [n \in DOMAIN id |-> id[n]] /\ \A n \in DOMAIN id : id[n] \notin Entities
  BY DEF IsIdentifier, Range
<1>2. DOMAIN new = DOMAIN id /\ \A n \in DOMAIN id : new[n] = Entity(id[n])
  BY DEF Escaped
<1> HIDE DEF new
<1>3. \A n \in DOMAIN id : Character(new[n]) = id[n]
  BY <1>1, <1>2, CharacterBack
<1>4. Unescaped(new) = [n \in DOMAIN id |-> Character(new[n])]
  BY <1>2 DEF Unescaped
<1>5. Unescaped(new) = [n \in DOMAIN id |-> id[n]]
  BY <1>3, <1>4
<1> QED
  BY <1>1, <1>5 DEF new

IsCalls(calls) ==
  /\ IsSequence(calls)
  /\ \A call \in Range(calls) :
       /\ IsIdentifier(call.id) /\ IsIdentifier(call.name)
       /\ call.arguments \in [value : {call.arguments.value}, spaced : BOOLEAN]

LEMMA CallsTold ==
  ASSUME NEW calls, IsCalls(calls)
  PROVE  /\ IsSequence(Rendered(calls)) /\ TellsCalls(Rendered(calls), calls)
         /\ \A n \in DOMAIN Rendered(calls) : ~IsPrompt(Rendered(calls)[n])
<1> DEFINE new == Rendered(calls)
<1>1. Len(calls) \in Nat /\ DOMAIN calls = 1 .. Len(calls)
  BY LenProperties DEF IsCalls, IsSequence
<1>2. /\ new = [n \in 1 .. Len(calls) |-> new[n]]
      /\ \A n \in 1 .. Len(calls) : new[n] = [call      |-> Escaped(calls[n].id),
                                             name      |-> Escaped(calls[n].name),
                                             arguments |-> Canonical(calls[n].arguments)]
  BY <1>1 DEF Rendered
<1>3. DOMAIN new = 1 .. Len(calls)
  BY <1>1 DEF Rendered
<1> HIDE DEF new
<1>4. new \in Seq(Range(new)) /\ Len(new) = Len(calls)
  <2>1. new \in [1 .. Len(calls) -> Range(new)]
    BY <1>2, <1>3 DEF Range
  <2>2. Seq(Range(new)) = UNION {[1 .. n -> Range(new)] : n \in Nat}
    BY SeqDef
  <2>3. new \in Seq(Range(new))
    BY <1>1, <2>1, <2>2
  <2> QED
    BY <1>1, <1>3, <2>3, LenProperties
<1>5. ASSUME NEW n \in 1 .. Len(calls)
      PROVE  /\ Unescaped(new[n].call) = calls[n].id /\ Unescaped(new[n].name) = calls[n].name
             /\ new[n].arguments.value = calls[n].arguments.value
             /\ ~IsPrompt(new[n])
  <2>1. /\ IsIdentifier(calls[n].id) /\ IsIdentifier(calls[n].name)
        /\ calls[n].arguments \in [value : {calls[n].arguments.value}, spaced : BOOLEAN]
    BY <1>1 DEF IsCalls, Range
  <2>2. /\ new[n].call = Escaped(calls[n].id) /\ new[n].name = Escaped(calls[n].name)
        /\ new[n].arguments = Canonical(calls[n].arguments)
        /\ DOMAIN new[n] = {"call", "name", "arguments"}
    BY <1>2
  <2>3. Canonical(calls[n].arguments).value = calls[n].arguments.value
    BY <2>1 DEF Canonical
  <2> QED
    BY <2>1, <2>2, <2>3, IdentifierBack DEF IsPrompt
<1> QED
  BY <1>1, <1>3, <1>4, <1>5 DEF TellsCalls, IsSequence, new

LEMMA OfItsRange ==
  ASSUME NEW S, NEW s \in Seq(S)
  PROVE  IsSequence(s)
<1>1. Len(s) \in Nat /\ s \in [1 .. Len(s) -> S]
  BY LenProperties
<1>2. s \in [1 .. Len(s) -> Range(s)]
  BY <1>1 DEF Range
<1>3. Seq(Range(s)) = UNION {[1 .. n -> Range(s)] : n \in Nat}
  BY SeqDef
<1> QED
  BY <1>1, <1>2, <1>3 DEF IsSequence

\* c is s with t behind it.
InOneRow(s, t, c) ==
  /\ IsSequence(c)
  /\ Len(s) \in Nat /\ Len(t) \in Nat /\ Len(c) = Len(s) + Len(t)
  /\ DOMAIN s = 1 .. Len(s) /\ DOMAIN t = 1 .. Len(t) /\ DOMAIN c = 1 .. Len(s) + Len(t)
  /\ \A i \in 1 .. Len(s) : c[i] = s[i]
  /\ \A i \in 1 .. Len(t) : c[Len(s) + i] = t[i]
  /\ SubSeq(c, 1, Len(s)) = s
  /\ SubSeq(c, Len(s) + 1, Len(s) + Len(t)) = t

LEMMA ConcatAny ==
  ASSUME NEW s, NEW t, IsSequence(s), IsSequence(t)
  PROVE  InOneRow(s, t, s \o t)
<1> DEFINE S == Range(s) \cup Range(t)
           c == s \o t
<1>1. s \in Seq(S) /\ t \in Seq(S)
  BY SeqMonotonic DEF IsSequence
<1>2. /\ Len(s) \in Nat /\ Len(t) \in Nat
      /\ DOMAIN s = 1 .. Len(s) /\ DOMAIN t = 1 .. Len(t)
  BY <1>1, LenProperties
<1> HIDE DEF S
<1>3. /\ c \in Seq(S) /\ Len(c) = Len(s) + Len(t)
      /\ \A i \in 1 .. Len(s) + Len(t) : c[i] = IF i <= Len(s) THEN s[i] ELSE t[i - Len(s)]
  BY <1>1, ConcatProperties
<1>4. DOMAIN c = 1 .. Len(s) + Len(t)
  BY <1>3, LenProperties
<1>5. IsSequence(c)
  BY <1>3, OfItsRange
<1> HIDE DEF c
<1>6. \A i \in 1 .. Len(s) : c[i] = s[i]
  BY <1>2, <1>3
<1>7. \A i \in 1 .. Len(t) : c[Len(s) + i] = t[i]
  BY <1>2, <1>3
<1>8. SubSeq(c, 1, Len(s)) = s
  <2>1. /\ SubSeq(c, 1, Len(s)) \in Seq(S) /\ Len(SubSeq(c, 1, Len(s))) = Len(s)
        /\ \A i \in 1 .. Len(s) : SubSeq(c, 1, Len(s))[i] = c[i]
    BY <1>2, <1>3
  <2> QED
    BY <1>1, <1>6, <2>1, SeqEqual
<1>9. SubSeq(c, Len(s) + 1, Len(s) + Len(t)) = t
  <2>1. /\ SubSeq(c, Len(s) + 1, Len(s) + Len(t)) \in Seq(S)
        /\ Len(SubSeq(c, Len(s) + 1, Len(s) + Len(t))) = Len(t)
        /\ \A i \in 1 .. Len(t) : SubSeq(c, Len(s) + 1, Len(s) + Len(t))[i] = c[Len(s) + i]
    BY <1>2, <1>3
  <2> QED
    BY <1>1, <1>7, <2>1, SeqEqual
<1>10. Len(c) = Len(s) + Len(t)
  BY <1>3
<1>11. InOneRow(s, t, c)
  BY <1>2, <1>4, <1>5, <1>6, <1>7, <1>8, <1>9, <1>10 DEF InOneRow
<1> QED
  BY <1>11 DEF c

-----------------------------------------------------------------------------
(* A message that is not refused, as it is sent: kind by kind. *)

LEMMA AcceptedMessages ==
  ASSUME NEW b \in Bodies, RequestError(b) = Fine
  PROVE  /\ IsSequence(b.messages) /\ b.messages # << >>
         /\ \A n \in DOMAIN b.messages : IsMessage(b.messages[n]) /\ MessageError(b.messages[n]) = Fine
<1> DEFINE given(f) == Field(b, f)
           valid(holds) == Check(holds, "invalid_request")
           v == Field(b, "messages")
           failing == {n \in DOMAIN v : MessageError(v[n]) # Fine}
<1>1. MessagesError(v) = Fine
  BY BothFine DEF RequestError
<1>2. v \notin {Absent, Null, Misfit, << >>}
  BY <1>1 DEF MessagesError, Fine
<1>3. v = b.messages
  BY <1>2 DEF Field
<1>4. IsSequence(v) /\ \A m \in Range(v) : IsMessage(m)
  BY <1>3, MessagesAssumption DEF IsSequence
<1>5. failing = {}
  <2> SUFFICES ASSUME failing # {} PROVE FALSE
    OBVIOUS
  <2>1. failing \in SUBSET Nat
    <3>1. DOMAIN v = 1 .. Len(v)
      BY <1>4, LenProperties DEF IsSequence
    <3> QED
      BY <3>1
  <2>2. Min(failing) \in failing
    <3> HIDE DEF failing
    <3> QED
      BY <2>1, MinNatural
  <2>3. MessageError(v[Min(failing)]) = Fine
    BY <1>1, <1>2 DEF MessagesError
  <2> HIDE DEF Min
  <2> QED
    BY <2>2, <2>3
<1> QED
  BY <1>2, <1>3, <1>4, <1>5 DEF Range

Roles == {"system", "developer", "user", "assistant"}

\* A message as it is sent: what it says is no prompt of the proxy.
Said(m) ==
  /\ m = [role |-> m.role, content |-> m.content] /\ m.role \in Roles
  /\ IsSequence(m.content)
  /\ \A i \in DOMAIN m.content : ~IsPrompt(m.content[i])

LEMMA WordsSay ==
  ASSUME NEW s \in Seq(Words)
  PROVE  /\ IsSequence(s) /\ \A i \in DOMAIN s : ~IsPrompt(s[i])
         /\ IsPrefix(s, s) /\ TellsCalls(SubSeq(s, Len(s) + 1, Len(s)), << >>)
<1>1. IsSequence(s)
  BY OfItsRange
<1>2. DOMAIN s = 1 .. Len(s) /\ Len(s) \in Nat /\ \A i \in 1 .. Len(s) : s[i] \in Words
  BY LenProperties
<1>3. \A i \in DOMAIN s : ~IsPrompt(s[i])
  BY <1>2 DEF IsPrompt
<1>4. IsPrefix(s, s)
  BY <1>2 DEF IsPrefix
<1>5. Len(SubSeq(s, Len(s) + 1, Len(s))) = 0
  BY <1>2
<1> QED
  BY <1>1, <1>3, <1>4, <1>5 DEF TellsCalls

\* The parts of a message that is not refused.
LEMMA MessageParts ==
  ASSUME NEW m, MessageError(m) = Fine
  PROVE  /\ m.role \in Roles \cup {"tool"} /\ DOMAIN m \subseteq MessageFields(m.role)
         /\ m.role = "assistant" => AssistantError(m) = Fine
         /\ m.role = "tool" => ToolResultError(m) = Fine
         /\ m.role \notin {"assistant", "tool"} => ContentError(Field(m, "content"), TRUE) = Fine
<1> DEFINE last == CASE m.role = "assistant" -> AssistantError(m)
                     [] m.role = "tool"      -> ToolResultError(m)
                     [] OTHER                -> ContentError(Field(m, "content"), TRUE)
<1>1. /\ Check(m.role \in {"system", "developer", "user", "assistant", "tool"}, "unsupported_message_role") = Fine
      /\ Known(m, MessageFields(m.role)) = Fine
      /\ last = Fine
  <2> DEFINE present == Check(m # Misfit, "invalid_request") ?? Check(RequiredText(Field(m, "role")), "invalid_request")
             named == Check(m.role \in {"system", "developer", "user", "assistant", "tool"}, "unsupported_message_role")
             known == Known(m, MessageFields(m.role))
  <2>1. MessageError(m) = (((present ?? named) ?? known) ?? last)
    BY DEF MessageError
  <2> HIDE DEF present, named, known, last
  <2>2. ((present ?? named) ?? known) = Fine /\ last = Fine
    BY <2>1, BothFine
  <2>3. (present ?? named) = Fine /\ known = Fine
    BY <2>2, BothFine
  <2>4. named = Fine
    BY <2>3, BothFine
  <2> QED
    BY <2>2, <2>3, <2>4 DEF named, known
<1>2. m.role \in Roles \cup {"tool"}
  BY <1>1 DEF Check, Fine, Roles
<1>3. DOMAIN m \subseteq MessageFields(m.role)
  BY <1>1 DEF Known, Check, Fine
<1>4. m.role = "assistant" => AssistantError(m) = Fine
  BY <1>1
<1>5. m.role = "tool" => ToolResultError(m) = Fine
  BY <1>1
<1>6. m.role \notin {"assistant", "tool"} => ContentError(Field(m, "content"), TRUE) = Fine
  BY <1>1
<1> QED
  BY <1>2, <1>3, <1>4, <1>5, <1>6

\* What is required to be there has words.
LEMMA RequiredContent ==
  ASSUME NEW m, IsMessage(m), ContentError(Field(m, "content"), TRUE) = Fine
  PROVE  /\ Field(m, "content") = m.content
         /\ ContentText(m.content) \in Seq(Words) /\ WordsOf(Field(m, "content")) = ContentText(m.content)
<1>1. Field(m, "content") \notin {Absent, Null}
  BY DEF ContentError, Check, Fine
<1>2. Field(m, "content") = m.content
  BY <1>1 DEF Field
<1>3. IF "parts" \in DOMAIN m.content THEN m.content.parts \in Seq(Seq(Words)) ELSE m.content.text \in Seq(Words)
  BY <1>1 DEF IsMessage
<1> QED
  BY <1>1, <1>2, <1>3, ContentWords

\* A message of the system, a developer or a user.
LEMMA PlainConveyed ==
  ASSUME NEW m, IsMessage(m), MessageError(m) = Fine, m.role \notin {"assistant", "tool"}
  PROVE  Said(NormalizeMessage(m)) /\ Conveys(NormalizeMessage(m), m)
<1> DEFINE new == NormalizeMessage(m)
           text == ContentText(m.content)
<1>1. /\ m.role \in Roles /\ DOMAIN m \subseteq MessageFields(m.role)
      /\ ContentError(Field(m, "content"), TRUE) = Fine
  BY MessageParts DEF Roles
<1>2. "tool_calls" \notin DOMAIN m
  BY <1>1 DEF MessageFields
<1>3. /\ text \in Seq(Words) /\ WordsOf(Field(m, "content")) = text
  BY <1>1, RequiredContent
<1>4. new = [role |-> m.role, content |-> text]
  BY DEF NormalizeMessage
<1> HIDE DEF new, text
<1>5. /\ IsSequence(text) /\ \A i \in DOMAIN text : ~IsPrompt(text[i])
      /\ IsPrefix(text, text) /\ TellsCalls(SubSeq(text, Len(text) + 1, Len(text)), << >>)
  BY <1>3, WordsSay
<1>6. Said(new)
  BY <1>1, <1>4, <1>5 DEF Said
<1>7. Conveys(new, m)
  BY <1>2, <1>3, <1>4, <1>5 DEF Conveys
<1> QED
  BY <1>6, <1>7 DEF new

\* The result of a call, told by the user.
LEMMA ResultConveyed ==
  ASSUME NEW m, IsMessage(m), MessageError(m) = Fine, m.role = "tool"
  PROVE  Said(NormalizeMessage(m)) /\ Conveys(NormalizeMessage(m), m)
<1> DEFINE new == NormalizeMessage(m)
           piece == [result |-> Escaped(m.tool_call_id), text |-> ContentText(m.content)]
<1>1. ToolResultError(m) = Fine
  BY MessageParts
<1>2. /\ Check(RequiredText(Field(m, "tool_call_id")), "invalid_request") = Fine
      /\ ContentError(Field(m, "content"), TRUE) = Fine
  BY <1>1, BothFine DEF ToolResultError
<1>3. "tool_call_id" \in DOMAIN m
  BY <1>2 DEF Check, Fine, RequiredText, Field
<1>4. Unescaped(Escaped(m.tool_call_id)) = m.tool_call_id
  BY <1>3, IdentifierBack DEF IsMessage
<1>5. WordsOf(Field(m, "content")) = ContentText(m.content)
  BY <1>2, RequiredContent
<1>6. new = [role |-> "user", content |-> <<piece>>]
  BY DEF NormalizeMessage, ToolResult
<1>7. ~IsPrompt(piece)
  BY DEF IsPrompt
<1>8. /\ piece.text = ContentText(m.content) /\ piece.result = Escaped(m.tool_call_id)
  OBVIOUS
<1> HIDE DEF new, piece
<1>9. /\ IsSequence(<<piece>>) /\ DOMAIN <<piece>> = {1} /\ Len(<<piece>>) = 1
      /\ <<piece>>[1] = piece
  <2>1. <<piece>> \in Seq({piece})
    OBVIOUS
  <2>2. IsSequence(<<piece>>)
    BY <2>1, OfItsRange
  <2>3. Len(<<piece>>) = 1 /\ <<piece>>[1] = piece /\ DOMAIN <<piece>> = {1}
    OBVIOUS
  <2> QED
    BY <2>2, <2>3
<1>10. Said(new)
  BY <1>6, <1>7, <1>9 DEF Said, Roles
<1>11. Conveys(new, m)
  BY <1>4, <1>5, <1>6, <1>8, <1>9 DEF Conveys
<1> QED
  BY <1>10, <1>11 DEF new

\* An assistant's words, and its calls behind them.
LEMMA AssistantConveyed ==
  ASSUME NEW m, IsMessage(m), MessageError(m) = Fine, m.role = "assistant"
  PROVE  /\ Said(NormalizeMessage(m))
         /\ ~IsEmptyText(m) => Conveys(NormalizeMessage(m), m)
<1> DEFINE new == NormalizeMessage(m)
           content == Field(m, "content")
           text == ContentText(content)
           calls == m.tool_calls
<1>1. /\ ContentError(content, FALSE) = Fine
      /\ Check(ContentText(content) \notin {Absent, << >>} \/ "tool_calls" \in DOMAIN m, "invalid_request") = Fine
  BY MessageParts, BothFine DEF AssistantError
<1>2. text \notin {Absent, << >>} \/ "tool_calls" \in DOMAIN m
  BY <1>1 DEF Check, Fine
<1>3. content \in {Absent, Null} => text = Absent /\ WordsOf(content) = << >>
  BY DEF ContentText, WordsOf
<1>4. content \notin {Absent, Null} =>
        /\ text \in Seq(Words) /\ text # Absent /\ WordsOf(content) = text
        /\ content = m.content
  <2> SUFFICES ASSUME content \notin {Absent, Null}
               PROVE  /\ text \in Seq(Words) /\ text # Absent /\ WordsOf(content) = text
                      /\ content = m.content
    OBVIOUS
  <2>1. content = m.content
    BY DEF Field
  <2>2. IF "parts" \in DOMAIN content THEN content.parts \in Seq(Seq(Words)) ELSE content.text \in Seq(Words)
    BY <2>1 DEF IsMessage
  <2>3. text \in Seq(Words) /\ WordsOf(content) = text
    BY <1>1, <2>2, ContentWords
  <2> QED
    BY <2>1, <2>3, MessagesAssumption
<1>5. "tool_calls" \in DOMAIN m => IsCalls(calls)
  BY DEF IsMessage, IsCalls, IsSequence
<1>6. /\ new.role = "assistant" /\ new.content = AssistantText(m)
      /\ new = [role |-> new.role, content |-> new.content]
  BY DEF NormalizeMessage
<1>7. AssistantText(m) = IF "tool_calls" \notin DOMAIN m \/ text = << >> THEN text
                         ELSE IF text = Absent THEN Rendered(calls)
                         ELSE text \o Rendered(calls)
  BY DEF AssistantText
<1> HIDE DEF new, text
<1>8. CASE "tool_calls" \notin DOMAIN m
  <2>1. AssistantText(m) = text /\ text \in Seq(Words) /\ WordsOf(content) = text
    BY <1>2, <1>3, <1>4, <1>7, <1>8
  <2>2. /\ IsSequence(text) /\ \A i \in DOMAIN text : ~IsPrompt(text[i])
        /\ IsPrefix(text, text) /\ TellsCalls(SubSeq(text, Len(text) + 1, Len(text)), << >>)
    BY <2>1, WordsSay
  <2>3. Said(new)
    BY <1>6, <2>1, <2>2 DEF Said, Roles
  <2>4. Conveys(new, m)
    BY <1>6, <1>8, <2>1, <2>2 DEF Conveys
  <2> QED
    BY <2>3, <2>4 DEF new
<1>9. CASE "tool_calls" \in DOMAIN m /\ text = << >>
  <2>1. content \notin {Absent, Null}
    <3>1. Absent # << >>
      <4>1. << >> \in Seq(Words)
        OBVIOUS
      <4> QED
        BY <4>1, MessagesAssumption
    <3> QED
      BY <1>3, <1>9, <3>1
  <2>2. AssistantText(m) = << >> /\ IsEmptyText(m)
    BY <1>4, <1>7, <1>9, <2>1 DEF IsEmptyText
  <2>3. Said(new)
    BY <1>6, <2>2, NoneYet DEF Said, Roles
  <2> QED
    BY <2>2, <2>3 DEF new
<1>10. CASE "tool_calls" \in DOMAIN m /\ text # << >>
  <2> DEFINE rendered == Rendered(calls)
             words == IF text = Absent THEN << >> ELSE text
             all == words \o rendered
  <2>1. /\ IsSequence(rendered) /\ TellsCalls(rendered, calls)
        /\ \A n \in DOMAIN rendered : ~IsPrompt(rendered[n])
    BY <1>5, <1>10, CallsTold
  <2>2. words \in Seq(Words) /\ WordsOf(content) = words
    BY <1>3, <1>4
  <2>3. AssistantText(m) = all
    <3>1. << >> \o rendered = rendered
      BY <2>1, ConcatEmptySeq DEF IsSequence
    <3> QED
      BY <1>7, <1>10, <3>1
  <2> HIDE DEF words, rendered
  <2>4. IsSequence(words) /\ \A i \in DOMAIN words : ~IsPrompt(words[i])
    BY <2>2, WordsSay
  <2>a. InOneRow(words, rendered, all)
    BY <2>1, <2>4, ConcatAny
  <2> HIDE DEF all
  <2>5. /\ IsSequence(all)
        /\ Len(words) \in Nat /\ Len(rendered) \in Nat /\ Len(all) = Len(words) + Len(rendered)
        /\ DOMAIN words = 1 .. Len(words) /\ DOMAIN rendered = 1 .. Len(rendered)
        /\ DOMAIN all = 1 .. Len(words) + Len(rendered)
        /\ \A i \in 1 .. Len(words) : all[i] = words[i]
        /\ \A i \in 1 .. Len(rendered) : all[Len(words) + i] = rendered[i]
        /\ SubSeq(all, 1, Len(words)) = words
        /\ SubSeq(all, Len(words) + 1, Len(words) + Len(rendered)) = rendered
    BY <2>a DEF InOneRow
  <2>6. ASSUME NEW i \in DOMAIN all PROVE ~IsPrompt(all[i])
    <3>1. \/ i \in 1 .. Len(words)
          \/ i - Len(words) \in 1 .. Len(rendered) /\ i = Len(words) + (i - Len(words))
      BY <2>5
    <3>2. CASE i \in 1 .. Len(words)
      BY <2>4, <2>5, <3>2
    <3>3. CASE i - Len(words) \in 1 .. Len(rendered) /\ i = Len(words) + (i - Len(words))
      BY <2>1, <2>5, <3>3
    <3> QED
      BY <3>1, <3>2, <3>3
  <2>7. Said(new)
    BY <1>6, <2>3, <2>5, <2>6 DEF Said, Roles
  <2>8. IsPrefix(words, all)
    <3>1. SubSeq(words, 1, Len(words)) = words
      BY <2>2
    <3> QED
      BY <2>5, <3>1 DEF IsPrefix
  <2>9. TellsCalls(SubSeq(all, Len(words) + 1, Len(all)), calls)
    BY <2>1, <2>5
  <2>10. Conveys(new, m)
    BY <1>6, <1>10, <2>2, <2>3, <2>8, <2>9 DEF Conveys
  <2> QED
    BY <2>7, <2>10 DEF new
<1> QED
  BY <1>8, <1>9, <1>10

(* A message that is not refused is sent with its words, its calls and its result
   (normalize_messages). *)
LEMMA MessageConveyed ==
  ASSUME NEW m, IsMessage(m), MessageError(m) = Fine
  PROVE  /\ Said(NormalizeMessage(m))
         /\ ~IsEmptyText(m) => Conveys(NormalizeMessage(m), m)
<1>1. CASE m.role = "assistant"
  BY <1>1, AssistantConveyed
<1>2. CASE m.role = "tool"
  BY <1>2, ResultConveyed
<1>3. CASE m.role \notin {"assistant", "tool"}
  BY <1>3, PlainConveyed
<1> QED
  BY <1>1, <1>2, <1>3

-----------------------------------------------------------------------------
(* What the proxy adds to a conversation: behind its first system message, or in front. *)

LEMMA UnpromptedBehind ==
  ASSUME NEW s, NEW c, IsSequence(s), IsSequence(c),
         \A i \in DOMAIN s : ~IsPrompt(s[i]), \A i \in DOMAIN c : IsPrompt(c[i])
  PROVE  Unprompted(s \o c) = s
<1> DEFINE all == s \o c
           kept == {0} \cup {n \in DOMAIN all : ~IsPrompt(all[n])}
<1>0. InOneRow(s, c, all)
  BY ConcatAny
<1> HIDE DEF all
<1>1. /\ Len(s) \in Nat /\ Len(c) \in Nat
      /\ DOMAIN s = 1 .. Len(s) /\ DOMAIN c = 1 .. Len(c) /\ DOMAIN all = 1 .. Len(s) + Len(c)
      /\ \A i \in 1 .. Len(s) : all[i] = s[i]
      /\ \A i \in 1 .. Len(c) : all[Len(s) + i] = c[i]
      /\ SubSeq(all, 1, Len(s)) = s
  BY <1>0 DEF InOneRow
<1>2. kept = 0 .. Len(s)
  <2>1. ASSUME NEW n \in DOMAIN all PROVE ~IsPrompt(all[n]) <=> n <= Len(s)
    <3>1. CASE n <= Len(s)
      <4>1. n \in 1 .. Len(s)
        BY <1>1, <3>1
      <4> QED
        BY <1>1, <3>1, <4>1
    <3>2. CASE ~(n <= Len(s))
      <4>1. n - Len(s) \in 1 .. Len(c) /\ n = Len(s) + (n - Len(s))
        BY <1>1, <3>2
      <4>2. all[n] = c[n - Len(s)]
        BY <1>1, <4>1
      <4> QED
        BY <1>1, <3>2, <4>1, <4>2
    <3> QED
      BY <3>1, <3>2
  <2> QED
    BY <1>1, <2>1
<1>3. Max(0 .. Len(s)) = Len(s)
  <2>1. Len(s) \in 0 .. Len(s) /\ 0 .. Len(s) \in SUBSET (0 .. Len(s)) /\ 0 .. Len(s) # {}
    BY <1>1
  <2>2. Max(0 .. Len(s)) \in 0 .. Len(s) /\ Len(s) <= Max(0 .. Len(s))
    BY <1>1, <2>1, MaxBounded
  <2> HIDE DEF Max
  <2> QED
    BY <1>1, <2>2
<1>4. Unprompted(all) = SubSeq(all, 1, Max(kept))
  BY DEF Unprompted
<1> HIDE DEF kept
<1> QED
  BY <1>1, <1>2, <1>3, <1>4 DEF all

LEMMA FirstSystem ==
  ASSUME NEW ms, IsSequence(ms), \E m \in Range(ms) : IsSystem(m)
  PROVE  SelectInSeq(ms, IsSystem) \in DOMAIN ms /\ IsSystem(ms[SelectInSeq(ms, IsSystem)])
<1> DEFINE I == {i \in 1 .. Len(ms) : IsSystem(ms[i])}
<1>1. DOMAIN ms = 1 .. Len(ms) /\ Len(ms) \in Nat
  BY LenProperties DEF IsSequence
<1>2. I # {} /\ I \in SUBSET Nat
  BY <1>1 DEF Range
<1>3. Min(I) \in I
  <2> HIDE DEF I
  <2> QED
    BY <1>2, MinNatural
<1>4. SelectInSeq(ms, IsSystem) = Min(I)
  BY <1>2 DEF SelectInSeq
<1> HIDE DEF Min
<1> QED
  BY <1>1, <1>3, <1>4

SystemMessage(content) == [role |-> "system", content |-> content]

IsMap(f) == f = [i \in DOMAIN f |-> f[i]]

InFront(m, ms) == <<m>> \o ms
InPlace(ms, n, c) == [ms EXCEPT ![n].content = @ \o c]
More(ms, n, piece) == [ms EXCEPT ![n].content = Append(@, piece)]

\* There is a place for what the proxy says, whatever it is: 0 is one in front.
Appended(ms, n, c) ==
  AppendToSystemMessage(ms, c) = IF n = 0 THEN InFront(SystemMessage(c), ms) ELSE InPlace(ms, n, c)

LEMMA SystemPlace ==
  ASSUME NEW ms, IsSequence(ms)
  PROVE  \E n \in {0} \cup DOMAIN ms : (n # 0 => IsSystem(ms[n])) /\ \A c : Appended(ms, n, c)
<1>1. CASE \E m \in Range(ms) : IsSystem(m)
  <2> DEFINE n == SelectInSeq(ms, IsSystem)
  <2>1. n \in DOMAIN ms /\ IsSystem(ms[n])
    BY <1>1, FirstSystem
  <2>2. n # 0
    BY <2>1, LenProperties DEF IsSequence
  <2>3. ASSUME NEW c PROVE Appended(ms, n, c)
    BY <1>1, <2>2 DEF Appended, AppendToSystemMessage, InPlace
  <2> HIDE DEF n
  <2> QED
    BY <2>1, <2>3
<1>2. CASE ~ \E m \in Range(ms) : IsSystem(m)
  <2>1. ASSUME NEW c PROVE Appended(ms, 0, c)
    BY <1>2 DEF Appended, AppendToSystemMessage, SystemMessage, InFront
  <2> QED
    BY <2>1
<1> QED
  BY <1>1, <1>2

Conversation(ms) == IsSequence(ms) /\ \A n \in DOMAIN ms : Said(ms[n])

\* The messages in each of the two forms, one by one.
HasPieces(new, ms, n, c) ==
  /\ DOMAIN new = DOMAIN ms /\ IsMap(new)
  /\ new[n] = [role |-> ms[n].role, content |-> ms[n].content \o c]
  /\ \A i \in DOMAIN ms \ {n} : new[i] = ms[i]

LEMMA PlaceOf ==
  ASSUME NEW ms, Conversation(ms), NEW n \in DOMAIN ms, NEW c
  PROVE  HasPieces(InPlace(ms, n, c), ms, n, c)
<1> DEFINE new == InPlace(ms, n, c)
<1>1. ms = [i \in DOMAIN ms |-> ms[i]]
  BY DEF Conversation, IsSequence
<1>2. ms[n] = [role |-> ms[n].role, content |-> ms[n].content]
  BY DEF Conversation, Said
<1>a. new = InPlace(ms, n, c)
  OBVIOUS
<1> HIDE DEF new
<1> DEFINE joined == ms[n].content \o c
           changed == [ms[n] EXCEPT !.content = joined]
<1>3. new = [ms EXCEPT ![n] = changed]
  BY <1>a DEF InPlace
<1> HIDE DEF joined
<1>4. changed = [role |-> ms[n].role, content |-> joined]
  BY <1>2
<1> HIDE DEF changed
<1>5. DOMAIN new = DOMAIN ms /\ new[n] = changed /\ \A i \in DOMAIN ms \ {n} : new[i] = ms[i]
  BY <1>1, <1>3
<1>6. IsMap(new)
  BY <1>1, <1>3 DEF IsMap
<1> QED
  BY <1>4, <1>5, <1>6 DEF HasPieces, joined, new

LEMMA FrontOf ==
  ASSUME NEW ms, Conversation(ms), NEW m
  PROVE  /\ Len(ms) \in Nat /\ DOMAIN ms = 1 .. Len(ms)
         /\ Len(InFront(m, ms)) = Len(ms) + 1 /\ DOMAIN InFront(m, ms) = 1 .. Len(ms) + 1
         /\ IsSequence(InFront(m, ms))
         /\ InFront(m, ms)[1] = m /\ \A i \in 1 .. Len(ms) : InFront(m, ms)[i + 1] = ms[i]
<1> DEFINE new == InFront(m, ms)
<1>1. <<m>> \in Seq({m}) /\ Len(<<m>>) = 1 /\ <<m>>[1] = m
  OBVIOUS
<1>2. IsSequence(<<m>>)
  BY <1>1, OfItsRange
<1>3. IsSequence(ms)
  BY DEF Conversation
<1>a. InOneRow(<<m>>, ms, new)
  BY <1>2, <1>3, ConcatAny DEF InFront
<1> HIDE DEF new
<1>4. /\ IsSequence(new) /\ Len(ms) \in Nat /\ Len(new) = 1 + Len(ms)
      /\ DOMAIN ms = 1 .. Len(ms) /\ DOMAIN new = 1 .. 1 + Len(ms)
      /\ \A i \in 1 .. 1 : new[i] = <<m>>[i]
      /\ \A i \in 1 .. Len(ms) : new[1 + i] = ms[i]
  BY <1>1, <1>a DEF InOneRow
<1>5. \A i \in 1 .. Len(ms) : new[i + 1] = ms[i]
  BY <1>4
<1> QED
  BY <1>1, <1>4, <1>5 DEF new

\* A message has a role and a content.
Plainly(ms) ==
  /\ IsMap(ms) /\ DOMAIN ms \subseteq Nat
  /\ \A n \in DOMAIN ms : ms[n] = [role |-> ms[n].role, content |-> ms[n].content]

LEMMA ConversationPlain ==
  ASSUME NEW ms, Conversation(ms)
  PROVE  Plainly(ms)
<1>1. IsMap(ms)
  BY DEF Conversation, IsSequence, IsMap
<1>2. DOMAIN ms \subseteq Nat
  <2>1. DOMAIN ms = 1 .. Len(ms) /\ Len(ms) \in Nat
    BY LenProperties DEF Conversation, IsSequence
  <2> QED
    BY <2>1
<1> QED
  BY <1>1, <1>2 DEF Plainly, Conversation, Said

LEMMA AppendedPlain ==
  ASSUME NEW ms, Conversation(ms), NEW c
  PROVE  Plainly(AppendToSystemMessage(ms, c))
<1> DEFINE new == AppendToSystemMessage(ms, c)
<1>1. PICK n \in {0} \cup DOMAIN ms : Appended(ms, n, c)
  BY SystemPlace DEF Conversation
<1>2. CASE n = 0
  <2>1. new = InFront(SystemMessage(c), ms)
    BY <1>1, <1>2 DEF Appended
  <2> HIDE DEF new
  <2>2. /\ Len(ms) \in Nat /\ DOMAIN ms = 1 .. Len(ms) /\ DOMAIN new = 1 .. Len(ms) + 1
        /\ IsSequence(new)
        /\ new[1] = SystemMessage(c) /\ \A i \in 1 .. Len(ms) : new[i + 1] = ms[i]
    BY <2>1, FrontOf
  <2>3. ASSUME NEW i \in DOMAIN new PROVE new[i] = [role |-> new[i].role, content |-> new[i].content]
    <3>1. CASE i = 1
      BY <2>2, <3>1 DEF SystemMessage
    <3>2. CASE i # 1
      <4>1. i - 1 \in 1 .. Len(ms) /\ (i - 1) + 1 = i
        BY <2>2, <3>2
      <4>2. new[i] = ms[i - 1] /\ i - 1 \in DOMAIN ms
        BY <2>2, <4>1
      <4> QED
        BY <4>2 DEF Conversation, Said
    <3> QED
      BY <3>1, <3>2
  <2>4. IsMap(new)
    BY <2>2 DEF IsSequence, IsMap
  <2>5. DOMAIN new \subseteq Nat
    BY <2>2
  <2> QED
    BY <2>3, <2>4, <2>5 DEF Plainly, new
<1>3. CASE n # 0
  <2>1. new = InPlace(ms, n, c) /\ n \in DOMAIN ms
    BY <1>1, <1>3 DEF Appended
  <2> HIDE DEF new
  <2>2. /\ DOMAIN new = DOMAIN ms /\ IsMap(new)
        /\ new[n] = [role |-> ms[n].role, content |-> ms[n].content \o c]
        /\ \A i \in DOMAIN ms \ {n} : new[i] = ms[i]
    <3>1. HasPieces(InPlace(ms, n, c), ms, n, c)
      BY <2>1, PlaceOf
    <3> QED
      BY <2>1, <3>1 DEF HasPieces
  <2>3. ASSUME NEW i \in DOMAIN new PROVE new[i] = [role |-> new[i].role, content |-> new[i].content]
    BY <2>2 DEF Conversation, Said
  <2>4. DOMAIN ms \subseteq Nat
    BY ConversationPlain DEF Plainly
  <2> QED
    BY <2>2, <2>3, <2>4 DEF Plainly, new
<1> QED
  BY <1>2, <1>3


LEMMA PieceBehind ==
  ASSUME NEW content, IsSequence(content), NEW first, NEW piece
  PROVE  /\ content \o (<<first>> \o <<piece>>) = Append(content \o <<first>>, piece)
         /\ Append(content \o <<first>>, piece)[Len(Append(content \o <<first>>, piece))] = piece
<1> DEFINE S == Range(content) \cup {first, piece}
<1>1. content \in Seq(S)
  BY SeqMonotonic DEF IsSequence
<1>2. <<first>> \in Seq(S) /\ piece \in S
  OBVIOUS
<1>3. <<first>> \o <<piece>> = Append(<<first>>, piece)
  OBVIOUS
<1> HIDE DEF S
<1>4. content \o Append(<<first>>, piece) = Append(content \o <<first>>, piece)
  BY <1>1, <1>2, AppendBehind
<1>5. content \o <<first>> \in Seq(S)
  BY <1>1, <1>2, ConcatProperties
<1>6. \A l \in Seq(S) : Append(l, piece)[Len(Append(l, piece))] = piece
  BY <1>2
<1> QED
  BY <1>3, <1>4, <1>5, <1>6

\* after is before, with one piece more behind its system message n.
OneMore(before, after, n, piece) ==
  /\ DOMAIN after = DOMAIN before /\ n \in DOMAIN before
  /\ after = More(before, n, piece)
  /\ IsSystem(before[n])
  /\ after[n].content[Len(after[n].content)] = piece

LEMMA MoreIs ==
  ASSUME NEW before, NEW after, IsMap(before), IsMap(after), DOMAIN after = DOMAIN before,
         NEW n \in DOMAIN before, NEW role, NEW old, NEW piece,
         before[n] = [role |-> role, content |-> old],
         after[n] = [role |-> role, content |-> Append(old, piece)],
         \A i \in DOMAIN before \ {n} : after[i] = before[i]
  PROVE  after = More(before, n, piece)
<1> DEFINE c == Append(old, piece)
           m == [before[n] EXCEPT !.content = Append(@, piece)]
           other == [before EXCEPT ![n] = m]
<1>1. m = after[n]
  <2>1. before[n].content = old
    OBVIOUS
  <2>2. m = [before[n] EXCEPT !.content = c]
    BY <2>1, SMTT(30)
  <2> HIDE DEF c
  <2>3. after[n] = [role |-> role, content |-> c]
    BY DEF c
  <2> QED
    BY <2>2, <2>3
<1>2. More(before, n, piece) = other
  BY DEF More
<1> HIDE DEF m
<1>3. DOMAIN other = DOMAIN before /\ IsMap(other)
  BY DEF IsMap
<1>4. \A i \in DOMAIN before : other[i] = after[i]
  BY <1>1
<1> HIDE DEF other
<1>5. other = after
  BY <1>3, <1>4 DEF IsMap
<1> QED
  BY <1>2, <1>5

LEMMA MoreInFront ==
  ASSUME NEW ms, Conversation(ms), NEW first, NEW piece
  PROVE  OneMore(InFront(SystemMessage(<<first>>), ms),
                 InFront(SystemMessage(<<first>> \o <<piece>>), ms), 1, piece)
<1> DEFINE m == SystemMessage(<<first>>)
           m2 == SystemMessage(<<first>> \o <<piece>>)
           before == InFront(m, ms)
           after == InFront(m2, ms)
<1>1. /\ m = [role |-> "system", content |-> <<first>>]
      /\ m2 = [role |-> "system", content |-> Append(<<first>>, piece)]
      /\ IsSystem(m) /\ m2.content[Len(m2.content)] = piece
  <2>1. /\ <<first>> \o <<piece>> = Append(<<first>>, piece)
        /\ Append(<<first>>, piece)[Len(Append(<<first>>, piece))] = piece
    OBVIOUS
  <2>2. /\ m = [role |-> "system", content |-> <<first>>]
        /\ m2 = [role |-> "system", content |-> <<first>> \o <<piece>>]
    BY DEF SystemMessage
  <2>3. IsSystem(m)
    BY DEF IsSystem, SystemMessage
  <2> HIDE DEF m, m2
  <2>4. m2 = [role |-> "system", content |-> Append(<<first>>, piece)]
    BY <2>1, <2>2
  <2> QED
    BY <2>1, <2>2, <2>3, <2>4
<1> HIDE DEF m, m2
<1>2. /\ Len(ms) \in Nat /\ IsSequence(before)
      /\ DOMAIN before = 1 .. Len(ms) + 1 /\ before[1] = m
      /\ \A i \in 1 .. Len(ms) : before[i + 1] = ms[i]
  BY FrontOf
<1>3. /\ IsSequence(after)
      /\ DOMAIN after = 1 .. Len(ms) + 1 /\ after[1] = m2
      /\ \A i \in 1 .. Len(ms) : after[i + 1] = ms[i]
  BY FrontOf
<1> HIDE DEF before, after
<1>4. IsMap(before) /\ IsMap(after)
  BY <1>2, <1>3 DEF IsSequence, IsMap
<1>5. ASSUME NEW i \in DOMAIN before \ {1} PROVE after[i] = before[i]
  <2>1. i - 1 \in 1 .. Len(ms) /\ (i - 1) + 1 = i
    BY <1>2
  <2> QED
    BY <1>2, <1>3, <2>1
<1>6. 1 \in DOMAIN before /\ DOMAIN after = DOMAIN before
  BY <1>2, <1>3
<1>7. after = More(before, 1, piece)
  <2> DEFINE start == <<first>>
  <2>1. /\ before[1] = [role |-> "system", content |-> start]
        /\ after[1] = [role |-> "system", content |-> Append(start, piece)]
    BY <1>1, <1>2, <1>3
  <2> HIDE DEF start
  <2> QED
    BY <1>4, <1>5, <1>6, <2>1, MoreIs
<1>8. OneMore(before, after, 1, piece)
  BY <1>1, <1>2, <1>3, <1>6, <1>7 DEF OneMore
<1> QED
  BY <1>8 DEF before, after, m, m2

LEMMA MoreInPlace ==
  ASSUME NEW ms, Conversation(ms), NEW n \in DOMAIN ms, IsSystem(ms[n]), NEW first, NEW piece
  PROVE  OneMore(InPlace(ms, n, <<first>>), InPlace(ms, n, <<first>> \o <<piece>>), n, piece)
<1> DEFINE old == ms[n].content
           c1 == old \o <<first>>
           c2 == Append(c1, piece)
           before == InPlace(ms, n, <<first>>)
           after == InPlace(ms, n, <<first>> \o <<piece>>)
<1>1. IsSequence(old)
  BY DEF Conversation, Said
<1>2. /\ DOMAIN before = DOMAIN ms /\ IsMap(before)
      /\ before[n] = [role |-> ms[n].role, content |-> old \o <<first>>]
      /\ \A i \in DOMAIN ms \ {n} : before[i] = ms[i]
  <2> DEFINE c == <<first>>
  <2> HIDE DEF c
  <2>1. HasPieces(InPlace(ms, n, c), ms, n, c)
    BY PlaceOf
  <2> QED
    BY <2>1 DEF HasPieces, c
<1>3. /\ DOMAIN after = DOMAIN ms /\ IsMap(after)
      /\ after[n] = [role |-> ms[n].role, content |-> old \o (<<first>> \o <<piece>>)]
      /\ \A i \in DOMAIN ms \ {n} : after[i] = ms[i]
  <2> DEFINE c == <<first>> \o <<piece>>
  <2> HIDE DEF c
  <2>1. HasPieces(InPlace(ms, n, c), ms, n, c)
    BY PlaceOf
  <2> QED
    BY <2>1 DEF HasPieces, c
<1>4. old \o (<<first>> \o <<piece>>) = c2 /\ c2[Len(c2)] = piece
  BY <1>1, PieceBehind
<1> HIDE DEF old, before, after
<1>5. /\ before[n] = [role |-> ms[n].role, content |-> c1]
      /\ after[n] = [role |-> ms[n].role, content |-> c2]
  BY <1>2, <1>3, <1>4
<1> HIDE DEF c1
<1>6. after = More(before, n, piece)
  <2>1. /\ IsMap(before) /\ IsMap(after) /\ DOMAIN after = DOMAIN before /\ n \in DOMAIN before
        /\ \A i \in DOMAIN before \ {n} : after[i] = before[i]
    BY <1>2, <1>3
  <2> QED
    BY <1>5, <2>1, MoreIs
<1> HIDE DEF c2
<1>7. IsSystem(before[n]) /\ after[n].content[Len(after[n].content)] = piece
  BY <1>4, <1>5 DEF IsSystem
<1>8. OneMore(before, after, n, piece)
  BY <1>2, <1>3, <1>6, <1>7 DEF OneMore
<1> QED
  BY <1>8 DEF before, after

(* One piece more is added to the message that has the others (tool_emulated_messages). *)
LEMMA OnePieceMore ==
  ASSUME NEW ms, Conversation(ms), NEW first, NEW piece
  PROVE  \E n : OneMore(AppendToSystemMessage(ms, <<first>>),
                        AppendToSystemMessage(ms, <<first>> \o <<piece>>), n, piece)
<1>1. PICK n \in {0} \cup DOMAIN ms : (n # 0 => IsSystem(ms[n])) /\ \A c : Appended(ms, n, c)
  BY SystemPlace DEF Conversation
<1>2. Appended(ms, n, <<first>>) /\ Appended(ms, n, <<first>> \o <<piece>>)
  BY <1>1
<1>3. CASE n = 0
  BY <1>2, <1>3, MoreInFront DEF Appended
<1>4. CASE n # 0
  BY <1>1, <1>2, <1>4, MoreInPlace DEF Appended
<1> QED
  BY <1>3, <1>4

-----------------------------------------------------------------------------
(* The client's messages without what the proxy says. *)

\* A message without the prompts in it.
Bare(m) == [m EXCEPT !.content = Unprompted(@)]

LEMMA BareIs ==
  ASSUME NEW role, NEW content, NEW s, Unprompted(content) = s,
         NEW m, m = [role |-> role, content |-> content]
  PROVE  Bare(m) = [role |-> role, content |-> s]
BY DEF Bare

LEMMA BareSaid ==
  ASSUME NEW m, Said(m)
  PROVE  Bare(m) = m
<1>1. Unprompted(m.content \o << >>) = m.content
  BY NoneYet, UnpromptedBehind DEF Said
<1>2. m.content \o << >> = m.content
  BY ConcatEmptySeq DEF Said, IsSequence
<1>3. Unprompted(m.content) = m.content
  BY <1>1, <1>2
<1> QED
  BY <1>3, BareIs DEF Said

LEMMA OfClientIs ==
  ASSUME NEW messages
  PROVE  OfClient(messages) =
           LET said == [n \in DOMAIN messages |-> Bare(messages[n])]
           IN  IF Len(messages) > Len(body.messages) /\ messages[1].role = "system" /\ said[1].content = << >>
               THEN Tail(said) ELSE said
BY DEF OfClient, Bare

LEMMA OfClientAlone ==
  ASSUME NEW ms, Conversation(ms), Len(body.messages) = Len(ms)
  PROVE  OfClient(ms) = ms
<1>1. Len(ms) \in Nat
  BY LenProperties DEF Conversation, IsSequence
<1>2. \A n \in DOMAIN ms : Bare(ms[n]) = ms[n]
  BY BareSaid DEF Conversation
<1>3. ms = [n \in DOMAIN ms |-> ms[n]]
  BY DEF Conversation, IsSequence
<1>4. [n \in DOMAIN ms |-> Bare(ms[n])] = ms
  BY <1>2, <1>3
<1>5. ~(Len(ms) > Len(body.messages))
  BY <1>1
<1> QED
  BY <1>4, <1>5, OfClientIs

LEMMA OfClientInPlace ==
  ASSUME NEW ms, Conversation(ms), Len(body.messages) = Len(ms),
         NEW n \in DOMAIN ms, NEW c, IsSequence(c), \A i \in DOMAIN c : IsPrompt(c[i])
  PROVE  OfClient(InPlace(ms, n, c)) = ms
<1> DEFINE new == InPlace(ms, n, c)
           said == [i \in DOMAIN new |-> Bare(new[i])]
<1>1. IsSequence(ms) /\ Len(ms) \in Nat /\ DOMAIN ms = 1 .. Len(ms)
  BY LenProperties DEF Conversation, IsSequence
<1>2. /\ DOMAIN new = DOMAIN ms /\ IsMap(new)
      /\ new[n] = [role |-> ms[n].role, content |-> ms[n].content \o c]
      /\ \A i \in DOMAIN ms \ {n} : new[i] = ms[i]
  <2>1. HasPieces(new, ms, n, c)
    BY PlaceOf
  <2> HIDE DEF new
  <2> QED
    BY <2>1 DEF HasPieces
<1> HIDE DEF new
<1>3. Bare(new[n]) = ms[n]
  <2>1. /\ IsSequence(ms[n].content) /\ \A i \in DOMAIN ms[n].content : ~IsPrompt(ms[n].content[i])
        /\ ms[n] = [role |-> ms[n].role, content |-> ms[n].content]
    BY DEF Conversation, Said
  <2> DEFINE old == ms[n].content
             joined == old \o c
  <2>2. Unprompted(joined) = old
    BY <2>1, UnpromptedBehind
  <2>3. new[n] = [role |-> ms[n].role, content |-> joined]
    BY <1>2
  <2> HIDE DEF joined, old
  <2>4. Bare(new[n]) = [role |-> ms[n].role, content |-> old]
    BY <2>2, <2>3, BareIs
  <2> QED
    BY <2>1, <2>4 DEF old
<1>4. \A i \in DOMAIN ms : Bare(new[i]) = ms[i]
  BY <1>2, <1>3, BareSaid DEF Conversation
<1>5. ms = [i \in DOMAIN ms |-> ms[i]]
  BY <1>1 DEF IsSequence
<1>6. said = ms
  BY <1>2, <1>4, <1>5
<1>7. Len(new) = Len(ms)
  <2>1. new \in [1 .. Len(ms) -> Range(new)]
    BY <1>1, <1>2 DEF IsMap, Range
  <2>2. Seq(Range(new)) = UNION {[1 .. k -> Range(new)] : k \in Nat}
    BY SeqDef
  <2>3. new \in Seq(Range(new))
    BY <1>1, <2>1, <2>2
  <2> QED
    BY <1>1, <1>2, <2>3, LenProperties
<1>8. ~(Len(new) > Len(body.messages))
  BY <1>1, <1>7
<1> QED
  BY <1>6, <1>8, OfClientIs DEF new

LEMMA OfClientInFront ==
  ASSUME NEW ms, Conversation(ms), Len(body.messages) = Len(ms),
         NEW c, IsSequence(c), \A i \in DOMAIN c : IsPrompt(c[i])
  PROVE  OfClient(InFront(SystemMessage(c), ms)) = ms
<1> DEFINE m == SystemMessage(c)
           new == InFront(m, ms)
           said == [i \in DOMAIN new |-> Bare(new[i])]
           bare == [role |-> "system", content |-> << >>]
<1>1. /\ Len(ms) \in Nat /\ DOMAIN ms = 1 .. Len(ms)
      /\ Len(new) = Len(ms) + 1 /\ DOMAIN new = 1 .. Len(ms) + 1
      /\ new[1] = m /\ \A i \in 1 .. Len(ms) : new[i + 1] = ms[i]
  BY FrontOf
<1>2. m.role = "system" /\ m = [role |-> "system", content |-> c]
  BY DEF SystemMessage
<1> HIDE DEF m, new
<1>3. Unprompted(c) = << >>
  <2>1. Unprompted(<< >> \o c) = << >>
    BY NoneYet, UnpromptedBehind
  <2>2. << >> \o c = c
    BY ConcatEmptySeq DEF IsSequence
  <2> QED
    BY <2>1, <2>2
<1>4. said[1] = bare /\ \A i \in 1 .. Len(ms) : said[i + 1] = ms[i]
  <2>1. said[1] = Bare(new[1]) /\ \A i \in 1 .. Len(ms) : said[i + 1] = Bare(new[i + 1])
    <3>1. 1 \in 1 .. Len(ms) + 1 /\ \A i \in 1 .. Len(ms) : i + 1 \in 1 .. Len(ms) + 1
      BY <1>1
    <3> QED
      BY <1>1, <3>1
  <2>2. Bare(m) = bare
    BY <1>2, <1>3, BareIs
  <2>3. \A i \in 1 .. Len(ms) : Bare(ms[i]) = ms[i]
    BY <1>1, BareSaid DEF Conversation
  <2> HIDE DEF said
  <2> QED
    BY <1>1, <2>1, <2>2, <2>3
<1>5. Tail(said) = ms
  <2> DEFINE S == Range(said)
  <2>1. DOMAIN said = 1 .. Len(ms) + 1
    BY <1>1
  <2>2. said \in [1 .. Len(ms) + 1 -> S]
    BY <2>1 DEF Range
  <2> HIDE DEF said, S
  <2>3. Seq(S) = UNION {[1 .. k -> S] : k \in Nat}
    BY SeqDef
  <2>4. said \in Seq(S) /\ Len(ms) + 1 \in Nat
    BY <1>1, <2>2, <2>3
  <2>5. Len(said) = Len(ms) + 1
    BY <2>1, <2>4, LenProperties
  <2>6. said # << >>
    BY <1>1, <2>5
  <2>7. /\ Tail(said) \in Seq(S) /\ Len(Tail(said)) = Len(ms)
        /\ \A i \in 1 .. Len(ms) : Tail(said)[i] = said[i + 1]
    BY <1>1, <2>4, <2>5, <2>6, HeadTailProperties
  <2>8. \A i \in 1 .. Len(ms) : Tail(said)[i] = ms[i]
    BY <1>4, <2>7
  <2>9. DOMAIN ms = 1 .. Len(ms) /\ ms = [i \in 1 .. Len(ms) |-> ms[i]]
    <3>1. ms \in Seq(Range(ms))
      BY DEF Conversation, IsSequence
    <3> QED
      BY <3>1
  <2> DEFINE rest == Tail(said)
  <2>10. rest = [i \in 1 .. Len(ms) |-> rest[i]]
    <3>1. rest \in Seq(S) /\ Len(rest) = Len(ms)
      BY <2>7
    <3> HIDE DEF rest
    <3>2. \A T : \A t \in Seq(T) : t = [i \in 1 .. Len(t) |-> t[i]]
      OBVIOUS
    <3> QED
      BY <3>1, <3>2
  <2>11. \A i \in 1 .. Len(ms) : rest[i] = ms[i]
    BY <2>8
  <2> HIDE DEF rest
  <2>12. rest = ms
    BY <2>9, <2>10, <2>11
  <2> QED
    BY <2>12 DEF rest
<1>6. Len(new) > Len(body.messages) /\ new[1].role = "system" /\ said[1].content = << >>
  BY <1>1, <1>2, <1>4
<1>7. OfClient(new) = Tail(said)
  BY <1>6, OfClientIs
<1> QED
  BY <1>5, <1>7 DEF new, m

(* Behind what the proxy adds the client's messages are as they were
   (append_to_system_message). *)
LEMMA OfClientAppended ==
  ASSUME NEW ms, Conversation(ms), Len(body.messages) = Len(ms),
         NEW c, IsSequence(c), \A i \in DOMAIN c : IsPrompt(c[i])
  PROVE  OfClient(AppendToSystemMessage(ms, c)) = ms
<1>1. PICK n \in {0} \cup DOMAIN ms : (n # 0 => IsSystem(ms[n])) /\ \A d : Appended(ms, n, d)
  BY SystemPlace DEF Conversation
<1>2. Appended(ms, n, c)
  BY <1>1
<1>3. CASE n = 0
  BY <1>2, <1>3, OfClientInFront DEF Appended
<1>4. CASE n # 0
  BY <1>1, <1>2, <1>4, OfClientInPlace DEF Appended
<1> QED
  BY <1>3, <1>4

-----------------------------------------------------------------------------
(* What was sent, told from the request and from the answers before it. *)

\* The failure attempt k tells of, read from the answer before it.
CorrectionOf(k) ==
  IF k = 1 THEN << >>
  ELSE << [ error  |-> answers[k - 1].fault,
            output |-> IF answers[k - 1].fault = Late THEN << >> ELSE answers[k - 1].payload.sealed.text ] >>

PlainOf(k) == IF Emulated THEN EmulatedMessages(request, CorrectionOf(k)) ELSE request.messages

SentOf(k) ==
  [ client   |-> PublicKeyHex(ProxyPair),
    model    |-> key,
    settings |-> Settings(request),
    messages |-> Sealed(PlainOf(k), k) ]

Faulty(answer) ==
  /\ answer.fault \in Faults \cup {Late}
  /\ answer.fault # Late => answer.payload.sealed.text \in Answers

\* What was sent, told from the request and from the answers.
Told ==
  /\ sent # << >> \/ pc \in {"prepare"} \cup Working =>
       key \in {PublicKeyHex(pair) : pair \in Enclaves}
  /\ sent # << >> => request = Request(body)
  /\ pc \in Working => correction = CorrectionOf(retries + 1)
  /\ retries <= Len(answers)
  /\ retries > 0 => Emulated
  /\ \A j \in 1 .. retries : Faulty(answers[j])
  /\ \A k \in DOMAIN sent : sent[k] = SentOf(k)

Keys == {PublicKeyHex(pair) : pair \in Enclaves}

SealedFor(messages, modelKey, k) ==
  [n \in DOMAIN messages |->
     [ role    |-> messages[n].role,
       content |-> EncryptContent(messages[n].content, modelKey, Drawn(k, n), Drawn(k, n)).payload ]]

\* What there was stays what it was, as long as no answer is taken back.
LEMMA ToldAgain ==
  ASSUME UNCHANGED <<config, request, key>>, NEW k \in Nat \ {0},
         \A j \in 1 .. k - 1 : answers'[j] = answers[j]
  PROVE  CorrectionOf(k)' = CorrectionOf(k) /\ SentOf(k)' = SentOf(k)
<1>1. CorrectionOf(k)' = CorrectionOf(k)
  <2>1. CASE k = 1
    BY <2>1 DEF CorrectionOf
  <2>2. CASE k # 1
    <3>1. k - 1 \in 1 .. k - 1
      BY <2>2
    <3>2. answers'[k - 1] = answers[k - 1]
      BY <3>1
    <3> QED
      BY <2>2, <3>2 DEF CorrectionOf
  <2> QED
    BY <2>1, <2>2
<1>2. PlainOf(k)' = PlainOf(k)
  BY <1>1 DEF PlainOf, Emulated
<1>3. SentOf(k) = [ client |-> PublicKeyHex(ProxyPair), model |-> key, settings |-> Settings(request),
                    messages |-> SealedFor(PlainOf(k), key, k) ]
  BY DEF SentOf, Sealed, SealedFor
<1>4. SentOf(k)' = [ client |-> PublicKeyHex(ProxyPair), model |-> key', settings |-> Settings(request'),
                     messages |-> SealedFor(PlainOf(k)', key', k) ]
  BY DEF SentOf, Sealed, SealedFor
<1> QED
  BY <1>1, <1>2, <1>3, <1>4

\* Before anything is sent there is only the key to tell of.
LEMMA ToldEarly ==
  ASSUME IInv, pc \in Early, UNCHANGED <<attempt, history>>,
         pc' \in {"prepare"} \cup Working => key' \in Keys
  PROVE  Told'
<1>1. /\ sent = << >> /\ answers = << >> /\ retries = 0 /\ correction = << >>
  BY DEF IInv, Course
<1>2. /\ sent' = << >> /\ answers' = << >> /\ retries' = 0 /\ correction' = << >>
  BY <1>1 DEF attempt, history
<1>3. CorrectionOf(retries + 1)' = << >>
  BY <1>2 DEF CorrectionOf
<1>4. DOMAIN sent' = {} /\ 1 .. retries' = {} /\ Len(answers') = 0
  BY <1>2, NoneYet
<1> QED
  BY <1>2, <1>3, <1>4 DEF Told, Keys

\* Nothing is sent, and no answer is taken back.
LEMMA ToldStill ==
  ASSUME IInv, Told, UNCHANGED <<body, config, request, key, attempt, sent>>,
         \A j \in 1 .. Len(answers) : answers'[j] = answers[j], Len(answers') \in Nat, Len(answers) <= Len(answers'),
         pc' \in {"done", pc} \/ (pc \in Working /\ pc' \in Working)
  PROVE  Told'
<1> USE DEF attempt
<1>1. /\ IsSequence(sent) /\ IsSequence(answers) /\ retries \in Nat /\ Len(sent) <= retries + 1
      /\ DOMAIN sent = 1 .. Len(sent) /\ Len(sent) \in Nat /\ Len(answers) \in Nat
  BY LenProperties, RetriesAssumption DEF IInv, TypeOK, Histories, IsSequence
<1>2. retries <= Len(answers)
  BY DEF Told
<1>3. ASSUME NEW k \in 1 .. retries + 1
      PROVE  CorrectionOf(k)' = CorrectionOf(k) /\ SentOf(k)' = SentOf(k)
  <2>1. k \in Nat \ {0} /\ \A j \in 1 .. k - 1 : j \in 1 .. Len(answers)
    BY <1>1, <1>2
  <2> QED
    BY <2>1, ToldAgain
<1>4. pc' \in Working => correction' = CorrectionOf(retries + 1)'
  <2>1. pc' \in Working => pc \in Working
    BY DEF Working
  <2>2. retries + 1 \in 1 .. retries + 1
    BY <1>1
  <2>3. CorrectionOf(retries + 1)' = CorrectionOf(retries + 1)
    <3>1. \A j \in 1 .. (retries + 1) - 1 : j \in 1 .. Len(answers)
      BY <1>1, <1>2
    <3> QED
      BY <1>1, <3>1, ToldAgain
  <2> QED
    BY <2>1, <2>3 DEF Told
<1>5. \A k \in DOMAIN sent' : sent'[k] = SentOf(k)'
  <2>1. \A k \in DOMAIN sent : k \in 1 .. retries + 1
    BY <1>1
  <2> QED
    BY <1>3, <2>1 DEF Told
<1>6. \A j \in 1 .. retries' : Faulty(answers'[j])
  <2>1. \A j \in 1 .. retries : j \in 1 .. Len(answers)
    BY <1>1, <1>2
  <2> QED
    BY <2>1 DEF Told
<1>7. retries' <= Len(answers') /\ (retries' > 0 => Emulated')
  BY <1>1, <1>2 DEF Told, Emulated
<1>8. /\ sent' # << >> => request' = Request(body')
      /\ sent' # << >> \/ pc' \in {"prepare"} \cup Working => key' \in Keys
  BY DEF Told, Keys, Working
<1> QED
  BY <1>4, <1>5, <1>6, <1>7, <1>8 DEF Told, Keys

LEMMA ToldSend ==
  ASSUME IInv, Read, Told, Send
  PROVE  Told'
<1> USE DEF inputs, attempt, history
<1>1. pc = "send" /\ pc' = "upstream" /\ sent' = Append(sent, Outgoing)
      /\ UNCHANGED <<inputs, request, key, attempt, response, outcomes, answers>>
  BY DEF Send
<1>2. pc \in Working
  BY <1>1 DEF Working
<1>3. /\ IsSequence(sent) /\ DOMAIN sent = 1 .. Len(sent) /\ Len(sent) = retries /\ retries \in Nat
      /\ Len(answers) = retries
  BY <1>1, <1>2, AtWork
<1>4. /\ DOMAIN sent' = 1 .. retries + 1
      /\ \A k \in 1 .. retries : sent'[k] = sent[k]
      /\ sent'[retries + 1] = Outgoing
  BY <1>1, <1>3, AppendAny
<1>5. ASSUME NEW k \in 1 .. retries + 1
      PROVE  CorrectionOf(k)' = CorrectionOf(k) /\ SentOf(k)' = SentOf(k)
  <2>1. k \in Nat \ {0}
    BY <1>3
  <2> QED
    BY <1>1, <2>1, ToldAgain
<1>6. Outgoing = SentOf(retries + 1)
  <2>1. correction = CorrectionOf(retries + 1)
    BY <1>2 DEF Told
  <2>2. Plaintext = PlainOf(retries + 1)
    BY <2>1 DEF Plaintext, PlainOf
  <2> QED
    BY <1>3, <2>2 DEF Outgoing, SentOf
<1>7. \A k \in DOMAIN sent' : sent'[k] = SentOf(k)'
  <2>1. ASSUME NEW k \in 1 .. retries + 1 PROVE sent'[k] = SentOf(k)'
    <3>1. CASE k = retries + 1
      BY <1>4, <1>5, <1>6, <3>1
    <3>2. CASE k # retries + 1
      <4>1. k \in 1 .. retries /\ k \in DOMAIN sent
        BY <1>3, <3>2
      <4> QED
        BY <1>4, <1>5, <4>1 DEF Told
    <3> QED
      BY <3>1, <3>2
  <2> QED
    BY <1>4, <2>1
<1>8. correction' = CorrectionOf(retries + 1)'
  <2>1. retries + 1 \in Nat \ {0}
    BY <1>3
  <2>2. CorrectionOf(retries + 1)' = CorrectionOf(retries + 1)
    BY <1>1, <2>1, ToldAgain
  <2> QED
    BY <1>1, <1>2, <2>2 DEF Told
<1>9. key' \in Keys /\ request' = Request(body')
  BY <1>1, <1>2 DEF Told, Read, Keys, Early, Working
<1>10. /\ retries' <= Len(answers') /\ (retries' > 0 => Emulated')
       /\ \A j \in 1 .. retries' : Faulty(answers'[j])
  BY <1>1 DEF Told, Emulated
<1> QED
  BY <1>7, <1>8, <1>9, <1>10 DEF Told, Keys

\* The next attempt tells of the answer that was just added.
LEMMA ToldRetry ==
  ASSUME IInv, Told, pc = "answer", Emulated, NEW payload, NEW fault, NEW output,
         Ended(payload, fault), Retry(fault, output),
         UNCHANGED <<inputs, request, key, sent, outcomes>>,
         \/ fault = Late /\ output = << >>
         \/ fault \in Faults /\ output = payload.sealed.text /\ output \in Answers
  PROVE  Told'
<1> USE DEF inputs, attempt
<1>1. /\ pc \in Working /\ retries \in Nat /\ Len(answers) = retries /\ IsSequence(answers)
      /\ DOMAIN sent = 1 .. Len(sent) /\ Len(sent) = retries + 1
  BY AtWork DEF Working
<1> DEFINE last == [payload |-> payload, fault |-> fault]
<1>2. /\ Len(answers') = retries + 1 /\ answers'[retries + 1] = last
      /\ \A j \in 1 .. retries : answers'[j] = answers[j]
  BY <1>1, AppendAny DEF Ended
<1>3. CASE retries >= MaxRetries
  <2>1. UNCHANGED attempt /\ pc' = "done"
    BY <1>3 DEF Retry, Fail
  <2>2. Len(answers') \in Nat /\ Len(answers) <= Len(answers')
    BY <1>1, <1>2
  <2> QED
    BY <1>1, <1>2, <2>1, <2>2, ToldStill
<1>4. CASE ~(retries >= MaxRetries)
  <2>1. /\ retries' = retries + 1 /\ pc' = "send"
        /\ correction' = <<[error |-> fault, output |-> output]>>
    BY <1>4 DEF Retry, AskAgain
  <2>2. last.fault = fault /\ last.payload = payload
    OBVIOUS
  <2> HIDE DEF last
  <2>3. Faulty(last) /\ output = (IF last.fault = Late THEN << >> ELSE last.payload.sealed.text)
    BY <2>2, AnswersAssumption DEF Faulty
  <2>4. CorrectionOf(retries + 1)' = <<[error |-> fault, output |-> output]>>
    <3>1. retries' + 1 # 1 /\ (retries' + 1) - 1 = retries + 1
      BY <1>1, <2>1
    <3>2. answers'[(retries' + 1) - 1] = last
      BY <1>2, <3>1
    <3> QED
      BY <2>2, <2>3, <3>1, <3>2 DEF CorrectionOf
  <2>5. ASSUME NEW k \in DOMAIN sent' PROVE sent'[k] = SentOf(k)'
    <3>1. k \in Nat \ {0} /\ k \in DOMAIN sent /\ \A j \in 1 .. k - 1 : j \in 1 .. retries
      BY <1>1
    <3>2. SentOf(k)' = SentOf(k)
      BY <1>2, <3>1, ToldAgain
    <3> QED
      BY <3>1, <3>2 DEF Told
  <2>6. ASSUME NEW j \in 1 .. retries' PROVE Faulty(answers'[j])
    <3>1. j = retries + 1 \/ j \in 1 .. retries
      BY <1>1, <2>1
    <3> QED
      BY <1>2, <2>3, <3>1 DEF Told
  <2>7. /\ retries' <= Len(answers') /\ Emulated'
    BY <1>1, <1>2, <2>1 DEF Emulated
  <2>8. key' \in Keys /\ request' = Request(body')
    <3>1. sent # << >>
      BY <1>1, NoneYet
    <3> QED
      BY <3>1 DEF Told, Keys
  <2> QED
    BY <2>1, <2>4, <2>5, <2>6, <2>7, <2>8 DEF Told, Keys
<1> QED
  BY <1>3, <1>4

LEMMA PayloadText ==
  ASSUME NEW text, NEW p \in Payloads(text), DecryptContent(p, ProxyPair).ok
  PROVE  p.sealed.text = text /\ DecryptContent(p, ProxyPair).text = p.sealed.text
<1>1. p.sealed.text = text
  BY DEF Payloads, Encrypted, Seal
<1> QED
  BY <1>1, OpenedParts

LEMMA StaysTold ==
  ASSUME IInv, Read, Told, [Next]_vars
  PROVE  Told'
<1> USE DEF inputs, attempt, history
<1>0. /\ IsSequence(answers) /\ Len(answers) \in Nat
  BY LenProperties DEF IInv, Histories, IsSequence
<1>1. CASE UNCHANGED vars
  BY <1>0, <1>1, ToldStill DEF vars
<1>2. CASE RefuseBody \/ LackKey \/ NoSession \/ AttestationFails \/ RefuseTools
  <2>1. pc \in Early /\ UNCHANGED <<attempt, history>> /\ pc' = "done"
    BY <1>2 DEF RefuseBody, LackKey, NoSession, AttestationFails, RefuseTools, Fail, Early
  <2> QED
    BY <2>1, ToldEarly DEF Working
<1>3. CASE Accept
  BY <1>3, ToldEarly DEF Accept, Early, Working
<1>4. CASE FindSession
  <2>1. /\ pc \in Early /\ UNCHANGED <<attempt, history>>
        /\ pc' = "attest" \/ (pc' = "prepare" /\ key' \in Keys)
    BY <1>4 DEF FindSession, Early, Keys
  <2> QED
    BY <2>1, ToldEarly DEF Working
<1>5. CASE Attest
  <2>1. enclave \in Enclaves
    BY DEF IInv, TypeOK
  <2>2. pc \in Early /\ UNCHANGED <<attempt, history>> /\ key' \in Keys
    BY <1>5, <2>1 DEF Attest, Early, Keys
  <2> QED
    BY <2>2, ToldEarly
<1>6. CASE Prepare
  <2>1. pc = "prepare" /\ UNCHANGED <<attempt, history, key>>
    BY <1>6 DEF Prepare
  <2>2. key' \in Keys
    BY <2>1 DEF Told, Keys
  <2> QED
    BY <2>1, <2>2, ToldEarly DEF Early
<1>7. CASE Send
  BY <1>7, ToldSend
<1>8. CASE Rotate \/ Taken \/ NotTaken
  <2>1. UNCHANGED <<body, config, request, key, attempt, sent, answers>>
    BY <1>8 DEF Rotate, Taken, NotTaken
  <2>2. pc' \in {"done", pc} \/ (pc \in Working /\ pc' \in Working)
    BY <1>8 DEF Rotate, Taken, NotTaken, Fail, Working
  <2> QED
    BY <1>0, <2>1, <2>2, ToldStill
<1>9. CASE BreakOff \/ Undecryptable \/ Complete
  <2>1. UNCHANGED <<body, config, request, key, attempt, sent>> /\ pc' = "done"
    BY <1>9 DEF BreakOff, Undecryptable, Complete, Fail, Succeed
  <2>2. \E answer : answers' = Append(answers, answer)
    BY <1>9 DEF BreakOff, Undecryptable, Complete, Ended
  <2>3. \A j \in 1 .. Len(answers) : answers'[j] = answers[j]
    BY <1>0, <2>2, AppendAny
  <2>4. Len(answers') \in Nat /\ Len(answers) <= Len(answers')
    BY <1>0, <2>2, AppendAny
  <2> QED
    BY <2>1, <2>3, <2>4, ToldStill
<1>10. CASE InvalidCall
  <2>1. pc = "answer" /\ Emulated /\ UNCHANGED <<inputs, request, key, sent, outcomes>>
    BY <1>10 DEF InvalidCall
  <2>2. PICK text \in Answers, fault \in Faults : \E payload \in Payloads(text) :
          /\ DecryptContent(payload, ProxyPair).ok
          /\ Ended(payload, fault)
          /\ Retry(fault, DecryptContent(payload, ProxyPair).text)
    BY <1>10 DEF InvalidCall
  <2>3. PICK payload \in Payloads(text) :
          /\ DecryptContent(payload, ProxyPair).ok
          /\ Ended(payload, fault)
          /\ Retry(fault, DecryptContent(payload, ProxyPair).text)
    BY <2>2
  <2> DEFINE output == DecryptContent(payload, ProxyPair).text
  <2>4. output = payload.sealed.text /\ output \in Answers
    BY <2>3, PayloadText
  <2>5. Retry(fault, output)
    BY <2>3
  <2> HIDE DEF output
  <2> QED
    BY <2>1, <2>3, <2>4, <2>5, ToldRetry
<1>11. CASE TooLate
  <2>1. /\ pc = "answer" /\ Emulated /\ UNCHANGED <<inputs, request, key, sent, outcomes>>
        /\ Ended(Absent, Late) /\ Retry(Late, << >>)
    BY <1>11 DEF TooLate
  <2> QED
    BY <2>1, ToldRetry
<1> QED
  BY <1>1, <1>2, <1>3, <1>4, <1>5, <1>6, <1>7, <1>8, <1>9, <1>10, <1>11 DEF Next

LEMMA StartsTold == Init => Told
BY NoneYet DEF Init, Told, Working

-----------------------------------------------------------------------------
(* What the enclave reads is what was to be sent. *)

\* A text sealed for a pair opens with it, and with no damage.
LEMMA EnclaveOpens ==
  ASSUME NEW text, IsText(text), NEW pair, PublicKeyOK(PublicKeyHex(pair)), NEW draw, draw # NoPoint
  PROVE  DecryptContent(EncryptContent(text, PublicKeyHex(pair), draw, draw).payload, pair).text = text
<1> DEFINE q == Encrypted(text, pair, draw, draw)
<1>1. EncryptContent(text, PublicKeyHex(pair), draw, draw).payload = q
  BY DEF EncryptContent, PublicKeyHex
<1>2. Size(text) \in Nat /\ text # NotText
  BY DEF IsText
<1>3. /\ q.chars = 2 * (93 + Size(text)) /\ q.digits /\ q.first = 4
      /\ q.point = draw /\ q.nonce = draw
      /\ q.sealed.text = text /\ q.sealed.nonce = draw
      /\ q.sealed.key = ContentKey(draw, pair, HkdfInfo)
  BY <1>2 DEF Encrypted, Seal, PackedPrefixLen, EphemeralPublicKeyLen, NonceLen, AesGcmTagLen
<1> HIDE DEF q
<1>4. WellFormed(q)
  <2>1. q.chars # 0 /\ q.chars % 2 = 0 /\ q.chars >= 186
    BY <1>2, <1>3
  <2> QED
    BY <1>3, <2>1 DEF WellFormed, MinPackedPayloadLen, PackedPrefixLen, EphemeralPublicKeyLen, NonceLen, AesGcmTagLen
<1>5. Unpacks(q)
  <2>1. q.chars \div 2 >= 93
    BY <1>2, <1>3
  <2> QED
    BY <1>3, <2>1 DEF Unpacks, MinPackedPayloadLen, PackedPrefixLen, EphemeralPublicKeyLen, NonceLen, AesGcmTagLen
<1>6. Opens(q, pair)
  BY <1>3 DEF Opens, ContentKey, SharedSecret
<1> QED
  BY <1>1, <1>2, <1>3, <1>4, <1>5, <1>6 DEF DecryptContent

\* What is known of an attempt that was sent.
LEMMA AttemptIs ==
  ASSUME IInv, Read, Told, NEW k \in DOMAIN sent
  PROVE  /\ body \in Bodies /\ RequestError(body) = Fine /\ request = Request(body)
         /\ key \in Keys /\ k \in Nat \ {0}
         /\ sent[k] = SentOf(k)
         /\ CorrectionOf(k) \in Corrections
         /\ k # 1 => Emulated /\ k - 1 \in 1 .. retries
<1>1. /\ DOMAIN sent = 1 .. Len(sent) /\ Len(sent) \in Nat /\ retries \in Nat
      /\ Len(sent) <= retries + 1
  BY LenProperties, RetriesAssumption DEF IInv, TypeOK, Histories, IsSequence
<1>2. sent # << >>
  BY NoneYet
<1>3. k \in Nat \ {0}
  BY <1>1
<1>4. k # 1 => k - 1 \in 1 .. retries
  BY <1>1
<1>5. k # 1 => Emulated
  BY <1>1, <1>4 DEF Told
<1>6. CorrectionOf(k) \in Corrections
  <2>1. CASE k = 1
    BY <2>1 DEF CorrectionOf, Corrections
  <2>2. CASE k # 1
    <3> DEFINE error == answers[k - 1].fault
               output == IF error = Late THEN << >> ELSE answers[k - 1].payload.sealed.text
    <3>1. Faulty(answers[k - 1])
      BY <1>4, <2>2 DEF Told
    <3>2. error \in Faults \cup {Late} /\ output \in Answers \cup {<< >>}
      BY <3>1 DEF Faulty
    <3>3. CorrectionOf(k) = <<[error |-> error, output |-> output]>>
      BY <2>2 DEF CorrectionOf
    <3> HIDE DEF error, output
    <3>4. [error |-> error, output |-> output] \in Failures
      BY <3>2 DEF Failures
    <3> QED
      BY <3>3, <3>4 DEF Corrections
  <2> QED
    BY <2>1, <2>2
<1> QED
  BY <1>2, <1>3, <1>4, <1>5, <1>6 DEF Read, Told, Keys

\* The messages of an accepted body, as they are sent.
LEMMA RequestMessages ==
  ASSUME NEW b \in Bodies, RequestError(b) = Fine
  PROVE  /\ Conversation(Request(b).messages)
         /\ Len(Request(b).messages) = Len(b.messages)
         /\ \A n \in DOMAIN b.messages :
              /\ Request(b).messages[n] = NormalizeMessage(b.messages[n])
              /\ ~IsEmptyText(b.messages[n]) => Conveys(Request(b).messages[n], b.messages[n])
<1> DEFINE v == b.messages
           ms == Request(b).messages
<1>1. IsSequence(v) /\ \A n \in DOMAIN v : IsMessage(v[n]) /\ MessageError(v[n]) = Fine
  BY AcceptedMessages
<1>2. ms = [n \in DOMAIN v |-> NormalizeMessage(v[n])]
  BY DEF Request, NormalizeMessages
<1> HIDE DEF ms, v
<1>3. DOMAIN ms = DOMAIN v /\ \A n \in DOMAIN v : ms[n] = NormalizeMessage(v[n])
  BY <1>2
<1>4. Len(v) \in Nat /\ DOMAIN v = 1 .. Len(v)
  BY <1>1, LenProperties DEF IsSequence
<1>5. ms \in Seq(Range(ms))
  <2>1. ms \in [1 .. Len(v) -> Range(ms)]
    BY <1>2, <1>3, <1>4 DEF Range
  <2>2. Seq(Range(ms)) = UNION {[1 .. n -> Range(ms)] : n \in Nat}
    BY SeqDef
  <2> QED
    BY <1>4, <2>1, <2>2
<1>6. Len(ms) = Len(v)
  BY <1>3, <1>4, <1>5, LenProperties
<1>7. ASSUME NEW n \in DOMAIN v
      PROVE  Said(ms[n]) /\ (~IsEmptyText(v[n]) => Conveys(ms[n], v[n]))
  BY <1>1, <1>3, MessageConveyed
<1> QED
  BY <1>3, <1>5, <1>6, <1>7 DEF Conversation, IsSequence, ms, v

LEMMA PlainIs ==
  ASSUME IInv, Read, Told, NEW k \in DOMAIN sent
  PROVE  /\ Plainly(PlainOf(k))
         /\ \A n \in DOMAIN PlainOf(k) : IsText(PlainOf(k)[n].content)
<1>1. /\ body \in Bodies /\ RequestError(body) = Fine /\ request = Request(body)
      /\ CorrectionOf(k) \in Corrections
  BY AttemptIs
<1>2. Conversation(request.messages)
  BY <1>1, RequestMessages
<1>3. CASE Emulated
  <2>1. PlainOf(k) = EmulatedMessages(request, CorrectionOf(k))
    BY <1>3 DEF PlainOf
  <2>2. \A m \in Range(EmulatedMessages(request, CorrectionOf(k))) : IsText(m.content)
    BY <1>1, PlaintextAssumption
  <2>3. Plainly(EmulatedMessages(request, CorrectionOf(k)))
    BY <1>2, AppendedPlain DEF EmulatedMessages
  <2> QED
    BY <2>1, <2>2, <2>3 DEF Range
<1>4. CASE ~Emulated
  <2>1. PlainOf(k) = request.messages
    BY <1>4 DEF PlainOf
  <2>2. \A m \in Range(request.messages) : IsText(m.content)
    BY <1>1, PlaintextAssumption
  <2> QED
    BY <1>2, <2>1, <2>2, ConversationPlain DEF Range
<1> QED
  BY <1>3, <1>4

(* What the holder of the model's key reads is what was to be sent (encrypt_content). *)
LEMMA OpenedIs ==
  ASSUME IInv, Read, Told, NEW k \in DOMAIN sent
  PROVE  Opened(k) = PlainOf(k)
<1> DEFINE ms == PlainOf(k)
<1>1. key \in Keys /\ k \in Nat \ {0} /\ sent[k] = SentOf(k)
  BY AttemptIs
<1>2. PICK pair \in Enclaves : key = PublicKeyHex(pair)
  BY <1>1 DEF Keys
<1>3. PublicKeyOK(key) /\ sent[k].model.point = pair /\ sent[k].messages = Sealed(ms, k)
  BY <1>1, <1>2, KeysAssumption DEF PublicKeyOK, PublicKeyHex, EphemeralPublicKeyLen, SentOf
<1>4. Plainly(ms) /\ \A n \in DOMAIN ms : IsText(ms[n].content)
  BY PlainIs
<1> HIDE DEF ms
<1> DEFINE sealed(n) == EncryptContent(ms[n].content, key, Drawn(k, n), Drawn(k, n)).payload
<1>5. /\ DOMAIN sent[k].messages = DOMAIN ms
      /\ \A n \in DOMAIN ms : /\ sent[k].messages[n].role = ms[n].role
                              /\ sent[k].messages[n].content = sealed(n)
  BY <1>3 DEF Sealed
<1>6. ASSUME NEW n \in DOMAIN ms
      PROVE  DecryptContent(sent[k].messages[n].content, sent[k].model.point).text = ms[n].content
  <2>1. Drawn(k, n) # NoPoint
    BY <1>1, <1>4, KeysAssumption DEF Drawn, Plainly
  <2> QED
    BY <1>2, <1>3, <1>4, <1>5, <2>1, EnclaveOpens
<1>7. Opened(k) = [n \in DOMAIN ms |-> [role |-> ms[n].role, content |-> ms[n].content]]
  BY <1>5, <1>6 DEF Opened
<1>8. ms = [n \in DOMAIN ms |-> [role |-> ms[n].role, content |-> ms[n].content]]
  BY <1>4 DEF Plainly, IsMap
<1> QED
  BY <1>7, <1>8 DEF ms

-----------------------------------------------------------------------------
(* The conversation in every attempt. *)

\* The messages of an attempt with tools: the controller, and the correction if there is one.
LEMMA EmulatedIs ==
  ASSUME NEW r
  PROVE  /\ EmulatedMessages(r, << >>) = AppendToSystemMessage(r.messages, <<Controller(r)>>)
         /\ \A failure : EmulatedMessages(r, <<failure>>) =
              AppendToSystemMessage(r.messages, <<Controller(r)>> \o <<Correction(r, failure)>>)
<1>1. [n \in DOMAIN << >> |-> Correction(r, << >>[n])] = << >>
  OBVIOUS
<1>2. <<Controller(r)>> \o << >> = <<Controller(r)>>
  OBVIOUS
<1>3. EmulatedMessages(r, << >>) = AppendToSystemMessage(r.messages, <<Controller(r)>>)
  BY <1>1, <1>2 DEF EmulatedMessages
<1>4. ASSUME NEW failure
      PROVE  EmulatedMessages(r, <<failure>>) =
               AppendToSystemMessage(r.messages, <<Controller(r)>> \o <<Correction(r, failure)>>)
  <2>1. [n \in DOMAIN <<failure>> |-> Correction(r, <<failure>>[n])] = <<Correction(r, failure)>>
    OBVIOUS
  <2> QED
    BY <2>1 DEF EmulatedMessages
<1> QED
  BY <1>3, <1>4

(* What is repeated of an answer is a beginning of it, no longer than the limit
   (truncate_at_char_boundary). *)
LEMMA TruncatedIs ==
  ASSUME NEW text \in Seq(Words)
  PROVE  /\ Len(Truncated(text)) <= CorrectionLimit + 1
         /\ Truncated(text) = text \/ IsPrefix(Front(Truncated(text)), text)
         /\ text = << >> => Truncated(text) = << >>
<1>1. Len(text) \in Nat /\ CorrectionLimit \in Nat /\ (text = << >> => Len(text) = 0)
  BY RetriesAssumption
<1>2. CASE Len(text) <= CorrectionLimit
  BY <1>1, <1>2 DEF Truncated
<1>3. CASE ~(Len(text) <= CorrectionLimit)
  <2> DEFINE l == CorrectionLimit
             cut == SubSeq(text, 1, l)
             all == Append(cut, Cut)
             S == Words \cup {Cut}
  <2>1. Truncated(text) = all
    BY <1>3 DEF Truncated
  <2>2. l \in Nat /\ l < Len(text)
    BY <1>1, <1>3
  <2> HIDE DEF l
  <2>3. cut \in Seq(Words) /\ Len(cut) = l
    BY <1>1, <2>2
  <2>4. cut \in Seq(S) /\ Cut \in S
    BY <2>3, SeqMonotonic
  <2>5. SubSeq(cut, 1, Len(cut)) = cut
    BY <2>3
  <2> HIDE DEF S
  <2>6. Len(all) = l + 1 /\ Front(all) = cut
    <3> HIDE DEF cut
    <3>1. all \in Seq(S) /\ Len(all) = l + 1
      BY <2>2, <2>3, <2>4
    <3>2. SubSeq(all, 1, l) = cut
      BY <2>2, <2>3, <2>4, <3>1
    <3>3. (l + 1) - 1 = l
      BY <2>2
    <3> QED
      BY <3>1, <3>2, <3>3 DEF Front
  <2>7. IsPrefix(cut, text)
    BY <2>2, <2>3, <2>5 DEF IsPrefix
  <2>8. text # << >>
    BY <1>1, <2>2
  <2> HIDE DEF cut, all
  <2> QED
    BY <2>1, <2>2, <2>6, <2>7, <2>8 DEF l
<1> QED
  BY <1>2, <1>3

\* RetryAddsOnlyCorrection, for the pieces of the two attempts.
LEMMA CorrectionOnly ==
  ASSUME IInv, Read, Told, NEW k \in DOMAIN sent \ {1}
  PROVE  /\ 1 \in DOMAIN sent
         /\ \E n : OneMore(Opened(1), Opened(k), n, Correction(request, CorrectionOf(k)[1]))
<1>1. DOMAIN sent = 1 .. Len(sent) /\ Len(sent) \in Nat
  BY LenProperties DEF IInv, Histories, IsSequence
<1>2. 1 \in DOMAIN sent /\ k # 1
  BY <1>1
<1>3. /\ body \in Bodies /\ RequestError(body) = Fine /\ request = Request(body) /\ Emulated
  BY <1>2, AttemptIs
<1>4. Conversation(request.messages)
  BY <1>3, RequestMessages
<1>5. CorrectionOf(1) = << >> /\ CorrectionOf(k) = <<CorrectionOf(k)[1]>>
  BY <1>2 DEF CorrectionOf
<1>6. /\ Opened(1) = EmulatedMessages(request, << >>)
      /\ Opened(k) = EmulatedMessages(request, <<CorrectionOf(k)[1]>>)
  BY <1>2, <1>3, <1>5, OpenedIs DEF PlainOf
<1>7. /\ Opened(1) = AppendToSystemMessage(request.messages, <<Controller(request)>>)
      /\ Opened(k) = AppendToSystemMessage(request.messages,
                       <<Controller(request)>> \o <<Correction(request, CorrectionOf(k)[1])>>)
  BY <1>6, EmulatedIs
<1> QED
  BY <1>2, <1>4, <1>7, OnePieceMore

LEMMA CorrectionParts ==
  ASSUME IInv, Read, Told, NEW k \in DOMAIN sent \ {1}
  PROVE  LET said == Correction(request, CorrectionOf(k)[1])
         IN  /\ said.prompt = "correction" /\ said.error = answers[k - 1].fault
             /\ Len(said.output) <= CorrectionLimit + 1
             /\ IF answers[k - 1].fault = Late THEN said.output = << >>
                ELSE \/ said.output = answers[k - 1].payload.sealed.text
                     \/ IsPrefix(Front(said.output), answers[k - 1].payload.sealed.text)
<1> DEFINE fault == answers[k - 1].fault
           text == answers[k - 1].payload.sealed.text
           output == IF fault = Late THEN << >> ELSE text
           said == Correction(request, CorrectionOf(k)[1])
<1>1. Faulty(answers[k - 1])
  <2>1. k - 1 \in 1 .. retries
    BY AttemptIs
  <2> QED
    BY <2>1 DEF Told
<1>2. output \in Seq(Words)
  <2>1. << >> \in Seq(Words)
    OBVIOUS
  <2> QED
    BY <1>1, <2>1, AnswersAssumption DEF Faulty
<1>3. CorrectionOf(k)[1] = [error |-> fault, output |-> output]
  BY DEF CorrectionOf
<1> HIDE DEF output
<1>4. said.prompt = "correction" /\ said.error = fault /\ said.output = Truncated(output)
  BY <1>3 DEF Correction
<1> HIDE DEF said
<1>5. /\ Len(Truncated(output)) <= CorrectionLimit + 1
      /\ Truncated(output) = output \/ IsPrefix(Front(Truncated(output)), output)
      /\ output = << >> => Truncated(output) = << >>
  BY <1>2, TruncatedIs
<1>6. IF fault = Late THEN output = << >> ELSE output = text
  BY DEF output
<1> QED
  BY <1>4, <1>5, <1>6 DEF said

Always == IInv /\ Read /\ Told

LEMMA AlwaysTold == Spec => []Always
<1>1. Init => Always
  BY StartsWell, StartsRead, StartsTold DEF Always
<1>2. Always /\ [Next]_vars => Always'
  BY StaysWell, StaysRead, StaysTold DEF Always
<1> QED
  BY <1>1, <1>2, PTL DEF Spec

(* Every attempt after the first is the first one and one correction more, which tells of
   the answer just before it and repeats no more of it than the limit: however many retries
   there are, whatever the messages, and whatever the model wrote
   (tool_emulated_messages, correction_message). *)
THEOREM RetryTheorem == Spec => []RetryAddsOnlyCorrection
<1>1. Always => RetryAddsOnlyCorrection
  <2> SUFFICES ASSUME IInv, Read, Told, NEW k \in DOMAIN sent \ {1}
               PROVE  /\ sent[k].settings = sent[1].settings
                      /\ sent[k].model = sent[1].model /\ sent[k].client = sent[1].client
                      /\ DOMAIN Opened(k) = DOMAIN Opened(1)
                      /\ \E n \in DOMAIN Opened(1) :
                           LET said == Opened(k)[n].content[Len(Opened(k)[n].content)]
                           IN  /\ Opened(k) = More(Opened(1), n, said)
                               /\ IsSystem(Opened(1)[n]) /\ said.prompt = "correction"
                               /\ said.error = answers[k - 1].fault
                               /\ Len(said.output) <= CorrectionLimit + 1
                               /\ IF answers[k - 1].fault = Late THEN said.output = << >>
                                  ELSE \/ said.output = answers[k - 1].payload.sealed.text
                                       \/ IsPrefix(Front(said.output), answers[k - 1].payload.sealed.text)
    BY DEF Always, RetryAddsOnlyCorrection, More
  <2>1. 1 \in DOMAIN sent
    BY CorrectionOnly
  <2>2. /\ sent[k].settings = sent[1].settings
        /\ sent[k].model = sent[1].model /\ sent[k].client = sent[1].client
    BY <2>1 DEF Told, SentOf
  <2>3. PICK n : OneMore(Opened(1), Opened(k), n, Correction(request, CorrectionOf(k)[1]))
    BY CorrectionOnly
  <2>4. LET said == Correction(request, CorrectionOf(k)[1])
        IN  /\ said.prompt = "correction" /\ said.error = answers[k - 1].fault
            /\ Len(said.output) <= CorrectionLimit + 1
            /\ IF answers[k - 1].fault = Late THEN said.output = << >>
               ELSE \/ said.output = answers[k - 1].payload.sealed.text
                    \/ IsPrefix(Front(said.output), answers[k - 1].payload.sealed.text)
    BY CorrectionParts
  <2> QED
    BY <2>2, <2>3, <2>4 DEF OneMore
<1> QED
  BY <1>1, AlwaysTold, PTL

\* What the client said, without what the proxy says.
LEMMA ToldIsRequest ==
  ASSUME IInv, Read, Told, NEW k \in DOMAIN sent
  PROVE  OfClient(Opened(k)) = request.messages
<1>1. /\ body \in Bodies /\ RequestError(body) = Fine /\ request = Request(body)
      /\ CorrectionOf(k) \in Corrections
  BY AttemptIs
<1>2. Conversation(request.messages) /\ Len(body.messages) = Len(request.messages)
  BY <1>1, RequestMessages
<1>3. Opened(k) = PlainOf(k)
  BY OpenedIs
<1>4. CASE ~Emulated
  BY <1>2, <1>3, <1>4, OfClientAlone DEF PlainOf
<1>5. CASE Emulated
  <2> DEFINE first == Controller(request)
             prompts == {first} \cup {Correction(request, failure) : failure \in Failures}
  <2>1. \A p \in prompts : IsPrompt(p)
    <3>1. "prompt" \in DOMAIN first
      BY DEF Controller
    <3>2. \A failure \in Failures : "prompt" \in DOMAIN Correction(request, failure)
      BY DEF Correction
    <3>3. Words \cap prompts = {}
      BY <1>1, PlaintextAssumption
    <3> QED
      BY <3>1, <3>2, <3>3 DEF IsPrompt
  <2> HIDE DEF prompts
  <2>2. PICK c \in Seq(prompts) : Opened(k) = AppendToSystemMessage(request.messages, c)
    <3>1. CASE CorrectionOf(k) = << >>
      <4>1. <<first>> \in Seq(prompts)
        BY DEF prompts
      <4>2. Opened(k) = AppendToSystemMessage(request.messages, <<first>>)
        BY <1>3, <1>5, <3>1, EmulatedIs DEF PlainOf
      <4> QED
        BY <4>1, <4>2
    <3>2. CASE CorrectionOf(k) # << >>
      <4>1. PICK failure \in Failures : CorrectionOf(k) = <<failure>>
        BY <1>1, <3>2 DEF Corrections
      <4> DEFINE second == Correction(request, failure)
      <4>2. first \in prompts /\ second \in prompts
        BY DEF prompts
      <4>3. Opened(k) = AppendToSystemMessage(request.messages, <<first>> \o <<second>>)
        BY <1>3, <1>5, <4>1, EmulatedIs DEF PlainOf
      <4> HIDE DEF first, second
      <4>4. <<first>> \o <<second>> \in Seq(prompts)
        BY <4>2
      <4> QED
        BY <4>3, <4>4
    <3> QED
      BY <3>1, <3>2
  <2>3. IsSequence(c) /\ \A i \in DOMAIN c : IsPrompt(c[i])
    BY <2>1, OfItsRange, LenProperties
  <2> QED
    BY <1>2, <2>2, <2>3, OfClientAppended
<1> QED
  BY <1>4, <1>5

(* The model reads the conversation the client sent, in every attempt: for messages of any
   number, contents of any length and in any form, any calls and results, and whatever
   identifiers they have (normalize_messages, to_venice_e2ee_request,
   tool_emulated_messages). *)
THEOREM ConversationTheorem == Spec => []ConversationArrives
<1>1. Always => ConversationArrives
  <2> SUFFICES ASSUME IInv, Read, Told, NEW k \in DOMAIN sent, NEW n \in DOMAIN body.messages,
                      ~IsEmptyText(body.messages[n])
               PROVE  ToldAs(k, n)
    BY DEF Always, ConversationArrives
  <2>1. body \in Bodies /\ RequestError(body) = Fine /\ request = Request(body)
    BY AttemptIs
  <2>2. OfClient(Opened(k)) = request.messages
    BY ToldIsRequest
  <2>3. Len(request.messages) = Len(body.messages) /\ Conveys(request.messages[n], body.messages[n])
    BY <2>1, RequestMessages
  <2> QED
    BY <2>2, <2>3 DEF ToldAs
<1> QED
  BY <1>1, AlwaysTold, PTL

=============================================================================
