--------------------------- MODULE Venice_proofs ---------------------------
(***************************************************************************)
(* Proofs about what comes from Venice: the evidence of an enclave          *)
(* (Attestation), for any number of concurrent calls, any keys and any      *)
(* evidence; the events of a stream (SseParser), for every upstream, every  *)
(* payload and every way the network cuts the bytes; and the plain answers  *)
(* made of them (ChatStream), for upstreams of any length.                  *)
(*                                                                         *)
(* Events.  The reference reads byte by byte, by a fold.  What it makes of  *)
(* a text is told from what it makes of a beginning and, with the text left *)
(* over, of the rest (ReadInParts).  The loop of the parser reads as the    *)
(* reference does (SplitReads), so after each chunk it has what the         *)
(* reference has of all bytes up to there (ReadSoFar).                      *)
(*                                                                         *)
(* Answers.  The two paths of ChatStream agree, and the streamed one keeps  *)
(* the promise of ClientStream.                                             *)
(***************************************************************************)
EXTENDS Attestation, SseParser, ChatStream, SequenceLemmas
-----------------------------------------------------------------------------
(***************************************************************************)
(* The evidence.                                                            *)
(***************************************************************************)
(***************************************************************************)
(* Lemmas about the decision.  Evidence that is not refused passes each of  *)
(* its parts.                                                               *)
(***************************************************************************)
LEMMA NotRefused ==
  ASSUME NEW p, NEW m, NEW n, NEW e
  PROVE  Refusal(p, m, n, e) = "none" <=>
           /\ EnvelopeRefusal(m, n, e) = "none"
           /\ KeyRefusal(e) = "none"
           /\ ~DebugRefused(p, e.debug)
           /\ TdxRefusal(p, e) = "none"
           /\ NvidiaRefusal(p, e) = "none"
BY DEF Refusal

LEMMA Envelope ==
  ASSUME NEW m, NEW n, NEW e, EnvelopeRefusal(m, n, e) = "none"
  PROVE  e.nonce = n /\ e.model = m
BY DEF EnvelopeRefusal

LEMMA KeyAccepted ==
  ASSUME NEW e \in Evidence, KeyRefusal(e) = "none"
  PROVE  /\ e.signing_key \in Encodings \X Keys
         /\ e.signing_address \in (Spellings \X Addresses) \cup {Absent}
         /\ e.signing_address # Absent =>
              NormalizeAddress(e.signing_address) = DerivedAddress(NormalizeKey(e.signing_key))
BY DEF KeyRefusal, Evidence

LEMMA ReportAccepted ==
  ASSUME NEW p, NEW e, TdxRefusal(p, e) = "none", e.quote # Absent, e.report_data # Absent
  PROVE  Binds(e.report_data, NormalizeKey(e.signing_key), Normalized(e.signing_address))
BY DEF TdxRefusal

LEMMA RefusalType ==
  ASSUME NEW p, NEW m, NEW n, NEW e
  PROVE  Refusal(p, m, n, e) \in Errors
<1>1. EnvelopeRefusal(m, n, e) \in Errors
  BY DEF EnvelopeRefusal, Errors
<1>2. KeyRefusal(e) \in Errors
  BY DEF KeyRefusal, Errors
<1>3. TdxRefusal(p, e) \in Errors
  BY DEF TdxRefusal, Errors
<1>4. NvidiaRefusal(p, e) \in Errors
  BY DEF NvidiaRefusal, Errors
<1>5. "DebugModeDetected" \in Errors
  BY DEF Errors
<1> QED
  BY <1>1, <1>2, <1>3, <1>4, <1>5 DEF Refusal

(***************************************************************************)
(* The result of a verification.                                            *)
(***************************************************************************)
LEMMA VerifiedType ==
  ASSUME NEW p \in Policy, NEW m \in Models, NEW n, NEW e \in Evidence,
         Refusal(p, m, n, e) = "none"
  PROVE  Verified(m, e) \in VerifiedAttestation
<1>1. NormalizeKey(e.signing_key) \in {"uncompressed"} \X Keys
  BY NotRefused, KeyAccepted DEF NormalizeKey
<1>2. Normalized(e.signing_address) \in ({"lower"} \X Addresses) \cup {Absent}
  BY NotRefused, KeyAccepted DEF Normalized, NormalizeAddress
<1>3. e.debug \in BOOLEAN \cup {Absent}
  BY DEF Evidence
<1>4. TdxDebug(e) \in BOOLEAN \cup {Absent}
  <2>1. CASE e.quote = Absent
    BY <2>1 DEF TdxDebug
  <2>2. CASE e.quote # Absent
    <3>1. e.quote # Unusable
      BY <2>2, NotRefused DEF TdxRefusal
    <3>2. e.quote \in TdxQuote
      BY <2>2, <3>1 DEF Evidence
    <3> QED
      BY <2>2, <3>2 DEF TdxDebug, TdxQuote
  <2> QED
    BY <2>1, <2>2
<1>5. NvidiaStatus(e) \in {"not_present", "ignored_by_policy"}
  BY DEF NvidiaStatus
<1> QED
  BY <1>1, <1>2, <1>3, <1>4, <1>5 DEF Verified, VerifiedAttestation

(***************************************************************************)
(* The decision is monotone in the policy, and a verifier is the last thing *)
(* to be missed.                                                            *)
(***************************************************************************)
LEMMA Monotone ==
  ASSUME NEW p \in Policy, NEW q \in Weaker(p), NEW m, NEW n, NEW e,
         Refusal(p, m, n, e) = "none"
  PROVE  Refusal(q, m, n, e) = "none"
<1>1. /\ q \in Policy
      /\ q.require_tdx => p.require_tdx
      /\ p.allow_debug => q.allow_debug
      /\ Strictness[q.require_nvidia] <= Strictness[p.require_nvidia]
  BY DEF Weaker
<1>2. /\ p.require_tdx \in BOOLEAN /\ q.require_tdx \in BOOLEAN
      /\ p.allow_debug \in BOOLEAN /\ q.allow_debug \in BOOLEAN
      /\ p.require_nvidia \in Requirements /\ q.require_nvidia \in Requirements
  BY <1>1 DEF Policy
<1>3. \A debug : ~DebugRefused(p, debug) => ~DebugRefused(q, debug)
  BY <1>1 DEF DebugRefused
<1>4. TdxRefusal(q, e) = "none"
  <2>1. TdxRefusal(p, e) = "none"
    BY NotRefused
  <2> QED
    BY <1>1, <1>2, <1>3, <2>1 DEF TdxRefusal
<1>5. NvidiaRefusal(q, e) = "none"
  <2>1. NvidiaRefusal(p, e) = "none"
    BY NotRefused
  <2>2. p.require_nvidia = "required" \/ p.require_nvidia = "never" \/ p.require_nvidia = "when_present"
    BY <1>2 DEF Requirements
  <2>3. /\ p.require_nvidia # "required" => q.require_nvidia # "required"
        /\ p.require_nvidia = "never" => q.require_nvidia = "never"
    BY <1>1, <1>2 DEF Strictness, Requirements
  <2> QED
    BY <2>1, <2>2, <2>3 DEF NvidiaRefusal
<1> QED
  BY <1>3, <1>4, <1>5, NotRefused

LEMMA RequiredMeansRefused ==
  ASSUME NEW p \in Policy, NEW m, NEW n, NEW e,
         p.require_tdx \/ p.require_nvidia = "required"
  PROVE  Refusal(p, m, n, e) # "none"
<1>1. CASE p.require_tdx
  <2>1. TdxRefusal(p, e) # "none"
    BY <1>1 DEF TdxRefusal
  <2> QED
    BY <2>1, NotRefused
<1>2. CASE p.require_nvidia = "required"
  <2>1. NvidiaRefusal(p, e) # "none"
    BY <1>2 DEF NvidiaRefusal
  <2> QED
    BY <2>1, NotRefused
<1> QED
  BY <1>1, <1>2

Without(p) == [p EXCEPT !.require_tdx = FALSE, !.require_nvidia = "never"]

LEMMA OnlyTheVerifier ==
  ASSUME NEW p \in Policy, NEW m, NEW n, NEW e,
         Refusal(p, m, n, e) = "VerifierUnavailable"
  PROVE  Refusal(Without(p), m, n, e) = "none"
<1>1. /\ Without(p).require_tdx = FALSE
      /\ Without(p).require_nvidia = "never"
      /\ Without(p).allow_debug = p.allow_debug
  BY DEF Without, Policy
<1>2. EnvelopeRefusal(m, n, e) = "none"
  BY DEF Refusal, EnvelopeRefusal
<1>3. KeyRefusal(e) = "none"
  BY <1>2 DEF Refusal, KeyRefusal
<1>4. /\ ~DebugRefused(p, e.debug)
      /\ TdxRefusal(p, e) \in {"none", "VerifierUnavailable"}
  BY <1>2, <1>3 DEF Refusal
<1>5. \A debug : DebugRefused(Without(p), debug) <=> DebugRefused(p, debug)
  BY <1>1 DEF DebugRefused
<1>6. TdxRefusal(Without(p), e) = "none"
  <2> HIDE DEF Without
  <2> QED
    BY <1>1, <1>4, <1>5 DEF TdxRefusal
<1>7. NvidiaRefusal(Without(p), e) = "none"
  BY <1>1 DEF NvidiaRefusal
<1> QED
  BY <1>2, <1>3, <1>4, <1>5, <1>6, <1>7, NotRefused

-----------------------------------------------------------------------------
(***************************************************************************)
(* The invariant.                                                           *)
(***************************************************************************)
LEMMA AttestInitInv == AttestInit => AttestInv
<1> SUFFICES ASSUME AttestInit PROVE AttestInv
  OBVIOUS
<1>1. AttestTypeOK
  BY DEF AttestInit, AttestTypeOK, Errors
<1>2. NoncesApart /\ Begun /\ Decided
  BY DEF AttestInit, NoncesApart, Begun, Decided
<1> QED
  BY <1>1, <1>2 DEF AttestInv

LEMMA AskedIsNonces ==
  ASSUME AttestTypeOK
  PROVE  Asked \subseteq Nonces
BY DEF AttestTypeOK, Asked

LEMMA BlankModelKeeps ==
  ASSUME AttestInv, NEW c \in Calls, RefuseBlankModel(c)
  PROVE  AttestInv'
<1>1. AttestTypeOK'
  BY DEF AttestInv, AttestTypeOK, RefuseBlankModel, Refuse, Errors
<1>2. NoncesApart' /\ Begun'
  BY DEF AttestInv, AttestTypeOK, NoncesApart, Begun, RefuseBlankModel, Refuse
<1>3. Decided'
  BY DEF AttestInv, AttestTypeOK, Decided, RefuseBlankModel, Refuse
<1> QED
  BY <1>1, <1>2, <1>3 DEF AttestInv

LEMMA BeginKeeps ==
  ASSUME AttestInv, NEW c \in Calls, Begin(c)
  PROVE  AttestInv'
<1>1. PICK m \in Models, n \in FreshNonces :
         /\ model' = [model EXCEPT ![c] = m]
         /\ nonce' = [nonce EXCEPT ![c] = n]
  BY DEF Begin
<1>2. /\ n \in Nonces
      /\ n \notin Asked
      /\ n # Absent
      /\ \A d \in Calls : nonce[d] # n
  BY <1>1, AbsentAssumption DEF FreshNonces, Asked
<1>3. AttestTypeOK'
  BY <1>1, <1>2, AskedIsNonces DEF AttestInv, AttestTypeOK, Begin
<1>4. NoncesApart'
  BY <1>1, <1>2 DEF AttestInv, AttestTypeOK, NoncesApart
<1>5. Begun'
  BY <1>1, <1>2 DEF AttestInv, AttestTypeOK, Begun, Begin
<1>6. Decided'
  BY <1>1 DEF AttestInv, AttestTypeOK, Begun, Decided, Begin
<1> QED
  BY <1>3, <1>4, <1>5, <1>6 DEF AttestInv

LEMMA FetchFailsKeeps ==
  ASSUME AttestInv, NEW c \in Calls, FetchFails(c)
  PROVE  AttestInv'
<1>1. PICK why \in {"Fetch", "MalformedResponse"} : Refuse(c, why)
  BY DEF FetchFails
<1>2. AttestTypeOK'
  BY <1>1 DEF AttestInv, AttestTypeOK, FetchFails, Refuse, Errors
<1>3. NoncesApart' /\ Begun'
  BY <1>1 DEF AttestInv, AttestTypeOK, NoncesApart, Begun, FetchFails, Refuse
<1>4. Decided'
  BY <1>1 DEF AttestInv, AttestTypeOK, Decided, FetchFails, Refuse
<1> QED
  BY <1>2, <1>3, <1>4 DEF AttestInv

LEMMA AnsweredKeeps ==
  ASSUME AttestInv, NEW c \in Calls, Answered(c)
  PROVE  AttestInv'
<1> DEFINE why(e) == Refusal(policy, model[c], nonce[c], e)
<1>1. PICK e \in Answers :
        /\ answer' = [answer EXCEPT ![c] = e]
        /\ \/ why(e) # "none" /\ Refuse(c, why(e))
           \/ /\ why(e) = "none"
              /\ pc' = [pc EXCEPT ![c] = "verified"]
              /\ result' = [result EXCEPT ![c] = Verified(model[c], e)]
              /\ UNCHANGED error
  BY DEF Answered
<1>2. e \in Evidence /\ why(e) \in Errors
  BY AnswerAssumption, RefusalType
<1>3. model[c] \in Models /\ nonce[c] \in Nonces /\ policy \in Policy /\ error[c] = "none"
  BY DEF AttestInv, AttestTypeOK, Begun, Decided, Answered
<1>4. why(e) = "none" => Verified(model[c], e) \in VerifiedAttestation
  BY <1>2, <1>3, VerifiedType
<1>5. UNCHANGED <<policy, model, nonce, earlier>> /\ pc[c] = "waiting"
  BY DEF Answered
<1>6. why(e)' = why(e)
  BY <1>5
<1>7. AttestTypeOK'
  <2>1. CASE why(e) # "none" /\ Refuse(c, why(e))
    <3> HIDE DEF why
    <3> QED
      BY <1>1, <1>2, <1>5, <2>1 DEF AttestInv, AttestTypeOK, Refuse
  <2>2. CASE /\ why(e) = "none"
             /\ pc' = [pc EXCEPT ![c] = "verified"]
             /\ result' = [result EXCEPT ![c] = Verified(model[c], e)]
             /\ UNCHANGED error
    <3> HIDE DEF why
    <3> QED
      BY <1>1, <1>2, <1>4, <1>5, <2>2 DEF AttestInv, AttestTypeOK
  <2> QED
    BY <1>1, <2>1, <2>2
<1>8. NoncesApart' /\ Begun'
  BY <1>1, <1>3, <1>5 DEF AttestInv, AttestTypeOK, NoncesApart, Begun, Refuse
<1>9. Decided'
  <2>1. ASSUME NEW d \in Calls, d # c
        PROVE  /\ pc'[d] = pc[d] /\ error'[d] = error[d] /\ result'[d] = result[d]
               /\ answer'[d] = answer[d]
    BY <1>1, <2>1 DEF AttestInv, AttestTypeOK, Refuse
  <2>2. CASE why(e) # "none" /\ Refuse(c, why(e))
    <3>1. pc'[c] = "refused" /\ error'[c] = why(e) /\ answer'[c] = e
      BY <1>1, <2>2 DEF AttestInv, AttestTypeOK, Refuse
    <3> QED
      BY <1>5, <2>1, <3>1 DEF AttestInv, Decided
  <2>3. CASE /\ why(e) = "none"
             /\ pc' = [pc EXCEPT ![c] = "verified"]
             /\ result' = [result EXCEPT ![c] = Verified(model[c], e)]
             /\ UNCHANGED error
    <3>1. /\ pc'[c] = "verified" /\ error'[c] = "none" /\ answer'[c] = e
          /\ result'[c] = Verified(model[c], e)
      BY <1>1, <1>3, <2>3 DEF AttestInv, AttestTypeOK
    <3> QED
      BY <1>2, <1>5, <2>1, <2>3, <3>1 DEF AttestInv, Decided
  <2> QED
    BY <1>1, <2>2, <2>3
<1> QED
  BY <1>7, <1>8, <1>9 DEF AttestInv

LEMMA StepKeeps == AttestInv /\ [AttestNext]_attestVars => AttestInv'
<1> SUFFICES ASSUME AttestInv, [AttestNext]_attestVars PROVE AttestInv'
  OBVIOUS
<1>1. ASSUME NEW c \in Calls, RefuseBlankModel(c) PROVE AttestInv'
  BY <1>1, BlankModelKeeps
<1>2. ASSUME NEW c \in Calls, Begin(c) PROVE AttestInv'
  BY <1>2, BeginKeeps
<1>3. ASSUME NEW c \in Calls, FetchFails(c) PROVE AttestInv'
  BY <1>3, FetchFailsKeeps
<1>4. ASSUME NEW c \in Calls, Answered(c) PROVE AttestInv'
  BY <1>4, AnsweredKeeps
<1>5. CASE UNCHANGED attestVars
  BY <1>5 DEF attestVars, AttestInv, AttestTypeOK, NoncesApart, Begun, Decided
<1> QED
  BY <1>1, <1>2, <1>3, <1>4, <1>5 DEF AttestNext, Ended

THEOREM Invariant == AttestSpec => []AttestInv
BY AttestInitInv, StepKeeps, PTL DEF AttestSpec

-----------------------------------------------------------------------------
\* AttestTypeOK always holds: whatever the upstream sends, results carry a normalized
\* key and address (verify_attestation_evidence).
THEOREM AttestationTypes == AttestSpec => []AttestTypeOK
<1>1. AttestInv => AttestTypeOK
  BY DEF AttestInv
<1> QED
  BY <1>1, Invariant, PTL

LEMMA TrustsItsOwn == AttestInv => EvidenceOfThisCall
<1> SUFFICES ASSUME AttestInv, NEW c \in Calls, pc[c] = "verified"
             PROVE  /\ answer[c].model = model[c] /\ result[c].model_id = model[c]
                    /\ answer[c].nonce \notin earlier[c]
                    /\ \A d \in Calls \ {c} : pc[d] = "verified" => answer[d].nonce # answer[c].nonce
  BY DEF EvidenceOfThisCall
<1>1. ASSUME NEW d \in Calls, pc[d] = "verified"
      PROVE  answer[d].nonce = nonce[d] /\ answer[d].model = model[d] /\ nonce[d] # Absent
  <2>1. EnvelopeRefusal(model[d], nonce[d], answer[d]) = "none"
    BY <1>1, NotRefused DEF AttestInv, Decided
  <2>2. nonce[d] \in Nonces
    BY <1>1 DEF AttestInv, Begun
  <2> QED
    BY <2>1, <2>2, Envelope, AbsentAssumption
<1>2. result[c].model_id = model[c]
  <2>1. result[c] = Verified(model[c], answer[c])
    BY DEF AttestInv, Decided
  <2> QED
    BY <2>1 DEF Verified
<1>3. nonce[c] \notin earlier[c]
  BY <1>1 DEF AttestInv, Begun
<1> QED
  BY <1>1, <1>2, <1>3 DEF AttestInv, NoncesApart

\* Evidence is trusted only by the call it was made for, however many calls run
\* at the same time and whatever is replayed to them (verify_model_attestation).
THEOREM FreshEvidence == AttestSpec => []EvidenceOfThisCall
BY Invariant, TrustsItsOwn, PTL

LEMMA BindsItsKey == AttestInv => KeyIsBound
<1> SUFFICES ASSUME AttestInv, NEW c \in Calls, pc[c] = "verified"
             PROVE  LET key     == result[c].model_public_key[2]
                        address == result[c].signing_address
                        report  == answer[c].report_data
                        own     == <<"lower", Address[key]>>
                    IN  /\ \E encoding \in Encodings : answer[c].signing_key = <<encoding, key>>
                        /\ address # Absent => address = own
                        /\ answer[c].quote # Absent /\ report # Absent =>
                             report \in {Digest(<<"uncompressed", key>>), Digest(own), Bytes(own)}
  BY DEF KeyIsBound
<1> DEFINE e == answer[c]
           key == e.signing_key[2]
           own == <<"lower", Address[key]>>
           uncompressed == <<"uncompressed", key>>
<1>1. /\ e \in Evidence
      /\ KeyRefusal(e) = "none"
      /\ TdxRefusal(policy, e) = "none"
      /\ result[c] = Verified(model[c], e)
  BY NotRefused DEF AttestInv, Decided
<1>2. /\ result[c].model_public_key = uncompressed
      /\ result[c].model_public_key[2] = key
      /\ result[c].signing_address = Normalized(e.signing_address)
  BY <1>1 DEF Verified, NormalizeKey
<1>3. \E encoding \in Encodings : e.signing_key = <<encoding, key>>
  BY <1>1, KeyAccepted
<1>4. Normalized(e.signing_address) # Absent => Normalized(e.signing_address) = own
  BY <1>1, KeyAccepted DEF Normalized, DerivedAddress, NormalizeKey
<1>5. ASSUME e.quote # Absent, e.report_data # Absent
      PROVE  e.report_data \in {Digest(uncompressed), Digest(own), Bytes(own)}
  <2>1. Binds(e.report_data, uncompressed, Normalized(e.signing_address))
    BY <1>1, <1>5, ReportAccepted DEF NormalizeKey
  <2> QED
    BY <1>4, <2>1 DEF Binds
<1> HIDE DEF e
<1> QED
  BY <1>2, <1>3, <1>4, <1>5 DEF e

\* The key that is trusted is the key of the evidence, and its address and report
\* data bind it (verify_reportdata_binding).
THEOREM BoundKeys == AttestSpec => []KeyIsBound
BY Invariant, BindsItsKey, PTL

\* What one policy accepts, every policy that asks for less accepts
\* (evaluate_tdx_policy, evaluate_nvidia_policy).
THEOREM MonotonePolicy == AttestSpec => []WeakerAcceptsMore
<1>1. AttestInv => WeakerAcceptsMore
  BY Monotone DEF AttestInv, AttestTypeOK, Decided, WeakerAcceptsMore
<1> QED
  BY <1>1, Invariant, PTL

\* Where a verifier that is not linked is required nothing is trusted, and a call
\* hears of a missing verifier only if nothing else is wrong.
THEOREM FailClosed == AttestSpec => []VerifiersFailClosed
<1>1. AttestInv => VerifiersFailClosed
  <2> SUFFICES ASSUME AttestInv, NEW c \in Calls
               PROVE  /\ policy.require_tdx \/ policy.require_nvidia = "required" => pc[c] # "verified"
                      /\ error[c] = "VerifierUnavailable" =>
                           Refusal(Without(policy), model[c], nonce[c], answer[c]) = "none"
    BY DEF VerifiersFailClosed, Without
  <2>1. policy \in Policy
    BY DEF AttestInv, AttestTypeOK
  <2>2. policy.require_tdx \/ policy.require_nvidia = "required" => pc[c] # "verified"
    BY <2>1, RequiredMeansRefused DEF AttestInv, Decided
  <2>3. ASSUME error[c] = "VerifierUnavailable"
        PROVE  Refusal(Without(policy), model[c], nonce[c], answer[c]) = "none"
    BY <2>1, <2>3, OnlyTheVerifier DEF AttestInv, Decided
  <2> QED
    BY <2>2, <2>3
<1> QED
  BY <1>1, Invariant, PTL

-----------------------------------------------------------------------------
(***************************************************************************)
(* The events of a stream.                                                  *)
(***************************************************************************)
\* The reference before the first byte.
Nought == [text |-> << >>, raws |-> << >>, parsed |-> << >>]

\* What the reference can have read of bytes of B.
Readings(B) ==
  {read \in [text : Seq(B), raws : Seq(Seq(B)), parsed : Seq({ParseEvent(raw) : raw \in Seq(B)})] :
     /\ Boundaries(read.text) = {}
     /\ \A k \in DOMAIN read.parsed :
          \E j \in DOMAIN read.raws : read.parsed[k] = ParseEvent(read.raws[j])}

-----------------------------------------------------------------------------
(* Delimiters. *)

LEMMA DelimiterCases ==
  ASSUME NEW d \in Delimiters
  PROVE  /\ d = <<CR, LF, CR, LF>> \/ d = <<LF, LF>> \/ d = <<CR, CR>>
         /\ Len(d) \in {2, 4} /\ DOMAIN d = 1..Len(d)
BY DEF Delimiters

LEMMA DelimiterBytes ==
  ASSUME NEW B, NEW text \in Seq(B), NEW n \in Nat \ {0}, NEW d \in Delimiters
  PROVE  DelimiterAt(text, n, d) <=>
           \/ /\ d = <<LF, LF>> /\ n + 1 <= Len(text)
              /\ text[n] = LF /\ text[n + 1] = LF
           \/ /\ d = <<CR, CR>> /\ n + 1 <= Len(text)
              /\ text[n] = CR /\ text[n + 1] = CR
           \/ /\ d = <<CR, LF, CR, LF>> /\ n + 3 <= Len(text)
              /\ text[n] = CR /\ text[n + 1] = LF /\ text[n + 2] = CR /\ text[n + 3] = LF
<1>0. CR # LF
  BY BytesAssumption
<1>1. CASE d = <<LF, LF>>
  <2>1. Len(d) = 2 /\ DOMAIN d = {1, 2} /\ d[1] = LF /\ d[2] = LF
    BY <1>1
  <2>2. d # <<CR, CR>> /\ d # <<CR, LF, CR, LF>>
    BY <1>0, <1>1
  <2> QED
    BY <1>1, <2>1, <2>2 DEF DelimiterAt
<1>2. CASE d = <<CR, CR>>
  <2>1. Len(d) = 2 /\ DOMAIN d = {1, 2} /\ d[1] = CR /\ d[2] = CR
    BY <1>2
  <2>2. d # <<LF, LF>> /\ d # <<CR, LF, CR, LF>>
    BY <1>0, <1>2
  <2> QED
    BY <1>2, <2>1, <2>2 DEF DelimiterAt
<1>3. CASE d = <<CR, LF, CR, LF>>
  <2>1. /\ Len(d) = 4 /\ DOMAIN d = {1, 2, 3, 4}
        /\ d[1] = CR /\ d[2] = LF /\ d[3] = CR /\ d[4] = LF
    BY <1>3
  <2>2. d # <<LF, LF>> /\ d # <<CR, CR>>
    BY <1>0, <1>3
  <2> QED
    BY <1>3, <2>1, <2>2 DEF DelimiterAt
<1> QED
  BY <1>1, <1>2, <1>3, DelimiterCases

\* No delimiter is at the end of another.
LEMMA EndsOnce ==
  ASSUME NEW B, NEW text \in Seq(B), NEW d \in Delimiters, NEW e \in Delimiters,
         EndsWith(text, d), EndsWith(text, e)
  PROVE  d = e
<1>1. /\ Len(d) \in Nat /\ Len(e) \in Nat
      /\ Len(text) - Len(d) + 1 \in Nat \ {0} /\ Len(text) - Len(e) + 1 \in Nat \ {0}
      /\ DelimiterAt(text, Len(text) - Len(d) + 1, d)
      /\ DelimiterAt(text, Len(text) - Len(e) + 1, e)
  BY DelimiterCases DEF EndsWith
<1>2. ASSUME NEW c \in Delimiters, DelimiterAt(text, Len(text) - Len(c) + 1, c),
             Len(text) - Len(c) + 1 \in Nat \ {0}
      PROVE  \/ /\ c = <<LF, LF>>
                /\ text[Len(text) - 1] = LF /\ text[Len(text)] = LF
             \/ /\ c = <<CR, CR>>
                /\ text[Len(text) - 1] = CR /\ text[Len(text)] = CR
             \/ /\ c = <<CR, LF, CR, LF>>
                /\ text[Len(text) - 1] = CR /\ text[Len(text)] = LF
  <2> DEFINE n == Len(text) - Len(c) + 1
  <2>1. \/ /\ c = <<LF, LF>> /\ text[n] = LF /\ text[n + 1] = LF
        \/ /\ c = <<CR, CR>> /\ text[n] = CR /\ text[n + 1] = CR
        \/ /\ c = <<CR, LF, CR, LF>> /\ text[n + 2] = CR /\ text[n + 3] = LF
    <3> DEFINE m == n
    <3>1. m \in Nat \ {0} /\ DelimiterAt(text, m, c)
      BY <1>2
    <3> HIDE DEF m
    <3>2. \/ /\ c = <<LF, LF>> /\ text[m] = LF /\ text[m + 1] = LF
          \/ /\ c = <<CR, CR>> /\ text[m] = CR /\ text[m + 1] = CR
          \/ /\ c = <<CR, LF, CR, LF>> /\ text[m + 2] = CR /\ text[m + 3] = LF
      BY <3>1, DelimiterBytes
    <3> QED
      BY <3>2 DEF m
  <2>2. c = <<LF, LF>> => n = Len(text) - 1
    OBVIOUS
  <2>3. c = <<CR, CR>> => n = Len(text) - 1
    OBVIOUS
  <2>4. c = <<CR, LF, CR, LF>> => n + 2 = Len(text) - 1
    OBVIOUS
  <2>5. Len(text) \in Nat /\ n \in Nat
    BY <1>2
  <2> HIDE DEF n
  <2> QED
    BY <2>1, <2>2, <2>3, <2>4, <2>5
<1>3. /\ text[Len(text)] = LF /\ text[Len(text) - 1] = LF => d = <<LF, LF>> /\ e = <<LF, LF>>
      /\ text[Len(text)] = CR => d = <<CR, CR>> /\ e = <<CR, CR>>
      /\ text[Len(text)] = LF /\ text[Len(text) - 1] = CR =>
           d = <<CR, LF, CR, LF>> /\ e = <<CR, LF, CR, LF>>
  BY <1>1, <1>2, BytesAssumption
<1> QED
  BY <1>1, <1>2, <1>3

\* Where a text that has no delimiter in it gets one, it ends with it.
LEMMA EndIsNew ==
  ASSUME NEW B, NEW text \in Seq(B), NEW byte \in B, Boundaries(text) = {},
         NEW b \in Boundaries(Append(text, byte))
  PROVE  EndsWith(Append(text, byte), b[2]) /\ b[1] = Len(text) + 2 - Len(b[2])
<1> DEFINE longer == Append(text, byte)
           i == b[1]
           d == b[2]
           n == Len(text)
           j == Len(d)
<1>1. b = <<i, d>> /\ i \in DOMAIN longer /\ d \in Delimiters /\ DelimiterAt(longer, i, d)
  BY DEF Boundaries
<1>2. /\ n \in Nat /\ Len(longer) = n + 1 /\ DOMAIN longer = 1..(n + 1) /\ DOMAIN text = 1..n
      /\ \A k \in 1..n : longer[k] = text[k]
  OBVIOUS
<1> HIDE DEF longer, i, d
<1>3. j \in {2, 4} /\ DOMAIN d = 1..j
  BY <1>1, DelimiterCases
<1>4. i + j - 1 <= n + 1 /\ \A k \in 1..j : longer[i + k - 1] = d[k]
  BY <1>1, <1>2, <1>3 DEF DelimiterAt
<1>5. i \in 1..(n + 1)
  BY <1>1, <1>2
<1> HIDE DEF n, j
<1>6. ASSUME i + j - 1 <= n PROVE FALSE
  <2>1. ASSUME NEW k \in 1..j PROVE text[i + k - 1] = d[k]
    <3>1. i + k - 1 \in 1..n
      BY <1>2, <1>3, <1>5, <1>6
    <3> QED
      BY <1>2, <1>4, <3>1
  <2>2. i \in DOMAIN text
    BY <1>2, <1>3, <1>5, <1>6
  <2>3. DelimiterAt(text, i, d)
    BY <1>3, <1>6, <2>1 DEF DelimiterAt, n, j
  <2>4. <<i, d>> \in Boundaries(text)
    BY <1>1, <2>2, <2>3 DEF Boundaries
  <2> QED
    BY <2>4
<1>7. i = (n + 1) - j + 1 /\ j <= n + 1
  BY <1>2, <1>3, <1>4, <1>5, <1>6
<1>8. EndsWith(longer, d)
  <2>1. Len(d) <= Len(longer) /\ Len(longer) - Len(d) + 1 = i
    BY <1>2, <1>7 DEF j
  <2> QED
    BY <1>1, <2>1 DEF EndsWith
<1>9. i = n + 2 - j
  BY <1>2, <1>3, <1>7
<1> QED
  BY <1>8, <1>9 DEF longer, i, d, n, j

LEMMA EndIsBoundary ==
  ASSUME NEW B, NEW text \in Seq(B), NEW d \in Delimiters, EndsWith(text, d)
  PROVE  <<Len(text) - Len(d) + 1, d>> \in Boundaries(text)
<1> DEFINE n == Len(text)
           j == Len(d)
           i == n - j + 1
<1>1. n \in Nat /\ DOMAIN text = 1..n
  OBVIOUS
<1>2. j \in {2, 4}
  BY DelimiterCases
<1>3. j <= n /\ DelimiterAt(text, i, d)
  BY DEF EndsWith
<1> HIDE DEF n, j
<1>4. i \in DOMAIN text
  BY <1>1, <1>2, <1>3
<1> HIDE DEF i
<1>5. <<i, d>> \in Boundaries(text)
  BY <1>3, <1>4 DEF Boundaries
<1> QED
  BY <1>5 DEF i, j, n

LEMMA EmptyHasNone == Boundaries(<< >>) = {}
BY DEF Boundaries

-----------------------------------------------------------------------------
(* The reference. *)

LEMMA ReadByteGoesOn ==
  ASSUME NEW read, NEW byte, \A d \in Delimiters : ~EndsWith(Append(read.text, byte), d)
  PROVE  ReadByte(read, byte) = [read EXCEPT !.text = Append(read.text, byte)]
BY DEF ReadByte

\* The reference behind an event.
EndedText(read, text, d) ==
  LET raw == SubSeq(text, 1, Len(text) - Len(d))
  IN  [ text   |-> << >>,
        raws   |-> Append(read.raws, raw),
        parsed |-> read.parsed \o Noted(ParseEvent(raw)) ]

LEMMA ReadByteEnds ==
  ASSUME NEW B, NEW read, NEW byte, Append(read.text, byte) \in Seq(B),
         NEW d \in Delimiters, EndsWith(Append(read.text, byte), d)
  PROVE  ReadByte(read, byte) = EndedText(read, Append(read.text, byte), d)
<1> DEFINE text == Append(read.text, byte)
           ending == {e \in Delimiters : EndsWith(text, e)}
<1>1. ending = {d}
  <2> HIDE DEF text
  <2>1. \A e \in ending : e = d
    BY EndsOnce DEF text
  <2>2. d \in ending
    BY DEF text
  <2> QED
    BY <2>1, <2>2
<1>2. {Len(e) : e \in ending} = {Len(d)} /\ Len(d) \in Nat
  BY <1>1, DelimiterCases
<1>3. Max({Len(e) : e \in ending}) = Len(d)
  BY <1>2 DEF Max
<1> HIDE DEF ending
<1>4. ending # {}
  BY <1>1
<1> USE DEF ending
<1> QED
  BY <1>3, <1>4 DEF ReadByte, EndedText

LEMMA NotedTyped ==
  ASSUME NEW B, NEW raw \in Seq(B)
  PROVE  /\ Noted(ParseEvent(raw)) \in Seq({ParseEvent(r) : r \in Seq(B)})
         /\ \A k \in DOMAIN Noted(ParseEvent(raw)) : Noted(ParseEvent(raw))[k] = ParseEvent(raw)
<1> DEFINE E == {ParseEvent(r) : r \in Seq(B)}
<1>1. ParseEvent(raw) \in E
  OBVIOUS
<1> HIDE DEF E
<1>2. << >> \in Seq(E) /\ <<ParseEvent(raw)>> \in Seq(E)
  BY <1>1
<1>3. Noted(ParseEvent(raw)) = << >> \/ Noted(ParseEvent(raw)) = <<ParseEvent(raw)>>
  BY DEF Noted
<1>4. /\ Noted(ParseEvent(raw)) \in Seq(E)
      /\ \A k \in DOMAIN Noted(ParseEvent(raw)) : Noted(ParseEvent(raw))[k] = ParseEvent(raw)
  <2>1. CASE Noted(ParseEvent(raw)) = << >>
    BY <1>2, <2>1
  <2>2. CASE Noted(ParseEvent(raw)) = <<ParseEvent(raw)>>
    <3>1. \A k \in DOMAIN <<ParseEvent(raw)>> : <<ParseEvent(raw)>>[k] = ParseEvent(raw)
      OBVIOUS
    <3> QED
      BY <1>2, <2>2, <3>1
  <2> QED
    BY <1>3, <2>1, <2>2
<1> QED
  BY <1>4 DEF E

LEMMA ReadByteTyped ==
  ASSUME NEW B, NEW read \in Readings(B), NEW byte \in B
  PROVE  ReadByte(read, byte) \in Readings(B)
<1> DEFINE text == Append(read.text, byte)
           E == {ParseEvent(raw) : raw \in Seq(B)}
<1>1. /\ read \in [text : Seq(B), raws : Seq(Seq(B)), parsed : Seq(E)]
      /\ Boundaries(read.text) = {}
      /\ \A k \in DOMAIN read.parsed :
           \E j \in DOMAIN read.raws : read.parsed[k] = ParseEvent(read.raws[j])
  BY DEF Readings
<1>2. text \in Seq(B) /\ read.text \in Seq(B)
  BY <1>1
<1>3. CASE \A d \in Delimiters : ~EndsWith(text, d)
  <2>1. ReadByte(read, byte) = [read EXCEPT !.text = text]
    BY <1>3, ReadByteGoesOn
  <2>2. Boundaries(text) = {}
    <3>1. SUFFICES ASSUME NEW b \in Boundaries(text) PROVE FALSE
      OBVIOUS
    <3>2. b[2] \in Delimiters /\ EndsWith(text, b[2])
      BY <1>1, <1>2, EndIsNew DEF Boundaries
    <3> QED
      BY <1>3, <3>2
  <2> HIDE DEF text, E
  <2>3. [read EXCEPT !.text = text] \in Readings(B)
    BY <1>1, <1>2, <2>2 DEF Readings, E
  <2> QED
    BY <2>1, <2>3
<1>4. CASE \E d \in Delimiters : EndsWith(text, d)
  <2>1. PICK d \in Delimiters : EndsWith(text, d)
    BY <1>4
  <2> DEFINE raw == SubSeq(text, 1, Len(text) - Len(d))
             new == Noted(ParseEvent(raw))
  <2>2. ReadByte(read, byte) = [ text   |-> << >>,
                                 raws   |-> Append(read.raws, raw),
                                 parsed |-> read.parsed \o new ]
    <3>1. text \in Seq(B) /\ EndsWith(text, d)
      BY <1>2, <2>1
    <3>2. ReadByte(read, byte) = EndedText(read, text, d)
      BY <3>1, ReadByteEnds
    <3> QED
      BY <3>2 DEF EndedText
  <2>3. raw \in Seq(B)
    BY <1>2, <2>1, DelimiterCases DEF EndsWith
  <2> HIDE DEF raw, text
  <2>4. new \in Seq(E) /\ \A k \in DOMAIN new : new[k] = ParseEvent(raw)
    BY <2>3, NotedTyped
  <2> HIDE DEF new, E
  <2>5. /\ << >> \in Seq(B) /\ Append(read.raws, raw) \in Seq(Seq(B))
        /\ read.parsed \o new \in Seq(E)
    BY <1>1, <2>3, <2>4
  <2>6. ASSUME NEW k \in DOMAIN (read.parsed \o new)
        PROVE  \E j \in DOMAIN Append(read.raws, raw) :
                 (read.parsed \o new)[k] = ParseEvent(Append(read.raws, raw)[j])
    <3>1. CASE k \in DOMAIN read.parsed
      <4>1. PICK j \in DOMAIN read.raws : read.parsed[k] = ParseEvent(read.raws[j])
        BY <1>1, <3>1
      <4>2. (read.parsed \o new)[k] = read.parsed[k]
        BY <1>1, <2>4, <3>1
      <4>3. j \in DOMAIN Append(read.raws, raw) /\ Append(read.raws, raw)[j] = read.raws[j]
        BY <1>1, <2>3
      <4> QED
        BY <4>1, <4>2, <4>3
    <3>2. CASE k \notin DOMAIN read.parsed
      <4>1. k - Len(read.parsed) \in DOMAIN new
            /\ (read.parsed \o new)[k] = new[k - Len(read.parsed)]
        BY <1>1, <2>4, <3>2
      <4>2. /\ Len(read.raws) + 1 \in DOMAIN Append(read.raws, raw)
            /\ Append(read.raws, raw)[Len(read.raws) + 1] = raw
        BY <1>1, <2>3
      <4> QED
        BY <2>4, <4>1, <4>2
    <3> QED
      BY <3>1, <3>2
  <2> DEFINE next == [ text |-> << >>, raws |-> Append(read.raws, raw),
                       parsed |-> read.parsed \o new ]
  <2>7. next \in [text : Seq(B), raws : Seq(Seq(B)), parsed : Seq(E)]
    BY <2>5
  <2>8. next.text = << >> /\ next.raws = Append(read.raws, raw) /\ next.parsed = read.parsed \o new
    OBVIOUS
  <2> HIDE DEF next
  <2>9. next \in Readings(B)
    BY <2>6, <2>7, <2>8, EmptyHasNone DEF Readings, E
  <2> QED
    BY <2>2, <2>9 DEF next
<1> QED
  BY <1>3, <1>4

LEMMA NoughtTyped == ASSUME NEW B PROVE Nought \in Readings(B)
BY EmptyHasNone DEF Nought, Readings

\* The fold, one byte after the other.
LEMMA ReadAloneRun ==
  ASSUME NEW B, NEW bytes \in Seq(B)
  PROVE  \E iter :
           /\ ReadAlone(bytes) = iter[1..Len(bytes)]
           /\ iter[1..0] = Nought
           /\ \A k \in 1..Len(bytes) : iter[1..k] = ReadByte(iter[1..(k - 1)], bytes[k])
           /\ \A k \in 0..Len(bytes) : iter[1..k] \in Readings(B)
<1> DEFINE n == Len(bytes)
           T == Readings(B)
           step == [k \in 1..n |-> [read \in T |-> ReadByte(read, bytes[k])]]
           Fits(iter) == iter = [s \in SUBSET (1..n) |->
                                   IF s = {} THEN Nought ELSE ReadByte(iter[s \ {Max(s)}], bytes[Max(s)])]
           run == CHOOSE iter : Fits(iter)
<1>1. n \in Nat /\ DOMAIN bytes = 1..n /\ \A k \in 1..n : bytes[k] \in B
  OBVIOUS
<1>2. step \in [1..n -> [T -> T]]
  BY <1>1, ReadByteTyped
<1>3. \A s \in SUBSET (1..n) : s # {} => Max(s) \in 1..n
  <2>1. ASSUME NEW s \in SUBSET (1..n), s # {} PROVE Max(s) \in s
    <3>1. s \in SUBSET (0..n)
      OBVIOUS
    <3> QED
      BY <1>1, <2>1, <3>1, MaxBounded
  <2> QED
    BY <2>1
<1>4. \E iter : Fits(iter)
  <2>1. Nought \in T
    BY NoughtTyped
  <2>2. PICK iter \in [SUBSET (1..n) -> T] : TakesSteps(iter, step, Nought, n)
    <3> HIDE DEF step, T, n
    <3> QED
      BY <1>1, <1>2, <2>1, FoldExists
  <2>3. ASSUME NEW s \in SUBSET (1..n), s # {}
        PROVE  step[Max(s)][iter[s \ {Max(s)}]] = ReadByte(iter[s \ {Max(s)}], bytes[Max(s)])
    BY <1>3, <2>3
  <2>4. Fits(iter)
    BY <2>2, <2>3 DEF TakesSteps
  <2> QED
    BY <2>4
<1>5. Fits(run)
  <2> HIDE DEF Fits
  <2> QED
    BY <1>4
<1>6. ReadAlone(bytes) = run[1..n]
  BY <1>1 DEF ReadAlone, FoldLeft, MapThenFoldSet, Nought
<1>7. \A s \in SUBSET (1..n) :
        run[s] = IF s = {} THEN Nought ELSE ReadByte(run[s \ {Max(s)}], bytes[Max(s)])
  <2> HIDE DEF run
  <2> QED
    BY <1>5
<1> HIDE DEF run, n, Fits, T
<1>8. run[1..0] = Nought
  BY <1>1, <1>7, Beginnings
<1>9. ASSUME NEW k \in 1..n PROVE run[1..k] = ReadByte(run[1..(k - 1)], bytes[k])
  <2>1. /\ 1..k \in SUBSET (1..n) /\ 1..k # {}
        /\ Max(1..k) = k /\ (1..k) \ {Max(1..k)} = 1..(k - 1)
    BY <1>1, Beginnings
  <2> QED
    BY <1>7, <2>1
<1>10. \A k \in 0..n : run[1..k] \in T
  <2>1. \A k \in 1..n : run[1..(k - 1)] \in T => run[1..k] \in T
    BY <1>1, <1>9, ReadByteTyped DEF T
  <2>2. run[1..0] \in T
    BY <1>8, NoughtTyped DEF T
  <2> QED
    BY <1>1, <2>1, <2>2, RunTyped
<1> QED
  BY <1>6, <1>8, <1>9, <1>10 DEF n, T

LEMMA ReadAloneEmpty == ReadAlone(<< >>) = Nought
<1> DEFINE none == << >>
<1>1. none \in Seq({}) /\ Len(none) = 0
  OBVIOUS
<1> HIDE DEF none
<1>2. \E iter : ReadAlone(none) = iter[1..Len(none)] /\ iter[1..0] = Nought
  BY <1>1, ReadAloneRun
<1>3. ReadAlone(none) = Nought
  BY <1>1, <1>2
<1> QED
  BY <1>3 DEF none

LEMMA ReadAloneTyped ==
  ASSUME NEW B, NEW bytes \in Seq(B)
  PROVE  ReadAlone(bytes) \in Readings(B)
<1>1. Len(bytes) \in 0..Len(bytes)
  OBVIOUS
<1> QED
  BY <1>1, ReadAloneRun

LEMMA ReadAloneAppend ==
  ASSUME NEW B, NEW bytes \in Seq(B), NEW byte \in B
  PROVE  ReadAlone(Append(bytes, byte)) = ReadByte(ReadAlone(bytes), byte)
<1> DEFINE n == Len(bytes)
           longer == Append(bytes, byte)
<1>1. /\ n \in Nat /\ longer \in Seq(B) /\ Len(longer) = n + 1 /\ longer[n + 1] = byte
      /\ \A k \in 1..n : longer[k] = bytes[k]
  OBVIOUS
<1>2. PICK a : /\ ReadAlone(bytes) = a[1..n]
               /\ a[1..0] = Nought
               /\ \A k \in 1..n : a[1..k] = ReadByte(a[1..(k - 1)], bytes[k])
  BY ReadAloneRun
<1> HIDE DEF longer
<1>3. PICK c : /\ ReadAlone(longer) = c[1..(n + 1)]
               /\ c[1..0] = Nought
               /\ \A k \in 1..(n + 1) : c[1..k] = ReadByte(c[1..(k - 1)], longer[k])
  BY <1>1, ReadAloneRun
<1> HIDE DEF n
<1>4. \A k \in 0..n : c[1..k] = a[1..k]
  <2>1. \A k \in 1..n : k \in 1..(n + 1)
    BY <1>1
  <2>2. \A k \in 1..n : Agree(a, c, k - 1) => Agree(a, c, k)
    BY <1>1, <1>2, <1>3, <2>1 DEF Agree
  <2>3. Agree(a, c, 0)
    BY <1>2, <1>3 DEF Agree
  <2>4. n \in Nat
    BY <1>1
  <2>5. \A k \in 0..n : Agree(a, c, k)
    BY <2>2, <2>3, <2>4, SameRuns
  <2> QED
    BY <2>5 DEF Agree
<1>5. c[1..(n + 1)] = ReadByte(c[1..n], byte)
  <2>1. n + 1 \in 1..(n + 1) /\ (n + 1) - 1 = n
    BY <1>1
  <2> QED
    BY <1>1, <1>3, <2>1
<1>6. c[1..n] = a[1..n]
  <2>1. n \in 0..n
    BY <1>1
  <2> QED
    BY <1>4, <2>1
<1> QED
  BY <1>2, <1>3, <1>5, <1>6 DEF longer

\* What has no delimiter in it is the beginning of an event.
LEMMA ReadUnended ==
  ASSUME NEW B
  PROVE  \A u \in Seq(B) :
           Boundaries(u) = {} => ReadAlone(u) = [text |-> u, raws |-> << >>, parsed |-> << >>]
<1> DEFINE Good(u) == Boundaries(u) = {} =>
                        ReadAlone(u) = [text |-> u, raws |-> << >>, parsed |-> << >>]
           S == {u \in Seq(B) : Good(u)}
<1>1. << >> \in S
  BY ReadAloneEmpty DEF Nought
<1>2. ASSUME NEW u \in Seq(B), NEW b \in B, u \in S PROVE Append(u, b) \in S
  <2> DEFINE longer == Append(u, b)
  <2>0. /\ longer \in Seq(B) /\ Len(longer) = Len(u) + 1 /\ DOMAIN longer = 1..(Len(u) + 1)
        /\ \A k \in 1..Len(u) : longer[k] = u[k]
    OBVIOUS
  <2> HIDE DEF longer
  <2>1. SUFFICES ASSUME Boundaries(longer) = {}
                 PROVE  ReadAlone(longer) = [text |-> longer, raws |-> << >>, parsed |-> << >>]
    BY <2>0 DEF longer
  <2>2. Boundaries(u) = {}
    <3>1. SUFFICES ASSUME NEW k \in DOMAIN u, NEW d \in Delimiters, DelimiterAt(u, k, d) PROVE FALSE
      BY DEF Boundaries
    <3>0. /\ k \in Nat /\ Len(d) \in {2, 4} /\ DOMAIN d = 1..Len(d) /\ Len(u) \in Nat
          /\ k + Len(d) - 1 <= Len(u) /\ \A i \in 1..Len(d) : u[k + i - 1] = d[i]
      BY <3>1, DelimiterCases DEF DelimiterAt
    <3>2. DelimiterAt(longer, k, d)
      <4>1. k + Len(d) - 1 <= Len(longer)
        BY <2>0, <3>0
      <4>2. ASSUME NEW i \in 1..Len(d) PROVE longer[k + i - 1] = d[i]
        <5>1. k + i - 1 \in 1..Len(u)
          BY <3>0
        <5> QED
          BY <2>0, <3>0, <5>1
      <4> QED
        BY <3>0, <4>1, <4>2 DEF DelimiterAt
    <3>3. k \in DOMAIN longer
      BY <2>0
    <3>4. <<k, d>> \in Boundaries(longer)
      BY <3>2, <3>3 DEF Boundaries
    <3> QED
      BY <2>1, <3>4
  <2>3. \A d \in Delimiters : ~EndsWith(longer, d)
    BY <2>0, <2>1, EndIsBoundary
  <2>4. ReadAlone(u) = [text |-> u, raws |-> << >>, parsed |-> << >>]
    BY <1>2, <2>2
  <2>5. ReadAlone(longer) = ReadByte(ReadAlone(u), b)
    BY ReadAloneAppend DEF longer
  <2>6. ReadByte(ReadAlone(u), b) = [ReadAlone(u) EXCEPT !.text = longer]
    <3>1. ReadAlone(u).text = u
      BY <2>4
    <3> QED
      BY <2>0, <2>3, <3>1, ReadByteGoesOn DEF longer
  <2> QED
    BY <2>4, <2>5, <2>6
<1>3. Seq(B) \subseteq S
  <2> HIDE DEF S
  <2> QED
    BY <1>1, <1>2, SequenceInduction
<1> QED
  BY <1>3

\* What has been read is read no differently by what follows.
ReadOn(before, all, part) ==
  /\ all.text = part.text
  /\ all.raws = before.raws \o part.raws
  /\ all.parsed = before.parsed \o part.parsed

LEMMA ReadByteOn ==
  ASSUME NEW B, NEW byte \in B, NEW before \in Readings(B), NEW all \in Readings(B),
         NEW part \in Readings(B), ReadOn(before, all, part)
  PROVE  ReadOn(before, ReadByte(all, byte), ReadByte(part, byte))
<1> DEFINE E == {ParseEvent(raw) : raw \in Seq(B)}
           text == Append(part.text, byte)
<1>0. \A read \in Readings(B) : read \in [text : Seq(B), raws : Seq(Seq(B)), parsed : Seq(E)]
  BY DEF Readings
<1>01. /\ part.text \in Seq(B) /\ all.text = part.text
       /\ before.parsed \in Seq(E) /\ part.parsed \in Seq(E)
       /\ before.raws \in Seq(Seq(B)) /\ part.raws \in Seq(Seq(B))
       /\ all.raws = before.raws \o part.raws
       /\ all.parsed = before.parsed \o part.parsed
  BY <1>0 DEF ReadOn
<1>1. text \in Seq(B) /\ text = Append(all.text, byte)
  BY <1>01
<1>2. CASE \A d \in Delimiters : ~EndsWith(text, d)
  <2>1. ReadByte(part, byte) = [part EXCEPT !.text = text]
    BY <1>2, ReadByteGoesOn
  <2>2. ReadByte(all, byte) = [all EXCEPT !.text = text]
    <3>1. \A d \in Delimiters : ~EndsWith(Append(all.text, byte), d)
      BY <1>1, <1>2
    <3> HIDE DEF text
    <3>2. ReadByte(all, byte) = [all EXCEPT !.text = Append(all.text, byte)]
      BY <3>1, ReadByteGoesOn
    <3> QED
      BY <1>1, <3>2
  <2> HIDE DEF text, E
  <2> QED
    BY <1>0, <2>1, <2>2 DEF ReadOn
<1>3. CASE \E d \in Delimiters : EndsWith(text, d)
  <2>1. PICK d \in Delimiters : EndsWith(text, d)
    BY <1>3
  <2> DEFINE raw == SubSeq(text, 1, Len(text) - Len(d))
             new == Noted(ParseEvent(raw))
  <2>2. ReadByte(part, byte) = EndedText(part, text, d)
    <3>1. text \in Seq(B)
      BY <1>1
    <3> QED
      BY <2>1, <3>1, ReadByteEnds
  <2>3. ReadByte(all, byte) = EndedText(all, text, d)
    <3>1. Append(all.text, byte) \in Seq(B) /\ EndsWith(Append(all.text, byte), d)
      BY <1>1, <2>1
    <3> HIDE DEF text
    <3>2. ReadByte(all, byte) = EndedText(all, Append(all.text, byte), d)
      BY <3>1, ReadByteEnds
    <3> QED
      BY <1>1, <3>2
  <2>4. raw \in Seq(B)
    BY <1>1, <2>1, DelimiterCases DEF EndsWith
  <2>5. /\ EndedText(part, text, d) = [text |-> << >>, raws |-> Append(part.raws, raw), parsed |-> part.parsed \o new]
        /\ EndedText(all, text, d) = [text |-> << >>, raws |-> Append(all.raws, raw), parsed |-> all.parsed \o new]
    BY DEF EndedText
  <2> HIDE DEF raw, text
  <2>6. new \in Seq(E)
    BY <2>4, NotedTyped
  <2> HIDE DEF E, new
  <2>7. (before.parsed \o part.parsed) \o new = before.parsed \o (part.parsed \o new)
    <3>1. \A x, y, z \in Seq(E) : (x \o y) \o z = x \o (y \o z)
      BY ConcatAssociative
    <3> QED
      BY <1>01, <2>6, <3>1
  <2>8. Append(before.raws \o part.raws, raw) = before.raws \o Append(part.raws, raw)
    <3> DEFINE Raws == Seq(B)
    <3>1. before.raws \in Seq(Raws) /\ part.raws \in Seq(Raws) /\ raw \in Raws
      BY <1>01, <2>4
    <3> HIDE DEF Raws
    <3>2. \A x, y \in Seq(Raws) : \A z \in Raws : x \o Append(y, z) = Append(x \o y, z)
      BY AppendBehind
    <3> QED
      BY <3>1, <3>2
  <2> QED
    <3>1. /\ ReadByte(part, byte).text = << >> /\ ReadByte(all, byte).text = << >>
          /\ ReadByte(part, byte).raws = Append(part.raws, raw)
          /\ ReadByte(all, byte).raws = Append(all.raws, raw)
          /\ ReadByte(part, byte).parsed = part.parsed \o new
          /\ ReadByte(all, byte).parsed = all.parsed \o new
      <4> DEFINE p == ReadByte(part, byte)
                 a == ReadByte(all, byte)
      <4>1. /\ p = [text |-> << >>, raws |-> Append(part.raws, raw), parsed |-> part.parsed \o new]
            /\ a = [text |-> << >>, raws |-> Append(all.raws, raw), parsed |-> all.parsed \o new]
        BY <2>2, <2>3, <2>5
      <4> HIDE DEF p, a
      <4>2. /\ p.text = << >> /\ p.raws = Append(part.raws, raw) /\ p.parsed = part.parsed \o new
        BY <4>1
      <4>3. /\ a.text = << >> /\ a.raws = Append(all.raws, raw) /\ a.parsed = all.parsed \o new
        BY <4>1
      <4> QED
        BY <4>2, <4>3 DEF p, a
    <3>2. /\ Append(all.raws, raw) = before.raws \o Append(part.raws, raw)
          /\ all.parsed \o new = before.parsed \o (part.parsed \o new)
      BY <1>01, <2>7, <2>8
    <3> QED
      BY <3>1, <3>2 DEF ReadOn
<1> QED
  BY <1>2, <1>3

\* A text in two parts: the second is read with what the first has left over.
LEMMA ReadInParts ==
  ASSUME NEW B, NEW s \in Seq(B)
  PROVE  \A t \in Seq(B) :
           ReadOn(ReadAlone(s), ReadAlone(s \o t), ReadAlone(ReadAlone(s).text \o t))
<1> DEFINE u == ReadAlone(s).text
           Good(t) == ReadOn(ReadAlone(s), ReadAlone(s \o t), ReadAlone(u \o t))
           S == {t \in Seq(B) : Good(t)}
<1>1. /\ ReadAlone(s) \in Readings(B) /\ u \in Seq(B) /\ Boundaries(u) = {}
      /\ ReadAlone(s).raws \in Seq(Seq(B))
      /\ ReadAlone(s).parsed \in Seq({ParseEvent(raw) : raw \in Seq(B)})
  BY ReadAloneTyped DEF Readings
<1> HIDE DEF u
<1>2. << >> \in S
  <2>1. s \o << >> = s /\ u \o << >> = u
    BY <1>1
  <2>2. ReadAlone(u) = [text |-> u, raws |-> << >>, parsed |-> << >>]
    BY <1>1, ReadUnended
  <2>3. ReadAlone(s).raws \o << >> = ReadAlone(s).raws /\ ReadAlone(s).parsed \o << >> = ReadAlone(s).parsed
    BY <1>1, ConcatEmptySeq
  <2>4. ReadOn(ReadAlone(s), ReadAlone(s), ReadAlone(u))
    <3>1. ReadAlone(u).text = u /\ ReadAlone(u).raws = << >> /\ ReadAlone(u).parsed = << >>
      BY <2>2
    <3>2. ReadAlone(s).text = u
      BY DEF u
    <3> QED
      BY <2>3, <3>1, <3>2 DEF ReadOn
  <2> QED
    BY <2>1, <2>4
<1>3. ASSUME NEW t \in Seq(B), NEW b \in B, t \in S PROVE Append(t, b) \in S
  <2>0. \A x \in Seq(B) : x \o Append(t, b) = Append(x \o t, b)
    BY <1>3, AppendBehind
  <2>1. s \o Append(t, b) = Append(s \o t, b) /\ u \o Append(t, b) = Append(u \o t, b)
    BY <1>1, <2>0
  <2>2. s \o t \in Seq(B) /\ u \o t \in Seq(B)
    BY <1>1
  <2>3. /\ ReadAlone(s \o Append(t, b)) = ReadByte(ReadAlone(s \o t), b)
        /\ ReadAlone(u \o Append(t, b)) = ReadByte(ReadAlone(u \o t), b)
    BY <2>1, <2>2, ReadAloneAppend
  <2>4. ReadAlone(s \o t) \in Readings(B) /\ ReadAlone(u \o t) \in Readings(B)
    BY <2>2, ReadAloneTyped
  <2>5. ReadOn(ReadAlone(s), ReadByte(ReadAlone(s \o t), b), ReadByte(ReadAlone(u \o t), b))
    BY <1>1, <1>3, <2>4, ReadByteOn
  <2> QED
    BY <2>3, <2>5
<1>4. Seq(B) \subseteq S
  <2> HIDE DEF S
  <2> QED
    BY <1>2, <1>3, SequenceInduction
<1> QED
  BY <1>4 DEF u

-----------------------------------------------------------------------------
(* The parser against the reference. *)

LEMMA BoundaryIsFirst ==
  ASSUME NEW B, NEW x \in Seq(B), Boundaries(x) # {}
  PROVE  /\ Boundary(x) \in Boundaries(x)
         /\ \A b \in Boundaries(x) : Boundary(x)[1] <= b[1]
<1> DEFINE T == {b[1] : b \in Boundaries(x)}
<1>1. T \in SUBSET Nat /\ T # {}
  BY DEF Boundaries
<1>2. PICK m \in T : \A k \in T : m <= k
  BY <1>1, LeastNatural
<1>3. \E b \in Boundaries(x) : \A other \in Boundaries(x) : b[1] <= other[1]
  BY <1>2
<1> QED
  BY <1>3 DEF Boundary

\* A delimiter is told by its length and its bytes.
LEMMA DelimiterLengths ==
  ASSUME NEW d \in Delimiters
  PROVE  /\ Len(d) = 4 => d = <<CR, LF, CR, LF>>
         /\ Len(d) = 2 => d = <<LF, LF>> \/ d = <<CR, CR>>
BY DEF Delimiters

\* Behind the first boundary begins no delimiter that ends before it does.
LEMMA NoneEndsBefore ==
  ASSUME NEW B, NEW x \in Seq(B), NEW p \in Nat \ {0}, NEW d \in Delimiters,
         DelimiterAt(x, p, d), NEW q \in Nat, p <= q, NEW e \in Delimiters, DelimiterAt(x, q, e)
  PROVE  ~(q + Len(e) < p + Len(d))
<1> DEFINE i == Len(d)
           j == Len(e)
<1>1. i \in {2, 4} /\ j \in {2, 4}
  BY DelimiterCases
<1> HIDE DEF i, j
<1>2. SUFFICES ASSUME q + j < p + i PROVE FALSE
  BY DEF i, j
<1>3. i = 4 /\ j = 2 /\ (q = p \/ q = p + 1)
  BY <1>1, <1>2
<1>4. d = <<CR, LF, CR, LF>> /\ (e = <<LF, LF>> \/ e = <<CR, CR>>)
  BY <1>3, DelimiterLengths DEF i, j
<1>5. x[p] = CR /\ x[p + 1] = LF /\ x[p + 2] = CR
  <2> HIDE DEF DelimiterAt
  <2>1. \A k \in DOMAIN d : x[p + k - 1] = d[k]
    BY DEF DelimiterAt
  <2>2. DOMAIN d = 1..4 /\ d[1] = CR /\ d[2] = LF /\ d[3] = CR
    BY <1>4
  <2>3. p + 1 - 1 = p /\ p + 2 - 1 = p + 1 /\ p + 3 - 1 = p + 2
    OBVIOUS
  <2> QED
    BY <2>1, <2>2, <2>3
<1>6. x[q] = x[q + 1]
  <2>1. \A k \in DOMAIN e : x[q + k - 1] = e[k]
    BY DEF DelimiterAt
  <2>2. DOMAIN e = 1..2 /\ e[1] = e[2]
    BY <1>4
  <2>3. q + 1 - 1 = q /\ q + 2 - 1 = q + 1
    OBVIOUS
  <2> QED
    BY <2>1, <2>2, <2>3
<1>7. CASE q = p
  BY <1>5, <1>6, <1>7, BytesAssumption
<1>8. CASE q = p + 1
  <2>1. q + 1 = p + 2
    BY <1>8
  <2> QED
    BY <1>5, <1>6, <1>8, <2>1, BytesAssumption
<1> QED
  BY <1>3, <1>7, <1>8

\* Up to the end of its first event a text is read to that event.
LEMMA ReadFirst ==
  ASSUME NEW B, NEW x \in Seq(B), Boundaries(x) # {},
         NEW p, NEW d, NEW m, Boundary(x) = <<p, d>>, m = p - 1 + Len(d)
  PROVE  /\ p \in Nat \ {0} /\ d \in Delimiters /\ Len(d) \in {2, 4} /\ m \in 2..Len(x)
         /\ ReadAlone(SubSeq(x, 1, m)) =
              [text |-> << >>, raws |-> << SubSeq(x, 1, p - 1) >>,
               parsed |-> Noted(ParseEvent(SubSeq(x, 1, p - 1)))]
<1>1. /\ p \in 1..Len(x) /\ d \in Delimiters /\ DelimiterAt(x, p, d)
      /\ \A b \in Boundaries(x) : p <= b[1]
  BY BoundaryIsFirst DEF Boundaries
<1> DEFINE l == Len(d)
           n == Len(x)
<1>01. l \in {2, 4} /\ DOMAIN d = 1..l
  BY <1>1, DelimiterCases
<1>02. n \in Nat /\ p \in Nat \ {0} /\ p + l - 1 <= n /\ m = p - 1 + l /\ DOMAIN x = 1..n
  BY <1>1 DEF DelimiterAt
<1>03. \A k \in 1..l : x[p + k - 1] = d[k]
  BY <1>1, <1>01 DEF DelimiterAt
<1> HIDE DEF l, n
<1>04. m \in 2..n /\ m \in Nat /\ m - 1 \in Nat /\ m - l = p - 1
  BY <1>01, <1>02
<1>2. /\ Len(d) \in {2, 4} /\ m \in 2..Len(x) /\ Len(x) \in Nat /\ m \in Nat /\ p \in Nat \ {0}
  BY <1>01, <1>02, <1>04 DEF l, n
<1> DEFINE front == SubSeq(x, 1, m - 1)
           text == SubSeq(x, 1, m)
<1>3. /\ front \in Seq(B) /\ Len(front) = m - 1 /\ DOMAIN front = 1..(m - 1)
      /\ \A k \in 1..(m - 1) : front[k] = x[k]
  BY <1>04 DEF n
<1>4. /\ text \in Seq(B) /\ Len(text) = m /\ x[m] \in B /\ text = Append(front, x[m])
      /\ \A k \in 1..m : text[k] = x[k]
  BY <1>04 DEF n
<1>5. SubSeq(text, 1, m - Len(d)) = SubSeq(x, 1, p - 1)
  BY <1>2
<1> HIDE DEF front, text
<1>6. EndsWith(text, d)
  <2>1. ASSUME NEW k \in 1..l PROVE text[p + k - 1] = d[k]
    <3>1. p + k - 1 \in 1..m
      BY <1>01, <1>02, <1>04
    <3> QED
      BY <1>03, <1>4, <3>1
  <2>2. l <= m /\ p = m - l + 1 /\ p + l - 1 <= m
    BY <1>01, <1>02, <1>04
  <2>3. DelimiterAt(text, p, d)
    BY <1>01, <1>4, <2>1, <2>2 DEF DelimiterAt, l
  <2> QED
    BY <1>4, <2>2, <2>3 DEF EndsWith, l
<1>7. Boundaries(front) = {}
  <2>1. SUFFICES ASSUME NEW q \in DOMAIN front, NEW e \in Delimiters, DelimiterAt(front, q, e)
                 PROVE  FALSE
    BY DEF Boundaries
  <2> DEFINE j == Len(e)
  <2>2. j \in {2, 4} /\ DOMAIN e = 1..j
    BY DelimiterCases
  <2>3. q + j - 1 <= m - 1 /\ \A k \in 1..j : front[q + k - 1] = e[k]
    BY <1>3, <2>1, <2>2 DEF DelimiterAt
  <2>4. q \in 1..(m - 1)
    BY <1>3
  <2> HIDE DEF j
  <2>5. DelimiterAt(x, q, e)
    <3>1. ASSUME NEW k \in 1..j PROVE x[q + k - 1] = e[k]
      <4>1. q \in Nat /\ q >= 1 /\ m \in Nat /\ j \in Nat /\ q + j - 1 <= m - 1
        BY <1>04, <2>2, <2>3, <2>4
      <4>2. q + k - 1 \in 1..(m - 1)
        BY <4>1
      <4> QED
        BY <1>3, <2>3, <4>2
    <3>2. q + j - 1 <= n
      BY <1>02, <1>04, <2>2, <2>3, <2>4
    <3> QED
      BY <2>2, <3>1, <3>2 DEF DelimiterAt, j, n
  <2>6. q \in DOMAIN x
    BY <1>02, <1>04, <2>4
  <2>7. <<q, e>> \in Boundaries(x)
    BY <2>5, <2>6 DEF Boundaries
  <2>8. p <= q /\ q \in Nat
    <3>1. p <= <<q, e>>[1]
      BY <1>1, <2>7
    <3>2. q \in Nat
      BY <2>4
    <3> QED
      BY <3>1, <3>2
  <2>9. ~(q + Len(e) < p + Len(d))
    <3>1. p \in Nat \ {0} /\ d \in Delimiters /\ DelimiterAt(x, p, d)
      BY <1>1, <1>02
    <3> QED
      BY <2>5, <2>8, <3>1, NoneEndsBefore
  <2>10. q + j < p + l
    BY <1>01, <1>02, <2>2, <2>3, <2>4
  <2> QED
    BY <2>9, <2>10 DEF j, l
<1>8. ReadAlone(front) = [text |-> front, raws |-> << >>, parsed |-> << >>]
  BY <1>3, <1>7, ReadUnended
<1>9. ReadAlone(text) = ReadByte(ReadAlone(front), x[m])
  BY <1>3, <1>4, ReadAloneAppend
<1>10. ReadByte(ReadAlone(front), x[m]) = EndedText(ReadAlone(front), text, d)
  <2>1. ReadAlone(front).text = front
    BY <1>8
  <2>2. Append(ReadAlone(front).text, x[m]) = text
    BY <1>4, <2>1
  <2>3. \A t \in Seq(B) : t = Append(ReadAlone(front).text, x[m]) /\ EndsWith(t, d) =>
          ReadByte(ReadAlone(front), x[m]) = EndedText(ReadAlone(front), t, d)
    BY <1>1, ReadByteEnds
  <2> QED
    BY <1>4, <1>6, <2>2, <2>3
<1>11. EndedText(ReadAlone(front), text, d) =
         [text |-> << >>, raws |-> << SubSeq(x, 1, p - 1) >>,
          parsed |-> Noted(ParseEvent(SubSeq(x, 1, p - 1)))]
  <2>1. /\ ReadAlone(front).raws = << >> /\ ReadAlone(front).parsed = << >>
        /\ SubSeq(text, 1, Len(text) - Len(d)) = SubSeq(x, 1, p - 1)
    <3>1. SubSeq(text, 1, Len(text) - Len(d)) = SubSeq(text, 1, m - Len(d))
      BY <1>4
    <3>2. ReadAlone(front).raws = << >> /\ ReadAlone(front).parsed = << >>
      BY <1>8
    <3>3. SubSeq(text, 1, m - Len(d)) = SubSeq(x, 1, p - 1)
      BY <1>5
    <3> QED
      BY <3>1, <3>2, <3>3
  <2> DEFINE raw == SubSeq(x, 1, p - 1)
  <2>2. raw \in Seq(B)
    BY <1>1, <1>2
  <2>3. << >> \o Noted(ParseEvent(raw)) = Noted(ParseEvent(raw))
    BY <2>2, NotedTyped, ConcatEmptySeq
  <2>4. Append(<< >>, raw) = <<raw>>
    OBVIOUS
  <2> HIDE DEF raw
  <2> QED
    BY <2>1, <2>3, <2>4 DEF EndedText, raw
<1> QED
  BY <1>1, <1>2, <1>9, <1>10, <1>11 DEF text

\* The loop of push takes a text apart as the reference reads it.
LEMMA SplitReads ==
  ASSUME NEW B, NEW text \in Seq(B)
  PROVE  Split(text) = [parsed |-> ReadAlone(text).parsed, rest |-> ReadAlone(text).text]
<1> DEFINE L == Len(text)
           rest(n) == SubSeq(text, n, Len(text))
           body(f, n) ==
             IF Boundaries(rest(n)) = {} THEN [parsed |-> << >>, rest |-> rest(n)]
             ELSE LET b     == Boundary(rest(n))
                      later == f[n + b[1] - 1 + Len(b[2])]
                  IN  [later EXCEPT !.parsed = Noted(ParseEvent(SubSeq(text, n, n + b[1] - 2))) \o @]
           g == [n \in 1..(L + 1) |-> [parsed |-> ReadAlone(rest(n)).parsed,
                                      rest   |-> ReadAlone(rest(n)).text]]
           Fits(f) == f = [n \in 1..(Len(text) + 1) |-> body(f, n)]
           split == CHOOSE f : Fits(f)
           StepsOn(n, p, d) ==
             /\ p \in Nat \ {0} /\ Len(d) \in {2, 4} /\ n + p - 1 + Len(d) \in (n + 2)..(L + 1)
             /\ ReadAlone(rest(n)).parsed =
                  Noted(ParseEvent(SubSeq(text, n, n + p - 2))) \o
                    ReadAlone(rest(n + p - 1 + Len(d))).parsed
             /\ ReadAlone(rest(n)).text = ReadAlone(rest(n + p - 1 + Len(d))).text
<1>0. L \in Nat
  OBVIOUS
<1>1. ASSUME NEW n \in 1..(L + 1)
      PROVE  rest(n) \in Seq(B) /\ Len(rest(n)) = L + 1 - n
  OBVIOUS
<1>2. ASSUME NEW n \in 1..(L + 1), Boundaries(rest(n)) # {},
             NEW p, NEW d, Boundary(rest(n)) = <<p, d>>
      PROVE  StepsOn(n, p, d)
  <2> DEFINE m == p - 1 + Len(d)
             first == SubSeq(rest(n), 1, m)
             other == rest(n + m)
  <2>1. rest(n) \in Seq(B)
    BY <1>1
  <2>2. /\ p \in Nat \ {0} /\ Len(d) \in {2, 4} /\ m \in 2..Len(rest(n))
        /\ ReadAlone(first) =
             [text |-> << >>, raws |-> << SubSeq(rest(n), 1, p - 1) >>,
              parsed |-> Noted(ParseEvent(SubSeq(rest(n), 1, p - 1)))]
    <3> HIDE DEF rest
    <3> QED
      BY <1>2, <2>1, ReadFirst
  <2>3. m \in 2..(L + 1 - n) /\ n + m \in (n + 2)..(L + 1) /\ n + p - 1 + Len(d) = n + m
    <3>1. Len(rest(n)) = L + 1 - n
      BY <1>1
    <3> HIDE DEF rest, L
    <3> QED
      BY <1>0, <2>2, <3>1
  <2>4. /\ SubSeq(rest(n), 1, p - 1) = SubSeq(text, n, n + p - 2)
        /\ first \in Seq(B) /\ other \in Seq(B) /\ rest(n) = first \o other
    <3>1. m \in Nat /\ n + m <= L + 1 /\ m >= 2 /\ p <= m
      <4>1. m \in 2..(L + 1 - n)
        BY <2>3
      <4>2. ASSUME NEW i \in Nat, NEW j \in 2..(i + 1 - n) PROVE j \in Nat /\ n + j <= i + 1 /\ j >= 2
        OBVIOUS
      <4>3. p <= m
        <5>1. \A i \in Nat : \A j \in {2, 4} : i <= i - 1 + j
          OBVIOUS
        <5>2. p \in Nat /\ Len(d) \in {2, 4}
          BY <2>2
        <5> QED
          BY <5>1, <5>2
      <4> HIDE DEF L, m
      <4> QED
        BY <1>0, <4>1, <4>2, <4>3
    <3> HIDE DEF m
    <3>2. n + p - 2 <= L
      BY <2>2, <3>1
    <3>3. SubSeq(rest(n), 1, p - 1) = SubSeq(text, n, n + p - 2)
      BY <1>0, <2>2, <3>1, <3>2
    <3>4. first \in Seq(B) /\ other \in Seq(B) /\ rest(n) = first \o other
      <4>1. m \in 0..(L + 1 - n)
        BY <1>0, <3>1
      <4>2. first = SubSeq(text, n, n + m - 1)
        BY <1>0, <3>1
      <4> HIDE DEF first
      <4> QED
        BY <4>1, <4>2, CutInTwo
    <3> QED
      BY <3>3, <3>4
  <2> HIDE DEF first, other, rest
  <2>5. ReadOn(ReadAlone(first), ReadAlone(first \o other), ReadAlone(ReadAlone(first).text \o other))
    BY <2>4, ReadInParts
  <2>6. ReadAlone(first).text \o other = other
    <3>1. ReadAlone(first).text = << >>
      BY <2>2
    <3> QED
      BY <2>4, <3>1, ConcatEmptySeq
  <2>7. ReadAlone(first).parsed = Noted(ParseEvent(SubSeq(text, n, n + p - 2)))
    <3>1. ReadAlone(first).parsed = Noted(ParseEvent(SubSeq(rest(n), 1, p - 1)))
      BY <2>2
    <3> QED
      BY <2>4, <3>1
  <2>8. /\ ReadAlone(rest(n)).parsed = ReadAlone(first).parsed \o ReadAlone(other).parsed
        /\ ReadAlone(rest(n)).text = ReadAlone(other).text
    BY <2>4, <2>5, <2>6 DEF ReadOn
  <2>9. other = rest(n + p - 1 + Len(d))
    BY <2>3 DEF other
  <2> QED
    BY <2>2, <2>3, <2>7, <2>8, <2>9
<1>3. ASSUME NEW f, NEW n \in 1..(L + 1), \A k \in (n + 1)..(L + 1) : f[k] = g[k]
      PROVE  body(f, n) = g[n]
  <2>1. CASE Boundaries(rest(n)) = {}
    <3>1. ReadAlone(rest(n)) = [text |-> rest(n), raws |-> << >>, parsed |-> << >>]
      BY <1>1, <2>1, ReadUnended
    <3> HIDE DEF rest
    <3> QED
      BY <2>1, <3>1
  <2>2. CASE Boundaries(rest(n)) # {}
    <3> DEFINE p == Boundary(rest(n))[1]
               d == Boundary(rest(n))[2]
               k == n + p - 1 + Len(d)
               new == Noted(ParseEvent(SubSeq(text, n, n + p - 2)))
    <3>1. Boundary(rest(n)) = <<p, d>>
      <4>1. Boundary(rest(n)) \in Boundaries(rest(n))
        BY <1>1, <2>2, BoundaryIsFirst
      <4> HIDE DEF rest
      <4> QED
        BY <4>1 DEF Boundaries
    <3>2. /\ k \in (n + 2)..(L + 1)
          /\ ReadAlone(rest(n)).parsed = new \o ReadAlone(rest(k)).parsed
          /\ ReadAlone(rest(n)).text = ReadAlone(rest(k)).text
      <4> HIDE DEF rest, p, d, L
      <4> HIDE DEF StepsOn
      <4>1. StepsOn(n, p, d)
        BY <1>2, <2>2, <3>1
      <4> QED
        BY <4>1 DEF StepsOn
    <3>3. k \in (n + 1)..(L + 1) /\ k \in 1..(L + 1)
      <4> HIDE DEF k, L
      <4> QED
        BY <1>0, <3>2
    <3>4. f[k] = g[k] /\ g[k] = [parsed |-> ReadAlone(rest(k)).parsed, rest |-> ReadAlone(rest(k)).text]
      <4> HIDE DEF k, rest, L
      <4> QED
        BY <1>3, <3>3
    <3>5. body(f, n) = [f[k] EXCEPT !.parsed = new \o @]
      <4> HIDE DEF rest
      <4> QED
        BY <2>2
    <3>6. g[n] = [parsed |-> ReadAlone(rest(n)).parsed, rest |-> ReadAlone(rest(n)).text]
      <4> HIDE DEF rest, L
      <4> QED
        OBVIOUS
    <3> DEFINE R == ReadAlone(rest(k)).parsed
               T == ReadAlone(rest(k)).text
    <3>7. f[k] = [parsed |-> R, rest |-> T] /\ g[n] = [parsed |-> new \o R, rest |-> T]
      <4> HIDE DEF rest, k, new, g, body
      <4> QED
        BY <3>2, <3>4, <3>6
    <3> HIDE DEF rest, k, new, g, body, R, T
    <3>8. [f[k] EXCEPT !.parsed = new \o @] = [parsed |-> new \o R, rest |-> T]
      <4> DEFINE later == f[k]
      <4>1. later = [parsed |-> R, rest |-> T]
        BY <3>7
      <4> HIDE DEF later
      <4>2. [later EXCEPT !.parsed = new \o @] = [parsed |-> new \o R, rest |-> T]
        <5> DEFINE joined == new \o later.parsed
        <5>1. joined = new \o R
          BY <4>1
        <5> HIDE DEF joined
        <5>2. [later EXCEPT !.parsed = joined] = [parsed |-> joined, rest |-> T]
          BY <4>1
        <5> QED
          BY <5>1, <5>2 DEF joined
      <4> QED
        BY <4>2 DEF later
    <3> QED
      BY <3>5, <3>7, <3>8
  <2> QED
    BY <2>1, <2>2
<1>4. Fits(g)
  <2> HIDE DEF body
  <2>1. \A n \in 1..(L + 1) : body(g, n) = g[n]
    BY <1>3
  <2>2. g = [n \in 1..(L + 1) |-> g[n]]
    OBVIOUS
  <2> HIDE DEF g
  <2>3. [n \in 1..(L + 1) |-> g[n]] = [n \in 1..(L + 1) |-> body(g, n)]
    BY <2>1
  <2> QED
    BY <2>2, <2>3
<1>5. Fits(split)
  <2> HIDE DEF Fits
  <2> QED
    BY <1>4
<1>6. \A n \in 1..(L + 1) : split[n] = body(split, n)
  <2> HIDE DEF split, body
  <2> QED
    BY <1>5
<1> HIDE DEF split, body, g, Fits
<1>7. \A n \in 1..(L + 1) : split[n] = g[n]
  <2> DEFINE Good(j) == \A n \in 1..(L + 1) : L + 1 - n = j => split[n] = g[n]
             S == {j \in Nat : Good(j)}
  <2>1. ASSUME NEW j \in Nat, \A i \in Nat : i < j => i \in S PROVE j \in S
    <3>1. ASSUME NEW n \in 1..(L + 1), L + 1 - n = j PROVE split[n] = g[n]
      <4>1. ASSUME NEW k \in (n + 1)..(L + 1) PROVE split[k] = g[k]
        <5>1. L + 1 - k \in Nat /\ L + 1 - k < j /\ k \in 1..(L + 1)
          BY <1>0, <3>1
        <5> QED
          BY <2>1, <5>1
      <4> QED
        BY <1>3, <1>6, <4>1
    <3> QED
      BY <3>1
  <2>2. Nat \subseteq S
    <3> HIDE DEF S
    <3> QED
      BY <2>1, StrongInduction
  <2>3. ASSUME NEW n \in 1..(L + 1) PROVE split[n] = g[n]
    <3>1. L + 1 - n \in Nat
      BY <1>0
    <3> QED
      BY <2>2, <3>1
  <2> QED
    BY <2>3
<1>8. Split(text) = split[1]
  BY DEF Split, split, Fits, body
<1>9. g[1] = [parsed |-> ReadAlone(text).parsed, rest |-> ReadAlone(text).text]
  <2>1. rest(1) = text /\ 1 \in 1..(L + 1)
    BY <1>0
  <2> HIDE DEF rest, L
  <2> QED
    BY <2>1 DEF g
<1>10. 1 \in 1..(L + 1)
  BY <1>0
<1> HIDE DEF rest, L
<1> QED
  BY <1>7, <1>8, <1>9, <1>10

-----------------------------------------------------------------------------
(* What is handed on. *)

LEMMA HandedOnAll ==
  ASSUME NEW these, Verdict(these) = "reading"
  PROVE  HandedOn(these) = these /\ \A k \in DOMAIN these : Classify(these[k]) = "chunk"
BY DEF Verdict, HandedOn, Stops

LEMMA HandedOnToStop ==
  ASSUME NEW E, NEW these \in Seq(E), Verdict(these) # "reading"
  PROVE  \E m \in DOMAIN these :
           /\ HandedOn(these) = SubSeq(these, 1, m - 1)
           /\ \A k \in 1..(m - 1) : Classify(these[k]) = "chunk"
           /\ Classify(these[m]) # "chunk"
           /\ Verdict(these) \in {"done", "failed"}
           /\ Verdict(these) = "done" <=> Classify(these[m]) = "done"
<1> DEFINE m == Min(Stops(these))
<1>1. Stops(these) # {}
  BY DEF Verdict
<1>2. m \in Stops(these) /\ \A k \in Stops(these) : m <= k
  <2>1. Stops(these) \in SUBSET Nat
    BY DEF Stops
  <2> QED
    BY <1>1, <2>1, MinNatural
<1>3. HandedOn(these) = SubSeq(these, 1, m - 1)
  BY <1>1 DEF HandedOn
<1>4. Verdict(these) = IF Classify(these[m]) = "done" THEN "done" ELSE "failed"
  BY <1>1 DEF Verdict
<1> HIDE DEF m
<1>5. m \in DOMAIN these /\ Classify(these[m]) # "chunk"
  BY <1>2 DEF Stops
<1>6. ASSUME NEW k \in 1..(m - 1) PROVE Classify(these[k]) = "chunk"
  <2>1. k \in DOMAIN these /\ ~(m <= k)
    BY <1>5
  <2> QED
    BY <1>2, <2>1 DEF Stops
<1> QED
  BY <1>3, <1>4, <1>5, <1>6

\* An event is malformed for a cause.
LEMMA MalformedForCause ==
  ASSUME NEW raw, ParseEvent(raw) = MalformedEvent
  PROVE  \/ "unsupported" \in Fields(raw)
         \/ Fields(raw) # {} /\ "data" \notin Fields(raw)
<1> DEFINE lines == LinesOf(raw)
<1>1. \A n \in DOMAIN lines : lines[n] # << >> /\ Field(lines[n]) # "comment" => Field(lines[n]) \in Fields(raw)
  BY DEF Fields, ToSet
<1>2. \A f \in Fields(raw) : f # "comment" /\ \E n \in DOMAIN lines : lines[n] # << >> /\ Field(lines[n]) = f
  BY DEF Fields, ToSet
<1> HIDE DEF lines
<1>3. CASE LinesFor(lines, "unsupported") # {}
  <2>1. PICK n \in DOMAIN lines : lines[n] # << >> /\ Field(lines[n]) = "unsupported"
    BY <1>3 DEF LinesFor
  <2> QED
    BY <1>1, <2>1
<1>4. CASE LinesFor(lines, "unsupported") = {}
  <2> DEFINE others == DOMAIN lines \ LinesFor(lines, "comment")
  <2>1. /\ ~\A n \in others : lines[n] = << >>
        /\ LinesFor(lines, "data") = {}
    BY <1>4 DEF ParseEvent, MalformedEvent, Nothing, lines
  <2>2. PICK n \in DOMAIN lines : lines[n] # << >> /\ Field(lines[n]) # "comment"
    BY <2>1 DEF LinesFor
  <2>3. Fields(raw) # {}
    BY <1>1, <2>2
  <2>4. "data" \notin Fields(raw)
    BY <1>2, <2>1 DEF LinesFor
  <2> QED
    BY <2>3, <2>4
<1> QED
  BY <1>3, <1>4

-----------------------------------------------------------------------------
(* Text: a chunk behind a text is text exactly if it is text by itself. *)

LEMMA TextOfParts ==
  ASSUME NEW B, NEW s \in Seq(B), NEW t \in Seq(B), Utf8(s)
  PROVE  Utf8(s \o t) <=> Utf8(t)
<1> DEFINE u == s \o t
           n == Len(s)
<1>1. /\ n \in Nat /\ Len(t) \in Nat /\ DOMAIN s = 1..n /\ DOMAIN t = 1..Len(t)
      /\ DOMAIN u = 1..(n + Len(t)) /\ Len(u) = n + Len(t)
      /\ \A k \in 1..n : u[k] = s[k]
      /\ \A k \in 1..Len(t) : u[n + k] = t[k]
  OBVIOUS
<1> HIDE DEF u, n
<1>2. \A k \in 1..n : /\ s[k] = Lead => k < n /\ s[k + 1] = Trail
                      /\ s[k] = Trail => k > 1 /\ s[k - 1] = Lead
  BY <1>1 DEF Utf8, n
<1>3. ASSUME Utf8(u) PROVE Utf8(t)
  <2> SUFFICES ASSUME NEW k \in 1..Len(t)
               PROVE  /\ t[k] = Lead => k < Len(t) /\ t[k + 1] = Trail
                      /\ t[k] = Trail => k > 1 /\ t[k - 1] = Lead
    BY <1>1 DEF Utf8
  <2>1. /\ n + k \in DOMAIN u /\ u[n + k] = t[k]
        /\ u[n + k] = Lead => n + k < Len(u) /\ u[n + k + 1] = Trail
        /\ u[n + k] = Trail => n + k > 1 /\ u[n + k - 1] = Lead
    <3>1. n + k \in DOMAIN u /\ u[n + k] = t[k]
      BY <1>1
    <3>2. \A i \in DOMAIN u : /\ u[i] = Lead => i < Len(u) /\ u[i + 1] = Trail
                              /\ u[i] = Trail => i > 1 /\ u[i - 1] = Lead
      BY <1>3 DEF Utf8
    <3> DEFINE i == n + k
    <3>3. i \in DOMAIN u
      BY <3>1
    <3> HIDE DEF i
    <3>4. /\ u[i] = Lead => i < Len(u) /\ u[i + 1] = Trail
          /\ u[i] = Trail => i > 1 /\ u[i - 1] = Lead
      BY <3>2, <3>3
    <3> QED
      BY <1>1, <3>1, <3>4 DEF i
  <2>2. ASSUME t[k] = Lead PROVE k < Len(t) /\ t[k + 1] = Trail
    <3>1. k < Len(t) /\ u[n + k + 1] = Trail
      BY <1>1, <2>1, <2>2
    <3>2. k + 1 \in 1..Len(t) /\ n + (k + 1) = n + k + 1
      BY <1>1, <3>1
    <3> QED
      BY <1>1, <3>1, <3>2
  <2>3. ASSUME t[k] = Trail PROVE k > 1 /\ t[k - 1] = Lead
    <3>1. u[n + k - 1] = Lead
      BY <2>1, <2>3
    <3>2. CASE k = 1
      <4>1. n + k - 1 = n
        BY <1>1, <3>2
      <4>2. n \in 1..n
        BY <1>1, <2>1, <2>3, <3>2
      <4> QED
        BY <1>1, <1>2, <3>1, <4>1, <4>2
    <3>3. CASE k # 1
      <4>1. k - 1 \in 1..Len(t) /\ n + (k - 1) = n + k - 1 /\ k > 1
        BY <1>1, <3>3
      <4> QED
        BY <1>1, <3>1, <4>1
    <3> QED
      BY <3>2, <3>3
  <2> QED
    BY <2>2, <2>3
<1>4. ASSUME Utf8(t) PROVE Utf8(u)
  <2> SUFFICES ASSUME NEW k \in 1..(n + Len(t))
               PROVE  /\ u[k] = Lead => k < Len(u) /\ u[k + 1] = Trail
                      /\ u[k] = Trail => k > 1 /\ u[k - 1] = Lead
    BY <1>1 DEF Utf8
  <2>1. CASE k \in 1..n
    <3>1. u[k] = Lead => k + 1 \in 1..n
      BY <1>1, <1>2, <2>1
    <3>2. u[k] = Trail => k - 1 \in 1..n
      BY <1>1, <1>2, <2>1
    <3> QED
      BY <1>1, <1>2, <2>1, <3>1, <3>2
  <2>2. CASE k \notin 1..n
    <3> DEFINE j == k - n
    <3>1. j \in 1..Len(t) /\ k = n + j
      BY <1>1, <2>2
    <3> HIDE DEF j
    <3>2. /\ u[k] = t[j]
          /\ t[j] = Lead => j < Len(t) /\ t[j + 1] = Trail
          /\ t[j] = Trail => j > 1 /\ t[j - 1] = Lead
      BY <1>1, <1>4, <3>1 DEF Utf8
    <3>3. ASSUME t[j] = Lead PROVE k < Len(u) /\ u[k + 1] = Trail
      <4>0. j < Len(t) /\ j \in Nat
        BY <3>1, <3>2, <3>3
      <4>1. j + 1 \in 1..Len(t) /\ n + (j + 1) = k + 1
        BY <1>1, <3>1, <4>0
      <4> QED
        BY <1>1, <3>1, <3>2, <3>3, <4>1
    <3>4. ASSUME t[j] = Trail PROVE k > 1 /\ u[k - 1] = Lead
      <4>1. j - 1 \in 1..Len(t) /\ n + (j - 1) = k - 1
        BY <1>1, <3>1, <3>2, <3>4
      <4> QED
        BY <1>1, <3>1, <3>2, <3>4, <4>1
    <3> QED
      BY <3>2, <3>3, <3>4
  <2> QED
    BY <2>1, <2>2
<1> QED
  BY <1>3, <1>4 DEF u

-----------------------------------------------------------------------------
(* The invariant. *)

\* Every event handed on was one to hand on.
OnlyChunks == \A n \in DOMAIN handed : Classify(handed[n]) = "chunk"

\* While the stream is read, all of it has been taken apart as the reference does.
ReadSoFar ==
  phase = "reading" => /\ pending = ReadAlone(BytesReceived).text
                    /\ handed = Arrived
                    /\ Utf8(BytesReceived)

\* What was handed on is a beginning of what has arrived.
InOrder == IsPrefix(handed, Arrived)

\* The stream is done where [DONE] is the next event.
DoneBehind ==
  phase = "done" => /\ Len(handed) < Len(Arrived)
                 /\ Classify(Arrived[Len(handed) + 1]) = "done"

TypeInv ==
  /\ wire \in Wires
  /\ taken \in 0..Len(wire)
  /\ phase \in {"reading", "done", "failed", "broken"}

ParserInv ==
  /\ TypeInv
  /\ ReadSoFar
  /\ OnlyChunks
  /\ InOrder
  /\ DoneBehind
  /\ FailsForCause

LEMMA InitParser == SseInit => ParserInv
<1> SUFFICES ASSUME SseInit PROVE ParserInv
  OBVIOUS
<1>1. phase = "reading" /\ wire \in Wires /\ taken = 0 /\ pending = << >> /\ handed = << >>
  BY DEF SseInit
<1>2. wire \in Seq(ToSet(wire))
  BY <1>1, WiresAssumption
<1>3. BytesReceived = << >>
  BY <1>1, <1>2 DEF BytesReceived
<1>4. /\ ReadAlone(BytesReceived).text = << >> /\ Arrived = << >>
  BY <1>3, ReadAloneEmpty DEF Nought, Arrived
<1>5. Utf8(BytesReceived)
  BY <1>3 DEF Utf8
<1>6. TypeInv
  BY <1>1, <1>2 DEF TypeInv
<1>7. IsPrefix(<< >>, << >>)
  BY DEF IsPrefix
<1> QED
  BY <1>1, <1>4, <1>5, <1>6, <1>7
  DEF ParserInv, ReadSoFar, OnlyChunks, InOrder, DoneBehind, FailsForCause

\* What a chunk adds to what the reference has read.
LEMMA ChunkReads ==
  ASSUME ParserInv, phase = "reading", NEW n \in 1..(Len(wire) - taken), wire' = wire, taken' = taken + n
  PROVE  LET chunk == SubSeq(wire, taken + 1, taken + n)
             split == Split(pending \o chunk)
             part  == ReadAlone(pending \o chunk)
             B     == ToSet(wire)
         IN  /\ TypeInv' <=> phase' \in {"reading", "done", "failed", "broken"}
             /\ chunk \in Seq(B) /\ BytesReceived \in Seq(B) /\ BytesReceived' = BytesReceived \o chunk
             /\ split = [parsed |-> part.parsed, rest |-> ReadAlone(BytesReceived').text]
             /\ part \in Readings(B) /\ ReadAlone(BytesReceived) \in Readings(B)
             /\ ReadAlone(BytesReceived').raws = ReadAlone(BytesReceived).raws \o part.raws
             /\ Arrived' = Arrived \o part.parsed
             /\ Utf8(BytesReceived') <=> Utf8(chunk)
<1> DEFINE B == ToSet(wire)
           chunk == SubSeq(wire, taken + 1, taken + n)
           part == ReadAlone(pending \o chunk)
<1>1. /\ wire \in Seq(B) /\ taken \in 0..Len(wire) /\ wire \in Wires
      /\ pending = ReadAlone(BytesReceived).text /\ Utf8(BytesReceived)
  BY WiresAssumption DEF ParserInv, TypeInv, ReadSoFar
<1> HIDE DEF B
<1>2. TypeInv' <=> phase' \in {"reading", "done", "failed", "broken"}
  <2>1. wire' \in Wires /\ taken' \in 0..Len(wire')
    BY <1>1
  <2> QED
    BY <2>1 DEF TypeInv
<1>3. /\ chunk \in Seq(B) /\ BytesReceived \in Seq(B) /\ BytesReceived' = BytesReceived \o chunk
  <2>1. /\ SubSeq(wire, 1, taken) \in Seq(B) /\ chunk \in Seq(B)
        /\ SubSeq(wire, 1, taken + n) = SubSeq(wire, 1, taken) \o chunk
    <3> DEFINE front == SubSeq(wire, 1, taken + n)
    <3>1. front \in Seq(B) /\ Len(front) = taken + n
      BY <1>1
    <3>2. /\ SubSeq(front, 1, taken) = SubSeq(wire, 1, taken)
          /\ SubSeq(front, taken + 1, taken + n) = chunk
          /\ SubSeq(front, 1, taken + n) = front
      BY <1>1
    <3> HIDE DEF front, chunk
    <3>3. taken \in 0..(Len(front) + 1 - 1) /\ 1 \in 1..(Len(front) + 1)
      BY <1>1, <3>1
    <3>4. /\ SubSeq(front, 1, 1 + taken - 1) \in Seq(B) /\ SubSeq(front, 1 + taken, Len(front)) \in Seq(B)
          /\ SubSeq(front, 1, Len(front)) = SubSeq(front, 1, 1 + taken - 1) \o SubSeq(front, 1 + taken, Len(front))
      BY <3>1, <3>3, CutInTwo
    <3>5. 1 + taken - 1 = taken /\ 1 + taken = taken + 1
      BY <1>1
    <3> QED
      BY <3>1, <3>2, <3>4, <3>5 DEF front
  <2> QED
    BY <2>1 DEF BytesReceived
<1> HIDE DEF chunk
<1>4. ReadAlone(BytesReceived) \in Readings(B) /\ pending \in Seq(B)
  BY <1>1, <1>3, ReadAloneTyped DEF Readings
<1>5. pending \o chunk \in Seq(B)
  BY <1>3, <1>4
<1>6. part \in Readings(B)
  BY <1>5, ReadAloneTyped
<1>7. ReadOn(ReadAlone(BytesReceived), ReadAlone(BytesReceived'), part)
  BY <1>1, <1>3, ReadInParts
<1>8. Split(pending \o chunk) = [parsed |-> part.parsed, rest |-> part.text]
  BY <1>5, SplitReads
<1>9. Utf8(BytesReceived') <=> Utf8(chunk)
  BY <1>1, <1>3, TextOfParts
<1> HIDE DEF part
<1> QED
  BY <1>2, <1>3, <1>4, <1>6, <1>7, <1>8, <1>9 DEF ReadOn, Arrived, B, chunk, part

LEMMA ChunkHandled == ASSUME ParserInv, TakeChunk PROVE ParserInv'
<1> DEFINE B == ToSet(wire)
           E == {ParseEvent(raw) : raw \in Seq(B)}
<1>1. PICK n \in 1..(Len(wire) - taken) :
        LET chunk == SubSeq(wire, taken + 1, taken + n)
            split == Split(pending \o chunk)
        IN  /\ taken' = taken + n
            /\ \/ /\ ~Utf8(chunk) \/ \E k \in DOMAIN split.parsed : split.parsed[k] = MalformedEvent
                  /\ phase' = "failed"
                  /\ UNCHANGED <<pending, handed>>
               \/ /\ Utf8(chunk) /\ \A k \in DOMAIN split.parsed : split.parsed[k] # MalformedEvent
                  /\ phase' = Verdict(split.parsed)
                  /\ pending' = split.rest
                  /\ handed' = handed \o HandedOn(split.parsed)
  BY DEF TakeChunk
<1> DEFINE chunk == SubSeq(wire, taken + 1, taken + n)
           split == Split(pending \o chunk)
           part == ReadAlone(pending \o chunk)
           P == part.parsed
<1>2. phase = "reading" /\ wire' = wire /\ taken' = taken + n
  BY <1>1 DEF TakeChunk
<1>3. /\ TypeInv' <=> phase' \in {"reading", "done", "failed", "broken"}
      /\ split = [parsed |-> P, rest |-> ReadAlone(BytesReceived').text]
      /\ part \in Readings(B) /\ ReadAlone(BytesReceived) \in Readings(B)
      /\ ReadAlone(BytesReceived').raws = ReadAlone(BytesReceived).raws \o part.raws
      /\ Arrived' = Arrived \o P
      /\ Utf8(BytesReceived') <=> Utf8(chunk)
  BY <1>2, ChunkReads
<1>4. handed = Arrived /\ OnlyChunks
  BY <1>2 DEF ParserInv, ReadSoFar
<1>5. /\ P \in Seq(E) /\ Arrived \in Seq(E)
      /\ part.raws \in Seq(Seq(B)) /\ ReadAlone(BytesReceived).raws \in Seq(Seq(B))
      /\ \A k \in DOMAIN P : \E j \in DOMAIN part.raws : P[k] = ParseEvent(part.raws[j])
  BY <1>3 DEF Readings, Arrived
<1> HIDE DEF B, E, chunk, P, part
<1>6. \A k \in DOMAIN P : \E raw \in ToSet(ReadAlone(BytesReceived').raws) : P[k] = ParseEvent(raw)
  <2> SUFFICES ASSUME NEW k \in DOMAIN P
               PROVE  \E raw \in ToSet(ReadAlone(BytesReceived').raws) : P[k] = ParseEvent(raw)
    OBVIOUS
  <2> DEFINE before == ReadAlone(BytesReceived).raws
             new == part.raws
  <2>1. PICK j \in DOMAIN new : P[k] = ParseEvent(new[j])
    BY <1>5
  <2>2. before \in Seq(Seq(B)) /\ new \in Seq(Seq(B)) /\ ReadAlone(BytesReceived').raws = before \o new
    BY <1>3, <1>5
  <2> HIDE DEF before, new
  <2>3. Len(before) + j \in DOMAIN (before \o new) /\ (before \o new)[Len(before) + j] = new[j]
    BY <2>1, <2>2
  <2> QED
    BY <2>1, <2>2, <2>3 DEF ToSet
<1>7. /\ taken' = taken + n
      /\ \/ /\ ~Utf8(chunk) \/ \E k \in DOMAIN P : P[k] = MalformedEvent
            /\ phase' = "failed"
            /\ UNCHANGED <<pending, handed>>
         \/ /\ Utf8(chunk)
            /\ phase' = Verdict(P)
            /\ pending' = ReadAlone(BytesReceived').text
            /\ handed' = handed \o HandedOn(P)
  <2>1. split.parsed = P /\ split.rest = ReadAlone(BytesReceived').text
    BY <1>3
  <2> QED
    BY <1>1, <2>1 DEF chunk
<1>8. CASE /\ ~Utf8(chunk) \/ \E k \in DOMAIN P : P[k] = MalformedEvent
           /\ phase' = "failed"
           /\ UNCHANGED <<pending, handed>>
  <2>1. IsPrefix(handed', Arrived')
    BY <1>3, <1>4, <1>5, <1>8, ConcatIsPrefix
  <2>2. OnlyChunks'
    BY <1>4, <1>8 DEF OnlyChunks
  <2>3. FailsForCause'
    <3>1. CASE ~Utf8(chunk)
      BY <1>3, <3>1 DEF FailsForCause
    <3>2. CASE \E k \in DOMAIN P : P[k] = MalformedEvent
      <4>1. PICK raw \in ToSet(ReadAlone(BytesReceived').raws) : ParseEvent(raw) = MalformedEvent
        BY <1>6, <3>2
      <4>2. "unsupported" \in Fields(raw) \/ (Fields(raw) # {} /\ "data" \notin Fields(raw))
        BY <4>1, MalformedForCause
      <4> QED
        BY <4>1, <4>2 DEF FailsForCause
    <3> QED
      BY <1>8, <3>1, <3>2
  <2> QED
    BY <1>3, <1>8, <2>1, <2>2, <2>3 DEF ParserInv, ReadSoFar, InOrder, DoneBehind
<1>9. CASE /\ Utf8(chunk)
           /\ phase' = Verdict(P)
           /\ pending' = ReadAlone(BytesReceived').text
           /\ handed' = handed \o HandedOn(P)
  <2>1. CASE Verdict(P) = "reading"
    <3>1. HandedOn(P) = P /\ \A k \in DOMAIN P : Classify(P[k]) = "chunk"
      BY <2>1, HandedOnAll
    <3>2. handed' = Arrived' /\ phase' = "reading"
      BY <1>3, <1>4, <1>9, <2>1, <3>1
    <3>3. Arrived' \in Seq(E) /\ IsPrefix(handed', Arrived')
      <4>1. Arrived' \in Seq(E)
        BY <1>3, <1>5
      <4>2. SubSeq(handed', 1, Len(handed')) = SubSeq(Arrived', 1, Len(handed'))
        BY <3>2
      <4> QED
        BY <3>2, <4>1, <4>2 DEF IsPrefix
    <3>4. OnlyChunks'
      <4>1. \A k \in DOMAIN Arrived : Classify(Arrived[k]) = "chunk"
        BY <1>4 DEF OnlyChunks
      <4>2. \A k \in DOMAIN (Arrived \o P) : Classify((Arrived \o P)[k]) = "chunk"
        BY <1>5, <3>1, <4>1
      <4> QED
        BY <1>3, <3>2, <4>2 DEF OnlyChunks
    <3> QED
      BY <1>3, <1>9, <3>2, <3>3, <3>4 DEF ParserInv, ReadSoFar, InOrder, DoneBehind, FailsForCause
  <2>2. CASE Verdict(P) # "reading"
    <3>1. PICK m \in DOMAIN P :
            /\ HandedOn(P) = SubSeq(P, 1, m - 1)
            /\ \A k \in 1..(m - 1) : Classify(P[k]) = "chunk"
            /\ Classify(P[m]) # "chunk"
            /\ Verdict(P) \in {"done", "failed"}
            /\ Verdict(P) = "done" <=> Classify(P[m]) = "done"
      BY <1>5, <2>2, HandedOnToStop
    <3> DEFINE front == SubSeq(P, 1, m - 1)
               back == SubSeq(P, m, Len(P))
    <3>2. /\ front \in Seq(E) /\ back \in Seq(E) /\ P = front \o back
          /\ Len(front) = m - 1 /\ \A k \in 1..(m - 1) : front[k] = P[k]
      <4>1. m \in 1..Len(P) /\ Len(P) \in Nat /\ P \in Seq(E)
        BY <1>5
      <4>2. /\ Len(front) = m - 1 /\ \A k \in 1..(m - 1) : front[k] = P[k]
        BY <4>1
      <4>3. m - 1 \in 0..(Len(P) + 1 - 1) /\ 1 \in 1..(Len(P) + 1)
        BY <4>1
      <4>4. /\ SubSeq(P, 1, 1 + (m - 1) - 1) \in Seq(E) /\ SubSeq(P, 1 + (m - 1), Len(P)) \in Seq(E)
            /\ SubSeq(P, 1, Len(P)) = SubSeq(P, 1, 1 + (m - 1) - 1) \o SubSeq(P, 1 + (m - 1), Len(P))
        BY <4>1, <4>3, CutInTwo
      <4>5. 1 + (m - 1) - 1 = m - 1 /\ 1 + (m - 1) = m /\ SubSeq(P, 1, Len(P)) = P
        BY <4>1
      <4> QED
        BY <4>2, <4>4, <4>5
    <3> HIDE DEF front, back
    <3>3. handed' = Arrived \o front
      BY <1>4, <1>9, <3>1 DEF front
    <3>4. Arrived' = (Arrived \o front) \o back
      <4>1. \A x, y, z \in Seq(E) : (x \o y) \o z = x \o (y \o z)
        BY ConcatAssociative, SMTT(30)
      <4> QED
        BY <1>3, <1>5, <3>2, <4>1, ZenonT(30)
    <3>5. Arrived \o front \in Seq(E)
      BY <1>5, <3>2
    <3>6. IsPrefix(handed', Arrived')
      BY <3>2, <3>3, <3>4, <3>5, ConcatIsPrefix
    <3>7. OnlyChunks'
      <4>1. \A k \in DOMAIN Arrived : Classify(Arrived[k]) = "chunk"
        BY <1>4 DEF OnlyChunks
      <4>2. \A k \in DOMAIN front : Classify(front[k]) = "chunk"
        BY <3>1, <3>2
      <4>3. \A k \in DOMAIN (Arrived \o front) : Classify((Arrived \o front)[k]) = "chunk"
        <5>1. Arrived \in Seq(E) /\ front \in Seq(E)
          BY <1>5, <3>2
        <5>2. SUFFICES ASSUME NEW k \in DOMAIN (Arrived \o front)
                       PROVE  Classify((Arrived \o front)[k]) = "chunk"
          OBVIOUS
        <5>3. \/ k \in DOMAIN Arrived /\ (Arrived \o front)[k] = Arrived[k]
              \/ \E j \in DOMAIN front : (Arrived \o front)[k] = front[j]
          BY <5>1, JoinedParts
        <5> QED
          BY <4>1, <4>2, <5>3
      <4> QED
        BY <3>3, <4>3 DEF OnlyChunks
    <3>8. /\ Len(handed') < Len(Arrived')
          /\ Arrived'[Len(handed') + 1] = P[m]
      <4>1. /\ Len(handed') = Len(Arrived) + m - 1 /\ Len(Arrived') = Len(Arrived) + Len(P)
            /\ Len(Arrived) \in Nat /\ m \in 1..Len(P) /\ Len(P) \in Nat
        <5>1. /\ Len(Arrived \o front) = Len(Arrived) + Len(front)
              /\ Len(Arrived \o P) = Len(Arrived) + Len(P)
              /\ Len(Arrived) \in Nat /\ m \in 1..Len(P) /\ Len(P) \in Nat
          <6>1. \A x, y \in Seq(E) : Len(x \o y) = Len(x) + Len(y) /\ Len(x) \in Nat
            OBVIOUS
          <6>2. DOMAIN P = 1..Len(P)
            BY <1>5
          <6> QED
            BY <1>5, <3>2, <6>1, <6>2
        <5> QED
          BY <1>3, <3>2, <3>3, <5>1
      <4>2. Len(Arrived) + m \in 1..(Len(Arrived) + Len(P)) /\ Len(handed') + 1 = Len(Arrived) + m
        BY <4>1
      <4>3. (Arrived \o P)[Len(Arrived) + m] = P[m]
        <5>1. /\ Arrived \in Seq(E) /\ P \in Seq(E)
              /\ m \in 1..Len(P) /\ Len(P) \in Nat /\ Len(Arrived) \in Nat
          BY <1>5, <4>1
        <5> QED
          BY <5>1, JoinedBehind
      <4>4. Len(handed') < Len(Arrived')
        BY <4>1
      <4>5. Arrived'[Len(handed') + 1] = P[m]
        BY <1>3, <4>2, <4>3
      <4> QED
        BY <4>4, <4>5
    <3>9. DoneBehind'
      BY <1>9, <3>1, <3>8 DEF DoneBehind
    <3>10. FailsForCause'
      <4>1. SUFFICES ASSUME phase' = "failed" PROVE FailsForCause'
        BY DEF FailsForCause
      <4>2. Classify(P[m]) \notin {"chunk", "done"}
        BY <1>9, <3>1, <4>1
      <4>3. PICK raw \in ToSet(ReadAlone(BytesReceived').raws) : P[m] = ParseEvent(raw)
        BY <1>6
      <4> QED
        BY <4>2, <4>3 DEF FailsForCause
    <3> QED
      BY <1>3, <1>9, <3>1, <3>6, <3>7, <3>9, <3>10 DEF ParserInv, ReadSoFar, InOrder
  <2> QED
    BY <2>1, <2>2
<1> QED
  BY <1>7, <1>8, <1>9

LEMMA NextParser == ParserInv /\ [SseNext]_sseVars => ParserInv'
<1> SUFFICES ASSUME ParserInv, [SseNext]_sseVars PROVE ParserInv'
  OBVIOUS
<1>1. CASE TakeChunk
  BY <1>1, ChunkHandled
<1>2. ASSUME UNCHANGED <<wire, taken, handed>> PROVE /\ BytesReceived' = BytesReceived /\ Arrived' = Arrived
                                                     /\ OnlyChunks' = OnlyChunks /\ InOrder' = InOrder
  BY <1>2 DEF BytesReceived, Arrived, OnlyChunks, InOrder
<1>3. CASE ConnectionLost
  <2>1. phase' = "broken" /\ UNCHANGED <<wire, taken, pending, handed>>
    BY <1>3 DEF ConnectionLost
  <2> QED
    BY <1>2, <2>1 DEF ParserInv, TypeInv, ReadSoFar, DoneBehind, FailsForCause
<1>4. CASE UNCHANGED sseVars
  <2>1. UNCHANGED <<phase, wire, taken, pending, handed>>
    BY <1>4 DEF sseVars
  <2> QED
    BY <1>2, <2>1 DEF ParserInv, TypeInv, ReadSoFar, DoneBehind, FailsForCause
<1> QED
  BY <1>1, <1>3, <1>4 DEF SseNext, StreamOver

(* The parser has made of the bytes so far what one that reads byte by byte makes of them,
   and what it has handed on is usable and in order (SseEventParser::push,
   next_sse_events). *)
THEOREM ParserCorrect == SseSpec => []ParserInv
BY InitParser, NextParser, PTL DEF SseSpec

(* The events do not depend on how the network cuts the bytes, whatever the upstream sends
   (SseEventParser::push, sse_event_boundary). *)
THEOREM CutsTheorem == SseSpec => []CutsDoNotMatter
<1>1. ParserInv => CutsDoNotMatter
  BY DEF ParserInv, ReadSoFar, InOrder, DoneBehind, CutsDoNotMatter
<1> QED
  BY <1>1, ParserCorrect, PTL

(* Where a stream fails, the events handed on are a beginning of those that arrived: none
   is skipped and none behind a bad one is used (next_sse_events, classify_upstream_event). *)
THEOREM OrderTheorem == SseSpec => []FailureKeepsOrder
<1>1. ParserInv => FailureKeepsOrder
  BY DEF ParserInv, InOrder, OnlyChunks, FailureKeepsOrder
<1> QED
  BY <1>1, ParserCorrect, PTL

(* A stream fails only for an event that is malformed or refused, or for bytes that are no
   text by themselves (parse_sse_event, next_sse_events). *)
THEOREM CauseTheorem == SseSpec => []FailsForCause
<1>1. ParserInv => FailsForCause
  BY DEF ParserInv
<1> QED
  BY <1>1, ParserCorrect, PTL

-----------------------------------------------------------------------------
(***************************************************************************)
(* The plain answers.                                                       *)
(***************************************************************************)
-----------------------------------------------------------------------------
LEMMA TextOfType ==
  ASSUME NEW field \in Seq(Symbol) \cup {None}
  PROVE  TextOf(field) \in Seq(Symbol)
BY DEF TextOf

\* Adding to a text extends it.
LEMMA ConcatExtends ==
  ASSUME NEW text \in Seq(Symbol), NEW more \in Seq(Symbol)
  PROVE  /\ text \o more \in Seq(Symbol)
         /\ Abstract!Extends(text \o more, text)
BY DEF Abstract!Extends

LEMMA ExtendsItself ==
  ASSUME NEW text \in Seq(Symbol)
  PROVE  Abstract!Extends(text, text)
BY DEF Abstract!Extends

-----------------------------------------------------------------------------
(***************************************************************************)
(* Type correctness (the state of both transformers, src/src/http.rs).      *)
(***************************************************************************)
LEMMA TypeStep == ASSUME TypeOK, [Next]_vars PROVE TypeOK'
<1>1. CASE TakeChoice
  <2> PICK choice \in UpstreamChoices :
        /\ StreamTakesChoice(choice)
        /\ WholeTakesChoice(choice)
        /\ orderly' = (orderly /\ client.reason = None)
    BY <1>1 DEF TakeChoice
  <2>1. choice \in Choice
    BY BoundAssumption
  <2>2. /\ TextOf(choice.content) \in Seq(Symbol)
        /\ TextOf(choice.reasoning) \in Seq(Symbol)
        /\ choice.finish \in Reasons \cup {None}
    BY <2>1, TextOfType DEF Choice
  <2>3. client' \in Received /\ stream' \in {"reading", "done", "broken", "gone"}
        /\ finished' \in BOOLEAN /\ sent_role' \in BOOLEAN
    <3>1. CASE stream = "reading" /\ ~StreamRefuses(choice) /\ StreamChoice(choice)
      <4>1. /\ client.text \o TextOf(choice.content) \in Seq(Symbol)
            /\ client.reasoning \o TextOf(choice.reasoning) \in Seq(Symbol)
        BY <2>2 DEF TypeOK, Received
      <4>2. sent_role' \in BOOLEAN /\ finished' \in BOOLEAN
        BY <3>1 DEF TypeOK, StreamChoice
      <4>3. client' \in Received
        <5> DEFINE reason == IF choice.finish = None THEN client.reason ELSE choice.finish
                   roles == IF Delta(choice) /\ ~sent_role THEN client.roles + 1 ELSE client.roles
        <5>1. reason \in Reasons \cup {None} /\ roles \in Nat
          BY <2>2 DEF TypeOK, Received
        <5>2. client' = [client EXCEPT !.text = @ \o TextOf(choice.content),
                                       !.reasoning = @ \o TextOf(choice.reasoning),
                                       !.reason = reason, !.roles = roles]
          BY <3>1 DEF StreamChoice
        <5> HIDE DEF reason, roles
        <5> QED
          BY <4>1, <5>1, <5>2 DEF TypeOK, Received
      <4> QED
        BY <3>1, <4>2, <4>3 DEF StreamChoice
    <3>2. CASE UNCHANGED <<finished, sent_role, client>> /\ stream' \in {"broken", stream}
      BY <3>2 DEF TypeOK
    <3> QED
      BY <3>1, <3>2 DEF StreamTakesChoice
  <2>4. buffer' \in Buffer /\ whole' \in {"reading", "done", "failed"}
    <3>1. CASE whole = "reading" /\ Accepts(buffer, choice) /\ buffer' = Add(buffer, choice)
               /\ UNCHANGED whole
      <4>1. /\ buffer.content \o TextOf(choice.content) \in Seq(Symbol)
            /\ buffer.reasoning \o TextOf(choice.reasoning) \in Seq(Symbol)
        BY <2>2 DEF TypeOK, Buffer
      <4>2. choice.index \in Nat
        BY <2>1, <3>1 DEF Choice, Accepts
      <4> QED
        BY <2>2, <3>1, <4>1, <4>2 DEF TypeOK, Buffer, Add
    <3>2. CASE UNCHANGED buffer /\ whole' \in {"failed", whole}
      BY <3>2 DEF TypeOK
    <3> QED
      BY <3>1, <3>2 DEF WholeTakesChoice
  <2> QED
    BY <1>1, <2>3, <2>4 DEF TypeOK, TakeChoice
<1>2. CASE TakeUsage
  <2> DEFINE usage == client.usage \/ (stream = "reading" /\ IncludeUsage)
  <2>1. usage \in BOOLEAN
    BY BoundAssumption DEF TypeOK, Received
  <2>2. client' = [client EXCEPT !.usage = usage]
    BY <1>2 DEF TakeUsage
  <2> HIDE DEF usage
  <2>3. client' \in Received
    BY <2>1, <2>2 DEF TypeOK, Received
  <2>4. buffer' \in Buffer
    BY <1>2 DEF TypeOK, TakeUsage, AddUsage, Buffer
  <2> QED
    BY <1>2, <2>3, <2>4 DEF TypeOK, TakeUsage
<1>3. CASE TakeDone
  <2>1. stream' \in {"done", stream} /\ client' \in Received /\ finished' \in BOOLEAN
        /\ UNCHANGED sent_role
    BY <1>3, ReasonAssumption DEF TypeOK, TakeDone, StreamTakesDone, Received
  <2>2. whole' \in {"done", "failed", whole} /\ buffer' \in Buffer
    BY <1>3, ReasonAssumption DEF TypeOK, TakeDone, WholeTakesDone, Completion, Buffer
  <2> QED
    BY <1>3, <2>1, <2>2 DEF TypeOK, TakeDone
<1>4. CASE BreakOff \/ Leave \/ Over \/ UNCHANGED vars
  BY <1>4 DEF TypeOK, BreakOff, Leave, Over, vars
<1> QED
  BY <1>1, <1>2, <1>3, <1>4 DEF Next

LEMMA TypeInit == Init => TypeOK
<1> SUFFICES ASSUME Init PROVE TypeOK
  OBVIOUS
<1>1. << >> \in Seq(Symbol)
  OBVIOUS
<1>2. client \in Received
  BY <1>1 DEF Init, Received
<1>3. buffer \in Buffer
  BY <1>1 DEF Init, Buffer, NewBuffer
<1> QED
  BY <1>2, <1>3, BoundAssumption DEF Init, TypeOK

THEOREM ChatStreamTypes == Spec => []TypeOK
<1> QED
  BY TypeInit, TypeStep, PTL DEF Spec

-----------------------------------------------------------------------------
(***************************************************************************)
(* One choice, taken by both paths.                                         *)
(***************************************************************************)
LEMMA ChoiceStep ==
  ASSUME IInv, TypeOK', TakeChoice
  PROVE  IInv'
<1> PICK choice \in UpstreamChoices :
      /\ StreamTakesChoice(choice)
      /\ WholeTakesChoice(choice)
  BY DEF TakeChoice
<1>1. /\ choice \in Choice
      /\ choice.finish \in Reasons \cup {None}
      /\ choice.content \in Seq(Symbol) \cup {None}
      /\ choice.reasoning \in Seq(Symbol) \cup {None}
  BY BoundAssumption DEF Choice
<1>2. StreamRefuses(choice) => ~Accepts(buffer, choice)
  BY DEF StreamRefuses, Accepts
<1>3. BufferIsStricter'
  BY <1>2 DEF StreamTakesChoice, StreamChoice, WholeTakesChoice, IInv, BufferIsStricter, InStep
<1>4. InStep'
  <2>1. /\ (stream = "reading" => whole \in {"reading", "failed"})'
        /\ (whole = "reading" => stream \in {"reading", "gone"})'
    BY <1>2 DEF StreamTakesChoice, StreamChoice, WholeTakesChoice, IInv, InStep, TypeOK
  <2>2. ASSUME stream' = "reading", whole' = "reading"
        PROVE  AnswersAgree'
    <3>1. /\ stream = "reading" /\ StreamChoice(choice)
          /\ whole = "reading" /\ buffer' = Add(buffer, choice)
      BY <2>2 DEF StreamTakesChoice, WholeTakesChoice
    <3>2. AnswersAgree /\ client \in Received /\ buffer \in Buffer
      BY <3>1 DEF IInv, InStep, TypeOK
    <3>3. /\ client'.text = client.text \o TextOf(choice.content)
          /\ client'.reasoning = client.reasoning \o TextOf(choice.reasoning)
          /\ client'.reason = IF choice.finish = None THEN client.reason ELSE choice.finish
          /\ client'.usage = client.usage
      BY <3>1, <3>2 DEF StreamChoice, Received
    <3>4. /\ buffer'.content = buffer.content \o TextOf(choice.content)
          /\ buffer'.reasoning = buffer.reasoning \o TextOf(choice.reasoning)
          /\ buffer'.finish = IF choice.finish = None THEN buffer.finish ELSE choice.finish
          /\ buffer'.usage = buffer.usage
      BY <3>1, <3>2 DEF Add, Buffer
    <3> QED
      BY <3>2, <3>3, <3>4 DEF AnswersAgree
  <2> QED
    BY <2>1, <2>2 DEF InStep
<1>5. SameAnswer'
  <2>1. stream' = "done" /\ whole' = "done" => UNCHANGED <<stream, whole, client, buffer>>
    BY DEF StreamTakesChoice, StreamChoice, WholeTakesChoice
  <2> QED
    BY <2>1 DEF IInv, SameAnswer, AnswersAgree
<1>6. FinishRemembered' /\ RoleRemembered'
  <2>1. CASE StreamChoice(choice)
    <3>1. client \in Received /\ sent_role \in BOOLEAN /\ finished \in BOOLEAN
      BY DEF IInv, TypeOK
    <3>2. /\ client'.text = client.text \o TextOf(choice.content)
          /\ client'.reasoning = client.reasoning \o TextOf(choice.reasoning)
          /\ client'.reason = IF choice.finish = None THEN client.reason ELSE choice.finish
          /\ client'.roles = IF Delta(choice) /\ ~sent_role THEN client.roles + 1 ELSE client.roles
      BY <2>1, <3>1 DEF StreamChoice, Received
    <3>3. finished' <=> finished \/ choice.finish # None
      BY <2>1 DEF StreamChoice
    <3>4. sent_role' <=> sent_role \/ Delta(choice)
      BY <2>1 DEF StreamChoice
    <3>5. FinishRemembered'
      BY <3>2, <3>3 DEF IInv, FinishRemembered
    <3>6. client'.roles = IF sent_role' THEN 1 ELSE 0
      BY <3>2, <3>4 DEF IInv, RoleRemembered
    <3>7. ASSUME ~sent_role' PROVE client'.text = << >> /\ client'.reasoning = << >>
      <4>1. ~sent_role /\ choice.content = None /\ choice.reasoning = None
        BY <3>4, <3>7 DEF Delta
      <4>2. client.text = << >> /\ client.reasoning = << >>
        BY <4>1 DEF IInv, RoleRemembered
      <4>3. client'.text = << >> \o << >> /\ client'.reasoning = << >> \o << >>
        BY <3>2, <4>1, <4>2 DEF TextOf
      <4> QED
        BY <4>3
    <3> QED
      BY <3>5, <3>6, <3>7 DEF RoleRemembered
  <2>2. CASE UNCHANGED <<finished, sent_role, client>>
    BY <2>2 DEF IInv, FinishRemembered, RoleRemembered
  <2> QED
    BY <2>1, <2>2 DEF StreamTakesChoice
<1> QED
  BY <1>3, <1>4, <1>5, <1>6 DEF IInv

(***************************************************************************)
(* [DONE], which gives both a finish if there was none.                     *)
(***************************************************************************)
LEMMA DoneStep ==
  ASSUME IInv, TypeOK', TakeDone
  PROVE  IInv'
<1>1. client \in Received /\ buffer \in Buffer
  BY DEF IInv, TypeOK
<1>2. stream' # "reading" /\ whole' # "reading"
  BY DEF TakeDone, StreamTakesDone, WholeTakesDone
<1>3. InStep' /\ BufferIsStricter'
  BY <1>2 DEF TakeDone, StreamTakesDone, WholeTakesDone, IInv, InStep, BufferIsStricter
<1>4. ASSUME stream' = "done", whole' = "done" PROVE AnswersAgree'
  <2>1. CASE stream = "reading"
    <3>1. whole = "reading" /\ AnswersAgree
      BY <1>4, <2>1 DEF IInv, InStep, TakeDone, WholeTakesDone
    <3>2. /\ client' = [client EXCEPT !.reason = IF finished THEN @ ELSE "stop"]
          /\ buffer' = [buffer EXCEPT !.finish = IF @ = None THEN "stop" ELSE @]
      BY <2>1, <3>1, <1>4 DEF TakeDone, StreamTakesDone, WholeTakesDone, Completion
    <3>3. finished <=> client.reason # None
      BY DEF IInv, FinishRemembered
    <3>4. client'.reason = buffer'.finish
      BY <1>1, <3>1, <3>2, <3>3 DEF AnswersAgree, Received, Buffer
    <3>5. /\ client'.text = client.text /\ client'.reasoning = client.reasoning
          /\ client'.usage = client.usage
          /\ buffer'.content = buffer.content /\ buffer'.reasoning = buffer.reasoning
          /\ buffer'.usage = buffer.usage
      BY <1>1, <3>2 DEF Received, Buffer
    <3> QED
      BY <3>1, <3>4, <3>5 DEF AnswersAgree
  <2>2. CASE stream # "reading"
    <3>1. whole # "reading" /\ stream = "done"
      BY <1>4, <2>2 DEF IInv, InStep, TakeDone, StreamTakesDone
    <3>2. UNCHANGED <<client, buffer, whole>>
      BY <2>2, <3>1 DEF TakeDone, StreamTakesDone, WholeTakesDone
    <3> QED
      BY <1>4, <3>1, <3>2 DEF IInv, SameAnswer, AnswersAgree
  <2> QED
    BY <2>1, <2>2
<1>5. FinishRemembered' /\ RoleRemembered'
  <2>1. CASE stream = "reading"
    <3>1. /\ client'.reason = IF finished THEN client.reason ELSE "stop"
          /\ client'.text = client.text /\ client'.reasoning = client.reasoning
          /\ client'.roles = client.roles
          /\ finished' /\ sent_role' = sent_role
      BY <1>1, <2>1 DEF TakeDone, StreamTakesDone, Received
    <3>2. None # "stop"
      BY ReasonAssumption
    <3> QED
      BY <3>1, <3>2 DEF IInv, FinishRemembered, RoleRemembered
  <2>2. CASE stream # "reading"
    BY <2>2 DEF TakeDone, StreamTakesDone, IInv, FinishRemembered, RoleRemembered
  <2> QED
    BY <2>1, <2>2
<1> QED
  BY <1>3, <1>4, <1>5 DEF IInv, SameAnswer

LEMMA UsageStep ==
  ASSUME IInv, TypeOK', TakeUsage
  PROVE  IInv'
<1>1. client \in Received /\ buffer \in Buffer
  BY DEF IInv, TypeOK
<1>2. UNCHANGED <<stream, whole, finished, sent_role>>
  BY DEF TakeUsage
<1>3. /\ client'.text = client.text /\ client'.reasoning = client.reasoning
      /\ client'.reason = client.reason /\ client'.roles = client.roles
      /\ client'.usage <=> client.usage \/ (stream = "reading" /\ IncludeUsage)
  BY <1>1 DEF TakeUsage, Received
<1>4. /\ buffer'.content = buffer.content /\ buffer'.reasoning = buffer.reasoning
      /\ buffer'.finish = buffer.finish
      /\ buffer'.usage <=> buffer.usage \/ whole = "reading"
  BY <1>1 DEF TakeUsage, AddUsage, Buffer
<1>5. client'.usage \in BOOLEAN /\ buffer'.usage \in BOOLEAN /\ IncludeUsage \in BOOLEAN
  BY BoundAssumption DEF TypeOK, Received, Buffer
<1>6. ASSUME stream = whole, stream \in {"reading", "done"}, AnswersAgree PROVE AnswersAgree'
  BY <1>3, <1>4, <1>5, <1>6 DEF AnswersAgree
<1> QED
  BY <1>2, <1>3, <1>6
  DEF IInv, InStep, SameAnswer, BufferIsStricter, FinishRemembered, RoleRemembered

(***************************************************************************)
(* An end of one or both paths.                                             *)
(***************************************************************************)
LEMMA EndStep ==
  ASSUME IInv, TypeOK', BreakOff \/ Leave \/ Over \/ UNCHANGED vars
  PROVE  IInv'
<1>1. UNCHANGED <<finished, sent_role, client, buffer>>
  BY DEF BreakOff, Leave, Over, vars
<1>2. AnswersAgree' <=> AnswersAgree
  BY <1>1 DEF AnswersAgree
<1>3. InStep' /\ SameAnswer' /\ BufferIsStricter'
  BY <1>2 DEF BreakOff, Leave, Over, vars, IInv, InStep, SameAnswer, BufferIsStricter, TypeOK
<1> QED
  BY <1>1, <1>3 DEF IInv, FinishRemembered, RoleRemembered

LEMMA InitInvariant == Init => IInv
<1> SUFFICES ASSUME Init PROVE IInv
  OBVIOUS
<1>1. AnswersAgree
  BY DEF Init, AnswersAgree, NewBuffer
<1> QED
  BY <1>1, TypeInit
  DEF Init, IInv, InStep, SameAnswer, BufferIsStricter, FinishRemembered, RoleRemembered

LEMMA SpecInvariant == Spec => []IInv
<1>1. IInv /\ [Next]_vars => IInv'
  BY TypeStep, ChoiceStep, UsageStep, DoneStep, EndStep DEF Next, IInv
<1> QED
  BY InitInvariant, <1>1, PTL DEF Spec

-----------------------------------------------------------------------------
(***************************************************************************)
(* The stream flag does not change what a client gets: one that streams     *)
(* adds up the answer the other is handed, with one role before all else,   *)
(* and what breaks the stream off is refused by the buffer                  *)
(* (OpenAiChatStreamTransformer and OpenAiChatCompletionBuffer).            *)
(***************************************************************************)
THEOREM AgreementTheorem == Spec => []PathsAgree
<1>1. IInv => SameAnswer /\ BufferIsStricter
  BY DEF IInv
<1>2. IInv => RoleOnce
  BY DEF IInv, RoleRemembered, RoleOnce
<1>3. IInv => PathsAgree
  BY <1>1, <1>2 DEF PathsAgree
<1> QED
  BY SpecInvariant, <1>3, PTL

(***************************************************************************)
(* Each step of an orderly upstream is one ClientStream allows: text grows, *)
(* then one finish, then the end or silence.                                *)
(***************************************************************************)
LEMMA PromisedStep ==
  ASSUME IInv, [Next]_vars, orderly'
  PROVE  Abstract!Continue \/ UNCHANGED Abstract!promised
<1> USE DEF Abstract!Continue, Abstract!promised
<1>0. client \in Received
  BY DEF IInv, TypeOK
<1>1. CASE TakeChoice
  <2> PICK choice \in UpstreamChoices : StreamTakesChoice(choice) /\ orderly' = (orderly /\ client.reason = None)
    BY <1>1 DEF TakeChoice
  <2>0. client.reason = None
    OBVIOUS
  <2>1. CASE stream = "reading" /\ ~StreamRefuses(choice)
    <3>1. /\ choice.finish \in Reasons \cup {None}
          /\ TextOf(choice.content) \in Seq(Symbol)
      BY BoundAssumption, TextOfType DEF Choice
    <3>2. /\ client'.text = client.text \o TextOf(choice.content)
          /\ client'.reason = choice.finish
          /\ UNCHANGED stream
      BY <1>0, <2>0, <2>1 DEF StreamTakesChoice, StreamChoice, Received
    <3>3. Abstract!Extends(client'.text, client.text)
      BY <1>0, <3>1, <3>2, ConcatExtends DEF Received
    <3>4. CASE choice.finish = None
      <4>1. Abstract!Speak
        BY <2>0, <2>1, <3>2, <3>3, <3>4 DEF Abstract!Speak, Phase
      <4> QED
        BY <4>1
    <3>5. CASE choice.finish # None
      <4>1. Abstract!Conclude
        BY <2>0, <2>1, <3>1, <3>2, <3>3, <3>5 DEF Abstract!Conclude, Phase
      <4> QED
        BY <4>1
    <3> QED
      BY <3>4, <3>5
  <2>2. CASE stream = "reading" /\ StreamRefuses(choice)
    <3>1. Abstract!Abort
      BY <2>0, <2>2 DEF StreamTakesChoice, Abstract!Abort, Phase
    <3> QED
      BY <3>1
  <2>3. CASE stream # "reading"
    BY <2>3 DEF StreamTakesChoice, Phase
  <2> QED
    BY <2>1, <2>2, <2>3
<1>2. CASE TakeUsage
  <2>1. client'.text = client.text /\ client'.reason = client.reason /\ UNCHANGED stream
    BY <1>0, <1>2 DEF TakeUsage, Received
  <2> QED
    BY <2>1 DEF Phase
<1>3. CASE TakeDone
  <2>1. CASE stream = "reading"
    <3>1. /\ client'.text = client.text
          /\ client'.reason = IF finished THEN client.reason ELSE "stop"
          /\ stream' = "done"
      BY <1>0, <1>3, <2>1 DEF TakeDone, StreamTakesDone, Received
    <3>2. finished <=> client.reason # None
      BY DEF IInv, FinishRemembered
    <3>3. CASE finished
      <4>1. Abstract!Close
        BY <2>1, <3>1, <3>2, <3>3 DEF Abstract!Close, Phase
      <4> QED
        BY <4>1
    <3>4. CASE ~finished
      <4>1. Abstract!Extends(client'.text, client.text)
        BY <1>0, <3>1, ExtendsItself DEF Received
      <4>2. Abstract!Conclude
        BY <2>1, <3>1, <3>2, <3>4, <4>1, ReasonAssumption DEF Abstract!Conclude, Phase
      <4> QED
        BY <4>2
    <3> QED
      BY <3>3, <3>4
  <2>2. CASE stream # "reading"
    BY <1>3, <2>2 DEF TakeDone, StreamTakesDone, Phase
  <2> QED
    BY <2>1, <2>2
<1>4. CASE BreakOff \/ Leave
  <2>1. UNCHANGED client
    BY <1>4 DEF BreakOff, Leave
  <2>2. CASE stream = "reading"
    <3>1. Abstract!Abort
      BY <1>4, <2>1, <2>2 DEF BreakOff, Leave, Abstract!Abort, Phase
    <3> QED
      BY <3>1
  <2>3. CASE stream # "reading"
    BY <1>4, <2>1, <2>3 DEF BreakOff, Leave, Phase
  <2> QED
    BY <2>2, <2>3
<1>5. CASE Over \/ UNCHANGED vars
  BY <1>5 DEF Over, vars, Phase
<1> QED
  BY <1>1, <1>2, <1>3, <1>4, <1>5 DEF Next

THEOREM PromiseTheorem == Spec => OrderlyPromise
<1>1. IInv /\ [Next]_vars => [orderly' => Abstract!Continue \/ UNCHANGED Abstract!promised]_vars
  BY PromisedStep
<1> QED
  BY SpecInvariant, <1>1, PTL DEF Spec, OrderlyPromise

=============================================================================
