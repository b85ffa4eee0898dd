---------------------------- MODULE Attestation ----------------------------
(***************************************************************************)
(* The attestation verifier (src/src/attestation.rs): calls of               *)
(* verify_model_attestation that run at the same time, each with a nonce of *)
(* its own, and the decision on the evidence each gets.                     *)
(*                                                                         *)
(* The upstream may answer with any evidence it can have: any field may be  *)
(* missing or unusable, and the nonce may be that of another call, now or   *)
(* before.  It cannot name a nonce that was not asked yet.                  *)
(***************************************************************************)
EXTENDS Naturals

CONSTANTS
  Calls, Models, Nonces, Keys,
  Addresses,
  Address,        \* the address derived from each key
  Answers,        \* evidence that the upstream may send
  Absent,         \* of a field: absent; for those read through non_empty, blank too
  Blank,          \* of another field: present and blank
  Unusable        \* present, but not what the field is for

Encodings == {"compressed", "coordinates", "uncompressed"}
Spellings == {"lower", "mixed"}

\* What report data can bind: it begins with a digest or with the bytes of an address.
Digest(value) == <<"digest", value>>
Bytes(value) == <<"bytes", value>>
Bindings == {Digest(v) : v \in (Encodings \X Keys) \cup (Spellings \X Addresses)}
              \cup {Bytes(v) : v \in Spellings \X Addresses}

TdxQuote == [tee_type : {"tdx", "other"}, debug : BOOLEAN]

Evidence ==
  [ verified        : BOOLEAN \cup {Absent},
    nonce           : Nonces \cup {Absent, Blank},
    model           : Models \cup {Absent, Blank},
    signing_key     : (Encodings \X Keys) \cup {Absent, Unusable},
    signing_address : (Spellings \X Addresses) \cup {Absent, Unusable},
    debug           : BOOLEAN \cup {Absent},
    quote           : TdxQuote \cup {Absent, Unusable},
    report_data     : Bindings \cup {Absent, Unusable},
    nvidia_payload  : {"payload", Absent, Unusable} ]

Requirements == {"never", "when_present", "required"}

Policy == [require_tdx : BOOLEAN, require_nvidia : Requirements, allow_debug : BOOLEAN]

ASSUME AddressAssumption == Address \in [Keys -> Addresses]
ASSUME AnswerAssumption == Answers \subseteq Evidence
ASSUME AbsentAssumption ==
  \A absent \in {Absent, Blank, Unusable} :
    /\ absent \notin Nonces /\ absent \notin Models
    /\ absent \notin Encodings \X Keys /\ absent \notin Spellings \X Addresses
    /\ absent \notin TdxQuote /\ absent \notin Evidence

VARIABLES
  policy,   \* the configured policy
  pc,       \* of each call: "idle", "waiting", "verified" or "refused"
  model,    \* the model it is about
  nonce,    \* the nonce it has sent
  result,   \* its VerifiedAttestation
  error,    \* why it was refused
  answer,   \* history: the evidence it got
  earlier   \* history: the nonces sent before it began

attestVars == <<policy, pc, model, nonce, result, error, answer, earlier>>

-----------------------------------------------------------------------------
(***************************************************************************)
(* Keys and addresses.                                                      *)
(***************************************************************************)
NormalizeKey(key) == <<"uncompressed", key[2]>>

NormalizeAddress(address) == <<"lower", address[2]>>

DerivedAddress(key) == <<"lower", Address[key[2]]>>

Normalized(address) == IF address = Absent THEN Absent ELSE NormalizeAddress(address)

\* Wrong variant: any well-formed report data will do.
BindsAnything(report, key, address) == report # Unusable

\* verify_reportdata_binding, for a normalized key and an address or none
Binds(report, key, address) ==
  \/ report = Digest(key)
  \/ address # Absent /\ report \in {Digest(address), Bytes(address)}

-----------------------------------------------------------------------------
(***************************************************************************)
(* The decision: why evidence is refused, "none" if it is not.  The tests   *)
(* are in the order of the code.                                            *)
(***************************************************************************)
EnvelopeRefusal(m, n, e) ==
  IF e.verified = Absent THEN "MissingField"
  ELSE IF e.verified = FALSE THEN "UpstreamNotVerified"
  ELSE IF e.nonce = Absent THEN "MissingField"
  ELSE IF e.nonce = Blank THEN "MalformedResponse"
  ELSE IF e.nonce # n THEN "NonceMismatch"
  ELSE IF e.model = Absent THEN "MissingField"
  ELSE IF e.model = Blank THEN "MalformedResponse"
  ELSE IF e.model # m THEN "ModelMismatch"
  ELSE "none"

KeyRefusal(e) ==
  IF e.signing_key = Absent THEN "MissingField"
  ELSE IF e.signing_key = Unusable THEN "InvalidSigningKey"
  ELSE IF e.signing_address = Unusable THEN "SigningAddressMismatch"
  ELSE IF /\ e.signing_address # Absent
          /\ NormalizeAddress(e.signing_address) # DerivedAddress(NormalizeKey(e.signing_key))
       THEN "SigningAddressMismatch"
  ELSE "none"

\* Wrong variant: debug mode is refused where it is allowed.
DebugRefusedIfAllowed(p, debug) == debug = TRUE /\ p.allow_debug

DebugRefused(p, debug) == debug = TRUE /\ ~p.allow_debug

\* Wrong variant: the verifier that is not there is missed before the local tests.
TdxRefusalVerifierFirst(p, e) ==
  LET key     == NormalizeKey(e.signing_key)
      address == Normalized(e.signing_address)
  IN  IF e.quote = Absent THEN IF p.require_tdx THEN "MissingTdxEvidence" ELSE "none"
      ELSE IF p.require_tdx THEN "VerifierUnavailable"
      ELSE IF e.quote = Unusable THEN "InvalidTdxEvidence"
      ELSE IF e.quote.tee_type # "tdx" THEN "InvalidTdxEvidence"
      ELSE IF DebugRefused(p, e.quote.debug) THEN "DebugModeDetected"
      ELSE IF e.report_data # Absent /\ ~Binds(e.report_data, key, address) THEN "InvalidTdxEvidence"
      ELSE "none"

\* evaluate_tdx_policy; report data without a quote is not looked at
TdxRefusal(p, e) ==
  LET key     == NormalizeKey(e.signing_key)
      address == Normalized(e.signing_address)
  IN  IF e.quote = Absent THEN IF p.require_tdx THEN "MissingTdxEvidence" ELSE "none"
      ELSE IF e.quote = Unusable THEN "InvalidTdxEvidence"
      ELSE IF e.quote.tee_type # "tdx" THEN "InvalidTdxEvidence"
      ELSE IF DebugRefused(p, e.quote.debug) THEN "DebugModeDetected"
      ELSE IF e.report_data # Absent /\ ~Binds(e.report_data, key, address) THEN "InvalidTdxEvidence"
      ELSE IF p.require_tdx THEN "VerifierUnavailable"
      ELSE "none"

\* evaluate_nvidia_policy
NvidiaRefusal(p, e) ==
  IF p.require_nvidia = "required" /\ e.nvidia_payload = Absent THEN "MissingNvidiaEvidence"
  ELSE IF p.require_nvidia = "never" \/ e.nvidia_payload = Absent THEN "none"
  ELSE IF e.nvidia_payload = "payload" THEN "VerifierUnavailable"
  ELSE "InvalidNvidiaEvidence"

Refusal(p, m, n, e) ==
  IF EnvelopeRefusal(m, n, e) # "none" THEN EnvelopeRefusal(m, n, e)
  ELSE IF KeyRefusal(e) # "none" THEN KeyRefusal(e)
  ELSE IF DebugRefused(p, e.debug) THEN "DebugModeDetected"
  ELSE IF TdxRefusal(p, e) # "none" THEN TdxRefusal(p, e)
  ELSE NvidiaRefusal(p, e)

Errors ==
  {"none", "InvalidRequest", "Fetch", "MalformedResponse", "MissingField", "UpstreamNotVerified",
   "NonceMismatch", "ModelMismatch", "InvalidSigningKey", "SigningAddressMismatch",
   "DebugModeDetected", "MissingTdxEvidence", "InvalidTdxEvidence", "MissingNvidiaEvidence",
   "InvalidNvidiaEvidence", "VerifierUnavailable"}

NvidiaStatus(e) == IF e.nvidia_payload = Absent THEN "not_present" ELSE "ignored_by_policy"

TdxDebug(e) == IF e.quote = Absent THEN Absent ELSE e.quote.debug

\* The VerifiedAttestation for evidence that is not refused.
Verified(m, e) ==
  [ model_id         |-> m,
    model_public_key |-> NormalizeKey(e.signing_key),
    signing_address  |-> Normalized(e.signing_address),
    debug            |-> e.debug,
    tdx_debug        |-> TdxDebug(e),
    nvidia           |-> NvidiaStatus(e) ]

VerifiedAttestation ==
  [ model_id         : Models,
    model_public_key : {"uncompressed"} \X Keys,
    signing_address  : ({"lower"} \X Addresses) \cup {Absent},
    debug            : BOOLEAN \cup {Absent},
    tdx_debug        : BOOLEAN \cup {Absent},
    nvidia           : {"not_present", "ignored_by_policy"} ]

-----------------------------------------------------------------------------
AttestInit ==
  /\ policy \in Policy
  /\ pc = [c \in Calls |-> "idle"]
  /\ model = [c \in Calls |-> Absent]
  /\ nonce = [c \in Calls |-> Absent]
  /\ result = [c \in Calls |-> Absent]
  /\ error = [c \in Calls |-> "none"]
  /\ answer = [c \in Calls |-> Absent]
  /\ earlier = [c \in Calls |-> {}]

Asked == {nonce[c] : c \in {d \in Calls : nonce[d] # Absent}}

\* Wrong variant: a nonce may be sent again.
AnyNonces == Nonces

\* AttestationNonce::generate; 32 random bytes are not drawn twice
FreshNonces == Nonces \ Asked

Refuse(c, why) ==
  /\ pc' = [pc EXCEPT ![c] = "refused"]
  /\ error' = [error EXCEPT ![c] = why]
  /\ UNCHANGED result

\* A blank model id is refused before anything is sent.
RefuseBlankModel(c) ==
  /\ pc[c] = "idle"
  /\ Refuse(c, "InvalidRequest")
  /\ UNCHANGED <<policy, model, nonce, answer, earlier>>

Begin(c) ==
  /\ pc[c] = "idle"
  /\ \E m \in Models, n \in FreshNonces :
       /\ model' = [model EXCEPT ![c] = m]
       /\ nonce' = [nonce EXCEPT ![c] = n]
  /\ earlier' = [earlier EXCEPT ![c] = Asked]
  /\ pc' = [pc EXCEPT ![c] = "waiting"]
  /\ UNCHANGED <<policy, result, error, answer>>

\* The request fails or times out, its status is an error, or its body is no evidence.
FetchFails(c) ==
  /\ pc[c] = "waiting"
  /\ \E why \in {"Fetch", "MalformedResponse"} : Refuse(c, why)
  /\ UNCHANGED <<policy, model, nonce, answer, earlier>>

Answered(c) ==
  /\ pc[c] = "waiting"
  /\ \E e \in {a \in Answers : a.nonce \in Asked \cup {Absent, Blank}} :
       /\ answer' = [answer EXCEPT ![c] = e]
       /\ \/ /\ Refusal(policy, model[c], nonce[c], e) # "none"
             /\ Refuse(c, Refusal(policy, model[c], nonce[c], e))
          \/ /\ Refusal(policy, model[c], nonce[c], e) = "none"
             /\ pc' = [pc EXCEPT ![c] = "verified"]
             /\ result' = [result EXCEPT ![c] = Verified(model[c], e)]
             /\ UNCHANGED error
  /\ UNCHANGED <<policy, model, nonce, earlier>>

\* Calls that have ended are not repeated.
Ended ==
  /\ \A c \in Calls : pc[c] \in {"verified", "refused"}
  /\ UNCHANGED attestVars

AttestNext ==
  \/ \E c \in Calls : RefuseBlankModel(c) \/ Begin(c) \/ FetchFails(c) \/ Answered(c)
  \/ Ended

AttestSpec == AttestInit /\ [][AttestNext]_attestVars

-----------------------------------------------------------------------------
AttestTypeOK ==
  /\ policy \in Policy
  /\ pc \in [Calls -> {"idle", "waiting", "verified", "refused"}]
  /\ model \in [Calls -> Models \cup {Absent}]
  /\ nonce \in [Calls -> Nonces \cup {Absent}]
  /\ result \in [Calls -> VerifiedAttestation \cup {Absent}]
  /\ error \in [Calls -> Errors]
  /\ answer \in [Calls -> Evidence \cup {Absent}]
  /\ earlier \in [Calls -> SUBSET Nonces]

(***************************************************************************)
(* Evidence is trusted only by the call it was made for: it names a model   *)
(* and a nonce, the nonce was not sent by anyone before the call began, so  *)
(* the evidence is no older than the call, and no two calls ever trust the  *)
(* same evidence.                                                           *)
(***************************************************************************)
EvidenceOfThisCall ==
  \A c \in Calls : pc[c] = "verified" =>
    /\ answer[c].model = model[c] /\ result[c].model_id = model[c]
    /\ answer[c].nonce \notin earlier[c]
    /\ \A d \in Calls \ {c} : pc[d] = "verified" => answer[d].nonce # answer[c].nonce

(***************************************************************************)
(* The key of a verified call is the key of the evidence, however it was    *)
(* written, and whatever else the evidence says about a key agrees: the     *)
(* address is that of the key, and report data next to a quote binds the    *)
(* key or its address.                                                      *)
(***************************************************************************)
KeyIsBound ==
  \A c \in Calls : pc[c] = "verified" =>
    LET key     == result[c].model_public_key[2]
        address == result[c].signing_address
        report  == answer[c].report_data
        own     == <<"lower", Address[key]>>
    IN  /\ \E encoding \in Encodings : answer[c].signing_key = <<encoding, key>>
        /\ address # Absent => address = own
        /\ answer[c].quote # Absent /\ report # Absent =>
             report \in {Digest(<<"uncompressed", key>>), Digest(own), Bytes(own)}

(***************************************************************************)
(* A policy that asks for less accepts at least as much: no setting of one  *)
(* gate opens another.                                                      *)
(***************************************************************************)
Strictness == [never |-> 0, when_present |-> 1, required |-> 2]

Weaker(p) ==
  {q \in Policy : /\ q.require_tdx => p.require_tdx
                  /\ p.allow_debug => q.allow_debug
                  /\ Strictness[q.require_nvidia] <= Strictness[p.require_nvidia]}

WeakerAcceptsMore ==
  \A c \in Calls : pc[c] = "verified" =>
    \A q \in Weaker(policy) : Refusal(q, model[c], nonce[c], answer[c]) = "none"

(***************************************************************************)
(* The verifiers that are not linked fail closed: where one is required     *)
(* nothing is ever trusted.  And a call is told that a verifier is missing  *)
(* only if that is all that is missing: without the requirements the same   *)
(* evidence is accepted.                                                    *)
(***************************************************************************)
VerifiersFailClosed ==
  \A c \in Calls :
    /\ policy.require_tdx \/ policy.require_nvidia = "required" => pc[c] # "verified"
    /\ error[c] = "VerifierUnavailable" =>
         LET without == [policy EXCEPT !.require_tdx = FALSE, !.require_nvidia = "never"]
         IN  Refusal(without, model[c], nonce[c], answer[c]) = "none"

-----------------------------------------------------------------------------
(***************************************************************************)
(* The invariant of the proofs: who has sent which nonce, and that what a   *)
(* call has become is what the decision says of its answer.                 *)
(***************************************************************************)
NoncesApart ==
  \A c, d \in Calls : c # d /\ nonce[c] # Absent => nonce[c] # nonce[d]

Begun ==
  \A c \in Calls :
    /\ pc[c] = "idle" => nonce[c] = Absent
    /\ pc[c] \in {"waiting", "verified"} => model[c] \in Models /\ nonce[c] \in Nonces
    /\ nonce[c] # Absent => nonce[c] \notin earlier[c]

Decided ==
  \A c \in Calls :
    /\ pc[c] \in {"idle", "waiting"} => error[c] = "none"
    /\ pc[c] = "verified" =>
         /\ answer[c] \in Evidence
         /\ Refusal(policy, model[c], nonce[c], answer[c]) = "none"
         /\ result[c] = Verified(model[c], answer[c])
         /\ error[c] = "none"
    /\ error[c] = "VerifierUnavailable" =>
         Refusal(policy, model[c], nonce[c], answer[c]) = "VerifierUnavailable"

AttestInv == AttestTypeOK /\ NoncesApart /\ Begun /\ Decided

=============================================================================
