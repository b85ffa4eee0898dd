---------------------------- MODULE ProxyErrors ----------------------------
(***************************************************************************)
(* What an error of the proxy is for its client (ProxyError,                *)
(* src/src/http.rs, with the errors it is made of), and which answers of    *)
(* the upstream are errors (src/src/venice.rs).                             *)
(*                                                                         *)
(* An error has a source and a kind; the kinds of attestation are those of  *)
(* Attestation, the kind of a refused request is its code.                  *)
(***************************************************************************)
EXTENDS Naturals

Error(source, kind) == [source |-> source, kind |-> kind]

(* The Venice client. *)

\* How the sending of a request can end.
Status(n) == [status |-> n]
Failed(why) == [failure |-> why]

IsSuccess(outcome) == "status" \in DOMAIN outcome /\ outcome.status \in 200 .. 299

\* check_status, request_failure
UpstreamError(outcome) ==
  Error("venice", IF "failure" \in DOMAIN outcome THEN outcome.failure
                  ELSE IF outcome.status \in {401, 403} THEN "authentication"
                  ELSE "status")

VeniceErrorCode(kind) ==
  CASE kind = "authentication" -> "upstream_authentication_failed"
    [] kind = "status"         -> "upstream_status_error"
    [] kind = "timeout"        -> "upstream_timeout"
    [] kind = "request"        -> "upstream_unavailable"
    [] kind = "malformed"      -> "upstream_malformed_response"
    [] kind = "api_key"        -> "venice_api_key_missing"
    [] OTHER                   -> "venice_client_configuration_failed"

(* The parts of ProxyError. *)

AttestationCodes ==
  [ InvalidRequest         |-> "invalid_attestation_request",
    Fetch                  |-> "attestation_fetch_failed",
    MalformedResponse      |-> "attestation_malformed_response",
    MissingField           |-> "attestation_missing_required_field",
    VerifierUnavailable    |-> "attestation_verifier_unavailable",
    UpstreamNotVerified    |-> "attestation_upstream_not_verified",
    NonceMismatch          |-> "attestation_nonce_mismatch",
    ModelMismatch          |-> "attestation_model_mismatch",
    InvalidSigningKey      |-> "attestation_invalid_signing_key",
    SigningAddressMismatch |-> "attestation_signing_address_mismatch",
    DebugModeDetected      |-> "attestation_debug_mode_detected",
    MissingTdxEvidence     |-> "attestation_missing_tdx_evidence",
    InvalidTdxEvidence     |-> "attestation_invalid_tdx_evidence",
    MissingNvidiaEvidence  |-> "attestation_missing_nvidia_evidence",
    InvalidNvidiaEvidence  |-> "attestation_invalid_nvidia_evidence" ]

StreamErrorCode(kind) ==
  CASE kind = "stream"     -> "upstream_stream_error"
    [] kind = "malformed"  -> "upstream_malformed_response"
    [] kind = "tool_call"  -> "tool_call_validation_failed"
    [] kind = "decryption" -> "e2ee_response_decryption_failed"

IdentifierErrors == {"session_identifier_missing", "invalid_session_header"}

\* Wrong variant: what the upstream says of the proxy's credentials goes through.
PassedThrough(e) ==
  CASE e.source = "request" -> 400
    [] e.source = "venice" /\ e.kind = "authentication" -> 401
    [] e.source = "session" -> IF e.kind \in IdentifierErrors THEN 400 ELSE 500
    [] e.source = "attestation" /\ e.kind = "VerifierUnavailable" -> 503
    [] e.source \in {"proxy_instance_key_unavailable", "attestation_failed"} -> 500
    [] e.source = "method_not_allowed" -> 405
    [] e.source = "not_found" -> 404
    [] OTHER -> 502

StatusOf(e) ==
  CASE e.source = "request" -> 400
    [] e.source = "session" -> IF e.kind \in IdentifierErrors THEN 400 ELSE 500
    [] e.source = "attestation" /\ e.kind = "VerifierUnavailable" -> 503
    [] e.source \in {"proxy_instance_key_unavailable", "attestation_failed"} -> 500
    [] e.source = "method_not_allowed" -> 405
    [] e.source = "not_found" -> 404
    [] OTHER -> 502

CodeOf(e) ==
  CASE e.source = "request"      -> e.kind
    [] e.source = "venice"       -> VeniceErrorCode(e.kind)
    [] e.source = "session"      -> IF e.kind \in IdentifierErrors THEN e.kind ELSE "session_error"
    [] e.source = "attestation"  -> AttestationCodes[e.kind]
    [] e.source = "construction" -> "e2ee_request_encryption_failed"
    [] e.source = "stream"       -> StreamErrorCode(e.kind)
    [] e.source = "exhausted"    -> "invalid_tool_call"
    [] OTHER                     -> e.source

=============================================================================
