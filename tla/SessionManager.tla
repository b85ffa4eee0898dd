--------------------------- MODULE SessionManager ---------------------------
(***************************************************************************)
(* The session store shared by all chat requests (src/src/sessions.rs).     *)
(*                                                                         *)
(* SessionManager keeps one map from a session key to a session behind a    *)
(* mutex.  Every operation takes the lock once, so each one is an atomic    *)
(* action here; the clock reading `t` it works with is taken by the caller  *)
(* before the lock and is therefore a parameter.                            *)
(*                                                                         *)
(* Strings are sequences of symbols: the only thing the store does with     *)
(* them is to concatenate them into a key, and that is what SessionKey      *)
(* does.  `opened_by` is a history field: it names the request whose call   *)
(* created the session and so tells apart the successive sessions that      *)
(* live under the same key.                                                 *)
(***************************************************************************)
EXTENDS Integers, Sequences, FiniteSets

CONSTANTS
  Requests,         \* the chat requests handled, each one once
  Symbol,           \* the alphabet of model and session identifiers
  Models,           \* model ids a request can name, sequences of symbols
  ExplicitIds,      \* session ids a caller can send, sequences of symbols
  AgentFallbackId,  \* the uuid drawn once by SessionManager::new
  FallbackScope,    \* session.fallback_scope: "agent", "request", "disabled"
  IdleTtl,          \* session.idle_ttl
  MaxTtl,           \* session.max_ttl
  MaxRequests,      \* session.max_requests
  Unreadable,       \* a session header with bytes that are not visible ASCII
  None              \* absent value (Option::None)

(***************************************************************************)
(* What ProxyConfig::validate checks of the limits.                         *)
(***************************************************************************)
ASSUME LimitsAssumption ==
  /\ IdleTtl \in Nat \ {0}
  /\ MaxTtl \in Nat \ {0}
  /\ IdleTtl <= MaxTtl
  /\ MaxRequests \in Nat \ {0}
  /\ FallbackScope \in {"agent", "request", "disabled"}

(***************************************************************************)
(* Identifiers.  A request without an identifier gets a fresh uuid, here    *)
(* the one-symbol sequence <<r>>: uuids are distinct from each other and    *)
(* from the fallback's.  Model ids and identifiers are otherwise any text:  *)
(* the code refuses blank ones only, so the delimiter of the session key    *)
(* may occur in both, and a caller may send a uuid the proxy has told it.   *)
(***************************************************************************)
RequestUuid(r) == <<r>>

\* The uuid drawn for request r occurs in the text.
Mentions(text, r) == \E n \in DOMAIN text : text[n] = r

Ids == ExplicitIds \cup {AgentFallbackId} \cup {RequestUuid(r) : r \in Requests}

ASSUME IdentifierAssumption ==
  /\ IsFiniteSet(Requests)
  /\ Requests \cup {":"} \subseteq Symbol
  /\ ":" \notin Requests
  /\ Models \subseteq Seq(Symbol)
  /\ Ids \subseteq Seq(Symbol)
  /\ \A r \in Requests : ~Mentions(AgentFallbackId, r)

\* Wrong variant: the session id left out of the key.
SessionKeyWithoutId(model_id, agent_session_id) == model_id \o <<":">>

SessionKey(model_id, agent_session_id) == model_id \o <<":">> \o agent_session_id

Keys == {SessionKey(m, i) : m \in Models, i \in Ids}

(***************************************************************************)
(* Attestation state: the key the evidence binds to `model`, with the       *)
(* provider, TDX and NVIDIA facts stored beside it in one assignment block. *)
(* `by` is history: the request that fetched the evidence.                  *)
(***************************************************************************)
AttestedModelState == [model : Models, by : Requests]

ASSUME NoneAssumption ==
  /\ None \notin AttestedModelState \cup Requests \cup ExplicitIds
  /\ Unreadable \notin ExplicitIds \cup {None}

SessionContext ==
  [ model_id         : Models,
    agent_session_id : Ids,
    scope            : {"agent", "request"},
    last_used_at     : Int,
    expires_at       : Int,
    request_count    : Nat,
    attested         : AttestedModelState \cup {None},
    opened_by        : Requests ]

-----------------------------------------------------------------------------
VARIABLE sessions   \* the map behind the mutex: a function from live keys

SessionsType ==
  /\ DOMAIN sessions \subseteq Keys
  /\ sessions \in [DOMAIN sessions -> SessionContext]

SessionsInit == sessions = << >>

\* The map with key k bound to s, and the map without the keys in K.
Insert(k, s) == [x \in DOMAIN sessions \cup {k} |-> IF x = k THEN s ELSE sessions[x]]
RemoveKeys(K)    == [x \in DOMAIN sessions \ K |-> sessions[x]]

\* Elapsed wall-clock time, zero when the clock reads earlier than the start.
ElapsedSince(start, t) == IF t < start THEN 0 ELSE t - start

\* Wrong variants: one request too many; no idle limit.
ExpirationOffByOne(s, t) ==
  IF s.request_count > MaxRequests THEN "MaxRequests"
  ELSE IF t >= s.expires_at THEN "MaxTtl"
  ELSE IF ElapsedSince(s.last_used_at, t) >= IdleTtl THEN "IdleTtl"
  ELSE "live"

ExpirationWithoutIdle(s, t) ==
  IF s.request_count >= MaxRequests THEN "MaxRequests"
  ELSE IF t >= s.expires_at THEN "MaxTtl"
  ELSE "live"

\* Why a session may not be used at time t, in the order the code asks.
ExpirationReason(s, t) ==
  IF s.request_count >= MaxRequests THEN "MaxRequests"
  ELSE IF t >= s.expires_at THEN "MaxTtl"
  ELSE IF ElapsedSince(s.last_used_at, t) >= IdleTtl THEN "IdleTtl"
  ELSE "live"

Expired(s, t) == ExpirationReason(s, t) # "live"

NewContext(r, model_id, identifier, t) ==
  [ model_id         |-> model_id,
    agent_session_id |-> identifier.agent_session_id,
    scope            |-> identifier.scope,
    last_used_at     |-> t,
    expires_at       |-> t + MaxTtl,
    request_count    |-> 1,
    attested         |-> None,
    opened_by        |-> r ]

(***************************************************************************)
(* get_or_create, split at its two successful exits: the session under the  *)
(* key is live and counted once more, or there is none that is live and a   *)
(* new one, without attestation, takes the key.                             *)
(***************************************************************************)
ReuseSession(k, t) ==
  /\ k \in DOMAIN sessions
  /\ ~Expired(sessions[k], t)
  /\ sessions' = [sessions EXCEPT ![k].request_count = @ + 1,
                                  ![k].last_used_at = t]

OpenSession(r, model_id, identifier, t) ==
  LET k == SessionKey(model_id, identifier.agent_session_id)
  IN  /\ k \in DOMAIN sessions => Expired(sessions[k], t)
      /\ sessions' = Insert(k, NewContext(r, model_id, identifier, t))

(***************************************************************************)
(* set_attested_model_state: an expired session is dropped instead, a       *)
(* missing one is an error, a live one takes the new state, whatever it     *)
(* held before.                                                             *)
(***************************************************************************)
\* Wrong variant: one expired session takes the others with it.
DropEverything(k, t) ==
  /\ k \in DOMAIN sessions
  /\ Expired(sessions[k], t)
  /\ sessions' = << >>

DropExpired(k, t) ==
  /\ k \in DOMAIN sessions
  /\ Expired(sessions[k], t)
  /\ sessions' = RemoveKeys({k})

MissSession(k) ==
  /\ k \notin DOMAIN sessions
  /\ UNCHANGED sessions

\* Wrong variants: evidence is kept for the whole proxy; a session begins to live with it.
SetAttestedEverywhere(k, state, t) ==
  /\ k \in DOMAIN sessions
  /\ ~Expired(sessions[k], t)
  /\ sessions' = [x \in DOMAIN sessions |-> [sessions[x] EXCEPT !.attested = state]]

SetAttestedRenewing(k, state, t) ==
  /\ k \in DOMAIN sessions
  /\ ~Expired(sessions[k], t)
  /\ sessions' = [sessions EXCEPT ![k].attested = state,
                                  ![k].last_used_at = t,
                                  ![k].expires_at = t + MaxTtl]

SetAttested(k, state, t) ==
  /\ k \in DOMAIN sessions
  /\ ~Expired(sessions[k], t)
  /\ sessions' = [sessions EXCEPT ![k].attested = state]

\* cleanup_expired: public, called by tests only.
CleanupExpired(t) ==
  LET gone == {k \in DOMAIN sessions : Expired(sessions[k], t)}
  IN  /\ gone # {}
      /\ sessions' = RemoveKeys(gone)

(***************************************************************************)
(* resolve_identifier: the header wins over metadata.session_id, and either *)
(* over the fallback.  Blank values were trimmed to None.  An unreadable     *)
(* header is an error even when metadata has an id.                         *)
(***************************************************************************)
SessionRequest ==
  [ model_id : Models,
    header   : ExplicitIds \cup {None, Unreadable},
    metadata : ExplicitIds \cup {None} ]

ExplicitIdentifier(q) == IF q.header # None THEN q.header ELSE q.metadata

CanResolve(q) ==
  /\ q.header # Unreadable
  /\ ExplicitIdentifier(q) = None => FallbackScope # "disabled"

\* Wrong variant: one uuid for all requests without an identifier.
ResolveSharedFallback(r, q) ==
  IF ExplicitIdentifier(q) # None
  THEN [agent_session_id |-> ExplicitIdentifier(q), scope |-> "agent"]
  ELSE [agent_session_id |-> AgentFallbackId, scope |-> FallbackScope]

ResolveIdentifier(r, q) ==
  IF ExplicitIdentifier(q) # None
  THEN [agent_session_id |-> ExplicitIdentifier(q), scope |-> "agent"]
  ELSE IF FallbackScope = "agent"
  THEN [agent_session_id |-> AgentFallbackId, scope |-> "agent"]
  ELSE [agent_session_id |-> RequestUuid(r), scope |-> "request"]

=============================================================================
