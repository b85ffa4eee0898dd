---------------------------- MODULE ChatRequests ----------------------------
(***************************************************************************)
(* Concurrent chat requests over the shared session store: the part of      *)
(* create_chat_completion and ensure_attested_session (src/src/http.rs)     *)
(* that decides which model key a request is encrypted to.                  *)
(*                                                                         *)
(* A request resolves its session under the lock and walks away with a      *)
(* clone of it.  If the clone carries no model key the handler awaits the   *)
(* attestation endpoint, with no lock held, and then writes the result back *)
(* under the session key it remembered.  Between the two the session may    *)
(* have been attested by somebody else, exhausted, expired, dropped, or     *)
(* replaced by another session under the same key.                          *)
(***************************************************************************)
EXTENDS SessionManager

CONSTANTS
  RequestInputs,    \* the session-relevant content of requests, a set of SessionRequest
  MaxTime,          \* bound of the model: the clock stops here
  Skew              \* how far a clock reading can be from the time its lock is taken

ASSUME InputAssumption == RequestInputs \subseteq SessionRequest
ASSUME ClockAssumption == MaxTime \in Nat /\ Skew \in Nat

VARIABLES
  now,      \* wall-clock time
  pc,       \* where the handler of each request is
  asked,    \* the request as resolved: model, identifier (None before)
  hold,     \* the handler's clone of its session: key, model id, attested state
  error,    \* the ProxyError a failed request is answered with
  served,   \* history: the session (named by its opener) a request was counted in
  admitted  \* history: the clock reading a request was counted at

vars == <<sessions, now, pc, asked, hold, error, served, admitted>>

Places == {"idle", "attesting", "storing", "ready", "answered", "failed", "abandoned", "left"}
Finished == {"answered", "failed", "abandoned", "left"}

Resolved == [model : Models, agent_session_id : Ids, scope : {"agent", "request"}]

Clone ==
  [key : Keys, model_id : Models, attested : AttestedModelState \cup {None}]

ASSUME AbsentAssumption == None \notin Resolved \cup Clone

Errors == {"none", "InvalidRequest", "SessionIdentifier", "Attestation",
           "SessionNotFound", "MaxRequests", "MaxTtl", "IdleTtl", "Upstream"}

TypeOK ==
  /\ SessionsType
  /\ now \in Nat
  /\ pc \in [Requests -> Places]
  /\ asked \in [Requests -> Resolved \cup {None}]
  /\ hold \in [Requests -> Clone \cup {None}]
  /\ error \in [Requests -> Errors]
  /\ served \in [Requests -> Requests \cup {None}]
  /\ admitted \in [Requests -> Int]

Init ==
  /\ SessionsInit
  /\ now = 0
  /\ pc = [r \in Requests |-> "idle"]
  /\ asked = [r \in Requests |-> None]
  /\ hold = [r \in Requests |-> None]
  /\ error = [r \in Requests |-> "none"]
  /\ served = [r \in Requests |-> None]
  /\ admitted = [r \in Requests |-> 0]

-----------------------------------------------------------------------------
(***************************************************************************)
(* SystemTime::now() is read before the lock is taken and the wall clock    *)
(* may be adjusted, so the readings of successive lock holders need not be  *)
(* in order.                                                                *)
(***************************************************************************)
ClockReadings == {t \in 0..(MaxTime + Skew) : now - Skew <= t /\ t <= now + Skew}

Tick ==
  /\ now < MaxTime
  /\ now' = now + 1
  /\ UNCHANGED <<sessions, pc, asked, hold, error, served, admitted>>

\* Wrong variant: the bare session id remembered as the key.
CloneOfBareId(k, s) ==
  [key |-> s.agent_session_id, model_id |-> s.model_id, attested |-> s.attested]

CloneOf(k, s) == [key |-> k, model_id |-> s.model_id, attested |-> s.attested]

\* The handler ends; its locals, the clone among them, go with it.
Finish(r, how) ==
  /\ pc' = [pc EXCEPT ![r] = how]
  /\ hold' = [hold EXCEPT ![r] = None]

Fail(r, e) ==
  /\ Finish(r, "failed")
  /\ error' = [error EXCEPT ![r] = e]

(***************************************************************************)
(* The headers of an answer, which a stream sends before its first text,    *)
(* carry the identifier of the session: from then on the client may know    *)
(* the uuid drawn for request r.  A text that mentions the uuid is not sent *)
(* by anybody before.                                                       *)
(***************************************************************************)
Told(r) ==
  \/ pc[r] \in {"ready", "answered", "left"}
  \/ pc[r] = "failed" /\ error[r] = "Upstream"

CanBeSent(q) ==
  \A text \in {q.header, q.metadata} \cap ExplicitIds, p \in Requests :
    Mentions(text, p) => Told(p)

(***************************************************************************)
(* Refusals before any session is touched: the body does not parse or the   *)
(* proxy has no instance key; the identifier cannot be resolved.            *)
(***************************************************************************)
RefuseRequest(r) ==
  /\ pc[r] = "idle"
  /\ Fail(r, "InvalidRequest")
  /\ UNCHANGED <<sessions, now, asked, served, admitted>>

RefuseIdentifier(r) ==
  /\ pc[r] = "idle"
  /\ \E q \in RequestInputs : CanBeSent(q) /\ ~CanResolve(q)
  /\ Fail(r, "SessionIdentifier")
  /\ UNCHANGED <<sessions, now, asked, served, admitted>>

(***************************************************************************)
(* get_or_create, then the test of the clone in ensure_attested_session: a  *)
(* cached key is used as it is, otherwise the handler fetches evidence.     *)
(***************************************************************************)
Admit(r) ==
  /\ pc[r] = "idle"
  /\ \E q \in RequestInputs, t \in ClockReadings :
       LET who == ResolveIdentifier(r, q)
           k   == SessionKey(q.model_id, who.agent_session_id)
       IN  /\ CanBeSent(q)
           /\ CanResolve(q)
           /\ ReuseSession(k, t) \/ OpenSession(r, q.model_id, who, t)
           /\ asked' = [asked EXCEPT ![r] =
                          [model |-> q.model_id, agent_session_id |-> who.agent_session_id,
                           scope |-> who.scope]]
           /\ hold' = [hold EXCEPT ![r] = CloneOf(k, sessions'[k])]
           /\ pc' = [pc EXCEPT ![r] = IF sessions'[k].attested # None
                                      THEN "ready" ELSE "attesting"]
           /\ served' = [served EXCEPT ![r] = sessions'[k].opened_by]
           /\ admitted' = [admitted EXCEPT ![r] = t]
  /\ UNCHANGED <<now, error>>

(***************************************************************************)
(* verify_model_attestation(session.model_id): the await ends with verified *)
(* evidence for the clone's model, or with an error that ends the request   *)
(* and leaves the store alone.                                              *)
(***************************************************************************)
AttestationVerified(r) ==
  /\ pc[r] = "attesting"
  /\ pc' = [pc EXCEPT ![r] = "storing"]
  /\ UNCHANGED <<sessions, now, asked, hold, error, served, admitted>>

\* Wrong variant: a failed attestation invalidates what the session holds.
AttestationFailsForgetting(r) ==
  /\ pc[r] = "attesting"
  /\ Fail(r, "Attestation")
  /\ sessions' = IF hold[r].key \in DOMAIN sessions
                 THEN [sessions EXCEPT ![hold[r].key].attested = None] ELSE sessions
  /\ UNCHANGED <<now, asked, served, admitted>>

AttestationFails(r) ==
  /\ pc[r] = "attesting"
  /\ Fail(r, "Attestation")
  /\ UNCHANGED <<sessions, now, asked, served, admitted>>

Evidence(r) == [model |-> hold[r].model_id, by |-> r]

(***************************************************************************)
(* set_attested_model_state under the remembered key, and `?` on its result.*)
(***************************************************************************)
StoreAttestation(r) ==
  /\ pc[r] = "storing"
  /\ \E t \in ClockReadings :
       LET k == hold[r].key
       IN  \/ /\ SetAttested(k, Evidence(r), t)
              /\ hold' = [hold EXCEPT ![r] = CloneOf(k, sessions'[k])]
              /\ pc' = [pc EXCEPT ![r] = "ready"]
              /\ UNCHANGED error
           \/ /\ DropExpired(k, t)
              /\ Fail(r, ExpirationReason(sessions[k], t))
           \/ /\ MissSession(k)
              /\ Fail(r, "SessionNotFound")
  /\ UNCHANGED <<now, asked, served, admitted>>

(***************************************************************************)
(* The rest of the handler uses only its clone: tool context, encryption,   *)
(* the upstream call and its retries end in an answer or an error.          *)
(***************************************************************************)
Answer(r) ==
  /\ pc[r] = "ready"
  /\ \/ Finish(r, "answered") /\ UNCHANGED error
     \/ Fail(r, "Upstream")
  /\ UNCHANGED <<sessions, now, asked, served, admitted>>

(***************************************************************************)
(* The client goes away and the server drops the handler's future, which    *)
(* can only happen where the handler is suspended at an await: before its   *)
(* answer, or while it calls the model or streams.                          *)
(***************************************************************************)
Disconnect(r) ==
  /\ \/ pc[r] = "attesting" /\ Finish(r, "abandoned")
     \/ pc[r] = "ready" /\ Finish(r, "left")
  /\ UNCHANGED <<sessions, now, asked, error, served, admitted>>

\* The rest of ensure_attested_session, from the await of the evidence on.
AttestationStep(r) == AttestationVerified(r) \/ AttestationFails(r) \/ StoreAttestation(r)

(***************************************************************************)
(* cleanup_expired is part of SessionManager's interface but the server     *)
(* never calls it: ServerNext is the program, Next adds the cleanup, and    *)
(* the safety properties hold of both.                                      *)
(***************************************************************************)
Cleanup ==
  /\ \E t \in ClockReadings : CleanupExpired(t)
  /\ UNCHANGED <<now, pc, asked, hold, error, served, admitted>>

AllFinished ==
  /\ \A r \in Requests : pc[r] \in Finished
  /\ now = MaxTime
  /\ UNCHANGED vars

ServerNext ==
  \/ \E r \in Requests : RefuseRequest(r) \/ RefuseIdentifier(r) \/ Admit(r)
                         \/ AttestationStep(r) \/ Answer(r) \/ Disconnect(r)
  \/ Tick
  \/ AllFinished

Next == ServerNext \/ Cleanup

ServerSpec == Init /\ [][ServerNext]_vars
Spec == Init /\ [][Next]_vars

-----------------------------------------------------------------------------
(***************************************************************************)
(* The text a conversation is stored under, and when that text says which   *)
(* model and which identifier it was made of.                               *)
(***************************************************************************)
Named(model, id) == model \o <<":">> \o id
NameOf(a) == Named(a.model, a.agent_session_id)

Unambiguous(a) ==
  \A m \in Models, i \in Ids :
    Named(m, i) = NameOf(a) => m = a.model /\ i = a.agent_session_id

(***************************************************************************)
(* Whichever request fetched the evidence and whatever happened to the      *)
(* session in between, a request that has a key encrypts to a key attested  *)
(* for a model under which its conversation could be named: the model it    *)
(* named itself, unless another model and identifier format alike.          *)
(***************************************************************************)
KeyForRequestedModel ==
  \A r \in Requests : pc[r] = "ready" =>
    /\ hold[r].attested # None
    /\ \E i \in Ids : Named(hold[r].attested.model, i) = NameOf(asked[r])
    /\ Unambiguous(asked[r]) => hold[r].attested.model = asked[r].model

(***************************************************************************)
(* Evidence is shared under one name only: the request that fetched it      *)
(* asked for a model and an identifier that format alike, and for the same  *)
(* ones if no others do.                                                    *)
(***************************************************************************)
EvidenceOfSameConversation ==
  \A r \in Requests : pc[r] = "ready" =>
    LET by == hold[r].attested.by
    IN  /\ asked[by] # None
        /\ NameOf(asked[by]) = NameOf(asked[r])
        /\ Unambiguous(asked[r]) =>
             /\ asked[by].model = asked[r].model
             /\ asked[by].agent_session_id = asked[r].agent_session_id

(***************************************************************************)
(* A request without an identifier under the "request" fallback opens a     *)
(* session of its own and fetches its own evidence.  Another request gets   *)
(* into that session only by sending the uuid, in whatever way model and    *)
(* identifier are cut, and only once the answer has told it.                *)
(***************************************************************************)
RequestScopeIsPrivate ==
  \A r \in Requests : asked[r] # None /\ asked[r].scope = "request" =>
    /\ served[r] = r
    /\ pc[r] = "ready" => hold[r].attested.by = r
    /\ \A q \in Requests \ {r} : served[q] = r =>
         Mentions(asked[q].agent_session_id, r) /\ Told(r)

ServedBy(g) == {r \in Requests : served[r] = g}

(***************************************************************************)
(* session.max_requests is a budget: no session, over its whole life and    *)
(* under any interleaving, serves more requests than that.                  *)
(***************************************************************************)
BudgetKept == \A g \in Requests : Cardinality(ServedBy(g)) <= MaxRequests

(***************************************************************************)
(* session.max_ttl is absolute: use does not extend it, so every request a  *)
(* session serves is stamped less than max_ttl after the one that opened it.*)
(***************************************************************************)
LifetimeBounded ==
  \A r \in Requests : served[r] # None => admitted[r] < admitted[served[r]] + MaxTtl

(***************************************************************************)
(* session.idle_ttl leaves no gap: a request that is not the earliest of    *)
(* its session is stamped less than idle_ttl after some earlier one.        *)
(* Readings disagree by up to 2 * Skew, which must stay below idle_ttl.     *)
(***************************************************************************)
NoIdleGap ==
  \A r \in Requests : served[r] # None =>
    LET earlier == {q \in ServedBy(served[r]) : admitted[q] < admitted[r]}
    IN  earlier # {} => \E q \in earlier : admitted[r] < admitted[q] + IdleTtl

(***************************************************************************)
(* A session is given up only for a reason: whichever of the three sites    *)
(* drops or replaces it, its budget is spent or, at the latest time a       *)
(* handler can read, its lifetime or idle time is over.                     *)
(***************************************************************************)
StaysLive(k) == k \in DOMAIN sessions' /\ sessions'[k].opened_by = sessions[k].opened_by

DroppedOnlyWhenExpired ==
  [][\A k \in DOMAIN sessions :
       ~StaysLive(k) => Expired(sessions[k], now + Skew)]_vars

(***************************************************************************)
(* Nothing takes attestation state away from a live session: neither reuse, *)
(* nor a failed or abandoned attestation of another request.                *)
(***************************************************************************)
AttestationSticky ==
  [][\A k \in DOMAIN sessions :
       StaysLive(k) /\ sessions[k].attested # None => sessions'[k].attested # None]_vars

-----------------------------------------------------------------------------
(***************************************************************************)
(* The inductive invariant behind the safety properties.  It ties the three *)
(* views of a conversation together: the map, the clones that handlers      *)
(* carry across their awaits, and the history of admissions.                *)
(***************************************************************************)
KeyOf(a) == SessionKey(a.model, a.agent_session_id)

\* k is a key of model m
KeyNames(k, m) == \E i \in Ids : k = SessionKey(m, i)

\* state is evidence for the model of key k, fetched by a request on that key
Fits(k, state) ==
  /\ KeyNames(k, state.model)
  /\ asked[state.by] # None
  /\ KeyOf(asked[state.by]) = k

\* What the map says of a live session is what happened to it.
TellsHistory(k) ==
  LET s == sessions[k]
  IN  /\ KeyNames(k, s.model_id)
      /\ served[s.opened_by] = s.opened_by
      /\ s.request_count = Cardinality(ServedBy(s.opened_by))
      /\ s.expires_at = admitted[s.opened_by] + MaxTtl
      /\ s.attested # None => Fits(k, s.attested)

SessionsTellHistory == \A k \in DOMAIN sessions : TellsHistory(k)

\* One session lives under at most one key.
OpenersDistinct ==
  \A k1, k2 \in DOMAIN sessions :
    sessions[k1].opened_by = sessions[k2].opened_by => k1 = k2

\* What a handler carries is what it asked for.
CloneFits(r) ==
  /\ pc[r] = "idle" => served[r] = None /\ asked[r] = None
  /\ pc[r] \in {"attesting", "storing", "ready"} => hold[r] # None
  /\ pc[r] = "ready" => hold[r].attested # None
  /\ hold[r] # None =>
       /\ asked[r] # None
       /\ hold[r].key = KeyOf(asked[r])
       /\ KeyNames(hold[r].key, hold[r].model_id)
       /\ hold[r].attested # None => Fits(hold[r].key, hold[r].attested)

ClonesFit == \A r \in Requests : CloneFits(r)

\* A session's opener is the first request counted in it.
OpenersServed ==
  \A r \in Requests : served[r] # None => served[served[r]] = served[r]

IInv ==
  /\ TypeOK
  /\ SessionsTellHistory
  /\ OpenersDistinct
  /\ ClonesFit
  /\ OpenersServed
  /\ BudgetKept
  /\ LifetimeBounded

(***************************************************************************)
(* The second inductive invariant, about who shares a session and when:     *)
(* requests counted together asked under one key, and identifiers come from *)
(* resolve_identifier.                                                      *)
(***************************************************************************)
IdentifierFits(r) ==
  asked[r] # None =>
    IF asked[r].scope = "request"
    THEN asked[r].agent_session_id = RequestUuid(r)
    ELSE asked[r].agent_session_id \in ExplicitIds \cup {AgentFallbackId}

CountedUnderKey(r) ==
  /\ asked[r] # None <=> served[r] # None
  /\ served[r] # None => KeyOf(asked[served[r]]) = KeyOf(asked[r])

OpenedUnderKey(k) == KeyOf(asked[sessions[k].opened_by]) = k

SharingInv ==
  /\ \A r \in Requests : IdentifierFits(r) /\ CountedUnderKey(r)
  /\ \A k \in DOMAIN sessions : OpenedUnderKey(k)

(***************************************************************************)
(* The third, about uuids: nobody else has sent the uuid of a request whose *)
(* answer has not begun, so until then the request is alone in the session  *)
(* it opened.                                                               *)
(***************************************************************************)
UuidKept(r) ==
  \A q \in Requests \ {r} :
    asked[q] # None /\ Mentions(asked[q].agent_session_id, r) => Told(r)

OwnSession(r) ==
  asked[r] # None /\ asked[r].scope = "request" =>
    /\ served[r] = r
    /\ hold[r] # None /\ hold[r].attested # None => hold[r].attested.by = r

PrivacyInv == \A r \in Requests : UuidKept(r) /\ OwnSession(r)

(***************************************************************************)
(* The fourth, about the use of a session: its last use and its readings.   *)
(***************************************************************************)
LastUseCounted(k) ==
  \E p \in ServedBy(sessions[k].opened_by) : sessions[k].last_used_at = admitted[p]

ReadingPast(r) ==
  served[r] # None => admitted[r] \in 0..(MaxTime + Skew) /\ admitted[r] <= now + Skew

\* Between two readings of a session there is no instant x without an earlier one near it.
Unbroken(g) ==
  \A x \in 0..(MaxTime + Skew) :
    (\E p, q \in ServedBy(g) : admitted[p] < x /\ x <= admitted[q]) =>
      \E p \in ServedBy(g) : admitted[p] < x /\ x < admitted[p] + IdleTtl

UseInv ==
  /\ \A k \in DOMAIN sessions : LastUseCounted(k)
  /\ \A r \in Requests : ReadingPast(r) /\ Unbroken(r)

-----------------------------------------------------------------------------
(***************************************************************************)
(* What sources other than the code say, and the code does not do.          *)
(***************************************************************************)

(***************************************************************************)
(* src/src/sessions.rs:616, "third request should reuse and reach max" with *)
(* max_requests = 3: the last request of a budget is a request like the     *)
(* others, so no admitted request is refused because the budget is used up. *)
(***************************************************************************)
LastRequestIsServed == \A r \in Requests : error[r] # "MaxRequests"

=============================================================================
