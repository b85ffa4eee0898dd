------------------------- MODULE ChatRequests_proofs -------------------------
(***************************************************************************)
(* Proofs about ChatRequests for every number of requests, every set of     *)
(* models and identifiers, every limit and every clock skew.                *)
(*                                                                         *)
(* The work is in the lemmas that say each action keeps IInv.  The steps    *)
(* that leave the map and the histories alone are treated together, by      *)
(* QuietStep; Admit, StoreAttestation and Cleanup have a lemma each.  Two   *)
(* more invariants, of who shares a session and when it was used, follow    *)
(* from IInv and a summary of what a step does to the histories.            *)
(***************************************************************************)
EXTENDS ChatRequests, SequenceTheorems, FiniteSetTheorems, TLAPS

-----------------------------------------------------------------------------
(***************************************************************************)
(* The operations of the session store: what each one does to the map, and  *)
(* what a session key says.                                                 *)
(***************************************************************************)
(***************************************************************************)
(* A key ends like its identifier: one that ends in the uuid of a request   *)
(* was made of an identifier that mentions it, wherever the key is cut.     *)
(***************************************************************************)
LEMMA KeyEndsLikeIdentifier ==
  ASSUME NEW r \in Requests, NEW a \in Resolved, NEW b \in Resolved,
         a.agent_session_id = RequestUuid(r), KeyOf(a) = KeyOf(b)
  PROVE  Mentions(b.agent_session_id, r)
<1> DEFINE m == a.model
           n == b.model
           i == b.agent_session_id
<1>1. /\ m \in Seq(Symbol) /\ n \in Seq(Symbol) /\ i \in Seq(Symbol)
      /\ ":" \in Symbol /\ r \in Symbol /\ r # ":"
  BY IdentifierAssumption DEF Resolved
<1>2. m \o <<":">> \o <<r>> = n \o <<":">> \o i
  BY DEF KeyOf, SessionKey, RequestUuid
<1> HIDE DEF m, n, i
<1>3. /\ Len(m \o <<":">> \o <<r>>) = Len(m) + 2
      /\ (m \o <<":">> \o <<r>>)[Len(m) + 2] = r
  BY <1>1
<1>4. /\ Len(n \o <<":">> \o i) = Len(n) + 1 + Len(i)
      /\ (n \o <<":">> \o i)[Len(n) + 1] = ":"
      /\ \A x \in 1..Len(i) : (n \o <<":">> \o i)[Len(n) + 1 + x] = i[x]
  BY <1>1
<1>5. Len(i) \in Nat /\ Len(n) \in Nat /\ Len(m) \in Nat /\ DOMAIN i = 1..Len(i)
  BY <1>1
<1>6. Len(i) \in 1..Len(i)
  BY <1>1, <1>2, <1>3, <1>4, <1>5
<1>7. i[Len(i)] = r
  BY <1>2, <1>3, <1>4, <1>5, <1>6
<1>8. QED
  BY <1>5, <1>6, <1>7 DEF Mentions, i

(***************************************************************************)
(* Where no model id contains the delimiter, its first occurrence in a key  *)
(* ends the model id, so a key is made of one model and one identifier      *)
(* (session_key, src/src/sessions.rs), and every request is unambiguous.    *)
(***************************************************************************)
ModelIdsDelimiterFree == \A m \in Models : \A n \in DOMAIN m : m[n] # ":"

LEMMA SessionKeyInjective ==
  ASSUME ModelIdsDelimiterFree,
         NEW m1 \in Models, NEW m2 \in Models, NEW i1 \in Ids, NEW i2 \in Ids,
         SessionKey(m1, i1) = SessionKey(m2, i2)
  PROVE  m1 = m2 /\ i1 = i2
<1> DEFINE k1 == SessionKey(m1, i1)
           k2 == SessionKey(m2, i2)
<1>1. /\ m1 \in Seq(Symbol) /\ m2 \in Seq(Symbol)
      /\ i1 \in Seq(Symbol) /\ i2 \in Seq(Symbol)
      /\ ":" \in Symbol
  BY IdentifierAssumption
<1>2. /\ Len(k1) = Len(m1) + 1 + Len(i1)
      /\ \A n \in 1..Len(m1) : k1[n] = m1[n]
      /\ k1[Len(m1) + 1] = ":"
      /\ \A n \in 1..Len(i1) : k1[Len(m1) + 1 + n] = i1[n]
  BY <1>1 DEF SessionKey
<1>3. /\ Len(k2) = Len(m2) + 1 + Len(i2)
      /\ \A n \in 1..Len(m2) : k2[n] = m2[n]
      /\ k2[Len(m2) + 1] = ":"
      /\ \A n \in 1..Len(i2) : k2[Len(m2) + 1 + n] = i2[n]
  BY <1>1 DEF SessionKey
<1>4. k1 = k2
  OBVIOUS
<1>5. /\ \A n \in 1..Len(m1) : m1[n] # ":"
      /\ \A n \in 1..Len(m2) : m2[n] # ":"
  BY <1>1 DEF ModelIdsDelimiterFree
<1>6. /\ Len(m1) \in Nat /\ Len(m2) \in Nat
      /\ Len(i1) \in Nat /\ Len(i2) \in Nat
  BY <1>1
<1> HIDE DEF k1, k2
<1>7. Len(m1) = Len(m2)
  <2>1. ~(Len(m1) < Len(m2))
    <3>1. SUFFICES ASSUME Len(m1) < Len(m2) PROVE FALSE
      OBVIOUS
    <3>2. Len(m1) + 1 \in 1..Len(m2)
      BY <3>1, <1>6
    <3>3. QED
      BY <3>2, <1>2, <1>3, <1>4, <1>5
  <2>2. ~(Len(m2) < Len(m1))
    <3>1. SUFFICES ASSUME Len(m2) < Len(m1) PROVE FALSE
      OBVIOUS
    <3>2. Len(m2) + 1 \in 1..Len(m1)
      BY <3>1, <1>6
    <3>3. QED
      BY <3>2, <1>2, <1>3, <1>4, <1>5
  <2>3. QED
    BY <2>1, <2>2, <1>6
<1>8. m1 = m2
  BY <1>1, <1>2, <1>3, <1>4, <1>6, <1>7, SeqEqual
<1>9. i1 = i2
  <2>1. Len(i1) = Len(i2)
    BY <1>2, <1>3, <1>4, <1>6, <1>7
  <2>2. \A n \in 1..Len(i1) : i1[n] = i2[n]
    BY <2>1, <1>2, <1>3, <1>4, <1>7
  <2>3. QED
    BY <1>1, <2>1, <2>2, SeqEqual
<1>10. QED
  BY <1>8, <1>9

LEMMA DelimiterFreeUnambiguous ==
  ASSUME ModelIdsDelimiterFree, NEW a \in Resolved
  PROVE  Unambiguous(a)
BY SessionKeyInjective DEF Unambiguous, Named, NameOf, SessionKey, Resolved

(***************************************************************************)
(* An identifier that can be resolved is one of Ids; under the request      *)
(* scope it is the request's own uuid, under the agent scope it is not.     *)
(***************************************************************************)
LEMMA ResolveIdentifierType ==
  ASSUME NEW r \in Requests, NEW q \in SessionRequest, CanResolve(q)
  PROVE  /\ ResolveIdentifier(r, q) \in [agent_session_id : Ids, scope : {"agent", "request"}]
         /\ ResolveIdentifier(r, q).scope = "request" =>
              ResolveIdentifier(r, q).agent_session_id = RequestUuid(r)
         /\ ResolveIdentifier(r, q).scope = "agent" =>
              ResolveIdentifier(r, q).agent_session_id \in ExplicitIds \cup {AgentFallbackId}
<1>1. ExplicitIdentifier(q) \in ExplicitIds \cup {None}
  BY DEF ExplicitIdentifier, CanResolve, SessionRequest
<1>2. QED
  BY <1>1 DEF ResolveIdentifier, Ids

(***************************************************************************)
(* The effect of each operation on the map.                                 *)
(***************************************************************************)
LEMMA ReuseSessionEffect ==
  ASSUME SessionsType, NEW k, NEW t \in Int, ReuseSession(k, t)
  PROVE  /\ SessionsType'
         /\ k \in DOMAIN sessions
         /\ DOMAIN sessions' = DOMAIN sessions
         /\ \A x \in DOMAIN sessions : x # k => sessions'[x] = sessions[x]
         /\ sessions'[k].model_id = sessions[k].model_id
         /\ sessions'[k].opened_by = sessions[k].opened_by
         /\ sessions'[k].attested = sessions[k].attested
         /\ sessions'[k].expires_at = sessions[k].expires_at
         /\ sessions'[k].request_count = sessions[k].request_count + 1
         /\ sessions[k].request_count < MaxRequests
         /\ t < sessions[k].expires_at
         /\ sessions'[k].last_used_at = t
         /\ ElapsedSince(sessions[k].last_used_at, t) < IdleTtl
<1>1. k \in DOMAIN sessions /\ sessions[k] \in SessionContext
  BY DEF SessionsType, ReuseSession
<1>2. /\ sessions[k].request_count < MaxRequests
      /\ t < sessions[k].expires_at
      /\ ElapsedSince(sessions[k].last_used_at, t) < IdleTtl
  BY <1>1, LimitsAssumption
     DEF ReuseSession, Expired, ExpirationReason, ElapsedSince, SessionContext
<1>3. sessions' = [sessions EXCEPT ![k] =
                    [sessions[k] EXCEPT !.request_count = @ + 1, !.last_used_at = t]]
  BY <1>1 DEF ReuseSession
<1>4. ASSUME NEW s \in SessionContext
      PROVE  [s EXCEPT !.request_count = s.request_count + 1, !.last_used_at = t]
               \in SessionContext
  <2>1. s.request_count + 1 \in Nat
    BY DEF SessionContext
  <2>2. QED
    BY <2>1 DEF SessionContext
<1>5. QED
  BY <1>1, <1>2, <1>3, <1>4 DEF SessionsType, SessionContext

LEMMA OpenSessionEffect ==
  ASSUME SessionsType, NEW r \in Requests, NEW m \in Models, NEW t \in Int,
         NEW who \in [agent_session_id : Ids, scope : {"agent", "request"}],
         NEW k, k = SessionKey(m, who.agent_session_id),
         OpenSession(r, m, who, t)
  PROVE  /\ SessionsType'
         /\ DOMAIN sessions' = DOMAIN sessions \cup {k}
         /\ \A x \in DOMAIN sessions : x # k => sessions'[x] = sessions[x]
         /\ sessions'[k] = NewContext(r, m, who, t)
<1>1. k \in Keys
  BY DEF Keys
<1>2. NewContext(r, m, who, t) \in SessionContext
  BY LimitsAssumption DEF NewContext, SessionContext
<1>3. sessions' = Insert(k, NewContext(r, m, who, t))
  BY DEF OpenSession
<1>4. QED
  BY <1>1, <1>2, <1>3 DEF Insert, SessionsType

LEMMA SetAttestedEffect ==
  ASSUME SessionsType, NEW k, NEW state \in AttestedModelState, NEW t,
         SetAttested(k, state, t)
  PROVE  /\ SessionsType'
         /\ k \in DOMAIN sessions
         /\ DOMAIN sessions' = DOMAIN sessions
         /\ \A x \in DOMAIN sessions : x # k => sessions'[x] = sessions[x]
         /\ sessions'[k].model_id = sessions[k].model_id
         /\ sessions'[k].opened_by = sessions[k].opened_by
         /\ sessions'[k].expires_at = sessions[k].expires_at
         /\ sessions'[k].request_count = sessions[k].request_count
         /\ sessions'[k].last_used_at = sessions[k].last_used_at
         /\ sessions'[k].attested = state
<1>1. k \in DOMAIN sessions /\ sessions[k] \in SessionContext
  BY DEF SessionsType, SetAttested
<1>2. sessions' = [sessions EXCEPT ![k] = [sessions[k] EXCEPT !.attested = state]]
  BY <1>1 DEF SetAttested
<1>3. [sessions[k] EXCEPT !.attested = state] \in SessionContext
  BY <1>1 DEF SessionContext
<1>4. QED
  BY <1>1, <1>2, <1>3 DEF SessionsType, SessionContext

LEMMA RemoveKeysEffect ==
  ASSUME SessionsType, NEW K, sessions' = RemoveKeys(K)
  PROVE  /\ SessionsType'
         /\ DOMAIN sessions' = DOMAIN sessions \ K
         /\ \A x \in DOMAIN sessions' : sessions'[x] = sessions[x]
BY DEF RemoveKeys, SessionsType

-----------------------------------------------------------------------------
(***************************************************************************)
(* The requests.                                                            *)
(***************************************************************************)
LEMMA ReadingsAreInt == ASSUME NEW t \in ClockReadings PROVE t \in Int
BY ClockAssumption DEF ClockReadings

(***************************************************************************)
(* The initial state satisfies the invariant.                               *)
(***************************************************************************)
LEMMA InitInvariant == Init => IInv
<1>1. SUFFICES ASSUME Init PROVE IInv
  OBVIOUS
<1>2. sessions = << >> /\ DOMAIN sessions = {}
  BY <1>1 DEF Init, SessionsInit
<1>3. TypeOK
  BY <1>1, <1>2 DEF Init, TypeOK, SessionsType, Places, Errors
<1>4. \A g \in Requests : ServedBy(g) = {}
  BY <1>1, NoneAssumption DEF Init, ServedBy
<1>5. BudgetKept
  BY <1>4, FS_EmptySet, LimitsAssumption DEF BudgetKept
<1>6. SessionsTellHistory /\ OpenersDistinct
  BY <1>2 DEF SessionsTellHistory, OpenersDistinct
<1>7. ClonesFit
  BY <1>1 DEF Init, ClonesFit, CloneFits
<1>8. OpenersServed /\ LifetimeBounded
  BY <1>1 DEF Init, OpenersServed, LifetimeBounded
<1>9. QED
  BY <1>3, <1>5, <1>6, <1>7, <1>8 DEF IInv

(***************************************************************************)
(* A step is quiet for request r if it touches neither the map nor the      *)
(* histories, and moves no other handler.                                   *)
(***************************************************************************)
Quiet(r) ==
  /\ UNCHANGED <<sessions, asked, served, admitted>>
  /\ \A q \in Requests \ {r} : pc'[q] = pc[q] /\ hold'[q] = hold[q]

(***************************************************************************)
(* A quiet step keeps the invariant if it keeps the types, the handler does *)
(* not go back to "idle", and it either drops its clone and ends or keeps   *)
(* it while moving from "attesting" to "storing".                           *)
(***************************************************************************)
LEMMA QuietStep ==
  ASSUME IInv, TypeOK', NEW r \in Requests, Quiet(r),
         \/ pc'[r] \in Finished /\ hold'[r] = None
         \/ pc[r] = "attesting" /\ pc'[r] = "storing" /\ hold'[r] = hold[r]
         \/ pc'[r] = pc[r] /\ hold'[r] = hold[r]
  PROVE  IInv'
<1> USE DEF Quiet
<1>1. SessionsTellHistory' /\ OpenersDistinct'
  BY DEF IInv, SessionsTellHistory, TellsHistory, OpenersDistinct, ServedBy, Fits, KeyNames, KeyOf
<1>2. ClonesFit'
  <2> SUFFICES ASSUME NEW q \in Requests PROVE CloneFits(q)'
    BY DEF ClonesFit
  <2>0. CloneFits(q)
    BY DEF IInv, ClonesFit
  <2>1. CASE q # r
    BY <2>0, <2>1 DEF CloneFits, Fits, KeyOf, KeyNames
  <2>2. CASE q = r
    BY <2>0, <2>2 DEF CloneFits, Fits, KeyOf, KeyNames, Finished
  <2>3. QED
    BY <2>1, <2>2
<1>3. OpenersServed' /\ BudgetKept' /\ LifetimeBounded'
  BY DEF IInv, OpenersServed, BudgetKept, ServedBy, LifetimeBounded
<1>4. QED
  BY <1>1, <1>2, <1>3 DEF IInv

(***************************************************************************)
(* The actions that are quiet for one handler.                              *)
(***************************************************************************)
LEMMA QuietActions ==
  ASSUME IInv, NEW r \in Requests,
         \/ RefuseRequest(r) \/ RefuseIdentifier(r) \/ AttestationVerified(r)
         \/ AttestationFails(r) \/ Answer(r) \/ Disconnect(r)
  PROVE  IInv'
<1> USE DEF Finish, Fail, Places, Finished, Errors
<1>1. TypeOK
  BY DEF IInv
<1>2. CASE RefuseRequest(r)
  <2>1. TypeOK'
    BY <1>1, <1>2 DEF RefuseRequest, TypeOK, SessionsType
  <2>2. QED
    BY <1>1, <1>2, <2>1, QuietStep DEF RefuseRequest, Quiet, TypeOK
<1>3. CASE RefuseIdentifier(r)
  <2>1. TypeOK'
    BY <1>1, <1>3 DEF RefuseIdentifier, TypeOK, SessionsType
  <2>2. QED
    BY <1>1, <1>3, <2>1, QuietStep DEF RefuseIdentifier, Quiet, TypeOK
<1>4. CASE AttestationVerified(r)
  <2>1. TypeOK'
    BY <1>1, <1>4 DEF AttestationVerified, TypeOK, SessionsType
  <2>2. QED
    BY <1>1, <1>4, <2>1, QuietStep DEF AttestationVerified, Quiet, TypeOK
<1>5. CASE AttestationFails(r)
  <2>1. TypeOK'
    BY <1>1, <1>5 DEF AttestationFails, TypeOK, SessionsType
  <2>2. QED
    BY <1>1, <1>5, <2>1, QuietStep DEF AttestationFails, Quiet, TypeOK
<1>6. CASE Answer(r)
  <2>1. TypeOK'
    BY <1>1, <1>6 DEF Answer, TypeOK, SessionsType
  <2>2. QED
    BY <1>1, <1>6, <2>1, QuietStep DEF Answer, Quiet, TypeOK
<1>7. CASE Disconnect(r)
  <2>1. TypeOK'
    BY <1>1, <1>7 DEF Disconnect, TypeOK, SessionsType
  <2>2. QED
    BY <1>1, <1>7, <2>1, QuietStep DEF Disconnect, Quiet, TypeOK
<1>8. QED
  BY <1>2, <1>3, <1>4, <1>5, <1>6, <1>7

(***************************************************************************)
(* Time passing, and no step at all.                                        *)
(***************************************************************************)
LEMMA IdleSteps ==
  ASSUME IInv, Tick \/ UNCHANGED vars
  PROVE  IInv'
<1>1. UNCHANGED <<sessions, pc, asked, hold, error, served, admitted>> /\ now' \in Nat
  BY DEF IInv, TypeOK, Tick, vars
<1>2. TypeOK'
  BY <1>1 DEF IInv, TypeOK, SessionsType
<1>3. SessionsTellHistory' /\ OpenersDistinct' /\ ClonesFit'
  BY <1>1 DEF IInv, SessionsTellHistory, TellsHistory, OpenersDistinct, ServedBy,
              ClonesFit, CloneFits, Fits, KeyNames, KeyOf
<1>4. OpenersServed' /\ BudgetKept' /\ LifetimeBounded'
  BY <1>1 DEF IInv, OpenersServed, BudgetKept, ServedBy, LifetimeBounded
<1>5. QED
  BY <1>2, <1>3, <1>4 DEF IInv

(***************************************************************************)
(* Dropping sessions, in cleanup_expired or when evidence comes too late,   *)
(* keeps what is said of the sessions that stay.                            *)
(***************************************************************************)
LEMMA DroppingSessions ==
  ASSUME IInv, NEW K, sessions' = RemoveKeys(K), UNCHANGED <<asked, served, admitted>>
  PROVE  SessionsType' /\ SessionsTellHistory' /\ OpenersDistinct'
<1>1. /\ SessionsType'
      /\ DOMAIN sessions' \subseteq DOMAIN sessions
      /\ \A x \in DOMAIN sessions' : sessions'[x] = sessions[x]
  BY RemoveKeysEffect DEF IInv, TypeOK
<1>2. SessionsTellHistory'
  <2> SUFFICES ASSUME NEW k \in DOMAIN sessions' PROVE TellsHistory(k)'
    BY DEF SessionsTellHistory
  <2>1. TellsHistory(k) /\ sessions'[k] = sessions[k]
    BY <1>1 DEF IInv, SessionsTellHistory
  <2>2. QED
    BY <2>1 DEF TellsHistory, ServedBy, Fits, KeyNames, KeyOf
<1>3. OpenersDistinct'
  BY <1>1 DEF IInv, OpenersDistinct
<1>4. QED
  BY <1>1, <1>2, <1>3

LEMMA CleanupStep ==
  ASSUME IInv, Cleanup
  PROVE  IInv'
<1>1. PICK K : sessions' = RemoveKeys(K)
  BY DEF Cleanup, CleanupExpired
<1>2. UNCHANGED <<now, pc, asked, hold, error, served, admitted>>
  BY DEF Cleanup
<1>3. SessionsType' /\ SessionsTellHistory' /\ OpenersDistinct'
  BY <1>1, <1>2, DroppingSessions
<1>4. TypeOK'
  BY <1>2, <1>3 DEF IInv, TypeOK
<1>5. ClonesFit' /\ OpenersServed' /\ BudgetKept' /\ LifetimeBounded'
  BY <1>2 DEF IInv, ClonesFit, CloneFits, Fits, KeyNames, KeyOf,
              OpenersServed, BudgetKept, ServedBy, LifetimeBounded
<1>6. QED
  BY <1>3, <1>4, <1>5 DEF IInv

(***************************************************************************)
(* set_attested_model_state after the await.  In the case that stores, the  *)
(* session under the remembered key may be another one than the handler     *)
(* cloned; the evidence still fits the key.                                 *)
(***************************************************************************)
LEMMA StoreStep ==
  ASSUME IInv, NEW r \in Requests, StoreAttestation(r)
  PROVE  IInv'
<1> DEFINE k == hold[r].key
<1>1. /\ pc[r] = "storing"
      /\ UNCHANGED <<now, asked, served, admitted>>
  BY DEF StoreAttestation
<1>2. /\ hold[r] \in Clone
      /\ asked[r] # None
      /\ k = KeyOf(asked[r])
      /\ KeyNames(k, hold[r].model_id)
  BY <1>1 DEF IInv, TypeOK, ClonesFit, CloneFits
<1>3. Evidence(r) \in AttestedModelState /\ Evidence(r) # None
  BY <1>2, NoneAssumption DEF Evidence, AttestedModelState, Clone
<1>4. Fits(k, Evidence(r))
  BY <1>2 DEF Fits, Evidence
<1>5. PICK t \in ClockReadings :
        \/ /\ SetAttested(k, Evidence(r), t)
           /\ hold' = [hold EXCEPT ![r] = CloneOf(k, sessions'[k])]
           /\ pc' = [pc EXCEPT ![r] = "ready"]
           /\ UNCHANGED error
        \/ /\ DropExpired(k, t)
           /\ Fail(r, ExpirationReason(sessions[k], t))
        \/ /\ MissSession(k)
           /\ Fail(r, "SessionNotFound")
  BY DEF StoreAttestation
<1>6. OpenersServed' /\ BudgetKept' /\ LifetimeBounded'
  BY <1>1 DEF IInv, OpenersServed, BudgetKept, ServedBy, LifetimeBounded
<1>7. ASSUME NEW q \in Requests \ {r}, pc'[q] = pc[q], hold'[q] = hold[q]
      PROVE  CloneFits(q)'
  BY <1>1, <1>7 DEF IInv, ClonesFit, CloneFits, Fits, KeyOf, KeyNames
<1> HIDE DEF k
<1>8. CASE /\ SetAttested(k, Evidence(r), t)
           /\ hold' = [hold EXCEPT ![r] = CloneOf(k, sessions'[k])]
           /\ pc' = [pc EXCEPT ![r] = "ready"]
           /\ UNCHANGED error
  <2>1. /\ SessionsType'
        /\ k \in DOMAIN sessions
        /\ DOMAIN sessions' = DOMAIN sessions
        /\ \A x \in DOMAIN sessions : x # k => sessions'[x] = sessions[x]
        /\ sessions'[k].model_id = sessions[k].model_id
        /\ sessions'[k].opened_by = sessions[k].opened_by
        /\ sessions'[k].expires_at = sessions[k].expires_at
        /\ sessions'[k].request_count = sessions[k].request_count
        /\ sessions'[k].attested = Evidence(r)
    BY <1>3, <1>8, SetAttestedEffect DEF IInv, TypeOK
  <2>3. SessionsTellHistory'
    <3> SUFFICES ASSUME NEW x \in DOMAIN sessions' PROVE TellsHistory(x)'
      BY DEF SessionsTellHistory
    <3>1. TellsHistory(x)
      BY <2>1 DEF IInv, SessionsTellHistory
    <3>2. CASE x # k
      BY <1>1, <2>1, <3>1, <3>2 DEF TellsHistory, ServedBy, Fits, KeyNames, KeyOf
    <3>3. CASE x = k
      BY <1>1, <1>4, <2>1, <3>1, <3>3 DEF TellsHistory, ServedBy, Fits, KeyNames, KeyOf
    <3>4. QED
      BY <3>2, <3>3
  <2>4. OpenersDistinct'
    BY <2>1 DEF IInv, OpenersDistinct
  <2>5. /\ hold'[r] = CloneOf(k, sessions'[k])
        /\ pc'[r] = "ready"
        /\ \A q \in Requests \ {r} : pc'[q] = pc[q] /\ hold'[q] = hold[q]
    BY <1>8 DEF IInv, TypeOK
  <2>6. KeyNames(k, sessions[k].model_id)
    BY <2>1 DEF IInv, SessionsTellHistory, TellsHistory
  <2>7. /\ CloneOf(k, sessions'[k]) \in Clone
        /\ CloneOf(k, sessions'[k]).key = k
        /\ CloneOf(k, sessions'[k]).model_id = sessions[k].model_id
        /\ CloneOf(k, sessions'[k]).attested = Evidence(r)
    BY <1>2, <1>3, <2>1 DEF CloneOf, Clone, SessionsType, SessionContext, k
  <2>8. CloneFits(r)'
    <3>1. /\ hold'[r].key = k
          /\ hold'[r].model_id = sessions[k].model_id
          /\ hold'[r].attested = Evidence(r)
          /\ hold'[r].attested # None
          /\ hold'[r] # None
      BY <1>3, <2>5, <2>7, AbsentAssumption
    <3>2. asked' = asked
      BY <1>1
    <3>3. KeyNames(hold[r].key, hold[r].model_id)'
      BY <2>6, <3>1 DEF KeyNames
    <3>4. Fits(hold[r].key, hold[r].attested)'
      BY <1>4, <3>1, <3>2 DEF Fits, KeyNames, KeyOf
    <3>5. QED
      BY <1>2, <2>5, <3>1, <3>2, <3>3, <3>4 DEF CloneFits, KeyOf
  <2>9. ClonesFit'
    BY <1>7, <2>5, <2>8 DEF ClonesFit
  <2>10. TypeOK'
    BY <1>1, <1>8, <2>1, <2>7 DEF IInv, TypeOK, Places
  <2>11. QED
    BY <1>6, <2>3, <2>4, <2>9, <2>10 DEF IInv
<1>9. CASE DropExpired(k, t) /\ Fail(r, ExpirationReason(sessions[k], t))
  <2>1. SessionsType' /\ SessionsTellHistory' /\ OpenersDistinct'
    BY <1>1, <1>9, DroppingSessions DEF DropExpired
  <2>2. ExpirationReason(sessions[k], t) \in Errors
    BY <1>9 DEF DropExpired, Expired, ExpirationReason, Errors
  <2>3. /\ pc'[r] = "failed" /\ hold'[r] = None
        /\ \A q \in Requests \ {r} : pc'[q] = pc[q] /\ hold'[q] = hold[q]
    BY <1>9 DEF Fail, Finish, IInv, TypeOK
  <2>4. TypeOK'
    BY <1>1, <1>9, <2>1, <2>2 DEF Fail, Finish, IInv, TypeOK, Places
  <2>5. ClonesFit'
    BY <1>7, <2>3 DEF ClonesFit, CloneFits
  <2>6. QED
    BY <1>6, <2>1, <2>4, <2>5 DEF IInv
<1>10. CASE MissSession(k) /\ Fail(r, "SessionNotFound")
  <2>1. TypeOK'
    BY <1>1, <1>10 DEF MissSession, Fail, Finish, IInv, TypeOK, SessionsType, Places, Errors
  <2>2. QED
    BY <1>1, <1>10, <2>1, QuietStep
       DEF Quiet, MissSession, Fail, Finish, Finished, IInv, TypeOK
<1>11. QED
  BY <1>5, <1>8, <1>9, <1>10

(***************************************************************************)
(* get_or_create.  Reuse counts the request in a session with budget and    *)
(* time left; opening starts a session that has served nobody else, since   *)
(* the request itself has not been served before.                           *)
(***************************************************************************)
LEMMA AdmitStep ==
  ASSUME IInv, NEW r \in Requests, Admit(r)
  PROVE  IInv'
<1>1. PICK q \in RequestInputs, t \in ClockReadings :
        LET who == ResolveIdentifier(r, q)
            k   == SessionKey(q.model_id, who.agent_session_id)
        IN  /\ CanResolve(q)
            /\ ReuseSession(k, t) \/ OpenSession(r, q.model_id, who, t)
            /\ asked' = [asked EXCEPT ![r] =
                           [model |-> q.model_id, agent_session_id |-> who.agent_session_id,
                            scope |-> who.scope]]
            /\ hold' = [hold EXCEPT ![r] = CloneOf(k, sessions'[k])]
            /\ pc' = [pc EXCEPT ![r] = IF sessions'[k].attested # None
                                       THEN "ready" ELSE "attesting"]
            /\ served' = [served EXCEPT ![r] = sessions'[k].opened_by]
            /\ admitted' = [admitted EXCEPT ![r] = t]
  BY DEF Admit
<1> DEFINE m   == q.model_id
           who == ResolveIdentifier(r, q)
           k   == SessionKey(m, who.agent_session_id)
           a   == [model |-> m, agent_session_id |-> who.agent_session_id, scope |-> who.scope]
<1>2. q \in SessionRequest /\ m \in Models
  BY InputAssumption DEF SessionRequest
<1>3. who \in [agent_session_id : Ids, scope : {"agent", "request"}]
  BY <1>1, <1>2, ResolveIdentifierType
<1>4. /\ k \in Keys
      /\ KeyNames(k, m)
      /\ a \in Resolved /\ a # None
      /\ KeyOf(a) = k
      /\ t \in Int
  BY <1>2, <1>3, AbsentAssumption, ReadingsAreInt DEF Keys, KeyNames, Resolved, KeyOf
<1>5. pc[r] = "idle" /\ served[r] = None /\ asked[r] = None
  BY DEF Admit, IInv, ClonesFit, CloneFits
<1>6. /\ TypeOK /\ now' = now /\ error' = error
  BY DEF Admit, IInv
<1> HIDE DEF k, who, m, a
<1>7. /\ ReuseSession(k, t) \/ OpenSession(r, m, who, t)
      /\ asked' = [asked EXCEPT ![r] = a]
      /\ hold' = [hold EXCEPT ![r] = CloneOf(k, sessions'[k])]
      /\ pc' = [pc EXCEPT ![r] = IF sessions'[k].attested # None
                                  THEN "ready" ELSE "attesting"]
      /\ served' = [served EXCEPT ![r] = sessions'[k].opened_by]
      /\ admitted' = [admitted EXCEPT ![r] = t]
  BY <1>1 DEF k, who, m, a
<1>8. \A p \in Requests \ {r} :
        /\ asked'[p] = asked[p] /\ hold'[p] = hold[p] /\ pc'[p] = pc[p]
        /\ served'[p] = served[p] /\ admitted'[p] = admitted[p]
  BY <1>6, <1>7 DEF TypeOK
<1>9. /\ asked'[r] = a
      /\ hold'[r] = CloneOf(k, sessions'[k])
      /\ pc'[r] = IF sessions'[k].attested # None THEN "ready" ELSE "attesting"
      /\ served'[r] = sessions'[k].opened_by
      /\ admitted'[r] = t
  BY <1>6, <1>7 DEF TypeOK
\* Evidence names a request that was admitted before, so not r: it still fits.
<1>10. ASSUME NEW x, NEW e, e.by \in Requests, Fits(x, e)
       PROVE  KeyNames(x, e.model) /\ asked'[e.by] # None /\ KeyOf(asked'[e.by]) = x
  BY <1>5, <1>8, <1>10 DEF Fits
<1>11. ASSUME NEW g \in Requests, g # served'[r]
       PROVE  ServedBy(g)' = ServedBy(g)
  BY <1>5, <1>8, <1>11, NoneAssumption DEF ServedBy
<1>12. ASSUME NEW g \in Requests, g = served'[r]
       PROVE  ServedBy(g)' = ServedBy(g) \cup {r}
  BY <1>8, <1>12 DEF ServedBy
<1>13. \A g \in Requests : IsFiniteSet(ServedBy(g)) /\ r \notin ServedBy(g)
  BY <1>5, IdentifierAssumption, FS_Subset, NoneAssumption DEF ServedBy
\* The two exits have this in common.
<1>14. ASSUME SessionsType', SessionsTellHistory', OpenersDistinct',
              k \in DOMAIN sessions', OpenersServed', BudgetKept', LifetimeBounded'
       PROVE  IInv'
  <2>1. sessions'[k] \in SessionContext
    BY <1>14 DEF SessionsType
  <2>2. CloneOf(k, sessions'[k]) \in Clone
    BY <1>4, <2>1 DEF CloneOf, Clone, SessionContext
  <2>3. TypeOK'
    BY <1>4, <1>6, <1>7, <1>14, <2>1, <2>2 DEF TypeOK, Places, SessionContext
  <2>4. TellsHistory(k)'
    BY <1>14 DEF SessionsTellHistory
  <2>5. CloneFits(r)'
    <3>1. /\ hold'[r].key = k
          /\ hold'[r].model_id = sessions'[k].model_id
          /\ hold'[r].attested = sessions'[k].attested
          /\ hold'[r] # None
      BY <1>9, <2>2, AbsentAssumption DEF CloneOf
    <3>2. KeyNames(hold[r].key, hold[r].model_id)'
      BY <2>4, <3>1 DEF TellsHistory, KeyNames
    <3>3. hold'[r].attested # None => Fits(hold[r].key, hold[r].attested)'
      BY <2>4, <3>1 DEF TellsHistory, Fits, KeyNames, KeyOf
    <3>4. QED
      BY <1>4, <1>9, <3>1, <3>2, <3>3 DEF CloneFits, KeyOf
  <2>6. ASSUME NEW p \in Requests \ {r} PROVE CloneFits(p)'
    <3>1. CloneFits(p)
      BY DEF IInv, ClonesFit
    <3>2. hold[p] # None /\ hold[p].attested # None =>
            Fits(hold[p].key, hold[p].attested)'
      <4>1. SUFFICES ASSUME hold[p] # None, hold[p].attested # None
                     PROVE  Fits(hold[p].key, hold[p].attested)'
        OBVIOUS
      <4>2. hold[p].attested.by \in Requests /\ Fits(hold[p].key, hold[p].attested)
        BY <1>6, <3>1, <4>1 DEF CloneFits, TypeOK, Clone, AttestedModelState
      <4>3. hold'[p] = hold[p]
        BY <1>8
      <4>4. QED
        BY <1>10, <4>2, <4>3 DEF Fits, KeyNames, KeyOf
    <3>3. QED
      BY <1>8, <3>1, <3>2 DEF CloneFits, KeyOf, KeyNames
  <2>7. ClonesFit'
    BY <2>5, <2>6 DEF ClonesFit
  <2>8. QED
    BY <1>14, <2>3, <2>7 DEF IInv
\* A session other than the one that admits r goes on telling its history.
<1>15. ASSUME NEW x \in DOMAIN sessions, x # k, sessions'[x] = sessions[x],
              sessions[x].opened_by # served'[r]
       PROVE  TellsHistory(x)'
  <2>1. TellsHistory(x) /\ sessions[x] \in SessionContext
    BY <1>6 DEF IInv, SessionsTellHistory, TypeOK, SessionsType
  <2>2. sessions[x].opened_by \in Requests \ {r}
    BY <1>5, <2>1, NoneAssumption DEF SessionContext, TellsHistory
  <2>3. /\ served'[sessions[x].opened_by] = sessions[x].opened_by
        /\ admitted'[sessions[x].opened_by] = admitted[sessions[x].opened_by]
        /\ ServedBy(sessions[x].opened_by)' = ServedBy(sessions[x].opened_by)
    BY <1>8, <1>11, <1>15, <2>1, <2>2 DEF TellsHistory
  <2>4. (sessions[x].attested # None => Fits(x, sessions[x].attested))'
    BY <1>10, <1>15, <2>1
       DEF TellsHistory, Fits, KeyNames, KeyOf, SessionContext, AttestedModelState
  <2>5. QED
    BY <1>15, <2>1, <2>3, <2>4 DEF TellsHistory, KeyNames, Fits, KeyOf, ServedBy
<1>16. CASE ReuseSession(k, t)
  <2>0. PICK g \in Requests : g = sessions[k].opened_by
    BY <1>6, <1>16 DEF TypeOK, SessionsType, SessionContext, ReuseSession
  <2>1. /\ SessionsType'
        /\ k \in DOMAIN sessions
        /\ DOMAIN sessions' = DOMAIN sessions
        /\ \A x \in DOMAIN sessions : x # k => sessions'[x] = sessions[x]
        /\ sessions'[k].model_id = sessions[k].model_id
        /\ sessions'[k].opened_by = g
        /\ sessions'[k].attested = sessions[k].attested
        /\ sessions'[k].expires_at = sessions[k].expires_at
        /\ sessions'[k].request_count = sessions[k].request_count + 1
        /\ sessions[k].request_count < MaxRequests
        /\ t < sessions[k].expires_at
    BY <1>4, <1>6, <1>16, <2>0, ReuseSessionEffect DEF TypeOK
  <2>2. /\ TellsHistory(k)
        /\ sessions[k] \in SessionContext
    BY <1>6, <2>1 DEF IInv, SessionsTellHistory, TypeOK, SessionsType
  <2>3. g \in Requests \ {r} /\ served[g] = g
    BY <1>5, <2>0, <2>2, NoneAssumption DEF TellsHistory
  <2>4. served'[r] = g
    BY <1>9, <2>1
  <2>5. served'[g] = g /\ admitted'[g] = admitted[g]
    BY <1>8, <2>3
  <2>6. /\ ServedBy(g)' = ServedBy(g) \cup {r}
        /\ Cardinality(ServedBy(g))' = Cardinality(ServedBy(g)) + 1
    <3>1. ServedBy(g)' = ServedBy(g) \cup {r}
      BY <1>12, <2>3, <2>4
    <3>2. IsFiniteSet(ServedBy(g)) /\ r \notin ServedBy(g)
      BY <1>13, <2>3
    <3>3. QED
      BY <3>1, <3>2, FS_AddElement
  <2>7. TellsHistory(k)'
    <3>1. (sessions[k].attested # None => Fits(k, sessions[k].attested))'
      BY <1>10, <2>1, <2>2
         DEF TellsHistory, Fits, KeyNames, KeyOf, SessionContext, AttestedModelState
    <3>2. QED
      BY <2>0, <2>1, <2>2, <2>5, <2>6, <3>1 DEF TellsHistory, KeyNames, Fits, KeyOf, ServedBy
  <2>8. SessionsTellHistory'
    <3>1. \A x \in DOMAIN sessions : x # k => sessions[x].opened_by # g
      BY <2>0, <2>1 DEF IInv, OpenersDistinct
    <3>2. QED
      BY <1>15, <2>1, <2>4, <2>7, <3>1 DEF SessionsTellHistory
  <2>9. OpenersDistinct'
    BY <2>0, <2>1 DEF IInv, OpenersDistinct
  <2>10. OpenersServed'
    BY <1>8, <2>3, <2>4, <2>5, NoneAssumption, <1>5, <1>6 DEF IInv, OpenersServed, TypeOK
  <2>11. BudgetKept'
    <3>1. Cardinality(ServedBy(g)) + 1 <= MaxRequests
      BY <2>0, <2>1, <2>2, LimitsAssumption DEF TellsHistory, SessionContext
    <3>2. ASSUME NEW h \in Requests PROVE (Cardinality(ServedBy(h)) <= MaxRequests)'
      <4>1. CASE h = g
        BY <2>6, <3>1, <4>1
      <4>2. CASE h # g
        <5>1. ServedBy(h)' = ServedBy(h)
          BY <1>11, <2>4, <4>2
        <5>2. QED
          BY <5>1 DEF IInv, BudgetKept
      <4>3. QED
        BY <4>1, <4>2
    <3>3. QED
      BY <3>2 DEF BudgetKept
  <2>12. LifetimeBounded'
    <3>1. t < admitted[g] + MaxTtl
      BY <2>0, <2>1, <2>2 DEF TellsHistory
    <3>2. \A p \in Requests \ {r} : served[p] # None => served[p] \in Requests \ {r}
      BY <1>5, <1>6, NoneAssumption DEF IInv, OpenersServed, TypeOK
    <3>3. QED
      BY <1>8, <1>9, <2>3, <2>4, <2>5, <3>1, <3>2 DEF IInv, LifetimeBounded
  <2>13. QED
    BY <1>14, <2>1, <2>8, <2>9, <2>10, <2>11, <2>12
<1>17. CASE OpenSession(r, m, who, t)
  <2>1. /\ SessionsType'
        /\ DOMAIN sessions' = DOMAIN sessions \cup {k}
        /\ \A x \in DOMAIN sessions : x # k => sessions'[x] = sessions[x]
        /\ sessions'[k] = NewContext(r, m, who, t)
    <3>1. SessionsType
      BY <1>6 DEF TypeOK
    <3>2. QED
      BY <1>2, <1>3, <1>4, <1>17, <3>1, OpenSessionEffect DEF k
  <2>2. /\ sessions'[k].model_id = m
        /\ sessions'[k].opened_by = r
        /\ sessions'[k].attested = None
        /\ sessions'[k].expires_at = t + MaxTtl
        /\ sessions'[k].request_count = 1
    BY <2>1 DEF NewContext
  <2>3. served'[r] = r
    BY <1>9, <2>2
  <2>4. ServedBy(r) = {}
    BY <1>5, <1>6, NoneAssumption DEF IInv, OpenersServed, ServedBy, TypeOK
  <2>5. ServedBy(r)' = {r} /\ Cardinality(ServedBy(r))' = 1
    <3>1. ServedBy(r)' = {r}
      BY <1>12, <2>3, <2>4
    <3>2. QED
      BY <3>1, FS_Singleton
  <2>6. TellsHistory(k)'
    BY <1>4, <1>9, <2>2, <2>3, <2>5 DEF TellsHistory, KeyNames, ServedBy
  <2>7. \A x \in DOMAIN sessions : sessions[x].opened_by # r
    <3>1. \A x \in DOMAIN sessions : served[sessions[x].opened_by] = sessions[x].opened_by
      BY DEF IInv, SessionsTellHistory, TellsHistory
    <3>2. QED
      BY <1>5, <3>1, NoneAssumption
  <2>8. SessionsTellHistory'
    BY <1>15, <2>1, <2>3, <2>6, <2>7 DEF SessionsTellHistory
  <2>9. OpenersDistinct'
    BY <2>1, <2>2, <2>7 DEF IInv, OpenersDistinct
  <2>10. OpenersServed'
    BY <1>8, <2>3, <1>6 DEF IInv, OpenersServed, TypeOK
  <2>11. BudgetKept'
    BY <1>11, <2>3, <2>5, LimitsAssumption DEF IInv, BudgetKept
  <2>12. LifetimeBounded'
    <3>1. \A p \in Requests \ {r} : served[p] # None => served[p] \in Requests \ {r}
      BY <1>5, <1>6, NoneAssumption DEF IInv, OpenersServed, TypeOK
    <3>2. t < t + MaxTtl
      BY <1>4, LimitsAssumption
    <3>3. QED
      BY <1>8, <1>9, <2>3, <3>1, <3>2 DEF IInv, LifetimeBounded
  <2>13. QED
    BY <1>14, <2>1, <2>8, <2>9, <2>10, <2>11, <2>12
<1>18. QED
  BY <1>7, <1>16, <1>17

-----------------------------------------------------------------------------
(***************************************************************************)
(* Every step of the specification keeps the invariant.                     *)
(***************************************************************************)
LEMMA StepInvariant == IInv /\ [Next]_vars => IInv'
<1>1. SUFFICES ASSUME IInv, [Next]_vars PROVE IInv'
  OBVIOUS
<1>2. ASSUME NEW r \in Requests, RefuseRequest(r) \/ RefuseIdentifier(r) \/ Admit(r)
                                 \/ AttestationStep(r) \/ Answer(r) \/ Disconnect(r)
      PROVE  IInv'
  BY <1>1, <1>2, QuietActions, AdmitStep, StoreStep DEF AttestationStep
<1>3. CASE Tick \/ AllFinished \/ UNCHANGED vars
  BY <1>1, <1>3, IdleSteps DEF AllFinished
<1>4. CASE Cleanup
  BY <1>1, <1>4, CleanupStep
<1>5. QED
  BY <1>1, <1>2, <1>3, <1>4 DEF Next, ServerNext

LEMMA SpecInvariant == Spec => []IInv
<1>1. Init => IInv
  BY InitInvariant
<1>2. IInv /\ [Next]_vars => IInv'
  BY StepInvariant
<1>3. QED
  BY <1>1, <1>2, PTL DEF Spec

(***************************************************************************)
(* The store, the clones and the histories have their types.                *)
(***************************************************************************)
THEOREM TypeCorrect == Spec => []TypeOK
<1>1. IInv => TypeOK
  BY DEF IInv
<1>2. QED
  BY <1>1, SpecInvariant, PTL

(***************************************************************************)
(* No session serves more than session.max_requests requests, however many  *)
(* requests there are and however get_or_create, set_attested_model_state   *)
(* and the clock interleave.                                                *)
(***************************************************************************)
THEOREM BudgetTheorem == Spec => []BudgetKept
<1>1. IInv => BudgetKept
  BY DEF IInv
<1>2. QED
  BY <1>1, SpecInvariant, PTL

(***************************************************************************)
(* No request is served by a session max_ttl or more after the request that *)
(* opened it, for any clock skew.                                           *)
(***************************************************************************)
THEOREM LifetimeTheorem == Spec => []LifetimeBounded
<1>1. IInv => LifetimeBounded
  BY DEF IInv
<1>2. QED
  BY <1>1, SpecInvariant, PTL

(***************************************************************************)
(* What a ready handler holds: evidence for a model of its key, fetched by  *)
(* a request under the same key.                                            *)
(***************************************************************************)
LEMMA ReadyEvidence ==
  ASSUME IInv, NEW r \in Requests, pc[r] = "ready"
  PROVE  LET e == hold[r].attested
         IN  /\ e # None /\ e.model \in Models /\ e.by \in Requests
             /\ asked[r] \in Resolved /\ asked[e.by] \in Resolved /\ asked[e.by] # None
             /\ \E i \in Ids : Named(e.model, i) = NameOf(asked[r])
             /\ NameOf(asked[e.by]) = NameOf(asked[r])
<1> DEFINE e == hold[r].attested
<1>1. /\ hold[r] # None
      /\ e # None
      /\ asked[r] # None
      /\ hold[r].key = KeyOf(asked[r])
      /\ Fits(hold[r].key, e)
  BY DEF IInv, ClonesFit, CloneFits
<1>2. e \in AttestedModelState /\ asked[r] \in Resolved
  BY <1>1 DEF IInv, TypeOK, Clone
<1>3. e.model \in Models /\ e.by \in Requests
  BY <1>2 DEF AttestedModelState
<1>4. asked[e.by] \in Resolved /\ asked[e.by] # None
  BY <1>1, <1>3 DEF IInv, TypeOK, Fits
<1> HIDE DEF e
<1>5. \E i \in Ids : Named(e.model, i) = NameOf(asked[r])
  BY <1>1 DEF Fits, KeyNames, KeyOf, SessionKey, Named, NameOf
<1>6. NameOf(asked[e.by]) = NameOf(asked[r])
  BY <1>1 DEF Fits, KeyOf, SessionKey, Named, NameOf
<1>7. QED
  BY <1>1, <1>2, <1>3, <1>4, <1>5, <1>6 DEF e

(***************************************************************************)
(* Every request encrypts to a key attested for a model under which its     *)
(* conversation could be named, whatever texts models and identifiers are:  *)
(* for the model it named, unless another pair formats alike.               *)
(***************************************************************************)
THEOREM KeyBinding == Spec => []KeyForRequestedModel
<1>1. ASSUME IInv, NEW r \in Requests, pc[r] = "ready"
      PROVE  /\ hold[r].attested # None
             /\ \E i \in Ids : Named(hold[r].attested.model, i) = NameOf(asked[r])
             /\ Unambiguous(asked[r]) => hold[r].attested.model = asked[r].model
  BY <1>1, ReadyEvidence DEF Unambiguous
<1>2. IInv => KeyForRequestedModel
  BY <1>1 DEF KeyForRequestedModel
<1>3. QED
  BY <1>2, SpecInvariant, PTL

(***************************************************************************)
(* Evidence never leaves the text it was fetched under, nor, where no other *)
(* pair formats alike, the pair of model and identifier.                    *)
(***************************************************************************)
THEOREM EvidenceIsolation == Spec => []EvidenceOfSameConversation
<1>1. ASSUME IInv, NEW r \in Requests, pc[r] = "ready"
      PROVE  LET by == hold[r].attested.by
             IN  /\ asked[by] # None
                 /\ NameOf(asked[by]) = NameOf(asked[r])
                 /\ Unambiguous(asked[r]) =>
                      /\ asked[by].model = asked[r].model
                      /\ asked[by].agent_session_id = asked[r].agent_session_id
  <2> DEFINE b == asked[hold[r].attested.by]
  <2>1. b \in Resolved /\ b # None /\ NameOf(b) = NameOf(asked[r])
    BY <1>1, ReadyEvidence
  <2>2. Unambiguous(asked[r]) => b.model = asked[r].model /\ b.agent_session_id = asked[r].agent_session_id
    <3> HIDE DEF b
    <3> QED
      BY <2>1 DEF Unambiguous, NameOf, Resolved
  <2>3. QED
    BY <2>1, <2>2
<1>2. IInv => EvidenceOfSameConversation
  BY <1>1 DEF EvidenceOfSameConversation
<1>3. QED
  BY <1>2, SpecInvariant, PTL

-----------------------------------------------------------------------------
(***************************************************************************)
(* A session that has expired does not come back to life.                   *)
(***************************************************************************)
LEMMA ExpiredMonotone ==
  ASSUME NEW s \in SessionContext, NEW t \in Int, NEW u \in Int, t <= u, Expired(s, t)
  PROVE  Expired(s, u)
BY LimitsAssumption DEF Expired, ExpirationReason, ElapsedSince, SessionContext

(***************************************************************************)
(* What a step may do to one session: if it stays it keeps the evidence it  *)
(* has, and otherwise it was expired at the reading the step used.          *)
(***************************************************************************)
KeepsOrExpires(k) ==
  /\ StaysLive(k) /\ sessions[k].attested # None => sessions'[k].attested # None
  /\ ~StaysLive(k) => \E t \in ClockReadings : Expired(sessions[k], t)

LEMMA SessionStep ==
  ASSUME IInv, [Next]_vars, NEW k \in DOMAIN sessions
  PROVE  KeepsOrExpires(k)
<1> USE DEF KeepsOrExpires
<1>1. SessionsType
  BY DEF IInv, TypeOK
<1>2. CASE UNCHANGED sessions
  BY <1>2 DEF StaysLive
<1>3. CASE \E r \in Requests : Admit(r)
  <2>1. PICK r \in Requests, q \in RequestInputs, t \in ClockReadings :
          /\ pc[r] = "idle"
          /\ CanResolve(q)
          /\ \/ ReuseSession(SessionKey(q.model_id, ResolveIdentifier(r, q).agent_session_id), t)
             \/ OpenSession(r, q.model_id, ResolveIdentifier(r, q), t)
    BY <1>3 DEF Admit
  <2> DEFINE m   == q.model_id
             who == ResolveIdentifier(r, q)
             x   == SessionKey(m, who.agent_session_id)
  <2>2. /\ t \in Int
        /\ q \in SessionRequest /\ m \in Models
        /\ who \in [agent_session_id : Ids, scope : {"agent", "request"}]
    BY <2>1, InputAssumption, ReadingsAreInt, ResolveIdentifierType DEF SessionRequest
  <2> HIDE DEF m, who
  <2>3. CASE ReuseSession(x, t)
    BY <1>1, <2>2, <2>3, ReuseSessionEffect DEF StaysLive
  <2>4. CASE OpenSession(r, m, who, t)
    <3>1. /\ DOMAIN sessions' = DOMAIN sessions \cup {x}
          /\ \A y \in DOMAIN sessions : y # x => sessions'[y] = sessions[y]
          /\ sessions'[x] = NewContext(r, m, who, t)
      <4> HIDE DEF x
      <4>1. x = SessionKey(m, who.agent_session_id)
        BY DEF x
      <4>2. QED
        BY <1>1, <2>2, <2>4, <4>1, OpenSessionEffect
    <3>2. x \in DOMAIN sessions => Expired(sessions[x], t)
      BY <2>4 DEF OpenSession
    <3>3. sessions'[x].opened_by = r
      BY <3>1 DEF NewContext
    <3>4. sessions[k].opened_by # r
      <4>1. served[sessions[k].opened_by] = sessions[k].opened_by
        BY DEF IInv, SessionsTellHistory, TellsHistory
      <4>2. served[r] = None
        BY <2>1 DEF IInv, ClonesFit, CloneFits
      <4>3. QED
        BY <4>1, <4>2, NoneAssumption
    <3> HIDE DEF x
    <3>5. CASE k = x
      BY <3>1, <3>2, <3>3, <3>4, <3>5 DEF StaysLive
    <3>6. CASE k # x
      BY <3>1, <3>6 DEF StaysLive
    <3>7. QED
      BY <3>5, <3>6
  <2>5. QED
    BY <2>1, <2>3, <2>4 DEF who, m
<1>4. CASE \E r \in Requests : StoreAttestation(r)
  <2>1. PICK r \in Requests, t \in ClockReadings :
          /\ pc[r] = "storing"
          /\ \/ SetAttested(hold[r].key, Evidence(r), t)
             \/ DropExpired(hold[r].key, t)
             \/ UNCHANGED sessions
    BY <1>4 DEF StoreAttestation, MissSession
  <2>2. hold[r] \in Clone
    BY <2>1 DEF IInv, TypeOK, ClonesFit, CloneFits
  <2>3. Evidence(r) \in AttestedModelState /\ Evidence(r) # None
    BY <2>2, NoneAssumption DEF Evidence, AttestedModelState, Clone
  <2>4. CASE SetAttested(hold[r].key, Evidence(r), t)
    <3> DEFINE x == hold[r].key
    <3>1. /\ DOMAIN sessions' = DOMAIN sessions
          /\ \A y \in DOMAIN sessions : y # x => sessions'[y] = sessions[y]
          /\ sessions'[x].opened_by = sessions[x].opened_by
          /\ sessions'[x].attested = Evidence(r)
      BY <1>1, <2>3, <2>4, SetAttestedEffect
    <3> HIDE DEF x
    <3>2. CASE k = x
      BY <2>3, <3>1, <3>2 DEF StaysLive
    <3>3. CASE k # x
      BY <3>1, <3>3 DEF StaysLive
    <3>4. QED
      BY <3>2, <3>3
  <2>5. CASE DropExpired(hold[r].key, t)
    <3>1. /\ DOMAIN sessions' = DOMAIN sessions \ {hold[r].key}
          /\ \A x \in DOMAIN sessions' : sessions'[x] = sessions[x]
          /\ Expired(sessions[hold[r].key], t)
      BY <1>1, <2>5, RemoveKeysEffect DEF DropExpired
    <3>2. QED
      BY <3>1 DEF StaysLive
  <2>6. QED
    BY <1>2, <2>1, <2>4, <2>5
<1>5. CASE Cleanup
  <2>1. PICK t \in ClockReadings : CleanupExpired(t)
    BY <1>5 DEF Cleanup
  <2>2. /\ DOMAIN sessions' = DOMAIN sessions \ {x \in DOMAIN sessions : Expired(sessions[x], t)}
        /\ \A x \in DOMAIN sessions' : sessions'[x] = sessions[x]
    BY <1>1, <2>1, RemoveKeysEffect DEF CleanupExpired
  <2>3. QED
    BY <2>2 DEF StaysLive
<1>6. QED
  BY <1>2, <1>3, <1>4, <1>5
     DEF Next, ServerNext, AttestationStep, RefuseRequest, RefuseIdentifier, AttestationVerified,
         AttestationFails, Answer, Disconnect, Tick, AllFinished, vars

(***************************************************************************)
(* No operation drops or replaces a session that is live at the latest      *)
(* reading a handler can have.                                              *)
(***************************************************************************)
THEOREM DropTheorem == Spec => DroppedOnlyWhenExpired
<1>1. ASSUME IInv, [Next]_vars
      PROVE  \A k \in DOMAIN sessions : ~StaysLive(k) => Expired(sessions[k], now + Skew)
  <2> SUFFICES ASSUME NEW k \in DOMAIN sessions, ~StaysLive(k)
               PROVE  Expired(sessions[k], now + Skew)
    OBVIOUS
  <2>1. PICK t \in ClockReadings : Expired(sessions[k], t)
    BY <1>1, SessionStep DEF KeepsOrExpires
  <2>2. /\ sessions[k] \in SessionContext
        /\ t \in Int /\ now + Skew \in Int /\ t <= now + Skew
    BY <1>1, ClockAssumption, ReadingsAreInt DEF IInv, TypeOK, SessionsType, ClockReadings
  <2>3. QED
    BY <2>1, <2>2, ExpiredMonotone
<1>2. QED
  BY <1>1, SpecInvariant, PTL DEF Spec, DroppedOnlyWhenExpired

(***************************************************************************)
(* No step takes the attestation state away from a session that stays.      *)
(***************************************************************************)
THEOREM StickyTheorem == Spec => AttestationSticky
<1>1. ASSUME IInv, [Next]_vars
      PROVE  \A k \in DOMAIN sessions :
               StaysLive(k) /\ sessions[k].attested # None => sessions'[k].attested # None
  BY <1>1, SessionStep DEF KeepsOrExpires
<1>2. QED
  BY <1>1, SpecInvariant, PTL DEF Spec, AttestationSticky

-----------------------------------------------------------------------------
(***************************************************************************)
(* The second invariant.  A step either leaves the histories alone and the  *)
(* sessions that stay as they were opened and last used, or it admits one   *)
(* request.                                                                 *)
(***************************************************************************)
KeepsHistories ==
  /\ UNCHANGED <<asked, served, admitted>>
  /\ now <= now' /\ now' \in Int
  /\ \A k \in DOMAIN sessions' :
       /\ k \in DOMAIN sessions
       /\ sessions'[k].opened_by = sessions[k].opened_by
       /\ sessions'[k].last_used_at = sessions[k].last_used_at

\* Request r, asking a, is counted under key k at t, in a session it opens or one in use.
Counts(r, a, k, t) ==
  /\ served[r] = None /\ asked[r] = None
  /\ a # None /\ KeyOf(a) = k
  /\ IF a.scope = "request" THEN a.agent_session_id = RequestUuid(r)
     ELSE a.agent_session_id \in ExplicitIds \cup {AgentFallbackId}
  /\ \A p \in Requests \ {r} : Mentions(a.agent_session_id, p) => Told(p)
  /\ asked' = [asked EXCEPT ![r] = a]
  /\ served' = [served EXCEPT ![r] = sessions'[k].opened_by]
  /\ admitted' = [admitted EXCEPT ![r] = t]
  /\ DOMAIN sessions' = DOMAIN sessions \cup {k}
  /\ \A x \in DOMAIN sessions : x # k => sessions'[x] = sessions[x]
  /\ sessions'[k].last_used_at = t
  /\ hold' = [hold EXCEPT ![r] = CloneOf(k, sessions'[k])]
  /\ \/ sessions'[k].opened_by = r /\ sessions'[k].attested = None
     \/ /\ k \in DOMAIN sessions
        /\ sessions'[k].opened_by = sessions[k].opened_by
        /\ ElapsedSince(sessions[k].last_used_at, t) < IdleTtl

(***************************************************************************)
(* A resolved identifier mentions no other request that is not told: a text *)
(* the client sent mentions only uuids it may know, and the fallbacks no    *)
(* other request's.                                                         *)
(***************************************************************************)
LEMMA ResolvedIsTold ==
  ASSUME NEW r \in Requests, NEW q \in SessionRequest, CanBeSent(q), CanResolve(q),
         NEW p \in Requests \ {r}, Mentions(ResolveIdentifier(r, q).agent_session_id, p)
  PROVE  Told(p)
<1> DEFINE i == ResolveIdentifier(r, q).agent_session_id
<1>1. ~Mentions(AgentFallbackId, p)
  BY IdentifierAssumption
<1>2. ~Mentions(RequestUuid(r), p)
  BY DEF Mentions, RequestUuid
<1>3. i \in {q.header, q.metadata} \cap ExplicitIds \/ i = AgentFallbackId \/ i = RequestUuid(r)
  BY NoneAssumption DEF ResolveIdentifier, ExplicitIdentifier, CanResolve, SessionRequest
<1> HIDE DEF i
<1>4. Mentions(i, p)
  BY DEF i
<1>5. QED
  BY <1>1, <1>2, <1>3, <1>4 DEF CanBeSent

LEMMA AdmitCounts ==
  ASSUME IInv, NEW r \in Requests, Admit(r)
  PROVE  /\ now' = now
         /\ \E a \in Resolved, k \in Keys, t \in ClockReadings : Counts(r, a, k, t)
<1>1. PICK q \in RequestInputs, t \in ClockReadings :
        LET who == ResolveIdentifier(r, q)
            k   == SessionKey(q.model_id, who.agent_session_id)
        IN  /\ CanBeSent(q)
            /\ CanResolve(q)
            /\ ReuseSession(k, t) \/ OpenSession(r, q.model_id, who, t)
            /\ asked' = [asked EXCEPT ![r] =
                           [model |-> q.model_id, agent_session_id |-> who.agent_session_id,
                            scope |-> who.scope]]
            /\ hold' = [hold EXCEPT ![r] = CloneOf(k, sessions'[k])]
            /\ pc' = [pc EXCEPT ![r] = IF sessions'[k].attested # None
                                       THEN "ready" ELSE "attesting"]
            /\ served' = [served EXCEPT ![r] = sessions'[k].opened_by]
            /\ admitted' = [admitted EXCEPT ![r] = t]
  BY DEF Admit
<1> DEFINE m   == q.model_id
           who == ResolveIdentifier(r, q)
           k   == SessionKey(m, who.agent_session_id)
           a   == [model |-> m, agent_session_id |-> who.agent_session_id, scope |-> who.scope]
<1>2. q \in SessionRequest /\ m \in Models
  BY InputAssumption DEF SessionRequest
<1>3. /\ who \in [agent_session_id : Ids, scope : {"agent", "request"}]
      /\ who.scope = "request" => who.agent_session_id = RequestUuid(r)
      /\ who.scope = "agent" => who.agent_session_id \in ExplicitIds \cup {AgentFallbackId}
  BY <1>1, <1>2, ResolveIdentifierType
<1>4. pc[r] = "idle" /\ served[r] = None /\ asked[r] = None /\ now' = now
  BY DEF Admit, IInv, ClonesFit, CloneFits
<1>5. /\ ReuseSession(k, t) \/ OpenSession(r, m, who, t)
      /\ asked' = [asked EXCEPT ![r] = a]
      /\ hold' = [hold EXCEPT ![r] = CloneOf(k, sessions'[k])]
      /\ served' = [served EXCEPT ![r] = sessions'[k].opened_by]
      /\ admitted' = [admitted EXCEPT ![r] = t]
  BY <1>1
<1>6. \A p \in Requests \ {r} : Mentions(who.agent_session_id, p) => Told(p)
  BY <1>1, <1>2, ResolvedIsTold
<1> HIDE DEF m, who
<1>7. /\ k \in Keys
      /\ a \in Resolved /\ a # None
      /\ KeyOf(a) = k
      /\ a.scope = who.scope /\ a.agent_session_id = who.agent_session_id
      /\ t \in Int
  BY <1>2, <1>3, AbsentAssumption, ReadingsAreInt DEF Keys, Resolved, KeyOf
<1>8. SessionsType
  BY DEF IInv, TypeOK
<1>9. k = SessionKey(m, who.agent_session_id)
  OBVIOUS
<1> HIDE DEF k, a
<1>10. /\ DOMAIN sessions' = DOMAIN sessions \cup {k}
       /\ \A x \in DOMAIN sessions : x # k => sessions'[x] = sessions[x]
       /\ sessions'[k].last_used_at = t
       /\ \/ sessions'[k].opened_by = r /\ sessions'[k].attested = None
          \/ /\ k \in DOMAIN sessions
             /\ sessions'[k].opened_by = sessions[k].opened_by
             /\ ElapsedSince(sessions[k].last_used_at, t) < IdleTtl
  <2>1. CASE ReuseSession(k, t)
    BY <1>7, <1>8, <2>1, ReuseSessionEffect
  <2>2. CASE OpenSession(r, m, who, t)
    <3>1. /\ DOMAIN sessions' = DOMAIN sessions \cup {k}
          /\ \A x \in DOMAIN sessions : x # k => sessions'[x] = sessions[x]
          /\ sessions'[k] = NewContext(r, m, who, t)
      BY <1>2, <1>3, <1>7, <1>8, <1>9, <2>2, OpenSessionEffect
    <3>2. QED
      BY <3>1 DEF NewContext
  <2>3. QED
    BY <1>5, <2>1, <2>2
<1>11. Counts(r, a, k, t)
  <2>1. a.scope \in {"agent", "request"}
    BY <1>3, <1>7
  <2>2. QED
    BY <1>3, <1>4, <1>5, <1>6, <1>7, <1>10, <2>1 DEF Counts
<1>12. QED
  BY <1>4, <1>7, <1>11

LEMMA StepHistories ==
  ASSUME IInv, [Next]_vars
  PROVE  KeepsHistories \/ \E r \in Requests : Admit(r)
<1>1. SessionsType /\ now \in Nat
  BY DEF IInv, TypeOK
<1> USE DEF KeepsHistories
<1>2. CASE UNCHANGED <<sessions, asked, served, admitted>> /\ (now' = now \/ now' = now + 1)
  BY <1>1, <1>2
<1>3. CASE \E r \in Requests : StoreAttestation(r)
  <2>1. PICK r \in Requests, t \in ClockReadings :
          /\ pc[r] = "storing"
          /\ \/ SetAttested(hold[r].key, Evidence(r), t)
             \/ DropExpired(hold[r].key, t)
             \/ UNCHANGED sessions
    BY <1>3 DEF StoreAttestation, MissSession
  <2>2. hold[r] \in Clone
    BY <2>1 DEF IInv, TypeOK, ClonesFit, CloneFits
  <2>3. Evidence(r) \in AttestedModelState
    BY <2>2 , <2>1 DEF Evidence, AttestedModelState, Clone
  <2>4. UNCHANGED <<now, asked, served, admitted>>
    BY <1>3 DEF StoreAttestation
  <2>5. CASE SetAttested(hold[r].key, Evidence(r), t)
    <3> DEFINE x == hold[r].key
    <3>1. /\ DOMAIN sessions' = DOMAIN sessions
          /\ \A y \in DOMAIN sessions : y # x => sessions'[y] = sessions[y]
          /\ sessions'[x].opened_by = sessions[x].opened_by
          /\ sessions'[x].last_used_at = sessions[x].last_used_at
      BY <1>1, <2>3, <2>5, SetAttestedEffect
    <3> HIDE DEF x
    <3>2. QED
      BY <1>1, <2>4, <3>1
  <2>6. CASE DropExpired(hold[r].key, t)
    <3>1. sessions' = RemoveKeys({hold[r].key})
      BY <2>6 DEF DropExpired
    <3>2. /\ DOMAIN sessions' \subseteq DOMAIN sessions
          /\ \A x \in DOMAIN sessions' : sessions'[x] = sessions[x]
      BY <1>1, <3>1, RemoveKeysEffect
    <3>3. QED
      BY <1>1, <2>4, <3>2
  <2>7. QED
    BY <1>1, <2>1, <2>4, <2>5, <2>6
<1>4. CASE Cleanup
  <2>1. PICK K : sessions' = RemoveKeys(K)
    BY <1>4 DEF Cleanup, CleanupExpired
  <2>2. /\ DOMAIN sessions' \subseteq DOMAIN sessions
        /\ \A x \in DOMAIN sessions' : sessions'[x] = sessions[x]
    BY <1>1, <2>1, RemoveKeysEffect
  <2>3. QED
    BY <1>1, <1>4, <2>2 DEF Cleanup
<1>5. QED
  BY <1>2, <1>3, <1>4
     DEF Next, ServerNext, AttestationStep, RefuseRequest, RefuseIdentifier, AttestationVerified,
         AttestationFails, Answer, Disconnect, Tick, AllFinished, vars

(***************************************************************************)
(* Requests share a session only under one key.                             *)
(***************************************************************************)
LEMMA SharingStep ==
  ASSUME IInv, SharingInv, [Next]_vars
  PROVE  SharingInv'
<1>1. CASE KeepsHistories
  BY <1>1 DEF KeepsHistories, SharingInv, IdentifierFits, CountedUnderKey, OpenedUnderKey, KeyOf
<1>2. ASSUME NEW r \in Requests, Admit(r) PROVE SharingInv'
  <2>1. PICK a \in Resolved, k \in Keys, t \in ClockReadings : Counts(r, a, k, t)
    BY <1>2, AdmitCounts
  <2> DEFINE g == sessions'[k].opened_by
  <2>2. /\ asked \in [Requests -> Resolved \cup {None}]
        /\ served \in [Requests -> Requests \cup {None}]
        /\ served[r] = None /\ asked[r] = None
    BY <2>1 DEF IInv, TypeOK, Counts
  <2>3. /\ asked'[r] = a /\ a # None /\ KeyOf(a) = k
        /\ served'[r] = g
        /\ \A p \in Requests \ {r} : asked'[p] = asked[p] /\ served'[p] = served[p]
    BY <2>1, <2>2 DEF Counts
  <2>4. \A x \in DOMAIN sessions :
          /\ sessions[x].opened_by \in Requests
          /\ served[sessions[x].opened_by] = sessions[x].opened_by
          /\ sessions[x].opened_by # r
    BY <2>2, NoneAssumption DEF IInv, TypeOK, SessionsType, SessionContext, SessionsTellHistory, TellsHistory
  <2>5. g \in Requests /\ KeyOf(asked'[g]) = k
    <3>1. CASE g = r
      BY <2>3, <3>1
    <3>2. CASE k \in DOMAIN sessions /\ g = sessions[k].opened_by
      BY <2>3, <2>4, <3>2 DEF SharingInv, OpenedUnderKey
    <3>3. QED
      BY <2>1, <3>1, <3>2 DEF Counts
  <2> HIDE DEF g
  <2>6. ASSUME NEW p \in Requests PROVE IdentifierFits(p)' /\ CountedUnderKey(p)'
    <3>1. CASE p = r
      <4>1. IdentifierFits(p)'
        BY <2>1, <2>3, <3>1 DEF IdentifierFits, Counts
      <4>2. CountedUnderKey(p)'
        BY <2>3, <2>5, <3>1, NoneAssumption DEF CountedUnderKey, KeyOf
      <4>3. QED
        BY <4>1, <4>2
    <3>2. CASE p # r
      <4>1. IdentifierFits(p) /\ CountedUnderKey(p)
        BY DEF SharingInv
      <4>2. asked'[p] = asked[p] /\ served'[p] = served[p]
        BY <2>3, <3>2
      <4>3. served[p] # None => served[p] \in Requests \ {r}
        BY <2>2, NoneAssumption DEF IInv, OpenersServed
      <4>4. QED
        BY <2>3, <4>1, <4>2, <4>3 DEF IdentifierFits, CountedUnderKey, KeyOf
    <3>3. QED
      BY <3>1, <3>2
  <2>7. ASSUME NEW x \in DOMAIN sessions' PROVE OpenedUnderKey(x)'
    <3>1. CASE x = k
      BY <2>5, <3>1 DEF OpenedUnderKey, KeyOf, g
    <3>2. CASE x # k
      <4>1. x \in DOMAIN sessions /\ sessions'[x] = sessions[x]
        BY <2>1, <3>2 DEF Counts
      <4>2. OpenedUnderKey(x)
        BY <4>1 DEF SharingInv
      <4>3. asked'[sessions[x].opened_by] = asked[sessions[x].opened_by]
        BY <2>3, <2>4, <4>1
      <4>4. QED
        BY <4>1, <4>2, <4>3 DEF OpenedUnderKey, KeyOf
    <3>3. QED
      BY <3>1, <3>2
  <2>8. QED
    BY <2>6, <2>7 DEF SharingInv
<1>3. QED
  BY <1>1, <1>2, StepHistories

(***************************************************************************)
(* The readings of a session leave no gap.  A new one is less than idle_ttl *)
(* behind the last use; one that is earlier than all others is at most      *)
(* 2 * Skew before them.                                                    *)
(***************************************************************************)
SkewBelowIdle == 2 * Skew < IdleTtl

LEMMA StaysUnbroken ==
  ASSUME SkewBelowIdle, UseInv, NEW r \in Requests, NEW g \in Requests,
         NEW t \in ClockReadings, NEW last \in Int,
         admitted \in [Requests -> Int], now \in Nat,
         served[r] = None, admitted' = [admitted EXCEPT ![r] = t],
         ServedBy(g)' = ServedBy(g) \cup {r},
         \E p \in ServedBy(g) : last = admitted[p],
         ElapsedSince(last, t) < IdleTtl
  PROVE  Unbroken(g)'
<1> DEFINE S == ServedBy(g)
<1>1. /\ t \in Int /\ now - Skew <= t /\ t <= now + Skew
      /\ MaxTime \in Nat /\ Skew \in Nat /\ IdleTtl \in Nat
  BY ClockAssumption, LimitsAssumption DEF ClockReadings
<1>2. r \notin S
  BY NoneAssumption DEF ServedBy
<1>3. /\ S \subseteq Requests
      /\ admitted'[r] = t
      /\ \A p \in S : admitted'[p] = admitted[p] /\ admitted[p] \in Int /\ admitted[p] <= now + Skew
  BY <1>2, NoneAssumption DEF ServedBy, UseInv, ReadingPast
<1>4. PICK l \in S : last = admitted[l]
  OBVIOUS
<1>5. t < admitted[l] + IdleTtl
  BY <1>1, <1>3, <1>4 DEF ElapsedSince
<1>6. \A x \in 0..(MaxTime + Skew) :
        (\E p, q \in S : admitted[p] < x /\ x <= admitted[q]) =>
          \E p \in S : admitted[p] < x /\ x < admitted[p] + IdleTtl
  BY DEF UseInv, Unbroken
<1> HIDE DEF S
<1>7. ASSUME NEW x \in 0..(MaxTime + Skew),
             NEW p \in S \cup {r}, NEW q \in S \cup {r}, admitted'[p] < x, x <= admitted'[q]
      PROVE  \E b \in S \cup {r} : admitted'[b] < x /\ x < admitted'[b] + IdleTtl
  <2>1. x \in Int
    BY <1>1, <1>7
  <2>2. CASE \E b, c \in S : admitted[b] < x /\ x <= admitted[c]
    <3>1. PICK b \in S : admitted[b] < x /\ x < admitted[b] + IdleTtl
      BY <1>6, <2>2
    <3>2. QED
      BY <1>3, <3>1
  <2>3. CASE \A b \in S : x <= admitted[b]
    <3>1. t < x
      BY <1>1, <1>3, <1>7, <2>1, <2>3
    <3>2. x <= now + Skew
      BY <1>1, <1>3, <1>4, <2>1, <2>3
    <3>3. x < t + IdleTtl
      BY <1>1, <2>1, <3>2 DEF SkewBelowIdle
    <3>4. QED
      BY <1>3, <3>1, <3>3
  <2>4. CASE \A b \in S : admitted[b] < x
    <3>1. x <= t
      BY <1>1, <1>3, <1>7, <2>1, <2>4
    <3>2. admitted[l] < x /\ x < admitted[l] + IdleTtl
      BY <1>1, <1>3, <1>5, <2>1, <2>4, <3>1
    <3>3. QED
      BY <1>3, <3>2
  <2>5. QED
    BY <1>3, <2>1, <2>2, <2>3, <2>4
<1>8. QED
  BY <1>7 DEF Unbroken, S

LEMMA UseStep ==
  ASSUME SkewBelowIdle, IInv, IInv', UseInv, [Next]_vars
  PROVE  UseInv'
<1>1. now \in Nat /\ Skew \in Nat /\ MaxTime \in Nat
  BY ClockAssumption DEF IInv, TypeOK
<1>2. CASE KeepsHistories
  <2>1. \A k \in DOMAIN sessions' : LastUseCounted(k)'
    BY <1>2 DEF KeepsHistories, UseInv, LastUseCounted, ServedBy
  <2>2. ASSUME NEW p \in Requests PROVE ReadingPast(p)'
    BY <1>1, <1>2 DEF KeepsHistories, UseInv, ReadingPast
  <2>3. ASSUME NEW g \in Requests PROVE Unbroken(g)'
    BY <1>2 DEF KeepsHistories, UseInv, Unbroken, ServedBy
  <2>4. QED
    BY <2>1, <2>2, <2>3 DEF UseInv
<1>3. ASSUME NEW r \in Requests, Admit(r) PROVE UseInv'
  <2>1. PICK a \in Resolved, k \in Keys, t \in ClockReadings : Counts(r, a, k, t)
    BY <1>3, AdmitCounts
  <2>2. now' = now
    BY <1>3, AdmitCounts
  <2>3. /\ served \in [Requests -> Requests \cup {None}]
        /\ admitted \in [Requests -> Int]
        /\ served[r] = None
    BY <2>1 DEF IInv, TypeOK, Counts
  <2>4. PICK g \in Requests : g = sessions'[k].opened_by
    BY <2>1 DEF Counts, IInv, TypeOK, SessionsType, SessionContext
  <2>5. /\ served'[r] = g /\ admitted'[r] = t
        /\ admitted' = [admitted EXCEPT ![r] = t]
        /\ \A p \in Requests \ {r} : served'[p] = served[p] /\ admitted'[p] = admitted[p]
    BY <2>1, <2>3, <2>4 DEF Counts
  <2>6. /\ DOMAIN sessions' = DOMAIN sessions \cup {k}
        /\ \A x \in DOMAIN sessions : x # k => sessions'[x] = sessions[x]
        /\ sessions'[k].last_used_at = t
    BY <2>1 DEF Counts
  <2>7. ASSUME NEW h \in Requests
        PROVE  /\ h = g => ServedBy(h)' = ServedBy(h) \cup {r}
               /\ h # g => ServedBy(h)' = ServedBy(h)
               /\ r \notin ServedBy(h)
    BY <2>3, <2>5, NoneAssumption DEF ServedBy
  <2>8. ASSUME NEW x \in DOMAIN sessions' PROVE LastUseCounted(x)'
    <3>1. CASE x = k
      <4>1. r \in ServedBy(g)'
        BY <2>7
      <4>2. QED
        BY <2>4, <2>5, <2>6, <3>1, <4>1 DEF LastUseCounted, ServedBy
    <3>2. CASE x # k
      <4>1. x \in DOMAIN sessions /\ sessions'[x] = sessions[x]
        BY <2>6, <3>2
      <4>2. sessions[x].opened_by \in Requests
        BY <4>1 DEF IInv, TypeOK, SessionsType, SessionContext
      <4>3. PICK p \in ServedBy(sessions[x].opened_by) : sessions[x].last_used_at = admitted[p]
        BY <4>1 DEF UseInv, LastUseCounted
      <4>4. p \in Requests \ {r} /\ served[p] = sessions[x].opened_by
        BY <2>3, <4>2, <4>3, NoneAssumption DEF ServedBy
      <4>5. /\ p \in Requests /\ served'[p] = sessions'[x].opened_by
            /\ sessions'[x].last_used_at = admitted'[p]
        BY <2>5, <4>1, <4>3, <4>4
      <4>6. QED
        BY <4>5 DEF LastUseCounted, ServedBy
    <3>3. QED
      BY <3>1, <3>2
  <2>9. ASSUME NEW p \in Requests PROVE ReadingPast(p)'
    <3>1. CASE p = r
      BY <1>1, <2>2, <2>5, <3>1 DEF ReadingPast, ClockReadings
    <3>2. CASE p # r
      BY <2>2, <2>5, <3>2 DEF UseInv, ReadingPast
    <3>3. QED
      BY <3>1, <3>2
  <2>10. ASSUME NEW h \in Requests PROVE Unbroken(h)'
    <3>1. CASE h # g
      <4>1. ServedBy(h)' = ServedBy(h) /\ r \notin ServedBy(h)
        BY <2>7, <3>1
      <4>2. \A p \in ServedBy(h) : admitted'[p] = admitted[p]
        BY <2>5, <4>1 DEF ServedBy
      <4>3. QED
        BY <4>1, <4>2 DEF UseInv, Unbroken
    <3>2. CASE h = g /\ g = r
      <4>1. ServedBy(r) = {}
        BY <2>3, NoneAssumption DEF IInv, OpenersServed, ServedBy, TypeOK
      <4>2. ServedBy(h)' = {r}
        BY <2>7, <3>2, <4>1
      <4>3. t \in Int
        BY ReadingsAreInt
      <4>4. \A x \in 0..(MaxTime + Skew) : ~(t < x /\ x <= t)
        BY <1>1, <4>3
      <4>5. QED
        BY <2>5, <4>2, <4>4 DEF Unbroken
    <3>3. CASE h = g /\ g # r
      <4>1. /\ k \in DOMAIN sessions
            /\ g = sessions[k].opened_by
            /\ ElapsedSince(sessions[k].last_used_at, t) < IdleTtl
        BY <2>1, <2>4, <3>3 DEF Counts
      <4>2. \E p \in ServedBy(g) : sessions[k].last_used_at = admitted[p]
        BY <4>1 DEF UseInv, LastUseCounted
      <4>3. sessions[k].last_used_at \in Int
        BY <4>1 DEF IInv, TypeOK, SessionsType, SessionContext
      <4>4. ServedBy(g)' = ServedBy(g) \cup {r}
        BY <2>7
      <4>5. Unbroken(g)'
        BY <1>1, <2>3, <2>5, <4>1, <4>2, <4>3, <4>4, StaysUnbroken
      <4>6. QED
        BY <3>3, <4>5
    <3>4. QED
      BY <3>1, <3>2, <3>3
  <2>11. QED
    BY <2>8, <2>9, <2>10 DEF UseInv
<1>4. QED
  BY <1>2, <1>3, StepHistories

-----------------------------------------------------------------------------
(***************************************************************************)
(* What a step does to the handlers: what a client has been told stays      *)
(* told, and a handler that is not admitted keeps its clone, drops it, or   *)
(* has one with its own evidence.                                           *)
(***************************************************************************)
HoldsOwn(p) ==
  hold'[p] = hold[p] \/ hold'[p] = None \/ hold'[p].attested = Evidence(p)

LEMMA HandlerStep ==
  ASSUME IInv, [Next]_vars, NEW p \in Requests
  PROVE  /\ Told(p) => Told(p)'
         /\ HoldsOwn(p) \/ Admit(p)
<1>1. pc \in [Requests -> Places] /\ hold \in [Requests -> Clone \cup {None}]
      /\ error \in [Requests -> Errors]
  BY DEF IInv, TypeOK
<1> USE DEF Told, HoldsOwn
<1>2. CASE UNCHANGED <<pc, hold, error>>
  BY <1>2
<1>3. ASSUME NEW r \in Requests, RefuseRequest(r) \/ RefuseIdentifier(r) \/ AttestationFails(r)
      PROVE  (Told(p) => Told(p)') /\ HoldsOwn(p)
  BY <1>1, <1>3 DEF RefuseRequest, RefuseIdentifier, AttestationFails, Fail, Finish
<1>4. ASSUME NEW r \in Requests, AttestationVerified(r)
      PROVE  (Told(p) => Told(p)') /\ HoldsOwn(p)
  BY <1>1, <1>4 DEF AttestationVerified
<1>5. ASSUME NEW r \in Requests, Answer(r) \/ Disconnect(r)
      PROVE  (Told(p) => Told(p)') /\ HoldsOwn(p)
  BY <1>1, <1>5 DEF Answer, Disconnect, Fail, Finish
<1>6. ASSUME NEW r \in Requests, StoreAttestation(r)
      PROVE  (Told(p) => Told(p)') /\ HoldsOwn(p)
  <2>1. pc[r] = "storing"
    BY <1>6 DEF StoreAttestation
  <2>2. CASE \E e : Fail(r, e)
    BY <1>1, <2>1, <2>2 DEF Fail, Finish
  <2>3. CASE \E t \in ClockReadings :
               /\ SetAttested(hold[r].key, Evidence(r), t)
               /\ hold' = [hold EXCEPT ![r] = CloneOf(hold[r].key, sessions'[hold[r].key])]
               /\ pc' = [pc EXCEPT ![r] = "ready"]
               /\ UNCHANGED error
    <3> DEFINE k == hold[r].key
    <3>1. PICK t \in ClockReadings : SetAttested(k, Evidence(r), t)
      BY <2>3
    <3>2. /\ hold' = [hold EXCEPT ![r] = CloneOf(k, sessions'[k])]
          /\ pc' = [pc EXCEPT ![r] = "ready"]
          /\ error' = error
      BY <2>3
    <3>3. hold[r] \in Clone
      BY <1>1, <2>1 DEF IInv, ClonesFit, CloneFits
    <3>4. Evidence(r) \in AttestedModelState
      BY <3>3 DEF Evidence, AttestedModelState, Clone
    <3>5. SessionsType
      BY DEF IInv, TypeOK
    <3> HIDE DEF k
    <3>6. sessions'[k].attested = Evidence(r)
      BY <3>1, <3>4, <3>5, SetAttestedEffect
    <3>7. CloneOf(k, sessions'[k]).attested = Evidence(r)
      BY <3>6 DEF CloneOf
    <3>8. CASE p = r
      BY <1>1, <2>1, <3>2, <3>7, <3>8
    <3>9. CASE p # r
      BY <1>1, <3>2, <3>9
    <3>10. QED
      BY <3>8, <3>9
  <2>4. QED
    BY <1>6, <2>2, <2>3 DEF StoreAttestation
<1>7. ASSUME NEW r \in Requests, Admit(r)
      PROVE  (Told(p) => Told(p)') /\ (HoldsOwn(p) \/ Admit(p))
  <2>1. pc[r] = "idle" /\ error' = error
    BY <1>7 DEF Admit
  <2>2. p # r => pc'[p] = pc[p] /\ hold'[p] = hold[p]
    BY <1>1, <1>7 DEF Admit
  <2>3. QED
    BY <1>7, <2>1, <2>2
<1>8. CASE Tick \/ AllFinished \/ Cleanup \/ UNCHANGED vars
  BY <1>2, <1>8 DEF Tick, AllFinished, Cleanup, vars
<1>9. QED
  BY <1>3, <1>4, <1>5, <1>6, <1>7, <1>8 DEF Next, ServerNext, AttestationStep

(***************************************************************************)
(* Nobody else has sent a uuid that is not told, and a request under the    *)
(* request scope opens a session: one under its key would be of a request   *)
(* that mentioned its uuid before it was drawn.                             *)
(***************************************************************************)
LEMMA PrivacyStep ==
  ASSUME IInv, SharingInv, PrivacyInv, [Next]_vars
  PROVE  PrivacyInv'
<1>1. /\ asked \in [Requests -> Resolved \cup {None}]
      /\ served \in [Requests -> Requests \cup {None}]
      /\ hold \in [Requests -> Clone \cup {None}]
      /\ SessionsType
  BY DEF IInv, TypeOK
<1>2. \A p \in Requests : Told(p) => Told(p)'
  BY HandlerStep
<1>3. CASE KeepsHistories
  <2>1. asked' = asked /\ served' = served
    BY <1>3 DEF KeepsHistories
  <2>2. ASSUME NEW p \in Requests PROVE UuidKept(p)'
    <3>1. \A q \in Requests \ {p} :
            asked[q] # None /\ Mentions(asked[q].agent_session_id, p) => Told(p)
      BY DEF PrivacyInv, UuidKept
    <3>2. QED
      BY <1>2, <2>1, <3>1 DEF UuidKept, Mentions
  <2>3. ASSUME NEW p \in Requests PROVE OwnSession(p)'
    <3>1. OwnSession(p)
      BY DEF PrivacyInv
    <3>2. CASE Admit(p)
      <4>1. PICK a \in Resolved, k \in Keys, t \in ClockReadings : Counts(p, a, k, t)
        BY <3>2, AdmitCounts
      <4>2. asked[p] = None /\ asked'[p] # None
        BY <1>1, <4>1 DEF Counts
      <4>3. QED
        BY <2>1, <4>2
    <3>3. CASE HoldsOwn(p)
      <4>1. Evidence(p).by = p
        BY DEF Evidence
      <4>2. QED
        BY <2>1, <3>1, <3>3, <4>1 DEF OwnSession, HoldsOwn
    <3>4. QED
      BY <3>2, <3>3, HandlerStep
  <2>4. QED
    BY <2>2, <2>3 DEF PrivacyInv
<1>4. ASSUME NEW r \in Requests, Admit(r) PROVE PrivacyInv'
  <2>1. PICK a \in Resolved, k \in Keys, t \in ClockReadings : Counts(r, a, k, t)
    BY <1>4, AdmitCounts
  <2>2. /\ a # None /\ KeyOf(a) = k
        /\ asked'[r] = a
        /\ \A q \in Requests \ {r} : asked'[q] = asked[q] /\ served'[q] = served[q] /\ hold'[q] = hold[q]
        /\ served'[r] = sessions'[k].opened_by
        /\ hold'[r] = CloneOf(k, sessions'[k])
        /\ served[r] = None
    BY <1>1, <2>1 DEF Counts
  <2>3. ASSUME NEW p \in Requests PROVE UuidKept(p)'
    <3> SUFFICES ASSUME NEW q \in Requests \ {p}, asked'[q] # None,
                        Mentions(asked'[q].agent_session_id, p)
                 PROVE  Told(p)'
      BY DEF UuidKept, Mentions
    <3>1. CASE q = r
      BY <1>2, <2>1, <2>2, <3>1 DEF Counts
    <3>2. CASE q # r
      BY <1>2, <2>2, <3>2 DEF PrivacyInv, UuidKept
    <3>3. QED
      BY <3>1, <3>2
  <2>4. ASSUME NEW p \in Requests \ {r} PROVE OwnSession(p)'
    BY <2>2 DEF PrivacyInv, OwnSession
  <2>5. OwnSession(r)'
    <3> SUFFICES ASSUME a.scope = "request"
                 PROVE  served'[r] = r /\ hold'[r].attested = None
      BY <2>2 DEF OwnSession
    <3>1. a.agent_session_id = RequestUuid(r)
      BY <2>1 DEF Counts
    <3>2. ~Told(r)
      BY <1>4 DEF Admit, Told
    <3>3. k \notin DOMAIN sessions
      <4> SUFFICES ASSUME k \in DOMAIN sessions PROVE FALSE
        OBVIOUS
      <4> DEFINE o == sessions[k].opened_by
      <4>1. o \in Requests /\ served[o] = o /\ KeyOf(asked[o]) = k
        BY <1>1 DEF SessionsType, SessionContext, IInv, SessionsTellHistory, TellsHistory,
                    SharingInv, OpenedUnderKey
      <4> HIDE DEF o
      <4>2. o \in Requests \ {r} /\ asked[o] # None
        BY <2>2, <4>1, NoneAssumption DEF SharingInv, CountedUnderKey
      <4>3. Mentions(asked[o].agent_session_id, r)
        BY <1>1, <2>2, <3>1, <4>1, <4>2, KeyEndsLikeIdentifier
      <4>4. QED
        BY <3>2, <4>2, <4>3 DEF PrivacyInv, UuidKept
    <3>4. sessions'[k].opened_by = r /\ sessions'[k].attested = None
      BY <2>1, <3>3 DEF Counts
    <3>5. QED
      BY <2>2, <3>4 DEF CloneOf
  <2>6. QED
    BY <2>3, <2>4, <2>5 DEF PrivacyInv
<1>5. QED
  BY <1>3, <1>4, StepHistories

(***************************************************************************)
(* A request under the "request" fallback has its session and the evidence  *)
(* in it for itself until its answer tells the uuid, and shares them later  *)
(* with those only that send it, whatever texts models and identifiers are. *)
(***************************************************************************)
THEOREM PrivacyTheorem == Spec => []RequestScopeIsPrivate
<1>1. Init => SharingInv
  BY DEF Init, SessionsInit, SharingInv, IdentifierFits, CountedUnderKey
<1>2. IInv /\ SharingInv /\ [Next]_vars => SharingInv'
  BY SharingStep
<1>3. Init => PrivacyInv
  BY DEF Init, PrivacyInv, UuidKept, OwnSession
<1>4. IInv /\ SharingInv /\ PrivacyInv /\ [Next]_vars => PrivacyInv'
  BY PrivacyStep
<1>5. ASSUME IInv, SharingInv, PrivacyInv PROVE RequestScopeIsPrivate
  <2> SUFFICES ASSUME NEW r \in Requests, asked[r] # None, asked[r].scope = "request"
               PROVE  /\ served[r] = r
                      /\ pc[r] = "ready" => hold[r].attested.by = r
                      /\ \A q \in Requests \ {r} : served[q] = r =>
                           Mentions(asked[q].agent_session_id, r) /\ Told(r)
    BY DEF RequestScopeIsPrivate
  <2>1. served[r] = r /\ (hold[r] # None /\ hold[r].attested # None => hold[r].attested.by = r)
    BY <1>5 DEF PrivacyInv, OwnSession
  <2>2. pc[r] = "ready" => hold[r].attested.by = r
    BY <1>5, <2>1 DEF IInv, ClonesFit, CloneFits
  <2>3. ASSUME NEW q \in Requests \ {r}, served[q] = r
        PROVE  Mentions(asked[q].agent_session_id, r) /\ Told(r)
    <3>1. asked[q] # None /\ KeyOf(asked[r]) = KeyOf(asked[q])
      BY <1>5, <2>3, NoneAssumption DEF SharingInv, CountedUnderKey
    <3>2. asked[r] \in Resolved /\ asked[q] \in Resolved
      BY <1>5, <3>1 DEF IInv, TypeOK
    <3>3. asked[r].agent_session_id = RequestUuid(r)
      BY <1>5 DEF SharingInv, IdentifierFits
    <3>4. Mentions(asked[q].agent_session_id, r)
      BY <3>1, <3>2, <3>3, KeyEndsLikeIdentifier
    <3>5. QED
      BY <1>5, <3>1, <3>4 DEF PrivacyInv, UuidKept
  <2>4. QED
    BY <2>1, <2>2, <2>3
<1>6. QED
  BY <1>1, <1>2, <1>3, <1>4, <1>5, SpecInvariant, PTL DEF Spec

(***************************************************************************)
(* If readings disagree by less than idle_ttl, no session serves a request  *)
(* idle_ttl or more after all the earlier ones it served.                   *)
(***************************************************************************)
THEOREM IdleTheorem ==
  ASSUME SkewBelowIdle
  PROVE  Spec => []NoIdleGap
<1>1. Init => UseInv
  BY NoneAssumption DEF Init, SessionsInit, UseInv, ReadingPast, Unbroken, ServedBy
<1>2. IInv /\ IInv' /\ UseInv /\ [Next]_vars => UseInv'
  BY UseStep
<1>3. ASSUME IInv, UseInv PROVE NoIdleGap
  <2> SUFFICES ASSUME NEW r \in Requests, served[r] # None, NEW q \in ServedBy(served[r]),
                      admitted[q] < admitted[r]
               PROVE  \E p \in ServedBy(served[r]) : admitted[p] < admitted[r] /\ admitted[r] < admitted[p] + IdleTtl
    BY DEF NoIdleGap
  <2>1. /\ served[r] \in Requests /\ r \in ServedBy(served[r])
        /\ admitted[r] \in 0..(MaxTime + Skew) /\ admitted[r] <= admitted[r]
    BY <1>3, ClockAssumption DEF IInv, TypeOK, ServedBy, UseInv, ReadingPast
  <2>2. Unbroken(served[r])
    BY <1>3, <2>1 DEF UseInv
  <2>3. QED
    BY <2>1, <2>2 DEF Unbroken
<1>4. QED
  BY <1>1, <1>2, <1>3, SpecInvariant, PTL DEF Spec

=============================================================================
