\* Three requests: models and identifiers that format alike, a request without an
\* identifier and others that send its uuid; clock readings off by one.
SPECIFICATION Spec
CONSTANTS
  r1 = r1  r2 = r2  r3 = r3
  Requests = {r1, r2, r3}
  Symbol <- MCSymbol
  Models <- ColonModels
  ExplicitIds <- ColonIds
  AgentFallbackId <- MCFallbackId
  FallbackScope = "request"
  IdleTtl = 3
  MaxTtl = 4
  MaxRequests = 2
  Unreadable = Unreadable
  None = None
  RequestInputs <- SharedAndPrivate
  MaxTime = 3
  Skew = 1
SYMMETRY Symmetry
INVARIANTS
  TypeOK
  KeyForRequestedModel
  EvidenceOfSameConversation
  RequestScopeIsPrivate
  BudgetKept
  LifetimeBounded
  NoIdleGap
PROPERTIES
  DroppedOnlyWhenExpired
  AttestationSticky
