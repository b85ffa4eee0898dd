\* One request, max_requests = 1: the smallest budget the configuration accepts.
SPECIFICATION ServerSpec
CONSTANTS
  r1 = r1  r2 = r2  r3 = r3
  Requests = {r1}
  Symbol <- MCSymbol
  Models <- OneModel
  ExplicitIds <- OneId
  AgentFallbackId <- MCFallbackId
  FallbackScope = "agent"
  IdleTtl = 1
  MaxTtl = 2
  MaxRequests = 1
  Unreadable = Unreadable
  None = None
  RequestInputs <- OneConversation
  MaxTime = 0
  Skew = 0
INVARIANT
  LastRequestIsServed
