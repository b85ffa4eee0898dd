\* A request whose tool_choice requires a call.
SPECIFICATION Spec
CONSTANTS
  Symbol <- MCSymbol
  Wide <- MCWide
  Marker <- MCMarker
  MaxBytes = 6
  MaxRetries = 2
  RequireToolCall = TRUE
  IncludeUsage = TRUE
  Unparsable <- MCUnparsable
  HasCalls <- MCHasCalls
  UpstreamChoices <- MCChoices
  Reasons <- MCReasons
  MaxEvents = 3
  MaxRequests = 4
  None = None
INVARIANTS
  RequiredCallDelivered
