\* One correction allowed: the attempt after a call that does not parse.
SPECIFICATION FairSpec
CONSTANTS
  Symbol <- MCSymbol
  Wide <- MCWide
  Marker <- MCMarker
  MaxBytes = 6
  MaxRetries = 1
  RequireToolCall = FALSE
  IncludeUsage = TRUE
  Unparsable <- MCUnparsable
  HasCalls <- MCHasCalls
  UpstreamChoices <- MCChoices
  Reasons <- MCReasons
  MaxEvents = 3
  MaxRequests = 3
  None = None
PROPERTY
  BadOutputEndsStream
