\* One streamed answer, two corrections, up to three chunks an attempt.
SPECIFICATION FairSpec
CONSTANTS
  Symbol <- MCSymbol
  Wide <- MCWide
  Marker <- MCMarker
  MaxBytes = 6
  MaxRetries = 2
  RequireToolCall = FALSE
  IncludeUsage = TRUE
  Unparsable <- MCUnparsable
  HasCalls <- MCHasCalls
  UpstreamChoices <- MCChoices
  Reasons <- MCReasons
  MaxEvents = 3
  MaxRequests = 4
  None = None
INVARIANTS
  TypeOK
  TextFaithful
  MarkerHeldBack
  BuffersBounded
PROPERTIES
  RetryPromise
  ClientPromise
  EveryStreamEnds
