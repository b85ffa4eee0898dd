\* One buffered answer, two corrections, up to two chunks an attempt.
SPECIFICATION FairSpec
CONSTANTS
  Symbol <- MCSymbol
  Wide <- MCWide
  Reasons <- MCReasons
  None = None
  Malformed = Malformed
  MaxBytes = 3
  MaxRetries = 2
  RequireToolCall = FALSE
  RequireEncrypted = TRUE
  Unparsable <- MCUnparsable
  HasCalls <- MCHasCalls
  UpstreamChoices <- MCChoices
  MaxEvents = 2
  MaxRequests = 4
INVARIANTS
  AnswerIsValid
  CorrectionIsCurrent
PROPERTIES
  RetryPromise
  EveryRequestEnds
