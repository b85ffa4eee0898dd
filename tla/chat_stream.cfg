\* Up to three upstream events of any shape, in any order.
SPECIFICATION Spec
CONSTANTS
  Symbol <- MCSymbol
  Reasons <- MCReasons
  None = None
  Malformed = Malformed
  RequireEncrypted = TRUE
  IncludeUsage = TRUE
  UpstreamChoices <- MCChoices
  MaxEvents = 3
INVARIANTS
  PathsAgree
PROPERTIES
  OrderlyPromise
