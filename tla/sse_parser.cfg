\* Three pieces a wire, cut at any byte.
SPECIFICATION SseSpec
CONSTANTS
  CR = "cr"
  LF = "lf"
  Lead = "hi"
  Trail = "lo"
  Field <- MCField
  Value <- MCValue
  Payload <- MCPayload
  Wires <- MCWires
INVARIANTS
  CutsDoNotMatter
  FailureKeepsOrder
  FailsForCause
