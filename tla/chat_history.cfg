\* What becomes of earlier tool calls.
SPECIFICATION Spec
CONSTANTS
  Null = Null
  Misfit = Misfit
  Blank = Blank
  Fraction = Fraction
  Absent = Absent
  Off = Off
  On = On
  High = High
  w = w
  u = u
  Schema = Schema
  Proxy = Proxy
  Old = Old
  New = New
  Wrong = Wrong
  HkdfInfo = HkdfInfo
  NoPoint = NoPoint
  NotText = NotText
  Cut = Cut
  CorrectionLimit = 1
  MaxRetries = 2
  Size <- MCSize
  ShapeOK <- MCShapeOK
  Bodies <- MCBodies
  Configs <- MCConfigs
  ProxyPair = Proxy
  Enclaves <- MCEnclaves
  Words <- MCWords
  Answers <- MCAnswers
  Faults <- MCFaults
INVARIANTS
  ToolHistoryArrives
CHECK_DEADLOCK FALSE
