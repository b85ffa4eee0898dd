\* One chat request, whatever its body, with up to two corrections.
SPECIFICATION Spec
CONSTANTS
  Null = Null
  Misfit = Misfit
  Blank = Blank
  Fraction = Fraction
  Absent = Absent
  Off = Off
  On = On
  High = High
  w = w
  u = u
  Schema = Schema
  Proxy = Proxy
  Old = Old
  New = New
  Wrong = Wrong
  HkdfInfo = HkdfInfo
  NoPoint = NoPoint
  NotText = NotText
  Cut = Cut
  CorrectionLimit = 1
  MaxRetries = 2
  Size <- MCSize
  ShapeOK <- MCShapeOK
  Bodies <- MCBodies
  Configs <- MCConfigs
  ProxyPair = Proxy
  Enclaves <- MCEnclaves
  Words <- MCWords
  Answers <- MCAnswers
  Faults <- MCFaults
INVARIANTS
  TypeOK
  ConversationArrives
  RetryAddsOnlyCorrection
  SettingsHonoured
  StatusTellsCourse
  SealedBothWays
CHECK_DEADLOCK FALSE
