\* Texts of up to three fragments behind nothing, a call that is open or a whole one; every schema with every value; every request.
SPECIFICATION Spec
CONSTANTS
  Header <- MCHeader
  Member <- MCMember
  Readings <- MCReadings
  Nesting = 4
  Jobs <- MCJobs
INVARIANTS
  LenientReading
  CallsStandInText
  AcceptedCallsConform
  GlmReading
CHECK_DEADLOCK FALSE
