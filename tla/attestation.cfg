\* Two calls that run at the same time or one after the other.
SPECIFICATION AttestSpec
CONSTANTS
  Calls = {c1, c2}
  Models = {"m1", "m2"}
  Nonces = {"n1", "n2"}
  Keys = {"k1", "k2"}
  Addresses = {"a1", "a2"}
  Address <- MCAddress
  Answers <- MCAnswers
  Absent = Absent
  Blank = Blank
  Unusable = Unusable
SYMMETRY Symmetry
INVARIANTS
  EvidenceOfThisCall
  KeyIsBound
  WeakerAcceptsMore
  VerifiersFailClosed
