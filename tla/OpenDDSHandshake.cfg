\* Two participants of one CA and a third of another, one identity of each, up to two
\* handshakes on either side; every cryptographic call may fail, tokens are lost, repeated
\* and reordered at will.
SPECIFICATION Spec
CONSTANTS
  Participants = {1, 2, 3}
  KemOf <- SameKem
  DsignOf <- SameDsign
  CaOf <- ThirdCa
  Perms = {}
  MaxHandles = 4
  MaxLocals = 1
  MaxRemotes = 1
  OddTokens = {}
  Faults = {"none", "decapsulate", "sign"}
  CallerReturns = FALSE
  Nil = Nil
  Short = Short
INVARIANTS
  ReplierAgreement
  InitiatorAgreement
  SessionUsedOnce
  MismatchFailsClosed
PROPERTIES
  ImplementsMutualAuth
\* The callers of the plugin may stop at any time.
CHECK_DEADLOCK FALSE
