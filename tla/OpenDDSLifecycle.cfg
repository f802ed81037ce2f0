\* Handles are returned at any time, permissions arrive late, AuthRequest tokens of
\* other plugins and of a wrong length occur.
SPECIFICATION Spec
CONSTANTS
  Participants = {1, 2}
  KemOf <- SameKem
  DsignOf <- SameDsign
  CaOf <- SameCa
  Perms = {"d1"}
  MaxHandles = 3
  MaxLocals = 1
  MaxRemotes = 1
  OddTokens <- OddAuthRequests
  Faults = {"none"}
  CallerReturns = TRUE
  Nil = Nil
  Short = Short
INVARIANTS
  TypeOK
  HandleNamesOneObject
PROPERTIES
  EndedHandshakesAreFrozen
CHECK_DEADLOCK FALSE
