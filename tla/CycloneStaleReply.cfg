SPECIFICATION Spec
CONSTANTS
  Participants = {1, 2}
  InstanceOf <- Apart
  KemOf <- SameKem
  CaOf <- SameCa
  Expiring = {}
  Optional = {1, 2}
  Perms <- NoPerms
  Draws <- TwoKeys
  RepeatRequests = TRUE
  CallerReturns = FALSE
  Faults = {}
  Nil = Nil
  Garbage = Garbage
INVARIANTS
  SecretsAgree
CHECK_DEADLOCK FALSE
