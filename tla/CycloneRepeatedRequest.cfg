SPECIFICATION Spec
CONSTANTS
  Participants = {1, 2}
  InstanceOf <- Apart
  KemOf <- SameKem
  CaOf <- SameCa
  Expiring = {}
  Optional = {1, 2}
  Perms <- NoPerms
  Draws <- OneExchange
  RepeatRequests = FALSE
  CallerReturns = FALSE
  Faults = {}
  Nil = Nil
  Garbage = Garbage
INVARIANTS
  ReplyNamesItsKey
CHECK_DEADLOCK FALSE
