SPECIFICATION Spec
CONSTANTS
  Participants = {1, 2}
  InstanceOf <- Apart
  KemOf <- SameKem
  CaOf <- SameCa
  Expiring = {}
  Optional = {1, 2}
  Perms <- InitiatorsPerms
  Draws <- TwoReplies
  RepeatRequests = TRUE
  CallerReturns = TRUE
  Faults = {"keygen"}
  Nil = Nil
  Garbage = Garbage
INVARIANTS
  TypeOK
  NoDanglingHandshake
  FinalAnswersOwnReply
CHECK_DEADLOCK FALSE
