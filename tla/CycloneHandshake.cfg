SPECIFICATION Spec
CONSTANTS
  Participants = {1, 2, 3}
  InstanceOf <- Shared
  KemOf <- SameKem
  CaOf <- SameCa
  Expiring = {1}
  Optional = {1, 2}
  Perms <- NoPerms
  Draws <- TwoPeers
  RepeatRequests = FALSE
  CallerReturns = FALSE
  Faults = {"keygen", "encapsulate", "decapsulate", "sign"}
  Nil = Nil
  Garbage = Garbage
INVARIANTS
  SecretsAgree
  ReplierCompletesLast
  AuthenticatedPeersAreWatched
PROPERTIES
  SecretIsStable
CHECK_DEADLOCK FALSE
