SPECIFICATION FairSpec
CONSTANTS
  Draws <- InitiatorLivesTwice
  Optional = {"replier"}
  Documents <- InitiatorsDocument
  RepeatRequests = TRUE
  Returners = {"initiator"}
  Faults = {"sign"}
  Nil = Nil
INVARIANTS
  TypeOK
  SecretsAgree
  ReplierSecretIsDerived
  PeerKeyIsThere
PROPERTIES
  SecretIsStable
  HandshakeCompletes
\* The callers may stop, and the handshake ends.
CHECK_DEADLOCK FALSE
