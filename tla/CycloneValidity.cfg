SPECIFICATION Spec
CONSTANTS
  LocalIds = {l1, l2}
  RemoteIds = {r}
  Addresses = {a, b}
  MaxArms = 2
  MaxSets = 2
  None = None
INVARIANTS
  NoOrphanTimer
  TimerFieldIsTrue
  NoEarlyReport
  ListenerMissedOnlyInRemoval
PROPERTIES
  ExpiryIsReported
CHECK_DEADLOCK FALSE
