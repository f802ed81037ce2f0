SPECIFICATION Spec
CONSTANTS
  Participants = {p1, p2}
  Addresses = {a1, a2, a3, a4, a5, a6}
  Nil = Nil
SYMMETRY Symmetric
INVARIANTS
  SecretStaysAllocated
  NothingDangles
CHECK_DEADLOCK FALSE
