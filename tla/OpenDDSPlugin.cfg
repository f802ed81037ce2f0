SPECIFICATION Spec
CONSTANTS
  Providers = {"oqsprovider", "other", "missing"}
  Installed = {"oqsprovider", "other"}
  Exposes <- Exposed
  Native = {"ML-KEM-768"}
  Objects = {a, b}
  Participants = {1, 2, 3, 4}
  KemOf <- Kems
  ProviderOf <- Names
  None = None
INVARIANTS
  TypeOK
  ActivationsAreHeld
PROPERTIES
  KemGoesWithAnotherObject
