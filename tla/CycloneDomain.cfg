SPECIFICATION Spec
CONSTANTS
  Providers = {"oqsprovider", "useless"}
  Installed = {"oqsprovider", "useless"}
  Exposes <- Exposed
  Native = {}
  Kem = "frodo640shake"
  Domains = {"d", "e", "f"}
  Participants = {1, 2, 3, 4}
  DomainOf <- OneDomain
  ProviderOf <- Names
  CaOf <- SameCa
  HasCrl = {1}
  DirOf <- Dirs
  Contents <- Directories
  MaxTrusted = 2
  Certificates <- Peers
  None = None
INVARIANTS
  LoadedKemStays
  TypeOK
  OnlyCaBufferLeaks
  
PROPERTIES
  RevokedOnlyAsListArrives
