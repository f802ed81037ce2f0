SPECIFICATION Spec
CONSTANTS
  Kems = {"mlkem512", "mlkem768", "mlkem1024", "x25519_mlkem768", "p256_mlkem768"}
  Keys <- AllKeys
  Prefixes = {"file:", "pkcs11:"}
  Dates = {"valid", "expired"}
  Nuls = {0, 1}
  OpenSSL <- Native
INVARIANTS
  SameKemIsEnough
  AlgorithmsAgree
\* One handshake, which ends.
CHECK_DEADLOCK FALSE
