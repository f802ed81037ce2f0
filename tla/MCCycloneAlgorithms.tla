------------------------- MODULE MCCycloneAlgorithms -------------------------
(* The native KEMs of OpenSSL, with the sizes of FIPS 203 and of the TLS hybrids. *)
EXTENDS CycloneAlgorithms

Native == [n \in {"ML-KEM-512", "ML-KEM-768", "ML-KEM-1024", "X25519MLKEM768", "SecP256r1MLKEM768"} |->
  CASE n = "ML-KEM-512" -> [public |-> 800, ciphertext |-> 768]
    [] n = "ML-KEM-768" -> [public |-> 1184, ciphertext |-> 1088]
    [] n = "ML-KEM-1024" -> [public |-> 1568, ciphertext |-> 1568]
    [] n = "X25519MLKEM768" -> [public |-> 32 + 1184, ciphertext |-> 32 + 1088]
    [] n = "SecP256r1MLKEM768" -> [public |-> 65 + 1184, ciphertext |-> 65 + 1088]]

\* Every kind the tables know and the nearest ones that they do not.
AllKeys == {[type |-> "ML-DSA-44", bits |-> 0], [type |-> "ML-DSA-65", bits |-> 0],
            [type |-> "ML-DSA-87", bits |-> 0], [type |-> "RSA", bits |-> 2048],
            [type |-> "EC", bits |-> 256], [type |-> "RSA", bits |-> 3072], [type |-> "ED25519", bits |-> 256]}
=============================================================================
