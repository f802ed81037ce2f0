--------------------------- MODULE CycloneAlgorithms ---------------------------
(***************************************************************************)
(* The algorithm tables of the CycloneDDS adapter (auth_algs.c) and what   *)
(* decides by them: which certificates validate_local_identity accepts,    *)
(* and the names and sizes that the tokens of one handshake carry and that *)
(* validate_handshake_token_impl compares.  The two ends may be different  *)
(* PQ_CRYPTO builds and have certificates of different kinds.              *)
(***************************************************************************)
EXTENDS Naturals

CONSTANTS
  Kems,      \* the SELECTED_KEM_ALGORITHM of the builds that meet
  Keys,      \* the keys of certificates: records of type and bits
  Prefixes,  \* how a property names its file or data
  Dates,     \* "valid", or before or after the validity of a certificate
  Nuls,      \* the numbers of trailing NULs with which peers send a name
  OpenSSL    \* OpenSSL[name]: the public key and ciphertext sizes of that KEM

Roles == {"initiator", "replier"}
Other(r) == IF r = "initiator" THEN "replier" ELSE "initiator"

UNKNOWN == "unknown"

----------------------------------------------------------------------------
(* auth_algs.c *)

Row(kind, openssl, wire) == [kind |-> kind, openssl |-> openssl, wire |-> wire]

kem_algorithms ==
  [ecdh_p256 |-> Row("EC_PRIME256V1", "EC", "ECDH+prime256v1-CEUM"),
   dh_2048 |-> Row("RSA_2048", "DH", "DH+MODP-2048-256"),
   mlkem512 |-> Row("ML_KEM_512", "ML-KEM-512", "ML-KEM-512"),
   mlkem768 |-> Row("ML_KEM_768", "ML-KEM-768", "ML-KEM-768"),
   mlkem1024 |-> Row("ML_KEM_1024", "ML-KEM-1024", "ML-KEM-1024"),
   x25519_mlkem768 |-> Row("X25519_ML_KEM_768", "X25519MLKEM768", "X25519MLKEM768"),
   p256_mlkem768 |-> Row("P256_ML_KEM_768", "SecP256r1MLKEM768", "SecP256r1MLKEM768"),
   frodo640shake |-> Row("FRODO_640_SHAKE", "frodo640shake", "FrodoKEM-640-SHAKE"),
   bikel1 |-> Row("BIKE_L1", "bikel1", "BIKE-L1"),
   hqc128 |-> Row("HQC_128", "hqc128", "HQC-128")]

signature_algorithms ==
  [rsa2048 |-> Row("RSA_2048", "RSA", "RSASSA-PSS-SHA256"),
   ecdsa_p256 |-> Row("EC_PRIME256V1", "EC", "ECDSA-SHA256"),
   mldsa44 |-> Row("ML_DSA_44", "ML-DSA-44", "ML-DSA-44"),
   mldsa65 |-> Row("ML_DSA_65", "ML-DSA-65", "ML-DSA-65"),
   mldsa87 |-> Row("ML_DSA_87", "ML-DSA-87", "ML-DSA-87")]

Sizes(public, ciphertext) == [public |-> public, ciphertext |-> ciphertext]

kem_key_sizes ==
  [EC_PRIME256V1 |-> Sizes(65, 65), RSA_2048 |-> Sizes(256, 256),
   ML_KEM_512 |-> Sizes(800, 768), ML_KEM_768 |-> Sizes(1184, 1088), ML_KEM_1024 |-> Sizes(1568, 1568),
   X25519_ML_KEM_768 |-> Sizes(1216, 1120), P256_ML_KEM_768 |-> Sizes(1249, 1153),
   FRODO_640_SHAKE |-> Sizes(9616, 9720), BIKE_L1 |-> Sizes(1541, 1573), HQC_128 |-> Sizes(2249, 4481)]

WireName(table, kind) ==
  LET rows == {n \in DOMAIN table : table[n].kind = kind} IN
  IF rows = {} THEN "" ELSE table[CHOOSE n \in rows : TRUE].wire

get_dsign_algo(kind) == WireName(signature_algorithms, kind)

get_kagree_algo(kind) == WireName(kem_algorithms, kind)

\* octets_equal_string: with or without a terminating NUL.
OctetsEqual(octets, text) == octets.text = text /\ octets.nuls <= 1

find_wire_kind(table, octets) ==
  LET rows == {n \in DOMAIN table : OctetsEqual(octets, table[n].wire)} IN
  IF rows = {} THEN UNKNOWN ELSE table[CHOOSE n \in rows : TRUE].kind

get_authentication_algo_kind(key) ==
  CASE key.type = "ML-DSA-44" -> "ML_DSA_44"
    [] key.type = "ML-DSA-65" -> "ML_DSA_65"
    [] key.type = "ML-DSA-87" -> "ML_DSA_87"
    [] key.type = "RSA" /\ key.bits = 2048 -> "RSA_2048"
    [] key.type = "EC" /\ key.bits = 256 -> "EC_PRIME256V1"
    [] OTHER -> UNKNOWN

KindOf(kem) == kem_algorithms[kem].kind

ASSUME BuildsAssumption == Kems \subseteq DOMAIN kem_algorithms /\ Nuls \subseteq Nat

----------------------------------------------------------------------------
(* auth_utils.c: loading the credentials of a participant. *)

check_key_type_and_size(key) ==
  CASE key.type = "RSA" -> key.bits = 2048
    [] key.type = "EC" -> key.bits = 256
    [] OTHER -> key.type \in {"ML-DSA-44", "ML-DSA-65", "ML-DSA-87"}

check_certificate_expiry(cert) == cert.dates = "valid"

\* get_conf_item_type; a PKCS#11 certificate or key is recognised and refused.
Readable(prefix) == prefix \in {"file:", "data:,"}

\* load_X509_certificate_from_bio: how a peer's certificate is read.
ParsedCertificate(cert) == get_authentication_algo_kind(cert.key) # UNKNOWN

load_X509_certificate(cert) ==
  /\ Readable(cert.prefix)
  /\ ParsedCertificate(cert)
  /\ check_key_type_and_size(cert.key)
  /\ check_certificate_expiry(cert)

load_X509_private_key(cert) == Readable(cert.prefix) /\ check_key_type_and_size(cert.key)

----------------------------------------------------------------------------

VARIABLES
  conf,    \* conf[r]: the KEM of r's build, its certificate, how it terminates names
  step,    \* what happens next, or how the handshake ended
  token,   \* the token on its way: the names and sizes in it
  remote   \* remote[r]: dsignAlgoKind and kagreeAlgoKind that r has learnt of the other

vars == <<conf, step, token, remote>>

Nothing == [dsign |-> [text |-> "", nuls |-> 0], kagree |-> [text |-> "", nuls |-> 0],
            public |-> 0, ciphertext |-> 0]

Init ==
  /\ conf \in [Roles -> [kem : Kems, nuls : Nuls,
                         cert : [key : Keys, prefix : Prefixes, dates : Dates]]]
  /\ step = "validate"
  /\ token = Nothing
  /\ remote = [r \in Roles |-> [dsign |-> UNKNOWN, kagree |-> UNKNOWN]]

LocalKem(r) == KindOf(conf[r].kem)

LocalDsign(r) == get_authentication_algo_kind(conf[r].cert.key)

Loads(r) == load_X509_certificate(conf[r].cert) /\ load_X509_private_key(conf[r].cert)

\* validate_local_identity at both ends.
ValidateLocalIdentities ==
  /\ step = "validate"
  /\ step' = IF \A r \in Roles : Loads(r) THEN "request" ELSE "invalid"
  /\ UNCHANGED <<conf, token, remote>>

Text(r, name) == [text |-> name, nuls |-> conf[r].nuls]

\* The size of what OpenSSL makes for the KEM of this kind.
Made(kind) == OpenSSL[(CHOOSE row \in {kem_algorithms[n] : n \in DOMAIN kem_algorithms} :
                         row.kind = kind).openssl]

BeginHandshakeRequest ==
  LET kind == LocalKem("initiator") IN
  /\ step = "request"
  /\ IF Made(kind).public # kem_key_sizes[kind].public
     THEN step' = "refused" /\ UNCHANGED token
     ELSE /\ step' = "reply"
          /\ token' = [Nothing EXCEPT !.dsign = Text("initiator", get_dsign_algo(LocalDsign("initiator"))),
                                      !.kagree = Text("initiator", get_kagree_algo(kind)),
                                      !.public = Made(kind).public]
  /\ UNCHANGED <<conf, remote>>

NonEmpty(octets) == octets.text # "" \/ octets.nuls > 0

\* Mutant: any known KEM is accepted.
AnyKnownKem(r) == find_wire_kind(kem_algorithms, token.kagree) # UNKNOWN

KagreeMatches(r) ==
  /\ find_wire_kind(kem_algorithms, token.kagree) # UNKNOWN
  /\ find_wire_kind(kem_algorithms, token.kagree) = LocalKem(r)

\* The certificate and the names in the request or the reply that r receives.
CredentialAccepted(r) ==
  LET cert == conf[Other(r)].cert
      dsign == find_wire_kind(signature_algorithms, token.dsign) IN
  /\ ParsedCertificate(cert)
  /\ check_certificate_expiry(cert)
  /\ NonEmpty(token.dsign)
  /\ dsign # UNKNOWN
  /\ dsign = get_authentication_algo_kind(cert.key)
  /\ NonEmpty(token.kagree)
  /\ KagreeMatches(r)

Learnt ==
  [dsign |-> find_wire_kind(signature_algorithms, token.dsign),
   kagree |-> find_wire_kind(kem_algorithms, token.kagree)]

\* Mutant: the table's column of public keys is used for both.
ComparesPublicSize(size, kind, column) == size # 0 /\ size = kem_key_sizes[kind].public

\* validate_kem_property
validate_kem_property(size, kind, column) ==
  /\ kind \in DOMAIN kem_key_sizes
  /\ size # 0
  /\ size = kem_key_sizes[kind][column]

\* begin_handshake_reply: encapsulates for the kind it has just learnt.
BeginHandshakeReply ==
  /\ step = "reply"
  /\ IF CredentialAccepted("replier") /\ validate_kem_property(token.public, Learnt.kagree, "public")
     THEN /\ remote' = [remote EXCEPT !["replier"] = Learnt]
          /\ step' = "final"
          /\ token' = [dsign |-> Text("replier", get_dsign_algo(LocalDsign("replier"))),
                       kagree |-> Text("replier", get_kagree_algo(Learnt.kagree)),
                       public |-> token.public,
                       ciphertext |-> Made(Learnt.kagree).ciphertext]
     ELSE step' = "refused" /\ UNCHANGED <<token, remote>>
  /\ UNCHANGED conf

\* process_handshake at the initiator: decapsulates with its own key pair.
ProcessReply ==
  /\ step = "final"
  /\ IF /\ CredentialAccepted("initiator")
        /\ validate_kem_property(token.public, Learnt.kagree, "public")
        /\ validate_kem_property(token.ciphertext, Learnt.kagree, "ciphertext")
        /\ token.ciphertext = Made(LocalKem("initiator")).ciphertext
     THEN /\ remote' = [remote EXCEPT !["initiator"] = Learnt]
          /\ step' = "finish"
          /\ token' = [Nothing EXCEPT !.public = token.public, !.ciphertext = token.ciphertext]
     ELSE step' = "refused" /\ UNCHANGED <<token, remote>>
  /\ UNCHANGED conf

\* process_handshake at the replier: a final names no algorithm, the stored kind decides.
ProcessFinal ==
  LET kind == remote["replier"].kagree IN
  /\ step = "finish"
  /\ step' = IF /\ validate_kem_property(token.public, kind, "public")
                /\ validate_kem_property(token.ciphertext, kind, "ciphertext")
             THEN "done" ELSE "refused"
  /\ UNCHANGED <<conf, token, remote>>

Next ==
  \/ ValidateLocalIdentities
  \/ BeginHandshakeRequest
  \/ BeginHandshakeReply
  \/ ProcessReply
  \/ ProcessFinal

Spec == Init /\ [][Next]_vars

----------------------------------------------------------------------------
(* Properties. *)

\* "Both peers must use the same plugin and KEM selection": that is enough.  Peers of
\* one build whose certificates validate_local_identity accepted are never refused for
\* an algorithm, whatever the kinds of their certificates and however they terminate
\* names, given the sizes OpenSSL makes the keys and ciphertexts of its own KEMs.
SameKemIsEnough ==
  step = "refused" => conf["initiator"].kem # conf["replier"].kem

\* A handshake that completes is between builds of one KEM, and each end has learnt
\* the kind of the other's certificate and its KEM.
AlgorithmsAgree ==
  step = "done" =>
    \A r \in Roles :
      /\ conf[r].kem = conf[Other(r)].kem
      /\ remote[r] = [dsign |-> LocalDsign(Other(r)), kagree |-> LocalKem(Other(r))]
=============================================================================
