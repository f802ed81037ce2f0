------------------------ MODULE CycloneAlgorithmsProofs ------------------------
(***************************************************************************)
(* That the algorithm tables of the Cyclone adapter serve, for every set   *)
(* of builds that the tables know, every kind of certificate and whatever  *)
(* sizes OpenSSL makes.                                                    *)
(*                                                                         *)
(* The argument.  No two rows of a table have the same kind or the same    *)
(* name, so the name made from a kind is read back as that kind.  Then the *)
(* invariant AlgInv says what the token on its way names and what each end *)
(* has learnt, and SizesInv that its sizes are those of the table.         *)
(***************************************************************************)
EXTENDS CycloneAlgorithms, TLAPS

I == "initiator"
R == "replier"

----------------------------------------------------------------------------
(* The tables. *)

\* The rows of the table of KEMs have kinds and names of their own, and sizes.
LEMMA KemRows ==
  /\ \A a \in DOMAIN kem_algorithms :
       /\ kem_algorithms[a].wire # "" /\ kem_algorithms[a].kind # UNKNOWN
       /\ kem_algorithms[a].kind \in DOMAIN kem_key_sizes
  /\ \A a, b \in DOMAIN kem_algorithms :
       /\ kem_algorithms[a].wire = kem_algorithms[b].wire => a = b
       /\ kem_algorithms[a].kind = kem_algorithms[b].kind => a = b
  <1>1. DOMAIN kem_algorithms =
          {"ecdh_p256", "dh_2048", "mlkem512", "mlkem768", "mlkem1024", "x25519_mlkem768",
           "p256_mlkem768", "frodo640shake", "bikel1", "hqc128"}
    BY DEF kem_algorithms
  <1>2. \A a \in DOMAIN kem_algorithms :
          /\ kem_algorithms[a].wire # "" /\ kem_algorithms[a].kind # UNKNOWN
          /\ kem_algorithms[a].kind \in DOMAIN kem_key_sizes
    <2>1. \A a \in DOMAIN kem_algorithms : kem_algorithms[a].wire # ""
      <3>1. \A a \in DOMAIN kem_algorithms : kem_algorithms[a].wire \in
              {"ECDH+prime256v1-CEUM", "DH+MODP-2048-256", "ML-KEM-512", "ML-KEM-768", "ML-KEM-1024",
               "X25519MLKEM768", "SecP256r1MLKEM768", "FrodoKEM-640-SHAKE", "BIKE-L1", "HQC-128"}
        BY <1>1 DEF kem_algorithms, Row
      <3>. QED  BY <3>1, Zenon
    <2>2. \A a \in DOMAIN kem_algorithms : kem_algorithms[a].kind # UNKNOWN
      BY <1>1 DEF kem_algorithms, Row, UNKNOWN
    <2>3. \A a \in DOMAIN kem_algorithms : kem_algorithms[a].kind \in DOMAIN kem_key_sizes
      BY <1>1 DEF kem_algorithms, Row, kem_key_sizes
    <2>. QED  BY <2>1, <2>2, <2>3
  <1>3. \A a, b \in DOMAIN kem_algorithms : kem_algorithms[a].wire = kem_algorithms[b].wire => a = b
    BY <1>1 DEF kem_algorithms, Row
  <1>4. \A a, b \in DOMAIN kem_algorithms : kem_algorithms[a].kind = kem_algorithms[b].kind => a = b
    BY <1>1 DEF kem_algorithms, Row
  <1>. QED  BY <1>2, <1>3, <1>4

\* Sizes are not 0.
LEMMA SizesPositive ==
  \A kind \in DOMAIN kem_key_sizes :
    kem_key_sizes[kind].public # 0 /\ kem_key_sizes[kind].ciphertext # 0
  BY DEF kem_key_sizes, Sizes

\* The rows of the table of signatures have kinds and names of their own.
LEMMA SignatureRows ==
  /\ \A a \in DOMAIN signature_algorithms :
       signature_algorithms[a].wire # "" /\ signature_algorithms[a].kind # UNKNOWN
  /\ \A a, b \in DOMAIN signature_algorithms :
       /\ signature_algorithms[a].wire = signature_algorithms[b].wire => a = b
       /\ signature_algorithms[a].kind = signature_algorithms[b].kind => a = b
  <1>1. DOMAIN signature_algorithms = {"rsa2048", "ecdsa_p256", "mldsa44", "mldsa65", "mldsa87"}
    BY DEF signature_algorithms
  <1>2. \A a \in DOMAIN signature_algorithms : signature_algorithms[a].wire # ""
    <2>1. \A a \in DOMAIN signature_algorithms : signature_algorithms[a].wire \in
            {"RSASSA-PSS-SHA256", "ECDSA-SHA256", "ML-DSA-44", "ML-DSA-65", "ML-DSA-87"}
      BY <1>1 DEF signature_algorithms, Row
    <2>. QED  BY <2>1, Zenon
  <1>3. \A a \in DOMAIN signature_algorithms : signature_algorithms[a].kind # UNKNOWN
    BY <1>1 DEF signature_algorithms, Row, UNKNOWN
  <1>4. \A a, b \in DOMAIN signature_algorithms :
          signature_algorithms[a].wire = signature_algorithms[b].wire => a = b
    BY <1>1 DEF signature_algorithms, Row
  <1>5. \A a, b \in DOMAIN signature_algorithms :
          signature_algorithms[a].kind = signature_algorithms[b].kind => a = b
    BY <1>1 DEF signature_algorithms, Row
  <1>. QED  BY <1>2, <1>3, <1>4, <1>5

\* The kind of any certificate is that of a row, or unknown.
LEMMA KeyKinds ==
  ASSUME NEW key, get_authentication_algo_kind(key) # UNKNOWN
  PROVE  \E a \in DOMAIN signature_algorithms :
           signature_algorithms[a].kind = get_authentication_algo_kind(key)
  <1>1. get_authentication_algo_kind(key) \in
          {"ML_DSA_44", "ML_DSA_65", "ML_DSA_87", "RSA_2048", "EC_PRIME256V1"}
    BY DEF get_authentication_algo_kind, UNKNOWN
  <1>2. DOMAIN signature_algorithms = {"rsa2048", "ecdsa_p256", "mldsa44", "mldsa65", "mldsa87"}
    BY DEF signature_algorithms
  <1>3. /\ signature_algorithms["rsa2048"].kind = "RSA_2048"
        /\ signature_algorithms["ecdsa_p256"].kind = "EC_PRIME256V1"
        /\ signature_algorithms["mldsa44"].kind = "ML_DSA_44"
        /\ signature_algorithms["mldsa65"].kind = "ML_DSA_65"
        /\ signature_algorithms["mldsa87"].kind = "ML_DSA_87"
    BY DEF signature_algorithms, Row
  <1>. QED  BY <1>1, <1>2, <1>3

\* In a table without repetitions the name made from a kind is read back as that kind,
\* unless it ends in more than one NUL.
LEMMA NameReadBack ==
  ASSUME NEW table, NEW a \in DOMAIN table,
         \A b \in DOMAIN table : /\ table[b].wire = table[a].wire => b = a
                                 /\ table[b].kind = table[a].kind => b = a,
         NEW n \in Nat
  PROVE  /\ WireName(table, table[a].kind) = table[a].wire
         /\ find_wire_kind(table, [text |-> WireName(table, table[a].kind), nuls |-> n])
              = IF n <= 1 THEN table[a].kind ELSE UNKNOWN
  <1>1. WireName(table, table[a].kind) = table[a].wire
    <2>1. {b \in DOMAIN table : table[b].kind = table[a].kind} = {a}
      OBVIOUS
    <2>2. (CHOOSE b \in {a} : TRUE) = a
      OBVIOUS
    <2>. QED  BY <2>1, <2>2 DEF WireName
  <1> DEFINE o == [text |-> WireName(table, table[a].kind), nuls |-> n]
             rows == {b \in DOMAIN table : OctetsEqual(o, table[b].wire)}
  <1>2. \A b \in DOMAIN table : OctetsEqual(o, table[b].wire) <=> b = a /\ n <= 1
    BY <1>1 DEF OctetsEqual
  <1>3. n <= 1 => rows = {a}
    BY <1>2
  <1>4. ~(n <= 1) => rows = {}
    BY <1>2
  <1>5. find_wire_kind(table, o) = IF rows = {} THEN UNKNOWN ELSE table[CHOOSE b \in rows : TRUE].kind
    BY DEF find_wire_kind
  <1> HIDE DEF rows, o
  <1>6. CASE n <= 1
    <2>1. (CHOOSE b \in {a} : TRUE) = a /\ {a} # {}
      OBVIOUS
    <2>2. find_wire_kind(table, o) = table[a].kind
      BY <1>3, <1>5, <1>6, <2>1
    <2>. QED  BY <1>1, <1>6, <2>2 DEF o
  <1>7. CASE ~(n <= 1)
    <2>1. find_wire_kind(table, o) = UNKNOWN
      BY <1>4, <1>5, <1>7
    <2>. QED  BY <1>1, <1>7, <2>1 DEF o
  <1>. QED  BY <1>6, <1>7

\* What OpenSSL makes for the kind of a KEM is what it makes for its name.
LEMMA MadeIsOpenSSL ==
  ASSUME NEW kem \in Kems
  PROVE  Made(KindOf(kem)) = OpenSSL[kem_algorithms[kem].openssl]
  <1> DEFINE rows == {kem_algorithms[n] : n \in DOMAIN kem_algorithms}
  <1>1. kem \in DOMAIN kem_algorithms
    BY BuildsAssumption
  <1>2. \A row \in rows : row.kind = KindOf(kem) => row = kem_algorithms[kem]
    BY <1>1, KemRows DEF KindOf
  <1>3. kem_algorithms[kem] \in rows /\ kem_algorithms[kem].kind = KindOf(kem)
    BY <1>1 DEF KindOf
  <1> HIDE DEF rows
  <1>4. (CHOOSE row \in rows : row.kind = KindOf(kem)) = kem_algorithms[kem]
    BY <1>2, <1>3
  <1>. QED  BY <1>4 DEF Made, rows

----------------------------------------------------------------------------
(* Agreement on the algorithms. *)

Configured ==
  /\ conf \in [Roles -> [kem : Kems, nuls : Nuls, cert : [key : Keys, prefix : Prefixes, dates : Dates]]]
  /\ DOMAIN remote = Roles
  /\ step \notin {"validate", "invalid"} => \A r \in Roles : Loads(r)

\* The names in the token are those of r's certificate and of the KEM kind.
Named(r, kind) ==
  /\ token.dsign = Text(r, get_dsign_algo(LocalDsign(r)))
  /\ token.kagree = Text(r, get_kagree_algo(kind))

Known(r) == [dsign |-> LocalDsign(r), kagree |-> LocalKem(r)]

SameKem == LocalKem(I) = LocalKem(R)

AlgInv ==
  /\ Configured
  /\ step = "reply" => Named(I, LocalKem(I))
  /\ step = "final" => SameKem /\ Named(R, LocalKem(I)) /\ remote[R] = Known(I)
  /\ step \in {"finish", "done"} => SameKem /\ remote[R] = Known(I) /\ remote[I] = Known(R)

\* How the other end reads the names of a token.
LEMMA NamesRead ==
  ASSUME Configured, NEW r \in Roles, Loads(r), NEW s \in Roles, Named(r, LocalKem(s))
  PROVE  /\ find_wire_kind(signature_algorithms, token.dsign)
              = IF conf[r].nuls <= 1 THEN LocalDsign(r) ELSE UNKNOWN
         /\ find_wire_kind(kem_algorithms, token.kagree)
              = IF conf[r].nuls <= 1 THEN LocalKem(s) ELSE UNKNOWN
         /\ LocalDsign(r) # UNKNOWN /\ LocalKem(s) # UNKNOWN
         /\ NonEmpty(token.dsign) /\ NonEmpty(token.kagree)
  <1>1. conf[r].nuls \in Nat
    BY BuildsAssumption DEF Configured
  <1>2. conf[s].kem \in DOMAIN kem_algorithms
    BY BuildsAssumption DEF Configured
  <1>3. LocalDsign(r) # UNKNOWN
    BY DEF Loads, load_X509_certificate, ParsedCertificate, LocalDsign
  <1>4. PICK a \in DOMAIN signature_algorithms : signature_algorithms[a].kind = LocalDsign(r)
    BY <1>3, KeyKinds DEF LocalDsign
  <1>5. /\ WireName(signature_algorithms, LocalDsign(r)) = signature_algorithms[a].wire
        /\ find_wire_kind(signature_algorithms,
             [text |-> WireName(signature_algorithms, LocalDsign(r)), nuls |-> conf[r].nuls])
             = IF conf[r].nuls <= 1 THEN LocalDsign(r) ELSE UNKNOWN
    <2> DEFINE k == signature_algorithms[a].kind
    <2>1. \A b \in DOMAIN signature_algorithms :
            /\ signature_algorithms[b].wire = signature_algorithms[a].wire => b = a
            /\ signature_algorithms[b].kind = signature_algorithms[a].kind => b = a
      BY SignatureRows
    <2>2. /\ WireName(signature_algorithms, k) = signature_algorithms[a].wire
          /\ find_wire_kind(signature_algorithms,
               [text |-> WireName(signature_algorithms, k), nuls |-> conf[r].nuls])
               = IF conf[r].nuls <= 1 THEN k ELSE UNKNOWN
      BY <1>1, <2>1, NameReadBack
    <2>. QED  BY <1>4, <2>2
  <1>6. /\ WireName(kem_algorithms, LocalKem(s)) = kem_algorithms[conf[s].kem].wire
        /\ find_wire_kind(kem_algorithms,
             [text |-> WireName(kem_algorithms, LocalKem(s)), nuls |-> conf[r].nuls])
             = IF conf[r].nuls <= 1 THEN LocalKem(s) ELSE UNKNOWN
    BY <1>1, <1>2, KemRows, NameReadBack DEF LocalKem, KindOf
  <1>7. /\ token.dsign = [text |-> WireName(signature_algorithms, LocalDsign(r)), nuls |-> conf[r].nuls]
        /\ token.kagree = [text |-> WireName(kem_algorithms, LocalKem(s)), nuls |-> conf[r].nuls]
    BY DEF Named, Text, get_dsign_algo, get_kagree_algo
  <1>8. LocalKem(s) # UNKNOWN
    BY <1>2, KemRows DEF LocalKem, KindOf
  <1>9. NonEmpty(token.dsign) /\ NonEmpty(token.kagree)
    <2>1. signature_algorithms[a].wire # "" /\ kem_algorithms[conf[s].kem].wire # ""
      BY <1>2, SignatureRows, KemRows
    <2>2. /\ token.dsign.text = signature_algorithms[a].wire
          /\ token.kagree.text = kem_algorithms[conf[s].kem].wire
      BY <1>5, <1>6, <1>7
    <2>. QED  BY <2>1, <2>2, Zenon DEF NonEmpty
  <1>. QED  BY <1>3, <1>5, <1>6, <1>7, <1>8, <1>9

\* A credential that is accepted is of the KEM of both, and what is learnt of it is true.
LEMMA AcceptedIsTrue ==
  ASSUME Configured, NEW r \in Roles, Loads(r), NEW s \in Roles, Named(r, LocalKem(s)),
         CredentialAccepted(Other(r))
  PROVE  Learnt = [dsign |-> LocalDsign(r), kagree |-> LocalKem(s)] /\ LocalKem(s) = LocalKem(Other(r))
  <1>1. find_wire_kind(signature_algorithms, token.dsign) # UNKNOWN
    BY DEF CredentialAccepted
  <1>2. /\ find_wire_kind(kem_algorithms, token.kagree) # UNKNOWN
        /\ find_wire_kind(kem_algorithms, token.kagree) = LocalKem(Other(r))
    BY DEF CredentialAccepted, KagreeMatches
  <1>3. /\ find_wire_kind(signature_algorithms, token.dsign) = LocalDsign(r)
        /\ find_wire_kind(kem_algorithms, token.kagree) = LocalKem(s)
    BY <1>1, <1>2, NamesRead
  <1>. QED  BY <1>2, <1>3 DEF Learnt

\* AlgInv holds initially.
LEMMA AlgInvHolds == Init => AlgInv
  BY DEF Init, AlgInv, Configured

\* Configurations never change.
LEMMA ConfigurationStays ==
  ASSUME Next
  PROVE  /\ conf' = conf
         /\ \A r \in Roles : /\ LocalKem(r)' = LocalKem(r) /\ LocalDsign(r)' = LocalDsign(r)
                             /\ (Loads(r)' <=> Loads(r)) /\ Known(r)' = Known(r)
         /\ (SameKem' <=> SameKem)
  <1>1. conf' = conf
    BY DEF Next, ValidateLocalIdentities, BeginHandshakeRequest, BeginHandshakeReply, ProcessReply,
           ProcessFinal
  <1>. QED  BY <1>1 DEF LocalKem, LocalDsign, Loads, Known, SameKem

\* Every step keeps AlgInv.
LEMMA AlgInvKept == AlgInv /\ [Next]_vars => AlgInv'
  <1> SUFFICES ASSUME AlgInv, [Next]_vars PROVE AlgInv'
    OBVIOUS
  <1>0. I \in Roles /\ R \in Roles /\ Other(I) = R /\ Other(R) = I /\ I # R
    BY DEF Roles, Other, I, R
  <1>1. CASE ValidateLocalIdentities
    <2>1. conf' = conf /\ \A r \in Roles : Loads(r)' <=> Loads(r)
      BY <1>1, ConfigurationStays DEF Next
    <2>2. step' \in {"request", "invalid"} /\ (step' = "request" => \A r \in Roles : Loads(r))
          /\ remote' = remote
      BY <1>1 DEF ValidateLocalIdentities
    <2>3. Configured'
      BY <2>1, <2>2 DEF AlgInv, Configured
    <2>. QED  BY <2>2, <2>3 DEF AlgInv
  <1>2. CASE BeginHandshakeRequest
    <2>1. /\ conf' = conf /\ LocalKem(I)' = LocalKem(I) /\ LocalDsign(I)' = LocalDsign(I)
          /\ \A r \in Roles : Loads(r)' <=> Loads(r)
      BY <1>0, <1>2, ConfigurationStays DEF Next
    <2>2. /\ step = "request" /\ step' \in {"refused", "reply"} /\ remote' = remote
          /\ step' = "reply" =>
               token' = [Nothing EXCEPT !.dsign = Text(I, get_dsign_algo(LocalDsign(I))),
                                        !.kagree = Text(I, get_kagree_algo(LocalKem(I))),
                                        !.public = Made(LocalKem(I)).public]
      BY <1>2 DEF BeginHandshakeRequest, I
    <2>3. Configured'
      BY <2>1, <2>2 DEF AlgInv, Configured
    <2>4. step' = "reply" => Named(I, LocalKem(I))'
      BY <2>1, <2>2 DEF Nothing, Named, Text
    <2>. QED  BY <2>2, <2>3, <2>4 DEF AlgInv
  <1>3. CASE BeginHandshakeReply
    <2>1. /\ conf' = conf /\ (SameKem' <=> SameKem) /\ Known(I)' = Known(I)
          /\ LocalKem(I)' = LocalKem(I) /\ LocalDsign(R)' = LocalDsign(R)
          /\ \A r \in Roles : Loads(r)' <=> Loads(r)
      BY <1>0, <1>3, ConfigurationStays DEF Next
    <2>2. Configured /\ step = "reply" /\ Named(I, LocalKem(I)) /\ Loads(I) /\ DOMAIN remote = Roles
      BY <1>0, <1>3 DEF BeginHandshakeReply, AlgInv, Configured
    <2>3. CASE step' = "refused" /\ UNCHANGED <<token, remote>>
      <3>1. Configured'
        BY <2>1, <2>2, <2>3 DEF Configured
      <3>. QED  BY <2>3, <3>1 DEF AlgInv
    <2>4. CASE /\ CredentialAccepted(R)
               /\ remote' = [remote EXCEPT ![R] = Learnt]
               /\ step' = "final"
               /\ token' = [dsign |-> Text(R, get_dsign_algo(LocalDsign(R))),
                            kagree |-> Text(R, get_kagree_algo(Learnt.kagree)),
                            public |-> token.public,
                            ciphertext |-> Made(Learnt.kagree).ciphertext]
      <3>1. Learnt = [dsign |-> LocalDsign(I), kagree |-> LocalKem(I)] /\ LocalKem(I) = LocalKem(R)
        BY <1>0, <2>2, <2>4, AcceptedIsTrue
      <3>2. Learnt = Known(I) /\ Learnt.kagree = LocalKem(I) /\ SameKem
        BY <3>1 DEF Known, SameKem
      <3>3. DOMAIN remote' = Roles /\ remote'[R] = Known(I)'
        BY <1>0, <2>1, <2>2, <2>4, <3>2
      <3>4. Named(R, LocalKem(I))'
        BY <2>1, <2>4, <3>2 DEF Named, Text
      <3>5. Configured'
        BY <2>1, <2>2, <2>4, <3>3 DEF Configured
      <3>. QED  BY <2>1, <2>4, <3>2, <3>3, <3>4, <3>5 DEF AlgInv
    <2>. QED  BY <1>3, <2>3, <2>4 DEF BeginHandshakeReply, R
  <1>4. CASE ProcessReply
    <2>1. /\ conf' = conf /\ (SameKem' <=> SameKem) /\ Known(I)' = Known(I) /\ Known(R)' = Known(R)
          /\ \A r \in Roles : Loads(r)' <=> Loads(r)
      BY <1>0, <1>4, ConfigurationStays DEF Next
    <2>2. /\ Configured /\ step = "final" /\ SameKem /\ Named(R, LocalKem(I)) /\ remote[R] = Known(I)
          /\ Loads(R) /\ DOMAIN remote = Roles
      BY <1>0, <1>4 DEF ProcessReply, AlgInv, Configured
    <2>3. CASE step' = "refused" /\ UNCHANGED <<token, remote>>
      <3>1. Configured'
        BY <2>1, <2>2, <2>3 DEF Configured
      <3>. QED  BY <2>3, <3>1 DEF AlgInv
    <2>4. CASE /\ CredentialAccepted(I)
               /\ remote' = [remote EXCEPT ![I] = Learnt]
               /\ step' = "finish"
      <3>1. Learnt = [dsign |-> LocalDsign(R), kagree |-> LocalKem(I)]
        BY <1>0, <2>2, <2>4, AcceptedIsTrue
      <3>2. Learnt = Known(R)
        BY <2>2, <3>1 DEF Known, SameKem
      <3>3. DOMAIN remote' = Roles /\ remote'[I] = Known(R)' /\ remote'[R] = Known(I)'
        BY <1>0, <2>1, <2>2, <2>4, <3>2
      <3>4. Configured'
        BY <2>1, <2>2, <2>4, <3>3 DEF Configured
      <3>. QED  BY <2>1, <2>2, <2>4, <3>3, <3>4 DEF AlgInv
    <2>. QED  BY <1>4, <2>3, <2>4 DEF ProcessReply, I
  <1>5. CASE ProcessFinal
    <2>1. /\ conf' = conf /\ (SameKem' <=> SameKem) /\ Known(I)' = Known(I) /\ Known(R)' = Known(R)
          /\ \A r \in Roles : Loads(r)' <=> Loads(r)
      BY <1>0, <1>5, ConfigurationStays DEF Next
    <2>2. step = "finish" /\ step' \in {"done", "refused"} /\ remote' = remote
      BY <1>5 DEF ProcessFinal
    <2>3. Configured'
      BY <2>1, <2>2 DEF AlgInv, Configured
    <2>. QED  BY <2>1, <2>2, <2>3 DEF AlgInv
  <1>6. CASE UNCHANGED vars
    BY <1>6 DEF vars, AlgInv, Configured, Loads, Named, Text, Known, SameKem, LocalKem, LocalDsign
  <1>. QED  BY <1>1, <1>2, <1>3, <1>4, <1>5, <1>6 DEF Next

\* AlgInv is an invariant.
LEMMA AlgInvAlways == Spec => []AlgInv
  BY AlgInvHolds, AlgInvKept, PTL DEF Spec

\* validate_handshake_token_impl: whatever the certificates of the two ends, however they
\* terminate names and whatever OpenSSL makes, a handshake that completes is between
\* builds of one KEM, and each end has learnt the kinds of the other.
THEOREM EndsAgree == Spec => []AlgorithmsAgree
  <1>1. AlgInv => AlgorithmsAgree
    <2> SUFFICES ASSUME AlgInv, step = "done", NEW r \in Roles
                 PROVE  /\ conf[r].kem = conf[Other(r)].kem
                        /\ remote[r] = [dsign |-> LocalDsign(Other(r)), kagree |-> LocalKem(Other(r))]
      BY DEF AlgorithmsAgree
    <2>1. SameKem /\ remote[R] = Known(I) /\ remote[I] = Known(R)
      BY DEF AlgInv
    <2>2. \A x \in Roles : conf[x].kem \in DOMAIN kem_algorithms
      BY BuildsAssumption DEF AlgInv, Configured
    <2>3. conf[I].kem = conf[R].kem
      BY <2>1, <2>2, KemRows DEF SameKem, LocalKem, KindOf, Roles, I, R
    <2>. QED  BY <2>1, <2>3 DEF Known, Roles, Other, I, R
  <1>. QED  BY <1>1, AlgInvAlways, PTL

----------------------------------------------------------------------------
(* The same KEM is enough. *)

\* OpenSSL makes keys and ciphertexts of the sizes in the table.
SizesAreMade ==
  \A kem \in Kems :
    /\ OpenSSL[kem_algorithms[kem].openssl].public = kem_key_sizes[KindOf(kem)].public
    /\ OpenSSL[kem_algorithms[kem].openssl].ciphertext = kem_key_sizes[KindOf(kem)].ciphertext

SizesInv ==
  LET sizes == kem_key_sizes[LocalKem(I)] IN
  /\ step \in {"reply", "final", "finish"} => token.public = sizes.public
  /\ step \in {"final", "finish"} => token.ciphertext = sizes.ciphertext

\* The size of the table passes validate_kem_property.
LEMMA TableSizesPass ==
  ASSUME Configured, NEW r \in Roles
  PROVE  /\ validate_kem_property(kem_key_sizes[LocalKem(r)].public, LocalKem(r), "public")
         /\ validate_kem_property(kem_key_sizes[LocalKem(r)].ciphertext, LocalKem(r), "ciphertext")
  <1>1. LocalKem(r) \in DOMAIN kem_key_sizes
    BY BuildsAssumption, KemRows DEF Configured, LocalKem, KindOf
  <1>. QED  BY <1>1, SizesPositive DEF validate_kem_property

\* A certificate that its owner could load, with names in one NUL at most, is accepted by
\* an end with the same KEM.
LEMMA SameKemAccepts ==
  ASSUME Nuls \subseteq {0, 1}, Configured, NEW r \in Roles, Loads(r), Other(Other(r)) = r,
         NEW s \in Roles, Named(r, LocalKem(s)), LocalKem(s) = LocalKem(Other(r))
  PROVE  CredentialAccepted(Other(r)) /\ Learnt.kagree = LocalKem(s)
  <1>1. conf[r].nuls <= 1
    <2>1. conf[r].nuls \in {0, 1}
      BY DEF Configured
    <2>. QED  BY <2>1
  <1>2. /\ find_wire_kind(signature_algorithms, token.dsign) = LocalDsign(r)
        /\ find_wire_kind(kem_algorithms, token.kagree) = LocalKem(s)
        /\ LocalDsign(r) # UNKNOWN /\ LocalKem(s) # UNKNOWN
        /\ NonEmpty(token.dsign) /\ NonEmpty(token.kagree)
    BY <1>1, NamesRead
  <1>3. ParsedCertificate(conf[r].cert) /\ check_certificate_expiry(conf[r].cert)
    BY DEF Loads, load_X509_certificate
  <1>4. KagreeMatches(Other(r))
    BY <1>2 DEF KagreeMatches
  <1>5. CredentialAccepted(Other(r))
    BY <1>2, <1>3, <1>4 DEF CredentialAccepted, LocalDsign
  <1>. QED  BY <1>2, <1>5 DEF Learnt

\* Every step keeps the sizes, and refuses only ends with different KEMs.
LEMMA SizesKept ==
  ASSUME Nuls \subseteq {0, 1}, SizesAreMade, AlgInv, SizesInv, SameKemIsEnough, [Next]_vars
  PROVE  SizesInv' /\ SameKemIsEnough'
  <1>0. I \in Roles /\ R \in Roles /\ Other(I) = R /\ Other(R) = I /\ I # R
    BY DEF Roles, Other, I, R
  <1>1. conf' = conf /\ LocalKem(I)' = LocalKem(I)
    BY <1>0, ConfigurationStays DEF vars, LocalKem
  <1>2. /\ Made(LocalKem(I)).public = kem_key_sizes[LocalKem(I)].public
        /\ Made(LocalKem(I)).ciphertext = kem_key_sizes[LocalKem(I)].ciphertext
    <2>1. conf[I].kem \in Kems
      BY <1>0 DEF AlgInv, Configured
    <2>. QED  BY <2>1, MadeIsOpenSSL DEF SizesAreMade, LocalKem
  <1>3. conf[I].kem = conf[R].kem => SameKem
    BY DEF SameKem, LocalKem
  <1>4. Configured
    BY DEF AlgInv
  <1>5. /\ validate_kem_property(kem_key_sizes[LocalKem(I)].public, LocalKem(I), "public")
        /\ validate_kem_property(kem_key_sizes[LocalKem(I)].ciphertext, LocalKem(I), "ciphertext")
    BY <1>0, <1>4, TableSizesPass
  <1>6. (step' = "refused" => ~SameKem) => SameKemIsEnough'
    BY <1>1, <1>3 DEF SameKemIsEnough, I, R
  <1>7. CASE ValidateLocalIdentities
    <2>1. step' \in {"request", "invalid"}
      BY <1>7 DEF ValidateLocalIdentities
    <2>. QED  BY <1>6, <2>1 DEF SizesInv
  <1>8. CASE BeginHandshakeRequest
    <2>1. step' = "reply" /\ token'.public = Made(LocalKem(I)).public
      BY <1>2, <1>8 DEF BeginHandshakeRequest, I, Nothing
    <2>. QED  BY <1>1, <1>2, <1>6, <2>1 DEF SizesInv
  <1>9. CASE BeginHandshakeReply
    <2>1. step = "reply" /\ Named(I, LocalKem(I)) /\ Loads(I)
      BY <1>0, <1>9 DEF BeginHandshakeReply, AlgInv, Configured
    <2>2. token.public = kem_key_sizes[LocalKem(I)].public
      BY <2>1 DEF SizesInv
    <2>3. SameKem => CredentialAccepted(R) /\ Learnt.kagree = LocalKem(I)
      BY <1>0, <1>4, <2>1, SameKemAccepts DEF SameKem
    <2>4. CASE step' = "final" /\ CredentialAccepted(R) /\ token'.public = token.public
               /\ token'.ciphertext = Made(Learnt.kagree).ciphertext
      <3>1. Learnt.kagree = LocalKem(I)
        BY <1>0, <1>4, <2>1, <2>4, AcceptedIsTrue
      <3>. QED  BY <1>1, <1>2, <1>6, <2>2, <2>4, <3>1 DEF SizesInv
    <2>5. CASE /\ step' = "refused"
               /\ ~(CredentialAccepted(R) /\ validate_kem_property(token.public, Learnt.kagree, "public"))
      BY <1>5, <1>6, <2>2, <2>3, <2>5 DEF SizesInv
    <2>. QED  BY <1>9, <2>4, <2>5 DEF BeginHandshakeReply, R
  <1>10. CASE ProcessReply
    <2>1. step = "final" /\ SameKem /\ Named(R, LocalKem(I)) /\ Loads(R)
      BY <1>0, <1>10 DEF ProcessReply, AlgInv, Configured
    <2>2. /\ token.public = kem_key_sizes[LocalKem(I)].public
          /\ token.ciphertext = kem_key_sizes[LocalKem(I)].ciphertext
      BY <2>1 DEF SizesInv
    <2>3. CredentialAccepted(I) /\ Learnt.kagree = LocalKem(I)
      BY <1>0, <1>4, <2>1, SameKemAccepts DEF SameKem
    <2>4. /\ step' = "finish"
          /\ token' = [Nothing EXCEPT !.public = token.public, !.ciphertext = token.ciphertext]
      BY <1>2, <1>5, <1>10, <2>2, <2>3 DEF ProcessReply, I
    <2>5. token'.public = token.public /\ token'.ciphertext = token.ciphertext
      BY <2>4 DEF Nothing
    <2>. QED  BY <1>1, <1>6, <2>2, <2>4, <2>5 DEF SizesInv
  <1>11. CASE ProcessFinal
    <2>1. step = "finish" /\ remote[R].kagree = LocalKem(I)
      BY <1>11 DEF ProcessFinal, AlgInv, Known
    <2>2. /\ token.public = kem_key_sizes[LocalKem(I)].public
          /\ token.ciphertext = kem_key_sizes[LocalKem(I)].ciphertext
      BY <2>1 DEF SizesInv
    <2>3. step' = "done"
      BY <1>5, <1>11, <2>1, <2>2 DEF ProcessFinal, R
    <2>. QED  BY <1>6, <2>3 DEF SizesInv
  <1>12. CASE UNCHANGED vars
    <2>1. SizesInv'
      BY <1>1, <1>12 DEF vars, SizesInv
    <2>. QED  BY <1>12, <2>1 DEF vars, SameKemIsEnough
  <1>. QED  BY <1>7, <1>8, <1>9, <1>10, <1>11, <1>12 DEF Next

\* "Both peers must use the same plugin and KEM selection": for every KEM of the tables
\* whose keys and ciphertexts OpenSSL makes in the sizes of kem_key_sizes, and peers that
\* end a name in one NUL at most, that is enough; the kinds of certificates do not matter.
THEOREM SameKemSuffices ==
  ASSUME Nuls \subseteq {0, 1}, SizesAreMade
  PROVE  Spec => []SameKemIsEnough
  <1> DEFINE Inv == AlgInv /\ SizesInv /\ SameKemIsEnough
  <1>1. Init => Inv
    BY AlgInvHolds DEF Init, SizesInv, SameKemIsEnough
  <1>2. Inv /\ [Next]_vars => Inv'
    BY AlgInvKept, SizesKept
  <1>3. Inv => SameKemIsEnough
    OBVIOUS
  <1> HIDE DEF Inv
  <1>. QED  BY <1>1, <1>2, <1>3, PTL DEF Spec
=============================================================================
