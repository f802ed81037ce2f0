----------------------------- MODULE CycloneAuth -----------------------------
(***************************************************************************)
(* The Authentication plugin of the CycloneDDS adapter                     *)
(* (src/adapters/cyclonedds/src/authentication.c), built with PQ_CRYPTO:   *)
(* the identities, relations and handshakes that plugin instances keep,    *)
(* and the tokens in flight between them.                                  *)
(*                                                                         *)
(* One instance serves every participant of its process: the RemoteIdentity*)
(* of a peer is shared by all local participants, an IdentityRelation and  *)
(* at most one HandshakeInfo exist per pair.  Each call holds impl->lock   *)
(* while it touches them, so a call is one action; what happens outside    *)
(* the lock is the subject of CycloneValidity.                             *)
(*                                                                         *)
(* Tokens once sent stay in msgs: they may be delivered late, out of order,*)
(* again or never.  The caller (Cyclone's handshake state machine, outside *)
(* this repository) hands a token to the operation of its class and lets   *)
(* the participant with the smaller GUID send the request.                 *)
(***************************************************************************)
EXTENDS Naturals

CONSTANTS
  Participants,     \* adjusted GUIDs; numbers, because the code orders them
  InstanceOf,       \* InstanceOf[p]: the plugin instance that serves p
  KemOf,            \* KemOf[p]: the KEM p's plugin was compiled for
  CaOf,             \* CaOf[p]: the CA that issued p's certificate and that p trusts
  Expiring,         \* participants whose certificate has an end date
  Optional,         \* instances with handshake_include_optional
  Perms,            \* Perms[p]: permissions documents Access Control may hand over for p
  Draws,            \* Draws[p]: bound on the random values participant p draws
  RepeatRequests,   \* whether a caller begins the request of a handshake again
  CallerReturns,    \* whether the callers return handles
  Faults,           \* which cryptographic calls may fail
  Nil,              \* an absent value (a null pointer, an empty sequence)
  Garbage           \* a KEM public key of no valid size

ASSUME ParticipantsAssumption == Participants \subseteq Nat
ASSUME ConfigurationAssumption ==
  /\ DOMAIN InstanceOf = Participants
  /\ DOMAIN KemOf = Participants
  /\ DOMAIN CaOf = Participants
  /\ DOMAIN Perms = Participants
  /\ Expiring \subseteq Participants
  /\ Optional \subseteq {InstanceOf[p] : p \in Participants}
ASSUME CallerAssumption ==
  /\ Draws \in [Participants -> Nat]
  /\ RepeatRequests \in BOOLEAN
  /\ CallerReturns \in BOOLEAN
  /\ Faults \subseteq {"keygen", "encapsulate", "decapsulate", "sign"}

VARIABLES
  local,       \* local[p]: the LocalIdentityInfo of p
  remote,      \* remote[i][q]: the RemoteIdentityInfo of q in instance i
  relation,    \* relation[p][q]: the IdentityRelation in linkHash
  handshake,   \* handshake[p][q]: the HandshakeInfo find_handshake returns
  fresh,       \* random values drawn so far by each participant
  expired,     \* participants whose certificate has ended
  crashed,     \* instances whose process has died
  msgs         \* every token sent so far

vars == <<local, remote, relation, handshake, fresh, expired, crashed, msgs>>

Instances == {InstanceOf[p] : p \in Participants}

\* Pairs of participants that meet over the network.
Peers == {pq \in Participants \X Participants : InstanceOf[pq[1]] # InstanceOf[pq[2]]}

Alive(p) == InstanceOf[p] \notin crashed

\* The nth random value drawn by p: a challenge, a key pair or an encapsulation.
Draw(p) == [by |-> p, n |-> fresh[p]]

CanDraw(p) == fresh[p] < Draws[p]

\* What encapsulating to `key` with randomness `ct`, or decapsulating ct with
\* key, yields; the two agree exactly when both arguments do.
Secret(key, ct) == [key |-> key, ct |-> ct]

NewHandshake(step) ==
  [created_in |-> step, hash_c1 |-> Nil, hash_c2 |-> Nil, kem_keypair |-> Nil,
   kem_ct |-> Nil, kem_ss |-> Nil, secret |-> Nil]

----------------------------------------------------------------------------
(* Identities. *)

Init ==
  /\ local = [p \in Participants |-> Nil]
  /\ remote = [i \in Instances |-> [q \in Participants |-> Nil]]
  /\ relation = [p \in Participants |-> [q \in Participants |-> Nil]]
  /\ handshake = [p \in Participants |-> [q \in Participants |-> Nil]]
  /\ fresh = [p \in Participants |-> 0]
  /\ expired = {}
  /\ crashed = {}
  /\ msgs = {}

ValidateLocalIdentity(p) ==
  /\ Alive(p)
  /\ local[p] = Nil
  /\ p \notin expired
  /\ local' = [local EXCEPT ![p] = [perm |-> Nil, timer |-> p \in Expiring]]
  /\ UNCHANGED <<remote, relation, handshake, fresh, expired, crashed, msgs>>

SetPermissions(p) ==
  /\ Alive(p)
  /\ local[p] # Nil
  /\ \E doc \in Perms[p] : local' = [local EXCEPT ![p].perm = doc]
  /\ UNCHANGED <<remote, relation, handshake, fresh, expired, crashed, msgs>>

GetIdentityToken(p) ==
  /\ Alive(p)
  /\ local[p] # Nil
  /\ msgs' = msgs \union {[type |-> "identity", from |-> p]}
  /\ UNCHANGED <<local, remote, relation, handshake, fresh, expired, crashed>>

\* remote_identity_info_new, unless the GUID is already known.
KnownRemote(i, q) ==
  IF remote[i][q] = Nil THEN [cert |-> Nil, perm |-> Nil, timer |-> FALSE] ELSE remote[i][q]

\* rchallenge is the future_challenge of an AuthRequest token, or Nil without one;
\* only without one does the call produce an AuthRequest of its own.
ValidateRemoteIdentity(p, q, rchallenge) ==
  LET lchallenge == IF relation[p][q] = Nil THEN Draw(p) ELSE relation[p][q].lchallenge
      known == IF relation[p][q] = Nil THEN Nil ELSE relation[p][q].rchallenge
  IN
  /\ Alive(p)
  /\ local[p] # Nil
  /\ [type |-> "identity", from |-> q] \in msgs
  /\ relation[p][q] = Nil => CanDraw(p)
  /\ remote' = [remote EXCEPT ![InstanceOf[p]][q] = KnownRemote(InstanceOf[p], q)]
  /\ relation' = [relation EXCEPT ![p][q] =
       [lchallenge |-> lchallenge, rchallenge |-> IF rchallenge = Nil THEN known ELSE rchallenge]]
  /\ fresh' = [fresh EXCEPT ![p] = IF relation[p][q] = Nil THEN @ + 1 ELSE @]
  /\ msgs' = IF rchallenge = Nil
               THEN msgs \union {[type |-> "auth", from |-> p, to |-> q, challenge |-> lchallenge]}
               ELSE msgs
  /\ UNCHANGED <<local, handshake, expired, crashed>>

AuthRequests(p, q) ==
  {m.challenge : m \in {a \in msgs : a.type = "auth" /\ a.from = q /\ a.to = p}}

\* invalidate_local_related_objects: for every RemoteIdentity of the instance.
WithoutLocal(table, p) ==
  [table EXCEPT ![p] = [q \in Participants |->
     IF remote[InstanceOf[p]][q] # Nil THEN Nil ELSE table[p][q]]]

ReturnLocalIdentity(p) ==
  /\ CallerReturns
  /\ Alive(p)
  /\ local[p] # Nil
  /\ local' = [local EXCEPT ![p] = Nil]
  /\ relation' = WithoutLocal(relation, p)
  /\ handshake' = WithoutLocal(handshake, p)
  /\ UNCHANGED <<remote, fresh, expired, crashed, msgs>>

\* Mutant: only relations go, their handshakes stay.
KeepsHandshakes(table, i, q) ==
  [p \in Participants |-> [r \in Participants |->
     IF InstanceOf[p] = i /\ r = q /\ table = relation THEN Nil ELSE table[p][r]]]

\* invalidate_remote_related_objects: of the locals that have a relation with q.
WithoutRemote(table, i, q) ==
  [p \in Participants |-> [r \in Participants |->
     IF InstanceOf[p] = i /\ r = q /\ relation[p][q] # Nil THEN Nil ELSE table[p][r]]]

ReturnRemoteIdentity(i, q) ==
  /\ CallerReturns
  /\ i \notin crashed
  /\ remote[i][q] # Nil
  /\ remote' = [remote EXCEPT ![i][q] = Nil]
  /\ relation' = WithoutRemote(relation, i, q)
  /\ handshake' = WithoutRemote(handshake, i, q)
  /\ UNCHANGED <<local, fresh, expired, crashed, msgs>>

ReturnHandshakeHandle(p, q) ==
  /\ CallerReturns
  /\ Alive(p)
  /\ handshake[p][q] # Nil
  /\ handshake' = [handshake EXCEPT ![p][q] = Nil]
  /\ UNCHANGED <<local, remote, relation, fresh, expired, crashed, msgs>>

\* The end date passes; the validity timers armed for it fire afterwards.
CertificateExpires(p) ==
  /\ p \in Expiring \ expired
  /\ expired' = expired \union {p}
  /\ UNCHANGED <<local, remote, relation, handshake, fresh, crashed, msgs>>

LocalValidityCallback(p) ==
  /\ Alive(p)
  /\ p \in expired
  /\ local[p] # Nil /\ local[p].timer
  /\ local' = [local EXCEPT ![p].timer = FALSE]
  /\ UNCHANGED <<remote, relation, handshake, fresh, expired, crashed, msgs>>

RemoteValidityCallback(i, q) ==
  /\ i \notin crashed
  /\ q \in expired
  /\ remote[i][q] # Nil /\ remote[i][q].timer
  /\ remote' = [remote EXCEPT ![i][q].timer = FALSE]
  /\ UNCHANGED <<local, relation, handshake, fresh, expired, crashed, msgs>>

----------------------------------------------------------------------------
(* Handshake tokens.  A hash is the credential it covers; a signature is the *)
(* pair of its signer and of what it covers.                                 *)

Credential(p) == [id |-> p, perm |-> local[p].perm, pdata |-> p, kem |-> KemOf[p]]

\* The hashes are part of what is signed, and of the token, only as an option.
OptionalHash(p, hash) == IF InstanceOf[p] \in Optional THEN hash ELSE Nil

\* The order of the properties differs between reply and final.
Signed(p, class, c1, c2, pk, ct, hash_c1, hash_c2) ==
  [by |-> p,
   over |-> [class |-> class, challenge1 |-> c1, challenge2 |-> c2, kem_public |-> pk, kem_ct |-> ct,
             hash_c1 |-> OptionalHash(p, hash_c1), hash_c2 |-> OptionalHash(p, hash_c2)]]

\* The receiver rebuilds the signed contents from the token and its own hashes.
SignatureValid(p, cert, hs, hash_c2, m) ==
  /\ cert # Nil
  /\ m.signature =
       [by |-> cert,
        over |-> [class |-> m.type, challenge1 |-> m.challenge1, challenge2 |-> m.challenge2,
                  kem_public |-> m.kem_public, kem_ct |-> m.kem_ct,
                  hash_c1 |-> OptionalHash(p, hs.hash_c1), hash_c2 |-> OptionalHash(p, hash_c2)]]

Request(p, q, hs) ==
  [type |-> "request", from |-> p, to |-> q, cred |-> hs.hash_c1, kem_public |-> hs.kem_keypair,
   challenge1 |-> relation[p][q].lchallenge, hash_c1 |-> OptionalHash(p, hs.hash_c1)]

Reply(p, q, hs, pk, rchallenge) ==
  LET lchallenge == relation[p][q].lchallenge IN
  [type |-> "reply", from |-> p, to |-> q, cred |-> hs.hash_c2, kem_ct |-> hs.kem_ct,
   kem_public |-> pk, challenge1 |-> rchallenge, challenge2 |-> lchallenge,
   hash_c1 |-> OptionalHash(p, hs.hash_c1), hash_c2 |-> OptionalHash(p, hs.hash_c2),
   signature |-> Signed(p, "reply", rchallenge, lchallenge, pk, hs.kem_ct, hs.hash_c1, hs.hash_c2)]

Final(p, q, hs, m, rchallenge) ==
  LET lchallenge == relation[p][q].lchallenge IN
  [type |-> "final", from |-> p, to |-> q, kem_ct |-> m.kem_ct, kem_public |-> m.kem_public,
   challenge1 |-> lchallenge, challenge2 |-> rchallenge,
   hash_c1 |-> OptionalHash(p, hs.hash_c1), hash_c2 |-> OptionalHash(p, hs.hash_c2),
   signature |-> Signed(p, "final", lchallenge, rchallenge, m.kem_public, m.kem_ct,
                        hs.hash_c1, hs.hash_c2)]

----------------------------------------------------------------------------
(* validate_handshake_token: what it accepts, and what it leaves behind.    *)

\* load_X509_certificate_from_binprop: issued by the CA and not expired.
CertificateLoads(p, m) == CaOf[m.cred.id] = CaOf[p] /\ m.cred.id \notin expired

CredentialAccepted(p, m) ==
  /\ CertificateLoads(p, m)
  /\ m.cred.pdata = m.cred.id
  /\ m.cred.kem = KemOf[p]

\* The challenge of the peer must be the one already known, if one is.
MatchesKnown(known, challenge) == known \in {Nil, challenge}

\* validate_kem_public_key_in_token compares sizes only.
KemPublicSized(m) == m.kem_public # Garbage

RequestAccepted(p, q, m) ==
  /\ CredentialAccepted(p, m)
  /\ KemPublicSized(m)
  /\ MatchesKnown(relation[p][q].rchallenge, m.challenge1)
  /\ MatchesKnown(m.hash_c1, m.cred)

ReplyAccepted(p, q, m) ==
  /\ CredentialAccepted(p, m)
  /\ KemPublicSized(m)
  /\ MatchesKnown(relation[p][q].rchallenge, m.challenge2)
  /\ MatchesKnown(m.hash_c1, handshake[p][q].hash_c1)
  /\ MatchesKnown(m.hash_c2, m.cred)
  /\ m.challenge1 = relation[p][q].lchallenge
  /\ SignatureValid(p, m.cred.id, handshake[p][q], m.cred, m)

\* Mutant: a final of an earlier exchange of the same pair passes.
AnyFinal(p, q, m) ==
  /\ MatchesKnown(m.hash_c1, handshake[p][q].hash_c1)
  /\ MatchesKnown(m.hash_c2, handshake[p][q].hash_c2)
  /\ SignatureValid(p, remote[InstanceOf[p]][q].cert, handshake[p][q], handshake[p][q].hash_c2, m)

\* A final carries no certificate: the one of the request is used.
FinalAccepted(p, q, m) ==
  /\ KemPublicSized(m)
  /\ MatchesKnown(relation[p][q].rchallenge, m.challenge1)
  /\ MatchesKnown(m.hash_c1, handshake[p][q].hash_c1)
  /\ MatchesKnown(m.hash_c2, handshake[p][q].hash_c2)
  /\ m.challenge2 = relation[p][q].lchallenge
  /\ SignatureValid(p, remote[InstanceOf[p]][q].cert, handshake[p][q], handshake[p][q].hash_c2, m)

\* The permissions and the peer's challenge are kept even when a later check
\* fails; the certificate is kept only if the token is accepted.
LearnedRemote(p, q, m, accepted) ==
  [remote[InstanceOf[p]][q] EXCEPT
     !.cert = IF accepted THEN m.cred.id ELSE Nil,
     !.perm = IF CertificateLoads(p, m) /\ m.cred.perm # Nil THEN m.cred.perm ELSE @]

LearnRemote(p, q, m, accepted) ==
  remote' = [remote EXCEPT ![InstanceOf[p]][q] = LearnedRemote(p, q, m, accepted)]

\* Mutant: a challenge learnt from a token is not remembered.
NeverPinned(p, q, m, rc) == relation[p][q].rchallenge

KnownChallenge(p, q, m, rc) ==
  IF CredentialAccepted(p, m) /\ KemPublicSized(m) /\ relation[p][q].rchallenge = Nil
    THEN rc ELSE relation[p][q].rchallenge

LearnChallenge(p, q, m, rc) ==
  relation' = [relation EXCEPT ![p][q].rchallenge = KnownChallenge(p, q, m, rc)]

----------------------------------------------------------------------------
(* Handshakes. *)

Inbox(p, q, class) == {m \in msgs : m.type = class /\ m.from = q /\ m.to = p}

\* Both identities and their relation exist; the code asserts the relation.
Related(p, q) ==
  /\ Alive(p)
  /\ local[p] # Nil
  /\ remote[InstanceOf[p]][q] # Nil
  /\ relation[p][q] # Nil

FindOrCreate(p, q, step) ==
  IF handshake[p][q] = Nil THEN NewHandshake(step) ELSE handshake[p][q]

\* Every call frees the key pair of the handshake and draws a new one.
BeginHandshakeRequest(p, q) ==
  LET hs == [FindOrCreate(p, q, "request") EXCEPT
               !.kem_keypair = Draw(p), !.hash_c1 = Credential(p)] IN
  /\ Related(p, q)
  /\ p < q
  /\ handshake[p][q] # Nil => RepeatRequests
  /\ CanDraw(p)
  /\ handshake' = [handshake EXCEPT ![p][q] = hs]
  /\ fresh' = [fresh EXCEPT ![p] = @ + 1]
  /\ msgs' = msgs \union {Request(p, q, hs)}
  /\ UNCHANGED <<local, remote, relation, expired, crashed>>

\* Key generation fails: only a handshake created by this call is removed.
FailHandshakeRequest(p, q) ==
  /\ "keygen" \in Faults
  /\ RepeatRequests
  /\ Related(p, q)
  /\ p < q
  /\ handshake[p][q] # Nil
  /\ handshake' = [handshake EXCEPT ![p][q].kem_keypair = Nil]
  /\ UNCHANGED <<local, remote, relation, fresh, expired, crashed, msgs>>

\* The handshake that begin_handshake_reply works on, once the request is read.
Replying(p, q, m) ==
  LET hs == FindOrCreate(p, q, "reply") IN
  IF CredentialAccepted(p, m) THEN [hs EXCEPT !.hash_c1 = m.cred] ELSE hs

\* Whether the call created the handshake, and so removes it on failure.
CreatedHere(p, q) == handshake[p][q] = Nil

\* Mutant: every request is encapsulated to, repeated ones too.
AlwaysEncapsulates(hs) == TRUE

NeedsCiphertext(hs) == hs.kem_ct = Nil \/ hs.kem_ss = Nil

RefuseHandshakeRequest(p, q, m) ==
  /\ Related(p, q)
  /\ q < p
  /\ ~RequestAccepted(p, q, m)
  /\ handshake' = [handshake EXCEPT ![p][q] = IF CreatedHere(p, q) THEN Nil ELSE Replying(p, q, m)]
  /\ LearnRemote(p, q, m, FALSE)
  /\ LearnChallenge(p, q, m, m.challenge1)
  /\ UNCHANGED <<local, fresh, expired, crashed, msgs>>

\* The request is accepted but the reply cannot be built.  Only a handshake that has
\* encapsulated already outlives the call, so no ciphertext is left half stored.
FailHandshakeReply(p, q, m) ==
  LET hs == [Replying(p, q, m) EXCEPT !.hash_c2 = Credential(p)] IN
  /\ Related(p, q)
  /\ q < p
  /\ RequestAccepted(p, q, m)
  /\ \/ "sign" \in Faults
     \/ "encapsulate" \in Faults /\ NeedsCiphertext(hs)
  /\ handshake' = [handshake EXCEPT ![p][q] = IF CreatedHere(p, q) THEN Nil ELSE hs]
  /\ LearnRemote(p, q, m, TRUE)
  /\ LearnChallenge(p, q, m, m.challenge1)
  /\ UNCHANGED <<local, fresh, expired, crashed, msgs>>

\* The request accepted for the first time: encapsulate to its key.
BeginHandshakeReply(p, q, m) ==
  LET ct == Draw(p)
      hs == [Replying(p, q, m) EXCEPT !.kem_ct = ct, !.kem_ss = Secret(m.kem_public, ct),
                                      !.hash_c2 = Credential(p)]
  IN
  /\ Related(p, q)
  /\ q < p
  /\ RequestAccepted(p, q, m)
  /\ NeedsCiphertext(Replying(p, q, m))
  /\ CanDraw(p)
  /\ handshake' = [handshake EXCEPT ![p][q] = hs]
  /\ fresh' = [fresh EXCEPT ![p] = @ + 1]
  /\ msgs' = msgs \union {Reply(p, q, hs, m.kem_public, KnownChallenge(p, q, m, m.challenge1))}
  /\ LearnRemote(p, q, m, TRUE)
  /\ LearnChallenge(p, q, m, m.challenge1)
  /\ UNCHANGED <<local, expired, crashed>>

\* A request accepted by a handshake that has encapsulated already: the code skips
\* the lookup of the request's kem_public and reads an uninitialized pointer.  It
\* may point to a key seen before, to other memory, or nowhere (the process dies).
RepeatHandshakeReply(p, q, m) ==
  LET hs == [Replying(p, q, m) EXCEPT !.hash_c2 = Credential(p)]
      keys == {r.kem_public : r \in Inbox(p, q, "request")} \union {Garbage}
  IN
  /\ Related(p, q)
  /\ q < p
  /\ RequestAccepted(p, q, m)
  /\ ~NeedsCiphertext(hs)
  /\ \/ /\ \E pk \in keys :
             msgs' = msgs \union {Reply(p, q, hs, pk, KnownChallenge(p, q, m, m.challenge1))}
        /\ UNCHANGED crashed
     \/ /\ crashed' = crashed \union {InstanceOf[p]}
        /\ UNCHANGED msgs
  /\ handshake' = [handshake EXCEPT ![p][q] = hs]
  /\ LearnRemote(p, q, m, TRUE)
  /\ LearnChallenge(p, q, m, m.challenge1)
  /\ UNCHANGED <<local, fresh, expired>>

\* process_handshake serves any token, also of a handshake that has completed.
Handling(p, q, step) ==
  /\ Related(p, q)
  /\ handshake[p][q] # Nil
  /\ handshake[p][q].created_in = step

RefuseReply(p, q, m) ==
  /\ Handling(p, q, "request")
  /\ ~ReplyAccepted(p, q, m)
  /\ handshake' = [handshake EXCEPT ![p][q].hash_c2 = IF CredentialAccepted(p, m) THEN m.cred ELSE @]
  /\ LearnRemote(p, q, m, FALSE)
  /\ LearnChallenge(p, q, m, m.challenge2)
  /\ UNCHANGED <<local, fresh, expired, crashed, msgs>>

\* The KEM secret left by a decapsulation that fails (for want of a key pair, the
\* old one stays) or that succeeds before signing fails.
FailedSecrets(hs, m) ==
  IF hs.kem_keypair = Nil THEN {hs.kem_ss}
  ELSE {ss \in {Nil} : "decapsulate" \in Faults}
         \union {ss \in {Secret(hs.kem_keypair, m.kem_ct)} : "sign" \in Faults}

\* The reply is accepted but no final is sent.
FailReply(p, q, m) ==
  /\ Handling(p, q, "request")
  /\ ReplyAccepted(p, q, m)
  /\ \E ss \in FailedSecrets(handshake[p][q], m) :
       handshake' = [handshake EXCEPT ![p][q].hash_c2 = m.cred, ![p][q].kem_ss = ss]
  /\ LearnRemote(p, q, m, TRUE)
  /\ LearnChallenge(p, q, m, m.challenge2)
  /\ UNCHANGED <<local, fresh, expired, crashed, msgs>>

SharedSecret(ss, challenge1, challenge2) ==
  [ss |-> ss, challenge1 |-> challenge1, challenge2 |-> challenge2]

\* Mutant: the validity of the peer's certificate is not watched.
Unwatched(r) == r

\* The expiry listener: one timer per RemoteIdentity.
Watched(r) == [r EXCEPT !.timer = @ \/ r.cert \in Expiring]

\* Mutant: the secret is derived but not kept.
KeepsNoSecret(hs, m, lc, rc) ==
  [hs EXCEPT !.hash_c2 = m.cred, !.kem_ss = Secret(hs.kem_keypair, m.kem_ct)]

\* Decapsulate with the present key pair; a completed handshake does so again.
InitiatorDone(hs, m, lc, rc) ==
  LET ss == Secret(hs.kem_keypair, m.kem_ct) IN
  [hs EXCEPT !.hash_c2 = m.cred, !.kem_ss = ss, !.secret = SharedSecret(ss, lc, rc)]

ProcessReply(p, q, m) ==
  LET rc == KnownChallenge(p, q, m, m.challenge2)
      hs == InitiatorDone(handshake[p][q], m, relation[p][q].lchallenge, rc)
  IN
  /\ Handling(p, q, "request")
  /\ ReplyAccepted(p, q, m)
  /\ handshake[p][q].kem_keypair # Nil
  /\ handshake' = [handshake EXCEPT ![p][q] = hs]
  /\ remote' = [remote EXCEPT ![InstanceOf[p]][q] = Watched(LearnedRemote(p, q, m, TRUE))]
  /\ LearnChallenge(p, q, m, m.challenge2)
  /\ msgs' = msgs \union {Final(p, q, hs, m, rc)}
  /\ UNCHANGED <<local, fresh, expired, crashed>>

\* The ciphertext of the final is not compared with the one sent in the reply.  A
\* final that is refused changes nothing.
ProcessFinal(p, q, m) ==
  LET hs == handshake[p][q] IN
  /\ Handling(p, q, "reply")
  /\ FinalAccepted(p, q, m)
  /\ hs.kem_ss # Nil
  /\ handshake' = [handshake EXCEPT ![p][q].secret =
       SharedSecret(hs.kem_ss, relation[p][q].rchallenge, relation[p][q].lchallenge)]
  /\ remote' = [remote EXCEPT ![InstanceOf[p]][q] = Watched(@)]
  /\ UNCHANGED <<local, relation, fresh, expired, crashed, msgs>>

----------------------------------------------------------------------------

Identities(p) ==
  \/ ValidateLocalIdentity(p)
  \/ SetPermissions(p)
  \/ GetIdentityToken(p)
  \/ CertificateExpires(p)
  \/ LocalValidityCallback(p)
  \/ ReturnLocalIdentity(p)

Meeting(p, q) ==
  \/ ValidateRemoteIdentity(p, q, Nil)
  \/ \E c \in AuthRequests(p, q) : ValidateRemoteIdentity(p, q, c)
  \/ RemoteValidityCallback(InstanceOf[p], q)
  \/ ReturnRemoteIdentity(InstanceOf[p], q)

Initiating(p, q) ==
  \/ BeginHandshakeRequest(p, q)
  \/ FailHandshakeRequest(p, q)
  \/ \E m \in Inbox(p, q, "reply") : RefuseReply(p, q, m) \/ FailReply(p, q, m) \/ ProcessReply(p, q, m)

Answering(p, q) ==
  \/ \E m \in Inbox(p, q, "request") :
       \/ RefuseHandshakeRequest(p, q, m)
       \/ FailHandshakeReply(p, q, m)
       \/ BeginHandshakeReply(p, q, m)
       \/ RepeatHandshakeReply(p, q, m)
  \/ \E m \in Inbox(p, q, "final") : ProcessFinal(p, q, m)

Next ==
  \/ \E p \in Participants : Identities(p)
  \/ \E pq \in Peers :
       \/ Meeting(pq[1], pq[2])
       \/ Initiating(pq[1], pq[2])
       \/ Answering(pq[1], pq[2])
       \/ ReturnHandshakeHandle(pq[1], pq[2])

Spec == Init /\ [][Next]_vars

----------------------------------------------------------------------------
(* Properties. *)

Completed(p, q) == handshake[p][q] # Nil /\ handshake[p][q].secret # Nil

\* A random value, and those drawn so far.
Value == [by : Participants, n : Nat]
Fresh == {v \in Value : v.n < fresh[v.by]}

\* What the tables may hold, for a set F of random values.
OrNil(S) == S \union {Nil}
Permissions == UNION {Perms[p] : p \in Participants}
CredentialType == [id : Participants, perm : OrNil(Permissions), pdata : Participants,
                   kem : {KemOf[p] : p \in Participants}]
LocalType == [perm : OrNil(Permissions), timer : BOOLEAN]
RemoteType == [cert : OrNil(Participants), perm : OrNil(Permissions), timer : BOOLEAN]
RelationType(F) == [lchallenge : F, rchallenge : OrNil(F)]
SecretType(F) == [key : F, ct : F]
SharedType(F) == [ss : SecretType(F), challenge1 : F, challenge2 : F]
HandshakeType(F) ==
  [created_in : {"request", "reply"}, hash_c1 : OrNil(CredentialType), hash_c2 : OrNil(CredentialType),
   kem_keypair : OrNil(F), kem_ct : OrNil(F), kem_ss : OrNil(SecretType(F)),
   secret : OrNil(SharedType(F))]

\* The absent value is none of the objects it stands for.
ASSUME NilAssumption ==
  /\ Nil \notin Participants \union Value \union CredentialType \union LocalType \union RemoteType
  /\ Nil \notin RelationType(Value) \union SecretType(Value) \union SharedType(Value)
  /\ Nil \notin HandshakeType(Value)

\* Every table of every instance holds objects of its own kind, every random value
\* in them was drawn, and a completed handshake has a KEM secret and two challenges.
TypeOK ==
  /\ local \in [Participants -> OrNil(LocalType)]
  /\ remote \in [Instances -> [Participants -> OrNil(RemoteType)]]
  /\ relation \in [Participants -> [Participants -> OrNil(RelationType(Fresh))]]
  /\ handshake \in [Participants -> [Participants -> OrNil(HandshakeType(Fresh))]]
  /\ fresh \in [Participants -> Nat]
  /\ \A p \in Participants : fresh[p] <= Draws[p]
  /\ expired \subseteq Expiring
  /\ crashed \subseteq Instances

\* No handshake outlives its relation and no relation outlives its identities, in
\* whatever order return_identity_handle and return_handshake_handle are called: the
\* code follows handshake->relation->localIdentity and remoteIdentity unchecked.
NoDanglingHandshake ==
  \A p, q \in Participants :
    /\ handshake[p][q] # Nil => relation[p][q] # Nil
    /\ relation[p][q] # Nil => local[p] # Nil /\ remote[InstanceOf[p]][q] # Nil

\* A peer that was authenticated and whose certificate ends is watched by a timer
\* until its end, also when tokens repeat or another handshake with it came first
\* (the expiry listener of process_handshake).
AuthenticatedPeersAreWatched ==
  \A p, q \in Participants :
    Completed(p, q) /\ q \in Expiring => remote[InstanceOf[p]][q].timer \/ q \in expired

\* A replier completes only on a final that answers a reply of its own for the very
\* challenges its secret is bound to: finals of an earlier life of the relation, or
\* of another pair, never complete a handshake.
FinalAnswersOwnReply ==
  \A pq \in Peers : LET p == pq[1] q == pq[2] IN
    Completed(p, q) /\ handshake[p][q].created_in = "reply" =>
      \E f \in Inbox(p, q, "final"), r \in Inbox(q, p, "reply") :
        /\ f.kem_ct = r.kem_ct
        /\ f.challenge1 = handshake[p][q].secret.challenge1
        /\ f.challenge2 = handshake[p][q].secret.challenge2
        /\ r.challenge1 = f.challenge1 /\ r.challenge2 = f.challenge2

\* Two peers that completed their handshake hold the same secret and challenges.
SecretsAgree ==
  \A pq \in Peers :
    Completed(pq[1], pq[2]) /\ Completed(pq[2], pq[1]) =>
      handshake[pq[1]][pq[2]].secret = handshake[pq[2]][pq[1]].secret

\* A replier is never done before its initiator.
ReplierCompletesLast ==
  \A pq \in Peers :
    Completed(pq[1], pq[2]) /\ handshake[pq[1]][pq[2]].created_in = "reply" => Completed(pq[2], pq[1])

\* The secret of a completed handshake stays the same however often process_handshake
\* is called on it again with repeated tokens.
SecretIsStable ==
  [][\A p, q \in Participants :
       Completed(p, q) => Completed(p, q)' /\ handshake'[p][q].secret = handshake[p][q].secret]_vars

\* A reply names the public key to which its ciphertext was encapsulated
\* (begin_handshake_reply looks up "the kem_public property from the received
\* request token" and asserts that it has it).
ReplyNamesItsKey ==
  \A p, q \in Participants :
    handshake[p][q] # Nil /\ handshake[p][q].created_in = "reply" =>
      \A r \in Inbox(q, p, "reply") :
        r.kem_ct = handshake[p][q].kem_ct => r.kem_public = handshake[p][q].kem_ss.key
=============================================================================
