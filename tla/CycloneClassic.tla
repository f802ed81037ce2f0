---------------------------- MODULE CycloneClassic ----------------------------
(***************************************************************************)
(* The handshake of the CycloneDDS adapter built without PQ_CRYPTO         *)
(* (src/adapters/cyclonedds/src/authentication.c): elliptic curve Diffie-  *)
(* Hellman and classical signatures.                                       *)
(*                                                                         *)
(* One initiator and one replier, each in a process of its own.  Unlike    *)
(* the KEM build, a handshake keeps its key pair ldh for its whole life,   *)
(* and the peer's key rdh is replaced by each request or reply, dropped    *)
(* when one is refused, and needed again when the final arrives.  As in    *)
(* CycloneAuth, tokens once sent stay in msgs, and each call is one step.  *)
(***************************************************************************)
EXTENDS Naturals

CONSTANTS
  Draws,           \* Draws[r]: bound on the challenges and key pairs that r draws
  Optional,        \* roles with handshake_include_optional
  Documents,       \* Documents[r]: permissions documents Access Control may hand over for r
  RepeatRequests,  \* whether the initiator begins the request of a handshake again
  Returners,       \* roles whose callers return handles
  Faults,          \* which cryptographic calls may fail
  Nil              \* an absent value

Roles == {"initiator", "replier"}
Other(r) == IF r = "initiator" THEN "replier" ELSE "initiator"

ASSUME CallerAssumption ==
  /\ Draws \in [Roles -> Nat]
  /\ Optional \subseteq Roles
  /\ RepeatRequests \in BOOLEAN
  /\ Returners \subseteq Roles
  /\ DOMAIN Documents = Roles
  /\ Faults \subseteq {"sign", "derive"}

VARIABLES
  document,   \* document[r]: permissionsDocument of r's local identity
  relation,   \* relation[r]: the challenges of the IdentityRelation with the peer
  cert,       \* cert[r]: the RemoteIdentityInfo of the peer has a certificate
  handshake,  \* handshake[r]: the HandshakeInfo with the peer
  fresh,      \* random values drawn so far
  msgs,       \* every token sent so far
  derived,    \* derived[r]: the secrets r has completed with (history)
  returned,   \* a handle has been returned (history)
  aborted     \* an assertion has failed

vars == <<document, relation, cert, handshake, fresh, msgs, derived, returned, aborted>>

NoHandshake == [ldh |-> Nil, rdh |-> Nil, hash_c1 |-> Nil, hash_c2 |-> Nil, secret |-> Nil]

Init ==
  /\ document = [r \in Roles |-> Nil]
  /\ relation = [r \in Roles |-> Nil]
  /\ cert = [r \in Roles |-> FALSE]
  /\ handshake = [r \in Roles |-> Nil]
  /\ fresh = [r \in Roles |-> 0]
  /\ msgs = {}
  /\ derived = [r \in Roles |-> {}]
  /\ returned = FALSE
  /\ aborted = FALSE

\* generate_challenge and generate_dh_keys: the nth random value of r.
Draw(r) == [by |-> r, n |-> fresh[r]]

CanDraw(r) == fresh[r] < Draws[r]

Drawn(r, value) == fresh' = [fresh EXCEPT ![r] = IF value = Draw(r) THEN @ + 1 ELSE @]

\* dh_public_key_to_oct of a key pair; dh_oct_to_public_key gives the key back.
Public(pair) == [public |-> pair]

Inbox(r, class) == {m \in msgs : m.type = class /\ m.from = Other(r)}

----------------------------------------------------------------------------
(* Identities. *)

SetPermissions(r) ==
  /\ \E d \in Documents[r] \ {document[r]} : document' = [document EXCEPT ![r] = d]
  /\ UNCHANGED <<relation, cert, handshake, fresh, msgs, derived, returned, aborted>>

\* Mutant: a relation that exists gets a new challenge.
NewChallenge(r) == Draw(r)

\* A relation that exists keeps its own challenge.
OwnChallenge(r) == IF relation[r] = Nil THEN Draw(r) ELSE relation[r].lchallenge

\* validate_remote_identity with the challenge of an AuthRequest, or with Nil and then
\* an AuthRequest in return.
ValidateRemoteIdentity(r, rchallenge) ==
  LET old == relation[r] own == OwnChallenge(r) IN
  /\ own = Draw(r) => CanDraw(r)
  /\ relation' = [relation EXCEPT ![r] =
       [lchallenge |-> own,
        rchallenge |-> IF rchallenge # Nil \/ old = Nil THEN rchallenge ELSE old.rchallenge]]
  /\ Drawn(r, own)
  /\ msgs' = IF rchallenge = Nil THEN msgs \union {[type |-> "auth", from |-> r, challenge |-> own]}
                                 ELSE msgs
  /\ UNCHANGED <<document, cert, handshake, derived, returned, aborted>>

\* Mutant: the handshake outlives the identity.
KeepsHandshake(r) ==
  /\ r \in Returners
  /\ relation[r] # Nil
  /\ relation' = [relation EXCEPT ![r] = Nil]
  /\ cert' = [cert EXCEPT ![r] = FALSE]
  /\ returned' = TRUE
  /\ UNCHANGED <<document, handshake, fresh, msgs, derived, aborted>>

ReturnRemoteIdentity(r) ==
  /\ r \in Returners
  /\ relation[r] # Nil
  /\ relation' = [relation EXCEPT ![r] = Nil]
  /\ cert' = [cert EXCEPT ![r] = FALSE]
  /\ handshake' = [handshake EXCEPT ![r] = Nil]
  /\ returned' = TRUE
  /\ UNCHANGED <<document, fresh, msgs, derived, aborted>>

ReturnHandshakeHandle(r) ==
  /\ r \in Returners
  /\ handshake[r] # Nil
  /\ handshake' = [handshake EXCEPT ![r] = Nil]
  /\ returned' = TRUE
  /\ UNCHANGED <<document, relation, cert, fresh, msgs, derived, aborted>>

----------------------------------------------------------------------------
(* Tokens.  A signature is the pair of its signer and what it covers, and a  *)
(* hash is the credential it covers.                                         *)

Credential(r) == [id |-> r, perm |-> document[r]]

Included(r, value) == IF r \in Optional THEN value ELSE Nil

\* Both hashes are always signed, in an order that differs between reply and final.
Signed(r, class, c1, c2, dh1, dh2, hs) ==
  [by |-> r, class |-> class, challenge1 |-> c1, challenge2 |-> c2, dh1 |-> dh1, dh2 |-> dh2,
   hash_c1 |-> hs.hash_c1, hash_c2 |-> hs.hash_c2]

Request(hs) ==
  [type |-> "request", from |-> "initiator", cred |-> hs.hash_c1, dh1 |-> Public(hs.ldh),
   challenge1 |-> relation["initiator"].lchallenge]

Reply(hs, m) ==
  LET own == relation["replier"].lchallenge IN
  [type |-> "reply", from |-> "replier", cred |-> hs.hash_c2, dh1 |-> Included("replier", m.dh1),
   dh2 |-> Public(hs.ldh), challenge1 |-> m.challenge1, challenge2 |-> own,
   hash_c1 |-> Included("replier", hs.hash_c1), hash_c2 |-> Included("replier", hs.hash_c2),
   signature |-> Signed("replier", "reply", m.challenge1, own, m.dh1, Public(hs.ldh), hs)]

Final(hs, m) ==
  LET own == relation["initiator"].lchallenge IN
  [type |-> "final", from |-> "initiator", dh1 |-> Included("initiator", Public(hs.ldh)),
   dh2 |-> Included("initiator", m.dh2), challenge1 |-> own, challenge2 |-> m.challenge2,
   hash_c1 |-> Included("initiator", hs.hash_c1), hash_c2 |-> Included("initiator", hs.hash_c2),
   signature |-> Signed("initiator", "final", own, m.challenge2, Public(hs.ldh), m.dh2, hs)]

----------------------------------------------------------------------------
(* validate_handshake_token.  Certificates are those of one CA and valid here.*)

\* Mutant: what is optional is required.
RequiresOptional(optional, reference) == optional = reference

\* An optional property, or a challenge that is not known yet, matches anything.
Matches(optional, reference) == optional \in {Nil, reference}

RequestAccepted(m) == Matches(relation["replier"].rchallenge, m.challenge1)

\* The checks of a reply up to the peer's challenge, which is remembered then.
ReplyReachesChallenge(m) == Matches(m.dh1, Public(handshake["initiator"].ldh))

ReplyAccepted(m) ==
  LET hs == [handshake["initiator"] EXCEPT !.hash_c2 = m.cred] IN
  /\ ReplyReachesChallenge(m)
  /\ Matches(relation["initiator"].rchallenge, m.challenge2)
  /\ Matches(m.hash_c1, hs.hash_c1)
  /\ Matches(m.hash_c2, hs.hash_c2)
  /\ m.challenge1 = relation["initiator"].lchallenge
  /\ m.signature = Signed("replier", "reply", m.challenge1, m.challenge2, Public(hs.ldh), m.dh2, hs)

\* Mutant: the final is not checked against the key of the last request.
AnyPeerKey(m) ==
  LET hs == handshake["replier"] IN
  /\ Matches(relation["replier"].rchallenge, m.challenge1)
  /\ m.challenge2 = relation["replier"].lchallenge
  /\ m.signature = Signed("initiator", "final", m.challenge1, m.challenge2, m.signature.dh1,
                          Public(hs.ldh), hs)

\* The references are the public keys of rdh and ldh.
FinalAccepted(m) ==
  LET hs == handshake["replier"] IN
  /\ Matches(m.dh1, hs.rdh)
  /\ Matches(m.dh2, Public(hs.ldh))
  /\ Matches(relation["replier"].rchallenge, m.challenge1)
  /\ Matches(m.hash_c1, hs.hash_c1)
  /\ Matches(m.hash_c2, hs.hash_c2)
  /\ m.challenge2 = relation["replier"].lchallenge
  /\ cert["replier"]
  /\ m.signature = Signed("initiator", "final", m.challenge1, m.challenge2, hs.rdh, Public(hs.ldh), hs)

LearnChallenge(r, challenge) ==
  relation' = [relation EXCEPT ![r].rchallenge = IF @ = Nil THEN challenge ELSE @]

----------------------------------------------------------------------------
(* Handshakes. *)

FindOrCreate(r) == IF handshake[r] = Nil THEN NoHandshake ELSE handshake[r]

\* Mutant: each request draws a new key pair, as in the KEM build.
AlwaysNewKey(hs, r) == Draw(r)

\* The key pair of the handshake; drawn once.
KeyPair(hs, r) == IF hs.ldh = Nil THEN Draw(r) ELSE hs.ldh

BeginHandshakeRequest ==
  LET r == "initiator"
      key == KeyPair(FindOrCreate(r), r)
      hs == [FindOrCreate(r) EXCEPT !.ldh = key, !.hash_c1 = Credential(r)] IN
  /\ relation[r] # Nil
  /\ handshake[r] # Nil => RepeatRequests
  /\ key = Draw(r) => CanDraw(r)
  /\ handshake' = [handshake EXCEPT ![r] = hs]
  /\ Drawn(r, key)
  /\ msgs' = msgs \union {Request(hs)}
  /\ UNCHANGED <<document, relation, cert, derived, returned, aborted>>

RefuseHandshakeRequest(m) ==
  LET r == "replier" IN
  /\ relation[r] # Nil
  /\ ~RequestAccepted(m)
  /\ handshake' = [handshake EXCEPT ![r] =
       IF @ = Nil THEN Nil ELSE [@ EXCEPT !.hash_c1 = m.cred, !.rdh = Nil]]
  /\ cert' = [cert EXCEPT ![r] = FALSE]
  /\ UNCHANGED <<document, relation, fresh, msgs, derived, returned, aborted>>

\* When signing fails, only a handshake created by this call is removed; its key pair
\* has been drawn all the same.
BeginHandshakeReply(m) ==
  LET r == "replier"
      key == KeyPair(FindOrCreate(r), r)
      hs == [FindOrCreate(r) EXCEPT !.ldh = key, !.rdh = m.dh1, !.hash_c1 = m.cred,
                                    !.hash_c2 = Credential(r)] IN
  /\ relation[r] # Nil
  /\ RequestAccepted(m)
  /\ key = Draw(r) => CanDraw(r)
  /\ \/ /\ handshake' = [handshake EXCEPT ![r] = hs]
        /\ msgs' = msgs \union {Reply(hs, m)}
     \/ /\ "sign" \in Faults
        /\ handshake[r] = Nil => fresh[r] + 1 < Draws[r]   \* bound: one more try
        /\ handshake' = [handshake EXCEPT ![r] = IF @ = Nil THEN Nil ELSE hs]
        /\ UNCHANGED msgs
  /\ Drawn(r, key)
  /\ cert' = [cert EXCEPT ![r] = TRUE]
  /\ LearnChallenge(r, m.challenge1)
  /\ UNCHANGED <<document, derived, returned, aborted>>

RefuseReply(m) ==
  LET r == "initiator" IN
  /\ handshake[r] # Nil
  /\ ~ReplyAccepted(m)
  /\ handshake' = [handshake EXCEPT ![r].hash_c2 = m.cred, ![r].rdh = Nil]
  /\ cert' = [cert EXCEPT ![r] = FALSE]
  /\ IF ReplyReachesChallenge(m) THEN LearnChallenge(r, m.challenge2) ELSE UNCHANGED relation
  /\ UNCHANGED <<document, fresh, msgs, derived, returned, aborted>>

\* generate_shared_secret: both ends derive the same from each other's keys.
SharedSecret(hs, challenge1, challenge2) ==
  [keys |-> {Public(hs.ldh), hs.rdh}, challenge1 |-> challenge1, challenge2 |-> challenge2]

Completed(r, hs, secret) ==
  /\ handshake' = [handshake EXCEPT ![r] = [hs EXCEPT !.secret = secret]]
  /\ derived' = [derived EXCEPT ![r] = @ \union {secret}]

ProcessReply(m) ==
  LET r == "initiator"
      hs == [handshake[r] EXCEPT !.rdh = m.dh2, !.hash_c2 = m.cred] IN
  /\ handshake[r] # Nil
  /\ ReplyAccepted(m)
  /\ \/ /\ Completed(r, hs, SharedSecret(hs, relation[r].lchallenge, m.challenge2))
        /\ msgs' = msgs \union {Final(hs, m)}
     \/ /\ Faults # {}   \* signing the final or deriving the secret fails
        /\ handshake' = [handshake EXCEPT ![r] = hs]
        /\ UNCHANGED <<msgs, derived>>
  /\ cert' = [cert EXCEPT ![r] = TRUE]
  /\ LearnChallenge(r, m.challenge2)
  /\ UNCHANGED <<document, fresh, returned, aborted>>

\* create_dhkey_property(rdh) comes before the token is looked at: dh_public_key_to_oct
\* asserts that there is a key.  A final that is refused changes nothing.
ProcessFinal(m) ==
  LET r == "replier" hs == handshake[r] IN
  /\ hs # Nil
  /\ \/ /\ hs.rdh = Nil
        /\ aborted' = TRUE
        /\ UNCHANGED <<handshake, derived>>
     \/ /\ hs.rdh # Nil
        /\ FinalAccepted(m)
        /\ Completed(r, hs, SharedSecret(hs, relation[r].rchallenge, relation[r].lchallenge))
        /\ UNCHANGED aborted
  /\ UNCHANGED <<document, relation, cert, fresh, msgs, returned>>

Next ==
  /\ ~aborted
  /\ \/ \E r \in Roles :
          \/ SetPermissions(r)
          \/ ValidateRemoteIdentity(r, Nil)
          \/ \E m \in Inbox(r, "auth") : ValidateRemoteIdentity(r, m.challenge)
          \/ ReturnRemoteIdentity(r)
          \/ ReturnHandshakeHandle(r)
     \/ BeginHandshakeRequest
     \/ \E m \in Inbox("replier", "request") : RefuseHandshakeRequest(m) \/ BeginHandshakeReply(m)
     \/ \E m \in Inbox("initiator", "reply") : RefuseReply(m) \/ ProcessReply(m)
     \/ \E m \in Inbox("replier", "final") : ProcessFinal(m)

Spec == Init /\ [][Next]_vars

\* The token that each end sends again: the one for what its handshake holds now.
Established == \A r \in Roles : handshake[r] # Nil
CurrentRequest == Request(handshake["initiator"])
CurrentReply == Reply(handshake["replier"], CurrentRequest)
CurrentFinal == Final(handshake["initiator"], CurrentReply)

\* The handshake of CycloneDDS, which calls the plugin, sends its newest token again
\* until the answer arrives; tokens are lost, but not always, and signing and deriving
\* do not fail for ever.  All of it until a caller gives up and returns a handle.
Trying(Action) == ~returned /\ Action

Fairness ==
  /\ \A r \in Roles : WF_vars(Trying(
       \E c \in {Nil} \union {m.challenge : m \in Inbox(r, "auth")} : ValidateRemoteIdentity(r, c)))
  /\ WF_vars(Trying(BeginHandshakeRequest))
  /\ SF_vars(Trying(\E m \in Inbox("replier", "request") :
       /\ handshake["initiator"] # Nil /\ m = CurrentRequest
       /\ BeginHandshakeReply(m)
       /\ handshake'["replier"] # Nil /\ CurrentReply' \in msgs'))
  /\ SF_vars(Trying(\E m \in Inbox("initiator", "reply") :
       /\ Established /\ m = CurrentReply
       /\ ProcessReply(m)
       /\ CurrentFinal' \in msgs'))
  /\ SF_vars(Trying(\E m \in Inbox("replier", "final") :
       Established /\ m = CurrentFinal /\ ProcessFinal(m)))

FairSpec == Spec /\ Fairness

----------------------------------------------------------------------------
(* Properties. *)

\* A random value, those drawn so far, and those of a set that r drew.
Value == [by : Roles, n : Nat]
Fresh == {v \in Value : v.n < fresh[v.by]}
By(r, F) == {v \in F : v.by = r}

\* What the tables of r may hold, for a set F of random values.
OrNil(S) == S \union {Nil}
Credentials == [id : Roles, perm : OrNil(Documents["initiator"] \union Documents["replier"])]
PublicKeys(F) == [public : F]
RelationType(r, F) == [lchallenge : By(r, F), rchallenge : OrNil(By(Other(r), F))]
SecretType(F) == [keys : SUBSET PublicKeys(F), challenge1 : F, challenge2 : F]
HandshakeType(r, F) ==
  [ldh : By(r, F), rdh : OrNil(PublicKeys(By(Other(r), F))),
   hash_c1 : OrNil(Credentials), hash_c2 : OrNil(Credentials), secret : OrNil(SecretType(F))]

\* The absent value is none of the objects it stands for.
ASSUME NilAssumption ==
  /\ Nil \notin Value \union PublicKeys(Value) \union SecretType(Value)
  /\ \A r \in Roles : Nil \notin RelationType(r, Value) \union HandshakeType(r, Value)

\* A handshake has its own key pair and, unless its last token was refused, a key of
\* the peer; no step of either end confuses the two or uses a value not drawn.
TypeOK ==
  /\ \A r \in Roles : document[r] \in OrNil(Documents[r])
  /\ DOMAIN document = Roles /\ DOMAIN relation = Roles /\ DOMAIN handshake = Roles
  /\ \A r \in Roles :
       /\ relation[r] \in OrNil(RelationType(r, Fresh))
       /\ handshake[r] \in OrNil(HandshakeType(r, Fresh))
       /\ handshake[r] # Nil => relation[r] # Nil
       /\ fresh[r] <= Draws[r]
  /\ fresh \in [Roles -> Nat]
  /\ derived \in [Roles -> SUBSET SecretType(Fresh)]

\* Until a handle is returned, two peers that both completed hold the same secret and
\* challenges, also when the request is repeated, with other permissions or the same: the
\* handshake keeps its key pair, where the KEM build replaces it (cyclone_stale_reply).
SecretsAgree ==
  (\A r \in Roles : handshake[r] # Nil /\ handshake[r].secret # Nil) /\ ~returned =>
    handshake["initiator"].secret = handshake["replier"].secret

\* Until a handle is returned, a completed handshake keeps its secret, whatever tokens it
\* is given again.
SecretIsStable ==
  [][\A r \in Roles :
       handshake[r] # Nil /\ handshake[r].secret # Nil /\ ~returned' =>
         handshake'[r].secret = handshake[r].secret]_vars

\* Two ends that keep sending their newest tokens complete, although older tokens arrive
\* in between and undo what a handshake remembers (its hashes, the peer's key and
\* certificate), permissions change, and signing and deriving fail at times; unless a
\* caller gives up and returns a handle.
HandshakeCompletes == <>(returned \/ \A r \in Roles : derived[r] # {})

\* Whatever handles were returned and identities validated anew in between, a replier
\* completes only with a secret that the initiator has completed with.
ReplierSecretIsDerived == derived["replier"] \subseteq derived["initiator"]

\* dh_public_key_to_oct: assert(pkey).  Until a handle is returned, a replier that gets a
\* final has the peer's key.  Afterwards it need not: when the initiator begins anew with
\* another challenge its request is refused, which drops the key, and the final of the
\* request accepted before may still arrive.
PeerKeyIsThere == aborted => returned
=============================================================================
