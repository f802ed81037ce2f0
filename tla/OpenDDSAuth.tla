---------------------------- MODULE OpenDDSAuth ----------------------------
(***************************************************************************)
(* The Authentication plugin of the OpenDDS adapter                        *)
(* (src/adapters/opendds/src/Authentication.cpp): one plugin instance per  *)
(* participant, every operation that changes its tables, and the handshake *)
(* tokens in flight between the participants.                              *)
(*                                                                         *)
(* Every SPI call takes the instance's mutex for its whole body, so each   *)
(* call is one action.  A call that fails without touching the tables is a *)
(* stuttering step and has no action.  Tokens once sent stay in msgs: a    *)
(* token may be delivered late, out of order, many times or never.         *)
(*                                                                         *)
(* Data.  A nonce, a KEM key pair and an encapsulation are named by the    *)
(* participant and by the handle of the object they were generated for;    *)
(* handles are never reused, so equal names are equal values and fresh     *)
(* values are distinct.  A signature is the pair of its signer and the     *)
(* transcript it covers; a credential hash is the tuple it covers.         *)
(***************************************************************************)
EXTENDS Integers, FiniteSets

CONSTANTS
  Participants,   \* adjusted GUIDs; numbers, because the code orders them
  KemOf,          \* KemOf[p]: the KEM that p's QoS selects
  DsignOf,        \* DsignOf[p]: the signature algorithm of p's certificate
  CaOf,           \* CaOf[p]: the identity CA that issued p's certificate
                  \* and that p trusts
  Perms,          \* permissions documents Access Control may hand over
  MaxHandles,     \* bound on the handles one plugin instance gives out
  MaxLocals,      \* bound on the local identities of one instance
  MaxRemotes,     \* bound on the remote identities of one instance
  OddTokens,      \* which AuthRequest tokens occur that no peer sent
  Faults,         \* "none", and which cryptographic calls may fail
  CallerReturns,  \* whether the callers return handles
  Nil,            \* an absent value (an empty octet sequence, a null pointer)
  Short           \* a future_challenge that is not 256 bits long

MLDSA == {"ML-DSA-44", "ML-DSA-65", "ML-DSA-87"}

SupportedKems == {"ML-KEM-512", "ML-KEM-768", "ML-KEM-1024", "X25519MLKEM768",
                  "SecP256r1MLKEM768", "frodo640shake", "bikel1", "hqc128"}

Handles == 1 .. MaxHandles

\* A nonce, or a key pair: generated by `by` for the object with handle `at`.
Fresh == [by : Participants, at : Handles]

ASSUME ParticipantsAssumption == Participants \subseteq Nat
ASSUME BoundsAssumption == MaxHandles \in Nat /\ MaxLocals \in Nat /\ MaxRemotes \in Nat
ASSUME ConfigurationAssumption ==
  /\ DOMAIN KemOf = Participants
  /\ DOMAIN DsignOf = Participants
  /\ DOMAIN CaOf = Participants
ASSUME CallerAssumption ==
  /\ Faults \subseteq {"none", "decapsulate", "sign"}
  /\ CallerReturns \in BOOLEAN

VARIABLES
  nextHandle,   \* next_handle_ of each instance
  locals,       \* locals[p][h]: the LocalIdentity created with handle h
  remotes,      \* remotes[p][h]: the RemoteIdentity created with handle h
  handshakes,   \* handshakes[p][h]: the Handshake created with handle h
  msgs          \* every token sent so far

vars == <<nextHandle, locals, remotes, handshakes, msgs>>

(***************************************************************************)
(* An object stays in its table after its handle is returned, with held    *)
(* FALSE: the code erases the map entry, but a handshake keeps a shared    *)
(* pointer to its identities, and the properties speak of past handshakes. *)
(***************************************************************************)
Created(table, p) == {h \in Handles : table[p][h] # Nil}

Held(table, p, h) == h \in Handles /\ table[p][h] # Nil /\ table[p][h].held

----------------------------------------------------------------------------
(* Cryptography and tokens. *)

\* The pairs (public key, ciphertext) determine the secret; decapsulating with
\* another key than the one encapsulated to yields an unrelated value.
Secret(key, ct) == [key |-> key, ct |-> ct]

Credentials(p, perm) ==
  [id |-> p, perm |-> perm, pdata |-> p, dsign |-> DsignOf[p], kem |-> KemOf[p]]

\* Mutant: the reply's signature does not cover the public key it answers.
UnboundReplyTranscript(hs) ==
  [role |-> "reply", hash1 |-> hs.hash1, hash2 |-> hs.hash2,
   challenge1 |-> hs.challenge1, challenge2 |-> hs.challenge2,
   public_key |-> Nil, ciphertext |-> hs.ciphertext]

reply_transcript(hs) ==
  [role |-> "reply", hash1 |-> hs.hash1, hash2 |-> hs.hash2,
   challenge1 |-> hs.challenge1, challenge2 |-> hs.challenge2,
   public_key |-> hs.public_key, ciphertext |-> hs.ciphertext]

final_transcript(hs) ==
  [role |-> "final", hash1 |-> hs.hash1, hash2 |-> hs.hash2,
   challenge1 |-> hs.challenge1, challenge2 |-> hs.challenge2,
   public_key |-> hs.public_key, ciphertext |-> hs.ciphertext]

sign(p, transcript) == [by |-> p, over |-> transcript]

verify(transcript, certificate, signature) ==
  signature = [by |-> certificate, over |-> transcript]

initiator(local, remote) == local < remote

\* Mutant: the peer's certificate is not checked against the CA.
UncheckedCa(p, guid, cred) ==
  /\ cred.dsign \in MLDSA
  /\ cred.kem = KemOf[p]
  /\ DsignOf[cred.id] = cred.dsign
  /\ cred.id = guid
  /\ cred.pdata = guid

\* mldsa_algorithm, the KEM comparison, the CA, dsign_algo, cert_matches_guid
\* and participant_data_has_guid, in the code's order.
validate_remote_credentials(p, guid, cred) ==
  /\ cred.dsign \in MLDSA
  /\ cred.kem = KemOf[p]
  /\ CaOf[cred.id] = CaOf[p]
  /\ DsignOf[cred.id] = cred.dsign
  /\ cred.id = guid
  /\ cred.pdata = guid

----------------------------------------------------------------------------
(* Identities. *)

Init ==
  /\ nextHandle = [p \in Participants |-> 1]
  /\ locals = [p \in Participants |-> [h \in Handles |-> Nil]]
  /\ remotes = [p \in Participants |-> [h \in Handles |-> Nil]]
  /\ handshakes = [p \in Participants |-> [h \in Handles |-> Nil]]
  /\ msgs = {}

\* Mutant: the counter is not advanced.
SameHandleAgain(p) ==
  /\ nextHandle[p] \in Handles
  /\ UNCHANGED nextHandle

\* next_handle(): one counter for the three tables.
TakeHandle(p) ==
  /\ nextHandle[p] \in Handles
  /\ nextHandle' = [nextHandle EXCEPT ![p] = @ + 1]

ValidateLocalIdentity(p) ==
  /\ DsignOf[p] \in MLDSA
  /\ KemOf[p] \in SupportedKems
  /\ Cardinality(Created(locals, p)) < MaxLocals
  /\ TakeHandle(p)
  /\ locals' = [locals EXCEPT ![p][nextHandle[p]] = [held |-> TRUE, perm |-> Nil]]
  /\ UNCHANGED <<remotes, handshakes, msgs>>

SetPermissions(p, l, perm) ==
  /\ Held(locals, p, l)
  /\ locals' = [locals EXCEPT ![p][l].perm = perm]
  /\ UNCHANGED <<nextHandle, remotes, handshakes, msgs>>

Verdict(p, guid) ==
  IF initiator(p, guid) THEN "PENDING_HANDSHAKE_REQUEST"
                        ELSE "PENDING_HANDSHAKE_MESSAGE"

NewRemoteIdentity(p, h, l, guid) ==
  [held |-> TRUE, local |-> l, guid |-> guid,
   local_challenge |-> [by |-> p, at |-> h], remote_challenge |-> Nil,
   local_auth_request_sent |-> FALSE, verdict |-> "FAILED"]

(***************************************************************************)
(* AuthRequest tokens validate_remote_identity may be given: the empty     *)
(* token, a token of another plugin's class, a token with a challenge of   *)
(* the wrong length, or one that the peer sent.                            *)
(***************************************************************************)
NilToken     == [class |-> "nil", challenge |-> Nil]
ForeignToken == [class |-> "foreign", challenge |-> Nil]
ShortToken   == [class |-> "AuthReq", challenge |-> Short]

ASSUME OddTokensAssumption == OddTokens \subseteq {ForeignToken, ShortToken}

AuthRequests(p, guid) ==
  {NilToken} \cup OddTokens \cup
  {[class |-> "AuthReq", challenge |-> m.challenge] :
     m \in {n \in msgs : n.class = "AuthReq" /\ n.dst = p /\ n.src = guid}}

\* Mutant: the whole token is stored where its challenge belongs.
StoresToken(p, r, token) ==
  [r EXCEPT !.remote_challenge = token, !.verdict = Verdict(p, r.guid)]

\* What the token does to the identity; verdict is what the caller is told.
ApplyAuthRequest(p, r, token) ==
  IF token.class = "nil"
  THEN [r EXCEPT !.remote_challenge = Nil,
                 !.local_auth_request_sent = TRUE,
                 !.verdict = Verdict(p, r.guid)]
  ELSE IF token.class # "AuthReq"
  THEN [r EXCEPT !.verdict = "FAILED"]
  ELSE [r EXCEPT !.remote_challenge = token.challenge,
                 !.verdict = IF token.challenge = Short THEN "FAILED"
                                                        ELSE Verdict(p, r.guid)]

\* The call with the empty token returns the AuthRequest to send to the peer.
AuthRequestSent(p, r, token) ==
  IF token.class = "nil"
  THEN {[class |-> "AuthReq", src |-> p, dst |-> r.guid,
         challenge |-> r.local_challenge]}
  ELSE {}

\* The call with a NIL or an unknown handle: a new identity is registered before
\* the token is looked at, and stays registered when the token is refused.
ValidateNewRemoteIdentity(p, l, guid, token) ==
  LET r == NewRemoteIdentity(p, nextHandle[p], l, guid) IN
  /\ guid # p
  /\ Held(locals, p, l)
  /\ Cardinality(Created(remotes, p)) < MaxRemotes
  /\ TakeHandle(p)
  /\ remotes' = [remotes EXCEPT ![p][nextHandle[p]] = ApplyAuthRequest(p, r, token)]
  /\ msgs' = msgs \cup AuthRequestSent(p, r, token)
  /\ UNCHANGED <<locals, handshakes>>

\* The call with the handle of a known identity, for the same two participants.
RevalidateRemoteIdentity(p, rh, token) ==
  /\ Held(remotes, p, rh)
  /\ Held(locals, p, remotes[p][rh].local)
  /\ remotes' = [remotes EXCEPT ![p][rh] = ApplyAuthRequest(p, @, token)]
  /\ msgs' = msgs \cup AuthRequestSent(p, remotes[p][rh], token)
  /\ UNCHANGED <<nextHandle, locals, handshakes>>

\* Erases the map entry only: handshakes keep their pointers.
ReturnIdentityHandle(p, h) ==
  /\ CallerReturns
  /\ \/ /\ Held(locals, p, h)
        /\ locals' = [locals EXCEPT ![p][h].held = FALSE]
        /\ UNCHANGED remotes
     \/ /\ Held(remotes, p, h)
        /\ remotes' = [remotes EXCEPT ![p][h].held = FALSE]
        /\ UNCHANGED locals
  /\ UNCHANGED <<nextHandle, handshakes, msgs>>

----------------------------------------------------------------------------
(* Handshakes. *)

Terminal == {"OK", "OK_FINAL_MESSAGE", "FAILED"}
Succeeded == {"OK", "OK_FINAL_MESSAGE"}

\* hs->challenge1 of a request, hs->challenge2 of a reply.
OwnChallenge(p, h, r) ==
  IF r.local_auth_request_sent THEN r.local_challenge ELSE [by |-> p, at |-> h]

RequestHandshake(p, h, l, rh) ==
  [held |-> TRUE, initiator |-> TRUE, state |-> "PENDING_HANDSHAKE_MESSAGE",
   local |-> l, remote |-> rh, kem |-> "keypair",
   hash1 |-> Credentials(p, locals[p][l].perm), hash2 |-> Nil,
   challenge1 |-> OwnChallenge(p, h, remotes[p][rh]), challenge2 |-> Nil,
   public_key |-> [by |-> p, at |-> h], ciphertext |-> Nil, secret |-> Nil,
   remote_certificate |-> Nil, remote_permissions |-> Nil]

\* The caller begins a request only when validate_remote_identity told it to.
BeginHandshakeRequest(p, l, rh) ==
  LET h  == nextHandle[p]
      hs == RequestHandshake(p, h, l, rh)
  IN
  /\ Held(locals, p, l)
  /\ Held(remotes, p, rh)
  /\ remotes[p][rh].verdict = "PENDING_HANDSHAKE_REQUEST"
  /\ TakeHandle(p)
  /\ handshakes' = [handshakes EXCEPT ![p][h] = hs]
  /\ msgs' = msgs \cup
       {[class |-> "Req", src |-> p, dst |-> remotes[p][rh].guid,
         cred |-> hs.hash1, public_key |-> hs.public_key,
         challenge1 |-> hs.challenge1]}
  /\ UNCHANGED <<locals, remotes>>

\* The replier's handshake once the request is accepted and encapsulated to.
ReplyHandshake(p, h, l, rh, m) ==
  LET ct == [by |-> p, at |-> h, key |-> m.public_key] IN
  [held |-> TRUE, initiator |-> FALSE, state |-> "PENDING_HANDSHAKE_MESSAGE",
   local |-> l, remote |-> rh, kem |-> "public",
   hash1 |-> m.cred, hash2 |-> Credentials(p, locals[p][l].perm),
   challenge1 |-> m.challenge1, challenge2 |-> OwnChallenge(p, h, remotes[p][rh]),
   public_key |-> m.public_key, ciphertext |-> ct, secret |-> Secret(m.public_key, ct),
   remote_certificate |-> m.cred.id, remote_permissions |-> m.cred.perm]

\* An AuthRequest from the peer fixes the challenge it must use in the handshake.
ChallengeAnnounced(r, challenge) ==
  r.remote_challenge = Nil \/ challenge = r.remote_challenge

RequestAccepted(p, rh, m) ==
  /\ m.class = "Req"
  /\ validate_remote_credentials(p, remotes[p][rh].guid, m.cred)
  /\ ChallengeAnnounced(remotes[p][rh], m.challenge1)

BeginHandshakeReply(p, l, rh, m) ==
  LET h  == nextHandle[p]
      hs == ReplyHandshake(p, h, l, rh, m)
  IN
  /\ Held(locals, p, l)
  /\ Held(remotes, p, rh)
  /\ remotes[p][rh].verdict = "PENDING_HANDSHAKE_MESSAGE"
  /\ RequestAccepted(p, rh, m)
  /\ TakeHandle(p)
  /\ handshakes' = [handshakes EXCEPT ![p][h] = hs]
  /\ msgs' = msgs \cup
       {[class |-> "Reply", src |-> p, dst |-> remotes[p][rh].guid,
         cred |-> hs.hash2, ciphertext |-> hs.ciphertext,
         challenge1 |-> hs.challenge1, challenge2 |-> hs.challenge2,
         signature |-> sign(p, reply_transcript(hs))]}
  /\ UNCHANGED <<locals, remotes>>

\* The handshake after the reply's credentials are accepted and its fields read.
WithReply(hs, m) ==
  [hs EXCEPT !.remote_certificate = m.cred.id, !.remote_permissions = m.cred.perm,
             !.hash2 = m.cred, !.challenge2 = m.challenge2,
             !.ciphertext = m.ciphertext]

ReplyChallengesMatch(hs, r, m) ==
  /\ m.challenge1 = hs.challenge1
  /\ ChallengeAnnounced(r, m.challenge2)

ReplyAccepted(hs, r, m) ==
  /\ ReplyChallengesMatch(hs, r, m)
  /\ verify(reply_transcript(WithReply(hs, m)), m.cred.id, m.signature)

\* Decapsulation, then kem.clear(), then the final signature; each of the two
\* cryptographic calls may fail and leaves what was done before it in place.
Decapsulated(hs, m, fault) ==
  LET cleared == [WithReply(hs, m) EXCEPT !.kem = "cleared"]
      shared  == [cleared EXCEPT !.secret = Secret(hs.public_key, m.ciphertext)]
  IN  CASE fault = "decapsulate" -> [cleared EXCEPT !.state = "FAILED"]
        [] fault = "sign"        -> [shared EXCEPT !.state = "FAILED"]
        [] fault = "none"        -> [shared EXCEPT !.state = "OK_FINAL_MESSAGE"]

\* Mutant: process_handshake does not look at the handshake's state.
AnyState(p, h) == Held(handshakes, p, h)

\* Only a handshake that is waiting takes a message.
Awaiting(p, h) ==
  /\ Held(handshakes, p, h)
  /\ handshakes[p][h].state = "PENDING_HANDSHAKE_MESSAGE"

ProcessReply(p, h, m, fault) ==
  LET hs   == handshakes[p][h]
      r    == remotes[p][hs.remote]
      done == Decapsulated(hs, m, fault)
  IN
  /\ Awaiting(p, h)
  /\ hs.initiator
  /\ m.class = "Reply"
  /\ validate_remote_credentials(p, r.guid, m.cred)
  /\ ReplyAccepted(hs, r, m)
  /\ handshakes' = [handshakes EXCEPT ![p][h] = done]
  /\ msgs' = IF done.state = "FAILED" THEN msgs
             ELSE msgs \cup {[class |-> "Final", src |-> p, dst |-> r.guid,
                              signature |-> sign(p, final_transcript(done))]}
  /\ UNCHANGED <<nextHandle, locals, remotes>>

\* Mutant: the final token is checked for its signer only, not for what it covers.
SignerOnly(hs, m) == m.signature.by = hs.remote_certificate

FinalAccepted(hs, m) ==
  verify(final_transcript(hs), hs.remote_certificate, m.signature)

ProcessFinal(p, h, m) ==
  /\ Awaiting(p, h)
  /\ ~ handshakes[p][h].initiator
  /\ m.class = "Final"
  /\ FinalAccepted(handshakes[p][h], m)
  /\ handshakes' = [handshakes EXCEPT ![p][h].state = "OK"]
  /\ UNCHANGED <<nextHandle, locals, remotes, msgs>>

\* Every other message fails the waiting handshake for good.  A reply whose
\* credentials are accepted leaves its fields in the failed handshake.
RefuseMessage(p, h, m) ==
  LET hs   == handshakes[p][h]
      r    == remotes[p][hs.remote]
      cred == /\ hs.initiator
              /\ m.class = "Reply"
              /\ validate_remote_credentials(p, r.guid, m.cred)
  IN
  /\ Awaiting(p, h)
  /\ ~ (cred /\ ReplyAccepted(hs, r, m))
  /\ ~ (~ hs.initiator /\ m.class = "Final" /\ FinalAccepted(hs, m))
  /\ handshakes' = [handshakes EXCEPT ![p][h] =
       [(IF cred THEN WithReply(hs, m) ELSE hs) EXCEPT !.state = "FAILED"]]
  /\ UNCHANGED <<nextHandle, locals, remotes, msgs>>

ReturnHandshakeHandle(p, h) ==
  /\ CallerReturns
  /\ Held(handshakes, p, h)
  /\ handshakes' = [handshakes EXCEPT ![p][h].held = FALSE]
  /\ UNCHANGED <<nextHandle, locals, remotes, msgs>>

\* get_shared_secret and get_authenticated_peer_credential_token, as read by the
\* caller: nothing before the handshake has succeeded.
get_shared_secret(p, h) ==
  LET hs == handshakes[p][h] IN
  IF Held(handshakes, p, h) /\ hs.state \in Succeeded
  THEN [challenge1 |-> hs.challenge1, challenge2 |-> hs.challenge2, secret |-> hs.secret]
  ELSE Nil

----------------------------------------------------------------------------
Inbox(p) == {m \in msgs : m.dst = p /\ m.class # "AuthReq"}

Identities(p) ==
  \/ ValidateLocalIdentity(p)
  \/ \E l \in Handles, perm \in Perms : SetPermissions(p, l, perm)
  \/ \E l \in Handles, guid \in Participants :
       \E token \in AuthRequests(p, guid) :
         ValidateNewRemoteIdentity(p, l, guid, token)
  \/ \E rh \in Handles :
       /\ Held(remotes, p, rh)
       /\ \E token \in AuthRequests(p, remotes[p][rh].guid) :
            RevalidateRemoteIdentity(p, rh, token)
  \/ \E h \in Handles : ReturnIdentityHandle(p, h)

Handshaking(p) ==
  \/ \E l, rh \in Handles : BeginHandshakeRequest(p, l, rh)
  \/ \E l, rh \in Handles, m \in Inbox(p) : BeginHandshakeReply(p, l, rh, m)
  \/ \E h \in Handles, m \in Inbox(p), fault \in Faults : ProcessReply(p, h, m, fault)
  \/ \E h \in Handles, m \in Inbox(p) : ProcessFinal(p, h, m)
  \/ \E h \in Handles, m \in Inbox(p) : RefuseMessage(p, h, m)
  \/ \E h \in Handles : ReturnHandshakeHandle(p, h)

Next == \E p \in Participants : Identities(p) \/ Handshaking(p)

Spec == Init /\ [][Next]_vars

----------------------------------------------------------------------------
(* Types. *)

Perm == Perms \cup {Nil}
Cred == [id : Participants, perm : Perm, pdata : Participants,
         dsign : {DsignOf[p] : p \in Participants},
         kem : {KemOf[p] : p \in Participants}]
Ciphertext == [by : Participants, at : Handles, key : Fresh]
SecretValue == [key : Fresh, ct : Ciphertext]
Transcript == [role : {"reply", "final"}, hash1 : Cred, hash2 : Cred,
               challenge1 : Fresh, challenge2 : Fresh,
               public_key : Fresh, ciphertext : Ciphertext]
Signature == [by : Participants, over : Transcript]

LocalIdentity == [held : BOOLEAN, perm : Perm]

RemoteIdentity ==
  [held : BOOLEAN, local : Handles, guid : Participants, local_challenge : Fresh,
   remote_challenge : Fresh \cup {Nil, Short}, local_auth_request_sent : BOOLEAN,
   verdict : {"FAILED", "PENDING_HANDSHAKE_REQUEST", "PENDING_HANDSHAKE_MESSAGE"}]

Handshake ==
  [held : BOOLEAN, initiator : BOOLEAN,
   state : {"PENDING_HANDSHAKE_MESSAGE"} \cup Terminal,
   local : Handles, remote : Handles, kem : {"keypair", "public", "cleared"},
   hash1 : Cred, hash2 : Cred \cup {Nil},
   challenge1 : Fresh, challenge2 : Fresh \cup {Nil},
   public_key : Fresh, ciphertext : Ciphertext \cup {Nil},
   secret : SecretValue \cup {Nil},
   remote_certificate : Participants \cup {Nil}, remote_permissions : Perm]

\* The absent value is none of the values it stands beside.
ASSUME NilAssumption ==
  /\ Nil \notin LocalIdentity \cup RemoteIdentity \cup Handshake
  /\ Nil \notin Fresh \cup Cred \cup Ciphertext \cup SecretValue \cup Participants
  /\ Short \notin Fresh \cup {Nil}

AuthReqMsg == [class : {"AuthReq"}, src : Participants, dst : Participants,
               challenge : Fresh]
ReqMsg == [class : {"Req"}, src : Participants, dst : Participants, cred : Cred,
           public_key : Fresh, challenge1 : Fresh]
ReplyMsg == [class : {"Reply"}, src : Participants, dst : Participants, cred : Cred,
             ciphertext : Ciphertext, challenge1 : Fresh, challenge2 : Fresh,
             signature : Signature]
FinalMsg == [class : {"Final"}, src : Participants, dst : Participants,
             signature : Signature]
Message == AuthReqMsg \cup ReqMsg \cup ReplyMsg \cup FinalMsg

\* Every table, counter and token holds values of the kinds the code stores there.
TypeOK ==
  /\ nextHandle \in [Participants -> 1 .. (MaxHandles + 1)]
  /\ locals \in [Participants -> [Handles -> LocalIdentity \cup {Nil}]]
  /\ remotes \in [Participants -> [Handles -> RemoteIdentity \cup {Nil}]]
  /\ handshakes \in [Participants -> [Handles -> Handshake \cup {Nil}]]
  /\ msgs \subseteq Message

----------------------------------------------------------------------------
(* Properties. *)

IsInitiator(p, h) == handshakes[p][h] # Nil /\ handshakes[p][h].initiator
IsReplier(p, h)   == handshakes[p][h] # Nil /\ ~ handshakes[p][h].initiator

\* A handle names one object of one table.  return_identity_handle relies on it: it
\* erases the handle from locals_ or else from remotes_, whichever knows it first.
HandleNamesOneObject ==
  \A p \in Participants, h \in Handles :
    /\ h >= nextHandle[p] =>
         locals[p][h] = Nil /\ remotes[p][h] = Nil /\ handshakes[p][h] = Nil
    /\ locals[p][h] # Nil => remotes[p][h] = Nil /\ handshakes[p][h] = Nil
    /\ remotes[p][h] # Nil => handshakes[p][h] = Nil

\* What the two ends of a session must agree on: who they are, the credentials and
\* challenges of both and the secret.
Session(i, r, hs) ==
  [initiator |-> i, replier |-> r, hash1 |-> hs.hash1, hash2 |-> hs.hash2,
   challenge1 |-> hs.challenge1, challenge2 |-> hs.challenge2, secret |-> hs.secret]

InitiatorSession(p, h) ==
  Session(p, handshakes[p][h].remote_certificate, handshakes[p][h])
ReplierSession(p, h) ==
  Session(handshakes[p][h].remote_certificate, p, handshakes[p][h])

\* When process_handshake answers VALIDATION_OK to a replier, the participant named
\* by the certificate the replier checked has completed a handshake with it, and both
\* hold the same credentials, challenges and secret, whatever tokens were lost,
\* repeated or delivered to another handshake before.
ReplierAgreement ==
  \A p \in Participants, h \in Handles :
    IsReplier(p, h) /\ handshakes[p][h].state = "OK" =>
      \E q \in Participants, g \in Handles :
        /\ IsInitiator(q, g)
        /\ handshakes[q][g].state = "OK_FINAL_MESSAGE"
        /\ InitiatorSession(q, g) = ReplierSession(p, h)

\* When process_handshake answers VALIDATION_OK_FINAL_MESSAGE to an initiator, the
\* peer really encapsulated that secret for this very handshake: the late reply to an
\* earlier request is never accepted, although both requests carry one challenge.
InitiatorAgreement ==
  \A p \in Participants, h \in Handles :
    IsInitiator(p, h) /\ handshakes[p][h].state = "OK_FINAL_MESSAGE" =>
      \E q \in Participants, g \in Handles :
        /\ IsReplier(q, g)
        /\ ReplierSession(q, g) = InitiatorSession(p, h)

\* Two handshakes that completed on the same side never share a ciphertext: one reply
\* completes at most one request, and one final token at most one reply.
SessionUsedOnce ==
  \A p, q \in Participants, h, g \in Handles :
    /\ handshakes[p][h] # Nil /\ handshakes[p][h].state \in Succeeded
    /\ handshakes[q][g] # Nil /\ handshakes[q][g].state \in Succeeded
    /\ handshakes[p][h].initiator = handshakes[q][g].initiator
    /\ \/ handshakes[p][h].ciphertext = handshakes[q][g].ciphertext
       \/ handshakes[p][h].public_key = handshakes[q][g].public_key
    => p = q /\ h = g

\* A handshake that has ended, well or badly, keeps its result, its challenges and
\* its secret for ever, and a returned handle never names anything again.
EndedHandshakesAreFrozen ==
  [][\A p \in Participants, h \in Handles :
       /\ handshakes[p][h] # Nil /\ handshakes[p][h].state \in Terminal
            => handshakes'[p][h] = [handshakes[p][h] EXCEPT !.held = handshakes'[p][h].held]
       /\ handshakes[p][h] # Nil /\ ~ handshakes[p][h].held
            => handshakes'[p][h] = handshakes[p][h]]_vars

\* Participants whose KEM or whose CA differ never complete a handshake, in whatever
\* order and to whatever handshake their tokens are delivered: mismatches fail closed.
MismatchFailsClosed ==
  \A p \in Participants, h \in Handles :
    handshakes[p][h] # Nil /\ handshakes[p][h].state \in Succeeded =>
      LET q == handshakes[p][h].remote_certificate IN
      /\ KemOf[p] = KemOf[q]
      /\ CaOf[p] = CaOf[q]
      /\ remotes[p][handshakes[p][h].remote].guid = q

Offers == {ReplierSession(ph[1], ph[2]) :
             ph \in {x \in Participants \X Handles : IsReplier(x[1], x[2])}}
Accepted == {InitiatorSession(ph[1], ph[2]) :
             ph \in {x \in Participants \X Handles :
                       /\ IsInitiator(x[1], x[2])
                       /\ handshakes[x[1]][x[2]].state = "OK_FINAL_MESSAGE"}}
Confirmed == {ReplierSession(ph[1], ph[2]) :
             ph \in {x \in Participants \X Handles :
                       /\ IsReplier(x[1], x[2])
                       /\ handshakes[x[1]][x[2]].state = "OK"}}

MA == INSTANCE MutualAuth WITH
        offers <- Offers, accepted <- Accepted, confirmed <- Confirmed

\* The plugins and the tokens between them implement the abstract authentication: a
\* session is offered, then accepted by its initiator, then confirmed, and none of this
\* is ever undone by later calls or by returned handles.
ImplementsMutualAuth == MA!AbsSpec
=============================================================================
