------------------------- MODULE OpenDDSAuthProofs -------------------------
(***************************************************************************)
(* Proofs about OpenDDSAuth, for every set of participants, configuration, *)
(* number of handles and choice of the environment's inputs.               *)
(*                                                                         *)
(* First the tables: their types, that a handle names one object, and what *)
(* a step may do to a handshake.  Then agreement.  A handshake's own       *)
(* fields say what it has checked (InitiatorFields, ReplierFields), and    *)
(* every signature in flight covers the transcript of a handshake its      *)
(* signer really holds (RepliesSigned, FinalsSigned).  What such a         *)
(* signature covers never changes again, so a peer that verifies it        *)
(* against its own transcript has found its partner.  Last, from the same  *)
(* invariant, that the plugin implements MutualAuth.                       *)
(***************************************************************************)
EXTENDS OpenDDSAuth, TLAPS

USE ParticipantsAssumption, BoundsAssumption

----------------------------------------------------------------------------
(* Type correctness. *)

\* The empty tables are well typed.
LEMMA InitTypeOK == Init => TypeOK
  BY DEF Init, TypeOK, Handles

\* The credentials of a participant are well formed.
LEMMA CredentialsType ==
  ASSUME NEW p \in Participants, NEW perm \in Perm
  PROVE  Credentials(p, perm) \in Cred
  BY DEF Credentials, Cred, Perm

\* validate_local_identity stores a well-typed LocalIdentity.
LEMMA TypeLocal ==
  ASSUME TypeOK, NEW p \in Participants, ValidateLocalIdentity(p)
  PROVE  TypeOK'
  BY DEF TypeOK, ValidateLocalIdentity, TakeHandle, LocalIdentity, Perm, Handles

\* set_permissions_credential_and_token keeps the types.
LEMMA TypePermissions ==
  ASSUME TypeOK, NEW p \in Participants, NEW l \in Handles, NEW perm \in Perms,
         SetPermissions(p, l, perm)
  PROVE  TypeOK'
  BY SMTT(30) DEF TypeOK, SetPermissions, Held, LocalIdentity, Perm

\* An AuthRequest token that the caller may pass carries a challenge or none.
LEMMA AuthRequestsType ==
  ASSUME TypeOK, NEW p \in Participants, NEW guid \in Participants,
         NEW token \in AuthRequests(p, guid)
  PROVE  token.challenge \in Fresh \cup {Nil, Short}
  <1>1. CASE token \in {NilToken} \cup OddTokens
    BY <1>1, OddTokensAssumption DEF NilToken, ForeignToken, ShortToken
  <1>2. CASE token \notin {NilToken} \cup OddTokens
    <2>1. PICK m \in msgs : m.class = "AuthReq" /\
                            token = [class |-> "AuthReq", challenge |-> m.challenge]
      BY <1>2 DEF AuthRequests
    <2>2. m \in AuthReqMsg
      BY <2>1 DEF TypeOK, Message, AuthReqMsg, ReqMsg, ReplyMsg, FinalMsg
    <2>. QED  BY <2>1, <2>2 DEF AuthReqMsg
  <1>. QED  BY <1>1, <1>2

\* Whatever AuthRequest token it is given, an identity stays an identity.
LEMMA ApplyAuthRequestType ==
  ASSUME NEW p \in Participants, NEW r \in RemoteIdentity, NEW token,
         token.challenge \in Fresh \cup {Nil, Short}
  PROVE  ApplyAuthRequest(p, r, token) \in RemoteIdentity
  BY DEF ApplyAuthRequest, RemoteIdentity, Verdict

\* The AuthRequest that validate_remote_identity returns is a token.
LEMMA AuthRequestSentType ==
  ASSUME NEW p \in Participants, NEW r \in RemoteIdentity, NEW token
  PROVE  AuthRequestSent(p, r, token) \subseteq Message
  BY DEF AuthRequestSent, RemoteIdentity, Message, AuthReqMsg

\* validate_remote_identity for an unknown peer keeps the types.
LEMMA TypeNewRemote ==
  ASSUME TypeOK, NEW p \in Participants, NEW l \in Handles, NEW guid \in Participants,
         NEW token \in AuthRequests(p, guid),
         ValidateNewRemoteIdentity(p, l, guid, token)
  PROVE  TypeOK'
  <1> DEFINE h == nextHandle[p]
             r == NewRemoteIdentity(p, h, l, guid)
  <1>1. h \in Handles /\ nextHandle' = [nextHandle EXCEPT ![p] = h + 1]
    BY DEF ValidateNewRemoteIdentity, TakeHandle
  <1>2. r \in RemoteIdentity
    BY <1>1 DEF NewRemoteIdentity, RemoteIdentity, Fresh
  <1>3. ApplyAuthRequest(p, r, token) \in RemoteIdentity
    BY <1>2, AuthRequestsType, ApplyAuthRequestType
  <1>4. remotes' = [remotes EXCEPT ![p][h] = ApplyAuthRequest(p, r, token)]
    BY DEF ValidateNewRemoteIdentity
  <1>5. remotes' \in [Participants -> [Handles -> RemoteIdentity \cup {Nil}]]
    BY <1>1, <1>3, <1>4 DEF TypeOK
  <1>6. msgs' \subseteq Message
    BY <1>2, AuthRequestSentType DEF ValidateNewRemoteIdentity, TypeOK
  <1>7. nextHandle' \in [Participants -> 1 .. (MaxHandles + 1)]
    BY <1>1 DEF TypeOK, Handles
  <1>. QED  BY <1>5, <1>6, <1>7 DEF TypeOK, ValidateNewRemoteIdentity

\* validate_remote_identity for a known peer keeps the types.
LEMMA TypeRevalidate ==
  ASSUME TypeOK, NEW p \in Participants, NEW rh \in Handles,
         NEW token \in AuthRequests(p, remotes[p][rh].guid),
         RevalidateRemoteIdentity(p, rh, token)
  PROVE  TypeOK'
  <1>1. remotes[p][rh] \in RemoteIdentity
    BY DEF RevalidateRemoteIdentity, Held, TypeOK
  <1>2. remotes[p][rh].guid \in Participants
    BY <1>1 DEF RemoteIdentity
  <1>3. ApplyAuthRequest(p, remotes[p][rh], token) \in RemoteIdentity
    BY <1>1, <1>2, AuthRequestsType, ApplyAuthRequestType
  <1>4. remotes' = [remotes EXCEPT ![p][rh] = ApplyAuthRequest(p, remotes[p][rh], token)]
    BY DEF RevalidateRemoteIdentity, TypeOK
  <1>5. remotes' \in [Participants -> [Handles -> RemoteIdentity \cup {Nil}]]
    BY <1>3, <1>4 DEF TypeOK
  <1>6. msgs' \subseteq Message
    BY <1>1, AuthRequestSentType DEF RevalidateRemoteIdentity, TypeOK
  <1>. QED  BY <1>5, <1>6 DEF TypeOK, RevalidateRemoteIdentity

\* return_identity_handle keeps the types.
LEMMA TypeReturnIdentity ==
  ASSUME TypeOK, NEW p \in Participants, NEW h \in Handles, ReturnIdentityHandle(p, h)
  PROVE  TypeOK'
  <1>1. CASE Held(locals, p, h) /\ locals' = [locals EXCEPT ![p][h].held = FALSE]
             /\ UNCHANGED remotes
    <2>1. locals[p][h] \in LocalIdentity
      BY <1>1 DEF TypeOK, Held
    <2>2. [locals[p][h] EXCEPT !.held = FALSE] \in LocalIdentity
      BY <2>1 DEF LocalIdentity
    <2>3. locals' \in [Participants -> [Handles -> LocalIdentity \cup {Nil}]]
      BY <1>1, <2>2 DEF TypeOK
    <2>. QED  BY <1>1, <2>3 DEF TypeOK, ReturnIdentityHandle
  <1>2. CASE Held(remotes, p, h) /\ remotes' = [remotes EXCEPT ![p][h].held = FALSE]
             /\ UNCHANGED locals
    <2>1. remotes[p][h] \in RemoteIdentity
      BY <1>2 DEF TypeOK, Held
    <2>2. [remotes[p][h] EXCEPT !.held = FALSE] \in RemoteIdentity
      BY <2>1 DEF RemoteIdentity
    <2>3. remotes' \in [Participants -> [Handles -> RemoteIdentity \cup {Nil}]]
      BY <1>2, <2>2 DEF TypeOK
    <2>. QED  BY <1>2, <2>3 DEF TypeOK, ReturnIdentityHandle
  <1>. QED  BY <1>1, <1>2 DEF ReturnIdentityHandle

\* return_handshake_handle keeps the types.
LEMMA TypeReturnHandshake ==
  ASSUME TypeOK, NEW p \in Participants, NEW h \in Handles, ReturnHandshakeHandle(p, h)
  PROVE  TypeOK'
  <1>1. handshakes[p][h] \in Handshake
    BY DEF TypeOK, Held, ReturnHandshakeHandle
  <1>2. [handshakes[p][h] EXCEPT !.held = FALSE] \in Handshake
    BY <1>1 DEF Handshake
  <1>3. handshakes' \in [Participants -> [Handles -> Handshake \cup {Nil}]]
    BY <1>2 DEF TypeOK, ReturnHandshakeHandle
  <1>. QED  BY <1>3 DEF TypeOK, ReturnHandshakeHandle

\* The challenge a handshake uses is a nonce, whoever asked for it.
LEMMA OwnChallengeType ==
  ASSUME NEW p \in Participants, NEW h \in Handles, NEW r \in RemoteIdentity
  PROVE  OwnChallenge(p, h, r) \in Fresh
  BY DEF OwnChallenge, RemoteIdentity, Fresh

\* begin_handshake_request keeps the types.
LEMMA TypeRequest ==
  ASSUME TypeOK, NEW p \in Participants, NEW l \in Handles, NEW rh \in Handles,
         BeginHandshakeRequest(p, l, rh)
  PROVE  TypeOK'
  <1> DEFINE h == nextHandle[p]
             hs == RequestHandshake(p, h, l, rh)
             m == [class |-> "Req", src |-> p, dst |-> remotes[p][rh].guid,
                   cred |-> hs.hash1, public_key |-> hs.public_key,
                   challenge1 |-> hs.challenge1]
  <1>1. /\ h \in Handles
        /\ locals[p][l] \in LocalIdentity
        /\ remotes[p][rh] \in RemoteIdentity
        /\ nextHandle' = [nextHandle EXCEPT ![p] = h + 1]
        /\ handshakes' = [handshakes EXCEPT ![p][h] = hs]
        /\ msgs' = msgs \cup {m}
    BY DEF BeginHandshakeRequest, TakeHandle, TypeOK, Held
  <1>2. /\ Credentials(p, locals[p][l].perm) \in Cred
        /\ OwnChallenge(p, h, remotes[p][rh]) \in Fresh
    BY <1>1, CredentialsType, OwnChallengeType DEF LocalIdentity
  <1>3. hs \in Handshake
    BY <1>1, <1>2 DEF RequestHandshake, Handshake, Fresh, Perm
  <1>4. m \in ReqMsg
    BY <1>1, <1>2, <1>3 DEF ReqMsg, Handshake, RemoteIdentity
  <1>5. nextHandle' \in [Participants -> 1 .. (MaxHandles + 1)]
    BY <1>1 DEF TypeOK, Handles
  <1>6. handshakes' \in [Participants -> [Handles -> Handshake \cup {Nil}]]
    BY <1>1, <1>3 DEF TypeOK
  <1>7. msgs' \subseteq Message
    BY <1>1, <1>4 DEF TypeOK, Message
  <1>. QED  BY <1>5, <1>6, <1>7 DEF TypeOK, BeginHandshakeRequest

\* A token of a class is a record of that class.
LEMMA ClassType ==
  ASSUME TypeOK, NEW m \in msgs
  PROVE  /\ m.class = "Req" => m \in ReqMsg
         /\ m.class = "Reply" => m \in ReplyMsg
         /\ m.class = "Final" => m \in FinalMsg
  BY DEF TypeOK, Message, AuthReqMsg, ReqMsg, ReplyMsg, FinalMsg

\* The handshake built from an accepted request is well typed.
LEMMA ReplyHandshakeType ==
  ASSUME NEW p \in Participants, NEW h \in Handles, NEW l \in Handles,
         NEW rh \in Handles, NEW m \in ReqMsg,
         locals[p][l] \in LocalIdentity, remotes[p][rh] \in RemoteIdentity
  PROVE  LET hs == ReplyHandshake(p, h, l, rh, m) IN
         /\ hs \in Handshake
         /\ hs.hash2 \in Cred /\ hs.challenge2 \in Fresh /\ hs.ciphertext \in Ciphertext
         /\ hs.secret = Secret(hs.public_key, hs.ciphertext)
         /\ hs.ciphertext = [by |-> p, at |-> h, key |-> hs.public_key]
         /\ hs.remote_certificate = hs.hash1.id /\ hs.hash2.id = p
         /\ ~ hs.initiator /\ hs.state = "PENDING_HANDSHAKE_MESSAGE" /\ hs.held
  <1>1. /\ Credentials(p, locals[p][l].perm) \in Cred
        /\ OwnChallenge(p, h, remotes[p][rh]) \in Fresh
    BY CredentialsType, OwnChallengeType DEF LocalIdentity
  <1>2. m.cred \in Cred /\ m.public_key \in Fresh /\ m.challenge1 \in Fresh
    BY DEF ReqMsg
  <1>3. [by |-> p, at |-> h, key |-> m.public_key] \in Ciphertext
    BY <1>2 DEF Ciphertext
  <1>4. Secret(m.public_key, [by |-> p, at |-> h, key |-> m.public_key]) \in SecretValue
    BY <1>2, <1>3 DEF Secret, SecretValue
  <1>5. m.cred.id \in Participants /\ m.cred.perm \in Perm
    BY <1>2 DEF Cred
  <1>6. ReplyHandshake(p, h, l, rh, m) \in Handshake
    BY <1>1, <1>2, <1>3, <1>4, <1>5 DEF ReplyHandshake, Handshake
  <1>. QED  BY <1>1, <1>3, <1>6 DEF ReplyHandshake, Credentials

\* Both transcripts of a handshake with all its fields are well typed.
LEMMA TranscriptType ==
  ASSUME NEW hs \in Handshake, hs.hash2 \in Cred, hs.challenge2 \in Fresh,
         hs.ciphertext \in Ciphertext
  PROVE  reply_transcript(hs) \in Transcript /\ final_transcript(hs) \in Transcript
  BY DEF Handshake, Transcript, reply_transcript, final_transcript

\* begin_handshake_reply keeps the types.
LEMMA TypeReply ==
  ASSUME TypeOK, NEW p \in Participants, NEW l \in Handles, NEW rh \in Handles,
         NEW m \in msgs, BeginHandshakeReply(p, l, rh, m)
  PROVE  TypeOK'
  <1> DEFINE h == nextHandle[p]
             hs == ReplyHandshake(p, h, l, rh, m)
             n == [class |-> "Reply", src |-> p, dst |-> remotes[p][rh].guid,
                   cred |-> hs.hash2, ciphertext |-> hs.ciphertext,
                   challenge1 |-> hs.challenge1, challenge2 |-> hs.challenge2,
                   signature |-> sign(p, reply_transcript(hs))]
  <1>1. /\ h \in Handles
        /\ locals[p][l] \in LocalIdentity
        /\ remotes[p][rh] \in RemoteIdentity
        /\ nextHandle' = [nextHandle EXCEPT ![p] = h + 1]
        /\ handshakes' = [handshakes EXCEPT ![p][h] = hs]
        /\ msgs' = msgs \cup {n}
    BY DEF BeginHandshakeReply, TakeHandle, TypeOK, Held
  <1>2. m \in ReqMsg
    BY ClassType DEF BeginHandshakeReply, RequestAccepted
  <1> HIDE DEF hs
  <1>3. /\ hs \in Handshake
        /\ hs.hash2 \in Cred /\ hs.challenge2 \in Fresh /\ hs.ciphertext \in Ciphertext
    BY <1>1, <1>2, ReplyHandshakeType DEF hs
  <1>4. sign(p, reply_transcript(hs)) \in Signature
    BY <1>3, TranscriptType DEF sign, Signature
  <1>5. n \in ReplyMsg
    BY <1>1, <1>3, <1>4 DEF ReplyMsg, Handshake, RemoteIdentity
  <1>6. nextHandle' \in [Participants -> 1 .. (MaxHandles + 1)]
    BY <1>1 DEF TypeOK, Handles
  <1>7. handshakes' \in [Participants -> [Handles -> Handshake \cup {Nil}]]
    BY <1>1, <1>3 DEF TypeOK
  <1>8. msgs' \subseteq Message
    BY <1>1, <1>5 DEF TypeOK, Message
  <1>. QED  BY <1>6, <1>7, <1>8 DEF TypeOK, BeginHandshakeReply

\* A handshake stays well typed when the fields of a reply are read into it.
LEMMA WithReplyType ==
  ASSUME NEW hs \in Handshake, NEW m \in ReplyMsg
  PROVE  LET w == WithReply(hs, m) IN
         /\ w \in Handshake
         /\ w.hash2 = m.cred /\ w.challenge2 = m.challenge2
         /\ w.ciphertext = m.ciphertext /\ w.remote_certificate = m.cred.id
         /\ w.hash1 = hs.hash1 /\ w.challenge1 = hs.challenge1
         /\ w.public_key = hs.public_key /\ w.initiator = hs.initiator
         /\ w.remote = hs.remote /\ w.secret = hs.secret
  <1>1. /\ m.cred \in Cred /\ m.challenge2 \in Fresh /\ m.ciphertext \in Ciphertext
        /\ m.cred.id \in Participants /\ m.cred.perm \in Perm
    BY DEF ReplyMsg, Cred
  <1>. QED  BY <1>1 DEF WithReply, Handshake

\* What decapsulating and signing leave behind, for each way they may go.
LEMMA DecapsulatedType ==
  ASSUME NEW hs \in Handshake, NEW m \in ReplyMsg, NEW fault \in Faults
  PROVE  LET d == Decapsulated(hs, m, fault) IN
         /\ d \in Handshake
         /\ d.hash2 = m.cred /\ d.challenge2 = m.challenge2
         /\ d.ciphertext = m.ciphertext /\ d.remote_certificate = m.cred.id
         /\ d.hash1 = hs.hash1 /\ d.challenge1 = hs.challenge1
         /\ d.public_key = hs.public_key /\ d.initiator = hs.initiator
         /\ d.remote = hs.remote
         /\ d.state \in {"FAILED", "OK_FINAL_MESSAGE"}
         /\ d.state # "FAILED" => d.secret = Secret(hs.public_key, m.ciphertext)
  <1> DEFINE w == WithReply(hs, m)
  <1>1. /\ w \in Handshake
        /\ w.hash2 = m.cred /\ w.challenge2 = m.challenge2
        /\ w.ciphertext = m.ciphertext /\ w.remote_certificate = m.cred.id
        /\ w.hash1 = hs.hash1 /\ w.challenge1 = hs.challenge1
        /\ w.public_key = hs.public_key /\ w.initiator = hs.initiator
        /\ w.remote = hs.remote
    BY WithReplyType
  <1>2. Secret(hs.public_key, m.ciphertext) \in SecretValue
    BY DEF Secret, SecretValue, Handshake, ReplyMsg
  <1> HIDE DEF w
  <1> DEFINE c == [w EXCEPT !.kem = "cleared"]
             x == [c EXCEPT !.secret = Secret(hs.public_key, m.ciphertext)]
  <1>6. /\ c \in Handshake
        /\ c.hash2 = w.hash2 /\ c.challenge2 = w.challenge2
        /\ c.ciphertext = w.ciphertext /\ c.remote_certificate = w.remote_certificate
        /\ c.hash1 = w.hash1 /\ c.challenge1 = w.challenge1
        /\ c.public_key = w.public_key /\ c.initiator = w.initiator
        /\ c.remote = w.remote
    BY <1>1 DEF Handshake
  <1> HIDE DEF c
  <1>7. /\ x \in Handshake
        /\ x.hash2 = c.hash2 /\ x.challenge2 = c.challenge2
        /\ x.ciphertext = c.ciphertext /\ x.remote_certificate = c.remote_certificate
        /\ x.hash1 = c.hash1 /\ x.challenge1 = c.challenge1
        /\ x.public_key = c.public_key /\ x.initiator = c.initiator
        /\ x.remote = c.remote
        /\ x.secret = Secret(hs.public_key, m.ciphertext)
    BY <1>2, <1>6 DEF Handshake
  <1> HIDE DEF x
  <1>8. Decapsulated(hs, m, fault) =
          CASE fault = "decapsulate" -> [c EXCEPT !.state = "FAILED"]
            [] fault = "sign"        -> [x EXCEPT !.state = "FAILED"]
            [] fault = "none"        -> [x EXCEPT !.state = "OK_FINAL_MESSAGE"]
    BY DEF Decapsulated, x, c, w
  <1>3. CASE fault = "decapsulate"
    <2>1. Decapsulated(hs, m, fault) = [c EXCEPT !.state = "FAILED"]
      BY <1>3, <1>8
    <2>. QED  BY <1>1, <1>6, <2>1 DEF Handshake, Terminal
  <1>4. CASE fault = "sign"
    <2>1. Decapsulated(hs, m, fault) = [x EXCEPT !.state = "FAILED"]
      BY <1>4, <1>8
    <2>. QED  BY <1>1, <1>6, <1>7, <2>1 DEF Handshake, Terminal
  <1>5. CASE fault = "none"
    <2>1. Decapsulated(hs, m, fault) = [x EXCEPT !.state = "OK_FINAL_MESSAGE"]
      BY <1>5, <1>8
    <2>. QED  BY <1>1, <1>6, <1>7, <2>1 DEF Handshake, Terminal
  <1>. QED  BY <1>3, <1>4, <1>5, CallerAssumption

\* process_handshake on an accepted reply keeps the types.
LEMMA TypeProcessReply ==
  ASSUME TypeOK, NEW p \in Participants, NEW h \in Handles, NEW m \in msgs,
         NEW fault \in Faults, ProcessReply(p, h, m, fault),
         remotes[p][handshakes[p][h].remote] # Nil
  PROVE  TypeOK'
  <1> DEFINE hs == handshakes[p][h]
             r == remotes[p][hs.remote]
             d == Decapsulated(hs, m, fault)
             n == [class |-> "Final", src |-> p, dst |-> r.guid,
                   signature |-> sign(p, final_transcript(d))]
  <1>1. /\ hs \in Handshake
        /\ m \in ReplyMsg
        /\ handshakes' = [handshakes EXCEPT ![p][h] = d]
        /\ msgs' = msgs \/ msgs' = msgs \cup {n}
    <2>1. hs \in Handshake /\ m \in ReplyMsg
      BY ClassType DEF ProcessReply, Awaiting, Held, TypeOK
    <2>2. /\ handshakes' = [handshakes EXCEPT ![p][h] = d]
          /\ msgs' = IF d.state = "FAILED" THEN msgs ELSE msgs \cup {n}
      BY DEF ProcessReply
    <2>. QED  BY <2>1, <2>2
  <1> HIDE DEF d, n
  <1>2. r \in RemoteIdentity
    <2>1. hs.remote \in Handles
      BY <1>1 DEF Handshake
    <2>. QED  BY <2>1 DEF TypeOK
  <1> USE DEF n
  <1>3. /\ d \in Handshake /\ d.hash2 \in Cred /\ d.challenge2 \in Fresh
        /\ d.ciphertext \in Ciphertext
    BY <1>1, DecapsulatedType DEF d, ReplyMsg
  <1>4. sign(p, final_transcript(d)) \in Signature
    BY <1>3, TranscriptType DEF sign, Signature
  <1>5. n \in FinalMsg
    BY <1>2, <1>4 DEF FinalMsg, RemoteIdentity
  <1>6. msgs' \subseteq Message
    BY <1>1, <1>5 DEF TypeOK, Message
  <1>7. handshakes' \in [Participants -> [Handles -> Handshake \cup {Nil}]]
    BY <1>1, <1>3 DEF TypeOK
  <1>. QED  BY <1>6, <1>7 DEF TypeOK, ProcessReply

\* process_handshake on an accepted final keeps the types.
LEMMA TypeProcessFinal ==
  ASSUME TypeOK, NEW p \in Participants, NEW h \in Handles, NEW m \in msgs,
         ProcessFinal(p, h, m)
  PROVE  TypeOK'
  <1>1. handshakes[p][h] \in Handshake
    BY DEF ProcessFinal, Awaiting, Held, TypeOK
  <1>2. [handshakes[p][h] EXCEPT !.state = "OK"] \in Handshake
    BY <1>1 DEF Handshake, Terminal
  <1>3. handshakes' \in [Participants -> [Handles -> Handshake \cup {Nil}]]
    BY <1>2 DEF TypeOK, ProcessFinal
  <1>. QED  BY <1>3 DEF TypeOK, ProcessFinal

\* process_handshake on a refused message keeps the types.
LEMMA TypeRefuse ==
  ASSUME TypeOK, NEW p \in Participants, NEW h \in Handles, NEW m \in msgs,
         RefuseMessage(p, h, m)
  PROVE  TypeOK'
  <1> DEFINE hs == handshakes[p][h]
             r == remotes[p][hs.remote]
             cred == /\ hs.initiator
                     /\ m.class = "Reply"
                     /\ validate_remote_credentials(p, r.guid, m.cred)
             base == IF cred THEN WithReply(hs, m) ELSE hs
  <1>1. hs \in Handshake
    BY DEF RefuseMessage, Awaiting, Held, TypeOK
  <1>2. base \in Handshake
    BY <1>1, ClassType, WithReplyType
  <1>3. handshakes' = [handshakes EXCEPT ![p][h] = [base EXCEPT !.state = "FAILED"]]
    BY DEF RefuseMessage
  <1> HIDE DEF base
  <1>4. [base EXCEPT !.state = "FAILED"] \in Handshake
    BY <1>2 DEF Handshake, Terminal
  <1>5. handshakes' \in [Participants -> [Handles -> Handshake \cup {Nil}]]
    BY <1>3, <1>4 DEF TypeOK
  <1>. QED  BY <1>5 DEF TypeOK, RefuseMessage

\* A handshake keeps a shared pointer to its remote identity: the identity's record
\* is there for as long as the handshake's is.
RemoteKept ==
  \A p \in Participants, h \in Handles :
    handshakes[p][h] # Nil => remotes[p][handshakes[p][h].remote] # Nil

\* Type correctness and the shared pointers are preserved together: process_handshake
\* addresses its final token to the GUID of the identity it points to.
LEMMA TypeInductive == TypeOK /\ RemoteKept /\ [Next]_vars => TypeOK'
  <1> SUFFICES ASSUME TypeOK, RemoteKept, [Next]_vars
               PROVE  TypeOK'
    OBVIOUS
  <1>1. ASSUME NEW p \in Participants, Identities(p)
        PROVE  TypeOK'
    BY <1>1, TypeLocal, TypePermissions, TypeNewRemote, TypeRevalidate,
       TypeReturnIdentity, Zenon DEF Identities
  <1>2. ASSUME NEW p \in Participants, Handshaking(p)
        PROVE  TypeOK'
    <2>1. ASSUME NEW h \in Handles, NEW m \in msgs, NEW fault \in Faults,
                 ProcessReply(p, h, m, fault)
          PROVE  remotes[p][handshakes[p][h].remote] # Nil
      BY <2>1 DEF ProcessReply, Awaiting, Held, RemoteKept
    <2>. QED
      BY <1>2, <2>1, TypeRequest, TypeReply, TypeProcessReply, TypeProcessFinal,
         TypeRefuse, TypeReturnHandshake, Zenon DEF Handshaking, Inbox
  <1>3. CASE UNCHANGED vars
    BY <1>3 DEF vars, TypeOK
  <1>. QED  BY <1>1, <1>2, <1>3 DEF Next

----------------------------------------------------------------------------
(* How one step may change one handshake. *)

\* Most fields are written once; an ended handshake and a returned one are frozen.
Evolves(old, new) ==
  /\ new \in Handshake
  /\ new.initiator = old.initiator
  /\ new.remote = old.remote
  /\ new.public_key = old.public_key
  /\ new.hash1 = old.hash1
  /\ new.challenge1 = old.challenge1
  /\ ~ old.initiator =>
       /\ new.hash2 = old.hash2
       /\ new.challenge2 = old.challenge2
       /\ new.ciphertext = old.ciphertext
       /\ new.secret = old.secret
       /\ new.remote_certificate = old.remote_certificate
  /\ old.state \in Terminal => new = [old EXCEPT !.held = new.held]
  /\ ~ old.held => new = old

\* A handshake of the table evolves; one that is not there may appear.
AllEvolve ==
  \A p \in Participants, h \in Handles :
    handshakes[p][h] # Nil =>
      handshakes'[p][h] # Nil /\ Evolves(handshakes[p][h], handshakes'[p][h])

\* A handshake that stays as it is evolves lawfully.
LEMMA EvolvesReflexive ==
  ASSUME NEW hs \in Handshake
  PROVE  Evolves(hs, hs)
  BY DEF Evolves, Handshake

\* A call that leaves the handshakes alone lets them evolve lawfully.
LEMMA UnchangedEvolve ==
  ASSUME TypeOK, UNCHANGED handshakes
  PROVE  AllEvolve
  <1> SUFFICES ASSUME NEW p \in Participants, NEW h \in Handles, handshakes[p][h] # Nil
               PROVE  Evolves(handshakes[p][h], handshakes[p][h])
    BY DEF AllEvolve
  <1>1. handshakes[p][h] \in Handshake
    BY DEF TypeOK
  <1>. QED  BY <1>1, EvolvesReflexive

\* Writing a free entry leaves every handshake of the table as it is.
LEMMA CreateEvolve ==
  ASSUME TypeOK, NEW p \in Participants, NEW h \in Handles, NEW hs,
         handshakes[p][h] = Nil, handshakes' = [handshakes EXCEPT ![p][h] = hs]
  PROVE  AllEvolve
  <1> SUFFICES ASSUME NEW q \in Participants, NEW g \in Handles, handshakes[q][g] # Nil
               PROVE  handshakes'[q][g] = handshakes[q][g]
                      /\ Evolves(handshakes[q][g], handshakes[q][g])
    BY DEF AllEvolve
  <1>1. handshakes[q][g] \in Handshake
    BY DEF TypeOK
  <1>. QED  BY <1>1, EvolvesReflexive DEF TypeOK

\* Updating one entry to something it may evolve to.
LEMMA UpdateEvolve ==
  ASSUME TypeOK, NEW p \in Participants, NEW h \in Handles, NEW hs,
         handshakes[p][h] # Nil, Evolves(handshakes[p][h], hs),
         handshakes' = [handshakes EXCEPT ![p][h] = hs]
  PROVE  AllEvolve
  <1> SUFFICES ASSUME NEW q \in Participants, NEW g \in Handles, handshakes[q][g] # Nil
               PROVE  handshakes'[q][g] # Nil
                      /\ Evolves(handshakes[q][g], handshakes'[q][g])
    BY DEF AllEvolve
  <1>1. handshakes[q][g] \in Handshake /\ hs \in Handshake
    BY DEF TypeOK, Evolves
  <1>2. CASE q = p /\ g = h
    BY <1>1, <1>2, NilAssumption DEF TypeOK
  <1>3. CASE ~ (q = p /\ g = h)
    BY <1>1, <1>3, EvolvesReflexive DEF TypeOK
  <1>. QED  BY <1>2, <1>3

\* Handles are taken from one counter, so a new object never lands on an old one.
LEMMA FreshHandle ==
  ASSUME HandleNamesOneObject, NEW p \in Participants, TakeHandle(p)
  PROVE  /\ nextHandle[p] \in Handles
         /\ locals[p][nextHandle[p]] = Nil
         /\ remotes[p][nextHandle[p]] = Nil
         /\ handshakes[p][nextHandle[p]] = Nil
  <1>1. nextHandle[p] \in Handles
    BY DEF TakeHandle
  <1>2. nextHandle[p] >= nextHandle[p]
    BY <1>1, BoundsAssumption DEF Handles
  <1>. QED  BY <1>1, <1>2 DEF HandleNamesOneObject

\* Every step only fills the slot of a fresh handle or updates objects in place.
LEMMA StepEvolves ==
  ASSUME TypeOK, HandleNamesOneObject, [Next]_vars
  PROVE  AllEvolve
  <1>1. ASSUME NEW p \in Participants, Identities(p)
        PROVE  AllEvolve
    <2>1. UNCHANGED handshakes
      BY <1>1 DEF Identities, ValidateLocalIdentity, SetPermissions,
           ValidateNewRemoteIdentity, RevalidateRemoteIdentity, ReturnIdentityHandle
    <2>. QED  BY <2>1, UnchangedEvolve
  <1>2. ASSUME NEW p \in Participants, NEW l \in Handles, NEW rh \in Handles,
               BeginHandshakeRequest(p, l, rh)
        PROVE  AllEvolve
    <2>1. TakeHandle(p)
      BY <1>2 DEF BeginHandshakeRequest
    <2>2. PICK hs : handshakes' = [handshakes EXCEPT ![p][nextHandle[p]] = hs]
      BY <1>2 DEF BeginHandshakeRequest
    <2>. QED  BY <2>1, <2>2, FreshHandle, CreateEvolve
  <1>3. ASSUME NEW p \in Participants, NEW l \in Handles, NEW rh \in Handles,
               NEW m \in msgs, BeginHandshakeReply(p, l, rh, m)
        PROVE  AllEvolve
    <2>1. TakeHandle(p)
      BY <1>3 DEF BeginHandshakeReply
    <2>2. PICK hs : handshakes' = [handshakes EXCEPT ![p][nextHandle[p]] = hs]
      BY <1>3 DEF BeginHandshakeReply
    <2>. QED  BY <2>1, <2>2, FreshHandle, CreateEvolve
  <1>4. ASSUME NEW p \in Participants, NEW h \in Handles, NEW m \in msgs,
               NEW fault \in Faults, ProcessReply(p, h, m, fault)
        PROVE  AllEvolve
    <2> DEFINE hs == handshakes[p][h]
               d == Decapsulated(hs, m, fault)
    <2>1. /\ hs # Nil /\ hs \in Handshake /\ hs.held /\ hs.initiator
          /\ hs.state = "PENDING_HANDSHAKE_MESSAGE"
          /\ m \in ReplyMsg
      BY <1>4, ClassType DEF ProcessReply, Awaiting, Held, TypeOK
    <2>2. handshakes' = [handshakes EXCEPT ![p][h] = d]
      BY <1>4 DEF ProcessReply
    <2>3. Evolves(hs, d)
      <3>1. /\ d \in Handshake /\ d.initiator = hs.initiator
            /\ d.remote = hs.remote /\ d.public_key = hs.public_key
            /\ d.hash1 = hs.hash1 /\ d.challenge1 = hs.challenge1
        <4> HIDE DEF hs
        <4>. QED  BY <2>1, DecapsulatedType
      <3>2. hs.state \notin Terminal
        BY <2>1 DEF Terminal
      <3> HIDE DEF d, hs
      <3>. QED  BY <2>1, <3>1, <3>2 DEF Evolves
    <2>. QED  BY <2>1, <2>2, <2>3, UpdateEvolve
  <1>5. ASSUME NEW p \in Participants, NEW h \in Handles, NEW m \in msgs,
               ProcessFinal(p, h, m)
        PROVE  AllEvolve
    <2> DEFINE hs == handshakes[p][h]
               d == [hs EXCEPT !.state = "OK"]
    <2>1. /\ hs # Nil /\ hs \in Handshake /\ hs.held
          /\ hs.state = "PENDING_HANDSHAKE_MESSAGE"
      BY <1>5 DEF ProcessFinal, Awaiting, Held, TypeOK
    <2>2. handshakes' = [handshakes EXCEPT ![p][h] = d]
      BY <1>5 DEF ProcessFinal, TypeOK
    <2>3. Evolves(hs, d)
      BY <2>1 DEF Evolves, Terminal, Handshake
    <2>. QED  BY <2>1, <2>2, <2>3, UpdateEvolve
  <1>6. ASSUME NEW p \in Participants, NEW h \in Handles, NEW m \in msgs,
               RefuseMessage(p, h, m)
        PROVE  AllEvolve
    <2> DEFINE hs == handshakes[p][h]
               r == remotes[p][hs.remote]
               cred == /\ hs.initiator
                       /\ m.class = "Reply"
                       /\ validate_remote_credentials(p, r.guid, m.cred)
               base == IF cred THEN WithReply(hs, m) ELSE hs
               d == [base EXCEPT !.state = "FAILED"]
    <2>1. /\ hs # Nil /\ hs \in Handshake /\ hs.held
          /\ hs.state = "PENDING_HANDSHAKE_MESSAGE"
      BY <1>6 DEF RefuseMessage, Awaiting, Held, TypeOK
    <2>2. handshakes' = [handshakes EXCEPT ![p][h] = d]
      BY <1>6 DEF RefuseMessage
    <2>3. /\ base \in Handshake
          /\ base.initiator = hs.initiator /\ base.remote = hs.remote
          /\ base.public_key = hs.public_key /\ base.hash1 = hs.hash1
          /\ base.challenge1 = hs.challenge1
          /\ ~ hs.initiator => base = hs
      BY <2>1, ClassType, WithReplyType
    <2> HIDE DEF base
    <2>4. Evolves(hs, d)
      BY <2>1, <2>3 DEF Evolves, Terminal, Handshake
    <2>. QED  BY <2>1, <2>2, <2>4, UpdateEvolve
  <1>7. ASSUME NEW p \in Participants, NEW h \in Handles, ReturnHandshakeHandle(p, h)
        PROVE  AllEvolve
    <2> DEFINE hs == handshakes[p][h]
               d == [hs EXCEPT !.held = FALSE]
    <2>1. hs # Nil /\ hs \in Handshake /\ hs.held
      BY <1>7 DEF ReturnHandshakeHandle, Held, TypeOK
    <2>2. handshakes' = [handshakes EXCEPT ![p][h] = d]
      BY <1>7 DEF ReturnHandshakeHandle, TypeOK
    <2>3. Evolves(hs, d)
      BY <2>1 DEF Evolves, Handshake
    <2>. QED  BY <2>1, <2>2, <2>3, UpdateEvolve
  <1>8. CASE UNCHANGED vars
    BY <1>8, UnchangedEvolve DEF vars
  <1>. QED
    BY <1>1, <1>2, <1>3, <1>4, <1>5, <1>6, <1>7, <1>8, Zenon DEF Next, Handshaking, Inbox

----------------------------------------------------------------------------
(* Handles and shared pointers. *)

\* No step gives a handle out twice.
LEMMA HandlesInductive ==
  ASSUME TypeOK, HandleNamesOneObject, [Next]_vars
  PROVE  HandleNamesOneObject'
  <1> USE DEF HandleNamesOneObject, TypeOK
  <1>1. ASSUME NEW p \in Participants, ValidateLocalIdentity(p)
        PROVE  HandleNamesOneObject'
    BY <1>1, FreshHandle DEF ValidateLocalIdentity, TakeHandle, Handles
  <1>2. ASSUME NEW p \in Participants, NEW l \in Handles, NEW perm \in Perms,
               SetPermissions(p, l, perm)
        PROVE  HandleNamesOneObject'
    BY <1>2 DEF SetPermissions, Held
  <1>3. ASSUME NEW p \in Participants, NEW l \in Handles, NEW guid \in Participants,
               NEW token, ValidateNewRemoteIdentity(p, l, guid, token)
        PROVE  HandleNamesOneObject'
    BY <1>3, FreshHandle DEF ValidateNewRemoteIdentity, TakeHandle, Handles
  <1>4. ASSUME NEW p \in Participants, NEW rh \in Handles, NEW token,
               RevalidateRemoteIdentity(p, rh, token)
        PROVE  HandleNamesOneObject'
    BY <1>4 DEF RevalidateRemoteIdentity, Held
  <1>5. ASSUME NEW p \in Participants, NEW h \in Handles, ReturnIdentityHandle(p, h)
        PROVE  HandleNamesOneObject'
    <2>1. CASE /\ Held(locals, p, h)
               /\ locals' = [locals EXCEPT ![p][h].held = FALSE]
               /\ UNCHANGED <<nextHandle, remotes, handshakes>>
      BY <2>1 DEF Held
    <2>2. CASE /\ Held(remotes, p, h)
               /\ remotes' = [remotes EXCEPT ![p][h].held = FALSE]
               /\ UNCHANGED <<nextHandle, locals, handshakes>>
      BY <2>2 DEF Held
    <2>. QED  BY <1>5, <2>1, <2>2, Zenon DEF ReturnIdentityHandle
  <1>6. ASSUME NEW p \in Participants, NEW l \in Handles, NEW rh \in Handles,
               BeginHandshakeRequest(p, l, rh)
        PROVE  HandleNamesOneObject'
    BY <1>6, FreshHandle DEF BeginHandshakeRequest, TakeHandle, Handles
  <1>7. ASSUME NEW p \in Participants, NEW l \in Handles, NEW rh \in Handles, NEW m \in msgs,
               BeginHandshakeReply(p, l, rh, m)
        PROVE  HandleNamesOneObject'
    BY <1>7, FreshHandle DEF BeginHandshakeReply, TakeHandle, Handles
  <1>8. ASSUME NEW p \in Participants, NEW h \in Handles, NEW hs,
               handshakes[p][h] # Nil,
               handshakes' = [handshakes EXCEPT ![p][h] = hs],
               UNCHANGED <<nextHandle, locals, remotes>>
        PROVE  HandleNamesOneObject'
    BY <1>8
  <1>9. CASE UNCHANGED vars
    BY <1>9 DEF vars
  <1>10. ASSUME NEW p \in Participants, NEW h \in Handles, NEW m \in msgs,
                NEW fault \in Faults, ProcessReply(p, h, m, fault)
         PROVE  HandleNamesOneObject'
    <2>1. PICK hs : handshakes' = [handshakes EXCEPT ![p][h] = hs]
      BY <1>10 DEF ProcessReply
    <2>. QED  BY <1>8, <1>10, <2>1, SMTT(30) DEF ProcessReply, Awaiting, Held
  <1>11. ASSUME NEW p \in Participants, NEW h \in Handles, NEW m \in msgs,
                ProcessFinal(p, h, m)
         PROVE  HandleNamesOneObject'
    <2>1. PICK hs : handshakes' = [handshakes EXCEPT ![p][h] = hs]
      BY <1>11 DEF ProcessFinal
    <2>. QED  BY <1>8, <1>11, <2>1 DEF ProcessFinal, Awaiting, Held
  <1>12. ASSUME NEW p \in Participants, NEW h \in Handles, NEW m \in msgs,
                RefuseMessage(p, h, m)
         PROVE  HandleNamesOneObject'
    <2>1. PICK hs : handshakes' = [handshakes EXCEPT ![p][h] = hs]
      BY <1>12 DEF RefuseMessage
    <2>2. UNCHANGED <<nextHandle, locals, remotes>> /\ Awaiting(p, h)
      BY <1>12 DEF RefuseMessage
    <2>3. handshakes[p][h] # Nil
      BY <2>2 DEF Awaiting, Held
    <2>. QED  BY <1>8, <2>1, <2>2, <2>3
  <1>13. ASSUME NEW p \in Participants, NEW h \in Handles, ReturnHandshakeHandle(p, h)
         PROVE  HandleNamesOneObject'
    <2>1. PICK hs : handshakes' = [handshakes EXCEPT ![p][h] = hs]
      BY <1>13 DEF ReturnHandshakeHandle
    <2>. QED  BY <1>8, <1>13, <2>1 DEF ReturnHandshakeHandle, Held
  <1> HIDE DEF HandleNamesOneObject, TypeOK
  <1>. QED
    BY <1>1, <1>2, <1>3, <1>4, <1>5, <1>6, <1>7, <1>9, <1>10, <1>11, <1>12, <1>13, Zenon
       DEF Next, Identities, Handshaking, Inbox

\* Remote identities are never unregistered for those who point to them, and stay
\* those of one peer.
RemotesPersist ==
  \A p \in Participants, h \in Handles :
    remotes[p][h] # Nil =>
      remotes'[p][h] # Nil /\ remotes'[p][h].guid = remotes[p][h].guid

\* Writing an identity of the same peer to its slot keeps all identities.
LEMMA UpdatePersist ==
  ASSUME TypeOK, NEW p \in Participants, NEW h \in Handles, NEW r \in RemoteIdentity,
         remotes[p][h] # Nil => r.guid = remotes[p][h].guid,
         remotes' = [remotes EXCEPT ![p][h] = r]
  PROVE  RemotesPersist
  BY NilAssumption DEF RemotesPersist, TypeOK

\* No step loses an identity or changes whom it stands for.
LEMMA StepPersists ==
  ASSUME TypeOK, HandleNamesOneObject, [Next]_vars
  PROVE  RemotesPersist
  <1>1. CASE UNCHANGED remotes
    BY <1>1 DEF RemotesPersist
  <1>2. ASSUME NEW p \in Participants, NEW l \in Handles, NEW guid \in Participants,
               NEW token \in AuthRequests(p, guid),
               ValidateNewRemoteIdentity(p, l, guid, token)
        PROVE  RemotesPersist
    <2>1. TakeHandle(p)
      BY <1>2 DEF ValidateNewRemoteIdentity
    <2>2. PICK r : remotes' = [remotes EXCEPT ![p][nextHandle[p]] = r]
      BY <1>2 DEF ValidateNewRemoteIdentity
    <2>3. nextHandle[p] \in Handles /\ remotes[p][nextHandle[p]] = Nil
      BY <2>1, FreshHandle
    <2>. QED  BY <2>2, <2>3 DEF RemotesPersist, TypeOK
  <1>3. ASSUME NEW p \in Participants, NEW rh \in Handles,
               NEW token \in AuthRequests(p, remotes[p][rh].guid),
               RevalidateRemoteIdentity(p, rh, token)
        PROVE  RemotesPersist
    <2> DEFINE r == ApplyAuthRequest(p, remotes[p][rh], token)
    <2>1. remotes[p][rh] \in RemoteIdentity
      BY <1>3 DEF RevalidateRemoteIdentity, Held, TypeOK
    <2>2. token.challenge \in Fresh \cup {Nil, Short}
      BY <2>1, AuthRequestsType DEF RemoteIdentity
    <2>3. r \in RemoteIdentity
      BY <2>1, <2>2, ApplyAuthRequestType
    <2>4. r.guid = remotes[p][rh].guid
      BY <2>1 DEF ApplyAuthRequest, RemoteIdentity
    <2>5. remotes' = [remotes EXCEPT ![p][rh] = r]
      BY <1>3 DEF RevalidateRemoteIdentity, TypeOK
    <2> HIDE DEF r
    <2>. QED  BY <2>3, <2>4, <2>5, UpdatePersist
  <1>4. ASSUME NEW p \in Participants, NEW h \in Handles, ReturnIdentityHandle(p, h)
        PROVE  RemotesPersist
    <2>1. CASE /\ Held(remotes, p, h)
               /\ remotes' = [remotes EXCEPT ![p][h].held = FALSE]
      <3> DEFINE r == [remotes[p][h] EXCEPT !.held = FALSE]
      <3>1. remotes[p][h] \in RemoteIdentity
        BY <2>1 DEF Held, TypeOK
      <3>2. r \in RemoteIdentity /\ r.guid = remotes[p][h].guid
        BY <3>1 DEF RemoteIdentity
      <3>3. remotes' = [remotes EXCEPT ![p][h] = r]
        BY <2>1 DEF TypeOK
      <3> HIDE DEF r
      <3>. QED  BY <3>2, <3>3, UpdatePersist
    <2>. QED  BY <1>1, <1>4, <2>1 DEF ReturnIdentityHandle
  <1>5. ASSUME NEW p \in Participants, Handshaking(p)
        PROVE  UNCHANGED remotes
    BY <1>5 DEF Handshaking, BeginHandshakeRequest, BeginHandshakeReply, ProcessReply,
         ProcessFinal, RefuseMessage, ReturnHandshakeHandle
  <1>6. ASSUME NEW p \in Participants, \/ ValidateLocalIdentity(p)
               \/ \E l \in Handles, perm \in Perms : SetPermissions(p, l, perm)
        PROVE  UNCHANGED remotes
    BY <1>6 DEF ValidateLocalIdentity, SetPermissions
  <1>7. CASE UNCHANGED vars
    BY <1>1, <1>7 DEF vars
  <1>. QED
    BY <1>1, <1>2, <1>3, <1>4, <1>5, <1>6, <1>7, Zenon DEF Next, Identities

\* A new handshake comes from one of the two begin_handshake operations.
LEMMA HandshakeBorn ==
  ASSUME TypeOK, HandleNamesOneObject, [Next]_vars,
         NEW p \in Participants, NEW h \in Handles,
         handshakes[p][h] = Nil, handshakes'[p][h] # Nil
  PROVE  /\ h = nextHandle[p]
         /\ \/ \E l, rh \in Handles : BeginHandshakeRequest(p, l, rh)
            \/ \E l, rh \in Handles, m \in Inbox(p) : BeginHandshakeReply(p, l, rh, m)
  <1>1. ASSUME NEW q \in Participants, NEW g \in Handles, NEW hs,
               handshakes[q][g] # Nil, handshakes' = [handshakes EXCEPT ![q][g] = hs]
        PROVE  FALSE
    BY <1>1 DEF TypeOK
  <1>2. ASSUME UNCHANGED handshakes PROVE FALSE
    BY <1>2
  <1>3. ASSUME NEW q \in Participants, Identities(q) PROVE FALSE
    BY <1>2, <1>3 DEF Identities, ValidateLocalIdentity, SetPermissions,
         ValidateNewRemoteIdentity, RevalidateRemoteIdentity, ReturnIdentityHandle
  <1>4. ASSUME NEW q \in Participants, NEW g \in Handles, NEW m \in Inbox(q),
               NEW fault \in Faults, ProcessReply(q, g, m, fault)
        PROVE  FALSE
    <2>1. PICK hs : handshakes' = [handshakes EXCEPT ![q][g] = hs]
      BY <1>4 DEF ProcessReply
    <2>2. handshakes[q][g] # Nil
      BY <1>4 DEF ProcessReply, Awaiting, Held
    <2>. QED  BY <1>1, <2>1, <2>2
  <1>5. ASSUME NEW q \in Participants, NEW g \in Handles, NEW m \in Inbox(q),
               ProcessFinal(q, g, m)
        PROVE  FALSE
    <2>1. PICK hs : handshakes' = [handshakes EXCEPT ![q][g] = hs]
      BY <1>5 DEF ProcessFinal
    <2>2. handshakes[q][g] # Nil
      BY <1>5 DEF ProcessFinal, Awaiting, Held
    <2>. QED  BY <1>1, <2>1, <2>2
  <1>6. ASSUME NEW q \in Participants, NEW g \in Handles, NEW m \in Inbox(q),
               RefuseMessage(q, g, m)
        PROVE  FALSE
    <2>1. PICK hs : handshakes' = [handshakes EXCEPT ![q][g] = hs]
      BY <1>6 DEF RefuseMessage
    <2>2. Awaiting(q, g)
      BY <1>6 DEF RefuseMessage
    <2>3. handshakes[q][g] # Nil
      BY <2>2 DEF Awaiting, Held
    <2>. QED  BY <1>1, <2>1, <2>3
  <1>7. ASSUME NEW q \in Participants, NEW g \in Handles, ReturnHandshakeHandle(q, g)
        PROVE  FALSE
    <2>1. PICK hs : handshakes' = [handshakes EXCEPT ![q][g] = hs]
      BY <1>7 DEF ReturnHandshakeHandle
    <2>2. handshakes[q][g] # Nil
      BY <1>7 DEF ReturnHandshakeHandle, Held
    <2>. QED  BY <1>1, <2>1, <2>2
  <1>8. ASSUME NEW q \in Participants, NEW hs,
               handshakes' = [handshakes EXCEPT ![q][nextHandle[q]] = hs]
        PROVE  q = p /\ h = nextHandle[p]
    BY <1>8 DEF TypeOK
  <1>9. ASSUME NEW q \in Participants, NEW l \in Handles, NEW rh \in Handles,
               BeginHandshakeRequest(q, l, rh)
        PROVE  q = p /\ h = nextHandle[p]
    <2>1. PICK hs : handshakes' = [handshakes EXCEPT ![q][nextHandle[q]] = hs]
      BY <1>9 DEF BeginHandshakeRequest
    <2>. QED  BY <1>8, <2>1
  <1>10. ASSUME NEW q \in Participants, NEW l \in Handles, NEW rh \in Handles,
                NEW m \in Inbox(q), BeginHandshakeReply(q, l, rh, m)
         PROVE  q = p /\ h = nextHandle[p]
    <2>1. PICK hs : handshakes' = [handshakes EXCEPT ![q][nextHandle[q]] = hs]
      BY <1>10 DEF BeginHandshakeReply
    <2>. QED  BY <1>8, <2>1
  <1>11. PICK q \in Participants : Handshaking(q)
    BY <1>2, <1>3, Zenon DEF Next, vars
  <1>12. CASE \E l, rh \in Handles : BeginHandshakeRequest(q, l, rh)
    BY <1>9, <1>12, Zenon
  <1>13. CASE \E l, rh \in Handles, m \in Inbox(q) : BeginHandshakeReply(q, l, rh, m)
    BY <1>10, <1>13, Zenon
  <1>. QED
    BY <1>4, <1>5, <1>6, <1>7, <1>11, <1>12, <1>13, Zenon DEF Handshaking

\* A handshake points to a remote identity that was registered when it began.
LEMMA RemoteKeptInductive ==
  ASSUME TypeOK, HandleNamesOneObject, RemoteKept, [Next]_vars
  PROVE  RemoteKept'
  <1>1. ASSUME NEW p \in Participants, NEW h \in Handles,
               handshakes[p][h] # Nil
        PROVE  remotes'[p][handshakes'[p][h].remote] # Nil
    <2>1. handshakes[p][h].remote \in Handles
      BY <1>1 DEF TypeOK, Handshake
    <2>2. handshakes'[p][h].remote = handshakes[p][h].remote
      BY <1>1, StepEvolves DEF AllEvolve, Evolves
    <2>. QED  BY <1>1, <2>1, <2>2, StepPersists DEF RemoteKept, RemotesPersist
  <1>2. ASSUME NEW p \in Participants, NEW h \in Handles,
               handshakes[p][h] = Nil, handshakes'[p][h] # Nil
        PROVE  remotes'[p][handshakes'[p][h].remote] # Nil
    <2>1. h = nextHandle[p]
      BY <1>2, HandshakeBorn
    <2>2. ASSUME NEW l \in Handles, NEW rh \in Handles, BeginHandshakeRequest(p, l, rh)
          PROVE  /\ handshakes'[p][h].remote = rh
                 /\ remotes[p][rh] # Nil /\ UNCHANGED remotes
      BY <2>1, <2>2 DEF BeginHandshakeRequest, RequestHandshake, Held, TypeOK
    <2>3. ASSUME NEW l \in Handles, NEW rh \in Handles, NEW m \in Inbox(p),
                 BeginHandshakeReply(p, l, rh, m)
          PROVE  /\ handshakes'[p][h].remote = rh
                 /\ remotes[p][rh] # Nil /\ UNCHANGED remotes
      BY <2>1, <2>3 DEF BeginHandshakeReply, ReplyHandshake, Held, TypeOK
    <2>4. \/ \E l, rh \in Handles : BeginHandshakeRequest(p, l, rh)
          \/ \E l, rh \in Handles, m \in Inbox(p) : BeginHandshakeReply(p, l, rh, m)
      BY <1>2, HandshakeBorn
    <2>. QED  BY <2>2, <2>3, <2>4
  <1>. QED  BY <1>1, <1>2 DEF RemoteKept

----------------------------------------------------------------------------
(* The first theorems. *)

Registered == TypeOK /\ HandleNamesOneObject /\ RemoteKept

\* The conjunction of the three parts is an invariant of the plugin.
LEMMA RegisteredInvariant == Spec => []Registered
  <1>1. Init => Registered
    <2>1. Init => TypeOK
      BY InitTypeOK
    <2>2. Init => HandleNamesOneObject /\ RemoteKept
      BY DEF Init, HandleNamesOneObject, RemoteKept
    <2>. QED  BY <2>1, <2>2 DEF Registered
  <1>2. Registered /\ [Next]_vars => Registered'
    BY TypeInductive, HandlesInductive, RemoteKeptInductive DEF Registered
  <1>. QED  BY <1>1, <1>2, PTL DEF Spec

\* In every reachable state the tables, the counter and the tokens are well formed,
\* for any number of participants and handles and any choice of faults.
THEOREM TypeCorrect == Spec => []TypeOK
  BY RegisteredInvariant, PTL DEF Registered

\* In every reachable state a handle names at most one object, which return_identity_handle
\* needs to erase the identity that was meant.
THEOREM HandlesCorrect == Spec => []HandleNamesOneObject
  BY RegisteredInvariant, PTL DEF Registered

\* No call of process_handshake, whatever token it is given, changes the outcome, the
\* challenges or the secret of a handshake that has ended.
THEOREM EndedHandshakesStayFrozen == Spec => EndedHandshakesAreFrozen
  <1> DEFINE Frozen ==
        \A p \in Participants, h \in Handles :
          /\ handshakes[p][h] # Nil /\ handshakes[p][h].state \in Terminal
               => handshakes'[p][h] = [handshakes[p][h] EXCEPT !.held = handshakes'[p][h].held]
          /\ handshakes[p][h] # Nil /\ ~ handshakes[p][h].held
               => handshakes'[p][h] = handshakes[p][h]
  <1>1. Registered /\ [Next]_vars => Frozen
    BY StepEvolves DEF Registered, AllEvolve, Evolves
  <1> HIDE DEF Frozen
  <1>2. Registered /\ [Next]_vars => [Frozen]_vars
    BY <1>1
  <1>3. Spec => [][Frozen]_vars
    BY <1>2, RegisteredInvariant, PTL DEF Spec
  <1>. QED  BY <1>3 DEF EndedHandshakesAreFrozen, Frozen

----------------------------------------------------------------------------
(* Agreement: what handshakes and signatures say. *)

HIDE BoundsAssumption
HIDE ParticipantsAssumption

InitiatorFields ==
  \A p \in Participants, h \in Handles :
    LET hs == handshakes[p][h] IN
    hs # Nil /\ hs.initiator =>
      /\ hs.public_key = [by |-> p, at |-> h]
      /\ hs.hash1.id = p
      /\ hs.hash1.kem = KemOf[p]
      /\ hs.state # "OK"
      /\ hs.state = "OK_FINAL_MESSAGE" =>
           /\ hs.remote_certificate = hs.hash2.id
           /\ hs.secret = Secret(hs.public_key, hs.ciphertext)
           /\ validate_remote_credentials(p, remotes[p][hs.remote].guid, hs.hash2)

ReplierFields ==
  \A p \in Participants, h \in Handles :
    LET hs == handshakes[p][h] IN
    hs # Nil /\ ~ hs.initiator =>
      /\ hs.ciphertext = [by |-> p, at |-> h, key |-> hs.public_key]
      /\ hs.secret = Secret(hs.public_key, hs.ciphertext)
      /\ hs.hash2.id = p
      /\ hs.hash2.kem = KemOf[p]
      /\ hs.state # "OK_FINAL_MESSAGE"
      /\ hs.remote_certificate = hs.hash1.id
      /\ validate_remote_credentials(p, remotes[p][hs.remote].guid, hs.hash1)

RepliesSigned ==
  \A m \in msgs : m.class = "Reply" =>
    \E g \in Handles :
      /\ IsReplier(m.src, g)
      /\ m.signature = sign(m.src, reply_transcript(handshakes[m.src][g]))

FinalsSigned ==
  \A m \in msgs : m.class = "Final" =>
    \E g \in Handles :
      /\ IsInitiator(m.src, g)
      /\ handshakes[m.src][g].state = "OK_FINAL_MESSAGE"
      /\ m.signature = sign(m.src, final_transcript(handshakes[m.src][g]))

AgreementInv ==
  /\ Registered
  /\ InitiatorFields
  /\ ReplierFields
  /\ RepliesSigned
  /\ FinalsSigned
  /\ InitiatorAgreement
  /\ ReplierAgreement

----------------------------------------------------------------------------
(* Which step makes a handshake succeed, and which step sends a token. *)

\* Only an accepted reply or an accepted final makes a waiting handshake succeed.
LEMMA HandshakeCompletes ==
  ASSUME Registered, [Next]_vars, NEW p \in Participants, NEW h \in Handles,
         handshakes[p][h] # Nil, handshakes[p][h].state \notin Succeeded,
         handshakes'[p][h].state \in Succeeded
  PROVE  \/ \E m \in Inbox(p), fault \in Faults : ProcessReply(p, h, m, fault)
         \/ \E m \in Inbox(p) : ProcessFinal(p, h, m)
  <1> USE DEF Registered
  <1>0. handshakes[p][h] \in Handshake
    BY DEF TypeOK
  <1>1. ASSUME handshakes'[p][h] = handshakes[p][h] PROVE FALSE
    BY <1>1
  <1>2. ASSUME NEW q \in Participants, Identities(q) PROVE FALSE
    BY <1>1, <1>2 DEF Identities, ValidateLocalIdentity, SetPermissions,
         ValidateNewRemoteIdentity, RevalidateRemoteIdentity, ReturnIdentityHandle
  <1>3. ASSUME NEW q \in Participants, TakeHandle(q), NEW hs,
               handshakes' = [handshakes EXCEPT ![q][nextHandle[q]] = hs]
        PROVE  FALSE
    <2>1. nextHandle[q] \in Handles /\ handshakes[q][nextHandle[q]] = Nil
      BY <1>3, FreshHandle
    <2>. QED  BY <1>1, <1>3, <2>1 DEF TypeOK
  <1>4. ASSUME NEW q \in Participants, NEW l \in Handles, NEW rh \in Handles,
               BeginHandshakeRequest(q, l, rh)
        PROVE  FALSE
    <2>1. PICK hs : handshakes' = [handshakes EXCEPT ![q][nextHandle[q]] = hs]
      BY <1>4 DEF BeginHandshakeRequest
    <2>2. TakeHandle(q)
      BY <1>4 DEF BeginHandshakeRequest
    <2>. QED  BY <1>3, <2>1, <2>2
  <1>5. ASSUME NEW q \in Participants, NEW l \in Handles, NEW rh \in Handles,
               NEW m \in Inbox(q), BeginHandshakeReply(q, l, rh, m)
        PROVE  FALSE
    <2>1. PICK hs : handshakes' = [handshakes EXCEPT ![q][nextHandle[q]] = hs]
      BY <1>5 DEF BeginHandshakeReply
    <2>2. TakeHandle(q)
      BY <1>5 DEF BeginHandshakeReply
    <2>. QED  BY <1>3, <2>1, <2>2
  <1>6. ASSUME NEW q \in Participants, NEW g \in Handles, NEW hs,
               handshakes' = [handshakes EXCEPT ![q][g] = hs]
        PROVE  q = p /\ g = h
    BY <1>1, <1>6 DEF TypeOK
  <1>7. ASSUME NEW q \in Participants, NEW g \in Handles, NEW m \in Inbox(q),
               NEW fault \in Faults, ProcessReply(q, g, m, fault)
        PROVE  q = p /\ g = h
    <2>1. PICK hs : handshakes' = [handshakes EXCEPT ![q][g] = hs]
      BY <1>7 DEF ProcessReply
    <2>. QED  BY <1>6, <2>1
  <1>8. ASSUME NEW q \in Participants, NEW g \in Handles, NEW m \in Inbox(q),
               ProcessFinal(q, g, m)
        PROVE  q = p /\ g = h
    <2>1. PICK hs : handshakes' = [handshakes EXCEPT ![q][g] = hs]
      BY <1>8 DEF ProcessFinal
    <2>. QED  BY <1>6, <2>1
  <1>9. ASSUME NEW q \in Participants, NEW g \in Handles, NEW m \in Inbox(q),
               RefuseMessage(q, g, m)
        PROVE  FALSE
    <2>1. PICK base : handshakes' =
                        [handshakes EXCEPT ![q][g] = [base EXCEPT !.state = "FAILED"]]
      BY <1>9 DEF RefuseMessage
    <2>2. q = p /\ g = h
      BY <1>6, <2>1
    <2>3. AllEvolve
      BY StepEvolves
    <2>4. handshakes'[p][h] \in Handshake
      BY <2>3 DEF AllEvolve, Evolves
    <2>5. handshakes'[p][h] = [base EXCEPT !.state = "FAILED"]
      BY <2>1, <2>2 DEF TypeOK
    <2>6. handshakes'[p][h].state = "FAILED"
      BY <2>4, <2>5 DEF Handshake
    <2>. QED  BY <2>6 DEF Succeeded
  <1>10. ASSUME NEW q \in Participants, NEW g \in Handles, ReturnHandshakeHandle(q, g)
         PROVE  FALSE
    <2> DEFINE d == [handshakes[q][g] EXCEPT !.held = FALSE]
    <2>1. handshakes' = [handshakes EXCEPT ![q][g] = d]
      BY <1>10 DEF ReturnHandshakeHandle, TypeOK
    <2>2. q = p /\ g = h
      BY <1>6, <2>1
    <2>3. d.state = handshakes[p][h].state
      BY <1>0, <2>2 DEF Handshake
    <2> HIDE DEF d
    <2>4. handshakes'[p][h] = d
      BY <2>1, <2>2 DEF TypeOK
    <2>. QED  BY <2>3, <2>4
  <1>11. PICK q \in Participants : Handshaking(q)
    BY <1>1, <1>2 DEF Next, vars
  <1> HIDE DEF Registered
  <1>12. CASE \E g \in Handles, m \in Inbox(q), fault \in Faults : ProcessReply(q, g, m, fault)
    BY <1>7, <1>12, Zenon
  <1>13. CASE \E g \in Handles, m \in Inbox(q) : ProcessFinal(q, g, m)
    BY <1>8, <1>13, Zenon
  <1>. QED
    BY <1>4, <1>5, <1>9, <1>10, <1>11, <1>12, <1>13, Zenon DEF Handshaking

\* A new reply was sent by begin_handshake_reply, a new final by process_handshake.
LEMMA TokenSent ==
  ASSUME [Next]_vars, NEW m \in msgs', m \notin msgs, m.class \in {"Reply", "Final"}
  PROVE  \E p \in Participants :
           \/ \E l, rh \in Handles, n \in Inbox(p) : BeginHandshakeReply(p, l, rh, n)
           \/ \E h \in Handles, n \in Inbox(p), fault \in Faults : ProcessReply(p, h, n, fault)
  <1>1. ASSUME UNCHANGED msgs PROVE FALSE
    BY <1>1
  <1>2. ASSUME NEW p \in Participants, NEW l \in Handles, NEW guid \in Participants,
               NEW token, ValidateNewRemoteIdentity(p, l, guid, token)
        PROVE  FALSE
    BY <1>2 DEF ValidateNewRemoteIdentity, AuthRequestSent
  <1>3. ASSUME NEW p \in Participants, NEW rh \in Handles,
               NEW token, RevalidateRemoteIdentity(p, rh, token)
        PROVE  FALSE
    BY <1>3 DEF RevalidateRemoteIdentity, AuthRequestSent
  <1>4. ASSUME NEW p \in Participants, NEW l \in Handles, NEW rh \in Handles,
               BeginHandshakeRequest(p, l, rh)
        PROVE  FALSE
    BY <1>4 DEF BeginHandshakeRequest
  <1>5. ASSUME NEW p \in Participants, Identities(p) PROVE FALSE
    BY <1>1, <1>2, <1>3, <1>5 DEF Identities, ValidateLocalIdentity, SetPermissions,
         ReturnIdentityHandle
  <1>6. PICK p \in Participants : Handshaking(p)
    BY <1>1, <1>5 DEF Next, vars
  <1>7. ASSUME NEW h \in Handles, NEW n \in Inbox(p), RefuseMessage(p, h, n)
        PROVE  FALSE
    BY <1>1, <1>7 DEF RefuseMessage
  <1>8. ASSUME NEW h \in Handles, NEW n \in Inbox(p), ProcessFinal(p, h, n)
        PROVE  FALSE
    BY <1>1, <1>8 DEF ProcessFinal
  <1>9. ASSUME NEW h \in Handles, ReturnHandshakeHandle(p, h) PROVE FALSE
    BY <1>1, <1>9 DEF ReturnHandshakeHandle
  <1>. QED  BY <1>4, <1>6, <1>7, <1>8, <1>9, Zenon DEF Handshaking

----------------------------------------------------------------------------
(* What a handshake's own fields say. *)

\* An accepted reply is the only step that completes an initiator.
LEMMA ReplyCompletes ==
  ASSUME Registered, NEW p \in Participants, NEW h \in Handles, NEW m \in msgs,
         NEW fault \in Faults, ProcessReply(p, h, m, fault)
  PROVE  LET old == handshakes[p][h]
             new  == handshakes'[p][h]
         IN  /\ m \in ReplyMsg /\ old \in Handshake /\ new \in Handshake
             /\ old # Nil /\ old.initiator /\ old.state = "PENDING_HANDSHAKE_MESSAGE"
             /\ new.state \in {"FAILED", "OK_FINAL_MESSAGE"}
             /\ new.remote = old.remote /\ new.initiator
             /\ new.public_key = old.public_key
             /\ new.hash1 = old.hash1 /\ new.hash2 = m.cred
             /\ new.challenge1 = old.challenge1 /\ new.challenge2 = m.challenge2
             /\ new.ciphertext = m.ciphertext
             /\ new.remote_certificate = m.cred.id
             /\ new.state = "OK_FINAL_MESSAGE" => new.secret = Secret(new.public_key, new.ciphertext)
             /\ validate_remote_credentials(p, remotes[p][old.remote].guid, m.cred)
             /\ m.challenge1 = old.challenge1
             /\ verify(reply_transcript(new), m.cred.id, m.signature)
  <1> DEFINE hs == handshakes[p][h]
             d == Decapsulated(hs, m, fault)
  <1>1. /\ hs # Nil /\ hs \in Handshake /\ hs.initiator
        /\ hs.state = "PENDING_HANDSHAKE_MESSAGE"
        /\ m \in ReplyMsg
    BY ClassType DEF ProcessReply, Awaiting, Held, TypeOK, Registered
  <1>2. handshakes'[p][h] = d
    BY DEF ProcessReply, TypeOK, Registered
  <1>3. /\ validate_remote_credentials(p, remotes[p][hs.remote].guid, m.cred)
        /\ ReplyAccepted(hs, remotes[p][hs.remote], m)
    BY DEF ProcessReply
  <1>4. /\ m.challenge1 = hs.challenge1
        /\ verify(reply_transcript(WithReply(hs, m)), m.cred.id, m.signature)
    BY <1>3 DEF ReplyAccepted, ReplyChallengesMatch
  <1>5. /\ d \in Handshake
        /\ d.state \in {"FAILED", "OK_FINAL_MESSAGE"}
        /\ d.remote = hs.remote /\ d.initiator
        /\ d.public_key = hs.public_key
        /\ d.hash1 = hs.hash1 /\ d.hash2 = m.cred
        /\ d.challenge1 = hs.challenge1 /\ d.challenge2 = m.challenge2
        /\ d.ciphertext = m.ciphertext
        /\ d.remote_certificate = m.cred.id
        /\ d.state = "OK_FINAL_MESSAGE" => d.secret = Secret(d.public_key, d.ciphertext)
    BY <1>1, DecapsulatedType
  <1>6. reply_transcript(d) = reply_transcript(WithReply(hs, m))
    BY <1>1, <1>5, WithReplyType DEF reply_transcript
  <1> HIDE DEF d
  <1>. QED  BY <1>1, <1>2, <1>3, <1>4, <1>5, <1>6


\* What an accepted final leaves in the handshake of its replier.
LEMMA FinalCompletes ==
  ASSUME Registered, NEW p \in Participants, NEW h \in Handles, NEW m \in msgs,
         ProcessFinal(p, h, m)
  PROVE  LET old == handshakes[p][h] IN
         /\ m \in FinalMsg /\ old \in Handshake /\ old # Nil /\ ~ old.initiator
         /\ handshakes'[p][h] = [old EXCEPT !.state = "OK"]
         /\ handshakes'[p][h].state = "OK"
         /\ verify(final_transcript(old), old.remote_certificate, m.signature)
  <1> DEFINE hs == handshakes[p][h]
  <1>1. /\ hs # Nil /\ hs \in Handshake /\ ~ hs.initiator /\ m \in FinalMsg
        /\ FinalAccepted(hs, m)
    BY ClassType DEF ProcessFinal, Awaiting, Held, TypeOK, Registered
  <1>2. handshakes'[p][h] = [hs EXCEPT !.state = "OK"]
    BY DEF ProcessFinal, TypeOK, Registered
  <1>3. [hs EXCEPT !.state = "OK"].state = "OK"
    BY <1>1 DEF Handshake
  <1>. QED  BY <1>1, <1>2, <1>3 DEF FinalAccepted

\* The fields of a handshake that begin_handshake_request has just created.
LEMMA BornRequest ==
  ASSUME Registered, NEW p \in Participants, NEW l \in Handles, NEW rh \in Handles,
         BeginHandshakeRequest(p, l, rh)
  PROVE  LET new == handshakes'[p][nextHandle[p]] IN
         /\ new.initiator /\ new.state = "PENDING_HANDSHAKE_MESSAGE"
         /\ new.public_key = [by |-> p, at |-> nextHandle[p]]
         /\ new.hash1.id = p /\ new.hash1.kem = KemOf[p]
  <1>1. nextHandle[p] \in Handles
    BY DEF BeginHandshakeRequest, TakeHandle
  <1>2. handshakes'[p][nextHandle[p]] = RequestHandshake(p, nextHandle[p], l, rh)
    BY <1>1 DEF BeginHandshakeRequest, TypeOK, Registered
  <1>. QED  BY <1>2 DEF RequestHandshake, Credentials

\* The fields of a handshake that begin_handshake_reply has just created.
LEMMA BornReply ==
  ASSUME Registered, NEW p \in Participants, NEW l \in Handles, NEW rh \in Handles,
         NEW m \in msgs, BeginHandshakeReply(p, l, rh, m)
  PROVE  LET new == handshakes'[p][nextHandle[p]] IN
         /\ nextHandle[p] \in Handles
         /\ new \in Handshake
         /\ ~ new.initiator /\ new.state = "PENDING_HANDSHAKE_MESSAGE" /\ new.remote = rh
         /\ new.ciphertext = [by |-> p, at |-> nextHandle[p], key |-> new.public_key]
         /\ new.secret = Secret(new.public_key, new.ciphertext)
         /\ new.hash2.id = p /\ new.hash2.kem = KemOf[p]
         /\ new.remote_certificate = new.hash1.id
         /\ validate_remote_credentials(p, remotes[p][rh].guid, new.hash1)
  <1> DEFINE h == nextHandle[p]
             d == ReplyHandshake(p, h, l, rh, m)
  <1>1. /\ h \in Handles /\ m \in ReqMsg
        /\ locals[p][l] \in LocalIdentity /\ remotes[p][rh] \in RemoteIdentity
    BY ClassType DEF BeginHandshakeReply, RequestAccepted, TakeHandle, Held, TypeOK, Registered
  <1>2. handshakes'[p][h] = d
    BY <1>1 DEF BeginHandshakeReply, TypeOK, Registered
  <1>3. d \in Handshake
    BY <1>1, ReplyHandshakeType
  <1>4. /\ ~ d.initiator /\ d.state = "PENDING_HANDSHAKE_MESSAGE" /\ d.remote = rh
        /\ d.ciphertext = [by |-> p, at |-> h, key |-> d.public_key]
        /\ d.secret = Secret(d.public_key, d.ciphertext)
        /\ d.hash2.id = p /\ d.hash2.kem = KemOf[p]
        /\ d.hash1 = m.cred
        /\ d.remote_certificate = d.hash1.id
    BY DEF ReplyHandshake, Credentials
  <1>5. validate_remote_credentials(p, remotes[p][rh].guid, m.cred)
    BY DEF BeginHandshakeReply, RequestAccepted
  <1> HIDE DEF d
  <1>. QED  BY <1>1, <1>2, <1>3, <1>4, <1>5

\* A handshake that has succeeded once has the fields it had, but perhaps held.
LEMMA SucceededKept ==
  ASSUME Registered, [Next]_vars, NEW p \in Participants, NEW h \in Handles,
         handshakes[p][h] # Nil, handshakes[p][h].state \in Succeeded
  PROVE  LET old == handshakes[p][h]
             new  == handshakes'[p][h]
         IN  /\ new # Nil
             /\ new.initiator = old.initiator /\ new.state = old.state /\ new.remote = old.remote
             /\ new.hash1 = old.hash1 /\ new.hash2 = old.hash2
             /\ new.challenge1 = old.challenge1 /\ new.challenge2 = old.challenge2
             /\ new.public_key = old.public_key /\ new.ciphertext = old.ciphertext
             /\ new.secret = old.secret /\ new.remote_certificate = old.remote_certificate
  <1> DEFINE hs == handshakes[p][h]
             d == handshakes'[p][h]
  <1>1. hs \in Handshake
    BY DEF Registered, TypeOK
  <1>2. d # Nil /\ d = [hs EXCEPT !.held = d.held]
    BY StepEvolves DEF Registered, AllEvolve, Evolves, Succeeded, Terminal
  <1>. QED  BY <1>1, <1>2 DEF Handshake

\* The session of a replier never changes once the reply is sent.
LEMMA ReplierKept ==
  ASSUME Registered, [Next]_vars, NEW p \in Participants, NEW h \in Handles,
         handshakes[p][h] # Nil, ~ handshakes[p][h].initiator
  PROVE  LET old == handshakes[p][h]
             new  == handshakes'[p][h]
         IN  /\ new # Nil /\ ~ new.initiator /\ new.remote = old.remote
             /\ new.hash1 = old.hash1 /\ new.hash2 = old.hash2
             /\ new.challenge1 = old.challenge1 /\ new.challenge2 = old.challenge2
             /\ new.public_key = old.public_key /\ new.ciphertext = old.ciphertext
             /\ new.secret = old.secret /\ new.remote_certificate = old.remote_certificate
  BY StepEvolves DEF Registered, AllEvolve, Evolves


\* The identity a handshake points to still names the same peer.
LEMMA GuidKept ==
  ASSUME Registered, [Next]_vars, NEW p \in Participants, NEW h \in Handles,
         handshakes[p][h] # Nil
  PROVE  remotes'[p][handshakes[p][h].remote].guid = remotes[p][handshakes[p][h].remote].guid
  <1>1. handshakes[p][h].remote \in Handles
    BY DEF Registered, TypeOK, Handshake
  <1>. QED  BY <1>1, StepPersists DEF Registered, RemoteKept, RemotesPersist

\* Every step keeps what is known of the fields of initiators.
LEMMA InitiatorFieldsInductive ==
  ASSUME Registered, InitiatorFields, [Next]_vars
  PROVE  InitiatorFields'
  <1> SUFFICES ASSUME NEW p \in Participants, NEW h \in Handles,
                      handshakes'[p][h] # Nil, handshakes'[p][h].initiator
               PROVE  LET d == handshakes'[p][h] IN
                      /\ d.public_key = [by |-> p, at |-> h]
                      /\ d.hash1.id = p /\ d.hash1.kem = KemOf[p]
                      /\ d.state # "OK"
                      /\ d.state = "OK_FINAL_MESSAGE" =>
                           /\ d.remote_certificate = d.hash2.id
                           /\ d.secret = Secret(d.public_key, d.ciphertext)
                           /\ validate_remote_credentials(p, remotes'[p][d.remote].guid, d.hash2)
    BY SMTT(30) DEF InitiatorFields, validate_remote_credentials, Secret
  <1>1. CASE handshakes[p][h] = Nil
    <2>1. /\ h = nextHandle[p]
          /\ \/ \E l, rh \in Handles : BeginHandshakeRequest(p, l, rh)
             \/ \E l, rh \in Handles, m \in Inbox(p) : BeginHandshakeReply(p, l, rh, m)
      BY <1>1, HandshakeBorn DEF Registered
    <2>2. PICK l \in Handles, rh \in Handles : BeginHandshakeRequest(p, l, rh)
      BY <2>1, BornReply DEF Inbox
    <2>. QED  BY <2>1, <2>2, BornRequest
  <1>2. CASE handshakes[p][h] # Nil
    <2> DEFINE hs == handshakes[p][h]
               d == handshakes'[p][h]
    <2>1. /\ d.public_key = hs.public_key /\ d.hash1 = hs.hash1
          /\ hs.initiator /\ d.remote = hs.remote
      BY <1>2, StepEvolves DEF AllEvolve, Evolves, Registered
    <2>2. /\ d.public_key = [by |-> p, at |-> h]
          /\ d.hash1.id = p /\ d.hash1.kem = KemOf[p]
      BY <1>2, <2>1 DEF InitiatorFields
    <2>3. CASE hs.state \in Succeeded
      BY <1>2, <2>1, <2>2, <2>3, SucceededKept, GuidKept DEF InitiatorFields, Succeeded
    <2>4. CASE hs.state \notin Succeeded /\ d.state \in Succeeded
      <3>1. ASSUME NEW m \in Inbox(p), ProcessFinal(p, h, m)
            PROVE  FALSE
        BY <2>1, <3>1, FinalCompletes DEF Inbox
      <3>2. PICK m \in Inbox(p), fault \in Faults : ProcessReply(p, h, m, fault)
        BY <1>2, <2>4, <3>1, HandshakeCompletes
      <3>. QED  BY <1>2, <2>2, <3>2, ReplyCompletes, GuidKept DEF Inbox
    <2>5. CASE d.state \notin Succeeded
      BY <2>2, <2>5 DEF Succeeded
    <2>. QED  BY <2>3, <2>4, <2>5
  <1>. QED  BY <1>1, <1>2

\* Every step keeps what is known of the fields of repliers.
LEMMA ReplierFieldsInductive ==
  ASSUME Registered, ReplierFields, [Next]_vars
  PROVE  ReplierFields'
  <1> SUFFICES ASSUME NEW p \in Participants, NEW h \in Handles,
                      handshakes'[p][h] # Nil, ~ handshakes'[p][h].initiator
               PROVE  LET d == handshakes'[p][h] IN
                      /\ d.ciphertext = [by |-> p, at |-> h, key |-> d.public_key]
                      /\ d.secret = Secret(d.public_key, d.ciphertext)
                      /\ d.hash2.id = p /\ d.hash2.kem = KemOf[p]
                      /\ d.state # "OK_FINAL_MESSAGE"
                      /\ d.remote_certificate = d.hash1.id
                      /\ validate_remote_credentials(p, remotes'[p][d.remote].guid, d.hash1)
    BY DEF ReplierFields, validate_remote_credentials, Secret
  <1>1. CASE handshakes[p][h] = Nil
    <2>1. /\ h = nextHandle[p]
          /\ \/ \E l, rh \in Handles : BeginHandshakeRequest(p, l, rh)
             \/ \E l, rh \in Handles, m \in Inbox(p) : BeginHandshakeReply(p, l, rh, m)
      BY <1>1, HandshakeBorn DEF Registered
    <2>2. PICK l \in Handles, rh \in Handles, m \in msgs : BeginHandshakeReply(p, l, rh, m)
      BY <2>1, BornRequest DEF Inbox
    <2>3. UNCHANGED remotes
      BY <2>2 DEF BeginHandshakeReply
    <2>. QED  BY <2>1, <2>2, <2>3, BornReply
  <1>2. CASE handshakes[p][h] # Nil
    <2> DEFINE hs == handshakes[p][h]
               d == handshakes'[p][h]
    <2>1. ~ hs.initiator
      BY <1>2, StepEvolves DEF AllEvolve, Evolves, Registered
    <2>2. /\ d.ciphertext = [by |-> p, at |-> h, key |-> d.public_key]
          /\ d.secret = Secret(d.public_key, d.ciphertext)
          /\ d.hash2.id = p /\ d.hash2.kem = KemOf[p]
          /\ d.remote_certificate = d.hash1.id
          /\ validate_remote_credentials(p, remotes'[p][d.remote].guid, d.hash1)
      BY <1>2, <2>1, ReplierKept, GuidKept, SMTT(30) DEF ReplierFields
    <2>3. d.state # "OK_FINAL_MESSAGE"
      <3>1. CASE hs.state \in Succeeded
        <4>1. hs.state # "OK_FINAL_MESSAGE"
          BY <1>2, <2>1 DEF ReplierFields
        <4>2. d.state = hs.state
          BY <1>2, <3>1, SucceededKept
        <4>. QED  BY <4>1, <4>2
      <3>2. CASE hs.state \notin Succeeded /\ d.state \in Succeeded
        <4>1. ASSUME NEW m \in Inbox(p), NEW fault \in Faults, ProcessReply(p, h, m, fault)
              PROVE  FALSE
          BY <2>1, <4>1, ReplyCompletes DEF Inbox
        <4>2. PICK m \in Inbox(p) : ProcessFinal(p, h, m)
          BY <1>2, <3>2, <4>1, HandshakeCompletes
        <4>. QED  BY <4>2, FinalCompletes DEF Inbox
      <3>3. CASE d.state \notin Succeeded
        BY <3>3 DEF Succeeded
      <3>. QED  BY <3>1, <3>2, <3>3
    <2>. QED  BY <2>2, <2>3
  <1>. QED  BY <1>1, <1>2


----------------------------------------------------------------------------
(* Every signature in flight covers a transcript its signer holds. *)

\* Every step keeps: a reply signature belongs to a handshake of its signer.
LEMMA RepliesSignedInductive ==
  ASSUME Registered, RepliesSigned, [Next]_vars
  PROVE  RepliesSigned'
  <1> SUFFICES ASSUME NEW m \in msgs', m.class = "Reply"
               PROVE  \E g \in Handles :
                        /\ handshakes'[m.src][g] # Nil /\ ~ handshakes'[m.src][g].initiator
                        /\ m.signature = sign(m.src, reply_transcript(handshakes'[m.src][g]))
    BY DEF RepliesSigned, IsReplier, sign, reply_transcript
  <1>1. CASE m \in msgs
    <2>1. PICK g \in Handles :
            /\ handshakes[m.src][g] # Nil /\ ~ handshakes[m.src][g].initiator
            /\ m.signature = sign(m.src, reply_transcript(handshakes[m.src][g]))
      BY <1>1 DEF RepliesSigned, IsReplier
    <2>2. m.src \in Participants
      BY <1>1, ClassType DEF Registered, ReplyMsg
    <2>3. /\ handshakes'[m.src][g] # Nil /\ ~ handshakes'[m.src][g].initiator
          /\ reply_transcript(handshakes'[m.src][g]) = reply_transcript(handshakes[m.src][g])
      BY <2>1, <2>2, ReplierKept DEF reply_transcript
    <2>. QED  BY <2>1, <2>3
  <1>2. CASE m \notin msgs
    <2>1. PICK p \in Participants :
            \/ \E l, rh \in Handles, n \in Inbox(p) : BeginHandshakeReply(p, l, rh, n)
            \/ \E h \in Handles, n \in Inbox(p), fault \in Faults : ProcessReply(p, h, n, fault)
      BY <1>2, TokenSent
    <2>2. ASSUME NEW h \in Handles, NEW n \in Inbox(p), NEW fault \in Faults,
                 ProcessReply(p, h, n, fault)
          PROVE  FALSE
      <3> DEFINE done  == Decapsulated(handshakes[p][h], n, fault)
                 token == [class |-> "Final", src |-> p,
                           dst |-> remotes[p][handshakes[p][h].remote].guid,
                           signature |-> sign(p, final_transcript(done))]
      <3>1. msgs' = msgs \/ msgs' = msgs \cup {token}
        BY <2>2, Zenon DEF ProcessReply
      <3>2. token.class = "Final"
        OBVIOUS
      <3> HIDE DEF token
      <3>. QED  BY <1>2, <3>1, <3>2
    <2>3. PICK l \in Handles, rh \in Handles, n \in msgs : BeginHandshakeReply(p, l, rh, n)
      BY <2>1, <2>2 DEF Inbox
    <2> DEFINE g == nextHandle[p]
               d == handshakes'[p][g]
    <2>4. g \in Handles /\ d \in Handshake /\ ~ d.initiator
      BY <2>3, BornReply
    <2>5. m.src = p /\ m.signature = sign(p, reply_transcript(d))
      <3>1. d = ReplyHandshake(p, g, l, rh, n)
        BY <2>3, <2>4 DEF BeginHandshakeReply, Registered, TypeOK
      <3>. QED  BY <1>2, <2>3, <3>1 DEF BeginHandshakeReply
    <2>6. d # Nil
      BY <2>4, NilAssumption
    <2>. QED  BY <2>4, <2>5, <2>6
  <1>. QED  BY <1>1, <1>2

\* Every step keeps: a final signature belongs to a completed initiator.
LEMMA FinalsSignedInductive ==
  ASSUME Registered, FinalsSigned, [Next]_vars
  PROVE  FinalsSigned'
  <1> SUFFICES ASSUME NEW m \in msgs', m.class = "Final"
               PROVE  \E g \in Handles :
                        /\ handshakes'[m.src][g] # Nil /\ handshakes'[m.src][g].initiator
                        /\ handshakes'[m.src][g].state = "OK_FINAL_MESSAGE"
                        /\ m.signature = sign(m.src, final_transcript(handshakes'[m.src][g]))
    BY DEF FinalsSigned, IsInitiator, sign, final_transcript
  <1>1. CASE m \in msgs
    <2>1. PICK g \in Handles :
            /\ handshakes[m.src][g] # Nil /\ handshakes[m.src][g].initiator
            /\ handshakes[m.src][g].state = "OK_FINAL_MESSAGE"
            /\ m.signature = sign(m.src, final_transcript(handshakes[m.src][g]))
      BY <1>1 DEF FinalsSigned, IsInitiator
    <2>2. m.src \in Participants
      BY <1>1, ClassType DEF Registered, FinalMsg
    <2>3. /\ handshakes'[m.src][g] # Nil /\ handshakes'[m.src][g].initiator
          /\ handshakes'[m.src][g].state = "OK_FINAL_MESSAGE"
          /\ final_transcript(handshakes'[m.src][g]) = final_transcript(handshakes[m.src][g])
      BY <2>1, <2>2, SucceededKept DEF final_transcript, Succeeded
    <2>. QED  BY <2>1, <2>3
  <1>2. CASE m \notin msgs
    <2>1. PICK p \in Participants :
            \/ \E l, rh \in Handles, n \in Inbox(p) : BeginHandshakeReply(p, l, rh, n)
            \/ \E h \in Handles, n \in Inbox(p), fault \in Faults : ProcessReply(p, h, n, fault)
      BY <1>2, TokenSent
    <2>2. ASSUME NEW l \in Handles, NEW rh \in Handles, NEW n \in Inbox(p),
                 BeginHandshakeReply(p, l, rh, n)
          PROVE  FALSE
      BY <1>2, <2>2 DEF BeginHandshakeReply
    <2>3. PICK h \in Handles, n \in msgs, fault \in Faults : ProcessReply(p, h, n, fault)
      BY <2>1, <2>2 DEF Inbox
    <2> DEFINE d == handshakes'[p][h]
    <2>4. d \in Handshake /\ d.initiator /\ d.state \in {"FAILED", "OK_FINAL_MESSAGE"}
      BY <2>3, ReplyCompletes
    <2>5. d = Decapsulated(handshakes[p][h], n, fault)
      BY <2>3 DEF ProcessReply, Registered, TypeOK
    <2>6. /\ d.state # "FAILED"
          /\ m.src = p /\ m.signature = sign(p, final_transcript(d))
      <3> DEFINE done  == Decapsulated(handshakes[p][h], n, fault)
                 token == [class |-> "Final", src |-> p,
                           dst |-> remotes[p][handshakes[p][h].remote].guid,
                           signature |-> sign(p, final_transcript(done))]
      <3>1. msgs' = IF done.state = "FAILED" THEN msgs ELSE msgs \cup {token}
        BY <2>3, Zenon DEF ProcessReply
      <3>2. /\ token.class = "Final" /\ token.src = p
            /\ token.signature = sign(p, final_transcript(done))
        OBVIOUS
      <3>3. done.state # "FAILED" /\ m = token
        <4> HIDE DEF token, done
        <4>. QED  BY <1>2, <3>1
      <3>. QED  BY <2>5, <3>2, <3>3, Zenon
    <2>7. d # Nil
      BY <2>4, NilAssumption
    <2>. QED  BY <2>4, <2>6, <2>7
  <1>. QED  BY <1>1, <1>2


----------------------------------------------------------------------------
(* Agreement. *)

\* InitiatorFields, for one handshake.
LEMMA InitiatorFieldsAt ==
  ASSUME InitiatorFields, NEW p \in Participants, NEW h \in Handles, IsInitiator(p, h)
  PROVE  LET old == handshakes[p][h] IN
         /\ old.public_key = [by |-> p, at |-> h]
         /\ old.hash1.id = p /\ old.hash1.kem = KemOf[p]
         /\ old.state # "OK"
         /\ old.state = "OK_FINAL_MESSAGE" =>
              /\ old.remote_certificate = old.hash2.id
              /\ old.secret = Secret(old.public_key, old.ciphertext)
              /\ validate_remote_credentials(p, remotes[p][old.remote].guid, old.hash2)
  BY DEF InitiatorFields, IsInitiator

\* ReplierFields, for one handshake.
LEMMA ReplierFieldsAt ==
  ASSUME ReplierFields, NEW p \in Participants, NEW h \in Handles, IsReplier(p, h)
  PROVE  LET old == handshakes[p][h] IN
         /\ old.ciphertext = [by |-> p, at |-> h, key |-> old.public_key]
         /\ old.secret = Secret(old.public_key, old.ciphertext)
         /\ old.hash2.id = p /\ old.hash2.kem = KemOf[p]
         /\ old.state # "OK_FINAL_MESSAGE"
         /\ old.remote_certificate = old.hash1.id
         /\ validate_remote_credentials(p, remotes[p][old.remote].guid, old.hash1)
  BY DEF ReplierFields, IsReplier

\* The parts of these that the two ends compare.
LEMMA InitiatorHolds ==
  ASSUME InitiatorFields, NEW p \in Participants, NEW h \in Handles, IsInitiator(p, h)
  PROVE  /\ handshakes[p][h].hash1.id = p
         /\ handshakes[p][h].hash1.kem = KemOf[p]
         /\ handshakes[p][h].state = "OK_FINAL_MESSAGE" =>
              /\ handshakes[p][h].remote_certificate = handshakes[p][h].hash2.id
              /\ handshakes[p][h].secret =
                   Secret(handshakes[p][h].public_key, handshakes[p][h].ciphertext)
              /\ validate_remote_credentials(p, remotes[p][handshakes[p][h].remote].guid,
                                             handshakes[p][h].hash2)
  <1>1. LET x == handshakes[p][h] IN
        /\ x.public_key = [by |-> p, at |-> h]
        /\ x.hash1.id = p /\ x.hash1.kem = KemOf[p]
        /\ x.state # "OK"
        /\ x.state = "OK_FINAL_MESSAGE" =>
             /\ x.remote_certificate = x.hash2.id
             /\ x.secret = Secret(x.public_key, x.ciphertext)
             /\ validate_remote_credentials(p, remotes[p][x.remote].guid, x.hash2)
    BY InitiatorFieldsAt
  <1>. QED  BY <1>1

\* What a replier knows of itself and of the peer it checked.
LEMMA ReplierHolds ==
  ASSUME ReplierFields, NEW p \in Participants, NEW h \in Handles, IsReplier(p, h)
  PROVE  /\ handshakes[p][h].hash2.id = p
         /\ handshakes[p][h].hash2.kem = KemOf[p]
         /\ handshakes[p][h].remote_certificate = handshakes[p][h].hash1.id
         /\ handshakes[p][h].secret =
              Secret(handshakes[p][h].public_key, handshakes[p][h].ciphertext)
         /\ validate_remote_credentials(p, remotes[p][handshakes[p][h].remote].guid,
                                        handshakes[p][h].hash1)
  <1>1. LET x == handshakes[p][h] IN
        /\ x.ciphertext = [by |-> p, at |-> h, key |-> x.public_key]
        /\ x.secret = Secret(x.public_key, x.ciphertext)
        /\ x.hash2.id = p /\ x.hash2.kem = KemOf[p]
        /\ x.state # "OK_FINAL_MESSAGE"
        /\ x.remote_certificate = x.hash1.id
        /\ validate_remote_credentials(p, remotes[p][x.remote].guid, x.hash1)
    BY ReplierFieldsAt
  <1>. QED  BY <1>1

\* An accepted reply names a replier that holds the very session it completes.
LEMMA InitiatorMeets ==
  ASSUME Registered, InitiatorFields, ReplierFields, RepliesSigned,
         NEW p \in Participants, NEW h \in Handles, NEW m \in msgs,
         NEW fault \in Faults, ProcessReply(p, h, m, fault),
         handshakes'[p][h].state = "OK_FINAL_MESSAGE"
  PROVE  \E q \in Participants, g \in Handles :
           /\ IsReplier(q, g)
           /\ ReplierSession(q, g) =
                Session(p, handshakes'[p][h].remote_certificate, handshakes'[p][h])
  <1> DEFINE hs == handshakes[p][h]
             d == handshakes'[p][h]
  <1>1. /\ m \in ReplyMsg /\ hs # Nil /\ hs.initiator
        /\ d.public_key = hs.public_key
        /\ d.hash1 = hs.hash1 /\ d.hash2 = m.cred
        /\ d.remote_certificate = m.cred.id
        /\ d.secret = Secret(d.public_key, d.ciphertext)
        /\ verify(reply_transcript(d), m.cred.id, m.signature)
    BY ReplyCompletes
  <1>2. PICK q \in Participants, g \in Handles :
          IsReplier(q, g) /\ m.signature = sign(q, reply_transcript(handshakes[q][g]))
    BY <1>1 DEF RepliesSigned, ReplyMsg
  <1> DEFINE o == handshakes[q][g]
  <1>4. q = m.cred.id /\ reply_transcript(o) = reply_transcript(d)
    BY <1>1, <1>2 DEF verify, sign
  <1>5. /\ o.hash1 = d.hash1 /\ o.hash2 = d.hash2
        /\ o.challenge1 = d.challenge1 /\ o.challenge2 = d.challenge2
        /\ o.public_key = d.public_key /\ o.ciphertext = d.ciphertext
    BY <1>4 DEF reply_transcript
  <1>6. o.secret = Secret(o.public_key, o.ciphertext) /\ o.remote_certificate = o.hash1.id
    BY <1>2, ReplierHolds
  <1>7. d.hash1.id = p
    <2>1. hs.hash1.id = p
      BY <1>1, InitiatorFieldsAt, Zenon DEF IsInitiator
    <2>. QED  BY <1>1, <2>1
  <1>8. ReplierSession(q, g) = Session(p, d.remote_certificate, d)
    BY <1>1, <1>4, <1>5, <1>6, <1>7 DEF ReplierSession, Session
  <1>. QED  BY <1>2, <1>8

\* Every step keeps the agreement of the initiators.
LEMMA InitiatorAgreementInductive ==
  ASSUME Registered, InitiatorFields, ReplierFields, RepliesSigned, InitiatorAgreement,
         InitiatorFields', [Next]_vars
  PROVE  InitiatorAgreement'
  <1> SUFFICES ASSUME NEW p \in Participants, NEW h \in Handles,
                      handshakes'[p][h] # Nil, handshakes'[p][h].initiator,
                      handshakes'[p][h].state = "OK_FINAL_MESSAGE"
               PROVE  \E q \in Participants, g \in Handles :
                        /\ handshakes'[q][g] # Nil /\ ~ handshakes'[q][g].initiator
                        /\ Session(handshakes'[q][g].remote_certificate, q, handshakes'[q][g]) =
                             Session(p, handshakes'[p][h].remote_certificate, handshakes'[p][h])
    BY DEF InitiatorAgreement, IsInitiator, IsReplier, InitiatorSession, ReplierSession, Session
  <1> DEFINE hs == handshakes[p][h]
             d == handshakes'[p][h]
  <1>1. hs # Nil
    <2> SUFFICES ASSUME hs = Nil PROVE FALSE
      OBVIOUS
    <2>1. /\ h = nextHandle[p]
          /\ \/ \E l, rh \in Handles : BeginHandshakeRequest(p, l, rh)
             \/ \E l, rh \in Handles, m \in Inbox(p) : BeginHandshakeReply(p, l, rh, m)
      BY HandshakeBorn DEF Registered
    <2>. QED  BY <2>1, BornRequest, BornReply DEF Inbox
  <1>2. \E q \in Participants, g \in Handles :
          /\ IsReplier(q, g)
          /\ ReplierSession(q, g) = Session(p, d.remote_certificate, d)
    <2>1. CASE hs.state \in Succeeded
      <3>1. /\ hs.initiator /\ hs.state = "OK_FINAL_MESSAGE"
            /\ Session(p, d.remote_certificate, d) = InitiatorSession(p, h)
        BY <1>1, <2>1, SucceededKept DEF Session, InitiatorSession
      <3>. QED  BY <1>1, <3>1 DEF InitiatorAgreement, IsInitiator
    <2>2. CASE hs.state \notin Succeeded
      <3>1. d.state \in Succeeded
        BY DEF Succeeded
      <3>2. ASSUME NEW m \in Inbox(p), ProcessFinal(p, h, m)
            PROVE  FALSE
        BY <3>2, FinalCompletes DEF Inbox
      <3>3. PICK m \in Inbox(p), fault \in Faults : ProcessReply(p, h, m, fault)
        BY <1>1, <2>2, <3>1, <3>2, HandshakeCompletes
      <3>. QED  BY <3>3, InitiatorMeets DEF Inbox
    <2>. QED  BY <2>1, <2>2
  <1>3. PICK q \in Participants, g \in Handles :
          /\ IsReplier(q, g)
          /\ ReplierSession(q, g) = Session(p, d.remote_certificate, d)
    BY <1>2
  <1>4. /\ handshakes'[q][g] # Nil /\ ~ handshakes'[q][g].initiator
        /\ Session(handshakes'[q][g].remote_certificate, q, handshakes'[q][g])
             = ReplierSession(q, g)
    BY <1>3, ReplierKept DEF IsReplier, ReplierSession, Session
  <1>. QED  BY <1>3, <1>4

\* An accepted final token names an initiator that completed the very session.
LEMMA ReplierMeets ==
  ASSUME Registered, InitiatorFields, ReplierFields, FinalsSigned,
         NEW p \in Participants, NEW h \in Handles, NEW m \in msgs, ProcessFinal(p, h, m)
  PROVE  \E q \in Participants, g \in Handles :
           /\ IsInitiator(q, g) /\ handshakes[q][g].state = "OK_FINAL_MESSAGE"
           /\ InitiatorSession(q, g) = ReplierSession(p, h)
  <1> DEFINE hs == handshakes[p][h]
  <1>1. /\ m \in FinalMsg /\ hs # Nil /\ ~ hs.initiator
        /\ verify(final_transcript(hs), hs.remote_certificate, m.signature)
    BY FinalCompletes
  <1>2. PICK q \in Participants, g \in Handles :
          /\ IsInitiator(q, g) /\ handshakes[q][g].state = "OK_FINAL_MESSAGE"
          /\ m.signature = sign(q, final_transcript(handshakes[q][g]))
    BY <1>1 DEF FinalsSigned, FinalMsg
  <1> DEFINE o == handshakes[q][g]
  <1>4. q = hs.remote_certificate /\ final_transcript(o) = final_transcript(hs)
    BY <1>1, <1>2 DEF verify, sign
  <1>5. /\ o.hash1 = hs.hash1 /\ o.hash2 = hs.hash2
        /\ o.challenge1 = hs.challenge1 /\ o.challenge2 = hs.challenge2
        /\ o.public_key = hs.public_key /\ o.ciphertext = hs.ciphertext
    BY <1>4 DEF final_transcript
  <1>6. o.secret = Secret(o.public_key, o.ciphertext) /\ o.remote_certificate = o.hash2.id
    BY <1>2, InitiatorHolds
  <1>7. hs.secret = Secret(hs.public_key, hs.ciphertext) /\ hs.hash2.id = p
    BY <1>1 DEF ReplierFields
  <1>8. InitiatorSession(q, g) = ReplierSession(p, h)
    BY <1>4, <1>5, <1>6, <1>7 DEF InitiatorSession, ReplierSession, Session
  <1>. QED  BY <1>2, <1>8

\* Every step keeps the agreement of the repliers.
LEMMA ReplierAgreementInductive ==
  ASSUME Registered, InitiatorFields, ReplierFields, FinalsSigned, ReplierAgreement,
         [Next]_vars
  PROVE  ReplierAgreement'
  <1> SUFFICES ASSUME NEW p \in Participants, NEW h \in Handles,
                      handshakes'[p][h] # Nil, ~ handshakes'[p][h].initiator,
                      handshakes'[p][h].state = "OK"
               PROVE  \E q \in Participants, g \in Handles :
                        /\ handshakes'[q][g] # Nil /\ handshakes'[q][g].initiator
                        /\ handshakes'[q][g].state = "OK_FINAL_MESSAGE"
                        /\ Session(q, handshakes'[q][g].remote_certificate, handshakes'[q][g]) =
                             Session(handshakes'[p][h].remote_certificate, p, handshakes'[p][h])
    BY DEF ReplierAgreement, IsInitiator, IsReplier, InitiatorSession, ReplierSession, Session
  <1> DEFINE hs == handshakes[p][h]
             d == handshakes'[p][h]
  <1>1. hs # Nil
    <2> SUFFICES ASSUME hs = Nil PROVE FALSE
      OBVIOUS
    <2>1. /\ h = nextHandle[p]
          /\ \/ \E l, rh \in Handles : BeginHandshakeRequest(p, l, rh)
             \/ \E l, rh \in Handles, m \in Inbox(p) : BeginHandshakeReply(p, l, rh, m)
      BY HandshakeBorn DEF Registered
    <2>. QED  BY <2>1, BornRequest, BornReply DEF Inbox
  <1>2. hs \in Handshake /\ ~ hs.initiator
    <2>1. hs \in Handshake
      BY <1>1 DEF Registered, TypeOK
    <2>2. d.initiator = hs.initiator
      BY <1>1, StepEvolves DEF Registered, AllEvolve, Evolves
    <2>. QED  BY <2>1, <2>2
  <1>3. Session(d.remote_certificate, p, d) = ReplierSession(p, h)
    BY <1>1, <1>2, ReplierKept DEF ReplierSession, Session
  <1>4. \E q \in Participants, g \in Handles :
          /\ IsInitiator(q, g) /\ handshakes[q][g].state = "OK_FINAL_MESSAGE"
          /\ InitiatorSession(q, g) = ReplierSession(p, h)
    <2>1. CASE hs.state \in Succeeded
      <3>1. hs.state = "OK"
        BY <1>1, <2>1, SucceededKept
      <3>. QED  BY <1>1, <1>2, <3>1 DEF ReplierAgreement, IsReplier
    <2>2. CASE hs.state \notin Succeeded
      <3>1. d.state \in Succeeded
        BY DEF Succeeded
      <3>2. ASSUME NEW m \in Inbox(p), NEW fault \in Faults, ProcessReply(p, h, m, fault)
            PROVE  FALSE
        BY <1>2, <3>2, ReplyCompletes DEF Inbox
      <3>3. PICK m \in Inbox(p) : ProcessFinal(p, h, m)
        BY <1>1, <2>2, <3>1, <3>2, HandshakeCompletes
      <3>. QED  BY <3>3, ReplierMeets DEF Inbox
    <2>. QED  BY <2>1, <2>2
  <1>5. PICK q \in Participants, g \in Handles :
          /\ IsInitiator(q, g) /\ handshakes[q][g].state = "OK_FINAL_MESSAGE"
          /\ InitiatorSession(q, g) = ReplierSession(p, h)
    BY <1>4
  <1>6. /\ handshakes'[q][g] # Nil /\ handshakes'[q][g].initiator
        /\ handshakes'[q][g].state = "OK_FINAL_MESSAGE"
        /\ Session(q, handshakes'[q][g].remote_certificate, handshakes'[q][g])
             = InitiatorSession(q, g)
    BY <1>5, SucceededKept DEF IsInitiator, InitiatorSession, Session, Succeeded
  <1>. QED  BY <1>3, <1>5, <1>6


----------------------------------------------------------------------------
(* The invariant, and what follows from it. *)

\* Every step of the plugins keeps the inductive invariant of the agreement.
LEMMA AgreementInductive == AgreementInv /\ [Next]_vars => AgreementInv'
  <1> SUFFICES ASSUME AgreementInv, [Next]_vars PROVE AgreementInv'
    OBVIOUS
  <1> USE DEF AgreementInv
  <1>1. Registered'
    BY TypeInductive, HandlesInductive, RemoteKeptInductive DEF Registered
  <1>2. InitiatorFields' /\ ReplierFields'
    BY InitiatorFieldsInductive, ReplierFieldsInductive
  <1>3. RepliesSigned' /\ FinalsSigned'
    BY RepliesSignedInductive, FinalsSignedInductive
  <1>4. InitiatorAgreement' /\ ReplierAgreement'
    BY <1>2, InitiatorAgreementInductive, ReplierAgreementInductive
  <1>. QED  BY <1>1, <1>2, <1>3, <1>4

\* The inductive invariant of the agreement holds always.
LEMMA AgreementInvariant == Spec => []AgreementInv
  <1>1. Init => AgreementInv
    <2> SUFFICES ASSUME Init PROVE AgreementInv
      OBVIOUS
    <2>1. Registered
      <3>1. TypeOK
        BY InitTypeOK
      <3>2. HandleNamesOneObject /\ RemoteKept
        BY DEF Init, HandleNamesOneObject, RemoteKept
      <3>. QED  BY <3>1, <3>2 DEF Registered
    <2>2. \A p \in Participants, h \in Handles : handshakes[p][h] = Nil
      BY DEF Init
    <2>3. InitiatorFields /\ ReplierFields
      BY <2>2 DEF InitiatorFields, ReplierFields
    <2>4. RepliesSigned /\ FinalsSigned
      BY DEF Init, RepliesSigned, FinalsSigned
    <2>5. InitiatorAgreement /\ ReplierAgreement
      BY <2>2 DEF InitiatorAgreement, ReplierAgreement, IsInitiator, IsReplier
    <2>. QED  BY <2>1, <2>3, <2>4, <2>5 DEF AgreementInv
  <1>. QED  BY <1>1, AgreementInductive, PTL DEF Spec

\* However many participants and handshakes there are and whatever tokens are lost,
\* repeated or delivered to another handshake: an initiator told
\* VALIDATION_OK_FINAL_MESSAGE shares its session with the peer it names.
THEOREM InitiatorsAgree == Spec => []InitiatorAgreement
  BY AgreementInvariant, PTL DEF AgreementInv

\* Likewise a replier told VALIDATION_OK: its peer has completed this very session.
THEOREM RepliersAgree == Spec => []ReplierAgreement
  BY AgreementInvariant, PTL DEF AgreementInv

\* Equal secrets come from equal key pairs and equal ciphertexts.
LEMMA SecretInjective ==
  ASSUME NEW k1, NEW c1, NEW k2, NEW c2, Secret(k1, c1) = Secret(k2, c2)
  PROVE  k1 = k2 /\ c1 = c2
  <1>1. Secret(k1, c1).key = k1 /\ Secret(k1, c1).ct = c1
    BY DEF Secret
  <1>2. Secret(k2, c2).key = k2 /\ Secret(k2, c2).ct = c2
    BY DEF Secret
  <1>. QED  BY <1>1, <1>2

\* The replier that an initiator which succeeded agrees with, and its fields.
LEMMA InitiatorPartner ==
  ASSUME AgreementInv, NEW p \in Participants, NEW h \in Handles,
         IsInitiator(p, h), handshakes[p][h].state = "OK_FINAL_MESSAGE"
  PROVE  \E q \in Participants, g \in Handles :
           /\ IsReplier(q, g)
           /\ q = handshakes[p][h].remote_certificate
           /\ handshakes[q][g].hash2 = handshakes[p][h].hash2
           /\ handshakes[q][g].public_key = handshakes[p][h].public_key
           /\ handshakes[q][g].ciphertext = handshakes[p][h].ciphertext
  <1>1. PICK q \in Participants, g \in Handles :
          IsReplier(q, g) /\ ReplierSession(q, g) = InitiatorSession(p, h)
    BY DEF AgreementInv, InitiatorAgreement
  <1>2. /\ q = handshakes[p][h].remote_certificate
        /\ handshakes[q][g].hash2 = handshakes[p][h].hash2
        /\ handshakes[q][g].secret = handshakes[p][h].secret
    BY <1>1 DEF ReplierSession, InitiatorSession, Session
  <1>3. handshakes[q][g].secret =
          Secret(handshakes[q][g].public_key, handshakes[q][g].ciphertext)
    BY <1>1, ReplierHolds DEF AgreementInv
  <1>4. handshakes[p][h].secret =
          Secret(handshakes[p][h].public_key, handshakes[p][h].ciphertext)
    BY InitiatorHolds DEF AgreementInv
  <1>5. /\ handshakes[q][g].public_key = handshakes[p][h].public_key
        /\ handshakes[q][g].ciphertext = handshakes[p][h].ciphertext
    <2>1. Secret(handshakes[q][g].public_key, handshakes[q][g].ciphertext) =
            Secret(handshakes[p][h].public_key, handshakes[p][h].ciphertext)
      BY <1>2, <1>3, <1>4
    <2> DEFINE k1 == handshakes[q][g].public_key
               c1 == handshakes[q][g].ciphertext
               k2 == handshakes[p][h].public_key
               c2 == handshakes[p][h].ciphertext
    <2>2. Secret(k1, c1) = Secret(k2, c2)
      BY <2>1
    <2> HIDE DEF k1, c1, k2, c2
    <2>3. k1 = k2 /\ c1 = c2
      BY <2>2, SecretInjective
    <2>. QED  BY <2>3 DEF k1, c1, k2, c2
  <1>. QED  BY <1>1, <1>2, <1>5

\* The initiator that a replier which succeeded agrees with, and its fields.
LEMMA ReplierPartner ==
  ASSUME AgreementInv, NEW p \in Participants, NEW h \in Handles,
         IsReplier(p, h), handshakes[p][h].state = "OK"
  PROVE  \E q \in Participants, g \in Handles :
           /\ IsInitiator(q, g)
           /\ q = handshakes[p][h].remote_certificate
           /\ handshakes[q][g].hash1 = handshakes[p][h].hash1
           /\ handshakes[q][g].public_key = handshakes[p][h].public_key
           /\ handshakes[q][g].ciphertext = handshakes[p][h].ciphertext
  <1>1. PICK q \in Participants, g \in Handles :
          /\ IsInitiator(q, g) /\ handshakes[q][g].state = "OK_FINAL_MESSAGE"
          /\ InitiatorSession(q, g) = ReplierSession(p, h)
    BY DEF AgreementInv, ReplierAgreement
  <1>2. /\ q = handshakes[p][h].remote_certificate
        /\ handshakes[q][g].hash1 = handshakes[p][h].hash1
        /\ handshakes[q][g].secret = handshakes[p][h].secret
    BY <1>1 DEF ReplierSession, InitiatorSession, Session
  <1>3. handshakes[q][g].secret =
          Secret(handshakes[q][g].public_key, handshakes[q][g].ciphertext)
    BY <1>1, InitiatorHolds DEF AgreementInv
  <1>4. handshakes[p][h].secret =
          Secret(handshakes[p][h].public_key, handshakes[p][h].ciphertext)
    BY ReplierHolds DEF AgreementInv
  <1>5. /\ handshakes[q][g].public_key = handshakes[p][h].public_key
        /\ handshakes[q][g].ciphertext = handshakes[p][h].ciphertext
    <2>1. Secret(handshakes[q][g].public_key, handshakes[q][g].ciphertext) =
            Secret(handshakes[p][h].public_key, handshakes[p][h].ciphertext)
      BY <1>2, <1>3, <1>4
    <2> DEFINE k1 == handshakes[q][g].public_key
               c1 == handshakes[q][g].ciphertext
               k2 == handshakes[p][h].public_key
               c2 == handshakes[p][h].ciphertext
    <2>2. Secret(k1, c1) = Secret(k2, c2)
      BY <2>1
    <2> HIDE DEF k1, c1, k2, c2
    <2>3. k1 = k2 /\ c1 = c2
      BY <2>2, SecretInjective
    <2>. QED  BY <2>3 DEF k1, c1, k2, c2
  <1>. QED  BY <1>1, <1>2, <1>5

\* An initiator never succeeds as a replier does, nor the other way round.
LEMMA SuccessByRole ==
  ASSUME AgreementInv, NEW p \in Participants, NEW h \in Handles,
         handshakes[p][h] # Nil, handshakes[p][h].state \in Succeeded
  PROVE  /\ handshakes[p][h].initiator =>
              IsInitiator(p, h) /\ handshakes[p][h].state = "OK_FINAL_MESSAGE"
         /\ ~ handshakes[p][h].initiator =>
              IsReplier(p, h) /\ handshakes[p][h].state = "OK"
  <1>1. CASE handshakes[p][h].initiator
    <2>1. IsInitiator(p, h)
      BY <1>1 DEF IsInitiator
    <2>2. handshakes[p][h].state # "OK"
      BY <1>1 DEF AgreementInv, InitiatorFields
    <2>. QED  BY <1>1, <2>1, <2>2 DEF Succeeded
  <1>2. CASE ~ handshakes[p][h].initiator
    <2>1. IsReplier(p, h)
      BY <1>2 DEF IsReplier
    <2>2. handshakes[p][h].state # "OK_FINAL_MESSAGE"
      BY <1>2 DEF AgreementInv, ReplierFields
    <2>. QED  BY <1>2, <2>1, <2>2 DEF Succeeded
  <1>. QED  BY <1>1, <1>2

\* Mismatches fail closed for any number of participants and any configurations: a
\* handshake succeeds only between peers with one KEM and one CA.
THEOREM MismatchesFail == Spec => []MismatchFailsClosed
  <1>1. AgreementInv => MismatchFailsClosed
    <2> SUFFICES ASSUME AgreementInv, NEW p \in Participants, NEW h \in Handles,
                        handshakes[p][h] # Nil, handshakes[p][h].state \in Succeeded
                 PROVE  LET q == handshakes[p][h].remote_certificate IN
                        /\ KemOf[p] = KemOf[q] /\ CaOf[p] = CaOf[q]
                        /\ remotes[p][handshakes[p][h].remote].guid = q
      BY DEF MismatchFailsClosed
    <2> DEFINE hs == handshakes[p][h]
    <2>1. CASE hs.initiator
      <3>1. IsInitiator(p, h) /\ hs.state = "OK_FINAL_MESSAGE"
        BY <2>1, SuccessByRole
      <3>2. PICK q \in Participants, g \in Handles :
              /\ IsReplier(q, g) /\ q = hs.remote_certificate
              /\ handshakes[q][g].hash2 = hs.hash2
        BY <3>1, InitiatorPartner
      <3>3. hs.hash2.kem = KemOf[q]
        BY <3>2, ReplierHolds DEF AgreementInv
      <3>4. /\ validate_remote_credentials(p, remotes[p][hs.remote].guid, hs.hash2)
            /\ hs.remote_certificate = hs.hash2.id
        BY <3>1, InitiatorHolds DEF AgreementInv
      <3>. QED  BY <3>2, <3>3, <3>4 DEF validate_remote_credentials
    <2>2. CASE ~ hs.initiator
      <3>1. IsReplier(p, h) /\ hs.state = "OK"
        BY <2>2, SuccessByRole
      <3>2. PICK q \in Participants, g \in Handles :
              /\ IsInitiator(q, g) /\ q = hs.remote_certificate
              /\ handshakes[q][g].hash1 = hs.hash1
        BY <3>1, ReplierPartner
      <3>3. hs.hash1.kem = KemOf[q]
        BY <3>2, InitiatorHolds DEF AgreementInv
      <3>4. /\ validate_remote_credentials(p, remotes[p][hs.remote].guid, hs.hash1)
            /\ hs.remote_certificate = hs.hash1.id
        BY <3>1, ReplierHolds DEF AgreementInv
      <3>. QED  BY <3>2, <3>3, <3>4 DEF validate_remote_credentials
    <2>. QED  BY <2>1, <2>2
  <1>. QED  BY <1>1, AgreementInvariant, PTL

\* The ciphertext of a completed handshake was made for the key of that handshake.
LEMMA OwnMaterial ==
  ASSUME AgreementInv, NEW p \in Participants, NEW h \in Handles,
         handshakes[p][h] # Nil, handshakes[p][h].state \in Succeeded
  PROVE  /\ handshakes[p][h].ciphertext.key = handshakes[p][h].public_key
         /\ handshakes[p][h].initiator => handshakes[p][h].public_key = [by |-> p, at |-> h]
         /\ ~ handshakes[p][h].initiator =>
              /\ handshakes[p][h].ciphertext.by = p
              /\ handshakes[p][h].ciphertext.at = h
  <1> DEFINE hs == handshakes[p][h]
  <1>1. ASSUME NEW q \in Participants, NEW g \in Handles, IsReplier(q, g)
        PROVE  handshakes[q][g].ciphertext =
                 [by |-> q, at |-> g, key |-> handshakes[q][g].public_key]
    BY <1>1 DEF AgreementInv, ReplierFields, IsReplier
  <1>2. CASE hs.initiator
    <2>1. IsInitiator(p, h) /\ hs.state = "OK_FINAL_MESSAGE"
      BY <1>2, SuccessByRole
    <2>2. hs.public_key = [by |-> p, at |-> h]
      BY <1>2 DEF AgreementInv, InitiatorFields
    <2>3. PICK q \in Participants, g \in Handles :
            /\ IsReplier(q, g)
            /\ handshakes[q][g].public_key = hs.public_key
            /\ handshakes[q][g].ciphertext = hs.ciphertext
      BY <2>1, InitiatorPartner
    <2>4. hs.ciphertext = [by |-> q, at |-> g, key |-> hs.public_key]
      BY <1>1, <2>3
    <2>. QED  BY <1>2, <2>2, <2>4
  <1>3. CASE ~ hs.initiator
    <2>1. IsReplier(p, h)
      BY <1>3, SuccessByRole
    <2>2. hs.ciphertext = [by |-> p, at |-> h, key |-> hs.public_key]
      BY <1>1, <2>1
    <2>. QED  BY <1>3, <2>2
  <1>. QED  BY <1>2, <1>3

\* A reply completes at most one request and a final token at most one reply, over all
\* the handshakes the participants ever run.
THEOREM SessionsUsedOnce == Spec => []SessionUsedOnce
  <1>1. AgreementInv => SessionUsedOnce
    <2> SUFFICES ASSUME AgreementInv,
                        NEW p \in Participants, NEW q \in Participants,
                        NEW h \in Handles, NEW g \in Handles,
                        handshakes[p][h] # Nil, handshakes[p][h].state \in Succeeded,
                        handshakes[q][g] # Nil, handshakes[q][g].state \in Succeeded,
                        handshakes[p][h].initiator = handshakes[q][g].initiator,
                        \/ handshakes[p][h].ciphertext = handshakes[q][g].ciphertext
                        \/ handshakes[p][h].public_key = handshakes[q][g].public_key
                 PROVE  p = q /\ h = g
      BY DEF SessionUsedOnce
    <2> DEFINE x == handshakes[p][h]
               y == handshakes[q][g]
    <2>0. /\ x.ciphertext.key = x.public_key
          /\ x.initiator => x.public_key = [by |-> p, at |-> h]
          /\ ~ x.initiator => x.ciphertext.by = p /\ x.ciphertext.at = h
          /\ y.ciphertext.key = y.public_key
          /\ y.initiator => y.public_key = [by |-> q, at |-> g]
          /\ ~ y.initiator => y.ciphertext.by = q /\ y.ciphertext.at = g
      BY OwnMaterial, Zenon
    <2>1. x.public_key = y.public_key
      BY <2>0
    <2>2. CASE x.initiator
      <3>1. [by |-> p, at |-> h] = [by |-> q, at |-> g]
        BY <2>0, <2>1, <2>2
      <3>. QED  BY <3>1
    <2>3. CASE ~ handshakes[p][h].initiator
      <3>1. /\ IsReplier(p, h) /\ handshakes[p][h].state = "OK"
            /\ IsReplier(q, g) /\ handshakes[q][g].state = "OK"
        BY <2>3, SuccessByRole
      <3>2. PICK i \in Participants, a \in Handles :
              /\ IsInitiator(i, a)
              /\ handshakes[i][a].public_key = handshakes[p][h].public_key
              /\ handshakes[i][a].ciphertext = handshakes[p][h].ciphertext
        BY <3>1, ReplierPartner
      <3>3. PICK j \in Participants, b \in Handles :
              /\ IsInitiator(j, b)
              /\ handshakes[j][b].public_key = handshakes[q][g].public_key
              /\ handshakes[j][b].ciphertext = handshakes[q][g].ciphertext
        BY <3>1, ReplierPartner
      <3>4. /\ handshakes[i][a].public_key = [by |-> i, at |-> a]
            /\ handshakes[j][b].public_key = [by |-> j, at |-> b]
        BY <3>2, <3>3 DEF AgreementInv, InitiatorFields, IsInitiator
      <3>5. [by |-> i, at |-> a] = [by |-> j, at |-> b]
        BY <2>1, <3>2, <3>3, <3>4
      <3>6. i = j /\ a = b
        BY <3>5
      <3>7. handshakes[p][h].ciphertext = handshakes[q][g].ciphertext
        BY <3>2, <3>3, <3>6
      <3>. QED  BY <2>0, <2>3, <3>7
    <2>. QED  BY <2>2, <2>3
  <1>. QED  BY <1>1, AgreementInvariant, PTL

----------------------------------------------------------------------------
(***************************************************************************)
(* The refinement of MutualAuth.  Every step writes at most one slot of    *)
(* the handshake tables, so each of the three sets of sessions gains at    *)
(* most the session of that slot; and the session it gains is new, because *)
(* its secret names the handshake that the step is about.                  *)
(***************************************************************************)

\* The call is about one handshake of one participant and leaves the others alone.
OnlySlot(p, h) ==
  \A q \in Participants, g \in Handles :
    q # p \/ g # h => handshakes'[q][g] = handshakes[q][g]

\* An operation that assigns one slot of the table leaves the others alone.
LEMMA AssignedSlot ==
  ASSUME TypeOK, NEW p \in Participants, NEW h \in Handles, NEW hs,
         handshakes' = [handshakes EXCEPT ![p][h] = hs]
  PROVE  OnlySlot(p, h)
  BY DEF OnlySlot, TypeOK

\* Every operation writes at most one handshake.
LEMMA OneSlot ==
  ASSUME Registered, [Next]_vars, handshakes' # handshakes
  PROVE  \E p \in Participants, h \in Handles : OnlySlot(p, h)
  <1> USE DEF Registered
  <1>1. ASSUME NEW q \in Participants, Identities(q) PROVE FALSE
    BY <1>1 DEF Identities, ValidateLocalIdentity, SetPermissions,
         ValidateNewRemoteIdentity, RevalidateRemoteIdentity, ReturnIdentityHandle
  <1>2. PICK p \in Participants : Handshaking(p)
    BY <1>1 DEF Next, vars
  <1>3. ASSUME NEW l \in Handles, NEW rh \in Handles, BeginHandshakeRequest(p, l, rh)
        PROVE  \E h \in Handles : OnlySlot(p, h)
    <2>1. nextHandle[p] \in Handles
      BY <1>3 DEF BeginHandshakeRequest, TakeHandle
    <2>2. PICK hs : handshakes' = [handshakes EXCEPT ![p][nextHandle[p]] = hs]
      BY <1>3 DEF BeginHandshakeRequest
    <2>. QED  BY <2>1, <2>2, AssignedSlot
  <1>4. ASSUME NEW l \in Handles, NEW rh \in Handles, NEW m \in Inbox(p),
               BeginHandshakeReply(p, l, rh, m)
        PROVE  \E h \in Handles : OnlySlot(p, h)
    <2>1. nextHandle[p] \in Handles
      BY <1>4 DEF BeginHandshakeReply, TakeHandle
    <2>2. PICK hs : handshakes' = [handshakes EXCEPT ![p][nextHandle[p]] = hs]
      BY <1>4 DEF BeginHandshakeReply
    <2>. QED  BY <2>1, <2>2, AssignedSlot
  <1>5. ASSUME NEW h \in Handles, NEW m \in Inbox(p), NEW fault \in Faults,
               ProcessReply(p, h, m, fault)
        PROVE  OnlySlot(p, h)
    <2>1. PICK hs : handshakes' = [handshakes EXCEPT ![p][h] = hs]
      BY <1>5 DEF ProcessReply
    <2>. QED  BY <2>1, AssignedSlot
  <1>6. ASSUME NEW h \in Handles, NEW m \in Inbox(p), ProcessFinal(p, h, m)
        PROVE  OnlySlot(p, h)
    BY <1>6 DEF ProcessFinal, OnlySlot, TypeOK
  <1>7. ASSUME NEW h \in Handles, NEW m \in Inbox(p), RefuseMessage(p, h, m)
        PROVE  OnlySlot(p, h)
    <2>1. PICK hs : handshakes' = [handshakes EXCEPT ![p][h] = hs]
      BY <1>7 DEF RefuseMessage
    <2>. QED  BY <2>1, AssignedSlot
  <1>8. ASSUME NEW h \in Handles, ReturnHandshakeHandle(p, h)
        PROVE  OnlySlot(p, h)
    BY <1>8 DEF ReturnHandshakeHandle, OnlySlot, TypeOK
  <1> HIDE DEF Registered
  <1>. QED
    BY <1>2, <1>3, <1>4, <1>5, <1>6, <1>7, <1>8, Zenon DEF Handshaking

IsAccepted(p, h)  == IsInitiator(p, h) /\ handshakes[p][h].state = "OK_FINAL_MESSAGE"
IsConfirmed(p, h) == IsReplier(p, h) /\ handshakes[p][h].state = "OK"

\* The three sets of sessions, one handshake at a time.
LEMMA SessionsOf ==
  /\ \A s : s \in Offers <=>
       \E p \in Participants, h \in Handles : IsReplier(p, h) /\ s = ReplierSession(p, h)
  /\ \A s : s \in Accepted <=>
       \E p \in Participants, h \in Handles : IsAccepted(p, h) /\ s = InitiatorSession(p, h)
  /\ \A s : s \in Confirmed <=>
       \E p \in Participants, h \in Handles : IsConfirmed(p, h) /\ s = ReplierSession(p, h)
  <1>1. ASSUME NEW s
        PROVE  s \in Offers <=>
                 \E p \in Participants, h \in Handles : IsReplier(p, h) /\ s = ReplierSession(p, h)
    <2>1. ASSUME s \in Offers
          PROVE  \E p \in Participants, h \in Handles : IsReplier(p, h) /\ s = ReplierSession(p, h)
      <3>1. PICK x \in Participants \X Handles : IsReplier(x[1], x[2]) /\ s = ReplierSession(x[1], x[2])
        BY <2>1 DEF Offers
      <3>2. x[1] \in Participants /\ x[2] \in Handles
        OBVIOUS
      <3>. QED  BY <3>1, <3>2
    <2>2. ASSUME NEW p \in Participants, NEW h \in Handles, IsReplier(p, h), s = ReplierSession(p, h)
          PROVE  s \in Offers
      <3>1. /\ <<p, h>> \in Participants \X Handles
            /\ <<p, h>>[1] = p /\ <<p, h>>[2] = h
        OBVIOUS
      <3>2. \E x \in Participants \X Handles : IsReplier(x[1], x[2]) /\ s = ReplierSession(x[1], x[2])
        BY <2>2, <3>1
      <3>. QED  BY <3>2 DEF Offers
    <2>. QED  BY <2>1, <2>2
  <1>2. ASSUME NEW s
        PROVE  s \in Accepted <=>
                 \E p \in Participants, h \in Handles : IsAccepted(p, h) /\ s = InitiatorSession(p, h)
    <2>1. ASSUME s \in Accepted
          PROVE  \E p \in Participants, h \in Handles : IsAccepted(p, h) /\ s = InitiatorSession(p, h)
      <3>1. PICK x \in Participants \X Handles : IsAccepted(x[1], x[2]) /\ s = InitiatorSession(x[1], x[2])
        BY <2>1 DEF Accepted, IsAccepted
      <3>2. x[1] \in Participants /\ x[2] \in Handles
        OBVIOUS
      <3>. QED  BY <3>1, <3>2
    <2>2. ASSUME NEW p \in Participants, NEW h \in Handles, IsAccepted(p, h), s = InitiatorSession(p, h)
          PROVE  s \in Accepted
      <3>1. /\ <<p, h>> \in Participants \X Handles
            /\ <<p, h>>[1] = p /\ <<p, h>>[2] = h
        OBVIOUS
      <3>2. \E x \in Participants \X Handles : IsAccepted(x[1], x[2]) /\ s = InitiatorSession(x[1], x[2])
        BY <2>2, <3>1
      <3>. QED  BY <3>2 DEF Accepted, IsAccepted
    <2>. QED  BY <2>1, <2>2
  <1>3. ASSUME NEW s
        PROVE  s \in Confirmed <=>
                 \E p \in Participants, h \in Handles : IsConfirmed(p, h) /\ s = ReplierSession(p, h)
    <2>1. ASSUME s \in Confirmed
          PROVE  \E p \in Participants, h \in Handles : IsConfirmed(p, h) /\ s = ReplierSession(p, h)
      <3>1. PICK x \in Participants \X Handles : IsConfirmed(x[1], x[2]) /\ s = ReplierSession(x[1], x[2])
        BY <2>1 DEF Confirmed, IsConfirmed
      <3>2. x[1] \in Participants /\ x[2] \in Handles
        OBVIOUS
      <3>. QED  BY <3>1, <3>2
    <2>2. ASSUME NEW p \in Participants, NEW h \in Handles, IsConfirmed(p, h), s = ReplierSession(p, h)
          PROVE  s \in Confirmed
      <3>1. /\ <<p, h>> \in Participants \X Handles
            /\ <<p, h>>[1] = p /\ <<p, h>>[2] = h
        OBVIOUS
      <3>2. \E x \in Participants \X Handles : IsConfirmed(x[1], x[2]) /\ s = ReplierSession(x[1], x[2])
        BY <2>2, <3>1
      <3>. QED  BY <3>2 DEF Confirmed, IsConfirmed
    <2>. QED  BY <2>1, <2>2
  <1>. QED  BY <1>1, <1>2, <1>3

\* The same of the sets after a step.
LEMMA SessionsOfNext ==
  /\ \A s : s \in Offers' <=>
       \E p \in Participants, h \in Handles : IsReplier(p, h)' /\ s = ReplierSession(p, h)'
  /\ \A s : s \in Accepted' <=>
       \E p \in Participants, h \in Handles : IsAccepted(p, h)' /\ s = InitiatorSession(p, h)'
  /\ \A s : s \in Confirmed' <=>
       \E p \in Participants, h \in Handles : IsConfirmed(p, h)' /\ s = ReplierSession(p, h)'
  <1>1. ASSUME NEW s
        PROVE  s \in Offers' <=>
                 \E p \in Participants, h \in Handles : IsReplier(p, h)' /\ s = ReplierSession(p, h)'
    <2>1. ASSUME s \in Offers'
          PROVE  \E p \in Participants, h \in Handles : IsReplier(p, h)' /\ s = ReplierSession(p, h)'
      <3>1. PICK x \in Participants \X Handles : IsReplier(x[1], x[2])' /\ s = ReplierSession(x[1], x[2])'
        BY <2>1 DEF Offers
      <3>2. x[1] \in Participants /\ x[2] \in Handles
        OBVIOUS
      <3>. QED  BY <3>1, <3>2
    <2>2. ASSUME NEW p \in Participants, NEW h \in Handles, IsReplier(p, h)', s = ReplierSession(p, h)'
          PROVE  s \in Offers'
      <3>1. /\ <<p, h>> \in Participants \X Handles
            /\ <<p, h>>[1] = p /\ <<p, h>>[2] = h
        OBVIOUS
      <3>2. \E x \in Participants \X Handles : IsReplier(x[1], x[2])' /\ s = ReplierSession(x[1], x[2])'
        BY <2>2, <3>1
      <3>. QED  BY <3>2 DEF Offers
    <2>. QED  BY <2>1, <2>2
  <1>2. ASSUME NEW s
        PROVE  s \in Accepted' <=>
                 \E p \in Participants, h \in Handles : IsAccepted(p, h)' /\ s = InitiatorSession(p, h)'
    <2>1. ASSUME s \in Accepted'
          PROVE  \E p \in Participants, h \in Handles : IsAccepted(p, h)' /\ s = InitiatorSession(p, h)'
      <3>1. PICK x \in Participants \X Handles : IsAccepted(x[1], x[2])' /\ s = InitiatorSession(x[1], x[2])'
        BY <2>1 DEF Accepted, IsAccepted
      <3>2. x[1] \in Participants /\ x[2] \in Handles
        OBVIOUS
      <3>. QED  BY <3>1, <3>2
    <2>2. ASSUME NEW p \in Participants, NEW h \in Handles, IsAccepted(p, h)', s = InitiatorSession(p, h)'
          PROVE  s \in Accepted'
      <3>1. /\ <<p, h>> \in Participants \X Handles
            /\ <<p, h>>[1] = p /\ <<p, h>>[2] = h
        OBVIOUS
      <3>2. \E x \in Participants \X Handles : IsAccepted(x[1], x[2])' /\ s = InitiatorSession(x[1], x[2])'
        BY <2>2, <3>1
      <3>. QED  BY <3>2 DEF Accepted, IsAccepted
    <2>. QED  BY <2>1, <2>2
  <1>3. ASSUME NEW s
        PROVE  s \in Confirmed' <=>
                 \E p \in Participants, h \in Handles : IsConfirmed(p, h)' /\ s = ReplierSession(p, h)'
    <2>1. ASSUME s \in Confirmed'
          PROVE  \E p \in Participants, h \in Handles : IsConfirmed(p, h)' /\ s = ReplierSession(p, h)'
      <3>1. PICK x \in Participants \X Handles : IsConfirmed(x[1], x[2])' /\ s = ReplierSession(x[1], x[2])'
        BY <2>1 DEF Confirmed, IsConfirmed
      <3>2. x[1] \in Participants /\ x[2] \in Handles
        OBVIOUS
      <3>. QED  BY <3>1, <3>2
    <2>2. ASSUME NEW p \in Participants, NEW h \in Handles, IsConfirmed(p, h)', s = ReplierSession(p, h)'
          PROVE  s \in Confirmed'
      <3>1. /\ <<p, h>> \in Participants \X Handles
            /\ <<p, h>>[1] = p /\ <<p, h>>[2] = h
        OBVIOUS
      <3>2. \E x \in Participants \X Handles : IsConfirmed(x[1], x[2])' /\ s = ReplierSession(x[1], x[2])'
        BY <2>2, <3>1
      <3>. QED  BY <3>2 DEF Confirmed, IsConfirmed
    <2>. QED  BY <2>1, <2>2
  <1>. QED  BY <1>1, <1>2, <1>3

\* When a step writes one slot and does not withdraw that slot's session, a set of
\* sessions gains at most the session of the slot.
LEMMA OffersGrow ==
  ASSUME NEW p \in Participants, NEW h \in Handles, OnlySlot(p, h),
         IsReplier(p, h) => IsReplier(p, h)' /\ ReplierSession(p, h)' = ReplierSession(p, h)
  PROVE  Offers' = Offers \cup {s \in {ReplierSession(p, h)'} : IsReplier(p, h)'}
  <1>1. ASSUME NEW q \in Participants, NEW g \in Handles, q # p \/ g # h
        PROVE  /\ IsReplier(q, g)' <=> IsReplier(q, g)
               /\ ReplierSession(q, g)' = ReplierSession(q, g)
    BY <1>1 DEF OnlySlot, IsReplier, ReplierSession, Session
  <1>2. ASSUME NEW s, s \in Offers'
        PROVE  s \in Offers \cup {t \in {ReplierSession(p, h)'} : IsReplier(p, h)'}
    BY <1>1, <1>2, SessionsOf, SessionsOfNext
  <1>3. ASSUME NEW s, s \in Offers
        PROVE  s \in Offers'
    BY <1>1, <1>3, SessionsOf, SessionsOfNext
  <1>4. ASSUME IsReplier(p, h)' PROVE ReplierSession(p, h)' \in Offers'
    BY <1>4, SessionsOfNext
  <1>. QED  BY <1>2, <1>3, <1>4

\* The same for the sessions that initiators have completed.
LEMMA AcceptedGrow ==
  ASSUME NEW p \in Participants, NEW h \in Handles, OnlySlot(p, h),
         IsAccepted(p, h) => IsAccepted(p, h)' /\ InitiatorSession(p, h)' = InitiatorSession(p, h)
  PROVE  Accepted' = Accepted \cup {s \in {InitiatorSession(p, h)'} : IsAccepted(p, h)'}
  <1>1. ASSUME NEW q \in Participants, NEW g \in Handles, q # p \/ g # h
        PROVE  /\ IsAccepted(q, g)' <=> IsAccepted(q, g)
               /\ InitiatorSession(q, g)' = InitiatorSession(q, g)
    BY <1>1 DEF OnlySlot, IsAccepted, IsInitiator, InitiatorSession, Session
  <1>2. ASSUME NEW s, s \in Accepted'
        PROVE  s \in Accepted \cup {t \in {InitiatorSession(p, h)'} : IsAccepted(p, h)'}
    BY <1>1, <1>2, SessionsOf, SessionsOfNext
  <1>3. ASSUME NEW s, s \in Accepted
        PROVE  s \in Accepted'
    BY <1>1, <1>3, SessionsOf, SessionsOfNext
  <1>4. ASSUME IsAccepted(p, h)' PROVE InitiatorSession(p, h)' \in Accepted'
    BY <1>4, SessionsOfNext
  <1>. QED  BY <1>2, <1>3, <1>4

\* The same for the sessions that repliers have completed.
LEMMA ConfirmedGrow ==
  ASSUME NEW p \in Participants, NEW h \in Handles, OnlySlot(p, h),
         IsConfirmed(p, h) => IsConfirmed(p, h)' /\ ReplierSession(p, h)' = ReplierSession(p, h)
  PROVE  Confirmed' = Confirmed \cup {s \in {ReplierSession(p, h)'} : IsConfirmed(p, h)'}
  <1>1. ASSUME NEW q \in Participants, NEW g \in Handles, q # p \/ g # h
        PROVE  /\ IsConfirmed(q, g)' <=> IsConfirmed(q, g)
               /\ ReplierSession(q, g)' = ReplierSession(q, g)
    BY <1>1 DEF OnlySlot, IsConfirmed, IsReplier, ReplierSession, Session
  <1>2. ASSUME NEW s, s \in Confirmed'
        PROVE  s \in Confirmed \cup {t \in {ReplierSession(p, h)'} : IsConfirmed(p, h)'}
    BY <1>1, <1>2, SessionsOf, SessionsOfNext
  <1>3. ASSUME NEW s, s \in Confirmed
        PROVE  s \in Confirmed'
    BY <1>1, <1>3, SessionsOf, SessionsOfNext
  <1>4. ASSUME IsConfirmed(p, h)' PROVE ReplierSession(p, h)' \in Confirmed'
    BY <1>4, SessionsOfNext
  <1>. QED  BY <1>2, <1>3, <1>4

\* The secret of an offered session names the handshake that offered it.
LEMMA OfferNamesReplier ==
  ASSUME ReplierFields, NEW p \in Participants, NEW h \in Handles, IsReplier(p, h)
  PROVE  ReplierSession(p, h).secret.ct.by = p /\ ReplierSession(p, h).secret.ct.at = h
  <1> DEFINE hs == handshakes[p][h]
  <1>1. hs.ciphertext = [by |-> p, at |-> h, key |-> hs.public_key]
    BY DEF ReplierFields, IsReplier
  <1>2. hs.secret = Secret(hs.public_key, hs.ciphertext)
    BY ReplierHolds
  <1>3. ReplierSession(p, h).secret = hs.secret
    BY DEF ReplierSession, Session
  <1>4. hs.secret.ct = hs.ciphertext
    BY <1>2 DEF Secret
  <1>. QED  BY <1>1, <1>3, <1>4

\* The secret of an accepted session names the handshake that accepted it.
LEMMA AcceptNamesInitiator ==
  ASSUME InitiatorFields, NEW p \in Participants, NEW h \in Handles, IsAccepted(p, h)
  PROVE  InitiatorSession(p, h).secret.key = [by |-> p, at |-> h]
  <1> DEFINE hs == handshakes[p][h]
  <1>1. hs.public_key = [by |-> p, at |-> h]
    BY DEF InitiatorFields, IsAccepted, IsInitiator
  <1>2. hs.secret = Secret(hs.public_key, hs.ciphertext)
    BY InitiatorHolds DEF IsAccepted
  <1>3. InitiatorSession(p, h).secret = hs.secret
    BY DEF InitiatorSession, Session
  <1>4. hs.secret.key = hs.public_key
    BY <1>2 DEF Secret
  <1>. QED  BY <1>1, <1>3, <1>4

\* A step that writes no handshake, or leaves what the sessions are made of, is a
\* stuttering step of the abstract specification.
LEMMA SessionsUnchanged ==
  ASSUME handshakes' = handshakes
  PROVE  UNCHANGED <<Offers, Accepted, Confirmed>>
  BY DEF Offers, Accepted, Confirmed, IsReplier, IsInitiator, ReplierSession,
         InitiatorSession, Session

\* A handshake that is created is a request, which no set holds, or an offer whose
\* secret no earlier offer has.
LEMMA CreationRefines ==
  ASSUME AgreementInv, ReplierFields', [Next]_vars, NEW p \in Participants, NEW h \in Handles,
         OnlySlot(p, h), handshakes[p][h] = Nil, handshakes'[p][h] # Nil
  PROVE  [MA!AbsNext]_(MA!absVars)
  <1> DEFINE d == handshakes'[p][h]
  <1>1. d.state = "PENDING_HANDSHAKE_MESSAGE"
    <2>1. /\ h = nextHandle[p]
          /\ \/ \E l, rh \in Handles : BeginHandshakeRequest(p, l, rh)
             \/ \E l, rh \in Handles, m \in Inbox(p) : BeginHandshakeReply(p, l, rh, m)
      BY HandshakeBorn DEF AgreementInv, Registered
    <2>. QED  BY <2>1, BornRequest, BornReply DEF AgreementInv, Inbox
  <1>2. ~ IsReplier(p, h) /\ ~ IsAccepted(p, h) /\ ~ IsConfirmed(p, h)
    BY DEF IsReplier, IsAccepted, IsConfirmed, IsInitiator
  <1>3. ~ IsAccepted(p, h)' /\ ~ IsConfirmed(p, h)'
    BY <1>1 DEF IsAccepted, IsConfirmed
  <1>4. Accepted' = Accepted
    BY <1>2, <1>3, AcceptedGrow
  <1>5. Confirmed' = Confirmed
    BY <1>2, <1>3, ConfirmedGrow
  <1>6. CASE ~ IsReplier(p, h)'
    <2>1. Offers' = Offers
      BY <1>2, <1>6, OffersGrow
    <2>. QED  BY <1>4, <1>5, <2>1 DEF MA!absVars
  <1>7. CASE IsReplier(p, h)'
    <2> DEFINE s == ReplierSession(p, h)'
    <2>1. Offers' = Offers \cup {s}
      BY <1>2, <1>7, OffersGrow
    <2>2. s.secret.ct.by = p /\ s.secret.ct.at = h
      <3>1. d.ciphertext = [by |-> p, at |-> h, key |-> d.public_key]
        BY <1>7 DEF ReplierFields, IsReplier
      <3>2. d.secret = Secret(d.public_key, d.ciphertext)
        BY <1>7 DEF ReplierFields, IsReplier
      <3>3. s.secret = d.secret
        BY DEF ReplierSession, Session
      <3>4. d.secret.ct = d.ciphertext
        BY <3>2 DEF Secret
      <3>. QED  BY <3>1, <3>3, <3>4
    <2>3. ASSUME NEW o \in Offers PROVE o.secret # s.secret
      <3>1. PICK q \in Participants, g \in Handles :
              IsReplier(q, g) /\ o = ReplierSession(q, g)
        BY <2>3, SessionsOf
      <3>2. o.secret.ct.by = q /\ o.secret.ct.at = g
        BY <3>1, OfferNamesReplier DEF AgreementInv
      <3>3. q # p \/ g # h
        BY <1>2, <3>1
      <3> HIDE DEF s
      <3>. QED  BY <2>2, <3>2, <3>3
    <2>4. s \notin Offers
      BY <2>3
    <2> HIDE DEF s
    <2>5. s \in Offers' \ Offers /\ MA!Offer(s)
      BY <1>4, <1>5, <2>1, <2>3, <2>4 DEF MA!Offer
    <2>. QED  BY <2>5 DEF MA!AbsNext
  <1>. QED  BY <1>6, <1>7

\* An initiator that completes accepts an offered session nobody has accepted yet.
LEMMA AcceptanceRefines ==
  ASSUME AgreementInv, [Next]_vars, NEW p \in Participants, NEW h \in Handles,
         OnlySlot(p, h), NEW m \in msgs, NEW fault \in Faults, ProcessReply(p, h, m, fault),
         handshakes'[p][h].state = "OK_FINAL_MESSAGE"
  PROVE  [MA!AbsNext]_(MA!absVars)
  <1> DEFINE hs == handshakes[p][h]
             d == handshakes'[p][h]
             s == InitiatorSession(p, h)'
  <1>1. /\ d \in Handshake /\ hs # Nil /\ hs.initiator /\ d.initiator
        /\ hs.state = "PENDING_HANDSHAKE_MESSAGE"
        /\ d.public_key = hs.public_key
        /\ d.secret = Secret(d.public_key, d.ciphertext)
    BY ReplyCompletes DEF AgreementInv
  <1>2. d # Nil
    BY <1>1, NilAssumption
  <1>3. ~ IsReplier(p, h) /\ ~ IsAccepted(p, h) /\ ~ IsConfirmed(p, h)
    BY <1>1 DEF IsReplier, IsAccepted, IsConfirmed
  <1>4. ~ IsReplier(p, h)' /\ ~ IsConfirmed(p, h)' /\ IsAccepted(p, h)'
    BY <1>1, <1>2 DEF IsReplier, IsAccepted, IsConfirmed, IsInitiator
  <1>5. Offers' = Offers
    BY <1>3, <1>4, OffersGrow
  <1>6. Confirmed' = Confirmed
    BY <1>3, <1>4, ConfirmedGrow
  <1>7. Accepted' = Accepted \cup {s}
    BY <1>3, <1>4, AcceptedGrow
  <1>8. s \in Offers
    <2>1. PICK q \in Participants, g \in Handles :
            IsReplier(q, g) /\ ReplierSession(q, g) = Session(p, d.remote_certificate, d)
      BY InitiatorMeets DEF AgreementInv
    <2>2. s = Session(p, d.remote_certificate, d)
      BY DEF InitiatorSession, Session
    <2>. QED  BY <2>1, <2>2, SessionsOf
  <1>9. s \notin Accepted
    <2> SUFFICES ASSUME s \in Accepted PROVE FALSE
      OBVIOUS
    <2>1. PICK q \in Participants, g \in Handles : IsAccepted(q, g) /\ s = InitiatorSession(q, g)
      BY SessionsOf
    <2>2. s.secret.key = [by |-> q, at |-> g]
      BY <2>1, AcceptNamesInitiator DEF AgreementInv
    <2>3. s.secret.key = [by |-> p, at |-> h]
      <3>1. hs.public_key = [by |-> p, at |-> h]
        BY <1>1 DEF AgreementInv, InitiatorFields
      <3>2. s.secret = d.secret
        BY DEF InitiatorSession, Session
      <3>3. d.secret.key = d.public_key
        BY <1>1 DEF Secret
      <3>. QED  BY <1>1, <3>1, <3>2, <3>3
    <2>4. [by |-> q, at |-> g] = [by |-> p, at |-> h]
      BY <2>2, <2>3
    <2>5. q = p /\ g = h
      BY <2>4
    <2>. QED  BY <1>3, <2>1, <2>5
  <1> HIDE DEF s
  <1>10. MA!Accept(s)
    BY <1>5, <1>6, <1>7, <1>8, <1>9 DEF MA!Accept
  <1>. QED  BY <1>8, <1>10 DEF MA!AbsNext

\* A replier that completes confirms a session that its initiator has accepted.
LEMMA ConfirmationRefines ==
  ASSUME AgreementInv, [Next]_vars, NEW p \in Participants, NEW h \in Handles,
         OnlySlot(p, h), NEW m \in msgs, ProcessFinal(p, h, m),
         handshakes[p][h].state \notin Succeeded
  PROVE  [MA!AbsNext]_(MA!absVars)
  <1> DEFINE hs == handshakes[p][h]
             d == handshakes'[p][h]
             s == ReplierSession(p, h)'
  <1>1. /\ hs # Nil /\ ~ hs.initiator /\ d.state = "OK"
    BY FinalCompletes DEF AgreementInv
  <1>2. /\ d # Nil /\ ~ d.initiator
        /\ s = ReplierSession(p, h)
    BY <1>1, ReplierKept DEF AgreementInv, ReplierSession, Session
  <1>3. IsReplier(p, h) /\ ~ IsAccepted(p, h) /\ ~ IsConfirmed(p, h)
    BY <1>1 DEF IsReplier, IsAccepted, IsConfirmed, IsInitiator, Succeeded
  <1>4. IsReplier(p, h)' /\ IsConfirmed(p, h)' /\ ~ IsAccepted(p, h)'
    BY <1>1, <1>2 DEF IsReplier, IsAccepted, IsConfirmed, IsInitiator
  <1>5. s \in Offers
    BY <1>2, <1>3, SessionsOf
  <1>6. Offers' = Offers
    BY <1>2, <1>3, <1>4, <1>5, OffersGrow
  <1>7. Accepted' = Accepted
    BY <1>3, <1>4, AcceptedGrow
  <1>8. Confirmed' = Confirmed \cup {s}
    BY <1>3, <1>4, ConfirmedGrow
  <1>9. s \in Accepted
    <2>1. PICK q \in Participants, g \in Handles :
            /\ IsInitiator(q, g) /\ handshakes[q][g].state = "OK_FINAL_MESSAGE"
            /\ InitiatorSession(q, g) = ReplierSession(p, h)
      BY ReplierMeets DEF AgreementInv
    <2>. QED  BY <1>2, <2>1, SessionsOf DEF IsAccepted
  <1>10. s \notin Confirmed
    <2> SUFFICES ASSUME s \in Confirmed PROVE FALSE
      OBVIOUS
    <2>1. PICK q \in Participants, g \in Handles : IsConfirmed(q, g) /\ s = ReplierSession(q, g)
      BY SessionsOf
    <2>2. s.secret.ct.by = q /\ s.secret.ct.at = g
      BY <2>1, OfferNamesReplier DEF AgreementInv, IsConfirmed
    <2>3. s.secret.ct.by = p /\ s.secret.ct.at = h
      BY <1>2, <1>3, OfferNamesReplier DEF AgreementInv
    <2>. QED  BY <1>3, <2>1, <2>2, <2>3
  <1> HIDE DEF s
  <1>11. MA!Confirm(s)
    BY <1>6, <1>7, <1>8, <1>9, <1>10 DEF MA!Confirm
  <1>. QED  BY <1>9, <1>11 DEF MA!AbsNext

\* A call that completes nothing leaves the sessions as they are.
LEMMA OtherwiseStutters ==
  ASSUME AgreementInv, [Next]_vars, NEW p \in Participants, NEW h \in Handles,
         OnlySlot(p, h), handshakes[p][h] # Nil,
         handshakes[p][h].state \in Succeeded \/ handshakes'[p][h].state \notin Succeeded
  PROVE  UNCHANGED <<Offers, Accepted, Confirmed>>
  <1> DEFINE hs == handshakes[p][h]
             d == handshakes'[p][h]
  <1>1. /\ d # Nil /\ d.initiator = hs.initiator
    BY StepEvolves DEF AgreementInv, Registered, AllEvolve, Evolves
  <1>2. IsReplier(p, h) => IsReplier(p, h)' /\ ReplierSession(p, h)' = ReplierSession(p, h)
    BY <1>1, ReplierKept DEF AgreementInv, IsReplier, ReplierSession, Session
  <1>3. hs.state \in Succeeded => d.state = hs.state
    BY SucceededKept DEF AgreementInv
  <1>4. IsAccepted(p, h) => InitiatorSession(p, h)' = InitiatorSession(p, h)
    BY SucceededKept DEF AgreementInv, IsAccepted, InitiatorSession, Session, Succeeded
  <1>5. /\ IsReplier(p, h)' <=> IsReplier(p, h)
        /\ IsAccepted(p, h)' <=> IsAccepted(p, h)
        /\ IsConfirmed(p, h)' <=> IsConfirmed(p, h)
    BY <1>1, <1>3 DEF IsReplier, IsAccepted, IsConfirmed, IsInitiator, Succeeded
  <1>6. Offers' = Offers
    <2>1. Offers' = Offers \cup {s \in {ReplierSession(p, h)} : IsReplier(p, h)}
      BY <1>2, <1>5, OffersGrow
    <2>2. IsReplier(p, h) => ReplierSession(p, h) \in Offers
      BY SessionsOf
    <2>. QED  BY <2>1, <2>2
  <1>7. Accepted' = Accepted
    <2>1. Accepted' = Accepted \cup {s \in {InitiatorSession(p, h)} : IsAccepted(p, h)}
      BY <1>4, <1>5, AcceptedGrow
    <2>2. IsAccepted(p, h) => InitiatorSession(p, h) \in Accepted
      BY SessionsOf
    <2>. QED  BY <2>1, <2>2
  <1>8. Confirmed' = Confirmed
    <2>1. Confirmed' = Confirmed \cup {s \in {ReplierSession(p, h)} : IsConfirmed(p, h)}
      BY <1>2, <1>5, ConfirmedGrow DEF IsConfirmed
    <2>2. IsConfirmed(p, h) => ReplierSession(p, h) \in Confirmed
      BY SessionsOf
    <2>. QED  BY <2>1, <2>2
  <1>. QED  BY <1>6, <1>7, <1>8

\* The plugins, with every token lost, late, repeated or delivered to the wrong
\* handshake and every handle returned, implement the abstract mutual authentication:
\* each step offers, accepts or confirms one session, or leaves the sessions alone.
THEOREM RefinesMutualAuth == Spec => ImplementsMutualAuth
  <1>1. Init => MA!AbsInit
    <2> SUFFICES ASSUME Init PROVE MA!AbsInit
      OBVIOUS
    <2>1. \A p \in Participants, h \in Handles : handshakes[p][h] = Nil
      BY DEF Init
    <2>2. \A s : s \notin Offers /\ s \notin Accepted /\ s \notin Confirmed
      BY <2>1, SessionsOf DEF IsReplier, IsAccepted, IsConfirmed, IsInitiator
    <2>. QED  BY <2>2 DEF MA!AbsInit
  <1>2. AgreementInv /\ [Next]_vars => [MA!AbsNext]_(MA!absVars)
    <2> SUFFICES ASSUME AgreementInv, [Next]_vars PROVE [MA!AbsNext]_(MA!absVars)
      OBVIOUS
    <2>1. CASE handshakes' = handshakes
      BY <2>1, SessionsUnchanged DEF MA!absVars
    <2>2. CASE handshakes' # handshakes
      <3>1. PICK p \in Participants, h \in Handles : OnlySlot(p, h)
        BY <2>2, OneSlot DEF AgreementInv
      <3>2. AgreementInv'
        BY AgreementInductive
      <3>3. CASE handshakes[p][h] = Nil /\ handshakes'[p][h] # Nil
        BY <3>1, <3>2, <3>3, CreationRefines DEF AgreementInv
      <3>4. CASE handshakes[p][h] = Nil /\ handshakes'[p][h] = Nil
        <4>1. \A q \in Participants, g \in Handles : handshakes'[q][g] = handshakes[q][g]
          BY <3>1, <3>4 DEF OnlySlot
        <4>2. /\ handshakes \in [Participants -> [Handles -> Handshake \cup {Nil}]]
              /\ handshakes' \in [Participants -> [Handles -> Handshake \cup {Nil}]]
          BY <3>2 DEF AgreementInv, Registered, TypeOK
        <4>3. ASSUME NEW q \in Participants PROVE handshakes'[q] = handshakes[q]
          BY <4>1, <4>2
        <4>. QED  BY <2>2, <4>2, <4>3
      <3>5. CASE handshakes[p][h] # Nil
        <4>1. CASE handshakes[p][h].state \in Succeeded \/ handshakes'[p][h].state \notin Succeeded
          BY <3>1, <3>5, <4>1, OtherwiseStutters DEF MA!absVars
        <4>2. CASE handshakes[p][h].state \notin Succeeded /\ handshakes'[p][h].state \in Succeeded
          <5>1. \/ \E m \in Inbox(p), fault \in Faults : ProcessReply(p, h, m, fault)
                \/ \E m \in Inbox(p) : ProcessFinal(p, h, m)
            BY <3>5, <4>2, HandshakeCompletes DEF AgreementInv
          <5>2. ASSUME NEW m \in Inbox(p), NEW fault \in Faults, ProcessReply(p, h, m, fault)
                PROVE  [MA!AbsNext]_(MA!absVars)
            <6>1. m \in msgs
              BY DEF Inbox
            <6>2. handshakes'[p][h].state \in {"FAILED", "OK_FINAL_MESSAGE"}
              BY <5>2, <6>1, ReplyCompletes DEF AgreementInv
            <6>3. handshakes'[p][h].state = "OK_FINAL_MESSAGE"
              BY <4>2, <6>2 DEF Succeeded
            <6>. QED  BY <3>1, <5>2, <6>1, <6>3, AcceptanceRefines
          <5>3. ASSUME NEW m \in Inbox(p), ProcessFinal(p, h, m)
                PROVE  [MA!AbsNext]_(MA!absVars)
            <6>1. m \in msgs
              BY DEF Inbox
            <6>. QED  BY <3>1, <4>2, <5>3, <6>1, ConfirmationRefines
          <5>. QED  BY <5>1, <5>2, <5>3
        <4>. QED  BY <4>1, <4>2
      <3>. QED  BY <3>3, <3>4, <3>5
    <2>. QED  BY <2>1, <2>2
  <1>. QED  BY <1>1, <1>2, AgreementInvariant, PTL DEF Spec, ImplementsMutualAuth, MA!AbsSpec
=============================================================================
