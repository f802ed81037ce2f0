------------------------- MODULE CycloneClassicProofs -------------------------
(***************************************************************************)
(* What holds of the Diffie-Hellman handshake of the Cyclone adapter for   *)
(* every bound, every set of documents and faults, and whoever returns     *)
(* handles or begins requests again.                                       *)
(*                                                                         *)
(* ClassicInv holds always: tokens carry values of their sender, and a     *)
(* final carries a secret that the initiator has completed with.  Matching *)
(* holds until a handle is returned: the key pair of a handshake is drawn  *)
(* once, so every token still in flight agrees with what its sender holds, *)
(* no request is ever refused, and there is one secret for both ends.      *)
(***************************************************************************)
EXTENDS CycloneClassic, TLAPS

I == "initiator"
R == "replier"

\* What is known of every token ever sent.
TokenOK(m) ==
  /\ m.type = "auth" => m.from \in Roles /\ m.challenge \in By(m.from, Fresh)
  /\ m.type = "request" =>
       /\ m.cred \in Credentials
       /\ m.dh1 \in PublicKeys(By(I, Fresh)) /\ m.challenge1 \in By(I, Fresh)
  /\ m.type = "reply" =>
       /\ m.cred \in Credentials
       /\ m.dh2 \in PublicKeys(By(R, Fresh)) /\ m.challenge2 \in By(R, Fresh)
  /\ m.type = "final" =>
       [keys |-> {m.signature.dh1, m.signature.dh2}, challenge1 |-> m.challenge1,
        challenge2 |-> m.challenge2] \in derived[I]

TokensOK == \A m \in msgs : TokenOK(m)

\* A replier with a handshake knows the challenge of its peer.
ReplierKnows == handshake[R] # Nil => relation[R].rchallenge # Nil

ClassicInv == TypeOK /\ TokensOK /\ ReplierKnows /\ ReplierSecretIsDerived

\* The challenge that r knows of its peer is the peer's own.
RelationsMatch ==
  \A r \in Roles : relation[r] # Nil /\ relation[r].rchallenge # Nil =>
    relation[Other(r)] # Nil /\ relation[r].rchallenge = relation[Other(r)].lchallenge

\* Every token agrees with what its sender holds.
TokensMatch ==
  \A m \in msgs :
    /\ m.type = "auth" => relation[m.from] # Nil /\ m.challenge = relation[m.from].lchallenge
    /\ m.type = "request" =>
         /\ handshake[I] # Nil
         /\ m.dh1 = Public(handshake[I].ldh) /\ m.challenge1 = relation[I].lchallenge
    /\ m.type = "reply" =>
         /\ handshake[R] # Nil
         /\ m.dh2 = Public(handshake[R].ldh) /\ m.challenge2 = relation[R].lchallenge

\* The one secret that the two ends can derive.
TheSecret ==
  [keys |-> {Public(handshake[I].ldh), Public(handshake[R].ldh)},
   challenge1 |-> relation[I].lchallenge, challenge2 |-> relation[R].lchallenge]

\* A replier has the key of its initiator, and whoever has completed has the one secret.
HandshakesMatch ==
  /\ handshake[R] # Nil => handshake[I] # Nil /\ handshake[R].rdh = Public(handshake[I].ldh)
  /\ handshake[R] # Nil /\ handshake[R].secret # Nil => handshake[R].secret = TheSecret
  /\ handshake[I] # Nil /\ handshake[I].secret # Nil =>
       handshake[R] # Nil /\ handshake[I].secret = TheSecret

Matching == RelationsMatch /\ TokensMatch /\ HandshakesMatch /\ ~aborted

----------------------------------------------------------------------------
(* Roles and random values. *)

\* There are two roles, each the other of the other.
LEMMA TwoRoles ==
  /\ I \in Roles /\ R \in Roles /\ Other(I) = R /\ Other(R) = I /\ I # R
  /\ \A r \in Roles : /\ Other(r) \in Roles /\ Other(r) # r /\ Other(Other(r)) = r
                      /\ r = I \/ r = R
                      /\ \A x \in Roles : x = r \/ x = Other(r)
  BY DEF Roles, Other, I, R

\* What was drawn stays drawn, within the bound, and a new value is r's own.
LEMMA DrawGrows ==
  ASSUME fresh \in [Roles -> Nat], \A x \in Roles : fresh[x] <= Draws[x],
         NEW r \in Roles, NEW v, Drawn(r, v), v = Draw(r) => CanDraw(r)
  PROVE  /\ fresh' \in [Roles -> Nat]
         /\ \A x \in Roles : fresh'[x] <= Draws[x]
         /\ Fresh \subseteq Fresh'
         /\ v = Draw(r) => v \in By(r, Fresh')
  <1>1. fresh' \in [Roles -> Nat]
    BY DEF Drawn
  <1>2. \A x \in Roles : fresh[x] <= fresh'[x] /\ fresh'[x] <= Draws[x]
    <2>1. /\ fresh'[r] = IF v = Draw(r) THEN fresh[r] + 1 ELSE fresh[r]
          /\ \A x \in Roles \ {r} : fresh'[x] = fresh[x]
      BY DEF Drawn
    <2>2. v = Draw(r) => fresh[r] < Draws[r]
      BY DEF CanDraw
    <2>3. Draws \in [Roles -> Nat]
      BY CallerAssumption
    <2> HIDE DEF Draw
    <2>. QED  BY <2>1, <2>2, <2>3
  <1>3. Fresh \subseteq Fresh'
    <2> SUFFICES ASSUME NEW x \in Value, x.n < fresh[x.by] PROVE x.n < fresh'[x.by]
      BY DEF Fresh
    <2>1. x.by \in Roles /\ x.n \in Nat
      BY DEF Value
    <2>. QED  BY <1>1, <1>2, <2>1
  <1>4. v = Draw(r) => v \in By(r, Fresh')
    <2> SUFFICES ASSUME v = Draw(r) PROVE v \in By(r, Fresh')
      OBVIOUS
    <2>1. v \in Value /\ v.n = fresh[r] /\ v.by = r
      BY DEF Draw, Value
    <2>2. fresh'[r] = fresh[r] + 1
      BY DEF Drawn
    <2>. QED  BY <2>1, <2>2 DEF Fresh, By
  <1>. QED  BY <1>1, <1>2, <1>3, <1>4

\* Drawing nothing.
LEMMA SameDraws == ASSUME UNCHANGED fresh PROVE Fresh' = Fresh
  BY DEF Fresh

\* Objects made of values of F are made of values of a larger set.
LEMMA TypesGrow ==
  ASSUME NEW F, NEW G, F \subseteq G, NEW r
  PROVE  /\ By(r, F) \subseteq By(r, G)
         /\ PublicKeys(By(r, F)) \subseteq PublicKeys(By(r, G))
         /\ SecretType(F) \subseteq SecretType(G)
         /\ RelationType(r, F) \subseteq RelationType(r, G)
         /\ HandshakeType(r, F) \subseteq HandshakeType(r, G)
  <1>1. By(r, F) \subseteq By(r, G) /\ By(Other(r), F) \subseteq By(Other(r), G)
    BY DEF By
  <1>2. /\ PublicKeys(F) \subseteq PublicKeys(G)
        /\ PublicKeys(By(r, F)) \subseteq PublicKeys(By(r, G))
        /\ PublicKeys(By(Other(r), F)) \subseteq PublicKeys(By(Other(r), G))
    BY <1>1 DEF PublicKeys
  <1>3. SecretType(F) \subseteq SecretType(G)
    <2>1. SUBSET PublicKeys(F) \subseteq SUBSET PublicKeys(G)
      BY <1>2
    <2>. QED  BY <2>1 DEF SecretType
  <1>4. RelationType(r, F) \subseteq RelationType(r, G)
    BY <1>1 DEF RelationType, OrNil
  <1>5. HandshakeType(r, F) \subseteq HandshakeType(r, G)
    BY <1>1, <1>2, <1>3 DEF HandshakeType, OrNil
  <1>. QED  BY <1>1, <1>2, <1>3, <1>4, <1>5

\* None of the objects is Nil, whatever was drawn.
LEMMA NilIsNoObject ==
  ASSUME NEW F, F \subseteq Value, NEW r \in Roles
  PROVE  /\ Nil \notin F /\ Nil \notin By(r, F) /\ Nil \notin PublicKeys(By(r, F))
         /\ Nil \notin SecretType(F) /\ Nil \notin RelationType(r, F) /\ Nil \notin HandshakeType(r, F)
  <1>1. /\ By(r, F) \subseteq Value
        /\ PublicKeys(By(r, F)) \subseteq PublicKeys(Value)
    BY DEF By, PublicKeys
  <1>. QED  BY <1>1, TypesGrow, NilAssumption

\* Drawn values are random values, before and after a step.
LEMMA FreshValues == Fresh \subseteq Value /\ Fresh' \subseteq Value
  BY DEF Fresh

----------------------------------------------------------------------------
(* What a call of one end may do. *)

\* The challenges that tokens have told r.
Announced(r) ==
  {m.challenge : m \in Inbox(r, "auth")}
    \union {m.challenge1 : m \in {x \in Inbox(R, "request") : r = R}}
    \union {m.challenge2 : m \in {x \in Inbox(I, "reply") : r = I}}

RelationEvolves(r, rel) ==
  /\ rel \in RelationType(r, Fresh')
  /\ relation[r] # Nil =>
       /\ rel.lchallenge = relation[r].lchallenge
       /\ relation[r].rchallenge # Nil => rel.rchallenge # Nil
  /\ \/ rel.rchallenge = Nil
     \/ rel.rchallenge \in Announced(r)
     \/ relation[r] # Nil /\ rel.rchallenge = relation[r].rchallenge

\* The key pair stays; the replier's key of the peer is that of a request, unless one
\* was refused.
HandshakeEvolves(r, rel, hs) ==
  /\ hs \in OrNil(HandshakeType(r, Fresh'))
  /\ hs # Nil => relation[r] # Nil
  /\ handshake[r] # Nil => hs # Nil /\ hs.ldh = handshake[r].ldh
  /\ r = R /\ hs # Nil =>
       /\ rel.rchallenge # Nil
       /\ \/ handshake[R] # Nil /\ hs.rdh = handshake[R].rdh
          \/ \E m \in Inbox(R, "request") : hs.rdh = m.dh1
          \/ relation[R] # Nil /\ \E m \in Inbox(R, "request") : ~RequestAccepted(m)

\* A secret is new only with a reply, or with the peer's key and challenge at hand.
SecretEvolves(r, rel, hs) ==
  hs # Nil =>
    /\ handshake[r] # Nil /\ handshake[r].secret # Nil => hs.secret # Nil
    /\ \/ hs.secret = IF handshake[r] = Nil THEN Nil ELSE handshake[r].secret
       \/ /\ r = I
          /\ \E m \in Inbox(I, "reply") :
               hs.secret = [keys |-> {Public(hs.ldh), m.dh2}, challenge1 |-> rel.lchallenge,
                            challenge2 |-> m.challenge2]
       \/ /\ r = R /\ handshake[R] # Nil /\ hs.rdh = handshake[R].rdh
          /\ hs.secret = [keys |-> {Public(hs.ldh), hs.rdh}, challenge1 |-> rel.rchallenge,
                          challenge2 |-> rel.lchallenge]

DerivedEvolves ==
  /\ derived' \in [Roles -> SUBSET SecretType(Fresh')]
  /\ \A r \in Roles : derived[r] \subseteq derived'[r]
  /\ derived'[R] \subseteq derived'[I]

Sends(r, rel, hs, m) ==
  /\ m.from = r
  /\ \/ m.type = "auth" /\ m.challenge = rel.lchallenge
     \/ /\ m.type = "request" /\ r = I /\ hs # Nil
        /\ m.cred \in Credentials /\ m.dh1 = Public(hs.ldh) /\ m.challenge1 = rel.lchallenge
     \/ /\ m.type = "reply" /\ r = R /\ hs # Nil
        /\ m.cred \in Credentials /\ m.dh2 = Public(hs.ldh) /\ m.challenge2 = rel.lchallenge
     \/ /\ m.type = "final" /\ r = I
        /\ [keys |-> {m.signature.dh1, m.signature.dh2}, challenge1 |-> m.challenge1,
            challenge2 |-> m.challenge2] \in derived'[I]

CallOutcome(r, rel, hs) ==
  /\ DOMAIN relation' = Roles /\ relation'[r] = rel /\ relation'[Other(r)] = relation[Other(r)]
  /\ DOMAIN handshake' = Roles /\ handshake'[r] = hs /\ handshake'[Other(r)] = handshake[Other(r)]
  /\ UNCHANGED <<document, returned, aborted>>
  /\ fresh' \in [Roles -> Nat] /\ Fresh \subseteq Fresh' /\ \A x \in Roles : fresh'[x] <= Draws[x]
  /\ RelationEvolves(r, rel)
  /\ HandshakeEvolves(r, rel, hs)
  /\ SecretEvolves(r, rel, hs)
  /\ DerivedEvolves
  /\ msgs \subseteq msgs' /\ \A m \in msgs' : m \in msgs \/ Sends(r, rel, hs, m)

Outcome(r) == \E rel, hs : CallOutcome(r, rel, hs)

\* The other end keeps its entries, and what is drawn, derived and sent only grows: what
\* remains to be shown of a call is its own entries.
LEMMA QuietValues ==
  ASSUME ClassicInv, UNCHANGED <<fresh, derived>>
  PROVE  /\ fresh' \in [Roles -> Nat] /\ Fresh' = Fresh /\ \A x \in Roles : fresh'[x] <= Draws[x]
         /\ DerivedEvolves
  <1>1. Fresh' = Fresh
    BY SameDraws
  <1>. QED  BY <1>1 DEF ClassicInv, TypeOK, DerivedEvolves, ReplierSecretIsDerived, I, R

\* Values that were derived stay well typed when more is drawn.
LEMMA DerivedKept ==
  ASSUME ClassicInv, Fresh \subseteq Fresh', UNCHANGED derived
  PROVE  DerivedEvolves
  <1>1. SecretType(Fresh) \subseteq SecretType(Fresh')
    BY TypesGrow
  <1>. QED  BY <1>1 DEF ClassicInv, TypeOK, DerivedEvolves, ReplierSecretIsDerived, I, R

\* The objects of r are well typed, also when more is drawn.
LEMMA OwnObjects ==
  ASSUME ClassicInv, NEW r \in Roles, Fresh \subseteq Fresh'
  PROVE  /\ relation[r] \in OrNil(RelationType(r, Fresh)) /\ relation[r] \in OrNil(RelationType(r, Fresh'))
         /\ handshake[r] \in OrNil(HandshakeType(r, Fresh))
         /\ handshake[r] \in OrNil(HandshakeType(r, Fresh'))
         /\ handshake[r] # Nil => relation[r] # Nil
  <1>1. /\ RelationType(r, Fresh) \subseteq RelationType(r, Fresh')
        /\ HandshakeType(r, Fresh) \subseteq HandshakeType(r, Fresh')
    BY TypesGrow
  <1>. QED  BY <1>1 DEF ClassicInv, TypeOK, OrNil

\* What Access Control handed over is part of a credential.
LEMMA CredentialSound ==
  ASSUME ClassicInv, NEW r \in Roles
  PROVE  Credential(r) \in Credentials
  <1>1. document[r] \in OrNil(Documents["initiator"] \union Documents["replier"])
    BY DEF ClassicInv, TypeOK, Roles, OrNil
  <1>. QED  BY <1>1 DEF Credential, Credentials

\* validate_remote_identity.
LEMMA MeetingOutcome ==
  ASSUME ClassicInv, NEW r \in Roles, NEW c, c = Nil \/ \E m \in Inbox(r, "auth") : c = m.challenge,
         ValidateRemoteIdentity(r, c)
  PROVE  Outcome(r)
  <1> DEFINE old == relation[r]
             own == OwnChallenge(r)
             rc == IF c # Nil \/ old = Nil THEN c ELSE old.rchallenge
             rel == [lchallenge |-> own, rchallenge |-> rc]
             hs == handshake[r]
             t == [type |-> "auth", from |-> r, challenge |-> own]
  <1>1. /\ own = Draw(r) => CanDraw(r)
        /\ relation' = [relation EXCEPT ![r] = rel]
        /\ Drawn(r, own)
        /\ msgs' = IF c = Nil THEN msgs \union {t} ELSE msgs
        /\ UNCHANGED <<document, cert, handshake, derived, returned, aborted>>
    BY DEF ValidateRemoteIdentity
  <1>2. /\ fresh' \in [Roles -> Nat] /\ Fresh \subseteq Fresh' /\ \A x \in Roles : fresh'[x] <= Draws[x]
        /\ own = Draw(r) => own \in By(r, Fresh')
    BY <1>1, DrawGrows DEF ClassicInv, TypeOK
  <1>3. /\ old \in OrNil(RelationType(r, Fresh')) /\ hs \in OrNil(HandshakeType(r, Fresh'))
        /\ hs # Nil => old # Nil
    BY <1>2, OwnObjects
  <1>4. old # Nil => own = old.lchallenge /\ old.lchallenge \in By(r, Fresh')
                     /\ old.rchallenge \in OrNil(By(Other(r), Fresh'))
    BY <1>3 DEF OwnChallenge, OrNil, RelationType
  <1>5. own \in By(r, Fresh')
    BY <1>2, <1>4 DEF OwnChallenge
  <1>6. c \in OrNil(By(Other(r), Fresh'))
    <2>1. ASSUME NEW m \in Inbox(r, "auth") PROVE m.challenge \in By(Other(r), Fresh)
      BY DEF Inbox, ClassicInv, TokensOK, TokenOK
    <2>. QED  BY <1>2, <2>1 DEF OrNil, By
  <1>7. rc \in OrNil(By(Other(r), Fresh'))
    BY <1>4, <1>6 DEF OrNil
  <1>8. rel \in RelationType(r, Fresh')
    BY <1>5, <1>7 DEF RelationType
  <1>9. RelationEvolves(r, rel)
    <2>1. rc = Nil \/ rc \in Announced(r) \/ (old # Nil /\ rc = old.rchallenge)
      BY DEF Announced
    <2>2. old # Nil /\ old.rchallenge # Nil => rc # Nil
      OBVIOUS
    <2>3. rel.lchallenge = own /\ rel.rchallenge = rc
      OBVIOUS
    <2> HIDE DEF rc, own, rel
    <2>. QED  BY <1>4, <1>8, <2>1, <2>2, <2>3 DEF RelationEvolves
  <1>10. HandshakeEvolves(r, rel, hs)
    <2>1. r = R /\ hs # Nil => rel.rchallenge # Nil
      BY <1>3 DEF ClassicInv, ReplierKnows
    <2> HIDE DEF rel
    <2>. QED  BY <1>3, <2>1 DEF HandshakeEvolves
  <1>11. SecretEvolves(r, rel, hs)
    BY DEF SecretEvolves
  <1>12. \A m \in msgs' : m \in msgs \/ Sends(r, rel, hs, m)
    BY <1>1 DEF Sends
  <1>13. DerivedEvolves
    BY <1>1, <1>2, DerivedKept
  <1>14. /\ DOMAIN relation' = Roles /\ relation'[r] = rel /\ relation'[Other(r)] = relation[Other(r)]
         /\ DOMAIN handshake' = Roles /\ handshake'[r] = hs
         /\ handshake'[Other(r)] = handshake[Other(r)]
    BY <1>1, TwoRoles DEF ClassicInv, TypeOK
  <1>15. msgs \subseteq msgs'
    BY <1>1
  <1> HIDE DEF rel, hs
  <1>. QED  BY <1>1, <1>2, <1>9, <1>10, <1>11, <1>12, <1>13, <1>14, <1>15 DEF Outcome, CallOutcome

\* The key pair of a handshake is drawn once.
LEMMA KeyPairSound ==
  ASSUME ClassicInv, NEW r \in Roles, NEW key, key = KeyPair(FindOrCreate(r), r),
         key = Draw(r) => CanDraw(r), Drawn(r, key)
  PROVE  /\ fresh' \in [Roles -> Nat] /\ Fresh \subseteq Fresh' /\ \A x \in Roles : fresh'[x] <= Draws[x]
         /\ key \in By(r, Fresh')
         /\ handshake[r] # Nil => key = handshake[r].ldh
  <1>1. /\ fresh' \in [Roles -> Nat] /\ Fresh \subseteq Fresh' /\ \A x \in Roles : fresh'[x] <= Draws[x]
        /\ key = Draw(r) => key \in By(r, Fresh')
    BY DrawGrows DEF ClassicInv, TypeOK
  <1>2. handshake[r] # Nil => handshake[r].ldh \in By(r, Fresh') /\ handshake[r].ldh # Nil
    <2>1. handshake[r] \in OrNil(HandshakeType(r, Fresh'))
      BY <1>1, OwnObjects
    <2>2. handshake[r] # Nil => handshake[r].ldh \in By(r, Fresh')
      BY <2>1 DEF OrNil, HandshakeType
    <2>. QED  BY <2>2, FreshValues, NilIsNoObject
  <1>. QED  BY <1>1, <1>2 DEF KeyPair, FindOrCreate, NoHandshake

\* begin_handshake_request.
LEMMA RequestOutcome ==
  ASSUME ClassicInv, BeginHandshakeRequest
  PROVE  Outcome(I)
  <1> DEFINE o == FindOrCreate(I)
             key == KeyPair(o, I)
             hs == [o EXCEPT !.ldh = key, !.hash_c1 = Credential(I)]
             rel == relation[I]
             t == Request(hs)
  <1>0. I \in Roles
    BY TwoRoles
  <1>1. /\ rel # Nil
        /\ key = Draw(I) => CanDraw(I)
        /\ handshake' = [handshake EXCEPT ![I] = hs]
        /\ Drawn(I, key)
        /\ msgs' = msgs \union {t}
        /\ UNCHANGED <<document, relation, cert, derived, returned, aborted>>
    BY DEF BeginHandshakeRequest, I
  <1>2. /\ fresh' \in [Roles -> Nat] /\ Fresh \subseteq Fresh' /\ \A x \in Roles : fresh'[x] <= Draws[x]
        /\ key \in By(I, Fresh')
        /\ handshake[I] # Nil => key = handshake[I].ldh
    BY <1>0, <1>1, KeyPairSound
  <1>3. /\ rel \in RelationType(I, Fresh') /\ handshake[I] \in OrNil(HandshakeType(I, Fresh'))
    BY <1>0, <1>1, <1>2, OwnObjects DEF OrNil
  <1>4. /\ hs \in HandshakeType(I, Fresh') /\ hs.ldh = key /\ hs.hash_c1 = Credential(I)
        /\ hs.secret = IF handshake[I] = Nil THEN Nil ELSE handshake[I].secret
    <2>1. Credential(I) \in OrNil(Credentials)
      BY <1>0, CredentialSound DEF OrNil
    <2>2. CASE handshake[I] = Nil
      BY <1>2, <2>1, <2>2 DEF FindOrCreate, NoHandshake, HandshakeType, OrNil
    <2>3. CASE handshake[I] # Nil
      <3>1. o = handshake[I] /\ o \in HandshakeType(I, Fresh')
        BY <1>3, <2>3 DEF FindOrCreate, OrNil
      <3> HIDE DEF o, key
      <3>2. /\ hs \in HandshakeType(I, Fresh') /\ hs.ldh = key /\ hs.hash_c1 = Credential(I)
            /\ hs.secret = o.secret
        BY <1>2, <2>1, <3>1 DEF HandshakeType
      <3>. QED  BY <2>3, <3>1, <3>2
    <2>. QED  BY <2>2, <2>3
  <1> HIDE DEF hs, key
  <1>5. /\ t.type = "request" /\ t.from = I /\ t.cred = hs.hash_c1
        /\ t.dh1 = Public(hs.ldh) /\ t.challenge1 = rel.lchallenge
    BY DEF Request, I
  <1>6. hs # Nil
    BY <1>0, <1>4, FreshValues, NilIsNoObject
  <1>7. RelationEvolves(I, rel)
    BY <1>1, <1>3 DEF RelationEvolves
  <1>8. HandshakeEvolves(I, rel, hs)
    BY <1>1, <1>2, <1>4, <1>6, TwoRoles DEF HandshakeEvolves, OrNil
  <1>9. SecretEvolves(I, rel, hs)
    BY <1>4 DEF SecretEvolves
  <1>10. \A m \in msgs' : m \in msgs \/ Sends(I, rel, hs, m)
    BY <1>0, <1>1, <1>4, <1>5, <1>6, CredentialSound DEF Sends
  <1>11. DerivedEvolves
    BY <1>1, <1>2, DerivedKept
  <1>12. /\ DOMAIN relation' = Roles /\ relation'[I] = rel /\ relation'[Other(I)] = relation[Other(I)]
         /\ DOMAIN handshake' = Roles /\ handshake'[I] = hs
         /\ handshake'[Other(I)] = handshake[Other(I)]
    BY <1>0, <1>1, TwoRoles DEF ClassicInv, TypeOK
  <1>13. msgs \subseteq msgs'
    BY <1>1
  <1>. QED  BY <1>1, <1>2, <1>7, <1>8, <1>9, <1>10, <1>11, <1>12, <1>13 DEF Outcome, CallOutcome


\* The rest of a call's outcome, where it draws nothing and derives nothing.
LEMMA QuietCall ==
  ASSUME ClassicInv, NEW r \in Roles, UNCHANGED <<document, returned, aborted, fresh, derived, msgs>>,
         DOMAIN relation' = Roles, relation'[Other(r)] = relation[Other(r)],
         DOMAIN handshake' = Roles, handshake'[Other(r)] = handshake[Other(r)],
         RelationEvolves(r, relation'[r]), HandshakeEvolves(r, relation'[r], handshake'[r]),
         SecretEvolves(r, relation'[r], handshake'[r])
  PROVE  Outcome(r)
  <1>1. fresh' \in [Roles -> Nat] /\ Fresh \subseteq Fresh' /\ \A x \in Roles : fresh'[x] <= Draws[x]
    BY QuietValues
  <1>2. DerivedEvolves
    BY QuietValues
  <1>3. msgs \subseteq msgs' /\ \A m \in msgs' : m \in msgs
    OBVIOUS
  <1>. QED  BY <1>1, <1>2, <1>3 DEF Outcome, CallOutcome

\* A relation that stays as it is.
LEMMA RelationStays ==
  ASSUME ClassicInv, NEW r \in Roles, relation[r] # Nil, UNCHANGED relation, Fresh \subseteq Fresh'
  PROVE  /\ DOMAIN relation' = Roles /\ relation'[Other(r)] = relation[Other(r)]
         /\ RelationEvolves(r, relation'[r])
  <1>1. relation[r] \in RelationType(r, Fresh')
    BY OwnObjects DEF OrNil
  <1>. QED  BY <1>1 DEF RelationEvolves, ClassicInv, TypeOK

\* The challenge of a token is remembered if none is known yet.
LEMMA LearnedChallenge ==
  ASSUME ClassicInv, NEW r \in Roles, relation[r] # Nil, NEW c \in Announced(r),
         c \in By(Other(r), Fresh), LearnChallenge(r, c), Fresh \subseteq Fresh'
  PROVE  /\ DOMAIN relation' = Roles /\ relation'[Other(r)] = relation[Other(r)]
         /\ RelationEvolves(r, relation'[r])
         /\ relation'[r].lchallenge = relation[r].lchallenge /\ relation'[r].rchallenge # Nil
  <1> DEFINE rc == IF relation[r].rchallenge = Nil THEN c ELSE relation[r].rchallenge
             rel == [relation[r] EXCEPT !.rchallenge = rc]
  <1>1. relation[r] \in RelationType(r, Fresh')
    BY OwnObjects DEF OrNil
  <1>2. relation' = [relation EXCEPT ![r] = rel]
    BY DEF LearnChallenge
  <1>3. rc \in By(Other(r), Fresh') /\ rc # Nil
    <2>1. By(Other(r), Fresh) \subseteq By(Other(r), Fresh')
      BY TypesGrow
    <2>2. relation[r].rchallenge \in OrNil(By(Other(r), Fresh'))
      BY <1>1 DEF RelationType
    <2>3. rc \in By(Other(r), Fresh')
      BY <2>1, <2>2 DEF OrNil
    <2>. QED  BY <2>3, FreshValues, NilIsNoObject, TwoRoles
  <1>4. rc \in Announced(r) \/ rc = relation[r].rchallenge
    OBVIOUS
  <1> HIDE DEF rc
  <1>5. /\ rel \in RelationType(r, Fresh')
        /\ rel.lchallenge = relation[r].lchallenge /\ rel.rchallenge = rc
    BY <1>1, <1>3 DEF RelationType, OrNil
  <1> HIDE DEF rel
  <1>6. RelationEvolves(r, rel)
    BY <1>3, <1>4, <1>5 DEF RelationEvolves
  <1>7. relation'[r] = rel /\ DOMAIN relation' = Roles /\ relation'[Other(r)] = relation[Other(r)]
    BY <1>2, TwoRoles DEF ClassicInv, TypeOK
  <1>. QED  BY <1>3, <1>5, <1>6, <1>7

\* What tokens carry, by their class.
LEMMA RequestSound ==
  ASSUME ClassicInv, NEW m \in Inbox(R, "request")
  PROVE  /\ m.cred \in Credentials /\ m.dh1 \in PublicKeys(By(I, Fresh))
         /\ m.challenge1 \in By(I, Fresh) /\ m.challenge1 \in Announced(R)
  BY DEF Inbox, ClassicInv, TokensOK, TokenOK, Announced

\* What a reply carries.
LEMMA ReplySound ==
  ASSUME ClassicInv, NEW m \in Inbox(I, "reply")
  PROVE  /\ m.cred \in Credentials /\ m.dh2 \in PublicKeys(By(R, Fresh))
         /\ m.challenge2 \in By(R, Fresh) /\ m.challenge2 \in Announced(I)
  BY DEF Inbox, ClassicInv, TokensOK, TokenOK, Announced

\* begin_handshake_reply with a request that is refused.
LEMMA RefusedRequestOutcome ==
  ASSUME ClassicInv, NEW m \in Inbox(R, "request"), RefuseHandshakeRequest(m)
  PROVE  Outcome(R)
  <1> DEFINE hs == IF handshake[R] = Nil THEN Nil
                   ELSE [handshake[R] EXCEPT !.hash_c1 = m.cred, !.rdh = Nil]
  <1>0. R \in Roles /\ Other(R) = I
    BY TwoRoles
  <1>1. /\ relation[R] # Nil /\ ~RequestAccepted(m)
        /\ handshake' = [handshake EXCEPT ![R] = hs]
        /\ UNCHANGED <<document, relation, fresh, msgs, derived, returned, aborted>>
    BY DEF RefuseHandshakeRequest, R
  <1>2. Fresh' = Fresh
    BY <1>1, SameDraws
  <1>3. /\ DOMAIN relation' = Roles /\ relation'[Other(R)] = relation[Other(R)]
        /\ RelationEvolves(R, relation'[R])
    BY <1>0, <1>1, <1>2, RelationStays
  <1>4. /\ hs \in OrNil(HandshakeType(R, Fresh'))
        /\ handshake[R] # Nil => hs # Nil /\ hs.ldh = handshake[R].ldh /\ hs.secret = handshake[R].secret
        /\ handshake[R] = Nil => hs = Nil
    <2>1. CASE handshake[R] = Nil
      BY <2>1 DEF OrNil
    <2>2. CASE handshake[R] # Nil
      <3>1. handshake[R] \in HandshakeType(R, Fresh')
        BY <1>0, <1>2, <2>2, OwnObjects DEF OrNil
      <3>2. m.cred \in Credentials
        BY RequestSound
      <3>3. hs = [handshake[R] EXCEPT !.hash_c1 = m.cred, !.rdh = Nil]
        BY <2>2
      <3>4. /\ hs \in HandshakeType(R, Fresh') /\ hs.ldh = handshake[R].ldh
            /\ hs.secret = handshake[R].secret
        BY <3>1, <3>2, <3>3 DEF HandshakeType, OrNil
      <3>5. hs # Nil
        BY <1>0, <3>4, FreshValues, NilIsNoObject
      <3>. QED  BY <2>2, <3>4, <3>5 DEF OrNil
    <2>. QED  BY <2>1, <2>2
  <1> HIDE DEF hs
  <1>5. DOMAIN handshake' = Roles /\ handshake'[Other(R)] = handshake[Other(R)] /\ handshake'[R] = hs
    BY <1>0, <1>1, TwoRoles DEF ClassicInv, TypeOK
  <1>6. HandshakeEvolves(R, relation'[R], hs)
    <2>1. hs # Nil => relation'[R].rchallenge # Nil
      BY <1>1, <1>4 DEF ClassicInv, ReplierKnows
    <2>. QED  BY <1>1, <1>4, <2>1 DEF HandshakeEvolves
  <1>7. SecretEvolves(R, relation'[R], hs)
    BY <1>4 DEF SecretEvolves
  <1>. QED  BY <1>0, <1>1, <1>3, <1>5, <1>6, <1>7, QuietCall

\* begin_handshake_reply: a reply is sent, or signing it fails.
LEMMA ReplyOutcome ==
  ASSUME ClassicInv, NEW m \in Inbox(R, "request"), BeginHandshakeReply(m)
  PROVE  Outcome(R)
  <1> DEFINE o == FindOrCreate(R)
             key == KeyPair(o, R)
             hs == [o EXCEPT !.ldh = key, !.rdh = m.dh1, !.hash_c1 = m.cred, !.hash_c2 = Credential(R)]
             t == Reply(hs, m)
             kept == IF handshake[R] = Nil THEN Nil ELSE hs
  <1>0. R \in Roles /\ Other(R) = I
    BY TwoRoles
  <1>1. /\ relation[R] # Nil
        /\ key = Draw(R) => CanDraw(R)
        /\ \/ handshake' = [handshake EXCEPT ![R] = hs] /\ msgs' = msgs \union {t}
           \/ handshake' = [handshake EXCEPT ![R] = kept] /\ UNCHANGED msgs
        /\ Drawn(R, key)
        /\ LearnChallenge(R, m.challenge1)
        /\ UNCHANGED <<document, derived, returned, aborted>>
    BY DEF BeginHandshakeReply, R
  <1>2. /\ fresh' \in [Roles -> Nat] /\ Fresh \subseteq Fresh' /\ \A x \in Roles : fresh'[x] <= Draws[x]
        /\ key \in By(R, Fresh')
        /\ handshake[R] # Nil => key = handshake[R].ldh
    BY <1>0, <1>1, KeyPairSound
  <1>3. handshake[R] \in OrNil(HandshakeType(R, Fresh'))
    BY <1>0, <1>2, OwnObjects
  <1>4. /\ hs \in HandshakeType(R, Fresh') /\ hs.ldh = key /\ hs.rdh = m.dh1 /\ hs.hash_c2 = Credential(R)
        /\ hs.secret = IF handshake[R] = Nil THEN Nil ELSE handshake[R].secret
    <2>1. Credential(R) \in OrNil(Credentials) /\ m.cred \in OrNil(Credentials)
      BY <1>0, CredentialSound, RequestSound DEF OrNil
    <2>2. m.dh1 \in OrNil(PublicKeys(By(Other(R), Fresh')))
      <3>1. PublicKeys(By(I, Fresh)) \subseteq PublicKeys(By(I, Fresh'))
        BY <1>2, TypesGrow
      <3>. QED  BY <1>0, <3>1, RequestSound DEF OrNil
    <2>3. CASE handshake[R] = Nil
      <3>0. o = NoHandshake
        BY <2>3 DEF FindOrCreate
      <3> HIDE DEF o, key
      <3>. QED  BY <1>2, <2>1, <2>2, <2>3, <3>0 DEF NoHandshake, HandshakeType, OrNil
    <2>4. CASE handshake[R] # Nil
      <3>1. o = handshake[R] /\ o \in HandshakeType(R, Fresh')
        BY <1>3, <2>4 DEF FindOrCreate, OrNil
      <3> HIDE DEF o, key
      <3>2. /\ hs \in HandshakeType(R, Fresh') /\ hs.ldh = key /\ hs.rdh = m.dh1
            /\ hs.hash_c2 = Credential(R) /\ hs.secret = o.secret
        BY <1>2, <2>1, <2>2, <3>1 DEF HandshakeType
      <3>. QED  BY <2>4, <3>1, <3>2
    <2>. QED  BY <2>3, <2>4
  <1> HIDE DEF hs, key
  <1>5. t.type = "reply" /\ t.from = R /\ t.cred = hs.hash_c2 /\ t.dh2 = Public(hs.ldh)
        /\ t.challenge2 = relation[R].lchallenge
    BY DEF Reply, R
  <1>6. hs # Nil
    BY <1>0, <1>4, FreshValues, NilIsNoObject
  <1>7. /\ DOMAIN relation' = Roles /\ relation'[Other(R)] = relation[Other(R)]
        /\ RelationEvolves(R, relation'[R])
        /\ relation'[R].lchallenge = relation[R].lchallenge /\ relation'[R].rchallenge # Nil
    BY <1>0, <1>1, <1>2, LearnedChallenge, RequestSound
  <1>8. /\ DOMAIN handshake' = Roles /\ handshake'[Other(R)] = handshake[Other(R)]
        /\ handshake'[R] = hs \/ handshake'[R] = kept
    BY <1>0, <1>1, TwoRoles DEF ClassicInv, TypeOK
  <1>9. HandshakeEvolves(R, relation'[R], hs) /\ HandshakeEvolves(R, relation'[R], kept)
    <2>1. HandshakeEvolves(R, relation'[R], hs)
      BY <1>1, <1>2, <1>4, <1>6, <1>7 DEF HandshakeEvolves, OrNil
    <2>. QED  BY <2>1 DEF HandshakeEvolves, OrNil
  <1>10. SecretEvolves(R, relation'[R], hs) /\ SecretEvolves(R, relation'[R], kept)
    <2>1. SecretEvolves(R, relation'[R], hs)
      BY <1>4 DEF SecretEvolves
    <2>. QED  BY <2>1 DEF SecretEvolves
  <1>11. \A x \in msgs' : x \in msgs \/ Sends(R, relation'[R], handshake'[R], x)
    <2>1. CASE handshake' = [handshake EXCEPT ![R] = hs] /\ msgs' = msgs \union {t}
      <3>1. handshake'[R] = hs
        BY <1>0, <2>1 DEF ClassicInv, TypeOK
      <3>2. t.cred \in Credentials
        BY <1>0, <1>4, <1>5, CredentialSound
      <3> HIDE DEF t
      <3>3. Sends(R, relation'[R], hs, t)
        BY <1>5, <1>6, <1>7, <3>2 DEF Sends
      <3>. QED  BY <2>1, <3>1, <3>3
    <2>. QED  BY <1>1, <2>1
  <1>12. DerivedEvolves
    BY <1>1, <1>2, DerivedKept
  <1>13. msgs \subseteq msgs'
    BY <1>1
  <1> HIDE DEF kept
  <1>14. HandshakeEvolves(R, relation'[R], handshake'[R]) /\ SecretEvolves(R, relation'[R], handshake'[R])
    BY <1>8, <1>9, <1>10
  <1>. QED  BY <1>1, <1>2, <1>7, <1>8, <1>11, <1>12, <1>13, <1>14 DEF Outcome, CallOutcome

\* process_handshake with a reply that is refused.
LEMMA RefusedReplyOutcome ==
  ASSUME ClassicInv, NEW m \in Inbox(I, "reply"), RefuseReply(m)
  PROVE  Outcome(I)
  <1> DEFINE hs == [handshake[I] EXCEPT !.hash_c2 = m.cred, !.rdh = Nil]
  <1>0. I \in Roles /\ Other(I) = R
    BY TwoRoles
  <1>1. /\ handshake[I] # Nil
        /\ handshake' = [handshake EXCEPT ![I] = hs]
        /\ LearnChallenge(I, m.challenge2) \/ UNCHANGED relation
        /\ UNCHANGED <<document, fresh, msgs, derived, returned, aborted>>
    BY <1>0 DEF RefuseReply, I, ClassicInv, TypeOK
  <1>2. Fresh' = Fresh
    BY <1>1, SameDraws
  <1>3. handshake[I] \in HandshakeType(I, Fresh') /\ relation[I] # Nil
    BY <1>0, <1>1, <1>2, OwnObjects DEF OrNil
  <1>4. /\ DOMAIN relation' = Roles /\ relation'[Other(I)] = relation[Other(I)]
        /\ RelationEvolves(I, relation'[I])
    <2>1. CASE LearnChallenge(I, m.challenge2)
      BY <1>0, <1>2, <1>3, <2>1, LearnedChallenge, ReplySound
    <2>2. CASE UNCHANGED relation
      BY <1>0, <1>2, <1>3, <2>2, RelationStays
    <2>. QED  BY <1>1, <2>1, <2>2
  <1>5. /\ hs \in HandshakeType(I, Fresh') /\ hs.ldh = handshake[I].ldh
        /\ hs.secret = handshake[I].secret
    <2>1. m.cred \in Credentials
      BY ReplySound
    <2>. QED  BY <1>3, <2>1 DEF HandshakeType, OrNil
  <1> HIDE DEF hs
  <1>6. hs # Nil
    BY <1>0, <1>5, FreshValues, NilIsNoObject
  <1>7. DOMAIN handshake' = Roles /\ handshake'[Other(I)] = handshake[Other(I)] /\ handshake'[I] = hs
    BY <1>0, <1>1, TwoRoles DEF ClassicInv, TypeOK
  <1>8. HandshakeEvolves(I, relation'[I], hs)
    BY <1>1, <1>3, <1>5, <1>6, TwoRoles DEF HandshakeEvolves, OrNil
  <1>9. SecretEvolves(I, relation'[I], hs)
    BY <1>1, <1>5 DEF SecretEvolves
  <1>. QED  BY <1>0, <1>1, <1>4, <1>7, <1>8, <1>9, QuietCall

\* The initiator completes with a secret of its own key pair and the reply's key.
LEMMA InitiatorDerives ==
  ASSUME ClassicInv, NEW s \in SecretType(Fresh), UNCHANGED fresh,
         derived' = [derived EXCEPT ![I] = derived[I] \union {s}]
  PROVE  DerivedEvolves /\ s \in derived'[I]
  <1>1. Fresh' = Fresh
    BY SameDraws
  <1>2. derived \in [Roles -> SUBSET SecretType(Fresh)] /\ derived[R] \subseteq derived[I]
    BY DEF ClassicInv, TypeOK, ReplierSecretIsDerived, I, R
  <1>3. derived'[I] = derived[I] \union {s} /\ \A x \in Roles \ {I} : derived'[x] = derived[x]
    BY <1>2, TwoRoles
  <1>4. derived' \in [Roles -> SUBSET SecretType(Fresh')]
    BY <1>1, <1>2, TwoRoles
  <1>5. derived'[R] = derived[R]
    BY <1>3, TwoRoles
  <1>. QED  BY <1>2, <1>3, <1>4, <1>5 DEF DerivedEvolves

\* process_handshake with a reply that is accepted: a final is sent, or a step fails.
LEMMA ProcessReplyOutcome ==
  ASSUME ClassicInv, NEW m \in Inbox(I, "reply"), ProcessReply(m)
  PROVE  Outcome(I)
  <1> DEFINE hs == [handshake[I] EXCEPT !.rdh = m.dh2, !.hash_c2 = m.cred]
             s == SharedSecret(hs, relation[I].lchallenge, m.challenge2)
             done == [hs EXCEPT !.secret = s]
             t == Final(hs, m)
  <1>0. I \in Roles /\ R \in Roles /\ Other(I) = R
    BY TwoRoles
  <1>1. /\ handshake[I] # Nil
        /\ \/ /\ handshake' = [handshake EXCEPT ![I] = done]
              /\ derived' = [derived EXCEPT ![I] = derived[I] \union {s}]
              /\ msgs' = msgs \union {t}
           \/ /\ handshake' = [handshake EXCEPT ![I] = hs]
              /\ UNCHANGED <<msgs, derived>>
        /\ LearnChallenge(I, m.challenge2)
        /\ UNCHANGED <<document, fresh, returned, aborted>>
    BY DEF ProcessReply, Completed, I
  <1>2. Fresh' = Fresh
    BY <1>1, SameDraws
  <1>3. /\ handshake[I] \in HandshakeType(I, Fresh') /\ relation[I] # Nil
        /\ relation[I] \in RelationType(I, Fresh')
    BY <1>0, <1>1, <1>2, OwnObjects DEF OrNil
  <1>4. /\ DOMAIN relation' = Roles /\ relation'[Other(I)] = relation[Other(I)]
        /\ RelationEvolves(I, relation'[I])
        /\ relation'[I].lchallenge = relation[I].lchallenge
    BY <1>0, <1>1, <1>2, <1>3, LearnedChallenge, ReplySound
  <1>5. /\ hs \in HandshakeType(I, Fresh') /\ hs.ldh = handshake[I].ldh
        /\ hs.secret = handshake[I].secret /\ hs.rdh = m.dh2
    <2>1. m.cred \in Credentials /\ m.dh2 \in PublicKeys(By(Other(I), Fresh'))
      BY <1>0, <1>2, ReplySound
    <2>. QED  BY <1>3, <2>1 DEF HandshakeType, OrNil
  <1> HIDE DEF hs
  <1>6. s = [keys |-> {Public(hs.ldh), m.dh2}, challenge1 |-> relation[I].lchallenge,
             challenge2 |-> m.challenge2]
    BY <1>5 DEF SharedSecret
  <1>7. s \in SecretType(Fresh)
    <2>1. hs.ldh \in Fresh
      BY <1>2, <1>5 DEF HandshakeType, By
    <2>2. Public(hs.ldh) \in PublicKeys(Fresh)
      BY <2>1 DEF Public, PublicKeys
    <2>3. m.dh2 \in PublicKeys(Fresh) /\ m.challenge2 \in Fresh
      BY ReplySound DEF PublicKeys, By
    <2>4. relation[I].lchallenge \in Fresh
      BY <1>2, <1>3 DEF RelationType, By
    <2>5. {Public(hs.ldh), m.dh2} \in SUBSET PublicKeys(Fresh)
      BY <2>2, <2>3
    <2>. QED  BY <1>6, <2>3, <2>4, <2>5 DEF SecretType
  <1>8. /\ t.type = "final" /\ t.from = I /\ t.signature.dh1 = Public(hs.ldh) /\ t.signature.dh2 = m.dh2
        /\ t.challenge1 = relation[I].lchallenge /\ t.challenge2 = m.challenge2
    BY DEF Final, Signed, I
  <1> HIDE DEF s, t
  <1>9. done \in HandshakeType(I, Fresh') /\ done.ldh = hs.ldh /\ done.secret = s
    BY <1>2, <1>5, <1>7 DEF HandshakeType, OrNil
  <1> HIDE DEF done
  <1>10. hs # Nil /\ done # Nil /\ s # Nil
    BY <1>0, <1>5, <1>7, <1>9, FreshValues, NilIsNoObject
  <1>11. /\ DOMAIN handshake' = Roles /\ handshake'[Other(I)] = handshake[Other(I)]
         /\ handshake'[I] = hs \/ handshake'[I] = done
    BY <1>0, <1>1, TwoRoles DEF ClassicInv, TypeOK
  <1>12. HandshakeEvolves(I, relation'[I], hs) /\ HandshakeEvolves(I, relation'[I], done)
    BY <1>1, <1>3, <1>5, <1>9, <1>10, TwoRoles DEF HandshakeEvolves, OrNil
  <1>13. SecretEvolves(I, relation'[I], hs) /\ SecretEvolves(I, relation'[I], done)
    <2>1. SecretEvolves(I, relation'[I], hs)
      BY <1>1, <1>5 DEF SecretEvolves
    <2>2. done.secret = [keys |-> {Public(done.ldh), m.dh2}, challenge1 |-> relation'[I].lchallenge,
                         challenge2 |-> m.challenge2]
      BY <1>4, <1>6, <1>9
    <2>3. SecretEvolves(I, relation'[I], done)
      BY <1>9, <1>10, <2>2 DEF SecretEvolves
    <2>. QED  BY <2>1, <2>3
  <1>14. CASE handshake' = [handshake EXCEPT ![I] = hs] /\ UNCHANGED <<msgs, derived>>
    <2>1. handshake'[I] = hs
      BY <1>0, <1>14 DEF ClassicInv, TypeOK
    <2>. QED  BY <1>0, <1>1, <1>4, <1>11, <1>12, <1>13, <1>14, <2>1, QuietCall
  <1>15. CASE /\ handshake' = [handshake EXCEPT ![I] = done]
              /\ derived' = [derived EXCEPT ![I] = derived[I] \union {s}]
              /\ msgs' = msgs \union {t}
    <2>1. handshake'[I] = done
      BY <1>0, <1>15 DEF ClassicInv, TypeOK
    <2>2. DerivedEvolves /\ s \in derived'[I]
      BY <1>1, <1>7, <1>15, InitiatorDerives
    <2>3. Sends(I, relation'[I], done, t)
      BY <1>6, <1>8, <2>2 DEF Sends
    <2>4. msgs \subseteq msgs' /\ \A x \in msgs' : x \in msgs \/ Sends(I, relation'[I], done, x)
      BY <1>15, <2>3
    <2>5. fresh' \in [Roles -> Nat] /\ \A x \in Roles : fresh'[x] <= Draws[x]
      BY <1>1 DEF ClassicInv, TypeOK
    <2>. QED  BY <1>1, <1>2, <1>4, <1>11, <1>12, <1>13, <2>1, <2>2, <2>4, <2>5 DEF Outcome, CallOutcome
  <1>. QED  BY <1>1, <1>14, <1>15

\* The replier accepts a final only if it carries the secret that the replier derives.
LEMMA FinalCarriesSecret ==
  ASSUME ClassicInv, NEW m \in Inbox(R, "final"), handshake[R] # Nil, FinalAccepted(m)
  PROVE  [keys |-> {Public(handshake[R].ldh), handshake[R].rdh}, challenge1 |-> relation[R].rchallenge,
          challenge2 |-> relation[R].lchallenge] \in derived[I]
  <1>1. [keys |-> {m.signature.dh1, m.signature.dh2}, challenge1 |-> m.challenge1,
         challenge2 |-> m.challenge2] \in derived[I]
    BY DEF Inbox, ClassicInv, TokensOK, TokenOK
  <1>2. m.signature.dh1 = handshake[R].rdh /\ m.signature.dh2 = Public(handshake[R].ldh)
    <2>1. m.signature = Signed("initiator", "final", m.challenge1, m.challenge2, handshake[R].rdh,
                               Public(handshake[R].ldh), handshake[R])
      BY DEF FinalAccepted, R
    <2>. QED  BY <2>1 DEF Signed
  <1>3. m.challenge2 = relation[R].lchallenge /\ m.challenge1 = relation[R].rchallenge
    BY DEF FinalAccepted, Matches, R, ClassicInv, ReplierKnows
  <1>4. {m.signature.dh1, m.signature.dh2} = {Public(handshake[R].ldh), handshake[R].rdh}
    BY <1>2
  <1>. QED  BY <1>1, <1>3, <1>4

\* process_handshake with a final that is accepted.
LEMMA FinalOutcome ==
  ASSUME ClassicInv, NEW m \in Inbox(R, "final"), ProcessFinal(m), handshake[R].rdh # Nil
  PROVE  Outcome(R)
  <1> DEFINE hs == handshake[R]
             s == SharedSecret(hs, relation[R].rchallenge, relation[R].lchallenge)
             done == [hs EXCEPT !.secret = s]
  <1>0. R \in Roles /\ I \in Roles /\ Other(R) = I
    BY TwoRoles
  <1>1. /\ hs # Nil /\ FinalAccepted(m)
        /\ handshake' = [handshake EXCEPT ![R] = done]
        /\ derived' = [derived EXCEPT ![R] = derived[R] \union {s}]
        /\ UNCHANGED <<document, relation, fresh, msgs, returned, aborted>>
    BY DEF ProcessFinal, Completed, R
  <1>2. Fresh' = Fresh
    BY <1>1, SameDraws
  <1>3. hs \in HandshakeType(R, Fresh') /\ relation[R] # Nil
    BY <1>0, <1>1, <1>2, OwnObjects DEF OrNil
  <1>4. /\ DOMAIN relation' = Roles /\ relation'[Other(R)] = relation[Other(R)]
        /\ RelationEvolves(R, relation'[R])
    BY <1>0, <1>1, <1>2, <1>3, RelationStays
  <1>5. s = [keys |-> {Public(hs.ldh), hs.rdh}, challenge1 |-> relation[R].rchallenge,
             challenge2 |-> relation[R].lchallenge]
    BY DEF SharedSecret
  <1>6. s \in derived[I]
    BY <1>1, <1>5, FinalCarriesSecret
  <1>7. derived \in [Roles -> SUBSET SecretType(Fresh)] /\ derived[R] \subseteq derived[I]
    BY DEF ClassicInv, TypeOK, ReplierSecretIsDerived, I, R
  <1>8. s \in SecretType(Fresh)
    BY <1>0, <1>6, <1>7
  <1> HIDE DEF s
  <1>9. done \in HandshakeType(R, Fresh') /\ done.ldh = hs.ldh /\ done.rdh = hs.rdh /\ done.secret = s
    BY <1>2, <1>3, <1>8 DEF HandshakeType, OrNil
  <1> HIDE DEF done
  <1>10. done # Nil /\ s # Nil
    BY <1>0, <1>8, <1>9, FreshValues, NilIsNoObject
  <1>11. DOMAIN handshake' = Roles /\ handshake'[Other(R)] = handshake[Other(R)] /\ handshake'[R] = done
    BY <1>0, <1>1, TwoRoles DEF ClassicInv, TypeOK
  <1>12. HandshakeEvolves(R, relation'[R], done)
    <2>1. relation'[R].rchallenge # Nil
      BY <1>1 DEF ClassicInv, ReplierKnows
    <2>. QED  BY <1>1, <1>3, <1>9, <1>10, <2>1 DEF HandshakeEvolves, OrNil
  <1>13. SecretEvolves(R, relation'[R], done)
    <2>1. done.secret = [keys |-> {Public(done.ldh), done.rdh}, challenge1 |-> relation'[R].rchallenge,
                         challenge2 |-> relation'[R].lchallenge]
      BY <1>1, <1>5, <1>9
    <2>. QED  BY <1>1, <1>9, <1>10, <2>1 DEF SecretEvolves
  <1>14. DerivedEvolves
    <2>1. derived'[R] = derived[R] \union {s} /\ derived'[I] = derived[I]
      BY <1>0, <1>1, <1>7, TwoRoles
    <2>2. derived' \in [Roles -> SUBSET SecretType(Fresh')]
      BY <1>0, <1>1, <1>2, <1>7, <1>8
    <2>3. \A x \in Roles : derived[x] \subseteq derived'[x]
      BY <2>1, TwoRoles
    <2>. QED  BY <1>6, <1>7, <2>1, <2>2, <2>3 DEF DerivedEvolves
  <1>15. fresh' \in [Roles -> Nat] /\ \A x \in Roles : fresh'[x] <= Draws[x]
    BY <1>1 DEF ClassicInv, TypeOK
  <1>16. msgs \subseteq msgs' /\ \A x \in msgs' : x \in msgs
    BY <1>1
  <1>. QED  BY <1>1, <1>2, <1>4, <1>11, <1>12, <1>13, <1>14, <1>15, <1>16 DEF Outcome, CallOutcome

----------------------------------------------------------------------------
(* The steps. *)

\* A final reaches a replier that has no key of its peer.
Abort ==
  /\ handshake[R] # Nil /\ handshake[R].rdh = Nil
  /\ UNCHANGED <<document, relation, handshake, fresh, msgs, derived, returned>>

Return(r) == ReturnRemoteIdentity(r) \/ ReturnHandshakeHandle(r)

\* What a step can be.
LEMMA StepKinds ==
  ASSUME ClassicInv, Next
  PROVE  \/ \E r \in Roles : Outcome(r) \/ SetPermissions(r) \/ Return(r)
         \/ Abort
  <1>0. I \in Roles /\ R \in Roles
    BY TwoRoles
  <1>1. CASE \E r \in Roles : SetPermissions(r) \/ Return(r)
    BY <1>1
  <1>2. CASE \E r \in Roles : \/ ValidateRemoteIdentity(r, Nil)
                              \/ \E m \in Inbox(r, "auth") : ValidateRemoteIdentity(r, m.challenge)
    BY <1>2, MeetingOutcome
  <1>3. CASE BeginHandshakeRequest
    BY <1>0, <1>3, RequestOutcome
  <1>4. CASE \E m \in Inbox(R, "request") : RefuseHandshakeRequest(m) \/ BeginHandshakeReply(m)
    BY <1>0, <1>4, RefusedRequestOutcome, ReplyOutcome
  <1>5. CASE \E m \in Inbox(I, "reply") : RefuseReply(m) \/ ProcessReply(m)
    BY <1>0, <1>5, RefusedReplyOutcome, ProcessReplyOutcome
  <1>6. CASE \E m \in Inbox(R, "final") : ProcessFinal(m)
    <2>1. PICK m \in Inbox(R, "final") : ProcessFinal(m)
      BY <1>6
    <2>2. CASE handshake[R].rdh # Nil
      BY <1>0, <2>1, <2>2, FinalOutcome
    <2>3. CASE handshake[R].rdh = Nil
      <3>1. Abort
        BY <2>1, <2>3 DEF ProcessFinal, Abort, R
      <3>. QED  BY <3>1
    <2>. QED  BY <2>2, <2>3
  <1>. QED  BY <1>1, <1>2, <1>3, <1>4, <1>5, <1>6 DEF Next, Return, I, R

----------------------------------------------------------------------------
(* ClassicInv. *)

\* A token stays sound when more is drawn and derived.
LEMMA TokenStaysOK ==
  ASSUME NEW m, TokenOK(m), Fresh \subseteq Fresh', derived[I] \subseteq derived'[I]
  PROVE  TokenOK(m)'
  <1>1. \A r : /\ By(r, Fresh) \subseteq By(r, Fresh')
               /\ PublicKeys(By(r, Fresh)) \subseteq PublicKeys(By(r, Fresh'))
    BY TypesGrow
  <1>. QED  BY <1>1 DEF TokenOK

\* A token that a call sends is sound.
LEMMA SentIsSound ==
  ASSUME NEW r \in Roles, NEW rel, NEW hs, NEW m,
         rel \in RelationType(r, Fresh'), hs \in OrNil(HandshakeType(r, Fresh')), Sends(r, rel, hs, m)
  PROVE  TokenOK(m)'
  <1>1. rel.lchallenge \in By(r, Fresh')
    BY DEF RelationType
  <1>2. hs # Nil => Public(hs.ldh) \in PublicKeys(By(r, Fresh'))
    <2>1. hs # Nil => hs.ldh \in By(r, Fresh')
      BY DEF OrNil, HandshakeType
    <2>. QED  BY <2>1 DEF Public, PublicKeys
  <1>3. CASE m.type = "auth"
    BY <1>1, <1>3 DEF Sends, TokenOK
  <1>4. CASE m.type = "request"
    BY <1>1, <1>2, <1>4 DEF Sends, TokenOK
  <1>5. CASE m.type = "reply"
    BY <1>1, <1>2, <1>5 DEF Sends, TokenOK
  <1>6. CASE m.type = "final"
    BY <1>6 DEF Sends, TokenOK
  <1>. QED  BY <1>3, <1>4, <1>5, <1>6 DEF Sends

\* A call keeps ClassicInv.
LEMMA CallKeepsInv ==
  ASSUME ClassicInv, NEW r \in Roles, Outcome(r)
  PROVE  ClassicInv'
  <1>1. PICK rel, hs : CallOutcome(r, rel, hs)
    BY DEF Outcome
  <1>2. /\ DOMAIN relation' = Roles /\ relation'[r] = rel /\ relation'[Other(r)] = relation[Other(r)]
        /\ DOMAIN handshake' = Roles /\ handshake'[r] = hs /\ handshake'[Other(r)] = handshake[Other(r)]
        /\ UNCHANGED <<document, returned, aborted>>
        /\ fresh' \in [Roles -> Nat] /\ Fresh \subseteq Fresh' /\ \A x \in Roles : fresh'[x] <= Draws[x]
        /\ DerivedEvolves
        /\ msgs \subseteq msgs' /\ \A m \in msgs' : m \in msgs \/ Sends(r, rel, hs, m)
    BY <1>1 DEF CallOutcome
  <1>3. rel \in RelationType(r, Fresh') /\ hs \in OrNil(HandshakeType(r, Fresh'))
        /\ (r = R /\ hs # Nil => rel.rchallenge # Nil)
    BY <1>1 DEF CallOutcome, RelationEvolves, HandshakeEvolves
  <1>4. rel # Nil
    BY <1>3, FreshValues, NilIsNoObject
  <1>5. TypeOK'
    <2>1. ASSUME NEW x \in Roles
          PROVE  /\ relation'[x] \in OrNil(RelationType(x, Fresh'))
                 /\ handshake'[x] \in OrNil(HandshakeType(x, Fresh'))
                 /\ handshake'[x] # Nil => relation'[x] # Nil
      <3>1. CASE x = r
        BY <1>2, <1>3, <1>4, <3>1 DEF OrNil
      <3>2. CASE x = Other(r)
        BY <1>2, <3>2, OwnObjects
      <3>. QED  BY <3>1, <3>2, TwoRoles
    <2>2. \A x \in Roles : document'[x] \in OrNil(Documents[x])
      BY <1>2 DEF ClassicInv, TypeOK
    <2>3. DOMAIN document' = Roles
      BY <1>2 DEF ClassicInv, TypeOK
    <2>4. derived' \in [Roles -> SUBSET SecretType(Fresh')]
      BY <1>2 DEF DerivedEvolves
    <2>. QED  BY <1>2, <2>1, <2>2, <2>3, <2>4 DEF TypeOK
  <1>6. TokensOK'
    <2> SUFFICES ASSUME NEW m \in msgs' PROVE TokenOK(m)'
      BY DEF TokensOK
    <2>1. CASE m \in msgs
      <3>1. TokenOK(m)
        BY <2>1 DEF ClassicInv, TokensOK
      <3>2. derived[I] \subseteq derived'[I]
        BY <1>2, TwoRoles DEF DerivedEvolves
      <3>. QED  BY <1>2, <3>1, <3>2, TokenStaysOK
    <2>2. CASE Sends(r, rel, hs, m)
      BY <1>3, <2>2, SentIsSound
    <2>. QED  BY <1>2, <2>1, <2>2
  <1>7. ReplierKnows'
    <2>1. CASE r = R
      BY <1>2, <1>3, <2>1 DEF ReplierKnows
    <2>2. CASE r = I
      BY <1>2, <2>2, TwoRoles DEF ReplierKnows, ClassicInv
    <2>. QED  BY <2>1, <2>2, TwoRoles
  <1>8. ReplierSecretIsDerived'
    BY <1>2 DEF DerivedEvolves, ReplierSecretIsDerived, I, R
  <1>. QED  BY <1>5, <1>6, <1>7, <1>8 DEF ClassicInv

\* What is drawn, derived and sent stays as it is.
LEMMA ValuesStay ==
  ASSUME ClassicInv, UNCHANGED <<fresh, derived, msgs>>
  PROVE  TokensOK' /\ ReplierSecretIsDerived' /\ Fresh' = Fresh
  <1>1. Fresh' = Fresh
    BY SameDraws
  <1>2. TokensOK'
    <2> SUFFICES ASSUME NEW m \in msgs PROVE TokenOK(m)'
      BY DEF TokensOK
    <2>1. TokenOK(m)
      BY DEF ClassicInv, TokensOK
    <2>. QED  BY <1>1, <2>1, TokenStaysOK
  <1>. QED  BY <1>1, <1>2 DEF ClassicInv, ReplierSecretIsDerived

\* ClassicInv holds initially.
LEMMA InvHolds == Init => ClassicInv
  <1> SUFFICES ASSUME Init PROVE ClassicInv
    OBVIOUS
  <1>1. TypeOK
    <2>1. fresh \in [Roles -> Nat] /\ \A r \in Roles : fresh[r] <= Draws[r]
      BY CallerAssumption DEF Init
    <2>2. derived \in [Roles -> SUBSET SecretType(Fresh)]
      BY DEF Init
    <2>3. /\ \A r \in Roles : /\ document[r] \in OrNil(Documents[r])
                              /\ relation[r] \in OrNil(RelationType(r, Fresh))
                              /\ handshake[r] \in OrNil(HandshakeType(r, Fresh))
                              /\ handshake[r] # Nil => relation[r] # Nil
          /\ DOMAIN document = Roles /\ DOMAIN relation = Roles /\ DOMAIN handshake = Roles
      BY DEF Init, OrNil
    <2>. QED  BY <2>1, <2>2, <2>3 DEF TypeOK
  <1>2. TokensOK /\ ReplierKnows /\ ReplierSecretIsDerived
    BY TwoRoles DEF Init, TokensOK, ReplierKnows, ReplierSecretIsDerived, R
  <1>. QED  BY <1>1, <1>2 DEF ClassicInv

\* Every step keeps ClassicInv.
LEMMA InvKept == ClassicInv /\ [Next]_vars => ClassicInv'
  <1> SUFFICES ASSUME ClassicInv, [Next]_vars PROVE ClassicInv'
    OBVIOUS
  <1>1. ASSUME NEW r \in Roles, Outcome(r) PROVE ClassicInv'
    BY <1>1, CallKeepsInv
  <1>2. ASSUME UNCHANGED <<document, relation, handshake, fresh, msgs, derived>> PROVE ClassicInv'
    <2>1. TokensOK' /\ ReplierSecretIsDerived' /\ Fresh' = Fresh
      BY <1>2, ValuesStay
    <2>2. TypeOK'
      BY <1>2, <2>1 DEF ClassicInv, TypeOK
    <2>. QED  BY <1>2, <2>1, <2>2 DEF ClassicInv, ReplierKnows
  <1>3. ASSUME NEW r \in Roles, SetPermissions(r) PROVE ClassicInv'
    <2>1. TokensOK' /\ ReplierSecretIsDerived' /\ Fresh' = Fresh
      BY <1>3, ValuesStay DEF SetPermissions
    <2>2. DOMAIN document' = Roles /\ \A x \in Roles : document'[x] \in OrNil(Documents[x])
      BY <1>3 DEF SetPermissions, ClassicInv, TypeOK, OrNil
    <2>3. UNCHANGED <<relation, handshake, fresh, derived>>
      BY <1>3 DEF SetPermissions
    <2>4. TypeOK'
      BY <2>1, <2>2, <2>3 DEF ClassicInv, TypeOK
    <2>. QED  BY <2>1, <2>3, <2>4 DEF ClassicInv, ReplierKnows
  <1>4. ASSUME NEW r \in Roles, Return(r) PROVE ClassicInv'
    <2>1. /\ UNCHANGED <<document, fresh, derived, msgs>>
          /\ handshake' = [handshake EXCEPT ![r] = Nil]
          /\ relation' = [relation EXCEPT ![r] = Nil] \/ UNCHANGED relation
      BY <1>4 DEF Return, ReturnRemoteIdentity, ReturnHandshakeHandle
    <2>2. TokensOK' /\ ReplierSecretIsDerived' /\ Fresh' = Fresh
      BY <2>1, ValuesStay
    <2>3. /\ DOMAIN handshake' = Roles /\ DOMAIN relation' = Roles
          /\ handshake'[r] = Nil /\ relation'[r] \in {Nil, relation[r]}
          /\ \A x \in Roles \ {r} : handshake'[x] = handshake[x] /\ relation'[x] = relation[x]
      BY <2>1 DEF ClassicInv, TypeOK
    <2>4. TypeOK'
      <3>1. \A x \in Roles : /\ relation'[x] \in OrNil(RelationType(x, Fresh'))
                             /\ handshake'[x] \in OrNil(HandshakeType(x, Fresh'))
                             /\ handshake'[x] # Nil => relation'[x] # Nil
        BY <2>2, <2>3 DEF ClassicInv, TypeOK, OrNil
      <3>2. /\ \A x \in Roles : document'[x] \in OrNil(Documents[x]) /\ fresh'[x] <= Draws[x]
            /\ DOMAIN document' = Roles /\ fresh' \in [Roles -> Nat]
            /\ derived' \in [Roles -> SUBSET SecretType(Fresh')]
        BY <2>1, <2>2 DEF ClassicInv, TypeOK
      <3>. QED  BY <2>3, <3>1, <3>2 DEF TypeOK
    <2>5. ReplierKnows'
      BY <2>3, TwoRoles DEF ClassicInv, ReplierKnows
    <2>. QED  BY <2>2, <2>4, <2>5 DEF ClassicInv
  <1>5. CASE Abort
    BY <1>2, <1>5 DEF Abort
  <1>6. CASE UNCHANGED vars
    BY <1>2, <1>6 DEF vars
  <1>. QED  BY <1>1, <1>3, <1>4, <1>5, <1>6, StepKinds

----------------------------------------------------------------------------
(* Matching, until a handle is returned. *)

\* A call keeps every challenge and every key pair.
LEMMA CallKeepsValues ==
  ASSUME ClassicInv, NEW r \in Roles, NEW rel, NEW hs, CallOutcome(r, rel, hs), NEW x \in Roles
  PROVE  /\ relation[x] # Nil => relation'[x] # Nil /\ relation'[x].lchallenge = relation[x].lchallenge
         /\ handshake[x] # Nil => handshake'[x] # Nil /\ handshake'[x].ldh = handshake[x].ldh
  <1>1. CASE x = Other(r)
    BY <1>1 DEF CallOutcome
  <1>2. CASE x = r
    <2>1. rel # Nil
      BY FreshValues, NilIsNoObject DEF CallOutcome, RelationEvolves
    <2>. QED  BY <1>2, <2>1 DEF CallOutcome, RelationEvolves, HandshakeEvolves
  <1>. QED  BY <1>1, <1>2, TwoRoles

\* A request is never refused, and each announced challenge is the peer's own.
LEMMA TokensAgree ==
  ASSUME ClassicInv, Matching
  PROVE  /\ \A m \in Inbox(R, "request") :
              /\ handshake[I] # Nil /\ m.dh1 = Public(handshake[I].ldh)
              /\ relation[R] # Nil => RequestAccepted(m)
         /\ \A m \in Inbox(I, "reply") :
              /\ handshake[R] # Nil /\ m.dh2 = Public(handshake[R].ldh)
              /\ m.challenge2 = relation[R].lchallenge
         /\ \A r \in Roles : \A c \in Announced(r) :
              relation[Other(r)] # Nil /\ c = relation[Other(r)].lchallenge
  <1>1. ASSUME NEW m \in Inbox(R, "request")
        PROVE  /\ handshake[I] # Nil /\ m.dh1 = Public(handshake[I].ldh)
               /\ m.challenge1 = relation[I].lchallenge /\ relation[I] # Nil
               /\ relation[R] # Nil => RequestAccepted(m)
    <2>1. /\ handshake[I] # Nil /\ m.dh1 = Public(handshake[I].ldh)
          /\ m.challenge1 = relation[I].lchallenge
      BY DEF Inbox, Matching, TokensMatch
    <2>2. relation[I] # Nil
      BY <2>1, TwoRoles DEF ClassicInv, TypeOK
    <2>3. relation[R] # Nil /\ relation[R].rchallenge # Nil => relation[R].rchallenge = relation[I].lchallenge
      BY TwoRoles DEF Matching, RelationsMatch
    <2>. QED  BY <2>1, <2>2, <2>3 DEF RequestAccepted, Matches, R
  <1>2. ASSUME NEW m \in Inbox(I, "reply")
        PROVE  /\ handshake[R] # Nil /\ m.dh2 = Public(handshake[R].ldh)
               /\ m.challenge2 = relation[R].lchallenge /\ relation[R] # Nil
    BY TwoRoles DEF Inbox, Matching, TokensMatch, ClassicInv, TypeOK
  <1>3. ASSUME NEW r \in Roles, NEW c \in Announced(r)
        PROVE  relation[Other(r)] # Nil /\ c = relation[Other(r)].lchallenge
    <2>1. ASSUME NEW m \in Inbox(r, "auth")
          PROVE  relation[Other(r)] # Nil /\ m.challenge = relation[Other(r)].lchallenge
      BY DEF Inbox, Matching, TokensMatch
    <2>2. ASSUME NEW m \in Inbox(R, "request"), r = R
          PROVE  relation[Other(r)] # Nil /\ m.challenge1 = relation[Other(r)].lchallenge
      BY <1>1, <2>2, TwoRoles
    <2>3. ASSUME NEW m \in Inbox(I, "reply"), r = I
          PROVE  relation[Other(r)] # Nil /\ m.challenge2 = relation[Other(r)].lchallenge
      BY <1>2, <2>3, TwoRoles
    <2>. QED  BY <2>1, <2>2, <2>3 DEF Announced
  <1>. QED  BY <1>1, <1>2, <1>3

\* A call keeps the challenges known of peers right.
LEMMA RelationsStayMatched ==
  ASSUME ClassicInv, Matching, NEW r \in Roles, NEW rel, NEW hs, CallOutcome(r, rel, hs)
  PROVE  RelationsMatch'
  <1> SUFFICES ASSUME NEW x \in Roles, relation'[x] # Nil, relation'[x].rchallenge # Nil
               PROVE  relation'[Other(x)] # Nil /\ relation'[x].rchallenge = relation'[Other(x)].lchallenge
    BY DEF RelationsMatch
  <1>1. Other(x) \in Roles
    BY TwoRoles
  <1>2. relation[Other(x)] # Nil /\ relation'[x].rchallenge = relation[Other(x)].lchallenge
    <2>1. CASE x = Other(r)
      BY <2>1 DEF CallOutcome, Matching, RelationsMatch
    <2>2. CASE x = r
      <3>1. relation'[x] = rel /\ RelationEvolves(r, rel)
        BY <2>2 DEF CallOutcome
      <3>2. CASE rel.rchallenge \in Announced(r)
        BY <2>2, <3>1, <3>2, TokensAgree
      <3>3. CASE relation[r] # Nil /\ rel.rchallenge = relation[r].rchallenge
        BY <2>2, <3>1, <3>3 DEF Matching, RelationsMatch
      <3>. QED  BY <3>1, <3>2, <3>3 DEF RelationEvolves
    <2>. QED  BY <2>1, <2>2, TwoRoles
  <1>3. relation'[Other(x)] # Nil /\ relation'[Other(x)].lchallenge = relation[Other(x)].lchallenge
    BY <1>1, <1>2, CallKeepsValues
  <1>. QED  BY <1>2, <1>3

\* A call keeps the tokens in agreement with their senders.
LEMMA TokensStayMatched ==
  ASSUME ClassicInv, Matching, NEW r \in Roles, NEW rel, NEW hs, CallOutcome(r, rel, hs)
  PROVE  TokensMatch'
  <1>0. I \in Roles /\ R \in Roles
    BY TwoRoles
  <1>1. \A x \in Roles :
          /\ relation[x] # Nil => relation'[x] # Nil /\ relation'[x].lchallenge = relation[x].lchallenge
          /\ handshake[x] # Nil => /\ handshake'[x] # Nil /\ handshake'[x].ldh = handshake[x].ldh
                                   /\ relation[x] # Nil
    BY CallKeepsValues DEF ClassicInv, TypeOK
  <1>2. ASSUME NEW m \in msgs
        PROVE  /\ m.type = "auth" => relation'[m.from] # Nil /\ m.challenge = relation'[m.from].lchallenge
               /\ m.type = "request" =>
                    /\ handshake'[I] # Nil
                    /\ m.dh1 = Public(handshake'[I].ldh) /\ m.challenge1 = relation'[I].lchallenge
               /\ m.type = "reply" =>
                    /\ handshake'[R] # Nil
                    /\ m.dh2 = Public(handshake'[R].ldh) /\ m.challenge2 = relation'[R].lchallenge
    <2>1. m.type = "auth" => m.from \in Roles
      BY DEF ClassicInv, TokensOK, TokenOK
    <2>2. /\ m.type = "auth" => relation[m.from] # Nil /\ m.challenge = relation[m.from].lchallenge
          /\ m.type = "request" =>
               /\ handshake[I] # Nil
               /\ m.dh1 = Public(handshake[I].ldh) /\ m.challenge1 = relation[I].lchallenge
          /\ m.type = "reply" =>
               /\ handshake[R] # Nil
               /\ m.dh2 = Public(handshake[R].ldh) /\ m.challenge2 = relation[R].lchallenge
      BY DEF Matching, TokensMatch
    <2>. QED  BY <1>0, <1>1, <2>1, <2>2
  <1>3. ASSUME NEW m, Sends(r, rel, hs, m)
        PROVE  /\ m.type = "auth" => relation'[m.from] # Nil /\ m.challenge = relation'[m.from].lchallenge
               /\ m.type = "request" =>
                    /\ handshake'[I] # Nil
                    /\ m.dh1 = Public(handshake'[I].ldh) /\ m.challenge1 = relation'[I].lchallenge
               /\ m.type = "reply" =>
                    /\ handshake'[R] # Nil
                    /\ m.dh2 = Public(handshake'[R].ldh) /\ m.challenge2 = relation'[R].lchallenge
    <2>1. rel # Nil
      BY FreshValues, NilIsNoObject DEF CallOutcome, RelationEvolves
    <2>2. relation'[r] = rel /\ handshake'[r] = hs
      BY DEF CallOutcome
    <2>. QED  BY <1>3, <2>1, <2>2 DEF Sends
  <1>4. \A m \in msgs' : m \in msgs \/ Sends(r, rel, hs, m)
    BY DEF CallOutcome
  <1>. QED  BY <1>2, <1>3, <1>4 DEF TokensMatch

\* The one secret stays once both ends have a handshake.
LEMMA TheSecretStays ==
  ASSUME ClassicInv, Matching, NEW r \in Roles, NEW rel, NEW hs, CallOutcome(r, rel, hs),
         handshake[R] # Nil
  PROVE  TheSecret' = TheSecret
  <1>1. handshake[I] # Nil
    BY DEF Matching, HandshakesMatch
  <1>2. relation[I] # Nil /\ relation[R] # Nil
    BY <1>1, TwoRoles DEF ClassicInv, TypeOK
  <1>3. /\ handshake'[I].ldh = handshake[I].ldh /\ handshake'[R].ldh = handshake[R].ldh
        /\ relation'[I].lchallenge = relation[I].lchallenge
        /\ relation'[R].lchallenge = relation[R].lchallenge
    BY <1>1, <1>2, TwoRoles, CallKeepsValues
  <1>. QED  BY <1>3 DEF TheSecret

\* A call keeps the key that a replier has of its initiator.
LEMMA PeerKeyKept ==
  ASSUME ClassicInv, Matching, NEW r \in Roles, NEW rel, NEW hs, CallOutcome(r, rel, hs),
         handshake'[R] # Nil
  PROVE  handshake'[I] # Nil /\ handshake'[R].rdh = Public(handshake'[I].ldh)
  <1>1. handshake[I] # Nil => handshake'[I] # Nil /\ handshake'[I].ldh = handshake[I].ldh
    BY CallKeepsValues, TwoRoles
  <1>2. handshake[I] # Nil /\ handshake'[R].rdh = Public(handshake[I].ldh)
    <2>1. CASE r = I
      <3>1. handshake'[R] = handshake[R]
        BY <2>1, TwoRoles DEF CallOutcome
      <3>. QED  BY <3>1 DEF Matching, HandshakesMatch
    <2>2. CASE r = R
      <3>1. handshake'[R] = hs /\ hs # Nil /\ HandshakeEvolves(R, rel, hs)
        BY <2>2 DEF CallOutcome
      <3>2. CASE handshake[R] # Nil /\ hs.rdh = handshake[R].rdh
        BY <3>1, <3>2 DEF Matching, HandshakesMatch
      <3>3. CASE \E m \in Inbox(R, "request") : hs.rdh = m.dh1
        BY <3>1, <3>3, TokensAgree
      <3>4. ~(relation[R] # Nil /\ \E m \in Inbox(R, "request") : ~RequestAccepted(m))
        BY TokensAgree
      <3>. QED  BY <3>1, <3>2, <3>3, <3>4 DEF HandshakeEvolves
    <2>. QED  BY <2>1, <2>2, TwoRoles
  <1>. QED  BY <1>1, <1>2

\* The replier completes with the one secret.
LEMMA ReplierSecretKept ==
  ASSUME ClassicInv, Matching, NEW r \in Roles, NEW rel, NEW hs, CallOutcome(r, rel, hs),
         handshake'[R] # Nil, handshake'[R].secret # Nil
  PROVE  handshake'[R].secret = TheSecret'
  <1>1. CASE r = I
    <2>1. handshake'[R] = handshake[R]
      BY <1>1, TwoRoles DEF CallOutcome
    <2>2. handshake[R].secret = TheSecret /\ handshake[R] # Nil
      BY <2>1 DEF Matching, HandshakesMatch
    <2>. QED  BY <2>1, <2>2, TheSecretStays
  <1>2. CASE r = R
    <2>1. handshake'[R] = hs /\ hs # Nil /\ SecretEvolves(R, rel, hs) /\ relation'[R] = rel
      BY <1>2 DEF CallOutcome
    <2>2. CASE hs.secret = IF handshake[R] = Nil THEN Nil ELSE handshake[R].secret
      <3>1. handshake[R] # Nil /\ hs.secret = handshake[R].secret
        BY <2>1, <2>2
      <3>2. handshake[R].secret = TheSecret
        BY <2>1, <3>1 DEF Matching, HandshakesMatch
      <3>. QED  BY <2>1, <3>1, <3>2, TheSecretStays
    <2>3. CASE /\ handshake[R] # Nil
               /\ hs.secret = [keys |-> {Public(hs.ldh), hs.rdh}, challenge1 |-> rel.rchallenge,
                               challenge2 |-> rel.lchallenge]
      <3>1. hs.rdh = Public(handshake'[I].ldh)
        BY <2>1, PeerKeyKept
      <3>2. rel.rchallenge # Nil
        BY <1>2, <2>1 DEF CallOutcome, HandshakeEvolves
      <3>3. rel # Nil
        BY <1>2, FreshValues, NilIsNoObject DEF CallOutcome, RelationEvolves
      <3>4. rel.rchallenge = relation'[I].lchallenge
        BY <2>1, <3>2, <3>3, RelationsStayMatched, TwoRoles DEF RelationsMatch
      <3>5. {Public(hs.ldh), hs.rdh} = {Public(handshake'[I].ldh), Public(handshake'[R].ldh)}
        BY <2>1, <3>1
      <3>. QED  BY <2>1, <2>3, <3>4, <3>5 DEF TheSecret
    <2>. QED  BY <2>1, <2>2, <2>3, TwoRoles DEF SecretEvolves
  <1>. QED  BY <1>1, <1>2, TwoRoles

\* The initiator completes with the one secret.
LEMMA InitiatorSecretKept ==
  ASSUME ClassicInv, Matching, NEW r \in Roles, NEW rel, NEW hs, CallOutcome(r, rel, hs),
         handshake'[I] # Nil, handshake'[I].secret # Nil
  PROVE  handshake'[R] # Nil /\ handshake'[I].secret = TheSecret'
  <1>0. handshake[R] # Nil => handshake'[R] # Nil /\ handshake'[R].ldh = handshake[R].ldh
    BY CallKeepsValues, TwoRoles
  <1>1. ASSUME handshake[I] # Nil, handshake'[I].secret = handshake[I].secret
        PROVE  handshake'[R] # Nil /\ handshake'[I].secret = TheSecret'
    <2>1. handshake[R] # Nil /\ handshake[I].secret = TheSecret
      BY <1>1 DEF Matching, HandshakesMatch
    <2>. QED  BY <1>0, <1>1, <2>1, TheSecretStays
  <1>2. CASE r = R
    <2>1. handshake'[I] = handshake[I]
      BY <1>2, TwoRoles DEF CallOutcome
    <2>. QED  BY <1>1, <2>1
  <1>3. CASE r = I
    <2>1. /\ handshake'[I] = hs /\ hs # Nil /\ SecretEvolves(I, rel, hs) /\ relation'[I] = rel
          /\ relation'[R] = relation[R]
      BY <1>3, TwoRoles DEF CallOutcome
    <2>2. CASE hs.secret = IF handshake[I] = Nil THEN Nil ELSE handshake[I].secret
      BY <1>1, <2>1, <2>2
    <2>3. CASE \E m \in Inbox(I, "reply") :
                 hs.secret = [keys |-> {Public(hs.ldh), m.dh2}, challenge1 |-> rel.lchallenge,
                              challenge2 |-> m.challenge2]
      <3>1. PICK m \in Inbox(I, "reply") :
                 hs.secret = [keys |-> {Public(hs.ldh), m.dh2}, challenge1 |-> rel.lchallenge,
                              challenge2 |-> m.challenge2]
        BY <2>3
      <3>2. /\ handshake[R] # Nil /\ m.dh2 = Public(handshake[R].ldh)
            /\ m.challenge2 = relation[R].lchallenge
        BY TokensAgree
      <3>. QED  BY <1>0, <2>1, <3>1, <3>2 DEF TheSecret
    <2>. QED  BY <2>1, <2>2, <2>3, TwoRoles DEF SecretEvolves
  <1>. QED  BY <1>2, <1>3, TwoRoles

\* A call keeps Matching, and a secret that was derived.
LEMMA CallKeepsMatching ==
  ASSUME ClassicInv, Matching, NEW r \in Roles, Outcome(r)
  PROVE  /\ Matching'
         /\ \A x \in Roles : handshake[x] # Nil /\ handshake[x].secret # Nil =>
              handshake'[x].secret = handshake[x].secret
  <1>1. PICK rel, hs : CallOutcome(r, rel, hs)
    BY DEF Outcome
  <1>2. RelationsMatch' /\ TokensMatch'
    BY <1>1, RelationsStayMatched, TokensStayMatched
  <1>3. HandshakesMatch'
    BY <1>1, PeerKeyKept, ReplierSecretKept, InitiatorSecretKept DEF HandshakesMatch
  <1>4. ~aborted'
    BY <1>1 DEF CallOutcome, Matching
  <1>5. ASSUME NEW x \in Roles, handshake[x] # Nil, handshake[x].secret # Nil
        PROVE  handshake'[x].secret = handshake[x].secret
    <2>1. CASE x = Other(r)
      BY <1>1, <2>1 DEF CallOutcome
    <2>2. CASE x = r
      <3>1. handshake'[x] # Nil /\ handshake'[x].secret # Nil
        BY <1>1, <1>5, <2>2 DEF CallOutcome, HandshakeEvolves, SecretEvolves
      <3>2. handshake[R] # Nil /\ handshake[x].secret = TheSecret
        BY <1>5, TwoRoles DEF Matching, HandshakesMatch
      <3>3. handshake'[x].secret = TheSecret'
        BY <1>3, <3>1, TwoRoles DEF HandshakesMatch
      <3>. QED  BY <1>1, <3>2, <3>3, TheSecretStays
    <2>. QED  BY <2>1, <2>2, TwoRoles
  <1>. QED  BY <1>2, <1>3, <1>4, <1>5 DEF Matching

\* A replier never lacks the key of its peer while the two match.
LEMMA NoAbort ==
  ASSUME ClassicInv, Matching
  PROVE  ~Abort
  <1> SUFFICES ASSUME handshake[R] # Nil PROVE handshake[R].rdh # Nil
    BY DEF Abort
  <1>1. handshake[I] # Nil /\ handshake[R].rdh = Public(handshake[I].ldh)
    BY DEF Matching, HandshakesMatch
  <1>2. handshake[I].ldh \in By(I, Fresh)
    BY <1>1, TwoRoles DEF ClassicInv, TypeOK, OrNil, HandshakeType
  <1>3. Public(handshake[I].ldh) \in PublicKeys(By(I, Fresh))
    BY <1>2 DEF Public, PublicKeys
  <1>. QED  BY <1>1, <1>3, FreshValues, NilIsNoObject, TwoRoles

\* Entries and tokens that stay as they are stay matched.
LEMMA QuietKeepsMatching ==
  ASSUME Matching, UNCHANGED <<relation, handshake, msgs, aborted>>
  PROVE  Matching'
  <1>1. RelationsMatch'
    BY DEF Matching, RelationsMatch
  <1>2. TokensMatch'
    BY DEF Matching, TokensMatch
  <1>3. HandshakesMatch'
    BY DEF Matching, HandshakesMatch, TheSecret
  <1>. QED  BY <1>1, <1>2, <1>3 DEF Matching

\* A step that returns no handle keeps Matching and every secret; returned stays set.
LEMMA StepKeepsMatching ==
  ASSUME ClassicInv, ~returned => Matching, [Next]_vars, ~returned'
  PROVE  /\ Matching'
         /\ \A x \in Roles : handshake[x] # Nil /\ handshake[x].secret # Nil =>
              handshake'[x].secret = handshake[x].secret
  <1>1. CASE \E r \in Roles : Outcome(r)
    <2>1. ~returned
      BY <1>1 DEF Outcome, CallOutcome
    <2>. QED  BY <1>1, <2>1, CallKeepsMatching
  <1>2. CASE \E r \in Roles : SetPermissions(r)
    BY <1>2, QuietKeepsMatching DEF SetPermissions
  <1>3. CASE \E r \in Roles : Return(r)
    BY <1>3 DEF Return, ReturnRemoteIdentity, ReturnHandshakeHandle
  <1>4. CASE Abort
    <2>1. ~returned
      BY <1>4 DEF Abort
    <2>. QED  BY <1>4, <2>1, NoAbort
  <1>5. CASE UNCHANGED vars
    BY <1>5, QuietKeepsMatching DEF vars
  <1>. QED  BY <1>1, <1>2, <1>3, <1>4, <1>5, StepKinds

\* Initially there is nothing to match.
LEMMA MatchingHolds == Init => Matching
  BY TwoRoles DEF Init, Matching, RelationsMatch, TokensMatch, HandshakesMatch

----------------------------------------------------------------------------
(* The theorems. *)

\* Both invariants hold always.
LEMMA InvariantsHold == Spec => [](ClassicInv /\ (~returned => Matching))
  <1> DEFINE Inv == ClassicInv /\ (~returned => Matching)
  <1>1. Init => Inv
    BY InvHolds, MatchingHolds
  <1>2. Inv /\ [Next]_vars => Inv'
    BY InvKept, StepKeepsMatching
  <1> HIDE DEF Inv
  <1>3. Spec => []Inv
    BY <1>1, <1>2, PTL DEF Spec
  <1>. QED  BY <1>3, PTL DEF Inv

\* The tables of both ends stay well typed: a handshake has a key pair of its own end,
\* the key it holds of its peer is one that the peer drew, and no handshake is without
\* its relation.
THEOREM TypeCorrect == Spec => []TypeOK
  <1>1. ClassicInv /\ (~returned => Matching) => TypeOK
    BY DEF ClassicInv
  <1>. QED  BY <1>1, InvariantsHold, PTL

\* get_shared_secret: until a handle is returned, two ends that both completed hold the
\* same secret and challenges, however tokens are repeated, reordered and refused.
THEOREM PeersAgree == Spec => []SecretsAgree
  <1>1. ClassicInv /\ (~returned => Matching) => SecretsAgree
    BY TwoRoles DEF SecretsAgree, Matching, HandshakesMatch, I, R
  <1>. QED  BY <1>1, InvariantsHold, PTL

\* process_handshake with a final: the replier completes only with a secret that the
\* initiator has completed with, also after handles were returned.
THEOREM ReplierDerives == Spec => []ReplierSecretIsDerived
  <1>1. ClassicInv /\ (~returned => Matching) => ReplierSecretIsDerived
    BY DEF ClassicInv
  <1>. QED  BY <1>1, InvariantsHold, PTL

\* dh_public_key_to_oct: the assertion that there is a key never fails until a handle
\* is returned.
THEOREM PeerKeyStays == Spec => []PeerKeyIsThere
  <1>1. ClassicInv /\ (~returned => Matching) => PeerKeyIsThere
    BY DEF PeerKeyIsThere, Matching
  <1>. QED  BY <1>1, InvariantsHold, PTL

\* A completed handshake keeps its secret until a handle is returned.
THEOREM SecretsStay == Spec => SecretIsStable
  <1> DEFINE Inv == ClassicInv /\ (~returned => Matching)
             Stable == \A r \in Roles :
                         handshake[r] # Nil /\ handshake[r].secret # Nil /\ ~returned' =>
                           handshake'[r].secret = handshake[r].secret
  <1>1. Inv /\ [Next]_vars => [Stable]_vars
    BY StepKeepsMatching
  <1>2. Spec => []Inv
    BY InvariantsHold
  <1> HIDE DEF Inv
  <1>3. Spec => [][Stable]_vars
    BY <1>1, <1>2, PTL DEF Spec
  <1>. QED  BY <1>3 DEF SecretIsStable
===============================================================================
