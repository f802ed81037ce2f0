------------------------- MODULE CycloneAuthProofs -------------------------
(***************************************************************************)
(* What holds of the Cyclone Authentication plugin for every set of        *)
(* participants and instances, every configuration and every bound.        *)
(*                                                                         *)
(* PairInv is inductive in all configurations.  It adds to the types what  *)
(* every token ever sent guarantees (TokensOK) and what a handshake of     *)
(* either role has already done (Roles): tokens never disappear, so a late *)
(* or repeated one is covered like a new one.  The actions fall into calls *)
(* for one pair, summarised by Outcome, and Housekeeping, which creates no *)
(* relation and no handshake; every theorem is proved from the summaries.  *)
(*                                                                         *)
(* Matching relates the two ends of a handshake.  It is inductive only as  *)
(* long as no request is begun again and no handle is returned: with either*)
(* of them a token in flight may belong to an earlier handshake, and the   *)
(* run cyclone_stale_reply shows that the ends then disagree.              *)
(***************************************************************************)
EXTENDS CycloneAuth, TLAPS

\* What is known of every token ever sent, whoever sent it.
TokenOK(m) ==
  /\ m.type = "auth" => m.challenge \in Fresh
  /\ m.type = "request" =>
       /\ m.cred \in CredentialType /\ m.cred.id = m.from
       /\ m.kem_public \in Fresh /\ m.challenge1 \in Fresh
  /\ m.type = "reply" =>
       /\ m.cred \in CredentialType /\ m.cred.id = m.from
       /\ m.kem_ct \in Fresh /\ m.challenge1 \in Fresh /\ m.challenge2 \in Fresh
  /\ m.type = "final" =>
       /\ m.signature.by = m.from
       /\ \E r \in Inbox(m.from, m.to, "reply") :
            /\ m.kem_ct = r.kem_ct
            /\ m.challenge1 = r.challenge1 /\ m.challenge2 = r.challenge2

TokensOK == \A m \in msgs : TokenOK(m)

\* A request is begun by the smaller GUID; a replier has encapsulated and knows the
\* challenge of its peer as soon as its handshake outlives a call.
Roles ==
  \A p, q \in Participants : LET hs == handshake[p][q] IN
    hs # Nil =>
      /\ hs.created_in = "request" => p < q
      /\ hs.created_in = "reply" =>
           /\ q < p
           /\ hs.kem_ct # Nil /\ hs.kem_ss # Nil
           /\ relation[p][q].rchallenge # Nil

PairInv == TypeOK /\ TokensOK /\ NoDanglingHandshake /\ Roles

Initiator(p, q) == handshake[p][q] # Nil /\ handshake[p][q].created_in = "request"
Replier(p, q) == handshake[p][q] # Nil /\ handshake[p][q].created_in = "reply"

\* The challenge that p knows of q is q's own.
RelationsMatch ==
  \A p, q \in Participants :
    relation[p][q] # Nil /\ relation[p][q].rchallenge # Nil =>
      relation[q][p] # Nil /\ relation[p][q].rchallenge = relation[q][p].lchallenge

\* Every token agrees with what its sender holds.
TokensMatch ==
  \A m \in msgs :
    /\ m.type # "identity" => m.from \in Participants /\ m.to \in Participants
    /\ m.type = "auth" =>
         relation[m.from][m.to] # Nil /\ m.challenge = relation[m.from][m.to].lchallenge
    /\ m.type = "request" =>
         /\ Initiator(m.from, m.to)
         /\ m.kem_public = handshake[m.from][m.to].kem_keypair
         /\ m.challenge1 = relation[m.from][m.to].lchallenge
    /\ m.type = "reply" =>
         /\ Replier(m.from, m.to)
         /\ m.kem_ct = handshake[m.from][m.to].kem_ct
         /\ m.challenge2 = relation[m.from][m.to].lchallenge
    /\ m.type = "final" => Completed(m.from, m.to)

\* A replier answers an initiator and encapsulates to its key pair; whoever has completed
\* derived its secret from that encapsulation and the challenges of both.
HandshakesMatch ==
  \A p, q \in Participants :
    /\ Initiator(p, q) =>
         /\ handshake[p][q].kem_keypair # Nil
         /\ Completed(p, q) =>
              /\ Replier(q, p)
              /\ handshake[p][q].secret =
                   SharedSecret(Secret(handshake[p][q].kem_keypair, handshake[q][p].kem_ct),
                     relation[p][q].lchallenge, relation[q][p].lchallenge)
    /\ Replier(p, q) =>
         /\ Initiator(q, p)
         /\ handshake[p][q].kem_ss = Secret(handshake[q][p].kem_keypair, handshake[p][q].kem_ct)
         /\ Completed(p, q) =>
              /\ Completed(q, p)
              /\ handshake[p][q].secret =
                   SharedSecret(handshake[p][q].kem_ss, relation[q][p].lchallenge, relation[p][q].lchallenge)

----------------------------------------------------------------------------
(* Random values and tables. *)

\* A random value that was drawn stays drawn, and the next one is new and drawn.
LEMMA DrawGrows ==
  ASSUME fresh \in [Participants -> Nat], NEW p \in Participants,
         fresh' = [fresh EXCEPT ![p] = @ + 1]
  PROVE  /\ fresh' \in [Participants -> Nat]
         /\ Fresh \subseteq Fresh'
         /\ Draw(p) \in Fresh'
  <1>1. fresh' \in [Participants -> Nat]
    OBVIOUS
  <1>2. Fresh \subseteq Fresh'
    <2> SUFFICES ASSUME NEW v \in Value, v.n < fresh[v.by] PROVE v.n < fresh'[v.by]
      BY DEF Fresh
    <2>1. v.by \in Participants /\ v.n \in Nat
      BY DEF Value
    <2>. QED  BY <2>1
  <1>3. Draw(p) \in Fresh'
    <2>1. Draw(p) \in Value /\ Draw(p).n = fresh[p] /\ Draw(p).by = p
      BY DEF Draw, Value
    <2>. QED  BY <2>1 DEF Fresh
  <1>. QED  BY <1>1, <1>2, <1>3

\* A call that draws nothing leaves the drawn values as they are.
LEMMA SameDraws ==
  ASSUME UNCHANGED fresh
  PROVE  Fresh' = Fresh
  BY DEF Fresh

\* The drawn values are random values, none of which is Nil.
LEMMA FreshValues == Fresh \subseteq Value /\ Nil \notin Fresh
  BY NilAssumption DEF Fresh

\* An object made of random values of F is one made of values of a larger set.
LEMMA TypesGrow ==
  ASSUME NEW F, NEW G, F \subseteq G
  PROVE  /\ RelationType(F) \subseteq RelationType(G)
         /\ SecretType(F) \subseteq SecretType(G)
         /\ SharedType(F) \subseteq SharedType(G)
         /\ HandshakeType(F) \subseteq HandshakeType(G)
  <1>1. RelationType(F) \subseteq RelationType(G)
    BY DEF RelationType, OrNil
  <1>2. SecretType(F) \subseteq SecretType(G)
    BY DEF SecretType
  <1>3. SharedType(F) \subseteq SharedType(G)
    BY <1>2 DEF SharedType
  <1>4. HandshakeType(F) \subseteq HandshakeType(G)
    BY <1>2, <1>3 DEF HandshakeType, OrNil
  <1>. QED  BY <1>1, <1>2, <1>3, <1>4

\* Nil is none of the objects that a table holds beside it.
LEMMA NilIsNoObject ==
  /\ Nil \notin RelationType(Fresh) /\ Nil \notin SecretType(Fresh)
  /\ Nil \notin SharedType(Fresh) /\ Nil \notin HandshakeType(Fresh)
  /\ Nil \notin LocalType /\ Nil \notin RemoteType
  <1>1. /\ RelationType(Fresh) \subseteq RelationType(Value)
        /\ SecretType(Fresh) \subseteq SecretType(Value)
        /\ SharedType(Fresh) \subseteq SharedType(Value)
        /\ HandshakeType(Fresh) \subseteq HandshakeType(Value)
    BY FreshValues, TypesGrow
  <1>. QED  BY <1>1, NilAssumption

\* Assigning one slot of a table of pairs changes that slot and keeps the others.
LEMMA SlotAssigned ==
  ASSUME NEW I, NEW S, NEW T, S \subseteq T,
         NEW table \in [I -> [Participants -> S]],
         NEW i \in I, NEW q \in Participants, NEW v \in T
  PROVE  /\ [table EXCEPT ![i][q] = v] \in [I -> [Participants -> T]]
         /\ [table EXCEPT ![i][q] = v][i][q] = v
         /\ \A j \in I, r \in Participants :
              j # i \/ r # q => [table EXCEPT ![i][q] = v][j][r] = table[j][r]
  OBVIOUS

\* An entry assigned its own value leaves the table as it is.
LEMMA SlotKept ==
  ASSUME NEW I, NEW S, NEW table \in [I -> [Participants -> S]],
         NEW i \in I, NEW q \in Participants
  PROVE  [table EXCEPT ![i][q] = table[i][q]] = table
  OBVIOUS

----------------------------------------------------------------------------
(* Calls for one pair of participants. *)

\* The call leaves rel, hs and r in the tables of the pair and touches no other entry.
PairStep(p, q, rel, hs, r) ==
  /\ relation' = [relation EXCEPT ![p][q] = rel]
  /\ handshake' = [handshake EXCEPT ![p][q] = hs]
  /\ remote' = [remote EXCEPT ![InstanceOf[p]][q] = r]
  /\ UNCHANGED <<local, expired>>
  /\ crashed' \subseteq Instances
  /\ \/ UNCHANGED fresh
     \/ CanDraw(p) /\ fresh' = [fresh EXCEPT ![p] = @ + 1]

\* A call draws at most one value, so every value drawn before is still there.
LEMMA PairFresh ==
  ASSUME TypeOK, NEW p \in Participants, NEW q \in Participants,
         NEW rel, NEW hs, NEW r, PairStep(p, q, rel, hs, r)
  PROVE  /\ Fresh \subseteq Fresh'
         /\ fresh' \in [Participants -> Nat]
         /\ \A x \in Participants : fresh'[x] <= Draws[x]
  <1>1. CASE UNCHANGED fresh
    BY <1>1, SameDraws DEF TypeOK
  <1>2. CASE CanDraw(p) /\ fresh' = [fresh EXCEPT ![p] = @ + 1]
    <2>1. Fresh \subseteq Fresh' /\ fresh' \in [Participants -> Nat]
      BY <1>2, DrawGrows DEF TypeOK
    <2>2. \A x \in Participants : fresh'[x] <= Draws[x]
      <3>1. /\ Draws \in [Participants -> Nat] /\ fresh \in [Participants -> Nat]
            /\ fresh[p] < Draws[p] /\ \A x \in Participants : fresh[x] <= Draws[x]
        BY <1>2, CallerAssumption DEF TypeOK, CanDraw
      <3>2. fresh[p] \in Nat /\ Draws[p] \in Nat
        BY <3>1
      <3>3. fresh[p] + 1 <= Draws[p]
        BY <3>1, <3>2
      <3>. QED  BY <1>2, <3>1, <3>3
    <2>. QED  BY <2>1, <2>2
  <1>. QED  BY <1>1, <1>2 DEF PairStep

\* The instance of a participant is one of the instances.
LEMMA InstanceOfType ==
  ASSUME NEW p \in Participants
  PROVE  InstanceOf[p] \in Instances
  BY DEF Instances

\* What the tables hold after a call for one pair.
LEMMA PairTables ==
  ASSUME TypeOK, NEW p \in Participants, NEW q \in Participants,
         NEW rel \in OrNil(RelationType(Fresh')), NEW hs \in OrNil(HandshakeType(Fresh')),
         NEW r \in OrNil(RemoteType), PairStep(p, q, rel, hs, r)
  PROVE  /\ TypeOK'
         /\ relation'[p][q] = rel /\ handshake'[p][q] = hs /\ remote'[InstanceOf[p]][q] = r
         /\ \A a, b \in Participants : a # p \/ b # q =>
              relation'[a][b] = relation[a][b] /\ handshake'[a][b] = handshake[a][b]
         /\ \A i \in Instances, b \in Participants : i # InstanceOf[p] \/ b # q =>
              remote'[i][b] = remote[i][b]
  <1>1. /\ Fresh \subseteq Fresh' /\ fresh' \in [Participants -> Nat]
        /\ \A x \in Participants : fresh'[x] <= Draws[x]
    BY PairFresh
  <1>2. OrNil(RelationType(Fresh)) \subseteq OrNil(RelationType(Fresh'))
    BY <1>1, TypesGrow DEF OrNil
  <1>3. OrNil(HandshakeType(Fresh)) \subseteq OrNil(HandshakeType(Fresh'))
    BY <1>1, TypesGrow DEF OrNil
  <1>4. /\ relation' \in [Participants -> [Participants -> OrNil(RelationType(Fresh'))]]
        /\ relation'[p][q] = rel
        /\ \A a, b \in Participants : a # p \/ b # q => relation'[a][b] = relation[a][b]
    BY <1>2, SlotAssigned DEF TypeOK, PairStep
  <1>5. /\ handshake' \in [Participants -> [Participants -> OrNil(HandshakeType(Fresh'))]]
        /\ handshake'[p][q] = hs
        /\ \A a, b \in Participants : a # p \/ b # q => handshake'[a][b] = handshake[a][b]
    BY <1>3, SlotAssigned DEF TypeOK, PairStep
  <1>6. /\ remote' \in [Instances -> [Participants -> OrNil(RemoteType)]]
        /\ remote'[InstanceOf[p]][q] = r
        /\ \A i \in Instances, b \in Participants : i # InstanceOf[p] \/ b # q =>
             remote'[i][b] = remote[i][b]
    BY InstanceOfType, SlotAssigned DEF TypeOK, PairStep
  <1>7. TypeOK'
    BY <1>1, <1>4, <1>5, <1>6 DEF TypeOK, PairStep
  <1>. QED  BY <1>4, <1>5, <1>6, <1>7

\* What Roles says of one entry.
RoleOK(p, q, rel, hs) ==
  hs # Nil =>
    /\ hs.created_in = "request" => p < q
    /\ hs.created_in = "reply" =>
         q < p /\ hs.kem_ct # Nil /\ hs.kem_ss # Nil /\ rel.rchallenge # Nil

\* A call for one pair that leaves a sound entry for it keeps the tables sound.
LEMMA PairKeeps ==
  ASSUME TypeOK, NoDanglingHandshake, Roles,
         NEW p \in Participants, NEW q \in Participants,
         NEW rel \in OrNil(RelationType(Fresh')), NEW hs \in OrNil(HandshakeType(Fresh')),
         NEW r \in OrNil(RemoteType), PairStep(p, q, rel, hs, r),
         hs # Nil => rel # Nil, rel # Nil => local[p] # Nil,
         r = Nil => remote[InstanceOf[p]][q] = Nil, rel # Nil => r # Nil,
         RoleOK(p, q, rel, hs)
  PROVE  TypeOK' /\ NoDanglingHandshake' /\ Roles'
  <1>1. /\ TypeOK'
        /\ relation'[p][q] = rel /\ handshake'[p][q] = hs /\ remote'[InstanceOf[p]][q] = r
        /\ \A a, b \in Participants : a # p \/ b # q =>
              relation'[a][b] = relation[a][b] /\ handshake'[a][b] = handshake[a][b]
        /\ \A i \in Instances, b \in Participants : i # InstanceOf[p] \/ b # q =>
              remote'[i][b] = remote[i][b]
    BY PairTables
  <1>2. NoDanglingHandshake'
    <2> SUFFICES ASSUME NEW a \in Participants, NEW b \in Participants
                 PROVE  /\ handshake'[a][b] # Nil => relation'[a][b] # Nil
                        /\ relation'[a][b] # Nil => local'[a] # Nil /\ remote'[InstanceOf[a]][b] # Nil
      BY DEF NoDanglingHandshake
    <2>0. local' = local
      BY DEF PairStep
    <2>1. CASE a = p /\ b = q
      BY <1>1, <2>0, <2>1
    <2>2. CASE a # p \/ b # q
      <3>1. remote[InstanceOf[a]][b] # Nil => remote'[InstanceOf[a]][b] # Nil
        BY <1>1, InstanceOfType
      <3>. QED  BY <1>1, <2>0, <2>2, <3>1 DEF NoDanglingHandshake
    <2>. QED  BY <2>1, <2>2
  <1>3. Roles'
    <2> SUFFICES ASSUME NEW a \in Participants, NEW b \in Participants
                 PROVE  RoleOK(a, b, relation'[a][b], handshake'[a][b])
      BY DEF Roles, RoleOK
    <2>1. CASE a = p /\ b = q
      BY <1>1, <2>1
    <2>2. CASE a # p \/ b # q
      BY <1>1, <2>2 DEF Roles, RoleOK
    <2>. QED  BY <2>1, <2>2
  <1>. QED  BY <1>1, <1>2, <1>3

\* A token stays sound: what it needs was drawn or sent before it.
LEMMA TokensKept ==
  ASSUME TokensOK, Fresh \subseteq Fresh', msgs \subseteq msgs',
         \A m \in msgs' : m \in msgs \/ TokenOK(m)'
  PROVE  TokensOK'
  <1> SUFFICES ASSUME NEW m \in msgs, TokenOK(m) PROVE TokenOK(m)'
    BY DEF TokensOK
  <1>1. Inbox(m.from, m.to, "reply") \subseteq Inbox(m.from, m.to, "reply")'
    BY DEF Inbox
  <1>. QED  BY <1>1 DEF TokenOK

----------------------------------------------------------------------------
(* What each call leaves in the tables of its pair, and what it sends. *)

\* The credential of a participant whose identity is registered.
LEMMA CredentialSound ==
  ASSUME TypeOK, NEW p \in Participants, local[p] # Nil
  PROVE  Credential(p) \in CredentialType /\ Credential(p).id = p
  <1>1. local[p] \in LocalType
    BY DEF TypeOK, OrNil
  <1>2. local[p].perm \in OrNil(Permissions)
    BY <1>1 DEF LocalType
  <1>. QED  BY <1>2 DEF Credential, CredentialType

\* What Related gives: the three objects exist and are well typed.
LEMMA RelatedSound ==
  ASSUME TypeOK, NEW p \in Participants, NEW q \in Participants, Related(p, q)
  PROVE  /\ local[p] # Nil
         /\ remote[InstanceOf[p]][q] \in RemoteType
         /\ relation[p][q] \in RelationType(Fresh)
         /\ handshake[p][q] # Nil => handshake[p][q] \in HandshakeType(Fresh)
  BY InstanceOfType DEF TypeOK, Related, OrNil

\* A RemoteIdentity that has learnt from a token is one still.
LEMMA LearnedSound ==
  ASSUME NEW p \in Participants, NEW q \in Participants,
         remote[InstanceOf[p]][q] \in RemoteType,
         NEW m, m.cred \in CredentialType, NEW accepted \in BOOLEAN
  PROVE  /\ LearnedRemote(p, q, m, accepted) \in RemoteType
         /\ LearnedRemote(p, q, m, accepted).timer = remote[InstanceOf[p]][q].timer
  <1> DEFINE r == remote[InstanceOf[p]][q]
             c == IF accepted THEN m.cred.id ELSE Nil
             d == IF CertificateLoads(p, m) /\ m.cred.perm # Nil THEN m.cred.perm ELSE r.perm
  <1>1. c \in OrNil(Participants) /\ d \in OrNil(Permissions)
    BY DEF CredentialType, OrNil, RemoteType
  <1>2. LearnedRemote(p, q, m, accepted) = [r EXCEPT !.cert = c, !.perm = d]
    BY DEF LearnedRemote
  <1> HIDE DEF c, d
  <1>3. /\ [r EXCEPT !.cert = c, !.perm = d] \in RemoteType
        /\ [r EXCEPT !.cert = c, !.perm = d].timer = r.timer
    BY <1>1 DEF RemoteType
  <1>. QED  BY <1>2, <1>3

\* Arming the timer of a RemoteIdentity keeps everything else.
LEMMA WatchedSound ==
  ASSUME NEW r \in RemoteType
  PROVE  /\ Watched(r) \in RemoteType
         /\ Watched(r).timer <=> r.timer \/ r.cert \in Expiring
  <1> DEFINE b == r.timer \/ r.cert \in Expiring
  <1>1. b \in BOOLEAN
    BY DEF RemoteType
  <1>2. Watched(r) = [r EXCEPT !.timer = b]
    BY DEF Watched
  <1> HIDE DEF b
  <1>3. [r EXCEPT !.timer = b] \in RemoteType /\ [r EXCEPT !.timer = b].timer = b
    BY <1>1 DEF RemoteType
  <1>. QED  BY <1>2, <1>3 DEF b

\* The relation once the peer's challenge is learnt from a token.
Learned(p, q, m, rc) == [relation[p][q] EXCEPT !.rchallenge = KnownChallenge(p, q, m, rc)]

\* A relation that has learnt a challenge, or none, is a relation still, and never
\* forgets the challenge it knew.
LEMMA LearnedRelation ==
  ASSUME TypeOK, NEW p \in Participants, NEW q \in Participants, Related(p, q),
         NEW m, NEW rc \in Fresh, LearnChallenge(p, q, m, rc)
  PROVE  /\ relation' = [relation EXCEPT ![p][q] = Learned(p, q, m, rc)]
         /\ Learned(p, q, m, rc) \in RelationType(Fresh)
         /\ Learned(p, q, m, rc).lchallenge = relation[p][q].lchallenge
         /\ Learned(p, q, m, rc).rchallenge = KnownChallenge(p, q, m, rc)
         /\ KnownChallenge(p, q, m, rc) \in {rc, relation[p][q].rchallenge}
         /\ relation[p][q].rchallenge # Nil =>
              KnownChallenge(p, q, m, rc) = relation[p][q].rchallenge
         /\ CredentialAccepted(p, m) /\ KemPublicSized(m) => KnownChallenge(p, q, m, rc) # Nil
  <1> DEFINE k == KnownChallenge(p, q, m, rc)
             rel == [relation[p][q] EXCEPT !.rchallenge = k]
  <1>1. relation[p][q] \in RelationType(Fresh)
    BY RelatedSound
  <1>2. /\ k \in {rc, relation[p][q].rchallenge}
        /\ relation[p][q].rchallenge # Nil => k = relation[p][q].rchallenge
        /\ CredentialAccepted(p, m) /\ KemPublicSized(m) => k # Nil
    BY FreshValues DEF KnownChallenge
  <1>3. k \in OrNil(Fresh)
    BY <1>1, <1>2 DEF RelationType, OrNil
  <1>4. relation' = [relation EXCEPT ![p][q] = rel]
    BY DEF LearnChallenge, TypeOK
  <1> HIDE DEF k
  <1>5. /\ rel \in RelationType(Fresh)
        /\ rel.lchallenge = relation[p][q].lchallenge
        /\ rel.rchallenge = k
    BY <1>1, <1>3 DEF RelationType
  <1>. QED  BY <1>2, <1>4, <1>5 DEF k, Learned

\* The challenges that tokens of q have told p.
Announced(p, q) ==
  {m.challenge : m \in Inbox(p, q, "auth")}
    \union {m.challenge1 : m \in Inbox(p, q, "request")}
    \union {m.challenge2 : m \in Inbox(p, q, "reply")}

\* The relation keeps p's challenge; what it knows of q's was known or announced.
RelationEvolves(p, q, rel) ==
  /\ rel \in RelationType(Fresh')
  /\ relation[p][q] # Nil => rel.lchallenge = relation[p][q].lchallenge
  /\ \/ rel.rchallenge = Nil
     \/ rel.rchallenge \in Announced(p, q)
     \/ relation[p][q] # Nil /\ rel.rchallenge = relation[p][q].rchallenge

\* A handshake keeps its role; a replier keeps its encapsulation, and an initiator its
\* key pair unless the request is begun again.
HandshakeEvolves(p, q, hs) ==
  /\ hs \in OrNil(HandshakeType(Fresh'))
  /\ handshake[p][q] # Nil =>
       /\ hs # Nil /\ hs.created_in = handshake[p][q].created_in
       /\ hs.created_in = "reply" =>
            hs.kem_ct = handshake[p][q].kem_ct /\ hs.kem_ss = handshake[p][q].kem_ss
       /\ hs.created_in = "request" /\ ~RepeatRequests =>
            hs.kem_keypair = handshake[p][q].kem_keypair
  /\ handshake[p][q] = Nil /\ hs # Nil =>
       /\ hs.secret = Nil
       /\ hs.created_in = "request" => hs.kem_keypair # Nil
       /\ hs.created_in = "reply" =>
            \E m \in Inbox(p, q, "request") : hs.kem_ss = Secret(m.kem_public, hs.kem_ct)

\* The secret changes only on a reply or a final that names both challenges.
SecretEvolves(p, q, rel, hs) ==
  handshake[p][q] # Nil =>
    \/ hs.secret = handshake[p][q].secret
    \/ /\ hs.created_in = "request"
       /\ \E m \in Inbox(p, q, "reply") :
            hs.secret = SharedSecret(Secret(hs.kem_keypair, m.kem_ct), rel.lchallenge, m.challenge2)
    \/ /\ hs.created_in = "reply"
       /\ \E m \in Inbox(p, q, "final") :
            /\ m.challenge1 = rel.rchallenge /\ m.challenge2 = rel.lchallenge
            /\ hs.secret = SharedSecret(hs.kem_ss, rel.rchallenge, rel.lchallenge)

\* The identity of the peer stays watched, and is watched once its secret is agreed.
RemoteEvolves(p, q, hs, r) ==
  /\ r \in RemoteType
  /\ remote[InstanceOf[p]][q] # Nil /\ remote[InstanceOf[p]][q].timer => r.timer
  /\ handshake[p][q] # Nil /\ hs.secret # handshake[p][q].secret /\ q \in Expiring => r.timer

\* What a call for the pair may send.
Sends(p, q, rel, hs, m) ==
  /\ m.from = p /\ m.to = q
  /\ \/ m.type = "auth" /\ m.challenge = rel.lchallenge
     \/ /\ m.type = "request" /\ hs # Nil /\ hs.created_in = "request"
        /\ m.cred \in CredentialType /\ m.cred.id = p
        /\ m.kem_public = hs.kem_keypair /\ hs.kem_keypair # Nil
        /\ m.challenge1 = rel.lchallenge
     \/ /\ m.type = "reply" /\ hs # Nil /\ hs.created_in = "reply"
        /\ m.cred \in CredentialType /\ m.cred.id = p
        /\ m.kem_ct = hs.kem_ct /\ hs.kem_ct # Nil
        /\ m.challenge1 = rel.rchallenge /\ rel.rchallenge # Nil
        /\ m.challenge2 = rel.lchallenge
     \/ /\ m.type = "final" /\ hs # Nil /\ hs.secret # Nil
        /\ m.signature.by = p
        /\ \E r \in Inbox(p, q, "reply") :
             /\ m.kem_ct = r.kem_ct
             /\ m.challenge1 = r.challenge1 /\ m.challenge2 = r.challenge2

PairOutcome(p, q, rel, hs, r) ==
  /\ PairStep(p, q, rel, hs, r)
  /\ local[p] # Nil
  /\ RelationEvolves(p, q, rel)
  /\ HandshakeEvolves(p, q, hs)
  /\ RoleOK(p, q, rel, hs)
  /\ SecretEvolves(p, q, rel, hs)
  /\ RemoteEvolves(p, q, hs, r)
  /\ msgs \subseteq msgs'
  /\ \A m \in msgs' : m \in msgs \/ Sends(p, q, rel, hs, m)

Outcome(p, q) == \E rel, hs, r : PairOutcome(p, q, rel, hs, r)

\* A handshake of the table is one made of the values drawn after a step as well.
LEMMA HandshakeLifted ==
  ASSUME TypeOK, Fresh \subseteq Fresh', NEW p \in Participants, NEW q \in Participants
  PROVE  handshake[p][q] \in OrNil(HandshakeType(Fresh'))
  <1>1. HandshakeType(Fresh) \subseteq HandshakeType(Fresh')
    BY TypesGrow
  <1>2. handshake[p][q] \in OrNil(HandshakeType(Fresh))
    BY DEF TypeOK
  <1>. QED  BY <1>1, <1>2 DEF OrNil

\* validate_remote_identity: the relation is created or learns a challenge.
LEMMA MeetingOutcome ==
  ASSUME PairInv, NEW p \in Participants, NEW q \in Participants,
         NEW c \in AuthRequests(p, q) \union {Nil}, ValidateRemoteIdentity(p, q, c)
  PROVE  Outcome(p, q)
  <1> USE DEF PairInv
  <1> DEFINE lc == IF relation[p][q] = Nil THEN Draw(p) ELSE relation[p][q].lchallenge
             known == IF relation[p][q] = Nil THEN Nil ELSE relation[p][q].rchallenge
             rc == IF c = Nil THEN known ELSE c
             rel == [lchallenge |-> lc, rchallenge |-> rc]
             hs == handshake[p][q]
             r == KnownRemote(InstanceOf[p], q)
  <1>1. PairStep(p, q, rel, hs, r)
    <2>1. handshake = [handshake EXCEPT ![p][q] = hs]
      BY SlotKept DEF TypeOK
    <2>2. \/ UNCHANGED fresh
          \/ CanDraw(p) /\ fresh' = [fresh EXCEPT ![p] = @ + 1]
      BY DEF ValidateRemoteIdentity, TypeOK
    <2>3. crashed' \subseteq Instances
      BY DEF ValidateRemoteIdentity, TypeOK
    <2>. QED  BY <2>1, <2>2, <2>3 DEF PairStep, ValidateRemoteIdentity
  <1>2. Fresh \subseteq Fresh'
    BY <1>1, PairFresh
  <1>3. relation[p][q] # Nil => relation[p][q] \in RelationType(Fresh)
    BY DEF TypeOK, OrNil
  <1>4. lc \in Fresh'
    <2>1. CASE relation[p][q] = Nil
      <3>1. fresh' = [fresh EXCEPT ![p] = @ + 1]
        BY <2>1 DEF ValidateRemoteIdentity
      <3>. QED  BY <2>1, <3>1, DrawGrows DEF TypeOK
    <2>2. CASE relation[p][q] # Nil
      BY <1>2, <1>3, <2>2 DEF RelationType
    <2>. QED  BY <2>1, <2>2
  <1>5. c # Nil => c \in Announced(p, q) /\ c \in Fresh
    BY DEF AuthRequests, Announced, Inbox, TokensOK, TokenOK
  <1>6. rc \in OrNil(Fresh')
    BY <1>2, <1>3, <1>5 DEF RelationType, OrNil
  <1>7. RelationEvolves(p, q, rel)
    <2>1. rel \in RelationType(Fresh')
      BY <1>4, <1>6 DEF RelationType
    <2>2. \/ rc = Nil \/ rc \in Announced(p, q)
          \/ relation[p][q] # Nil /\ rc = relation[p][q].rchallenge
      BY <1>5
    <2>. QED  BY <2>1, <2>2 DEF RelationEvolves
  <1>8. HandshakeEvolves(p, q, hs)
    <2>1. hs \in OrNil(HandshakeType(Fresh'))
      BY <1>2, HandshakeLifted
    <2>. QED  BY <2>1 DEF HandshakeEvolves
  <1>9. RoleOK(p, q, rel, hs)
    <2>1. hs # Nil => relation[p][q] # Nil
      BY DEF NoDanglingHandshake
    <2>2. relation[p][q] # Nil /\ relation[p][q].rchallenge # Nil => rc # Nil
      OBVIOUS
    <2>. QED  BY <2>1, <2>2 DEF Roles, RoleOK
  <1>10. SecretEvolves(p, q, rel, hs)
    BY DEF SecretEvolves
  <1>11. RemoteEvolves(p, q, hs, r)
    <2>1. CASE remote[InstanceOf[p]][q] = Nil
      BY <2>1 DEF RemoteEvolves, KnownRemote, RemoteType, OrNil
    <2>2. CASE remote[InstanceOf[p]][q] # Nil
      <3>1. r = remote[InstanceOf[p]][q]
        BY <2>2 DEF KnownRemote
      <3>2. r \in RemoteType
        BY <2>2, <3>1, InstanceOfType DEF TypeOK, OrNil
      <3>. QED  BY <3>1, <3>2 DEF RemoteEvolves
    <2>. QED  BY <2>1, <2>2
  <1>12. /\ msgs \subseteq msgs'
         /\ \A m \in msgs' : m \in msgs \/ Sends(p, q, rel, hs, m)
    <2>1. /\ msgs \subseteq msgs'
          /\ \A m \in msgs' : m \in msgs \/
               m = [type |-> "auth", from |-> p, to |-> q, challenge |-> lc]
      BY DEF ValidateRemoteIdentity
    <2>. QED  BY <2>1 DEF Sends
  <1>13. local[p] # Nil
    BY DEF ValidateRemoteIdentity
  <1> HIDE DEF rel, hs, r
  <1>. QED
    BY <1>1, <1>7, <1>8, <1>9, <1>10, <1>11, <1>12, <1>13 DEF PairOutcome, Outcome

\* The handshake that find_handshake returns, or a new one of the given role.
LEMMA FindOrCreateSound ==
  ASSUME TypeOK, NEW p \in Participants, NEW q \in Participants, NEW step \in {"request", "reply"}
  PROVE  /\ FindOrCreate(p, q, step) \in HandshakeType(Fresh)
         /\ handshake[p][q] # Nil => FindOrCreate(p, q, step) = handshake[p][q]
         /\ handshake[p][q] = Nil => FindOrCreate(p, q, step) = NewHandshake(step)
  <1>1. NewHandshake(step) \in HandshakeType(Fresh)
    BY DEF NewHandshake, HandshakeType, OrNil
  <1>2. handshake[p][q] # Nil => handshake[p][q] \in HandshakeType(Fresh)
    BY DEF TypeOK, OrNil
  <1>. QED  BY <1>1, <1>2 DEF FindOrCreate

\* Begin_handshake_request: a new key pair and a request for it.
LEMMA RequestOutcome ==
  ASSUME PairInv, NEW p \in Participants, NEW q \in Participants, BeginHandshakeRequest(p, q)
  PROVE  Outcome(p, q)
  <1> USE DEF PairInv
  <1> DEFINE o == FindOrCreate(p, q, "request")
             k == Draw(p)
             hs == [o EXCEPT !.kem_keypair = k, !.hash_c1 = Credential(p)]
             rel == relation[p][q]
             r == remote[InstanceOf[p]][q]
  <1>0. /\ Related(p, q) /\ p < q /\ CanDraw(p)
        /\ handshake[p][q] # Nil => RepeatRequests
        /\ handshake' = [handshake EXCEPT ![p][q] = hs]
        /\ fresh' = [fresh EXCEPT ![p] = @ + 1]
        /\ msgs' = msgs \union {Request(p, q, hs)}
        /\ UNCHANGED <<local, remote, relation, expired, crashed>>
    BY DEF BeginHandshakeRequest
  <1>1. PairStep(p, q, rel, hs, r)
    <2>1. relation = [relation EXCEPT ![p][q] = rel]
      BY SlotKept DEF TypeOK
    <2>2. remote = [remote EXCEPT ![InstanceOf[p]][q] = r]
      BY SlotKept, InstanceOfType DEF TypeOK
    <2>3. crashed' \subseteq Instances
      BY <1>0 DEF TypeOK
    <2>. QED  BY <1>0, <2>1, <2>2, <2>3 DEF PairStep
  <1>2. Fresh \subseteq Fresh' /\ k \in Fresh'
    BY <1>0, DrawGrows DEF TypeOK
  <1>3. /\ local[p] # Nil /\ r \in RemoteType /\ rel \in RelationType(Fresh)
        /\ rel # Nil
    BY <1>0, RelatedSound DEF Related
  <1>4. Credential(p) \in CredentialType /\ Credential(p).id = p
    BY <1>3, CredentialSound
  <1>5. o \in HandshakeType(Fresh') /\ o.created_in = "request"
    <2>1. /\ o \in HandshakeType(Fresh)
          /\ handshake[p][q] # Nil => o = handshake[p][q]
          /\ handshake[p][q] = Nil => o = NewHandshake("request")
      BY FindOrCreateSound
    <2>2. HandshakeType(Fresh) \subseteq HandshakeType(Fresh')
      BY <1>2, TypesGrow
    <2>3. o.created_in \in {"request", "reply"}
      BY <2>1 DEF HandshakeType
    <2>4. handshake[p][q] # Nil => o.created_in # "reply"
      BY <1>0, <2>1, ParticipantsAssumption DEF Roles
    <2>5. NewHandshake("request").created_in = "request"
      BY DEF NewHandshake
    <2>. QED  BY <2>1, <2>2, <2>3, <2>4, <2>5
  <1>6. handshake[p][q] # Nil => o = handshake[p][q]
    BY FindOrCreateSound
  <1>7. handshake[p][q] = Nil => o.secret = Nil
    <2>1. handshake[p][q] = Nil => o = NewHandshake("request")
      BY FindOrCreateSound
    <2>. QED  BY <2>1 DEF NewHandshake
  <1>8. k # Nil
    BY NilAssumption DEF Draw, Value, TypeOK
  <1> HIDE DEF o, k
  <1>9. /\ hs \in HandshakeType(Fresh')
        /\ hs.created_in = "request" /\ hs.kem_keypair = k /\ hs.hash_c1 = Credential(p)
        /\ hs.secret = o.secret
    BY <1>2, <1>4, <1>5 DEF HandshakeType, OrNil
  <1> HIDE DEF hs
  <1>10. hs # Nil
    <2>1. Fresh' \subseteq Value
      BY DEF Fresh
    <2>2. HandshakeType(Fresh') \subseteq HandshakeType(Value)
      BY <2>1, TypesGrow
    <2>. QED  BY <1>9, <2>2, NilAssumption
  <1>11. RelationEvolves(p, q, rel)
    <2>1. RelationType(Fresh) \subseteq RelationType(Fresh')
      BY <1>2, TypesGrow
    <2>. QED  BY <1>3, <2>1 DEF RelationEvolves
  <1>12. HandshakeEvolves(p, q, hs)
    <2>1. handshake[p][q] # Nil => handshake[p][q].created_in = "request"
      BY <1>5, <1>6
    <2>. QED  BY <1>0, <1>7, <1>8, <1>9, <1>10, <2>1 DEF HandshakeEvolves, OrNil
  <1>13. RoleOK(p, q, rel, hs)
    BY <1>0, <1>9 DEF RoleOK
  <1>14. SecretEvolves(p, q, rel, hs) /\ RemoteEvolves(p, q, hs, r)
    BY <1>3, <1>6, <1>9 DEF SecretEvolves, RemoteEvolves
  <1>15. Sends(p, q, rel, hs, Request(p, q, hs))
    BY <1>3, <1>4, <1>8, <1>9, <1>10 DEF Sends, Request
  <1>16. /\ msgs \subseteq msgs'
         /\ \A m \in msgs' : m \in msgs \/ Sends(p, q, rel, hs, m)
    BY <1>0, <1>15
  <1> HIDE DEF rel, r
  <1>. QED
    BY <1>1, <1>3, <1>11, <1>12, <1>13, <1>14, <1>16 DEF PairOutcome, Outcome

\* What a request that q sent to p carries.
LEMMA RequestSound ==
  ASSUME TokensOK, NEW p \in Participants, NEW q \in Participants, NEW m \in Inbox(p, q, "request")
  PROVE  /\ m.cred \in CredentialType /\ m.cred.id = q /\ m.kem_public \in Fresh
         /\ m.challenge1 \in Fresh /\ m.challenge1 \in Announced(p, q)
  BY DEF Inbox, TokensOK, TokenOK, Announced

\* What a reply that q sent to p carries.
LEMMA ReplySound ==
  ASSUME TokensOK, NEW p \in Participants, NEW q \in Participants, NEW m \in Inbox(p, q, "reply")
  PROVE  /\ m.cred \in CredentialType /\ m.cred.id = q /\ m.kem_ct \in Fresh
         /\ m.challenge1 \in Fresh
         /\ m.challenge2 \in Fresh /\ m.challenge2 \in Announced(p, q)
  BY DEF Inbox, TokensOK, TokenOK, Announced

\* A call that learns from a token and leaves a lawful handshake is lawful.
LEMMA LearningOutcome ==
  ASSUME PairInv, NEW p \in Participants, NEW q \in Participants, Related(p, q),
         NEW m, NEW rc \in Fresh, rc \in Announced(p, q), LearnChallenge(p, q, m, rc),
         NEW r, remote' = [remote EXCEPT ![InstanceOf[p]][q] = r],
         NEW hs, handshake' = [handshake EXCEPT ![p][q] = hs],
         UNCHANGED <<local, expired>>, crashed' \subseteq Instances,
         \/ UNCHANGED fresh
         \/ CanDraw(p) /\ fresh' = [fresh EXCEPT ![p] = @ + 1],
         HandshakeEvolves(p, q, hs), RemoteEvolves(p, q, hs, r),
         RoleOK(p, q, Learned(p, q, m, rc), hs),
         SecretEvolves(p, q, Learned(p, q, m, rc), hs),
         msgs \subseteq msgs',
         \A x \in msgs' : x \in msgs \/ Sends(p, q, Learned(p, q, m, rc), hs, x)
  PROVE  Outcome(p, q)
  <1> USE DEF PairInv
  <1> DEFINE rel == Learned(p, q, m, rc)
  <1>1. /\ relation' = [relation EXCEPT ![p][q] = rel]
        /\ rel \in RelationType(Fresh)
        /\ rel.lchallenge = relation[p][q].lchallenge
        /\ rel.rchallenge = KnownChallenge(p, q, m, rc)
        /\ KnownChallenge(p, q, m, rc) \in {rc, relation[p][q].rchallenge}
    BY LearnedRelation
  <1> HIDE DEF rel
  <1>2. PairStep(p, q, rel, hs, r)
    BY <1>1 DEF PairStep
  <1>3. Fresh \subseteq Fresh'
    BY <1>2, PairFresh
  <1>4. RelationType(Fresh) \subseteq RelationType(Fresh')
    BY <1>3, TypesGrow
  <1>5. RelationEvolves(p, q, rel)
    BY <1>1, <1>4 DEF RelationEvolves, Related
  <1>. QED
    BY <1>2, <1>5 DEF PairOutcome, Outcome, Related, rel

\* A handshake that exists keeps a sound role when a challenge is learnt.
LEMMA RoleKept ==
  ASSUME PairInv, NEW p \in Participants, NEW q \in Participants, Related(p, q),
         NEW m, NEW rc \in Fresh, LearnChallenge(p, q, m, rc),
         handshake[p][q] # Nil, NEW hs, HandshakeEvolves(p, q, hs)
  PROVE  RoleOK(p, q, Learned(p, q, m, rc), hs)
  <1>1. /\ Learned(p, q, m, rc).rchallenge = KnownChallenge(p, q, m, rc)
        /\ relation[p][q].rchallenge # Nil =>
             KnownChallenge(p, q, m, rc) = relation[p][q].rchallenge
    BY LearnedRelation DEF PairInv
  <1>. QED  BY <1>1 DEF PairInv, Roles, RoleOK, HandshakeEvolves

\* A call that fails and has created no handshake leaves none.
LEMMA StillNone ==
  ASSUME NEW p \in Participants, NEW q \in Participants, handshake[p][q] = Nil, NEW rel
  PROVE  HandshakeEvolves(p, q, Nil) /\ RoleOK(p, q, rel, Nil) /\ SecretEvolves(p, q, rel, Nil)
  BY DEF HandshakeEvolves, RoleOK, SecretEvolves, OrNil

\* The identity of the peer when the secret stays as it is.
LEMMA RemoteLearns ==
  ASSUME TypeOK, NEW p \in Participants, NEW q \in Participants, Related(p, q),
         NEW m, m.cred \in CredentialType, NEW accepted \in BOOLEAN, NEW hs,
         handshake[p][q] # Nil => hs.secret = handshake[p][q].secret
  PROVE  RemoteEvolves(p, q, hs, LearnedRemote(p, q, m, accepted))
  <1>1. remote[InstanceOf[p]][q] \in RemoteType
    BY RelatedSound
  <1>2. /\ LearnedRemote(p, q, m, accepted) \in RemoteType
        /\ LearnedRemote(p, q, m, accepted).timer = remote[InstanceOf[p]][q].timer
    BY <1>1, LearnedSound
  <1>. QED  BY <1>2 DEF RemoteEvolves

\* The handshake of a replier once a request is read.
LEMMA ReplyingSound ==
  ASSUME PairInv, NEW p \in Participants, NEW q \in Participants, q < p,
         NEW m, m.cred \in CredentialType
  PROVE  LET hs == Replying(p, q, m)
             o  == FindOrCreate(p, q, "reply")
         IN  /\ hs \in HandshakeType(Fresh)
             /\ hs.created_in = "reply"
             /\ hs.kem_keypair = o.kem_keypair /\ hs.kem_ct = o.kem_ct
             /\ hs.kem_ss = o.kem_ss /\ hs.secret = o.secret
             /\ handshake[p][q] # Nil => o = handshake[p][q]
             /\ handshake[p][q] = Nil => o.secret = Nil /\ o.kem_ct = Nil
  <1> USE DEF PairInv
  <1> DEFINE o == FindOrCreate(p, q, "reply")
  <1>1. /\ o \in HandshakeType(Fresh)
        /\ handshake[p][q] # Nil => o = handshake[p][q]
        /\ handshake[p][q] = Nil => o = NewHandshake("reply")
    BY FindOrCreateSound
  <1>2. handshake[p][q] = Nil => o.secret = Nil /\ o.kem_ct = Nil /\ o.created_in = "reply"
    BY <1>1 DEF NewHandshake
  <1>3. o.created_in = "reply"
    <2>1. o.created_in \in {"request", "reply"}
      BY <1>1 DEF HandshakeType
    <2>2. ~(p < q)
      BY ParticipantsAssumption
    <2>3. handshake[p][q] # Nil => handshake[p][q].created_in # "request"
      BY <2>2 DEF Roles
    <2>. QED  BY <1>1, <1>2, <2>1, <2>3
  <1>4. Replying(p, q, m) = IF CredentialAccepted(p, m) THEN [o EXCEPT !.hash_c1 = m.cred] ELSE o
    BY DEF Replying
  <1> HIDE DEF o
  <1>5. LET hs == [o EXCEPT !.hash_c1 = m.cred] IN
        /\ hs \in HandshakeType(Fresh) /\ hs.created_in = "reply"
        /\ hs.kem_keypair = o.kem_keypair /\ hs.kem_ct = o.kem_ct
        /\ hs.kem_ss = o.kem_ss /\ hs.secret = o.secret
    BY <1>1, <1>3 DEF HandshakeType, OrNil
  <1>. QED  BY <1>1, <1>2, <1>3, <1>4, <1>5 DEF o

\* A call that sends nothing and leaves the relation and the peer's identity alone.
LEMMA QuietOutcome ==
  ASSUME PairInv, NEW p \in Participants, NEW q \in Participants, Related(p, q),
         NEW hs, handshake' = [handshake EXCEPT ![p][q] = hs],
         UNCHANGED <<local, remote, relation, fresh, expired, crashed, msgs>>,
         HandshakeEvolves(p, q, hs), RoleOK(p, q, relation[p][q], hs),
         handshake[p][q] # Nil => hs.secret = handshake[p][q].secret
  PROVE  Outcome(p, q)
  <1> USE DEF PairInv
  <1> DEFINE rel == relation[p][q]
             r == remote[InstanceOf[p]][q]
  <1>1. rel \in RelationType(Fresh') /\ r \in RemoteType
    BY RelatedSound, SameDraws
  <1>2. PairStep(p, q, rel, hs, r)
    <2>1. relation = [relation EXCEPT ![p][q] = rel]
      BY SlotKept DEF TypeOK
    <2>2. remote = [remote EXCEPT ![InstanceOf[p]][q] = r]
      BY SlotKept, InstanceOfType DEF TypeOK
    <2>. QED  BY <2>1, <2>2 DEF PairStep, TypeOK
  <1>3. RelationEvolves(p, q, rel)
    BY <1>1 DEF RelationEvolves, Related
  <1>4. SecretEvolves(p, q, rel, hs) /\ RemoteEvolves(p, q, hs, r)
    BY <1>1 DEF SecretEvolves, RemoteEvolves
  <1>5. local[p] # Nil /\ RoleOK(p, q, rel, hs)
    BY DEF Related
  <1> HIDE DEF rel, r
  <1>. QED  BY <1>2, <1>3, <1>4, <1>5 DEF PairOutcome, Outcome

\* begin_handshake_request again, when key generation fails.
LEMMA FailRequestOutcome ==
  ASSUME PairInv, NEW p \in Participants, NEW q \in Participants, FailHandshakeRequest(p, q)
  PROVE  Outcome(p, q)
  <1> USE DEF PairInv
  <1> DEFINE o == handshake[p][q]
             hs == [o EXCEPT !.kem_keypair = Nil]
  <1>1. /\ Related(p, q) /\ p < q /\ o # Nil /\ RepeatRequests
        /\ UNCHANGED <<local, remote, relation, fresh, expired, crashed, msgs>>
    BY DEF FailHandshakeRequest
  <1>2. handshake' = [handshake EXCEPT ![p][q] = hs]
    BY DEF FailHandshakeRequest, TypeOK
  <1>3. o \in HandshakeType(Fresh) /\ Fresh' = Fresh
    BY <1>1, RelatedSound, SameDraws
  <1>4. o.created_in = "request"
    BY <1>1, <1>3, ParticipantsAssumption DEF Roles, HandshakeType
  <1>5. /\ hs \in HandshakeType(Fresh') /\ hs.created_in = "request"
        /\ hs.secret = o.secret
    BY <1>3, <1>4 DEF HandshakeType, OrNil
  <1> HIDE DEF hs
  <1>6. hs # Nil
    BY <1>3, <1>5, NilIsNoObject
  <1>7. HandshakeEvolves(p, q, hs)
    BY <1>1, <1>4, <1>5, <1>6 DEF HandshakeEvolves, OrNil
  <1>8. RoleOK(p, q, relation[p][q], hs)
    BY <1>1, <1>5 DEF RoleOK
  <1>. QED  BY <1>1, <1>2, <1>5, <1>7, <1>8, QuietOutcome

\* A handshake that exists and whose call changes hashes only evolves lawfully.
LEMMA HashesEvolve ==
  ASSUME TypeOK, NEW p \in Participants, NEW q \in Participants, handshake[p][q] # Nil,
         NEW hs \in HandshakeType(Fresh), UNCHANGED fresh,
         hs.created_in = handshake[p][q].created_in,
         hs.kem_keypair = handshake[p][q].kem_keypair,
         hs.kem_ct = handshake[p][q].kem_ct, hs.kem_ss = handshake[p][q].kem_ss
  PROVE  HandshakeEvolves(p, q, hs)
  <1>1. hs \in HandshakeType(Fresh') /\ hs # Nil
    BY SameDraws, NilIsNoObject
  <1>. QED  BY <1>1 DEF HandshakeEvolves, OrNil

\* begin_handshake_reply with a request that is refused.
LEMMA RefuseRequestOutcome ==
  ASSUME PairInv, NEW p \in Participants, NEW q \in Participants,
         NEW m \in Inbox(p, q, "request"), RefuseHandshakeRequest(p, q, m)
  PROVE  Outcome(p, q)
  <1> USE DEF PairInv
  <1> DEFINE hs == IF CreatedHere(p, q) THEN Nil ELSE Replying(p, q, m)
             rel == Learned(p, q, m, m.challenge1)
             r == LearnedRemote(p, q, m, FALSE)
  <1>1. /\ Related(p, q) /\ q < p
        /\ handshake' = [handshake EXCEPT ![p][q] = hs]
        /\ remote' = [remote EXCEPT ![InstanceOf[p]][q] = r]
        /\ LearnChallenge(p, q, m, m.challenge1)
        /\ UNCHANGED <<local, fresh, expired, crashed, msgs>>
    BY DEF RefuseHandshakeRequest, LearnRemote
  <1>2. /\ m.cred \in CredentialType
        /\ m.challenge1 \in Fresh /\ m.challenge1 \in Announced(p, q)
    BY RequestSound
  <1>3. /\ HandshakeEvolves(p, q, hs) /\ RoleOK(p, q, rel, hs)
        /\ SecretEvolves(p, q, rel, hs)
        /\ handshake[p][q] # Nil => hs.secret = handshake[p][q].secret
    <2>1. CASE handshake[p][q] = Nil
      <3>1. hs = Nil
        BY <2>1 DEF CreatedHere
      <3>. QED  BY <2>1, <3>1, StillNone
    <2>2. CASE handshake[p][q] # Nil
      <3>1. hs = Replying(p, q, m)
        BY <2>2 DEF CreatedHere
      <3>2. /\ hs \in HandshakeType(Fresh) /\ hs.created_in = "reply"
            /\ hs.kem_keypair = handshake[p][q].kem_keypair
            /\ hs.kem_ct = handshake[p][q].kem_ct
            /\ hs.kem_ss = handshake[p][q].kem_ss /\ hs.secret = handshake[p][q].secret
        BY <1>1, <1>2, <2>2, <3>1, ReplyingSound
      <3>3. handshake[p][q].created_in = "reply"
        BY <1>1, <2>2, RelatedSound, ParticipantsAssumption DEF Roles, HandshakeType
      <3> HIDE DEF hs
      <3>4. HandshakeEvolves(p, q, hs)
        BY <1>1, <2>2, <3>2, <3>3, HashesEvolve
      <3>5. RoleOK(p, q, rel, hs)
        BY <1>1, <1>2, <2>2, <3>4, RoleKept
      <3>. QED  BY <3>2, <3>4, <3>5 DEF SecretEvolves
    <2>. QED  BY <2>1, <2>2
  <1> HIDE DEF hs
  <1>4. RemoteEvolves(p, q, hs, r)
    BY <1>1, <1>2, <1>3, RemoteLearns
  <1>5. crashed' \subseteq Instances /\ msgs \subseteq msgs' /\ \A x \in msgs' : x \in msgs
    BY <1>1 DEF TypeOK
  <1> HIDE DEF r
  <1>. QED  BY <1>1, <1>2, <1>3, <1>4, <1>5, LearningOutcome

\* begin_handshake_reply when the reply cannot be built.
LEMMA FailAnswerOutcome ==
  ASSUME PairInv, NEW p \in Participants, NEW q \in Participants,
         NEW m \in Inbox(p, q, "request"), FailHandshakeReply(p, q, m)
  PROVE  Outcome(p, q)
  <1> USE DEF PairInv
  <1> DEFINE o == Replying(p, q, m)
             d == [o EXCEPT !.hash_c2 = Credential(p)]
             hs == IF CreatedHere(p, q) THEN Nil ELSE d
             rel == Learned(p, q, m, m.challenge1)
             r == LearnedRemote(p, q, m, TRUE)
  <1>1. /\ Related(p, q) /\ q < p
        /\ handshake' = [handshake EXCEPT ![p][q] = hs]
        /\ remote' = [remote EXCEPT ![InstanceOf[p]][q] = r]
        /\ LearnChallenge(p, q, m, m.challenge1)
        /\ UNCHANGED <<local, fresh, expired, crashed, msgs>>
    BY DEF FailHandshakeReply, LearnRemote
  <1>2. /\ m.cred \in CredentialType
        /\ m.challenge1 \in Fresh /\ m.challenge1 \in Announced(p, q)
    BY RequestSound
  <1>3. /\ HandshakeEvolves(p, q, hs) /\ RoleOK(p, q, rel, hs)
        /\ SecretEvolves(p, q, rel, hs)
        /\ handshake[p][q] # Nil => hs.secret = handshake[p][q].secret
    <2>1. CASE handshake[p][q] = Nil
      <3>1. hs = Nil
        BY <2>1 DEF CreatedHere
      <3>. QED  BY <2>1, <3>1, StillNone
    <2>2. CASE handshake[p][q] # Nil
      <3>1. hs = d
        BY <2>2 DEF CreatedHere
      <3>2. /\ o \in HandshakeType(Fresh) /\ o.created_in = "reply"
            /\ o.kem_keypair = handshake[p][q].kem_keypair
            /\ o.kem_ct = handshake[p][q].kem_ct
            /\ o.kem_ss = handshake[p][q].kem_ss /\ o.secret = handshake[p][q].secret
        BY <1>1, <1>2, <2>2, ReplyingSound
      <3>3. handshake[p][q].created_in = "reply"
        BY <1>1, <2>2, RelatedSound, ParticipantsAssumption DEF Roles, HandshakeType
      <3>4. Credential(p) \in CredentialType
        BY <1>1, CredentialSound DEF Related
      <3> HIDE DEF o
      <3>5. /\ d \in HandshakeType(Fresh) /\ d.created_in = "reply"
            /\ d.kem_keypair = o.kem_keypair /\ d.kem_ct = o.kem_ct
            /\ d.kem_ss = o.kem_ss /\ d.secret = o.secret
        BY <3>2, <3>4 DEF HandshakeType, OrNil
      <3> HIDE DEF d, hs
      <3>6. HandshakeEvolves(p, q, hs)
        BY <1>1, <2>2, <3>1, <3>2, <3>3, <3>5, HashesEvolve
      <3>7. RoleOK(p, q, rel, hs)
        BY <1>1, <1>2, <2>2, <3>6, RoleKept
      <3>. QED  BY <3>1, <3>2, <3>5, <3>6, <3>7 DEF SecretEvolves
    <2>. QED  BY <2>1, <2>2
  <1> HIDE DEF hs
  <1>4. RemoteEvolves(p, q, hs, r)
    BY <1>1, <1>2, <1>3, RemoteLearns
  <1>5. crashed' \subseteq Instances /\ msgs \subseteq msgs' /\ \A x \in msgs' : x \in msgs
    BY <1>1 DEF TypeOK
  <1> HIDE DEF r
  <1>. QED  BY <1>1, <1>2, <1>3, <1>4, <1>5, LearningOutcome

\* begin_handshake_reply for the first request: it encapsulates and replies.
LEMMA AnswerOutcome ==
  ASSUME PairInv, NEW p \in Participants, NEW q \in Participants,
         NEW m \in Inbox(p, q, "request"), BeginHandshakeReply(p, q, m)
  PROVE  Outcome(p, q)
  <1> USE DEF PairInv
  <1> DEFINE o == Replying(p, q, m)
             ct == Draw(p)
             ss == Secret(m.kem_public, ct)
             hs == [o EXCEPT !.kem_ct = ct, !.kem_ss = ss, !.hash_c2 = Credential(p)]
             rel == Learned(p, q, m, m.challenge1)
             r == LearnedRemote(p, q, m, TRUE)
             t == Reply(p, q, hs, m.kem_public, KnownChallenge(p, q, m, m.challenge1))
  <1>1. /\ Related(p, q) /\ q < p /\ RequestAccepted(p, q, m) /\ NeedsCiphertext(o)
        /\ CanDraw(p)
        /\ handshake' = [handshake EXCEPT ![p][q] = hs]
        /\ fresh' = [fresh EXCEPT ![p] = @ + 1]
        /\ msgs' = msgs \union {t}
        /\ remote' = [remote EXCEPT ![InstanceOf[p]][q] = r]
        /\ LearnChallenge(p, q, m, m.challenge1)
        /\ UNCHANGED <<local, expired, crashed>>
    BY DEF BeginHandshakeReply, LearnRemote
  <1>2. /\ m.cred \in CredentialType /\ m.kem_public \in Fresh
        /\ m.challenge1 \in Fresh /\ m.challenge1 \in Announced(p, q)
    BY RequestSound
  <1>3. /\ o \in HandshakeType(Fresh) /\ o.created_in = "reply"
        /\ handshake[p][q] # Nil =>
             o.kem_ct = handshake[p][q].kem_ct /\ o.kem_ss = handshake[p][q].kem_ss
        /\ handshake[p][q] = Nil => o.secret = Nil
    BY <1>1, <1>2, ReplyingSound
  <1>4. handshake[p][q] = Nil
    <2> SUFFICES ASSUME handshake[p][q] # Nil PROVE FALSE
      OBVIOUS
    <2>1. handshake[p][q].created_in = "reply"
      BY <1>1, RelatedSound, ParticipantsAssumption DEF Roles, HandshakeType
    <2>2. handshake[p][q].kem_ct # Nil /\ handshake[p][q].kem_ss # Nil
      BY <2>1 DEF Roles
    <2>. QED  BY <1>1, <1>3, <2>2 DEF NeedsCiphertext
  <1>5. Fresh \subseteq Fresh' /\ ct \in Fresh' /\ ct # Nil
    BY <1>1, DrawGrows, NilAssumption DEF TypeOK, Fresh
  <1>6. ss \in SecretType(Fresh') /\ ss # Nil
    <2>1. ss \in SecretType(Fresh')
      BY <1>2, <1>5 DEF Secret, SecretType
    <2>2. SecretType(Fresh') \subseteq SecretType(Value)
      <3>1. Fresh' \subseteq Value
        BY DEF Fresh
      <3>. QED  BY <3>1, TypesGrow
    <2>. QED  BY <2>1, <2>2, NilAssumption
  <1>7. Credential(p) \in CredentialType /\ Credential(p).id = p
    BY <1>1, CredentialSound DEF Related
  <1>8. o \in HandshakeType(Fresh')
    <2>1. HandshakeType(Fresh) \subseteq HandshakeType(Fresh')
      BY <1>5, TypesGrow
    <2>. QED  BY <1>3, <2>1
  <1>9. CredentialAccepted(p, m) /\ KemPublicSized(m)
    BY <1>1 DEF RequestAccepted
  <1>10. /\ rel.lchallenge = relation[p][q].lchallenge
         /\ rel.rchallenge = KnownChallenge(p, q, m, m.challenge1)
         /\ rel.rchallenge # Nil
    BY <1>1, <1>2, <1>9, LearnedRelation
  <1> HIDE DEF o, ct, ss
  <1>11. /\ hs \in HandshakeType(Fresh')
         /\ hs.created_in = "reply" /\ hs.kem_ct = ct /\ hs.kem_ss = ss
         /\ hs.hash_c2 = Credential(p) /\ hs.secret = o.secret
    BY <1>3, <1>5, <1>6, <1>7, <1>8 DEF HandshakeType, OrNil
  <1> HIDE DEF hs
  <1>12. hs # Nil
    <2>1. Fresh' \subseteq Value
      BY DEF Fresh
    <2>2. HandshakeType(Fresh') \subseteq HandshakeType(Value)
      BY <2>1, TypesGrow
    <2>. QED  BY <1>11, <2>2, NilAssumption
  <1>13. HandshakeEvolves(p, q, hs)
    <2>1. hs.kem_ss = Secret(m.kem_public, hs.kem_ct)
      BY <1>11 DEF ss
    <2>. QED  BY <1>3, <1>4, <1>11, <1>12, <2>1 DEF HandshakeEvolves, OrNil
  <1>14. RoleOK(p, q, rel, hs)
    BY <1>1, <1>5, <1>6, <1>10, <1>11 DEF RoleOK
  <1>15. SecretEvolves(p, q, rel, hs)
    BY <1>4 DEF SecretEvolves
  <1>16. RemoteEvolves(p, q, hs, r)
    BY <1>1, <1>2, <1>4, RemoteLearns
  <1>17. Sends(p, q, rel, hs, t)
    BY <1>5, <1>7, <1>10, <1>11, <1>12 DEF Sends, Reply
  <1>18. /\ crashed' \subseteq Instances /\ msgs \subseteq msgs'
         /\ \A x \in msgs' : x \in msgs \/ Sends(p, q, rel, hs, x)
    BY <1>1, <1>17 DEF TypeOK
  <1> HIDE DEF r, t
  <1>. QED
    BY <1>1, <1>2, <1>13, <1>14, <1>15, <1>16, <1>18, LearningOutcome

\* begin_handshake_reply again: the reply repeats the ciphertext, whatever key it names.
LEMMA RepeatAnswerOutcome ==
  ASSUME PairInv, NEW p \in Participants, NEW q \in Participants,
         NEW m \in Inbox(p, q, "request"), RepeatHandshakeReply(p, q, m)
  PROVE  Outcome(p, q)
  <1> USE DEF PairInv
  <1> DEFINE o == Replying(p, q, m)
             hs == [o EXCEPT !.hash_c2 = Credential(p)]
             rel == Learned(p, q, m, m.challenge1)
             r == LearnedRemote(p, q, m, TRUE)
             t(pk) == Reply(p, q, hs, pk, KnownChallenge(p, q, m, m.challenge1))
  <1>1. /\ Related(p, q) /\ q < p /\ RequestAccepted(p, q, m) /\ ~NeedsCiphertext(hs)
        /\ handshake' = [handshake EXCEPT ![p][q] = hs]
        /\ remote' = [remote EXCEPT ![InstanceOf[p]][q] = r]
        /\ LearnChallenge(p, q, m, m.challenge1)
        /\ UNCHANGED <<local, fresh, expired>>
    BY DEF RepeatHandshakeReply, LearnRemote
  <1>2. /\ crashed' \subseteq Instances
        /\ msgs \subseteq msgs'
        /\ \A x \in msgs' : x \in msgs \/ \E pk : x = t(pk)
    BY InstanceOfType DEF RepeatHandshakeReply, TypeOK
  <1>3. /\ m.cred \in CredentialType
        /\ m.challenge1 \in Fresh /\ m.challenge1 \in Announced(p, q)
    BY RequestSound
  <1>4. /\ o \in HandshakeType(Fresh) /\ o.created_in = "reply"
        /\ handshake[p][q] = Nil => o.kem_ct = Nil
        /\ handshake[p][q] # Nil =>
             /\ o.kem_keypair = handshake[p][q].kem_keypair
             /\ o.kem_ct = handshake[p][q].kem_ct
             /\ o.kem_ss = handshake[p][q].kem_ss /\ o.secret = handshake[p][q].secret
    BY <1>1, <1>3, ReplyingSound
  <1>5. Credential(p) \in CredentialType /\ Credential(p).id = p
    BY <1>1, CredentialSound DEF Related
  <1>6. CredentialAccepted(p, m) /\ KemPublicSized(m)
    BY <1>1 DEF RequestAccepted
  <1>7. /\ rel.lchallenge = relation[p][q].lchallenge
        /\ rel.rchallenge = KnownChallenge(p, q, m, m.challenge1)
        /\ rel.rchallenge # Nil
    BY <1>1, <1>3, <1>6, LearnedRelation
  <1> HIDE DEF o
  <1>8. /\ hs \in HandshakeType(Fresh) /\ hs.created_in = "reply"
        /\ hs.kem_keypair = o.kem_keypair /\ hs.kem_ct = o.kem_ct
        /\ hs.kem_ss = o.kem_ss /\ hs.secret = o.secret /\ hs.hash_c2 = Credential(p)
    BY <1>4, <1>5 DEF HandshakeType, OrNil
  <1> HIDE DEF hs
  <1>9. hs.kem_ct # Nil /\ handshake[p][q] # Nil /\ hs # Nil
    BY <1>1, <1>4, <1>8, NilIsNoObject DEF NeedsCiphertext
  <1>10. handshake[p][q].created_in = "reply"
    BY <1>1, <1>9, RelatedSound, ParticipantsAssumption DEF Roles, HandshakeType
  <1>11. HandshakeEvolves(p, q, hs)
    BY <1>1, <1>4, <1>8, <1>9, <1>10, HashesEvolve
  <1>12. RoleOK(p, q, rel, hs)
    BY <1>1, <1>3, <1>9, <1>11, RoleKept
  <1>13. SecretEvolves(p, q, rel, hs)
    BY <1>4, <1>8, <1>9 DEF SecretEvolves
  <1>14. RemoteEvolves(p, q, hs, r)
    BY <1>1, <1>3, <1>4, <1>8, <1>9, RemoteLearns
  <1>15. ASSUME NEW pk PROVE Sends(p, q, rel, hs, t(pk))
    BY <1>5, <1>7, <1>8, <1>9 DEF Sends, Reply
  <1>16. \A x \in msgs' : x \in msgs \/ Sends(p, q, rel, hs, x)
    BY <1>2, <1>15
  <1> HIDE DEF r, t
  <1>. QED
    BY <1>1, <1>2, <1>3, <1>11, <1>12, <1>13, <1>14, <1>16, LearningOutcome

\* process_handshake with a reply that is refused: only the hash of it is kept.
LEMMA RefuseReplyOutcome ==
  ASSUME PairInv, NEW p \in Participants, NEW q \in Participants,
         NEW m \in Inbox(p, q, "reply"), RefuseReply(p, q, m)
  PROVE  Outcome(p, q)
  <1> USE DEF PairInv
  <1> DEFINE o == handshake[p][q]
             c == IF CredentialAccepted(p, m) THEN m.cred ELSE o.hash_c2
             hs == [o EXCEPT !.hash_c2 = c]
             rel == Learned(p, q, m, m.challenge2)
             r == LearnedRemote(p, q, m, FALSE)
  <1>1. /\ Related(p, q) /\ o # Nil /\ o.created_in = "request"
        /\ remote' = [remote EXCEPT ![InstanceOf[p]][q] = r]
        /\ LearnChallenge(p, q, m, m.challenge2)
        /\ UNCHANGED <<local, fresh, expired, crashed, msgs>>
    BY DEF RefuseReply, LearnRemote, Handling
  <1>2. handshake' = [handshake EXCEPT ![p][q] = hs]
    BY DEF RefuseReply, TypeOK
  <1>3. /\ m.cred \in CredentialType
        /\ m.challenge2 \in Fresh /\ m.challenge2 \in Announced(p, q)
    BY ReplySound
  <1>4. o \in HandshakeType(Fresh)
    BY <1>1, RelatedSound
  <1>5. c \in OrNil(CredentialType)
    BY <1>3, <1>4 DEF HandshakeType, OrNil
  <1> HIDE DEF c
  <1>6. /\ hs \in HandshakeType(Fresh) /\ hs.created_in = o.created_in
        /\ hs.kem_keypair = o.kem_keypair /\ hs.kem_ct = o.kem_ct
        /\ hs.kem_ss = o.kem_ss /\ hs.secret = o.secret
    BY <1>4, <1>5 DEF HandshakeType
  <1> HIDE DEF hs
  <1>7. HandshakeEvolves(p, q, hs)
    BY <1>1, <1>6, HashesEvolve
  <1>8. RoleOK(p, q, rel, hs)
    BY <1>1, <1>3, <1>7, RoleKept
  <1>9. SecretEvolves(p, q, rel, hs)
    BY <1>6 DEF SecretEvolves
  <1>10. RemoteEvolves(p, q, hs, r)
    BY <1>1, <1>3, <1>6, RemoteLearns
  <1>11. crashed' \subseteq Instances /\ msgs \subseteq msgs' /\ \A x \in msgs' : x \in msgs
    BY <1>1 DEF TypeOK
  <1> HIDE DEF r
  <1>. QED
    BY <1>1, <1>2, <1>3, <1>7, <1>8, <1>9, <1>10, <1>11, LearningOutcome

\* An initiator whose call changes the KEM secret but not the key pair.
LEMMA SharedEvolve ==
  ASSUME TypeOK, NEW p \in Participants, NEW q \in Participants, handshake[p][q] # Nil,
         NEW hs \in HandshakeType(Fresh), UNCHANGED fresh,
         handshake[p][q].created_in = "request", hs.created_in = "request",
         hs.kem_keypair = handshake[p][q].kem_keypair
  PROVE  HandshakeEvolves(p, q, hs)
  <1>1. hs \in HandshakeType(Fresh') /\ hs # Nil
    BY SameDraws, NilIsNoObject
  <1>. QED  BY <1>1 DEF HandshakeEvolves, OrNil

\* process_handshake with an accepted reply when no final can be sent.
LEMMA FailReplyOutcome ==
  ASSUME PairInv, NEW p \in Participants, NEW q \in Participants,
         NEW m \in Inbox(p, q, "reply"), FailReply(p, q, m)
  PROVE  Outcome(p, q)
  <1> USE DEF PairInv
  <1> DEFINE o == handshake[p][q]
             rel == Learned(p, q, m, m.challenge2)
             r == LearnedRemote(p, q, m, TRUE)
  <1>1. /\ Related(p, q) /\ o # Nil /\ o.created_in = "request"
        /\ remote' = [remote EXCEPT ![InstanceOf[p]][q] = r]
        /\ LearnChallenge(p, q, m, m.challenge2)
        /\ UNCHANGED <<local, fresh, expired, crashed, msgs>>
    BY DEF FailReply, LearnRemote, Handling
  <1>2. PICK ss \in FailedSecrets(o, m) :
          handshake' = [handshake EXCEPT ![p][q].hash_c2 = m.cred, ![p][q].kem_ss = ss]
    BY DEF FailReply
  <1> DEFINE hs == [o EXCEPT !.hash_c2 = m.cred, !.kem_ss = ss]
  <1>3. handshake' = [handshake EXCEPT ![p][q] = hs]
    BY <1>2 DEF TypeOK
  <1>4. /\ m.cred \in CredentialType /\ m.kem_ct \in Fresh
        /\ m.challenge2 \in Fresh /\ m.challenge2 \in Announced(p, q)
    BY ReplySound
  <1>5. o \in HandshakeType(Fresh)
    BY <1>1, RelatedSound
  <1>6. ss \in OrNil(SecretType(Fresh))
    <2>1. o.kem_keypair \in OrNil(Fresh) /\ o.kem_ss \in OrNil(SecretType(Fresh))
      BY <1>5 DEF HandshakeType
    <2>2. CASE o.kem_keypair = Nil
      BY <1>2, <2>1, <2>2 DEF FailedSecrets
    <2>3. CASE o.kem_keypair # Nil
      <3>1. Secret(o.kem_keypair, m.kem_ct) \in SecretType(Fresh)
        BY <1>4, <2>1, <2>3 DEF Secret, SecretType, OrNil
      <3>2. ss = Nil \/ ss = Secret(o.kem_keypair, m.kem_ct)
        BY <1>2, <2>3 DEF FailedSecrets
      <3>. QED  BY <3>1, <3>2 DEF OrNil
    <2>. QED  BY <2>2, <2>3
  <1>7. /\ hs \in HandshakeType(Fresh) /\ hs.created_in = o.created_in
        /\ hs.kem_keypair = o.kem_keypair /\ hs.secret = o.secret
    BY <1>4, <1>5, <1>6 DEF HandshakeType, OrNil
  <1> HIDE DEF hs
  <1>8. HandshakeEvolves(p, q, hs)
    BY <1>1, <1>7, SharedEvolve
  <1>9. RoleOK(p, q, rel, hs)
    BY <1>1, <1>4, <1>8, RoleKept
  <1>10. SecretEvolves(p, q, rel, hs)
    BY <1>7 DEF SecretEvolves
  <1>11. RemoteEvolves(p, q, hs, r)
    BY <1>1, <1>4, <1>7, RemoteLearns
  <1>12. crashed' \subseteq Instances /\ msgs \subseteq msgs' /\ \A x \in msgs' : x \in msgs
    BY <1>1 DEF TypeOK
  <1> HIDE DEF r
  <1>. QED
    BY <1>1, <1>3, <1>4, <1>8, <1>9, <1>10, <1>11, <1>12, LearningOutcome

\* process_handshake with an accepted reply: the initiator derives the secret, watches
\* its peer's certificate and sends the final.
LEMMA ProcessReplyOutcome ==
  ASSUME PairInv, NEW p \in Participants, NEW q \in Participants,
         NEW m \in Inbox(p, q, "reply"), ProcessReply(p, q, m)
  PROVE  Outcome(p, q)
  <1> USE DEF PairInv
  <1> DEFINE o == handshake[p][q]
             rc == KnownChallenge(p, q, m, m.challenge2)
             lc == relation[p][q].lchallenge
             ss == Secret(o.kem_keypair, m.kem_ct)
             sh == SharedSecret(ss, lc, rc)
             hs == [o EXCEPT !.hash_c2 = m.cred, !.kem_ss = ss, !.secret = sh]
             rel == Learned(p, q, m, m.challenge2)
             l == LearnedRemote(p, q, m, TRUE)
             r == Watched(l)
             t == Final(p, q, hs, m, rc)
  <1>1. /\ Related(p, q) /\ o # Nil /\ o.created_in = "request" /\ o.kem_keypair # Nil
        /\ ReplyAccepted(p, q, m)
        /\ remote' = [remote EXCEPT ![InstanceOf[p]][q] = r]
        /\ LearnChallenge(p, q, m, m.challenge2)
        /\ UNCHANGED <<local, fresh, expired, crashed>>
    BY DEF ProcessReply, Handling
  <1>2. handshake' = [handshake EXCEPT ![p][q] = hs] /\ msgs' = msgs \union {t}
    BY DEF ProcessReply, InitiatorDone
  <1>3. /\ m.cred \in CredentialType /\ m.cred.id = q /\ m.kem_ct \in Fresh
        /\ m.challenge2 \in Fresh /\ m.challenge2 \in Announced(p, q)
    BY ReplySound
  <1>4. o \in HandshakeType(Fresh) /\ relation[p][q] \in RelationType(Fresh)
    BY <1>1, RelatedSound
  <1>5. rc = m.challenge2 /\ m.challenge1 = lc
    BY <1>1 DEF ReplyAccepted, KnownChallenge, MatchesKnown
  <1>6. ss \in SecretType(Fresh)
    BY <1>1, <1>3, <1>4 DEF Secret, SecretType, HandshakeType, OrNil
  <1>7. sh \in SharedType(Fresh) /\ sh # Nil
    <2>1. lc \in Fresh
      BY <1>4 DEF RelationType
    <2>2. sh \in SharedType(Fresh)
      BY <1>3, <1>5, <1>6, <2>1 DEF SharedSecret, SharedType
    <2>. QED  BY <2>2, NilIsNoObject
  <1>8. rel.lchallenge = lc
    BY <1>1, <1>3, LearnedRelation
  <1>9. /\ l \in RemoteType /\ l.timer = remote[InstanceOf[p]][q].timer /\ l.cert = q
    <2>1. remote[InstanceOf[p]][q] \in RemoteType
      BY <1>1, RelatedSound
    <2>2. TRUE \in BOOLEAN
      OBVIOUS
    <2>3. l \in RemoteType /\ l.timer = remote[InstanceOf[p]][q].timer
      BY <1>3, <2>1, <2>2, LearnedSound
    <2>4. l.cert = m.cred.id
      BY <2>1 DEF LearnedRemote, RemoteType
    <2>. QED  BY <1>3, <2>3, <2>4
  <1>10. r \in RemoteType /\ (r.timer <=> l.timer \/ l.cert \in Expiring)
    BY <1>9, WatchedSound
  <1> HIDE DEF ss, sh, r, l
  <1>11. /\ hs \in HandshakeType(Fresh) /\ hs.created_in = "request"
         /\ hs.kem_keypair = o.kem_keypair /\ hs.secret = sh
    BY <1>1, <1>3, <1>4, <1>6, <1>7 DEF HandshakeType, OrNil
  <1> HIDE DEF hs
  <1>12. HandshakeEvolves(p, q, hs) /\ hs # Nil
    BY <1>1, <1>11, SharedEvolve, NilIsNoObject
  <1>13. RoleOK(p, q, rel, hs)
    BY <1>1, <1>3, <1>12, RoleKept
  <1>14. SecretEvolves(p, q, rel, hs)
    <2>1. hs.secret = SharedSecret(Secret(hs.kem_keypair, m.kem_ct), rel.lchallenge, m.challenge2)
      BY <1>5, <1>8, <1>11 DEF sh, ss
    <2>. QED  BY <1>11, <2>1 DEF SecretEvolves
  <1>15. RemoteEvolves(p, q, hs, r)
    BY <1>9, <1>10 DEF RemoteEvolves
  <1>16. Sends(p, q, rel, hs, t)
    <2>1. /\ t.type = "final" /\ t.from = p /\ t.to = q /\ t.signature.by = p
          /\ t.kem_ct = m.kem_ct /\ t.challenge1 = lc /\ t.challenge2 = rc
      BY DEF Final, Signed
    <2>. QED  BY <1>5, <1>7, <1>11, <1>12, <2>1 DEF Sends
  <1>17. /\ crashed' \subseteq Instances /\ msgs \subseteq msgs'
         /\ \A x \in msgs' : x \in msgs \/ Sends(p, q, rel, hs, x)
    BY <1>1, <1>2, <1>16 DEF TypeOK
  <1>. QED
    BY <1>1, <1>2, <1>3, <1>12, <1>13, <1>14, <1>15, <1>17, LearningOutcome

\* process_handshake with an accepted final: the replier derives the secret and
\* watches its peer's certificate.
LEMMA ProcessFinalOutcome ==
  ASSUME PairInv, NEW p \in Participants, NEW q \in Participants,
         NEW m \in Inbox(p, q, "final"), ProcessFinal(p, q, m)
  PROVE  Outcome(p, q)
  <1> USE DEF PairInv
  <1> DEFINE o == handshake[p][q]
             rel == relation[p][q]
             sh == SharedSecret(o.kem_ss, rel.rchallenge, rel.lchallenge)
             hs == [o EXCEPT !.secret = sh]
             l == remote[InstanceOf[p]][q]
             r == Watched(l)
  <1>1. /\ Related(p, q) /\ o # Nil /\ o.created_in = "reply" /\ o.kem_ss # Nil
        /\ FinalAccepted(p, q, m)
        /\ UNCHANGED <<local, relation, fresh, expired, crashed, msgs>>
    BY DEF ProcessFinal, Handling
  <1>2. handshake' = [handshake EXCEPT ![p][q] = hs]
    BY DEF ProcessFinal, TypeOK
  <1>3. remote' = [remote EXCEPT ![InstanceOf[p]][q] = r]
    BY InstanceOfType DEF ProcessFinal, TypeOK
  <1>4. /\ o \in HandshakeType(Fresh) /\ rel \in RelationType(Fresh) /\ l \in RemoteType
        /\ Fresh' = Fresh
    BY <1>1, RelatedSound, SameDraws
  <1>5. rel.rchallenge # Nil /\ q < p
    BY <1>1 DEF Roles
  <1>6. m.challenge1 = rel.rchallenge /\ m.challenge2 = rel.lchallenge
    BY <1>1, <1>5 DEF FinalAccepted, MatchesKnown
  <1>7. l.cert = q
    <2>1. m.signature.by = q
      BY DEF Inbox, TokensOK, TokenOK
    <2>2. m.signature.by = l.cert
      <3>1. SignatureValid(p, l.cert, o, o.hash_c2, m)
        BY <1>1 DEF FinalAccepted
      <3>. QED  BY <3>1 DEF SignatureValid
    <2>. QED  BY <2>1, <2>2
  <1>8. sh \in SharedType(Fresh)
    <2>1. o.kem_ss \in SecretType(Fresh)
      BY <1>1, <1>4 DEF HandshakeType, OrNil
    <2>2. rel.lchallenge \in Fresh /\ rel.rchallenge \in Fresh
      BY <1>4, <1>5 DEF RelationType, OrNil
    <2>. QED  BY <2>1, <2>2 DEF SharedSecret, SharedType
  <1>9. r \in RemoteType /\ (r.timer <=> l.timer \/ l.cert \in Expiring)
    BY <1>4, WatchedSound
  <1> HIDE DEF sh, r
  <1>10. /\ hs \in HandshakeType(Fresh) /\ hs.created_in = "reply"
         /\ hs.kem_keypair = o.kem_keypair /\ hs.kem_ct = o.kem_ct
         /\ hs.kem_ss = o.kem_ss /\ hs.secret = sh
    BY <1>1, <1>4, <1>8 DEF HandshakeType, OrNil
  <1> HIDE DEF hs
  <1>11. HandshakeEvolves(p, q, hs)
    BY <1>1, <1>10, HashesEvolve
  <1>12. PairStep(p, q, rel, hs, r)
    <2>1. relation = [relation EXCEPT ![p][q] = rel]
      BY SlotKept DEF TypeOK
    <2>. QED  BY <1>1, <1>2, <1>3, <2>1 DEF PairStep, TypeOK
  <1>13. RelationEvolves(p, q, rel)
    BY <1>1, <1>4 DEF RelationEvolves, Related
  <1>14. RoleOK(p, q, rel, hs)
    BY <1>1, <1>5, <1>10 DEF RoleOK, Roles
  <1>15. SecretEvolves(p, q, rel, hs)
    <2>1. hs.secret = SharedSecret(hs.kem_ss, rel.rchallenge, rel.lchallenge)
      BY <1>10 DEF sh
    <2>. QED  BY <1>6, <1>10, <2>1 DEF SecretEvolves
  <1>16. RemoteEvolves(p, q, hs, r)
    BY <1>7, <1>9 DEF RemoteEvolves
  <1>17. local[p] # Nil /\ msgs \subseteq msgs' /\ \A x \in msgs' : x \in msgs
    BY <1>1 DEF Related
  <1> HIDE DEF rel
  <1>. QED
    BY <1>11, <1>12, <1>13, <1>14, <1>15, <1>16, <1>17 DEF PairOutcome, Outcome

----------------------------------------------------------------------------
(* The other calls: identities, timers and returned handles. *)

\* They create no relation and no handshake, and they send identity tokens only.
Housekeeping ==
  /\ TypeOK' /\ NoDanglingHandshake'
  /\ \A p, q \in Participants :
       /\ relation'[p][q] \in {relation[p][q], Nil}
       /\ handshake'[p][q] \in {handshake[p][q], Nil}
  /\ ~CallerReturns => UNCHANGED <<relation, handshake>>
  /\ UNCHANGED fresh
  /\ expired \subseteq expired'
  /\ \A i \in Instances, q \in Participants :
       remote'[i][q] # Nil =>
         /\ remote[i][q] # Nil
         /\ remote[i][q].timer => remote'[i][q].timer \/ q \in expired
  /\ msgs \subseteq msgs'
  /\ \A m \in msgs' : m \in msgs \/ m.type = "identity"

\* A call that touches local identities, the clock or identity tokens only.
LEMMA LocalHousekeeping ==
  ASSUME PairInv, UNCHANGED <<remote, relation, handshake, fresh, crashed>>,
         local' \in [Participants -> OrNil(LocalType)],
         \A p \in Participants : local[p] # Nil => local'[p] # Nil,
         expired \subseteq expired', expired' \subseteq Expiring,
         msgs \subseteq msgs', \A m \in msgs' : m \in msgs \/ m.type = "identity"
  PROVE  Housekeeping
  <1>1. Fresh' = Fresh
    BY SameDraws
  <1>2. TypeOK'
    BY <1>1 DEF PairInv, TypeOK
  <1>3. NoDanglingHandshake'
    BY DEF PairInv, NoDanglingHandshake
  <1>. QED  BY <1>2, <1>3 DEF Housekeeping

\* Every call on local identities, and the passing of an end date, is housekeeping.
LEMMA IdentitiesHousekeeping ==
  ASSUME PairInv, NEW p \in Participants,
         \/ ValidateLocalIdentity(p) \/ SetPermissions(p) \/ GetIdentityToken(p)
         \/ CertificateExpires(p) \/ LocalValidityCallback(p)
  PROVE  Housekeeping
  <1> USE DEF PairInv
  <1>0. local \in [Participants -> OrNil(LocalType)] /\ expired \subseteq Expiring
    BY DEF TypeOK
  <1>1. ASSUME NEW d \in LocalType, local' = [local EXCEPT ![p] = d],
               UNCHANGED <<remote, relation, handshake, fresh, expired, crashed, msgs>>
        PROVE  Housekeeping
    <2>1. /\ local' \in [Participants -> OrNil(LocalType)]
          /\ \A x \in Participants : local[x] # Nil => local'[x] # Nil
      BY <1>0, <1>1, NilIsNoObject DEF OrNil
    <2>. QED  BY <1>0, <1>1, <2>1, LocalHousekeeping
  <1>2. CASE ValidateLocalIdentity(p)
    <2> DEFINE b == p \in Expiring
               d == [perm |-> Nil, timer |-> b]
    <2>1. b \in BOOLEAN
      OBVIOUS
    <2>2. local' = [local EXCEPT ![p] = d]
      BY <1>2 DEF ValidateLocalIdentity
    <2> HIDE DEF b
    <2>3. d \in LocalType
      BY <2>1 DEF LocalType, OrNil
    <2> HIDE DEF d
    <2>. QED  BY <1>1, <1>2, <2>2, <2>3 DEF ValidateLocalIdentity
  <1>3. CASE SetPermissions(p)
    <2>1. PICK doc \in Perms[p] : local' = [local EXCEPT ![p].perm = doc]
      BY <1>3 DEF SetPermissions
    <2> DEFINE d == [local[p] EXCEPT !.perm = doc]
    <2>2. local[p] \in LocalType
      BY <1>0, <1>3 DEF SetPermissions, OrNil
    <2>3. doc \in OrNil(Permissions)
      BY DEF Permissions, OrNil
    <2>4. d \in LocalType
      BY <2>2, <2>3 DEF LocalType
    <2>5. local' = [local EXCEPT ![p] = d]
      BY <1>0, <2>1
    <2> HIDE DEF d
    <2>. QED  BY <1>1, <1>3, <2>4, <2>5 DEF SetPermissions
  <1>4. CASE GetIdentityToken(p)
    <2>1. \A m \in msgs' : m \in msgs \/ m.type = "identity"
      BY <1>4 DEF GetIdentityToken
    <2>2. /\ UNCHANGED <<local, remote, relation, handshake, fresh, expired, crashed>>
          /\ msgs \subseteq msgs'
      BY <1>4 DEF GetIdentityToken
    <2>. QED  BY <1>0, <2>1, <2>2, LocalHousekeeping
  <1>5. CASE CertificateExpires(p)
    <2>1. /\ expired \subseteq expired' /\ expired' \subseteq Expiring
          /\ UNCHANGED <<local, remote, relation, handshake, fresh, crashed, msgs>>
      BY <1>0, <1>5 DEF CertificateExpires
    <2>. QED  BY <1>0, <2>1, LocalHousekeeping
  <1>6. CASE LocalValidityCallback(p)
    <2> DEFINE d == [local[p] EXCEPT !.timer = FALSE]
    <2>1. local[p] \in LocalType
      BY <1>0, <1>6 DEF LocalValidityCallback, OrNil
    <2>2. d \in LocalType
      BY <2>1 DEF LocalType
    <2>3. local' = [local EXCEPT ![p] = d]
      BY <1>0, <1>6 DEF LocalValidityCallback
    <2> HIDE DEF d
    <2>. QED  BY <1>1, <1>6, <2>2, <2>3 DEF LocalValidityCallback
  <1>. QED  BY <1>2, <1>3, <1>4, <1>5, <1>6

\* The validity callback of a peer fires only when its certificate has ended.
LEMMA CallbackHousekeeping ==
  ASSUME PairInv, NEW i \in Instances, NEW q \in Participants, RemoteValidityCallback(i, q)
  PROVE  Housekeeping
  <1> USE DEF PairInv
  <1> DEFINE d == [remote[i][q] EXCEPT !.timer = FALSE]
  <1>1. remote \in [Instances -> [Participants -> OrNil(RemoteType)]]
    BY DEF TypeOK
  <1>2. remote[i][q] \in RemoteType
    BY <1>1 DEF RemoteValidityCallback, OrNil
  <1>3. d \in RemoteType
    BY <1>2 DEF RemoteType
  <1>4. remote' = [remote EXCEPT ![i][q] = d]
    BY <1>1 DEF RemoteValidityCallback
  <1>5. q \in expired /\ UNCHANGED <<local, relation, handshake, fresh, expired, crashed, msgs>>
    BY DEF RemoteValidityCallback
  <1> HIDE DEF d
  <1>6. /\ remote' \in [Instances -> [Participants -> OrNil(RemoteType)]]
        /\ remote'[i][q] = d
        /\ \A j \in Instances, r \in Participants : j # i \/ r # q => remote'[j][r] = remote[j][r]
    BY <1>1, <1>3, <1>4, SlotAssigned DEF OrNil
  <1>7. Fresh' = Fresh
    BY <1>5, SameDraws
  <1>8. TypeOK'
    BY <1>5, <1>6, <1>7 DEF TypeOK
  <1>9. \A j \in Instances, r \in Participants :
          /\ remote[j][r] # Nil <=> remote'[j][r] # Nil
          /\ remote[j][r] # Nil /\ remote[j][r].timer => remote'[j][r].timer \/ r \in expired
    BY <1>2, <1>3, <1>5, <1>6, NilIsNoObject
  <1>10. NoDanglingHandshake'
    BY <1>5, <1>9, InstanceOfType DEF NoDanglingHandshake
  <1>. QED  BY <1>5, <1>8, <1>9, <1>10 DEF Housekeeping

\* return_identity_handle of a local identity takes its relations and handshakes along.
LEMMA ReturnLocalHousekeeping ==
  ASSUME PairInv, NEW p \in Participants, ReturnLocalIdentity(p)
  PROVE  Housekeeping
  <1> USE DEF PairInv
  <1>1. /\ CallerReturns /\ local' = [local EXCEPT ![p] = Nil]
        /\ relation' = WithoutLocal(relation, p) /\ handshake' = WithoutLocal(handshake, p)
        /\ UNCHANGED <<remote, fresh, expired, crashed, msgs>>
    BY DEF ReturnLocalIdentity
  <1>2. Fresh' = Fresh
    BY <1>1, SameDraws
  <1>3. /\ relation \in [Participants -> [Participants -> OrNil(RelationType(Fresh))]]
        /\ handshake \in [Participants -> [Participants -> OrNil(HandshakeType(Fresh))]]
        /\ local \in [Participants -> OrNil(LocalType)]
    BY DEF TypeOK
  <1>4. /\ \A q \in Participants : relation'[p][q] = Nil /\ handshake'[p][q] = Nil
        /\ \A a, b \in Participants : a # p =>
             relation'[a][b] = relation[a][b] /\ handshake'[a][b] = handshake[a][b]
    BY <1>1, <1>3 DEF WithoutLocal, NoDanglingHandshake
  <1>5. relation' \in [Participants -> [Participants -> OrNil(RelationType(Fresh))]]
    BY <1>1, <1>3 DEF WithoutLocal, OrNil
  <1>6. handshake' \in [Participants -> [Participants -> OrNil(HandshakeType(Fresh))]]
    BY <1>1, <1>3 DEF WithoutLocal, OrNil
  <1>7. local' \in [Participants -> OrNil(LocalType)]
    BY <1>1, <1>3 DEF OrNil
  <1>8. TypeOK'
    BY <1>1, <1>2, <1>5, <1>6, <1>7 DEF TypeOK
  <1>9. NoDanglingHandshake'
    <2> SUFFICES ASSUME NEW a \in Participants, NEW b \in Participants
                 PROVE  /\ handshake'[a][b] # Nil => relation'[a][b] # Nil
                        /\ relation'[a][b] # Nil => local'[a] # Nil /\ remote'[InstanceOf[a]][b] # Nil
      BY DEF NoDanglingHandshake
    <2>1. CASE a = p
      BY <1>4, <2>1
    <2>2. CASE a # p
      BY <1>1, <1>3, <1>4, <2>2 DEF NoDanglingHandshake
    <2>. QED  BY <2>1, <2>2
  <1>10. \A a, b \in Participants :
           relation'[a][b] \in {relation[a][b], Nil} /\ handshake'[a][b] \in {handshake[a][b], Nil}
    BY <1>4
  <1>. QED  BY <1>1, <1>8, <1>9, <1>10 DEF Housekeeping

\* return_identity_handle of a peer's identity does so for every local participant.
LEMMA ReturnRemoteHousekeeping ==
  ASSUME PairInv, NEW i \in Instances, NEW q \in Participants, ReturnRemoteIdentity(i, q)
  PROVE  Housekeeping
  <1> USE DEF PairInv
  <1>1. /\ CallerReturns /\ remote' = [remote EXCEPT ![i][q] = Nil]
        /\ relation' = WithoutRemote(relation, i, q) /\ handshake' = WithoutRemote(handshake, i, q)
        /\ UNCHANGED <<local, fresh, expired, crashed, msgs>>
    BY DEF ReturnRemoteIdentity
  <1>2. Fresh' = Fresh
    BY <1>1, SameDraws
  <1>3. /\ relation \in [Participants -> [Participants -> OrNil(RelationType(Fresh))]]
        /\ handshake \in [Participants -> [Participants -> OrNil(HandshakeType(Fresh))]]
        /\ remote \in [Instances -> [Participants -> OrNil(RemoteType)]]
    BY DEF TypeOK
  <1>4. \A a, b \in Participants :
          /\ relation'[a][b] =
               IF InstanceOf[a] = i /\ b = q /\ relation[a][q] # Nil THEN Nil ELSE relation[a][b]
          /\ handshake'[a][b] =
               IF InstanceOf[a] = i /\ b = q /\ relation[a][q] # Nil THEN Nil ELSE handshake[a][b]
    BY <1>1 DEF WithoutRemote
  <1>5. relation' \in [Participants -> [Participants -> OrNil(RelationType(Fresh))]]
    BY <1>1, <1>3 DEF WithoutRemote, OrNil
  <1>6. handshake' \in [Participants -> [Participants -> OrNil(HandshakeType(Fresh))]]
    BY <1>1, <1>3 DEF WithoutRemote, OrNil
  <1>7. /\ remote' \in [Instances -> [Participants -> OrNil(RemoteType)]]
        /\ remote'[i][q] = Nil
        /\ \A j \in Instances, r \in Participants : j # i \/ r # q => remote'[j][r] = remote[j][r]
    BY <1>1, <1>3 DEF OrNil
  <1>8. TypeOK'
    BY <1>1, <1>2, <1>5, <1>6, <1>7 DEF TypeOK
  <1>9. NoDanglingHandshake'
    <2> SUFFICES ASSUME NEW a \in Participants, NEW b \in Participants
                 PROVE  /\ handshake'[a][b] # Nil => relation'[a][b] # Nil
                        /\ relation'[a][b] # Nil => local'[a] # Nil /\ remote'[InstanceOf[a]][b] # Nil
      BY DEF NoDanglingHandshake
    <2>0. /\ handshake[a][b] # Nil => relation[a][b] # Nil
          /\ relation[a][b] # Nil => local[a] # Nil /\ remote[InstanceOf[a]][b] # Nil
      BY DEF NoDanglingHandshake
    <2>1. CASE InstanceOf[a] = i /\ b = q
      BY <1>4, <2>0, <2>1
    <2>2. CASE ~ (InstanceOf[a] = i /\ b = q)
      <3>1. remote'[InstanceOf[a]][b] = remote[InstanceOf[a]][b]
        BY <1>7, <2>2, InstanceOfType
      <3>. QED  BY <1>1, <1>4, <2>0, <2>2, <3>1
    <2>. QED  BY <2>1, <2>2
  <1>10. \A a, b \in Participants :
           relation'[a][b] \in {relation[a][b], Nil} /\ handshake'[a][b] \in {handshake[a][b], Nil}
    BY <1>4
  <1>11. \A j \in Instances, r \in Participants :
           remote'[j][r] # Nil => remote'[j][r] = remote[j][r]
    BY <1>7
  <1>. QED  BY <1>1, <1>8, <1>9, <1>10, <1>11 DEF Housekeeping

\* return_handshake_handle takes one handshake and leaves its relation.
LEMMA ReturnHandshakeHousekeeping ==
  ASSUME PairInv, NEW p \in Participants, NEW q \in Participants, ReturnHandshakeHandle(p, q)
  PROVE  Housekeeping
  <1> USE DEF PairInv
  <1>1. /\ CallerReturns /\ handshake' = [handshake EXCEPT ![p][q] = Nil]
        /\ UNCHANGED <<local, remote, relation, fresh, expired, crashed, msgs>>
    BY DEF ReturnHandshakeHandle
  <1>2. Fresh' = Fresh
    BY <1>1, SameDraws
  <1>3. handshake \in [Participants -> [Participants -> OrNil(HandshakeType(Fresh))]]
    BY DEF TypeOK
  <1>4. /\ handshake' \in [Participants -> [Participants -> OrNil(HandshakeType(Fresh))]]
        /\ \A a, b \in Participants : handshake'[a][b] \in {handshake[a][b], Nil}
    BY <1>1, <1>3 DEF OrNil
  <1>5. TypeOK'
    BY <1>1, <1>2, <1>4 DEF TypeOK
  <1>6. NoDanglingHandshake'
    BY <1>1, <1>4 DEF NoDanglingHandshake
  <1>. QED  BY <1>1, <1>4, <1>5, <1>6 DEF Housekeeping

----------------------------------------------------------------------------
(* The inductive invariant. *)

\* Every step is a call for one pair of distinct participants, or housekeeping.
LEMMA StepKinds ==
  ASSUME PairInv, Next
  PROVE  Housekeeping \/ \E p, q \in Participants : p # q /\ Outcome(p, q)
  <1>1. ASSUME NEW p \in Participants, Identities(p) PROVE Housekeeping
    BY <1>1, IdentitiesHousekeeping, ReturnLocalHousekeeping DEF Identities
  <1>2. ASSUME NEW p \in Participants, NEW q \in Participants, Meeting(p, q)
        PROVE  Housekeeping \/ Outcome(p, q)
    <2>1. CASE ValidateRemoteIdentity(p, q, Nil)
      BY <2>1, MeetingOutcome
    <2>2. CASE \E c \in AuthRequests(p, q) : ValidateRemoteIdentity(p, q, c)
      BY <2>2, MeetingOutcome
    <2>3. CASE RemoteValidityCallback(InstanceOf[p], q)
      BY <2>3, InstanceOfType, CallbackHousekeeping
    <2>4. CASE ReturnRemoteIdentity(InstanceOf[p], q)
      BY <2>4, InstanceOfType, ReturnRemoteHousekeeping
    <2>. QED  BY <1>2, <2>1, <2>2, <2>3, <2>4 DEF Meeting
  <1>3. ASSUME NEW p \in Participants, NEW q \in Participants, Initiating(p, q)
        PROVE  Outcome(p, q)
    BY <1>3, RequestOutcome, FailRequestOutcome, RefuseReplyOutcome, FailReplyOutcome,
       ProcessReplyOutcome DEF Initiating
  <1>4. ASSUME NEW p \in Participants, NEW q \in Participants, Answering(p, q)
        PROVE  Outcome(p, q)
    BY <1>4, RefuseRequestOutcome, FailAnswerOutcome, AnswerOutcome, RepeatAnswerOutcome,
       ProcessFinalOutcome DEF Answering
  <1>5. ASSUME NEW p \in Participants, NEW q \in Participants, ReturnHandshakeHandle(p, q)
        PROVE  Housekeeping
    BY <1>5, ReturnHandshakeHousekeeping
  <1>6. ASSUME NEW pq \in Peers
        PROVE  pq[1] \in Participants /\ pq[2] \in Participants /\ pq[1] # pq[2]
    BY DEF Peers
  <1>. QED  BY <1>1, <1>2, <1>3, <1>4, <1>5, <1>6 DEF Next

\* What a call for a pair sends is sound.
LEMMA SentIsSound ==
  ASSUME NEW p \in Participants, NEW q \in Participants, NEW rel \in RelationType(Fresh'),
         NEW hs \in OrNil(HandshakeType(Fresh')), NEW m, Sends(p, q, rel, hs, m),
         msgs \subseteq msgs'
  PROVE  TokenOK(m)'
  <1>1. rel.lchallenge \in Fresh' /\ (rel.rchallenge # Nil => rel.rchallenge \in Fresh')
    BY DEF RelationType, OrNil
  <1>2. hs # Nil => /\ hs.kem_keypair # Nil => hs.kem_keypair \in Fresh'
                    /\ hs.kem_ct # Nil => hs.kem_ct \in Fresh'
    BY DEF HandshakeType, OrNil
  <1>3. Inbox(p, q, "reply") \subseteq Inbox(p, q, "reply")'
    BY DEF Inbox
  <1>4. CASE m.type = "auth"
    BY <1>1, <1>4 DEF Sends, TokenOK
  <1>5. CASE m.type = "request"
    BY <1>1, <1>2, <1>5 DEF Sends, TokenOK
  <1>6. CASE m.type = "reply"
    BY <1>1, <1>2, <1>6 DEF Sends, TokenOK
  <1>7. CASE m.type = "final"
    BY <1>3, <1>7 DEF Sends, TokenOK
  <1>. QED  BY <1>4, <1>5, <1>6, <1>7 DEF Sends

\* A call for a pair keeps the invariant and leaves its outcome in the pair's entries.
LEMMA OutcomeKeeps ==
  ASSUME PairInv, NEW p \in Participants, NEW q \in Participants,
         NEW rel, NEW hs, NEW r, PairOutcome(p, q, rel, hs, r)
  PROVE  /\ PairInv'
         /\ relation'[p][q] = rel /\ handshake'[p][q] = hs /\ remote'[InstanceOf[p]][q] = r
         /\ \A a, b \in Participants : a # p \/ b # q =>
              relation'[a][b] = relation[a][b] /\ handshake'[a][b] = handshake[a][b]
         /\ \A i \in Instances, b \in Participants : i # InstanceOf[p] \/ b # q =>
              remote'[i][b] = remote[i][b]
  <1>1. /\ PairStep(p, q, rel, hs, r) /\ local[p] # Nil /\ RoleOK(p, q, rel, hs)
        /\ msgs \subseteq msgs' /\ \A m \in msgs' : m \in msgs \/ Sends(p, q, rel, hs, m)
    BY DEF PairOutcome
  <1>2. /\ rel \in RelationType(Fresh') /\ hs \in OrNil(HandshakeType(Fresh')) /\ r \in RemoteType
    BY DEF PairOutcome, RelationEvolves, HandshakeEvolves, RemoteEvolves
  <1>3. /\ rel \in OrNil(RelationType(Fresh')) /\ r \in OrNil(RemoteType)
        /\ r # Nil
    BY <1>2, NilIsNoObject DEF OrNil
  <1>4. TypeOK /\ TokensOK /\ NoDanglingHandshake /\ Roles
    BY DEF PairInv
  <1>5. Fresh \subseteq Fresh'
    BY <1>1, <1>4, PairFresh
  <1>6. rel # Nil
    <2>1. fresh' \in [Participants -> Nat]
      BY <1>1, <1>4, PairFresh
    <2>2. Fresh' \subseteq Value
      BY DEF Fresh
    <2>3. RelationType(Fresh') \subseteq RelationType(Value)
      BY <2>2, TypesGrow
    <2>. QED  BY <1>2, <2>3, NilAssumption
  <1>7. TypeOK' /\ NoDanglingHandshake' /\ Roles'
    BY <1>1, <1>2, <1>3, <1>4, <1>6, PairKeeps
  <1>8. TokensOK'
    <2>1. \A m \in msgs' : m \in msgs \/ TokenOK(m)'
      BY <1>1, <1>2, SentIsSound
    <2>. QED  BY <1>1, <1>4, <1>5, <2>1, TokensKept
  <1>9. /\ relation'[p][q] = rel /\ handshake'[p][q] = hs /\ remote'[InstanceOf[p]][q] = r
        /\ \A a, b \in Participants : a # p \/ b # q =>
             relation'[a][b] = relation[a][b] /\ handshake'[a][b] = handshake[a][b]
        /\ \A i \in Instances, b \in Participants : i # InstanceOf[p] \/ b # q =>
             remote'[i][b] = remote[i][b]
    BY <1>1, <1>2, <1>3, <1>4, PairTables
  <1>. QED  BY <1>7, <1>8, <1>9 DEF PairInv

\* Housekeeping keeps the invariant: the entries that survive are unchanged.
LEMMA HousekeepingKeeps ==
  ASSUME PairInv, Housekeeping
  PROVE  PairInv'
  <1>1. TypeOK' /\ NoDanglingHandshake'
    BY DEF Housekeeping
  <1>2. Roles'
    <2> SUFFICES ASSUME NEW a \in Participants, NEW b \in Participants, handshake'[a][b] # Nil
                 PROVE  RoleOK(a, b, relation'[a][b], handshake'[a][b])
      BY DEF Roles, RoleOK
    <2>1. handshake'[a][b] = handshake[a][b]
      BY DEF Housekeeping
    <2>2. relation'[a][b] = relation[a][b]
      BY <1>1 DEF Housekeeping, NoDanglingHandshake
    <2>. QED  BY <2>1, <2>2 DEF PairInv, Roles, RoleOK
  <1>3. TokensOK'
    <2>1. Fresh \subseteq Fresh'
      BY SameDraws DEF Housekeeping
    <2>2. \A m \in msgs' : m \in msgs \/ TokenOK(m)'
      BY DEF Housekeeping, TokenOK
    <2>. QED  BY <2>1, <2>2, TokensKept DEF Housekeeping, PairInv
  <1>. QED  BY <1>1, <1>2, <1>3 DEF PairInv

\* Initially every table is empty and nothing was sent.
LEMMA PairInit == Init => PairInv
  <1> SUFFICES ASSUME Init PROVE PairInv
    OBVIOUS
  <1>1. TypeOK
    <2>1. fresh \in [Participants -> Nat] /\ \A p \in Participants : fresh[p] <= Draws[p]
      BY CallerAssumption DEF Init
    <2>. QED  BY <2>1 DEF Init, TypeOK, OrNil
  <1>2. TokensOK
    BY DEF Init, TokensOK
  <1>3. NoDanglingHandshake /\ Roles
    BY DEF Init, NoDanglingHandshake, Roles
  <1>. QED  BY <1>1, <1>2, <1>3 DEF PairInv

\* Steps that change nothing keep every state predicate; stated for those used below.
LEMMA PairStutters ==
  ASSUME UNCHANGED vars
  PROVE  /\ PairInv => PairInv'
         /\ AuthenticatedPeersAreWatched => AuthenticatedPeersAreWatched'
         /\ FinalAnswersOwnReply => FinalAnswersOwnReply'
         /\ RelationsMatch /\ TokensMatch /\ HandshakesMatch =>
              (RelationsMatch /\ TokensMatch /\ HandshakesMatch)'
  <1>1. PairInv => PairInv'
    BY DEF vars, PairInv, TypeOK, Fresh, TokensOK, TokenOK, Inbox, NoDanglingHandshake, Roles
  <1>2. AuthenticatedPeersAreWatched => AuthenticatedPeersAreWatched'
    BY DEF vars, AuthenticatedPeersAreWatched, Completed
  <1>3. FinalAnswersOwnReply => FinalAnswersOwnReply'
    BY DEF vars, FinalAnswersOwnReply, Completed, Inbox
  <1>4. RelationsMatch /\ TokensMatch /\ HandshakesMatch =>
              (RelationsMatch /\ TokensMatch /\ HandshakesMatch)'
    BY DEF vars, RelationsMatch, TokensMatch, HandshakesMatch, Initiator, Replier, Completed
  <1>. QED  BY <1>1, <1>2, <1>3, <1>4

\* Every step keeps the invariant.
LEMMA PairInductive == PairInv /\ [Next]_vars => PairInv'
  <1>1. ASSUME PairInv, Next PROVE PairInv'
    <2>1. ASSUME Housekeeping PROVE PairInv'
      BY <1>1, <2>1, HousekeepingKeeps
    <2>2. ASSUME NEW p \in Participants, NEW q \in Participants, Outcome(p, q) PROVE PairInv'
      BY <1>1, <2>2, OutcomeKeeps DEF Outcome
    <2>. QED  BY <1>1, <2>1, <2>2, StepKinds
  <1>. QED  BY <1>1, PairStutters

\* The tables of every instance hold objects of their kind and only values that were
\* drawn, whatever the tokens in flight and the order of the calls.
THEOREM TypeCorrect == Spec => []TypeOK
  <1>1. PairInv => TypeOK
    BY DEF PairInv
  <1>. QED  BY <1>1, PairInit, PairInductive, PTL DEF Spec

\* No handshake outlives its relation and no relation its identities, in whatever
\* order the callers return their handles.
THEOREM NothingDangles == Spec => []NoDanglingHandshake
  <1>1. PairInv => NoDanglingHandshake
    BY DEF PairInv
  <1>. QED  BY <1>1, PairInit, PairInductive, PTL DEF Spec

----------------------------------------------------------------------------
(* What a completed handshake rests on. *)

\* A call for a pair that leaves its handshake completed has kept the secret it had,
\* or has just agreed on one.
LEMMA CompletedBefore ==
  ASSUME PairInv, NEW p \in Participants, NEW q \in Participants,
         NEW rel, NEW hs, NEW r, PairOutcome(p, q, rel, hs, r), hs # Nil, hs.secret # Nil
  PROVE  /\ handshake[p][q] # Nil
         /\ hs.created_in = handshake[p][q].created_in
         /\ hs.secret = handshake[p][q].secret => Completed(p, q)
  BY DEF PairOutcome, HandshakeEvolves, Completed

\* Every step keeps authenticated peers watched.
LEMMA WatchedInductive ==
  PairInv /\ AuthenticatedPeersAreWatched /\ [Next]_vars => AuthenticatedPeersAreWatched'
  <1>1. ASSUME PairInv, AuthenticatedPeersAreWatched, Housekeeping
        PROVE  AuthenticatedPeersAreWatched'
    <2> SUFFICES ASSUME NEW a \in Participants, NEW b \in Participants,
                        Completed(a, b)', b \in Expiring
                 PROVE  remote'[InstanceOf[a]][b].timer \/ b \in expired'
      BY DEF AuthenticatedPeersAreWatched
    <2>1. Completed(a, b) /\ expired \subseteq expired'
      BY <1>1 DEF Housekeeping, Completed
    <2>2. remote'[InstanceOf[a]][b] # Nil
      BY <1>1 DEF Housekeeping, NoDanglingHandshake, Completed
    <2>3. InstanceOf[a] \in Instances
      BY InstanceOfType
    <2>4. remote[InstanceOf[a]][b].timer \/ b \in expired
      BY <1>1, <2>1 DEF AuthenticatedPeersAreWatched
    <2>5. remote[InstanceOf[a]][b].timer => remote'[InstanceOf[a]][b].timer \/ b \in expired
      BY <1>1, <2>2, <2>3 DEF Housekeeping
    <2>. QED  BY <2>1, <2>4, <2>5
  <1>2. ASSUME PairInv, AuthenticatedPeersAreWatched,
               NEW p \in Participants, NEW q \in Participants, NEW rel, NEW hs, NEW r,
               PairOutcome(p, q, rel, hs, r)
        PROVE  AuthenticatedPeersAreWatched'
    <2> SUFFICES ASSUME NEW a \in Participants, NEW b \in Participants,
                        Completed(a, b)', b \in Expiring
                 PROVE  remote'[InstanceOf[a]][b].timer \/ b \in expired'
      BY DEF AuthenticatedPeersAreWatched
    <2>1. /\ relation'[p][q] = rel /\ handshake'[p][q] = hs /\ remote'[InstanceOf[p]][q] = r
          /\ \A x, y \in Participants : x # p \/ y # q => handshake'[x][y] = handshake[x][y]
          /\ \A i \in Instances, y \in Participants : i # InstanceOf[p] \/ y # q =>
               remote'[i][y] = remote[i][y]
      BY <1>2, OutcomeKeeps
    <2>2. /\ remote[InstanceOf[p]][q] # Nil /\ remote[InstanceOf[p]][q].timer => r.timer
          /\ handshake[p][q] # Nil /\ hs.secret # handshake[p][q].secret /\ q \in Expiring => r.timer
          /\ expired' = expired
      BY <1>2 DEF PairOutcome, RemoteEvolves, PairStep
    <2>3. ASSUME Completed(a, b) PROVE remote'[InstanceOf[a]][b].timer \/ b \in expired'
      <3>1. remote[InstanceOf[a]][b].timer \/ b \in expired
        BY <1>2, <2>3 DEF AuthenticatedPeersAreWatched
      <3>2. remote[InstanceOf[a]][b] # Nil
        BY <1>2, <2>3 DEF PairInv, NoDanglingHandshake, Completed
      <3>3. InstanceOf[a] \in Instances
        BY InstanceOfType
      <3>4. CASE InstanceOf[a] = InstanceOf[p] /\ b = q
        BY <2>1, <2>2, <3>1, <3>2, <3>4
      <3>5. CASE ~(InstanceOf[a] = InstanceOf[p] /\ b = q)
        BY <2>1, <2>2, <3>1, <3>3, <3>5
      <3>. QED  BY <3>4, <3>5
    <2>4. ASSUME ~Completed(a, b) PROVE remote'[InstanceOf[a]][b].timer
      <3>1. a = p /\ b = q
        BY <2>1, <2>4 DEF Completed
      <3>2. hs # Nil /\ hs.secret # Nil
        BY <2>1, <3>1 DEF Completed
      <3>3. handshake[p][q] # Nil /\ hs.secret # handshake[p][q].secret
        BY <1>2, <2>4, <3>1, <3>2, CompletedBefore
      <3>. QED  BY <2>1, <2>2, <3>1, <3>3
    <2>. QED  BY <2>3, <2>4
  <1>3. ASSUME PairInv, AuthenticatedPeersAreWatched, Next PROVE AuthenticatedPeersAreWatched'
    BY <1>1, <1>2, <1>3, StepKinds DEF Outcome
  <1>. QED  BY <1>3, PairStutters

\* An authenticated peer whose certificate ends is watched until it has ended, for any
\* number of participants and instances and any repetition of the tokens.
THEOREM PeersStayWatched == Spec => []AuthenticatedPeersAreWatched
  <1>1. Init => AuthenticatedPeersAreWatched
    BY DEF Init, AuthenticatedPeersAreWatched, Completed
  <1>. QED  BY <1>1, PairInit, PairInductive, WatchedInductive, PTL DEF Spec

\* What FinalAnswersOwnReply says of one pair of participants.
FinalAnswers(p, q) ==
  Completed(p, q) /\ handshake[p][q].created_in = "reply" =>
    \E f \in Inbox(p, q, "final"), r \in Inbox(q, p, "reply") :
      /\ f.kem_ct = r.kem_ct
      /\ f.challenge1 = handshake[p][q].secret.challenge1
      /\ f.challenge2 = handshake[p][q].secret.challenge2
      /\ r.challenge1 = f.challenge1 /\ r.challenge2 = f.challenge2

\* Tokens stay where they are and a secret once agreed keeps its challenges.
LEMMA FinalAnswersKept ==
  ASSUME NEW p \in Participants, NEW q \in Participants, FinalAnswers(p, q),
         msgs \subseteq msgs', Completed(p, q)' => Completed(p, q),
         Completed(p, q)' => /\ handshake'[p][q].secret = handshake[p][q].secret
                             /\ handshake'[p][q].created_in = handshake[p][q].created_in
  PROVE  FinalAnswers(p, q)'
  <1>1. Inbox(p, q, "final") \subseteq Inbox(p, q, "final")' /\ Inbox(q, p, "reply") \subseteq Inbox(q, p, "reply")'
    BY DEF Inbox
  <1>. QED  BY <1>1 DEF FinalAnswers

\* A final that arrived answers a reply that its receiver sent.
LEMMA FinalHasReply ==
  ASSUME TokensOK, NEW p \in Participants, NEW q \in Participants, NEW f \in Inbox(p, q, "final")
  PROVE  \E r \in Inbox(q, p, "reply") :
           f.kem_ct = r.kem_ct /\ f.challenge1 = r.challenge1 /\ f.challenge2 = r.challenge2
  BY DEF TokensOK, TokenOK, Inbox

\* Every step keeps the finals of completed repliers answers to replies of their own.
LEMMA FinalInductive ==
  PairInv /\ FinalAnswersOwnReply /\ [Next]_vars => FinalAnswersOwnReply'
  <1>0. /\ FinalAnswersOwnReply <=> \A pq \in Peers : FinalAnswers(pq[1], pq[2])
        /\ FinalAnswersOwnReply' <=> \A pq \in Peers : FinalAnswers(pq[1], pq[2])'
        /\ \A pq \in Peers : pq[1] \in Participants /\ pq[2] \in Participants
    BY DEF FinalAnswersOwnReply, FinalAnswers, Peers
  <1>1. ASSUME PairInv, NEW a \in Participants, NEW b \in Participants, FinalAnswers(a, b),
               Housekeeping
        PROVE  FinalAnswers(a, b)'
    <2>1. msgs \subseteq msgs' /\ handshake'[a][b] \in {handshake[a][b], Nil}
      BY <1>1 DEF Housekeeping
    <2>. QED  BY <1>1, <2>1, FinalAnswersKept DEF Completed
  <1>2. ASSUME PairInv, NEW a \in Participants, NEW b \in Participants, FinalAnswers(a, b),
               NEW p \in Participants, NEW q \in Participants, NEW rel, NEW hs, NEW r,
               PairOutcome(p, q, rel, hs, r)
        PROVE  FinalAnswers(a, b)'
    <2>1. /\ handshake'[p][q] = hs
          /\ \A x, y \in Participants : x # p \/ y # q => handshake'[x][y] = handshake[x][y]
      BY <1>2, OutcomeKeeps
    <2>2. msgs \subseteq msgs'
      BY <1>2 DEF PairOutcome
    <2>3. CASE a # p \/ b # q
      BY <1>2, <2>1, <2>2, <2>3, FinalAnswersKept DEF Completed
    <2>4. CASE a = p /\ b = q /\ ~Completed(p, q)'
      BY <2>4 DEF FinalAnswers
    <2>5. CASE a = p /\ b = q /\ Completed(p, q)'
      <3>1. hs # Nil /\ hs.secret # Nil
        BY <2>1, <2>5 DEF Completed
      <3>2. /\ handshake[p][q] # Nil /\ hs.created_in = handshake[p][q].created_in
            /\ hs.secret = handshake[p][q].secret => Completed(p, q)
        BY <1>2, <3>1, CompletedBefore
      <3>3. CASE hs.secret = handshake[p][q].secret
        BY <1>2, <2>1, <2>2, <2>5, <3>2, <3>3, FinalAnswersKept
      <3>4. CASE hs.created_in = "request"
        BY <2>1, <2>5, <3>4 DEF FinalAnswers
      <3>5. CASE hs.secret # handshake[p][q].secret /\ hs.created_in # "request"
        <4>1. PICK f \in Inbox(p, q, "final") :
                /\ f.challenge1 = rel.rchallenge /\ f.challenge2 = rel.lchallenge
                /\ hs.secret = SharedSecret(hs.kem_ss, rel.rchallenge, rel.lchallenge)
          BY <1>2, <3>2, <3>5 DEF PairOutcome, SecretEvolves
        <4>2. PICK t \in Inbox(q, p, "reply") :
                f.kem_ct = t.kem_ct /\ f.challenge1 = t.challenge1 /\ f.challenge2 = t.challenge2
          BY <1>2, FinalHasReply DEF PairInv
        <4>3. f \in Inbox(p, q, "final")' /\ t \in Inbox(q, p, "reply")'
          BY <2>2 DEF Inbox
        <4>4. hs.secret.challenge1 = f.challenge1 /\ hs.secret.challenge2 = f.challenge2
          BY <4>1 DEF SharedSecret
        <4>. QED  BY <2>1, <2>5, <4>2, <4>3, <4>4 DEF FinalAnswers
      <3>. QED  BY <3>3, <3>4, <3>5
    <2>. QED  BY <2>3, <2>4, <2>5
  <1>3. ASSUME PairInv, FinalAnswersOwnReply, Next PROVE FinalAnswersOwnReply'
    <2> SUFFICES ASSUME NEW a \in Participants, NEW b \in Participants, FinalAnswers(a, b)
                 PROVE  FinalAnswers(a, b)'
      BY <1>0, <1>3
    <2>1. CASE Housekeeping
      BY <1>1, <1>3, <2>1
    <2>2. CASE \E p, q \in Participants : Outcome(p, q)
      BY <1>2, <1>3, <2>2 DEF Outcome
    <2>. QED  BY <1>3, <2>1, <2>2, StepKinds
  <1>. QED  BY <1>3, PairStutters

\* Whatever tokens of earlier lives are still in flight, a replier completes only on a
\* final that answers a reply of its own, for the challenges its secret is bound to.
THEOREM FinalsAnswerOwnReplies == Spec => []FinalAnswersOwnReply
  <1>1. Init => FinalAnswersOwnReply
    BY DEF Init, FinalAnswersOwnReply, Completed, Peers
  <1>. QED  BY <1>1, PairInit, PairInductive, FinalInductive, PTL DEF Spec

----------------------------------------------------------------------------
(* One life: no request is begun again and no handle is returned. *)

OneLife == ~RepeatRequests /\ ~CallerReturns

Matching == RelationsMatch /\ TokensMatch /\ HandshakesMatch

\* What a call for a pair keeps in one life: challenges, roles, and what the peer uses.
LEMMA OneLifeKeeps ==
  ASSUME OneLife, PairInv, HandshakesMatch, NEW p \in Participants, NEW q \in Participants, p # q,
         NEW rel, NEW hs, NEW r, PairOutcome(p, q, rel, hs, r)
  PROVE  \A a, b \in Participants :
           /\ relation[a][b] # Nil =>
                relation'[a][b] # Nil /\ relation'[a][b].lchallenge = relation[a][b].lchallenge
           /\ Initiator(a, b) =>
                Initiator(a, b)' /\ handshake'[a][b].kem_keypair = handshake[a][b].kem_keypair
           /\ Replier(a, b) =>
                /\ Replier(a, b)'
                /\ handshake'[a][b].kem_ct = handshake[a][b].kem_ct
                /\ handshake'[a][b].kem_ss = handshake[a][b].kem_ss
           /\ Completed(a, b) => Completed(a, b)'
  <1>1. /\ relation'[p][q] = rel /\ handshake'[p][q] = hs
        /\ \A x, y \in Participants : x # p \/ y # q =>
             relation'[x][y] = relation[x][y] /\ handshake'[x][y] = handshake[x][y]
    BY OutcomeKeeps
  <1>2. rel # Nil
    <2>1. RelationType(Fresh') \subseteq RelationType(Value)
      BY TypesGrow DEF Fresh
    <2>. QED  BY <2>1, NilAssumption DEF PairOutcome, RelationEvolves
  <1>3. relation[p][q] # Nil => rel.lchallenge = relation[p][q].lchallenge
    BY DEF PairOutcome, RelationEvolves
  <1>4. handshake[p][q] # Nil =>
          /\ hs # Nil /\ hs.created_in = handshake[p][q].created_in
          /\ hs.created_in = "reply" =>
               hs.kem_ct = handshake[p][q].kem_ct /\ hs.kem_ss = handshake[p][q].kem_ss
          /\ hs.created_in = "request" => hs.kem_keypair = handshake[p][q].kem_keypair
    BY DEF PairOutcome, HandshakeEvolves, OneLife
  <1>5. Completed(p, q) => hs.secret # Nil
    <2> SUFFICES ASSUME Completed(p, q), hs.secret # handshake[p][q].secret
                 PROVE  hs.secret # Nil
      BY DEF Completed
    <2>1. /\ Fresh \subseteq Fresh'
          /\ SharedType(Fresh') \subseteq SharedType(Value)
      <3>1. Fresh \subseteq Fresh'
        BY PairFresh DEF PairOutcome, PairInv
      <3>. QED  BY <3>1, TypesGrow DEF Fresh
    <2>2. /\ rel \in RelationType(Fresh') /\ hs \in HandshakeType(Fresh')
          /\ RoleOK(p, q, rel, hs)
      BY <1>4 DEF PairOutcome, RelationEvolves, HandshakeEvolves, OrNil, Completed
    <2>3. rel.lchallenge \in Fresh' /\ (rel.rchallenge # Nil => rel.rchallenge \in Fresh')
      BY <2>2 DEF RelationType, OrNil
    <2>4. /\ hs.kem_keypair # Nil => hs.kem_keypair \in Fresh'
          /\ hs.kem_ss # Nil => hs.kem_ss \in SecretType(Fresh')
      BY <2>2 DEF HandshakeType, OrNil
    <2>5. CASE hs.created_in = "request"
      <3>1. PICK m \in Inbox(p, q, "reply") :
              hs.secret = SharedSecret(Secret(hs.kem_keypair, m.kem_ct), rel.lchallenge, m.challenge2)
        BY <2>5 DEF PairOutcome, SecretEvolves, Completed
      <3>2. m.kem_ct \in Fresh' /\ m.challenge2 \in Fresh'
        BY <2>1, ReplySound DEF PairInv
      <3>3. hs.kem_keypair # Nil
        BY <1>4, <2>5 DEF HandshakesMatch, Initiator, Completed
      <3>4. hs.secret \in SharedType(Fresh')
        BY <2>3, <2>4, <3>1, <3>2, <3>3 DEF SharedSecret, Secret, SharedType, SecretType
      <3>. QED  BY <2>1, <3>4, NilAssumption
    <2>6. CASE hs.created_in = "reply"
      <3>1. hs.secret = SharedSecret(hs.kem_ss, rel.rchallenge, rel.lchallenge)
        BY <2>6 DEF PairOutcome, SecretEvolves, Completed
      <3>2. hs.kem_ss # Nil /\ rel.rchallenge # Nil
        BY <1>4, <2>2, <2>6 DEF RoleOK, Completed
      <3>3. hs.secret \in SharedType(Fresh')
        BY <2>3, <2>4, <3>1, <3>2 DEF SharedSecret, SharedType
      <3>. QED  BY <2>1, <3>3, NilAssumption
    <2>7. hs.created_in \in {"request", "reply"}
      BY <2>2 DEF HandshakeType
    <2>. QED  BY <2>5, <2>6, <2>7
  <1>6. QED
    <2> SUFFICES ASSUME NEW a \in Participants, NEW b \in Participants
                 PROVE  /\ relation[a][b] # Nil =>
                             /\ relation'[a][b] # Nil
                             /\ relation'[a][b].lchallenge = relation[a][b].lchallenge
                        /\ Initiator(a, b) =>
                             /\ Initiator(a, b)'
                             /\ handshake'[a][b].kem_keypair = handshake[a][b].kem_keypair
                        /\ Replier(a, b) =>
                             /\ Replier(a, b)'
                             /\ handshake'[a][b].kem_ct = handshake[a][b].kem_ct
                             /\ handshake'[a][b].kem_ss = handshake[a][b].kem_ss
                        /\ Completed(a, b) => Completed(a, b)'
      OBVIOUS
    <2>1. CASE a = p /\ b = q
      BY <1>1, <1>2, <1>3, <1>4, <1>5, <2>1 DEF Initiator, Replier, Completed
    <2>2. CASE a # p \/ b # q
      BY <1>1, <2>2 DEF Initiator, Replier, Completed
    <2>. QED  BY <2>1, <2>2

\* A call for a pair keeps the challenges known of peers the peers' own.
LEMMA RelationsMatchKept ==
  ASSUME OneLife, PairInv, Matching, NEW p \in Participants, NEW q \in Participants, p # q,
         NEW rel, NEW hs, NEW r, PairOutcome(p, q, rel, hs, r)
  PROVE  RelationsMatch'
  <1>1. /\ relation'[p][q] = rel
        /\ \A x, y \in Participants : x # p \/ y # q => relation'[x][y] = relation[x][y]
    BY OutcomeKeeps
  <1>2. \A a, b \in Participants : relation[a][b] # Nil =>
          relation'[a][b] # Nil /\ relation'[a][b].lchallenge = relation[a][b].lchallenge
    BY OneLifeKeeps DEF Matching
  <1> SUFFICES ASSUME NEW a \in Participants, NEW b \in Participants,
                      relation'[a][b] # Nil, relation'[a][b].rchallenge # Nil
               PROVE  relation[b][a] # Nil /\ relation'[a][b].rchallenge = relation[b][a].lchallenge
    BY <1>2 DEF RelationsMatch
  <1>3. CASE a # p \/ b # q
    BY <1>1, <1>3 DEF Matching, RelationsMatch
  <1>4. CASE a = p /\ b = q
    <2>1. \/ rel.rchallenge \in Announced(p, q)
          \/ relation[p][q] # Nil /\ rel.rchallenge = relation[p][q].rchallenge
      BY <1>1, <1>4 DEF PairOutcome, RelationEvolves
    <2>2. CASE rel.rchallenge \in Announced(p, q)
      <3>1. ASSUME NEW m \in Inbox(p, q, "auth")
            PROVE  relation[q][p] # Nil /\ m.challenge = relation[q][p].lchallenge
        BY DEF Inbox, Matching, TokensMatch
      <3>2. ASSUME NEW m \in Inbox(p, q, "request")
            PROVE  relation[q][p] # Nil /\ m.challenge1 = relation[q][p].lchallenge
        BY DEF Inbox, Matching, TokensMatch, Initiator, PairInv, NoDanglingHandshake
      <3>3. ASSUME NEW m \in Inbox(p, q, "reply")
            PROVE  relation[q][p] # Nil /\ m.challenge2 = relation[q][p].lchallenge
        BY DEF Inbox, Matching, TokensMatch, Replier, PairInv, NoDanglingHandshake
      <3>. QED  BY <1>1, <1>4, <2>2, <3>1, <3>2, <3>3 DEF Announced
    <2>3. CASE relation[p][q] # Nil /\ rel.rchallenge = relation[p][q].rchallenge
      BY <1>1, <1>4, <2>3 DEF Matching, RelationsMatch
    <2>. QED  BY <2>1, <2>2, <2>3
  <1>. QED  BY <1>3, <1>4

\* A call for a pair keeps every token in agreement with the tables of its sender.
LEMMA TokensMatchKept ==
  ASSUME OneLife, PairInv, Matching, NEW p \in Participants, NEW q \in Participants, p # q,
         NEW rel, NEW hs, NEW r, PairOutcome(p, q, rel, hs, r)
  PROVE  TokensMatch'
  <1>1. /\ relation'[p][q] = rel /\ handshake'[p][q] = hs /\ PairInv'
    BY OutcomeKeeps
  <1> SUFFICES ASSUME NEW m \in msgs'
               PROVE  /\ m.type # "identity" => m.from \in Participants /\ m.to \in Participants
                      /\ m.type = "auth" =>
                           /\ relation'[m.from][m.to] # Nil
                           /\ m.challenge = relation'[m.from][m.to].lchallenge
                      /\ m.type = "request" =>
                           /\ Initiator(m.from, m.to)'
                           /\ m.kem_public = handshake'[m.from][m.to].kem_keypair
                           /\ m.challenge1 = relation'[m.from][m.to].lchallenge
                      /\ m.type = "reply" =>
                           /\ Replier(m.from, m.to)'
                           /\ m.kem_ct = handshake'[m.from][m.to].kem_ct
                           /\ m.challenge2 = relation'[m.from][m.to].lchallenge
                      /\ m.type = "final" => Completed(m.from, m.to)'
    BY DEF TokensMatch
  <1>2. CASE m \in msgs
    <2>1. \A a, b \in Participants :
            /\ relation[a][b] # Nil =>
                 relation'[a][b] # Nil /\ relation'[a][b].lchallenge = relation[a][b].lchallenge
            /\ Initiator(a, b) =>
                 Initiator(a, b)' /\ handshake'[a][b].kem_keypair = handshake[a][b].kem_keypair
            /\ Replier(a, b) =>
                 Replier(a, b)' /\ handshake'[a][b].kem_ct = handshake[a][b].kem_ct
            /\ Completed(a, b) => Completed(a, b)'
      BY OneLifeKeeps DEF Matching
    <2>2. \A a, b \in Participants : Initiator(a, b) \/ Replier(a, b) => relation[a][b] # Nil
      BY DEF PairInv, NoDanglingHandshake, Initiator, Replier
    <2>. QED  BY <1>2, <2>1, <2>2 DEF Matching, TokensMatch
  <1>3. CASE m \notin msgs
    <2>1. Sends(p, q, rel, hs, m)
      BY <1>3 DEF PairOutcome
    <2>2. rel # Nil
      <3>1. RelationType(Fresh') \subseteq RelationType(Value)
        BY TypesGrow DEF Fresh
      <3>. QED  BY <3>1, NilAssumption DEF PairOutcome, RelationEvolves
    <2>. QED  BY <1>1, <2>1, <2>2 DEF Sends, Initiator, Replier, Completed
  <1>. QED  BY <1>2, <1>3

\* A call for a pair keeps the two ends of every handshake in agreement.
LEMMA HandshakesMatchKept ==
  ASSUME OneLife, PairInv, Matching, NEW p \in Participants, NEW q \in Participants, p # q,
         NEW rel, NEW hs, NEW r, PairOutcome(p, q, rel, hs, r)
  PROVE  HandshakesMatch'
  <1>1. /\ relation'[p][q] = rel /\ handshake'[p][q] = hs
        /\ \A x, y \in Participants : x # p \/ y # q =>
             relation'[x][y] = relation[x][y] /\ handshake'[x][y] = handshake[x][y]
    BY OutcomeKeeps
  <1>2. \A a, b \in Participants :
          /\ relation[a][b] # Nil =>
               relation'[a][b] # Nil /\ relation'[a][b].lchallenge = relation[a][b].lchallenge
          /\ Initiator(a, b) =>
               Initiator(a, b)' /\ handshake'[a][b].kem_keypair = handshake[a][b].kem_keypair
          /\ Replier(a, b) =>
               /\ Replier(a, b)'
               /\ handshake'[a][b].kem_ct = handshake[a][b].kem_ct
               /\ handshake'[a][b].kem_ss = handshake[a][b].kem_ss
          /\ Completed(a, b) => Completed(a, b)'
    BY OneLifeKeeps DEF Matching
  <1>3. \A a, b \in Participants : handshake[a][b] # Nil => relation[a][b] # Nil
    BY DEF PairInv, NoDanglingHandshake
  <1>4. RelationsMatch'
    BY RelationsMatchKept
  <1>5. ASSUME NEW a \in Participants, NEW b \in Participants, Initiator(a, b)'
        PROVE  handshake'[a][b].kem_keypair # Nil
    <2>1. CASE Initiator(a, b)
      BY <1>2, <2>1 DEF Matching, HandshakesMatch
    <2>2. CASE ~Initiator(a, b)
      BY <1>1, <1>5, <2>2 DEF Initiator, PairOutcome, HandshakeEvolves
    <2>. QED  BY <2>1, <2>2
  <1>6. ASSUME NEW a \in Participants, NEW b \in Participants, Initiator(a, b)', Completed(a, b)'
        PROVE  /\ Replier(b, a)'
               /\ handshake'[a][b].secret =
                    SharedSecret(Secret(handshake'[a][b].kem_keypair, handshake'[b][a].kem_ct),
                      relation'[a][b].lchallenge, relation'[b][a].lchallenge)
    <2>1. Initiator(a, b)
      BY <1>1, <1>6 DEF Initiator, Completed, PairOutcome, HandshakeEvolves
    <2>2. SUFFICES /\ Replier(b, a)
                   /\ handshake'[a][b].secret =
                        SharedSecret(Secret(handshake[a][b].kem_keypair, handshake[b][a].kem_ct),
                          relation[a][b].lchallenge, relation[b][a].lchallenge)
      BY <1>2, <1>3, <2>1 DEF Initiator, Replier
    <2>3. CASE handshake'[a][b].secret = handshake[a][b].secret
      BY <1>6, <2>1, <2>3 DEF Completed, Initiator, Matching, HandshakesMatch
    <2>4. CASE handshake'[a][b].secret # handshake[a][b].secret
      <3>1. a = p /\ b = q
        BY <1>1, <2>4
      <3>2. handshake[p][q] # Nil /\ hs.created_in = "request"
        BY <1>1, <1>6, <2>1, <3>1 DEF Initiator
      <3>3. PICK m \in Inbox(p, q, "reply") :
              hs.secret = SharedSecret(Secret(hs.kem_keypair, m.kem_ct), rel.lchallenge, m.challenge2)
        BY <1>1, <2>4, <3>1, <3>2 DEF PairOutcome, SecretEvolves
      <3>4. /\ Replier(q, p) /\ m.kem_ct = handshake[q][p].kem_ct
            /\ m.challenge2 = relation[q][p].lchallenge
        BY DEF Inbox, Matching, TokensMatch
      <3>5. /\ hs.kem_keypair = handshake[p][q].kem_keypair
            /\ rel.lchallenge = relation[p][q].lchallenge
        BY <1>1, <1>2, <1>3, <2>1, <3>1 DEF Initiator
      <3>. QED  BY <1>1, <3>1, <3>3, <3>4, <3>5
    <2>. QED  BY <2>3, <2>4
  <1>7. ASSUME NEW a \in Participants, NEW b \in Participants, Replier(a, b)'
        PROVE  /\ Initiator(b, a)'
               /\ handshake'[a][b].kem_ss =
                    Secret(handshake'[b][a].kem_keypair, handshake'[a][b].kem_ct)
    <2>1. CASE Replier(a, b)
      BY <1>2, <2>1 DEF Matching, HandshakesMatch
    <2>2. CASE ~Replier(a, b)
      <3>1. a = p /\ b = q /\ hs # Nil /\ hs.created_in = "reply"
        BY <1>1, <1>7, <2>2 DEF Replier
      <3>2. handshake[p][q] = Nil
        BY <2>2, <3>1 DEF Replier, PairOutcome, HandshakeEvolves
      <3>3. PICK m \in Inbox(p, q, "request") : hs.kem_ss = Secret(m.kem_public, hs.kem_ct)
        BY <3>1, <3>2 DEF PairOutcome, HandshakeEvolves
      <3>4. Initiator(q, p) /\ m.kem_public = handshake[q][p].kem_keypair
        BY DEF Inbox, Matching, TokensMatch
      <3>. QED  BY <1>1, <1>2, <3>1, <3>3, <3>4
    <2>. QED  BY <2>1, <2>2
  <1>8. ASSUME NEW a \in Participants, NEW b \in Participants, Replier(a, b)', Completed(a, b)'
        PROVE  /\ Completed(b, a)'
               /\ handshake'[a][b].secret =
                    SharedSecret(handshake'[a][b].kem_ss, relation'[b][a].lchallenge,
                                 relation'[a][b].lchallenge)
    <2>1. Replier(a, b)
      BY <1>1, <1>8 DEF Replier, Completed, PairOutcome, HandshakeEvolves
    <2>2. Initiator(b, a)
      BY <2>1 DEF Matching, HandshakesMatch
    <2>3. SUFFICES /\ Completed(b, a)
                   /\ handshake'[a][b].secret =
                        SharedSecret(handshake[a][b].kem_ss, relation[b][a].lchallenge,
                                     relation[a][b].lchallenge)
      BY <1>2, <1>3, <2>1, <2>2 DEF Initiator, Replier
    <2>4. CASE handshake'[a][b].secret = handshake[a][b].secret
      BY <1>8, <2>1, <2>4 DEF Completed, Replier, Matching, HandshakesMatch
    <2>5. CASE handshake'[a][b].secret # handshake[a][b].secret
      <3>1. a = p /\ b = q
        BY <1>1, <2>5
      <3>2. handshake[p][q] # Nil /\ hs.created_in = "reply"
        BY <1>1, <1>8, <2>1, <3>1 DEF Replier
      <3>3. PICK m \in Inbox(p, q, "final") :
              hs.secret = SharedSecret(hs.kem_ss, rel.rchallenge, rel.lchallenge)
        BY <1>1, <2>5, <3>1, <3>2 DEF PairOutcome, SecretEvolves
      <3>4. Completed(q, p)
        BY DEF Inbox, Matching, TokensMatch
      <3>5. rel.rchallenge # Nil /\ rel # Nil
        BY <1>1, <1>2, <1>3, <3>2 DEF PairOutcome, RoleOK, HandshakeEvolves
      <3>6. rel.rchallenge = relation'[q][p].lchallenge
        BY <1>1, <1>4, <3>5 DEF RelationsMatch
      <3>7. /\ relation'[q][p] = relation[q][p]
            /\ hs.kem_ss = handshake[p][q].kem_ss
            /\ rel.lchallenge = relation[p][q].lchallenge
        BY <1>1, <1>2, <1>3, <2>1, <3>1 DEF Replier
      <3>. QED  BY <1>1, <3>1, <3>3, <3>4, <3>6, <3>7
    <2>. QED  BY <2>4, <2>5
  <1>. QED  BY <1>5, <1>6, <1>7, <1>8 DEF HandshakesMatch

\* In one life every step keeps both ends in agreement.
LEMMA MatchingInductive ==
  ASSUME OneLife
  PROVE  PairInv /\ Matching /\ [Next]_vars => Matching'
  <1>1. ASSUME PairInv, Matching, Housekeeping PROVE Matching'
    <2>1. /\ UNCHANGED <<relation, handshake>>
          /\ \A m \in msgs' : m \in msgs \/ m.type = "identity"
      BY <1>1 DEF OneLife, Housekeeping
    <2>2. RelationsMatch' /\ HandshakesMatch'
      BY <1>1, <2>1 DEF Matching, RelationsMatch, HandshakesMatch, Initiator, Replier, Completed
    <2>3. TokensMatch'
      BY <1>1, <2>1 DEF Matching, TokensMatch, Initiator, Replier, Completed
    <2>. QED  BY <2>2, <2>3 DEF Matching
  <1>2. ASSUME PairInv, Matching, NEW p \in Participants, NEW q \in Participants, p # q,
               Outcome(p, q)
        PROVE  Matching'
    BY <1>2, RelationsMatchKept, TokensMatchKept, HandshakesMatchKept DEF Outcome, Matching
  <1>3. ASSUME PairInv, Matching, Next PROVE Matching'
    BY <1>1, <1>2, <1>3, StepKinds
  <1>. QED  BY <1>3, PairStutters DEF Matching

\* The empty tables match.
LEMMA MatchingInit == Init => Matching
  BY DEF Init, Matching, RelationsMatch, TokensMatch, HandshakesMatch, Initiator, Replier

\* Two ends that match and have both completed hold the same secret.
LEMMA MatchingAgrees ==
  ASSUME PairInv, Matching, NEW p \in Participants, NEW q \in Participants,
         Completed(p, q), Completed(q, p)
  PROVE  handshake[p][q].secret = handshake[q][p].secret
  <1>1. /\ Initiator(p, q) \/ Replier(p, q)
        /\ Initiator(q, p) \/ Replier(q, p)
    BY DEF PairInv, TypeOK, HandshakeType, OrNil, Completed, Initiator, Replier
  <1>2. ASSUME NEW a \in Participants, NEW b \in Participants, Initiator(a, b),
               Completed(a, b), Completed(b, a)
        PROVE  handshake[a][b].secret = handshake[b][a].secret
    <2>1. /\ Replier(b, a)
          /\ handshake[a][b].secret =
               SharedSecret(Secret(handshake[a][b].kem_keypair, handshake[b][a].kem_ct),
                     relation[a][b].lchallenge, relation[b][a].lchallenge)
      BY <1>2 DEF Matching, HandshakesMatch
    <2>2. /\ handshake[b][a].kem_ss = Secret(handshake[a][b].kem_keypair, handshake[b][a].kem_ct)
          /\ handshake[b][a].secret =
               SharedSecret(handshake[b][a].kem_ss, relation[a][b].lchallenge, relation[b][a].lchallenge)
      BY <1>2, <2>1 DEF Matching, HandshakesMatch
    <2>. QED  BY <2>1, <2>2
  <1>3. Initiator(p, q) \/ Initiator(q, p)
    BY <1>1 DEF Matching, HandshakesMatch
  <1>. QED  BY <1>2, <1>3

\* As long as no request is begun again and no handle is returned, two peers that have
\* completed hold the same secret, however the tokens are delayed, reordered or repeated.
THEOREM PeersAgree ==
  ASSUME ~RepeatRequests, ~CallerReturns
  PROVE  Spec => []SecretsAgree
  <1>1. OneLife
    BY DEF OneLife
  <1>2. PairInv /\ Matching => SecretsAgree
    BY MatchingAgrees DEF SecretsAgree, Peers
  <1>3. PairInv /\ Matching /\ [Next]_vars => Matching'
    BY <1>1, MatchingInductive
  <1>. QED  BY <1>2, <1>3, PairInit, PairInductive, MatchingInit, PTL DEF Spec

\* Under the same conditions a replier never completes before its initiator.
THEOREM ReplierIsLast ==
  ASSUME ~RepeatRequests, ~CallerReturns
  PROVE  Spec => []ReplierCompletesLast
  <1>1. OneLife
    BY DEF OneLife
  <1>2. PairInv /\ Matching => ReplierCompletesLast
    BY DEF Matching, HandshakesMatch, ReplierCompletesLast, Peers, Replier, Completed
  <1>3. PairInv /\ Matching /\ [Next]_vars => Matching'
    BY <1>1, MatchingInductive
  <1>. QED  BY <1>2, <1>3, PairInit, PairInductive, MatchingInit, PTL DEF Spec

\* Under the same conditions a secret once agreed never changes, however often a reply
\* or a final is processed again.
THEOREM SecretsStay ==
  ASSUME ~RepeatRequests, ~CallerReturns
  PROVE  Spec => SecretIsStable
  <1> DEFINE Stable == \A p, q \in Participants :
        Completed(p, q) => Completed(p, q)' /\ handshake'[p][q].secret = handshake[p][q].secret
  <1>1. OneLife
    BY DEF OneLife
  <1>2. PairInv /\ Matching /\ [Next]_vars => Matching'
    BY <1>1, MatchingInductive
  <1>3. PairInv /\ Matching /\ PairInv' /\ Matching' /\ [Next]_vars => [Stable]_vars
    <2>1. ASSUME PairInv, Matching, Matching', Housekeeping PROVE Stable
      BY <1>1, <2>1 DEF OneLife, Housekeeping, Completed
    <2>2. ASSUME PairInv, Matching, Matching',
                 NEW p \in Participants, NEW q \in Participants, p # q,
                 NEW rel, NEW hs, NEW r, PairOutcome(p, q, rel, hs, r)
          PROVE  Stable
      <3>1. \A a, b \in Participants :
              /\ relation[a][b] # Nil =>
                   relation'[a][b] # Nil /\ relation'[a][b].lchallenge = relation[a][b].lchallenge
              /\ Initiator(a, b) =>
                   Initiator(a, b)' /\ handshake'[a][b].kem_keypair = handshake[a][b].kem_keypair
              /\ Replier(a, b) =>
                   /\ Replier(a, b)'
                   /\ handshake'[a][b].kem_ct = handshake[a][b].kem_ct
                   /\ handshake'[a][b].kem_ss = handshake[a][b].kem_ss
              /\ Completed(a, b) => Completed(a, b)'
        BY <1>1, <2>2, OneLifeKeeps DEF Matching
      <3>2. \A a, b \in Participants : handshake[a][b] # Nil => relation[a][b] # Nil
        BY <2>2 DEF PairInv, NoDanglingHandshake
      <3> SUFFICES ASSUME NEW a \in Participants, NEW b \in Participants, Completed(a, b)
                   PROVE  handshake'[a][b].secret = handshake[a][b].secret
        BY <3>1
      <3>3. CASE Initiator(a, b)
        <4>1. /\ Replier(b, a)
              /\ handshake[a][b].secret =
                   SharedSecret(Secret(handshake[a][b].kem_keypair, handshake[b][a].kem_ct),
                     relation[a][b].lchallenge, relation[b][a].lchallenge)
          BY <2>2, <3>3 DEF Matching, HandshakesMatch
        <4>2. handshake'[a][b].secret =
                SharedSecret(Secret(handshake'[a][b].kem_keypair, handshake'[b][a].kem_ct),
                     relation'[a][b].lchallenge, relation'[b][a].lchallenge)
          BY <2>2, <3>1, <3>3 DEF Matching, HandshakesMatch
        <4>. QED  BY <3>1, <3>2, <3>3, <4>1, <4>2 DEF Initiator, Replier
      <3>4. CASE Replier(a, b)
        <4>1. /\ Initiator(b, a)
              /\ handshake[a][b].secret =
                   SharedSecret(handshake[a][b].kem_ss, relation[b][a].lchallenge,
                                relation[a][b].lchallenge)
          BY <2>2, <3>4 DEF Matching, HandshakesMatch
        <4>2. handshake'[a][b].secret =
                SharedSecret(handshake'[a][b].kem_ss, relation'[b][a].lchallenge,
                             relation'[a][b].lchallenge)
          BY <2>2, <3>1, <3>4 DEF Matching, HandshakesMatch
        <4>. QED  BY <3>1, <3>2, <3>4, <4>1, <4>2 DEF Initiator, Replier
      <3>5. Initiator(a, b) \/ Replier(a, b)
        BY <2>2 DEF PairInv, TypeOK, HandshakeType, OrNil, Completed, Initiator, Replier
      <3>. QED  BY <3>3, <3>4, <3>5
    <2>3. ASSUME PairInv, Matching, Matching', Next PROVE Stable
      BY <2>1, <2>2, <2>3, StepKinds DEF Outcome
    <2>. QED  BY <2>3
  <1>4. Spec => [][Stable]_vars
    BY <1>2, <1>3, PairInit, PairInductive, MatchingInit, PTL DEF Spec
  <1>. QED  BY <1>4 DEF SecretIsStable

=============================================================================
