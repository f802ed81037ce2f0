-------------------------- MODULE CycloneCallsProofs --------------------------
(* Proofs about the calls of one plugin instance, for any number of local    *)
(* participants and any amount of memory.                                    *)
EXTENDS CycloneCalls, TLAPS

OrNil == Addresses \union {Nil}

Secrets == [kind : {"secret"}]
Locals == [kind : {"local"}]
Remotes == [kind : {"remote"}, links : SUBSET Addresses]
HandshakeObjects == [kind : {"handshake"}, local : Addresses, remote : Addresses, secret : OrNil]

Objects == {Free} \union Secrets \union Locals \union Remotes \union HandshakeObjects

HandleRecords ==
  [local : OrNil, remote : OrNil, handshake : OrNil, secret : OrNil, lost : BOOLEAN]
CallRecords ==
  [op : {"none", "validate", "request"}, reads : SUBSET Addresses, result : OrNil, gone : BOOLEAN]

Shape ==
  /\ heap \in [Addresses -> Objects]
  /\ mine \in [Participants -> HandleRecords]
  /\ call \in [Participants -> CallRecords]

\* s is the secret of the handshake h.
SecretOf(h, s) == heap[h].kind = "handshake" /\ heap[h].secret = s

\* A handshake's secret is allocated and belongs to no other handshake.
Owned ==
  \A h, s \in Addresses : SecretOf(h, s) =>
    /\ heap[s].kind = "secret"
    /\ \A k \in Addresses : SecretOf(k, s) => k = h

\* So is the secret a participant was given, which may be an earlier one of its handshake.
Held ==
  \A p \in Participants : mine[p].secret # Nil /\ ~mine[p].lost =>
    /\ heap[mine[p].secret].kind = "secret"
    /\ \A k \in Addresses : SecretOf(k, mine[p].secret) => k = mine[p].handshake

Inv == Shape /\ NothingDangles /\ Owned /\ Held

----------------------------------------------------------------------------
(* What is at an address. *)

\* The kind tells which fields an object has.
LEMMA KindTells ==
  ASSUME Shape, NEW a \in Addresses
  PROVE  /\ heap[a].kind = "handshake" => heap[a] \in HandshakeObjects
         /\ heap[a].kind = "remote" => heap[a] \in Remotes
         /\ heap[a] = Free <=> heap[a].kind = "free"
         /\ heap[a].kind \in {"free", "secret", "local", "remote", "handshake"}
  BY DEF Shape, Objects, Free, Secrets, Locals, Remotes, HandshakeObjects

\* A handle that is found is an address.
LEMMA FoundIsAddress ==
  ASSUME NEW x \in OrNil, NEW k, Found(x, k)
  PROVE  x \in Addresses /\ heap[x].kind = k
  BY DEF OrNil, Found

\* The invariant holds when nothing is allocated.
LEMMA InitInv == Init => Inv
<1> SUFFICES ASSUME Init PROVE Inv
  OBVIOUS
<1>1. \A a \in Addresses : heap[a] = Free /\ heap[a].kind = "free"
  BY DEF Init, Free
<1>2. Shape
  BY DEF Init, Shape, Objects, HandleRecords, CallRecords, NoHandles, Idle, OrNil
<1>3. \A p \in Participants : mine[p].secret = Nil
  BY DEF Init, NoHandles
<1>4. NothingDangles
  BY <1>1 DEF NothingDangles
<1>5. Owned /\ Held
  BY <1>1, <1>3 DEF Owned, Held, SecretOf
<1> QED BY <1>2, <1>4, <1>5 DEF Inv

----------------------------------------------------------------------------
(* Freeing. *)

\* What is left when S is freed and the local identities in L leave the relations.
After(S, L) ==
  [a \in Addresses |->
    IF a \in S THEN Free
    ELSE IF heap[a].kind = "remote" THEN [heap[a] EXCEPT !.links = @ \ L] ELSE heap[a]]

\* Nothing that is left refers to S or, in a handshake, to L.
Closed(S, L) ==
  /\ \A h \in Addresses \ S : heap[h].kind = "handshake" =>
       heap[h].local \notin S \union L /\ heap[h].remote \notin S /\ heap[h].secret \notin S
  /\ \A r \in Addresses \ S : heap[r].kind = "remote" => (heap[r].links \ L) \cap S = {}

\* Freeing a closed set leaves a sound heap.
LEMMA FreeingKeepsHeap ==
  ASSUME Inv, NEW S \in SUBSET Addresses, NEW L \in SUBSET Addresses,
         Closed(S, L), heap' = After(S, L)
  PROVE  /\ heap' \in [Addresses -> Objects]
         /\ NothingDangles' /\ Owned'
         /\ \A h \in Addresses : \A s : SecretOf(h, s)' => SecretOf(h, s)
         /\ \A a \in Addresses \ S : heap'[a].kind = heap[a].kind
<1>0. Shape /\ NothingDangles /\ Owned
  BY DEF Inv
<1>1. \A a \in S : heap'[a] = Free /\ heap'[a].kind = "free"
  BY DEF After, Free
<1>2. ASSUME NEW a \in Addresses \ S, heap[a].kind = "remote"
      PROVE  /\ heap'[a] \in Remotes /\ heap'[a].kind = "remote"
             /\ heap'[a].links = heap[a].links \ L
  <2>1. heap[a] \in Remotes
    BY <1>0, <1>2, KindTells
  <2>2. heap'[a] = [heap[a] EXCEPT !.links = @ \ L]
    BY <1>2 DEF After
  <2> QED BY <2>1, <2>2 DEF Remotes
<1>3. ASSUME NEW a \in Addresses \ S, heap[a].kind # "remote"
      PROVE  heap'[a] = heap[a]
  BY <1>3 DEF After
<1>4. heap' \in [Addresses -> Objects]
  <2>1. \A a \in Addresses : heap'[a] \in Objects
    BY <1>0, <1>1, <1>2, <1>3 DEF Shape, Objects
  <2> QED BY <2>1 DEF After
<1>5. \A a \in Addresses \ S : heap'[a].kind = heap[a].kind
  BY <1>2, <1>3
<1>6. \A h \in Addresses : heap'[h].kind = "handshake" =>
        h \notin S /\ heap[h].kind = "handshake" /\ heap'[h] = heap[h]
  BY <1>1, <1>2, <1>3
<1>7. \A h \in Addresses : \A s : SecretOf(h, s)' => SecretOf(h, s)
  BY <1>6 DEF SecretOf
<1>8. NothingDangles'
  <2> SUFFICES ASSUME NEW a \in Addresses
               PROVE  /\ heap'[a].kind = "handshake" =>
                           /\ Found(heap[a].local, "local")'
                           /\ Found(heap[a].remote, "remote")'
                           /\ heap'[a].local \in heap'[heap'[a].remote].links
                      /\ heap'[a].kind = "remote" => \A l \in heap'[a].links : Found(l, "local")'
    BY DEF NothingDangles
  <2>1. ASSUME heap'[a].kind = "handshake"
        PROVE  /\ Found(heap[a].local, "local")'
               /\ Found(heap[a].remote, "remote")'
               /\ heap'[a].local \in heap'[heap'[a].remote].links
    <3> DEFINE l == heap[a].local
               r == heap[a].remote
    <3>1. a \in Addresses \ S /\ heap[a].kind = "handshake" /\ heap'[a] = heap[a]
      BY <1>6, <2>1
    <3>2. l \in Addresses /\ r \in Addresses /\ l # Nil /\ r # Nil
      BY <1>0, <3>1, KindTells, NilAssumption DEF HandshakeObjects
    <3>3. Found(l, "local") /\ Found(r, "remote") /\ l \in heap[r].links
      BY <1>0, <3>1 DEF NothingDangles
    <3>4. l \notin S \union L /\ r \notin S
      BY <3>1 DEF Closed
    <3>5. heap'[l].kind = "local" /\ heap'[r].kind = "remote" /\ heap'[r].links = heap[r].links \ L
      BY <1>2, <1>5, <3>2, <3>3, <3>4 DEF Found
    <3> QED BY <3>1, <3>2, <3>3, <3>4, <3>5 DEF Found
  <2>2. ASSUME heap'[a].kind = "remote", NEW l \in heap'[a].links
        PROVE  Found(l, "local")'
    <3>1. a \in Addresses \ S /\ heap[a].kind = "remote"
      BY <1>1, <1>5, <2>2
    <3>2. l \in heap[a].links \ L /\ heap[a].links \subseteq Addresses
      BY <1>0, <1>2, <2>2, <3>1, KindTells DEF Remotes
    <3>3. l \notin S /\ Found(l, "local")
      BY <1>0, <3>1, <3>2 DEF Closed, NothingDangles
    <3> QED BY <1>5, <3>2, <3>3 DEF Found
  <2> QED BY <2>1, <2>2
<1>9. Owned'
  <2> SUFFICES ASSUME NEW h \in Addresses, NEW s \in Addresses, SecretOf(h, s)'
               PROVE  /\ heap'[s].kind = "secret"
                      /\ \A k \in Addresses : SecretOf(k, s)' => k = h
    BY DEF Owned
  <2>1. SecretOf(h, s) /\ h \notin S
    BY <1>6, <1>7 DEF SecretOf
  <2>2. heap[s].kind = "secret" /\ \A k \in Addresses : SecretOf(k, s) => k = h
    BY <1>0, <2>1 DEF Owned
  <2>3. s \notin S
    BY <2>1 DEF Closed, SecretOf
  <2> QED BY <1>5, <1>7, <2>2, <2>3
<1> QED BY <1>4, <1>5, <1>7, <1>8, <1>9

\* A set that has, besides identities, handshakes and their secrets only takes no secret
\* from a handshake outside.
LEMMA SecretsGoWithOwners ==
  ASSUME Inv, NEW H \in SUBSET Addresses, NEW I \in SUBSET Addresses,
         \A h \in H : heap[h].kind = "handshake",
         \A i \in I : heap[i].kind \in {"local", "remote"},
         NEW h \in Addresses \ H, NEW s \in Addresses, SecretOf(h, s)
  PROVE  s \notin I \union UNION {Parts(k) : k \in H}
<1>1. heap[s].kind = "secret" /\ \A k \in Addresses : SecretOf(k, s) => k = h
  BY DEF Inv, Owned
<1>2. s \notin I /\ s \notin H
  BY <1>1
<1>3. ASSUME NEW k \in H, s \in Parts(k) PROVE FALSE
  BY <1>1, <1>2, <1>3 DEF Parts, SecretOf
<1> QED BY <1>2, <1>3

\* As long as no secret is taken from a handshake or moved to another, what participants
\* were given stays theirs.
LEMMA HeldStays ==
  ASSUME Inv,
         \A h, s \in Addresses : SecretOf(h, s)' => SecretOf(h, s),
         \A p \in Participants : mine'[p].secret # Nil /\ ~mine'[p].lost =>
           /\ mine'[p].secret = mine[p].secret /\ mine'[p].handshake = mine[p].handshake
           /\ ~mine[p].lost
           /\ heap'[mine[p].secret].kind = "secret"
  PROVE  Held'
<1> SUFFICES ASSUME NEW p \in Participants, mine'[p].secret # Nil, ~mine'[p].lost
             PROVE  /\ heap'[mine'[p].secret].kind = "secret"
                    /\ \A k \in Addresses : SecretOf(k, mine[p].secret)' => k = mine'[p].handshake
  BY DEF Held
<1>1. mine[p].secret \in Addresses
  BY DEF Inv, Shape, HandleRecords, OrNil
<1>2. \A k \in Addresses : SecretOf(k, mine[p].secret) => k = mine[p].handshake
  BY DEF Inv, Held
<1>3. \A k \in Addresses : SecretOf(k, mine[p].secret)' => SecretOf(k, mine[p].secret)
  BY <1>1 DEF SecretOf
<1> QED BY <1>2, <1>3 DEF SecretOf

----------------------------------------------------------------------------
(* Allocating an identity or a handshake. *)
\* A new object that refers to what is there only leaves the heap sound.
LEMMA AllocatingKeepsHeap ==
  ASSUME Inv, NEW a \in Unallocated, NEW o \in Locals \union Remotes \union HandshakeObjects,
         heap' = [heap EXCEPT ![a] = o],
         o.kind = "handshake" =>
           /\ o.secret = Nil
           /\ Found(o.local, "local") /\ Found(o.remote, "remote")
           /\ o.local \in heap[o.remote].links,
         o.kind = "remote" => \A l \in o.links : Found(l, "local")
  PROVE  /\ heap' \in [Addresses -> Objects]
         /\ NothingDangles' /\ Owned'
         /\ \A h, s \in Addresses : SecretOf(h, s)' => SecretOf(h, s)
         /\ \A b \in Addresses : heap[b].kind # "free" => heap'[b] = heap[b]
<1>0. Shape /\ NothingDangles /\ Owned
  BY DEF Inv
<1>1. a \in Addresses /\ heap[a].kind = "free"
  BY <1>0, KindTells DEF Unallocated
<1>2. heap'[a] = o /\ \A b \in Addresses \ {a} : heap'[b] = heap[b]
  BY <1>0, <1>1 DEF Shape
<1>3. heap' \in [Addresses -> Objects]
  BY <1>0, <1>1 DEF Shape, Objects
<1>4. \A b \in Addresses : heap[b].kind # "free" => heap'[b] = heap[b]
  BY <1>1, <1>2
<1>5. \A h, s \in Addresses : SecretOf(h, s)' => SecretOf(h, s)
  BY <1>2, NilAssumption DEF SecretOf
<1>6. ASSUME NEW x, NEW k, Found(x, k), x \in Addresses, k # "free" PROVE Found(x, k)'
  BY <1>4, <1>6 DEF Found
<1>7. NothingDangles'
  <2> SUFFICES ASSUME NEW b \in Addresses
               PROVE  /\ heap'[b].kind = "handshake" =>
                           /\ Found(heap[b].local, "local")'
                           /\ Found(heap[b].remote, "remote")'
                           /\ heap'[b].local \in heap'[heap'[b].remote].links
                      /\ heap'[b].kind = "remote" => \A l \in heap'[b].links : Found(l, "local")'
    BY DEF NothingDangles
  <2>1. /\ heap'[b].kind = "handshake" =>
             /\ heap'[b].local \in Addresses /\ heap'[b].remote \in Addresses
             /\ Found(heap'[b].local, "local") /\ Found(heap'[b].remote, "remote")
             /\ heap'[b].local \in heap[heap'[b].remote].links
        /\ heap'[b].kind = "remote" =>
             heap'[b].links \subseteq Addresses /\ \A l \in heap'[b].links : Found(l, "local")
    <3>1. CASE b = a
      BY <1>2, <3>1 DEF Locals, Remotes, HandshakeObjects
    <3>2. CASE b # a
      BY <1>0, <1>2, <3>2, KindTells DEF NothingDangles, Remotes, HandshakeObjects
    <3> QED BY <3>1, <3>2
  <2>2. ASSUME heap'[b].kind = "handshake"
        PROVE  /\ Found(heap[b].local, "local")'
               /\ Found(heap[b].remote, "remote")'
               /\ heap'[b].local \in heap'[heap'[b].remote].links
    BY <1>4, <2>1, <2>2 DEF Found
  <2>3. ASSUME heap'[b].kind = "remote", NEW l \in heap'[b].links
        PROVE  Found(l, "local")'
    BY <1>4, <2>1, <2>3 DEF Found
  <2> QED BY <2>2, <2>3
<1>8. Owned'
  <2> SUFFICES ASSUME NEW h \in Addresses, NEW s \in Addresses, SecretOf(h, s)'
               PROVE  /\ heap'[s].kind = "secret"
                      /\ \A k \in Addresses : SecretOf(k, s)' => k = h
    BY DEF Owned
  <2> QED BY <1>0, <1>4, <1>5 DEF Owned
<1> QED BY <1>3, <1>4, <1>5, <1>7, <1>8

----------------------------------------------------------------------------
(* The calls that look up or allocate. *)
\* validate_local_identity allocates an identity that nothing refers to yet.
LEMMA ValidateLocalIdentityKeepsInv ==
  ASSUME Inv, NEW p \in Participants, ValidateLocalIdentity(p)
  PROVE  Inv'
<1>0. Shape
  BY DEF Inv
<1>1. PICK a \in Unallocated : /\ heap' = [heap EXCEPT ![a] = [kind |-> "local"]]
                               /\ mine' = [mine EXCEPT ![p].local = a]
  BY DEF ValidateLocalIdentity
<1>2. a \in Addresses /\ UNCHANGED call
  BY DEF ValidateLocalIdentity, Unallocated
<1>3. /\ heap' \in [Addresses -> Objects]
      /\ NothingDangles' /\ Owned'
      /\ \A h, s \in Addresses : SecretOf(h, s)' => SecretOf(h, s)
      /\ \A b \in Addresses : heap[b].kind # "free" => heap'[b] = heap[b]
  <2>1. [kind |-> "local"] \in Locals
    BY DEF Locals
  <2> HIDE DEF Locals
  <2>2. [kind |-> "local"].kind = "local"
    OBVIOUS
  <2> QED BY <1>1, <2>1, <2>2, AllocatingKeepsHeap
<1>4. mine' \in [Participants -> HandleRecords]
  BY <1>0, <1>1, <1>2 DEF Shape, HandleRecords, OrNil
<1>5. \A q \in Participants : mine'[q].secret = mine[q].secret
        /\ mine'[q].handshake = mine[q].handshake /\ mine'[q].lost = mine[q].lost
  BY <1>0, <1>1 DEF Shape, HandleRecords
<1>6. Held'
  <2>1. \A q \in Participants : mine[q].secret # Nil /\ ~mine[q].lost =>
          heap'[mine[q].secret].kind = "secret"
    BY <1>0, <1>3 DEF Inv, Held, Shape, HandleRecords, OrNil
  <2> QED BY <1>3, <1>5, <2>1, HeldStays
<1> QED BY <1>0, <1>2, <1>3, <1>4, <1>6 DEF Inv, Shape

\* The identity of the peer is made, or made related to one more local identity.
LEMMA ValidateRemoteIdentityKeepsInv ==
  ASSUME Inv, NEW p \in Participants, ValidateRemoteIdentity(p)
  PROVE  Inv'
<1> DEFINE l == mine[p].local
           known == {a \in Addresses : heap[a].kind = "remote"}
<1>0. Shape /\ NothingDangles /\ Owned
  BY DEF Inv
<1>1. PICK r \in (IF known # {} THEN known ELSE Unallocated) :
        /\ heap' = [heap EXCEPT ![r] =
             [kind |-> "remote", links |-> {l} \union IF r \in known THEN @.links ELSE {}]]
        /\ call' = [call EXCEPT ![p] = [op |-> "validate", reads |-> {l, r}, result |-> r, gone |-> FALSE]]
  BY DEF ValidateRemoteIdentity
<1>2. UNCHANGED mine /\ Found(l, "local")
  BY DEF ValidateRemoteIdentity
<1>3. l \in Addresses /\ heap[l].kind = "local" /\ r \in Addresses
  BY <1>0, <1>2, FoundIsAddress DEF Shape, HandleRecords, Unallocated
<1>4. call' \in [Participants -> CallRecords]
  BY <1>0, <1>1, <1>3 DEF Shape, CallRecords, OrNil
<1>5. /\ heap' \in [Addresses -> Objects]
      /\ NothingDangles' /\ Owned'
      /\ \A h, s \in Addresses : SecretOf(h, s)' => SecretOf(h, s)
      /\ \A b \in Addresses : heap[b].kind = "secret" => heap'[b] = heap[b]
  <2>1. CASE r \notin known
    <3> DEFINE o == [kind |-> "remote", links |-> {l}]
    <3>1. heap' = [heap EXCEPT ![r] = o] /\ r \in Unallocated
      BY <1>1, <2>1
    <3>2. o \in Remotes /\ o.kind = "remote" /\ o.links = {l}
      BY <1>3 DEF Remotes
    <3> HIDE DEF o
    <3>3. /\ heap' \in [Addresses -> Objects]
          /\ NothingDangles' /\ Owned'
          /\ \A h, s \in Addresses : SecretOf(h, s)' => SecretOf(h, s)
          /\ \A b \in Addresses : heap[b].kind # "free" => heap'[b] = heap[b]
      BY <1>2, <3>1, <3>2, AllocatingKeepsHeap
    <3> QED BY <3>3
  <2>2. CASE r \in known
    <3>1. heap[r].kind = "remote" /\ heap[r] \in Remotes
      BY <1>0, <2>2, KindTells
    <3>2. /\ heap'[r] \in Remotes /\ heap'[r].kind = "remote" /\ heap'[r].links = {l} \union heap[r].links
          /\ \A b \in Addresses \ {r} : heap'[b] = heap[b]
      BY <1>0, <1>1, <1>3, <2>2, <3>1 DEF Shape, Remotes
    <3>3. heap' \in [Addresses -> Objects]
      <4>1. \A b \in Addresses : heap'[b] \in Objects
        BY <1>0, <3>2 DEF Shape, Objects
      <4> QED BY <1>0, <1>1, <4>1 DEF Shape
    <3>4. \A b \in Addresses : heap'[b].kind = heap[b].kind
      BY <3>1, <3>2
    <3>5. \A h, s \in Addresses : SecretOf(h, s)' => SecretOf(h, s)
      BY <3>1, <3>2 DEF SecretOf
    <3>6. Owned'
      <4> SUFFICES ASSUME NEW h \in Addresses, NEW s \in Addresses, SecretOf(h, s)'
                   PROVE  /\ heap'[s].kind = "secret"
                          /\ \A k \in Addresses : SecretOf(k, s)' => k = h
        BY DEF Owned
      <4> QED BY <1>0, <3>4, <3>5 DEF Owned
    <3>7. NothingDangles'
      <4> SUFFICES ASSUME NEW b \in Addresses
                   PROVE  /\ heap'[b].kind = "handshake" =>
                               /\ Found(heap[b].local, "local")'
                               /\ Found(heap[b].remote, "remote")'
                               /\ heap'[b].local \in heap'[heap'[b].remote].links
                          /\ heap'[b].kind = "remote" => \A k \in heap'[b].links : Found(k, "local")'
        BY DEF NothingDangles
      <4>1. ASSUME heap'[b].kind = "handshake"
            PROVE  /\ Found(heap[b].local, "local")'
                   /\ Found(heap[b].remote, "remote")'
                   /\ heap'[b].local \in heap'[heap'[b].remote].links
        <5>1. heap'[b] = heap[b] /\ heap[b].kind = "handshake"
          BY <3>1, <3>2, <3>4, <4>1
        <5>2. heap[b].local \in Addresses /\ heap[b].remote \in Addresses
          BY <1>0, <5>1, KindTells DEF HandshakeObjects
        <5>3. Found(heap[b].local, "local") /\ Found(heap[b].remote, "remote")
              /\ heap[b].local \in heap[heap[b].remote].links
          BY <1>0, <5>1 DEF NothingDangles
        <5>4. heap[b].local \in heap'[heap[b].remote].links
          BY <3>2, <5>2, <5>3
        <5> QED BY <3>4, <5>1, <5>2, <5>3, <5>4 DEF Found
      <4>2. ASSUME heap'[b].kind = "remote", NEW k \in heap'[b].links
            PROVE  Found(k, "local")'
        <5>1. heap[b].kind = "remote" /\ heap[b].links \subseteq Addresses
          BY <1>0, <3>4, <4>2, KindTells DEF Remotes
        <5>2. k \in {l} \union heap[b].links
          BY <3>2, <4>2
        <5>3. k \in Addresses /\ Found(k, "local")
          BY <1>0, <1>2, <1>3, <5>1, <5>2 DEF NothingDangles
        <5> QED BY <3>4, <5>3 DEF Found
      <4> QED BY <4>1, <4>2
    <3> QED BY <3>1, <3>2, <3>3, <3>5, <3>6, <3>7
  <2> QED BY <2>1, <2>2
<1>6. Held'
  <2>1. \A q \in Participants : mine[q].secret # Nil /\ ~mine[q].lost =>
          heap'[mine[q].secret].kind = "secret"
    BY <1>0, <1>5 DEF Inv, Held, Shape, HandleRecords, OrNil
  <2> QED BY <1>2, <1>5, <2>1, HeldStays
<1> QED BY <1>0, <1>2, <1>4, <1>5, <1>6 DEF Inv, Shape

\* The handshake that begin_handshake_request and begin_handshake_reply find or make.
LEMMA FindOrCreateKeepsHeap ==
  ASSUME Inv, NEW p \in Participants, NEW h \in Addresses, FindOrCreate(p, h)
  PROVE  /\ heap' \in [Addresses -> Objects]
         /\ NothingDangles' /\ Owned'
         /\ \A k, s \in Addresses : SecretOf(k, s)' => SecretOf(k, s)
         /\ \A b \in Addresses : heap[b].kind = "secret" => heap'[b] = heap[b]
<1> DEFINE l == mine[p].local
           r == mine[p].remote
           o == [kind |-> "handshake", local |-> l, remote |-> r, secret |-> Nil]
<1>0. Shape /\ NothingDangles /\ Owned
  BY DEF Inv
<1>1. Found(l, "local") /\ Found(r, "remote")
  BY DEF FindOrCreate
<1>2. l \in Addresses /\ r \in Addresses
  BY <1>0, <1>1, FoundIsAddress DEF Shape, HandleRecords
<1>3. CASE UNCHANGED heap
  BY <1>0, <1>3 DEF Shape, NothingDangles, Found, Owned, SecretOf
<1>4. CASE h \in Unallocated /\ l \in heap[r].links /\ heap' = [heap EXCEPT ![h] = o]
  <2>1. /\ o \in HandshakeObjects /\ o.kind = "handshake"
        /\ o.local = l /\ o.remote = r /\ o.secret = Nil
    BY <1>2 DEF HandshakeObjects, OrNil
  <2> HIDE DEF o
  <2>2. /\ heap' \in [Addresses -> Objects]
        /\ NothingDangles' /\ Owned'
        /\ \A k, s \in Addresses : SecretOf(k, s)' => SecretOf(k, s)
        /\ \A b \in Addresses : heap[b].kind # "free" => heap'[b] = heap[b]
    BY <1>1, <1>4, <2>1, AllocatingKeepsHeap
  <2> QED BY <2>2
<1> QED BY <1>3, <1>4 DEF FindOrCreate

\* A participant that is given another handshake than before has no secret of it yet.
LEMMA GivenKeepsHeld ==
  ASSUME Inv, NEW p \in Participants, NEW h \in OrNil, mine' = Given(p, h),
         \A k, s \in Addresses : SecretOf(k, s)' => SecretOf(k, s),
         \A b \in Addresses : heap[b].kind = "secret" => heap'[b] = heap[b]
  PROVE  mine' \in [Participants -> HandleRecords] /\ Held'
<1>0. Shape
  BY DEF Inv
<1>1. mine' \in [Participants -> HandleRecords]
  <2>1. CASE mine[p].handshake = h /\ ~mine[p].lost
    <3>1. mine' = [mine EXCEPT ![p].handshake = h, ![p].lost = FALSE]
      BY <1>0, <2>1 DEF Shape, Given, HandleRecords
    <3>2. [mine[p] EXCEPT !.handshake = h, !.lost = FALSE] \in HandleRecords
      BY <1>0 DEF Shape, HandleRecords
    <3> QED BY <1>0, <3>1, <3>2 DEF Shape
  <2>2. CASE ~(mine[p].handshake = h /\ ~mine[p].lost)
    <3>1. mine' = [mine EXCEPT ![p].handshake = h, ![p].lost = FALSE, ![p].secret = Nil]
      BY <1>0, <2>2 DEF Shape, Given, HandleRecords
    <3>2. [mine[p] EXCEPT !.handshake = h, !.lost = FALSE, !.secret = Nil] \in HandleRecords
      BY <1>0 DEF Shape, HandleRecords, OrNil
    <3> QED BY <1>0, <3>1, <3>2 DEF Shape
  <2> QED BY <2>1, <2>2
<1>2. ASSUME NEW q \in Participants, mine'[q].secret # Nil, ~mine'[q].lost
      PROVE  /\ mine'[q].secret = mine[q].secret /\ mine'[q].handshake = mine[q].handshake
             /\ ~mine[q].lost
  <2>1. CASE q = p
    BY <1>0, <1>2, <2>1 DEF Shape, Given, HandleRecords
  <2>2. CASE q # p
    BY <1>0, <1>2, <2>2 DEF Shape, Given, HandleRecords
  <2> QED BY <2>1, <2>2
<1>3. \A q \in Participants : mine[q].secret # Nil /\ ~mine[q].lost =>
        heap'[mine[q].secret].kind = "secret"
  BY <1>0 DEF Inv, Held, Shape, HandleRecords, OrNil
<1>4. Held'
  BY <1>2, <1>3, HeldStays
<1> QED BY <1>1, <1>4

\* begin_handshake_request up to the unlock gives no handle yet.
LEMMA BeginHandshakeRequestKeepsInv ==
  ASSUME Inv, NEW p \in Participants, BeginHandshakeRequest(p)
  PROVE  Inv'
<1>0. Shape
  BY DEF Inv
<1>1. PICK h \in Addresses :
        /\ FindOrCreate(p, h)
        /\ call' = [call EXCEPT ![p] = [op |-> "request", reads |-> {h}, result |-> h, gone |-> FALSE]]
  BY DEF BeginHandshakeRequest
<1>2. UNCHANGED mine
  BY DEF BeginHandshakeRequest
<1>3. /\ heap' \in [Addresses -> Objects]
      /\ NothingDangles' /\ Owned'
      /\ \A k, s \in Addresses : SecretOf(k, s)' => SecretOf(k, s)
      /\ \A b \in Addresses : heap[b].kind = "secret" => heap'[b] = heap[b]
  BY <1>1, FindOrCreateKeepsHeap
<1>4. call' \in [Participants -> CallRecords]
  BY <1>0, <1>1 DEF Shape, CallRecords, OrNil
<1>5. Held'
  <2>1. \A q \in Participants : mine[q].secret # Nil /\ ~mine[q].lost =>
          heap'[mine[q].secret].kind = "secret"
    BY <1>0, <1>3 DEF Inv, Held, Shape, HandleRecords, OrNil
  <2> QED BY <1>2, <1>3, <2>1, HeldStays
<1> QED BY <1>0, <1>2, <1>3, <1>4, <1>5 DEF Inv, Shape

\* begin_handshake_reply gives the handle of the handshake it found or made.
LEMMA BeginHandshakeReplyKeepsInv ==
  ASSUME Inv, NEW p \in Participants, BeginHandshakeReply(p)
  PROVE  Inv'
<1>1. PICK h \in Addresses : FindOrCreate(p, h) /\ mine' = Given(p, h)
  BY DEF BeginHandshakeReply
<1>2. UNCHANGED call
  BY DEF BeginHandshakeReply
<1>3. /\ heap' \in [Addresses -> Objects]
      /\ NothingDangles' /\ Owned'
      /\ \A k, s \in Addresses : SecretOf(k, s)' => SecretOf(k, s)
      /\ \A b \in Addresses : heap[b].kind = "secret" => heap'[b] = heap[b]
  BY <1>1, FindOrCreateKeepsHeap
<1>4. mine' \in [Participants -> HandleRecords] /\ Held'
  BY <1>1, <1>3, GivenKeepsHeld DEF OrNil
<1> QED BY <1>2, <1>3, <1>4 DEF Inv, Shape

----------------------------------------------------------------------------
(* The calls that leave the heap alone. *)

\* The heap's part of the invariant says nothing of the participants.
LEMMA SameHeapKeepsInv ==
  ASSUME Inv, UNCHANGED heap,
         mine' \in [Participants -> HandleRecords], call' \in [Participants -> CallRecords],
         \A p \in Participants : mine'[p].secret # Nil /\ ~mine'[p].lost =>
           /\ mine'[p].secret = mine[p].secret /\ mine'[p].handshake = mine[p].handshake
           /\ ~mine[p].lost
  PROVE  Inv'
<1>1. Shape' /\ NothingDangles' /\ Owned'
  BY DEF Inv, Shape, NothingDangles, Found, Owned, SecretOf
<1>2. \A p \in Participants : mine'[p].secret # Nil /\ ~mine'[p].lost =>
        heap'[mine[p].secret].kind = "secret"
  BY DEF Inv, Held
<1>3. \A h, s \in Addresses : SecretOf(h, s)' => SecretOf(h, s)
  BY DEF SecretOf
<1>4. Held'
  BY <1>2, <1>3, HeldStays
<1> QED BY <1>1, <1>4 DEF Inv

\* A call that ends is forgotten.
LEMMA EndedCall ==
  ASSUME Shape, NEW p \in Participants, call' = [call EXCEPT ![p] = Idle]
  PROVE  call' \in [Participants -> CallRecords] /\ call[p].result \in OrNil
BY DEF Shape, CallRecords, Idle, OrNil

\* validate_remote_identity after the unlock hands out the identity only.
LEMMA EndValidateRemoteIdentityKeepsInv ==
  ASSUME Inv, NEW p \in Participants, EndValidateRemoteIdentity(p)
  PROVE  Inv'
<1>1. Shape /\ UNCHANGED heap
  BY DEF Inv, EndValidateRemoteIdentity
<1>2. call' \in [Participants -> CallRecords] /\ call[p].result \in OrNil
  BY <1>1, EndedCall DEF EndValidateRemoteIdentity
<1>3. /\ mine' \in [Participants -> HandleRecords]
      /\ \A q \in Participants : mine'[q].secret = mine[q].secret
           /\ mine'[q].handshake = mine[q].handshake /\ mine'[q].lost = mine[q].lost
  BY <1>1, <1>2 DEF EndValidateRemoteIdentity, Shape, HandleRecords
<1> QED BY <1>1, <1>2, <1>3, SameHeapKeepsInv

\* So does begin_handshake_request after the unlock: the handle it read.
LEMMA EndHandshakeRequestKeepsInv ==
  ASSUME Inv, NEW p \in Participants, EndHandshakeRequest(p)
  PROVE  Inv'
<1>1. Shape /\ UNCHANGED heap
  BY DEF Inv, EndHandshakeRequest
<1>2. call' \in [Participants -> CallRecords] /\ call[p].result \in OrNil
  BY <1>1, EndedCall DEF EndHandshakeRequest
<1>3. mine' \in [Participants -> HandleRecords] /\ Held'
  <2>1. mine' = Given(p, call[p].result)
    BY DEF EndHandshakeRequest
  <2> QED BY <1>1, <1>2, <2>1, GivenKeepsHeld DEF SecretOf
<1> QED BY <1>1, <1>2, <1>3 DEF Inv, Shape, NothingDangles, Found, Owned, SecretOf

\* A handle that is dropped takes the secret along.
LEMMA DropHandlesKeepsInv ==
  ASSUME Inv, NEW p \in Participants, DropHandles(p)
  PROVE  Inv'
<1>1. Shape /\ UNCHANGED <<heap, call>>
  BY DEF Inv, DropHandles
<1>2. mine' \in [Participants -> HandleRecords]
  BY <1>1 DEF DropHandles, Shape, HandleRecords, OrNil
<1>3. \A q \in Participants : mine'[q].secret # Nil /\ ~mine'[q].lost =>
        /\ mine'[q].secret = mine[q].secret /\ mine'[q].handshake = mine[q].handshake
        /\ ~mine[q].lost
  BY <1>1 DEF DropHandles, Shape, HandleRecords
<1> QED BY <1>1, <1>2, <1>3, SameHeapKeepsInv DEF Shape

\* The secret that is handed out is the one of the caller's handshake.
LEMMA GetSharedSecretKeepsInv ==
  ASSUME Inv, NEW p \in Participants, GetSharedSecret(p)
  PROVE  Inv'
<1> DEFINE h == mine[p].handshake
<1>0. Shape /\ NothingDangles /\ Owned /\ Held
  BY DEF Inv
<1>1. h \in Addresses /\ heap[h] \in HandshakeObjects /\ heap[h].kind = "handshake"
  <2>1. h \in OrNil /\ Found(h, "handshake")
    BY <1>0 DEF GetSharedSecret, Shape, HandleRecords
  <2> QED BY <1>0, <2>1, FoundIsAddress, KindTells
<1>2. UNCHANGED <<heap, call>> /\ mine' = [mine EXCEPT ![p].secret = heap[h].secret]
  BY DEF GetSharedSecret
<1>3. mine' \in [Participants -> HandleRecords]
  BY <1>0, <1>1, <1>2 DEF Shape, HandleRecords, HandshakeObjects
<1>4. Held'
  <2> SUFFICES ASSUME NEW q \in Participants, mine'[q].secret # Nil, ~mine'[q].lost
               PROVE  /\ heap[mine'[q].secret].kind = "secret"
                      /\ \A k \in Addresses : SecretOf(k, mine'[q].secret) => k = mine'[q].handshake
    BY <1>2 DEF Held, SecretOf
  <2>1. CASE q = p
    <3>1. mine'[q].secret = heap[h].secret /\ mine'[q].handshake = h
      BY <1>0, <1>2, <2>1 DEF Shape, HandleRecords
    <3>2. heap[h].secret \in Addresses /\ SecretOf(h, heap[h].secret)
      BY <1>1, <3>1 DEF HandshakeObjects, OrNil, SecretOf
    <3> QED BY <1>0, <1>1, <3>1, <3>2 DEF Owned
  <2>2. CASE q # p
    BY <1>0, <1>2, <2>2 DEF Held, Shape
  <2> QED BY <2>1, <2>2
<1> QED BY <1>0, <1>2, <1>3, <1>4 DEF Inv, Shape, NothingDangles, Found, Owned, SecretOf

----------------------------------------------------------------------------
(* Storing a secret. *)

\* Who refers to whom is a matter of the references of handshakes and remote identities.
LEMMA SameReferences ==
  ASSUME Shape, NothingDangles,
         \A b \in Addresses : heap[b].kind # "free" => heap'[b].kind = heap[b].kind,
         \A b \in Addresses : heap'[b].kind = "handshake" =>
           /\ heap[b].kind = "handshake"
           /\ heap'[b].local = heap[b].local /\ heap'[b].remote = heap[b].remote,
         \A b \in Addresses : heap'[b].kind = "remote" => heap'[b] = heap[b]
  PROVE  NothingDangles'
<1> SUFFICES ASSUME NEW b \in Addresses
             PROVE  /\ heap'[b].kind = "handshake" =>
                         /\ Found(heap[b].local, "local")'
                         /\ Found(heap[b].remote, "remote")'
                         /\ heap'[b].local \in heap'[heap'[b].remote].links
                    /\ heap'[b].kind = "remote" => \A l \in heap'[b].links : Found(l, "local")'
  BY DEF NothingDangles
<1>1. ASSUME heap'[b].kind = "handshake"
      PROVE  /\ Found(heap[b].local, "local")'
             /\ Found(heap[b].remote, "remote")'
             /\ heap'[b].local \in heap'[heap'[b].remote].links
  <2>1. heap[b].local \in Addresses /\ heap[b].remote \in Addresses
    BY <1>1, KindTells DEF HandshakeObjects
  <2>2. /\ Found(heap[b].local, "local") /\ Found(heap[b].remote, "remote")
        /\ heap[b].local \in heap[heap[b].remote].links
    BY <1>1 DEF NothingDangles
  <2> QED BY <1>1, <2>1, <2>2 DEF Found
<1>2. ASSUME heap'[b].kind = "remote", NEW l \in heap'[b].links
      PROVE  Found(l, "local")'
  <2>1. l \in Addresses /\ Found(l, "local")
    BY <1>2, KindTells DEF Remotes, NothingDangles
  <2> QED BY <2>1 DEF Found
<1> QED BY <1>1, <1>2

\* A new secret is no one else's, and the one it replaces stays the participant's.
LEMMA StoreSecretKeepsInv ==
  ASSUME Inv, NEW h \in Addresses, heap[h].kind = "handshake",
         NEW s \in Unallocated, heap' = StoreSecret(h, s), UNCHANGED <<mine, call>>
  PROVE  Inv'
<1>0. Shape /\ NothingDangles /\ Owned /\ Held
  BY DEF Inv
<1>1. s \in Addresses /\ heap[s].kind = "free" /\ s # h /\ heap[h] \in HandshakeObjects
  BY <1>0, KindTells DEF Unallocated
<1>2. /\ heap'[h] = [heap[h] EXCEPT !.secret = s]
      /\ heap'[s] = [kind |-> "secret"]
      /\ \A a \in Addresses \ {h, s} : heap'[a] = heap[a]
  BY <1>0, <1>1 DEF Shape, StoreSecret
<1>3. /\ heap'[h] \in HandshakeObjects /\ heap'[h].kind = "handshake"
      /\ heap'[h].local = heap[h].local /\ heap'[h].remote = heap[h].remote
      /\ heap'[h].secret = s
  BY <1>1, <1>2 DEF HandshakeObjects, OrNil
<1>4. heap'[s] \in Secrets /\ heap'[s].kind = "secret"
  BY <1>2 DEF Secrets
<1>5. heap' \in [Addresses -> Objects]
  <2>1. \A a \in Addresses : heap'[a] \in Objects
    BY <1>0, <1>2, <1>3, <1>4 DEF Shape, Objects
  <2> QED BY <1>0, <1>1, <2>1 DEF Shape, StoreSecret
<1>6. NothingDangles'
  BY <1>0, <1>1, <1>2, <1>3, <1>4, SameReferences
<1>7. \A k, t \in Addresses : SecretOf(k, t)' =>
        \/ k = h /\ t = s
        \/ k # h /\ SecretOf(k, t)
  BY <1>2, <1>3, <1>4 DEF SecretOf
<1>8. \A k, t \in Addresses : SecretOf(k, t) => heap[t].kind = "secret" /\ t # s /\ t # h
  BY <1>0, <1>1 DEF Owned
<1>9. Owned'
  <2> SUFFICES ASSUME NEW k \in Addresses, NEW t \in Addresses, SecretOf(k, t)'
               PROVE  /\ heap'[t].kind = "secret"
                      /\ \A j \in Addresses : SecretOf(j, t)' => j = k
    BY DEF Owned
  <2>1. CASE k = h /\ t = s
    BY <1>4, <1>7, <1>8, <2>1
  <2>2. CASE k # h /\ SecretOf(k, t)
    <3>1. heap[t].kind = "secret" /\ t # s /\ t # h /\ \A j \in Addresses : SecretOf(j, t) => j = k
      BY <1>0, <1>8, <2>2 DEF Owned
    <3> QED BY <1>2, <1>7, <3>1
  <2> QED BY <1>7, <2>1, <2>2
<1>10. Held'
  <2> SUFFICES ASSUME NEW q \in Participants, mine[q].secret # Nil, ~mine[q].lost
               PROVE  /\ heap'[mine[q].secret].kind = "secret"
                      /\ \A k \in Addresses : SecretOf(k, mine[q].secret)' => k = mine[q].handshake
    BY DEF Held
  <2> DEFINE t == mine[q].secret
  <2>1. t \in Addresses /\ heap[t].kind = "secret" /\ t # h /\ t # s
    BY <1>0, <1>1 DEF Held, Shape, HandleRecords, OrNil
  <2>2. \A k \in Addresses : SecretOf(k, t) => k = mine[q].handshake
    BY <1>0 DEF Held
  <2>3. \A k \in Addresses : SecretOf(k, t)' => SecretOf(k, t)
    BY <1>7, <2>1
  <2>4. heap'[t] = heap[t]
    BY <1>2, <2>1
  <2> QED BY <2>1, <2>2, <2>3, <2>4 DEF SecretOf
<1> QED BY <1>0, <1>5, <1>6, <1>9, <1>10 DEF Inv, Shape

\* process_handshake stores a secret or takes the one there is away.
LEMMA ProcessHandshakeKeepsInv ==
  ASSUME Inv, NEW p \in Participants, ProcessHandshake(p)
  PROVE  Inv'
<1> DEFINE h == mine[p].handshake
<1>0. Shape /\ NothingDangles /\ Owned /\ Held
  BY DEF Inv
<1>1. h \in Addresses /\ heap[h] \in HandshakeObjects /\ heap[h].kind = "handshake"
  <2>1. h \in OrNil /\ Found(h, "handshake")
    BY <1>0 DEF ProcessHandshake, Shape, HandleRecords
  <2> QED BY <1>0, <2>1, FoundIsAddress, KindTells
<1>2. UNCHANGED <<mine, call>>
  BY DEF ProcessHandshake
<1>3. CASE \E s \in Unallocated : heap' = StoreSecret(h, s)
  BY <1>1, <1>2, <1>3, StoreSecretKeepsInv
<1>4. CASE heap' = [heap EXCEPT ![h].secret = Nil]
  <2>1. /\ heap'[h] \in HandshakeObjects /\ heap'[h].kind = "handshake"
        /\ heap'[h].local = heap[h].local /\ heap'[h].remote = heap[h].remote
        /\ heap'[h].secret = Nil
        /\ \A a \in Addresses \ {h} : heap'[a] = heap[a]
    BY <1>0, <1>1, <1>4 DEF Shape, HandshakeObjects, OrNil
  <2>2. heap' \in [Addresses -> Objects]
    <3>1. \A a \in Addresses : heap'[a] \in Objects
      BY <1>0, <2>1 DEF Shape, Objects
    <3> QED BY <1>0, <1>4, <3>1 DEF Shape
  <2>3. NothingDangles'
    BY <1>0, <1>1, <2>1, SameReferences
  <2>4. \A k, s \in Addresses : SecretOf(k, s)' => SecretOf(k, s)
    BY <2>1, NilAssumption DEF SecretOf
  <2>5. \A a \in Addresses : heap'[a].kind = heap[a].kind
    BY <1>1, <2>1
  <2>6. Owned'
    <3> SUFFICES ASSUME NEW k \in Addresses, NEW s \in Addresses, SecretOf(k, s)'
                 PROVE  /\ heap'[s].kind = "secret"
                        /\ \A j \in Addresses : SecretOf(j, s)' => j = k
      BY DEF Owned
    <3> QED BY <1>0, <2>4, <2>5 DEF Owned
  <2>7. Held'
    <3>1. \A q \in Participants : mine[q].secret # Nil /\ ~mine[q].lost =>
            heap'[mine[q].secret].kind = "secret"
      BY <1>0, <2>5 DEF Held, Shape, HandleRecords, OrNil
    <3> QED BY <1>2, <2>4, <3>1, HeldStays
  <2> QED BY <1>0, <1>2, <2>2, <2>3, <2>6, <2>7 DEF Inv, Shape
<1> QED BY <1>3, <1>4 DEF ProcessHandshake

----------------------------------------------------------------------------
(* Returning handles. *)

\* What goes with the handshakes H and the identities I.
Freed(H, I) == I \union UNION {Parts(h) : h \in H}

\* The identities I may be freed with the handshakes H, L leaving the relations.
MayGo(H, I, L) ==
  /\ H \subseteq Addresses /\ I \subseteq Addresses
  /\ \A h \in H : heap[h].kind = "handshake"
  /\ \A i \in I : heap[i].kind \in {"local", "remote"}
  /\ \A h \in Addresses \ H : heap[h].kind = "handshake" =>
       heap[h].local \notin I \union L /\ heap[h].remote \notin I
  /\ \A r \in Addresses \ I : heap[r].kind = "remote" => (heap[r].links \ L) \cap I = {}

\* Apart from the identities only handshakes and their secrets go.
LEMMA FreedKinds ==
  ASSUME Inv, NEW H, NEW I, NEW L, MayGo(H, I, L), NEW a \in Freed(H, I)
  PROVE  /\ a \in Addresses
         /\ a \in I \/ heap[a].kind \in {"handshake", "secret"}
<1>1. CASE a \in I
  BY <1>1 DEF MayGo
<1>2. ASSUME NEW h \in H, a \in Parts(h)
      PROVE  a \in Addresses /\ heap[a].kind \in {"handshake", "secret"}
  <2>1. h \in Addresses /\ heap[h].kind = "handshake" /\ heap[h] \in HandshakeObjects
    BY KindTells DEF Inv, MayGo
  <2>2. CASE a = h
    BY <2>1, <2>2
  <2>3. CASE a = heap[h].secret /\ a # Nil
    <3>1. a \in Addresses /\ SecretOf(h, a)
      BY <2>1, <2>3 DEF HandshakeObjects, OrNil, SecretOf
    <3> QED BY <2>1, <3>1 DEF Inv, Owned
  <2> QED BY <1>2, <2>2, <2>3 DEF Parts
<1> QED BY <1>1, <1>2 DEF Freed

\* Nothing that stays refers to what goes.
LEMMA FreedIsClosed ==
  ASSUME Inv, NEW H, NEW I, NEW L, MayGo(H, I, L)
  PROVE  Closed(Freed(H, I), L)
<1> DEFINE S == Freed(H, I)
<1>0. Shape /\ NothingDangles /\ Owned
  BY DEF Inv
<1>1. \A a \in S : a \in I \/ heap[a].kind \in {"handshake", "secret"}
  BY FreedKinds
<1>2. ASSUME NEW h \in Addresses \ S, heap[h].kind = "handshake"
      PROVE  heap[h].local \notin S \union L /\ heap[h].remote \notin S /\ heap[h].secret \notin S
  <2>1. h \notin H
    BY <1>2 DEF Freed, Parts
  <2>2. heap[h].local \notin I \union L /\ heap[h].remote \notin I
    BY <1>2, <2>1 DEF MayGo
  <2>3. heap[heap[h].local].kind = "local" /\ heap[heap[h].remote].kind = "remote"
    BY <1>0, <1>2 DEF NothingDangles, Found
  <2>4. heap[h].local \notin S /\ heap[h].remote \notin S
    BY <1>1, <2>2, <2>3
  <2>5. heap[h].secret \notin S
    <3>1. CASE heap[h].secret \in Addresses
      <4>1. SecretOf(h, heap[h].secret) /\ h \in Addresses \ H
        BY <1>2, <2>1 DEF SecretOf
      <4>2. H \in SUBSET Addresses /\ I \in SUBSET Addresses
            /\ (\A k \in H : heap[k].kind = "handshake")
            /\ (\A i \in I : heap[i].kind \in {"local", "remote"})
        BY DEF MayGo
      <4>3. ASSUME NEW s \in Addresses, SecretOf(h, s)
            PROVE  s \notin I \union UNION {Parts(k) : k \in H}
        BY <4>1, <4>2, <4>3, SecretsGoWithOwners
      <4> QED BY <3>1, <4>1, <4>3 DEF Freed
    <3>2. CASE heap[h].secret \notin Addresses
      BY <3>2, FreedKinds
    <3> QED BY <3>1, <3>2
  <2> QED BY <2>2, <2>4, <2>5
<1>3. ASSUME NEW r \in Addresses \ S, heap[r].kind = "remote", NEW l \in heap[r].links \ L, l \in S
      PROVE  FALSE
  <2>1. r \notin I
    BY <1>3 DEF Freed
  <2>2. l \notin I
    BY <1>3, <2>1 DEF MayGo
  <2>3. heap[l].kind = "local"
    BY <1>0, <1>3 DEF NothingDangles, Found
  <2> QED BY <1>1, <1>3, <2>2, <2>3
<1> QED BY <1>2, <1>3 DEF Closed

\* Handles may be returned when those who were given what goes learn that it is lost.
LEMMA FreeingKeepsInv ==
  ASSUME Inv, NEW H, NEW I, NEW L \in SUBSET Addresses, MayGo(H, I, L),
         heap' = After(Freed(H, I), L),
         mine' \in [Participants -> HandleRecords], call' \in [Participants -> CallRecords],
         \A p \in Participants : mine'[p].secret # Nil /\ ~mine'[p].lost =>
           /\ mine'[p].secret = mine[p].secret /\ mine'[p].handshake = mine[p].handshake
           /\ ~mine[p].lost /\ mine[p].handshake \notin H
  PROVE  Inv'
<1> DEFINE S == Freed(H, I)
<1>0. Shape /\ Owned /\ Held
  BY DEF Inv
<1>1. S \in SUBSET Addresses /\ Closed(S, L)
  BY FreedKinds, FreedIsClosed
<1>2. /\ heap' \in [Addresses -> Objects]
      /\ NothingDangles' /\ Owned'
      /\ \A h \in Addresses : \A s : SecretOf(h, s)' => SecretOf(h, s)
      /\ \A a \in Addresses \ S : heap'[a].kind = heap[a].kind
  <2> HIDE DEF S
  <2>1. heap' = After(S, L)
    BY DEF S
  <2> QED BY <1>1, <2>1, FreeingKeepsHeap
<1>3. ASSUME NEW q \in Participants, mine[q].secret # Nil, ~mine[q].lost, mine[q].handshake \notin H
      PROVE  heap'[mine[q].secret].kind = "secret"
  <2> DEFINE t == mine[q].secret
  <2>1. t \in Addresses /\ heap[t].kind = "secret"
        /\ \A k \in Addresses : SecretOf(k, t) => k = mine[q].handshake
    BY <1>0, <1>3 DEF Held, Shape, HandleRecords, OrNil
  <2>2. t \notin I
    BY <2>1 DEF MayGo
  <2>3. ASSUME NEW k \in H, t \in Parts(k) PROVE FALSE
    <3>1. k \in Addresses /\ heap[k].kind = "handshake"
      BY DEF MayGo
    <3>2. SecretOf(k, t)
      BY <2>1, <2>3, <3>1 DEF Parts, SecretOf
    <3> QED BY <1>3, <2>1, <3>1, <3>2
  <2>4. t \notin S
    BY <2>2, <2>3 DEF Freed
  <2> QED BY <1>2, <2>1, <2>4
<1>4. Held'
  BY <1>2, <1>3, HeldStays
<1> QED BY <1>2, <1>4 DEF Inv, Shape

\* What the participants and their calls learn.
LEMMA LearnedShape ==
  ASSUME Shape, NEW S \in SUBSET Addresses
  PROVE  /\ MineAfter(S) \in [Participants -> HandleRecords]
         /\ CallAfter(S) \in [Participants -> CallRecords]
         /\ \A p \in Participants :
              /\ MineAfter(S)[p].secret = mine[p].secret
              /\ MineAfter(S)[p].handshake = mine[p].handshake
              /\ ~MineAfter(S)[p].lost => ~mine[p].lost /\ mine[p].handshake \notin S
<1>1. ASSUME NEW p \in Participants
      PROVE  /\ MineAfter(S)[p] \in HandleRecords
             /\ MineAfter(S)[p].secret = mine[p].secret
             /\ MineAfter(S)[p].handshake = mine[p].handshake
             /\ ~MineAfter(S)[p].lost => ~mine[p].lost /\ mine[p].handshake \notin S
  <2> DEFINE lost == mine[p].lost \/ mine[p].handshake \in S
  <2>1. mine[p] \in HandleRecords
    BY DEF Shape
  <2>2. lost \in BOOLEAN
    OBVIOUS
  <2>3. MineAfter(S)[p] = [mine[p] EXCEPT !.lost = lost]
    BY DEF MineAfter
  <2>4. lost = TRUE \/ lost = FALSE
    BY <2>2
  <2>5. CASE lost = TRUE
    <3>1. MineAfter(S)[p] = [mine[p] EXCEPT !.lost = TRUE]
      BY <2>3, <2>5
    <3> HIDE DEF lost
    <3> QED BY <2>1, <3>1 DEF HandleRecords
  <2>6. CASE lost = FALSE
    <3>1. MineAfter(S)[p] = [mine[p] EXCEPT !.lost = FALSE]
      BY <2>3, <2>6
    <3>2. ~mine[p].lost /\ mine[p].handshake \notin S
      BY <2>6
    <3> HIDE DEF lost
    <3> QED BY <2>1, <3>1, <3>2 DEF HandleRecords
  <2> QED BY <2>4, <2>5, <2>6
<1>2. ASSUME NEW p \in Participants PROVE CallAfter(S)[p] \in CallRecords
  <2> DEFINE gone == call[p].gone \/ call[p].reads \cap S # {}
  <2>1. call[p] \in CallRecords
    BY DEF Shape
  <2>2. gone \in BOOLEAN
    OBVIOUS
  <2>3. CallAfter(S)[p] = [call[p] EXCEPT !.gone = gone]
    BY DEF CallAfter
  <2> HIDE DEF gone
  <2> QED BY <2>1, <2>2, <2>3 DEF CallRecords
<1> QED BY <1>1, <1>2 DEF MineAfter, CallAfter

\* Freeing alone changes no relation.
LEMMA PlainFreeing ==
  ASSUME Shape, NEW S
  PROVE  [a \in Addresses |-> IF a \in S THEN Free ELSE heap[a]] = After(S, {})
<1>1. ASSUME NEW a \in Addresses, heap[a].kind = "remote"
      PROVE  [heap[a] EXCEPT !.links = @ \ {}] = heap[a]
  BY <1>1, KindTells DEF Remotes
<1> QED BY <1>1 DEF After

\* return_handshake_handle frees the handshake and its secret.
LEMMA ReturnHandshakeHandleKeepsInv ==
  ASSUME Inv, NEW p \in Participants, ReturnHandshakeHandle(p)
  PROVE  Inv'
<1> DEFINE h == mine[p].handshake
           m == MineAfter({h})
<1>0. Shape /\ NothingDangles
  BY DEF Inv
<1>1. h \in Addresses /\ heap[h].kind = "handshake"
  <2>1. h \in OrNil /\ Found(h, "handshake")
    BY <1>0 DEF ReturnHandshakeHandle, Shape, HandleRecords
  <2> QED BY <2>1, FoundIsAddress
<1>2. MayGo({h}, {}, {})
  BY <1>1 DEF MayGo
<1>3. heap' = After(Freed({h}, {}), {})
  <2>1. Freed({h}, {}) = Parts(h)
    BY DEF Freed
  <2>2. heap' = [a \in Addresses |-> IF a \in Parts(h) THEN Free ELSE heap[a]]
    BY DEF ReturnHandshakeHandle
  <2> QED BY <1>0, <2>1, <2>2, PlainFreeing
<1>4. /\ m \in [Participants -> HandleRecords]
      /\ \A q \in Participants :
           /\ m[q].secret = mine[q].secret /\ m[q].handshake = mine[q].handshake
           /\ ~m[q].lost => ~mine[q].lost /\ mine[q].handshake \notin {h}
      /\ call' \in [Participants -> CallRecords]
  <2>1. {h} \in SUBSET Addresses /\ call' = CallAfter({h})
    BY <1>1 DEF ReturnHandshakeHandle
  <2> QED BY <1>0, <2>1, LearnedShape
<1>5. mine' = [m EXCEPT ![p].handshake = Nil, ![p].secret = Nil, ![p].lost = FALSE]
  BY DEF ReturnHandshakeHandle
<1>6. /\ mine' \in [Participants -> HandleRecords]
      /\ \A q \in Participants : mine'[q].secret # Nil /\ ~mine'[q].lost =>
           /\ mine'[q].secret = mine[q].secret /\ mine'[q].handshake = mine[q].handshake
           /\ ~mine[q].lost /\ mine[q].handshake \notin {h}
  <2> HIDE DEF m
  <2>1. mine' \in [Participants -> HandleRecords] /\ mine'[p].secret = Nil
        /\ \A q \in Participants \ {p} : mine'[q] = m[q]
    BY <1>4, <1>5 DEF HandleRecords, OrNil
  <2> QED BY <1>4, <2>1
<1>7. {} \in SUBSET Addresses
  OBVIOUS
<1> HIDE DEF h, m
<1> QED BY <1>2, <1>3, <1>4, <1>6, <1>7, FreeingKeepsInv

\* return_identity_handle of the peer's identity takes the handshakes with it along,
\* whoever holds them.
LEMMA ReturnRemoteIdentityKeepsInv ==
  ASSUME Inv, NEW p \in Participants, ReturnRemoteIdentity(p)
  PROVE  Inv'
<1> DEFINE r == mine[p].remote
           H == RelatedHandshakes(p, r)
           m == MineAfter(H)
<1>0. Shape /\ NothingDangles
  BY DEF Inv
<1>1. r \in Addresses /\ heap[r].kind = "remote"
  <2>1. r \in OrNil /\ Found(r, "remote")
    BY <1>0 DEF ReturnRemoteIdentity, Shape, HandleRecords
  <2> QED BY <2>1, FoundIsAddress
<1>2. MayGo(H, {r}, {})
  <2>1. H \subseteq Addresses /\ \A k \in H : heap[k].kind = "handshake"
    BY DEF RelatedHandshakes, Handshakes
  <2>2. ASSUME NEW k \in Addresses \ H, heap[k].kind = "handshake"
        PROVE  heap[k].local # r /\ heap[k].remote # r
    <3>1. heap[heap[k].local].kind = "local" /\ heap[k].local \in heap[heap[k].remote].links
      BY <1>0, <2>2 DEF NothingDangles, Found
    <3>2. k \in Handshakes(heap[k].local, heap[k].remote)
      BY <2>2 DEF Handshakes
    <3>3. ASSUME heap[k].remote = r PROVE k \in H
      BY <3>1, <3>2, <3>3 DEF RelatedHandshakes
    <3> QED BY <1>1, <3>1, <3>3
  <2>3. \A a \in Addresses : heap[a].kind = "remote" => r \notin heap[a].links
    BY <1>0, <1>1 DEF NothingDangles, Found
  <2> QED BY <1>1, <2>1, <2>2, <2>3 DEF MayGo
<1>3. heap' = After(Freed(H, {r}), {})
  <2>1. heap' = [a \in Addresses |-> IF a \in Freed(H, {r}) THEN Free ELSE heap[a]]
    BY DEF ReturnRemoteIdentity, Freed
  <2> QED BY <1>0, <2>1, PlainFreeing
<1>4. /\ m \in [Participants -> HandleRecords]
      /\ \A q \in Participants :
           /\ m[q].secret = mine[q].secret /\ m[q].handshake = mine[q].handshake
           /\ ~m[q].lost => ~mine[q].lost /\ mine[q].handshake \notin H
  BY <1>0, <1>2, LearnedShape DEF MayGo
<1>5. call' \in [Participants -> CallRecords]
  <2>1. {r} \union H \in SUBSET Addresses /\ call' = CallAfter({r} \union H)
    BY <1>1, <1>2 DEF ReturnRemoteIdentity, MayGo
  <2> QED BY <1>0, <2>1, LearnedShape
<1>6. mine' = [m EXCEPT ![p].remote = Nil]
  BY DEF ReturnRemoteIdentity
<1>7. /\ mine' \in [Participants -> HandleRecords]
      /\ \A q \in Participants : mine'[q].secret = m[q].secret
           /\ mine'[q].handshake = m[q].handshake /\ mine'[q].lost = m[q].lost
  <2> HIDE DEF m
  <2> QED BY <1>4, <1>6 DEF HandleRecords, OrNil
<1>8. {} \in SUBSET Addresses
  OBVIOUS
<1>9. \A q \in Participants : mine'[q].secret # Nil /\ ~mine'[q].lost =>
        /\ mine'[q].secret = mine[q].secret /\ mine'[q].handshake = mine[q].handshake
        /\ ~mine[q].lost /\ mine[q].handshake \notin H
  BY <1>4, <1>7
<1> HIDE DEF r, H, m
<1> QED BY <1>2, <1>3, <1>5, <1>7, <1>8, <1>9, FreeingKeepsInv

\* return_identity_handle of the own identity takes it out of all relations.
LEMMA ReturnLocalIdentityKeepsInv ==
  ASSUME Inv, NEW p \in Participants, ReturnLocalIdentity(p)
  PROVE  Inv'
<1> DEFINE l == mine[p].local
           H == UNION {Handshakes(l, r) : r \in Addresses}
           m == MineAfter(H)
<1>0. Shape /\ NothingDangles
  BY DEF Inv
<1>1. l \in Addresses /\ heap[l].kind = "local"
  <2>1. l \in OrNil /\ Found(l, "local")
    BY <1>0 DEF ReturnLocalIdentity, Shape, HandleRecords
  <2> QED BY <2>1, FoundIsAddress
<1>2. MayGo(H, {l}, {l})
  <2>1. H \subseteq Addresses /\ \A k \in H : heap[k].kind = "handshake"
    BY DEF Handshakes
  <2>2. ASSUME NEW k \in Addresses \ H, heap[k].kind = "handshake"
        PROVE  heap[k].local # l /\ heap[k].remote # l
    <3>1. heap[heap[k].remote].kind = "remote"
      BY <1>0, <2>2 DEF NothingDangles, Found
    <3>2. k \in Handshakes(heap[k].local, heap[k].remote) /\ heap[k].remote \in Addresses
      BY <1>0, <2>2, KindTells DEF Handshakes, HandshakeObjects
    <3> QED BY <1>1, <3>1, <3>2
  <2> HIDE DEF H
  <2> QED BY <1>1, <2>1, <2>2 DEF MayGo
<1>3. heap' = After(Freed(H, {l}), {l})
  BY DEF ReturnLocalIdentity, Freed, After
<1>4. /\ m \in [Participants -> HandleRecords]
      /\ \A q \in Participants :
           /\ m[q].secret = mine[q].secret /\ m[q].handshake = mine[q].handshake
           /\ ~m[q].lost => ~mine[q].lost /\ mine[q].handshake \notin H
  BY <1>0, <1>2, LearnedShape DEF MayGo
<1>5. call' \in [Participants -> CallRecords]
  <2>1. {l} \union H \in SUBSET Addresses /\ call' = CallAfter({l} \union H)
    BY <1>1, <1>2 DEF ReturnLocalIdentity, MayGo
  <2> QED BY <1>0, <2>1, LearnedShape
<1>6. mine' = [m EXCEPT ![p] = NoHandles]
  BY DEF ReturnLocalIdentity
<1>7. /\ mine' \in [Participants -> HandleRecords] /\ mine'[p].secret = Nil
      /\ \A q \in Participants \ {p} : mine'[q] = m[q]
  <2> HIDE DEF m
  <2> QED BY <1>4, <1>6 DEF HandleRecords, NoHandles, OrNil
<1>8. \A q \in Participants : mine'[q].secret # Nil /\ ~mine'[q].lost =>
        /\ mine'[q].secret = mine[q].secret /\ mine'[q].handshake = mine[q].handshake
        /\ ~mine[q].lost /\ mine[q].handshake \notin H
  BY <1>4, <1>7
<1>9. {l} \in SUBSET Addresses
  BY <1>1
<1> HIDE DEF H, m
<1> QED BY <1>2, <1>3, <1>5, <1>7, <1>8, <1>9, FreeingKeepsInv

----------------------------------------------------------------------------
(* The theorems. *)

\* Every call of every thread keeps the invariant.
LEMMA NextKeepsInv == Inv /\ [Next]_vars => Inv'
<1> SUFFICES ASSUME Inv, [Next]_vars PROVE Inv'
  OBVIOUS
<1>1. CASE UNCHANGED vars
  BY <1>1 DEF vars, Inv, Shape, NothingDangles, Found, Owned, Held, SecretOf
<1>2. ASSUME NEW p \in Participants, FailAssertion(p) PROVE Inv'
  BY <1>2 DEF FailAssertion, Inv, Shape, NothingDangles, Found, Owned, Held, SecretOf
<1> QED
  BY <1>1, <1>2, ValidateLocalIdentityKeepsInv, ValidateRemoteIdentityKeepsInv,
     EndValidateRemoteIdentityKeepsInv, BeginHandshakeRequestKeepsInv,
     EndHandshakeRequestKeepsInv, BeginHandshakeReplyKeepsInv, ProcessHandshakeKeepsInv,
     GetSharedSecretKeepsInv, ReturnHandshakeHandleKeepsInv, ReturnRemoteIdentityKeepsInv,
     ReturnLocalIdentityKeepsInv, DropHandlesKeepsInv
     DEF Next

\* The invariant holds always.
THEOREM InvAlways == Spec => []Inv
BY InitInv, NextKeepsInv, PTL DEF Spec

\* return_identity_handle leaves no handshake or relation behind that refers to what it
\* freed, whichever threads were inside a call.
THEOREM NothingDanglesAlways == Spec => []NothingDangles
<1>1. Inv => NothingDangles
  BY DEF Inv
<1> QED BY <1>1, InvAlways, PTL

\* get_shared_secret hands out a pointer into the handshake: what it points to is freed
\* with the handshake only.
THEOREM SecretStaysAllocatedAlways == Spec => []SecretStaysAllocated
<1>1. Inv => SecretStaysAllocated
  BY DEF Inv, Held, SecretStaysAllocated
<1> QED BY <1>1, InvAlways, PTL
=============================================================================
