----------------------- MODULE CycloneValidityProofs -----------------------
(***************************************************************************)
(* Proofs about the validity timers, for any number of identities and      *)
(* addresses.                                                              *)
(*                                                                         *)
(* The argument: an identity has its address to itself while it exists, so *)
(* a callback reaches another identity than its own only when its own is   *)
(* gone.  A callback outlives its identity only if that was returned under *)
(* it, or if its event was orphaned, which already needs a taint at the    *)
(* address.  In both cases the identity now at the address is tainted.  So *)
(* an untainted identity meets its own callback only, which runs while its *)
(* field is set and its event is off the queue.                            *)
(***************************************************************************)
EXTENDS CycloneValidity, TLAPS

\* The steps of the callback between the dispatcher's queue and its end.
Stages == {"idle", "entered", "checked", "found", "notified"}

Shape ==
  /\ object \in [Ids -> {"absent", "created", "live", "freed"}]
  /\ addr \in [Ids -> Addresses \union {None}]
  /\ timer \in [Ids -> Nat]
  /\ arms \in [Ids -> Nat]
  /\ queue \subseteq Ids \X Nat
  /\ revoked \subseteq Ids
  /\ callback \in [at : Stages, id : Ids \union {None}]
  /\ callback.at = "idle" <=> callback.id = None
  /\ \A i \in RemoteIds : object[i] # "created"

\* An identity that exists has its address to itself, and one that was never there has none.
OneEach ==
  /\ \A i \in Ids : object[i] = "absent" <=> addr[i] = None
  /\ \A i, j \in Ids : Present(i) /\ Present(j) /\ addr[i] = addr[j] => i = j

\* No timer was armed for an identity that was never there.
Fresh == \A i \in Ids : object[i] = "absent" => timer[i] = 0

\* Only identities that are gone were overtaken.
Gone == \A i \in overtaken : i \in Ids /\ object[i] = "freed"

\* An event in the queue belongs to an identity that exists and knows of it.
Queued ==
  \A i \in Ids, k \in Nat : <<i, k>> \in queue =>
    /\ object[i] # "absent"
    /\ k # 0
    /\ Tainted(i) \/ (Present(i) /\ timer[i] = k)

\* The event of the running callback is due and off the queue, and its identity, unless it
\* was returned meanwhile, still has the timer field set: nobody arms a second timer.
InCallback ==
  \A i \in Ids : callback.id = i =>
    /\ i \in expired
    /\ object[i] # "absent"
    /\ object[i] = "freed" => i \in overtaken \/ Tainted(i)
    /\ \/ Tainted(i)
       \/ /\ \A k \in Nat : <<i, k>> \notin queue
          /\ Present(i) => timer[i] # 0

\* A remote identity's field claims no timer that is gone.
Noted ==
  \A i \in RemoteIds : Present(i) /\ ~Tainted(i) /\ timer[i] # 0 =>
    <<i, timer[i]>> \in queue \/ callback.id = i

IInv == Shape /\ OneEach /\ Fresh /\ Gone /\ Queued /\ InCallback /\ Noted /\ NoEarlyReport

\* The idle callback names no identity.
LEMMA NoneIsNoId == None \notin Ids
  BY IdsAssumption DEF Ids

\* The inductive invariant holds when the plugin has been created.
LEMMA InitIInv == Init => IInv
  BY NoneIsNoId DEF Init, IInv, Shape, OneEach, Fresh, Gone, Present, Stages, Queued, InCallback, Noted,
                    NoEarlyReport, Ids

----------------------------------------------------------------------------
(* What a callback reaches. *)

\* An identity that a callback reaches is its own, or tainted.
LEMMA ReachesOwnOrTainted ==
  ASSUME IInv, NEW c \in Ids, callback.id = c, NEW j \in At(addr[c])
  PROVE  j \in Ids /\ Present(j) /\ addr[j] = addr[c] /\ (j = c \/ Tainted(j))
  <1>1. j \in Ids /\ Present(j) /\ addr[j] = addr[c]
    BY DEF At
  <1>2. ASSUME j # c PROVE Tainted(j)
    <2>1. ~Present(c)
      BY <1>1, <1>2 DEF IInv, OneEach
    <2>2. object[c] = "freed"
      BY <2>1 DEF IInv, InCallback, Shape, Present
    <2>3. c \in overtaken \/ Tainted(c)
      BY <2>2 DEF IInv, InCallback
    <2>4. j \notin overtaken
      BY <1>1 DEF IInv, Gone, Present
    <2>5. CASE c \in overtaken
      BY <1>1, <1>2, <2>5 DEF Tainted
    <2>6. CASE Tainted(c)
      BY <1>1, <2>4, <2>6 DEF Tainted
    <2>. QED  BY <2>3, <2>5, <2>6
  <1>. QED  BY <1>1, <1>2

\* An identity stays tainted while no address changes.
LEMMA TaintStays ==
  ASSUME UNCHANGED addr, overtaken \subseteq overtaken'
  PROVE  \A i : Tainted(i) => Tainted(i)'
  BY DEF Tainted

----------------------------------------------------------------------------
(* The application threads. *)

\* A new identity at an address that is free: whoever was there keeps its taint.
LEMMA CreateKeepsOthers ==
  ASSUME IInv, NEW i \in Ids, NEW a \in Addresses, object[i] = "absent", At(a) = {},
         NEW o \in {"created", "live"}, object' = [object EXCEPT ![i] = o],
         addr' = [addr EXCEPT ![i] = a], UNCHANGED <<callback, overtaken>>
  PROVE  /\ \A j \in Ids : j # i => /\ object'[j] = object[j] /\ addr'[j] = addr[j]
                                    /\ (Tainted(j)' <=> Tainted(j)) /\ (Present(j)' <=> Present(j))
         /\ object'[i] = o /\ addr'[i] = a /\ Present(i)'
         /\ i \notin overtaken /\ callback.id # i
         /\ \A k \in Nat : <<i, k>> \notin queue
         /\ OneEach' /\ Gone'
  <1>1. /\ object'[i] = o /\ addr'[i] = a
        /\ \A j \in Ids : j # i => object'[j] = object[j] /\ addr'[j] = addr[j]
    BY DEF IInv, Shape
  <1>2. i \notin overtaken /\ overtaken \subseteq Ids
    BY DEF IInv, Gone
  <1>3. \A j \in Ids : j # i => (Tainted(j)' <=> Tainted(j)) /\ (Present(j)' <=> Present(j))
    BY <1>1, <1>2 DEF Tainted, Present
  <1>4. Present(i)'
    BY <1>1 DEF Present
  <1>5. callback.id # i /\ \A k \in Nat : <<i, k>> \notin queue
    BY DEF IInv, InCallback, Queued
  <1>6. OneEach'
    <2>1. a # None
      BY IdsAssumption
    <2>2. \A j \in Ids : object'[j] = "absent" <=> addr'[j] = None
      BY <1>1, <2>1 DEF IInv, OneEach
    <2>3. \A j \in Ids : Present(j) => addr[j] # a
      BY DEF At
    <2>. QED  BY <1>1, <1>3, <2>2, <2>3 DEF IInv, OneEach
  <1>7. Gone'
    BY <1>1, <1>2 DEF IInv, Gone
  <1>. QED  BY <1>1, <1>2, <1>3, <1>4, <1>5, <1>6, <1>7

\* validate_local_identity.
LEMMA CreateLocalKeepsIInv ==
  ASSUME IInv, NEW i \in Ids, NEW a \in Addresses, CreateLocal(i, a)
  PROVE  IInv'
  <1>1. /\ object[i] = "absent" /\ At(a) = {} /\ i \in LocalIds
        /\ object' = [object EXCEPT ![i] = "created"] /\ addr' = [addr EXCEPT ![i] = a]
        /\ timer' = [timer EXCEPT ![i] = arms[i] + 1] /\ arms' = [arms EXCEPT ![i] = arms[i] + 1]
        /\ queue' = queue \union {<<i, arms[i] + 1>>}
        /\ UNCHANGED <<callback, overtaken, expired, revoked>>
    BY DEF CreateLocal, Arm
  <1>2. /\ \A j \in Ids : j # i => /\ object'[j] = object[j] /\ addr'[j] = addr[j]
                                   /\ (Tainted(j)' <=> Tainted(j)) /\ (Present(j)' <=> Present(j))
        /\ object'[i] = "created" /\ addr'[i] = a /\ Present(i)'
        /\ i \notin overtaken /\ callback.id # i
        /\ \A k \in Nat : <<i, k>> \notin queue
        /\ OneEach' /\ Gone'
    BY <1>1, CreateKeepsOthers
  <1>3. arms[i] + 1 \in Nat /\ arms[i] + 1 # 0
    BY DEF IInv, Shape
  <1>4. timer' \in [Ids -> Nat] /\ timer'[i] = arms[i] + 1 /\ \A j \in Ids : j # i => timer'[j] = timer[j]
    BY <1>1, <1>3 DEF IInv, Shape
  <1>5. Shape'
    <2>1. \A j \in RemoteIds : object'[j] # "created"
      BY <1>1, <1>2, IdsAssumption DEF IInv, Shape, Ids
    <2>2. arms' \in [Ids -> Nat] /\ queue' \subseteq Ids \X Nat
      BY <1>1, <1>3 DEF IInv, Shape
    <2>3. /\ object' \in [Ids -> {"absent", "created", "live", "freed"}]
          /\ addr' \in [Ids -> Addresses \union {None}]
      BY <1>1 DEF IInv, Shape
    <2>. QED  BY <1>1, <1>4, <2>1, <2>2, <2>3 DEF IInv, Shape
  <1>6. Queued'
    BY <1>1, <1>2, <1>3, <1>4 DEF IInv, Queued
  <1>7. InCallback'
    BY <1>1, <1>2, <1>4 DEF IInv, InCallback
  <1>8. Noted'
    <2> SUFFICES ASSUME NEW j \in RemoteIds, Present(j)', ~Tainted(j)', timer'[j] # 0
                 PROVE  <<j, timer'[j]>> \in queue' \/ callback'.id = j
      BY DEF Noted
    <2>1. j \in Ids /\ j # i
      BY <1>1, IdsAssumption DEF Ids
    <2>. QED  BY <1>1, <1>2, <1>4, <2>1 DEF IInv, Noted
  <1>9. NoEarlyReport'
    <2>1. \A j \in Ids : j # i => (Tainted(j) => Tainted(j)')
      BY <1>2
    <2>2. i \in revoked => i \in expired
      <3>1. ~Tainted(i)
        BY <1>1 DEF Tainted, IInv, Gone, OneEach
      <3>. QED  BY <3>1 DEF IInv, NoEarlyReport
    <2>. QED  BY <1>1, <2>1, <2>2 DEF IInv, Shape, NoEarlyReport
  <1>10. Fresh'
    BY <1>2, <1>4 DEF IInv, Fresh
  <1>. QED  BY <1>2, <1>5, <1>6, <1>7, <1>8, <1>9, <1>10 DEF IInv

\* validate_remote_identity.
LEMMA RegisterRemoteKeepsIInv ==
  ASSUME IInv, NEW i \in Ids, NEW a \in Addresses, RegisterRemote(i, a)
  PROVE  IInv'
  <1>1. /\ object[i] = "absent" /\ At(a) = {}
        /\ object' = [object EXCEPT ![i] = "live"] /\ addr' = [addr EXCEPT ![i] = a]
        /\ UNCHANGED <<timer, queue, arms, callback, overtaken, expired, revoked>>
    BY DEF RegisterRemote
  <1>2. /\ \A j \in Ids : j # i => /\ object'[j] = object[j] /\ addr'[j] = addr[j]
                                   /\ (Tainted(j)' <=> Tainted(j)) /\ (Present(j)' <=> Present(j))
        /\ object'[i] = "live" /\ addr'[i] = a /\ Present(i)'
        /\ i \notin overtaken /\ callback.id # i
        /\ \A k \in Nat : <<i, k>> \notin queue
        /\ OneEach' /\ Gone'
    BY <1>1, CreateKeepsOthers
  <1>3. Shape'
    <2>1. \A j \in RemoteIds : object'[j] # "created"
      BY <1>2 DEF IInv, Shape, Ids
    <2>2. /\ object' \in [Ids -> {"absent", "created", "live", "freed"}]
          /\ addr' \in [Ids -> Addresses \union {None}]
      BY <1>1 DEF IInv, Shape
    <2>. QED  BY <1>1, <2>1, <2>2 DEF IInv, Shape
  <1>4. Queued'
    BY <1>1, <1>2 DEF IInv, Queued
  <1>5. InCallback'
    BY <1>1, <1>2 DEF IInv, InCallback
  <1>6. Noted'
    BY <1>1, <1>2 DEF IInv, Fresh, Noted, Ids
  <1>7. NoEarlyReport'
    <2>1. ~Tainted(i)
      BY <1>1 DEF Tainted, IInv, Gone, OneEach
    <2>. QED  BY <1>1, <1>2, <2>1 DEF IInv, Shape, NoEarlyReport
  <1>8. Fresh'
    BY <1>1, <1>2 DEF IInv, Fresh
  <1>. QED  BY <1>2, <1>3, <1>4, <1>5, <1>6, <1>7, <1>8 DEF IInv

\* The new local identity is added to objectHash.
LEMMA RegisterLocalKeepsIInv ==
  ASSUME IInv, NEW i \in Ids, RegisterLocal(i)
  PROVE  IInv'
  <1>1. /\ object[i] = "created" /\ object' = [object EXCEPT ![i] = "live"]
        /\ UNCHANGED <<addr, timer, queue, arms, callback, overtaken, expired, revoked>>
    BY DEF RegisterLocal
  <1>2. object'[i] = "live" /\ \A j \in Ids : j # i => object'[j] = object[j]
    BY <1>1 DEF IInv, Shape
  <1>3. \A j : Tainted(j)' <=> Tainted(j)
    BY <1>1 DEF Tainted
  <1>4. \A j \in Ids : Present(j)' <=> Present(j)
    BY <1>1, <1>2 DEF Present
  <1>5. Shape'
    <2>1. object' \in [Ids -> {"absent", "created", "live", "freed"}]
      BY <1>1 DEF IInv, Shape
    <2>. QED  BY <1>1, <1>2, <2>1 DEF IInv, Shape, Ids
  <1>6. OneEach' /\ Fresh' /\ Gone'
    BY <1>1, <1>2, <1>4 DEF IInv, OneEach, Fresh, Gone
  <1>7. Queued'
    BY <1>1, <1>2, <1>3, <1>4 DEF IInv, Queued
  <1>8. InCallback'
    BY <1>1, <1>2, <1>3, <1>4 DEF IInv, InCallback
  <1>9. Noted' /\ NoEarlyReport'
    BY <1>1, <1>3, <1>4 DEF IInv, Noted, NoEarlyReport, Ids
  <1>. QED  BY <1>5, <1>6, <1>7, <1>8, <1>9 DEF IInv

\* The end of process_handshake: the field is 0, so an untainted identity has no event.
LEMMA CompleteHandshakeKeepsIInv ==
  ASSUME IInv, NEW i \in Ids, CompleteHandshake(i)
  PROVE  IInv'
  <1>1. /\ object[i] = "live" /\ timer[i] = 0
        /\ timer' = [timer EXCEPT ![i] = arms[i] + 1] /\ arms' = [arms EXCEPT ![i] = arms[i] + 1]
        /\ queue' = queue \union {<<i, arms[i] + 1>>}
        /\ UNCHANGED <<object, addr, callback, overtaken, expired, revoked>>
    BY DEF CompleteHandshake, Arm
  <1>2. (\A j : Tainted(j)' <=> Tainted(j)) /\ (\A j : Present(j)' <=> Present(j)) /\ Present(i)
    BY <1>1 DEF Tainted, Present
  <1>3. arms[i] + 1 \in Nat /\ arms[i] + 1 # 0
    BY DEF IInv, Shape
  <1>4. timer' \in [Ids -> Nat] /\ timer'[i] = arms[i] + 1 /\ \A j \in Ids : j # i => timer'[j] = timer[j]
    BY <1>1, <1>3 DEF IInv, Shape
  <1>5. Tainted(i) \/ (callback.id # i /\ \A k \in Nat : <<i, k>> \notin queue)
    BY <1>1, <1>2 DEF IInv, Queued, InCallback
  <1>6. Shape'
    <2>1. arms' \in [Ids -> Nat] /\ queue' \subseteq Ids \X Nat
      BY <1>1, <1>3 DEF IInv, Shape
    <2>. QED  BY <1>1, <1>4, <2>1 DEF IInv, Shape
  <1>7. OneEach' /\ Fresh' /\ Gone'
    BY <1>1, <1>2, <1>4 DEF IInv, OneEach, Fresh, Gone
  <1>8. Queued'
    BY <1>1, <1>2, <1>3, <1>4, <1>5 DEF IInv, Queued
  <1>9. InCallback'
    BY <1>1, <1>2, <1>4, <1>5 DEF IInv, InCallback
  <1>10. Noted'
    BY <1>1, <1>2, <1>4 DEF IInv, Noted, Ids
  <1>11. NoEarlyReport'
    BY <1>1, <1>2 DEF IInv, NoEarlyReport
  <1>. QED  BY <1>6, <1>7, <1>8, <1>9, <1>10, <1>11 DEF IInv

\* return_identity_handle: the event of an untainted identity is the one in its field.
LEMMA ReturnKeepsIInv ==
  ASSUME IInv, NEW i \in Ids, ReturnIdentityHandle(i)
  PROVE  IInv'
  <1>1. /\ object[i] = "live" /\ object' = [object EXCEPT ![i] = "freed"]
        /\ queue' = queue \ {<<i, timer[i]>>}
        /\ overtaken' = IF callback.id = i THEN overtaken \union {i} ELSE overtaken
        /\ UNCHANGED <<addr, timer, arms, callback, expired, revoked>>
    BY DEF ReturnIdentityHandle
  <1>2. object'[i] = "freed" /\ \A j \in Ids : j # i => object'[j] = object[j]
    BY <1>1 DEF IInv, Shape
  <1>3. \A j : Tainted(j) => Tainted(j)'
    BY <1>1, TaintStays
  <1>4. ~Present(i)' /\ Present(i) /\ \A j \in Ids : j # i => (Present(j)' <=> Present(j))
    BY <1>1, <1>2 DEF Present
  <1>5. Shape'
    <2>1. object' \in [Ids -> {"absent", "created", "live", "freed"}]
      BY <1>1 DEF IInv, Shape
    <2>. QED  BY <1>1, <1>2, <2>1 DEF IInv, Shape, Ids
  <1>6. OneEach' /\ Fresh'
    BY <1>1, <1>2, <1>4 DEF IInv, OneEach, Fresh
  <1>7. Gone'
    BY <1>1, <1>2 DEF IInv, Gone
  <1>8. Queued'
    <2> SUFFICES ASSUME NEW j \in Ids, NEW k \in Nat, <<j, k>> \in queue'
                 PROVE  /\ object'[j] # "absent" /\ k # 0
                        /\ Tainted(j)' \/ (Present(j)' /\ timer'[j] = k)
      BY DEF Queued
    <2>1. <<j, k>> \in queue /\ <<j, k>> # <<i, timer[i]>>
      BY <1>1
    <2>2. object[j] # "absent" /\ k # 0 /\ (Tainted(j) \/ (Present(j) /\ timer[j] = k))
      BY <2>1 DEF IInv, Queued
    <2>. QED  BY <1>1, <1>2, <1>3, <1>4, <2>1, <2>2
  <1>9. InCallback'
    <2> SUFFICES ASSUME NEW j \in Ids, callback'.id = j
                 PROVE  /\ j \in expired' /\ object'[j] # "absent"
                        /\ object'[j] = "freed" => j \in overtaken' \/ Tainted(j)'
                        /\ \/ Tainted(j)'
                           \/ /\ \A k \in Nat : <<j, k>> \notin queue'
                              /\ Present(j)' => timer'[j] # 0
      BY DEF InCallback
    <2>1. CASE j = i
      BY <1>1, <1>2, <1>3, <1>4, <2>1 DEF IInv, InCallback
    <2>2. CASE j # i
      BY <1>1, <1>2, <1>3, <1>4, <2>2 DEF IInv, InCallback
    <2>. QED  BY <2>1, <2>2
  <1>10. Noted'
    <2> SUFFICES ASSUME NEW j \in RemoteIds, Present(j)', ~Tainted(j)', timer'[j] # 0
                 PROVE  <<j, timer'[j]>> \in queue' \/ callback'.id = j
      BY DEF Noted
    <2>1. j \in Ids /\ j # i
      BY <1>4 DEF Ids
    <2>2. <<j, timer[j]>> \in queue \/ callback.id = j
      BY <1>1, <1>3, <1>4, <2>1 DEF IInv, Noted
    <2>. QED  BY <1>1, <2>1, <2>2
  <1>11. NoEarlyReport'
    BY <1>1, <1>3 DEF IInv, NoEarlyReport
  <1>. QED  BY <1>5, <1>6, <1>7, <1>8, <1>9, <1>10, <1>11 DEF IInv

----------------------------------------------------------------------------
(* The dispatcher's thread. *)

\* Taking a due event off the queue.
LEMMA FireKeepsIInv ==
  ASSUME IInv, NEW i \in Ids, NEW k \in Nat, Fire(i, k)
  PROVE  IInv'
  <1>1. /\ callback' = [at |-> "entered", id |-> i] /\ queue' = queue \ {<<i, k>>}
        /\ <<i, k>> \in queue /\ i \in expired /\ callback.id = None
        /\ UNCHANGED <<object, addr, timer, arms, overtaken, expired, revoked>>
    BY DEF Fire, IInv, Shape
  <1>2. (\A j : Tainted(j)' <=> Tainted(j)) /\ (\A j : Present(j)' <=> Present(j))
    BY <1>1 DEF Tainted, Present
  <1>3. object[i] # "absent" /\ k # 0 /\ (Tainted(i) \/ (Present(i) /\ timer[i] = k))
    BY <1>1 DEF IInv, Queued
  <1>4. callback'.at = "entered" /\ callback'.id = i
    BY <1>1
  <1>5. Shape'
    <2>1. callback' \in [at : Stages, id : Ids \union {None}]
      BY <1>1 DEF Stages
    <2>. QED  BY <1>1, <1>4, <2>1, NoneIsNoId DEF IInv, Shape
  <1>6. OneEach' /\ Fresh' /\ Gone' /\ NoEarlyReport'
    BY <1>1, <1>2 DEF IInv, OneEach, Fresh, Gone, NoEarlyReport
  <1>7. Queued'
    BY <1>1, <1>2 DEF IInv, Queued
  <1>8. InCallback'
    <2>1. Tainted(i) \/ \A n \in Nat : <<i, n>> \notin queue'
      BY <1>1, <1>3 DEF IInv, Queued
    <2>2. object[i] = "freed" => Tainted(i)
      BY <1>3 DEF Present
    <2>. QED  BY <1>1, <1>2, <1>3, <1>4, <2>1, <2>2 DEF InCallback
  <1>9. Noted'
    <2> SUFFICES ASSUME NEW j \in RemoteIds, Present(j)', ~Tainted(j)', timer'[j] # 0
                 PROVE  <<j, timer'[j]>> \in queue' \/ callback'.id = j
      BY DEF Noted
    <2>1. j \in Ids /\ callback.id # j
      BY <1>1, NoneIsNoId DEF Ids
    <2>2. <<j, timer[j]>> \in queue
      BY <1>1, <1>2, <2>1 DEF IInv, Noted
    <2>. QED  BY <1>1, <1>4, <2>2
  <1>. QED  BY <1>5, <1>6, <1>7, <1>8, <1>9 DEF IInv

\* A step of the callback that touches no identity, and goes on or ends the process.
LEMMA StageKeepsIInv ==
  ASSUME IInv, UNCHANGED <<object, addr, timer, queue, arms, overtaken, expired, revoked>>,
         callback' \in [at : Stages, id : Ids \union {None}], callback'.id = callback.id,
         callback'.at = "idle" <=> callback.at = "idle"
  PROVE  IInv'
  <1>1. (\A j : Tainted(j)' <=> Tainted(j)) /\ (\A j : Present(j)' <=> Present(j))
    BY DEF Tainted, Present
  <1>2. Shape'
    BY DEF IInv, Shape
  <1>3. OneEach' /\ Fresh' /\ Gone' /\ NoEarlyReport'
    BY <1>1 DEF IInv, OneEach, Fresh, Gone, NoEarlyReport
  <1>4. Queued'
    BY <1>1 DEF IInv, Queued
  <1>5. InCallback'
    BY <1>1 DEF IInv, InCallback
  <1>6. Noted'
    BY <1>1 DEF IInv, Noted
  <1>. QED  BY <1>2, <1>3, <1>4, <1>5, <1>6 DEF IInv

\* The callback ends: the fields of the identities it reached, if any, are 0.
LEMMA EndKeepsIInv ==
  ASSUME IInv, NEW c \in Ids, callback.id = c, NEW S \in SUBSET Ids,
         \A j \in S : j = c \/ Tainted(j),
         Present(c) => c \in S,
         timer' = [j \in Ids |-> IF j \in S THEN 0 ELSE timer[j]],
         callback' = [at |-> "idle", id |-> None],
         UNCHANGED <<object, addr, queue, arms, overtaken, expired, revoked>>
  PROVE  IInv'
  <1>1. (\A j : Tainted(j)' <=> Tainted(j)) /\ (\A j : Present(j)' <=> Present(j))
    BY DEF Tainted, Present
  <1>2. \A j \in Ids : timer'[j] = IF j \in S THEN 0 ELSE timer[j]
    OBVIOUS
  <1>3. callback'.id = None /\ callback'.at = "idle"
    OBVIOUS
  <1>4. Shape'
    <2>1. timer' \in [Ids -> Nat]
      BY DEF IInv, Shape
    <2>2. callback' \in [at : Stages, id : Ids \union {None}]
      BY DEF Stages
    <2>. QED  BY <1>3, <2>1, <2>2 DEF IInv, Shape
  <1>5. OneEach' /\ Gone' /\ NoEarlyReport'
    BY <1>1 DEF IInv, OneEach, Gone, NoEarlyReport
  <1>6. Fresh'
    BY <1>2 DEF IInv, Fresh
  <1>7. Queued'
    <2> SUFFICES ASSUME NEW j \in Ids, NEW k \in Nat, <<j, k>> \in queue'
                 PROVE  /\ object'[j] # "absent" /\ k # 0
                        /\ Tainted(j)' \/ (Present(j)' /\ timer'[j] = k)
      BY DEF Queued
    <2>1. object[j] # "absent" /\ k # 0 /\ (Tainted(j) \/ (Present(j) /\ timer[j] = k))
      BY DEF IInv, Queued
    <2>2. Tainted(j) \/ j \notin S
      BY DEF IInv, InCallback
    <2>. QED  BY <1>1, <1>2, <2>1, <2>2
  <1>8. InCallback'
    BY <1>3, NoneIsNoId DEF InCallback
  <1>9. Noted'
    <2> SUFFICES ASSUME NEW j \in RemoteIds, Present(j)', ~Tainted(j)', timer'[j] # 0
                 PROVE  <<j, timer'[j]>> \in queue'
      BY DEF Noted
    <2>1. j \in Ids /\ j \notin S /\ Present(j) /\ timer'[j] = timer[j]
      BY <1>1, <1>2 DEF Ids
    <2>2. j # c
      BY <2>1
    <2>. QED  BY <1>1, <2>1, <2>2 DEF IInv, Noted
  <1>. QED  BY <1>4, <1>5, <1>6, <1>7, <1>8, <1>9 DEF IInv

\* The callback finds nothing: its identity is gone, or a local one not yet registered.
LEMMA MissKeepsIInv ==
  ASSUME IInv, callback.id \in Ids,
         Present(callback.id) => callback.id \in Addressed,
         ~\E j \in Addressed : object[j] = "live",
         callback' = [at |-> "idle", id |-> None],
         UNCHANGED <<object, addr, timer, queue, arms, overtaken, expired, revoked>>
  PROVE  IInv'
  <1>1. (\A j : Tainted(j)' <=> Tainted(j)) /\ (\A j : Present(j)' <=> Present(j))
    BY DEF Tainted, Present
  <1>2. callback'.id = None /\ callback'.at = "idle"
    OBVIOUS
  <1>3. Shape'
    <2>1. callback' \in [at : Stages, id : Ids \union {None}]
      BY DEF Stages
    <2>. QED  BY <1>2, <2>1 DEF IInv, Shape
  <1>4. OneEach' /\ Fresh' /\ Gone' /\ NoEarlyReport'
    BY <1>1 DEF IInv, OneEach, Fresh, Gone, NoEarlyReport
  <1>5. Queued'
    BY <1>1 DEF IInv, Queued
  <1>6. InCallback'
    BY <1>2, NoneIsNoId DEF InCallback
  <1>7. Noted'
    <2>1. callback.id \in RemoteIds => ~Present(callback.id)
      BY DEF IInv, Shape, Present
    <2>. QED  BY <1>1, <2>1 DEF IInv, Noted
  <1>. QED  BY <1>3, <1>4, <1>5, <1>6, <1>7 DEF IInv

\* The steps of validity_callback.
LEMMA CallbackKeepsIInv ==
  ASSUME IInv, Callback
  PROVE  IInv'
  <1> DEFINE c == callback.id
  <1>0. c \in Ids /\ callback.at # "idle" /\ callback \in [at : Stages, id : Ids \union {None}]
    BY DEF Callback, CheckListener, LookUp, Notify, ClearTimer, IInv, Shape
  <1>1. \A j \in Addressed : j \in Ids /\ Present(j) /\ addr[j] = addr[c] /\ (j = c \/ Tainted(j))
    BY <1>0, ReachesOwnOrTainted DEF Addressed
  <1>2. Present(c) => c \in Addressed
    BY <1>0 DEF Addressed, At
  <1>3. CASE CheckListener
    <2>1. UNCHANGED <<object, addr, timer, queue, arms, overtaken, expired, revoked>>
      BY <1>3 DEF CheckListener, identities
    <2>2. callback' = callback \/ callback' = [callback EXCEPT !.at = "checked"]
      BY <1>3 DEF CheckListener
    <2>3. /\ callback' \in [at : Stages, id : Ids \union {None}] /\ callback'.id = callback.id
          /\ callback'.at # "idle"
      BY <1>0, <2>2 DEF Stages
    <2>. QED  BY <1>0, <2>1, <2>3, StageKeepsIInv
  <1>4. CASE LookUp
    <2>1. UNCHANGED <<object, addr, timer, queue, arms, overtaken, expired, revoked>>
      BY <1>4 DEF LookUp, identities
    <2>2. CASE \E j \in Addressed : object[j] = "live"
      <3>1. callback' = [callback EXCEPT !.at = "found"]
        BY <1>4, <2>2 DEF LookUp
      <3>2. /\ callback' \in [at : Stages, id : Ids \union {None}] /\ callback'.id = callback.id
            /\ callback'.at # "idle"
        BY <1>0, <3>1 DEF Stages
      <3>. QED  BY <1>0, <2>1, <3>2, StageKeepsIInv
    <2>3. CASE ~\E j \in Addressed : object[j] = "live"
      <3>1. callback' = [at |-> "idle", id |-> None]
        BY <1>4, <2>3 DEF LookUp
      <3>. QED  BY <1>0, <1>2, <2>1, <2>3, <3>1, MissKeepsIInv
    <2>. QED  BY <2>2, <2>3
  <1>5. CASE Notify
    <2>1. UNCHANGED <<object, addr, timer, queue, arms, overtaken, expired>>
      BY <1>5 DEF Notify, identities
    <2>2. \/ callback' = callback /\ revoked' = revoked
          \/ callback' = [callback EXCEPT !.at = "notified"] /\ revoked' = revoked \union Addressed
      BY <1>5 DEF Notify
    <2>3. /\ callback' \in [at : Stages, id : Ids \union {None}] /\ callback'.id = callback.id
          /\ callback'.at # "idle"
      BY <1>0, <2>2 DEF Stages
    <2>4. c \in expired
      BY <1>0 DEF IInv, InCallback
    <2>5. (\A j : Tainted(j)' <=> Tainted(j)) /\ (\A j : Present(j)' <=> Present(j))
      BY <2>1 DEF Tainted, Present
    <2>6. NoEarlyReport' /\ revoked' \subseteq Ids
      BY <1>1, <2>1, <2>2, <2>4, <2>5 DEF IInv, Shape, NoEarlyReport
    <2>7. Shape'
      BY <1>0, <2>1, <2>3, <2>6 DEF IInv, Shape
    <2>8. OneEach' /\ Fresh' /\ Gone'
      BY <2>1, <2>5 DEF IInv, OneEach, Fresh, Gone
    <2>9. Queued'
      BY <2>1, <2>5 DEF IInv, Queued
    <2>10. InCallback'
      BY <2>1, <2>3, <2>5 DEF IInv, InCallback
    <2>11. Noted'
      BY <2>1, <2>3, <2>5 DEF IInv, Noted
    <2>. QED  BY <2>6, <2>7, <2>8, <2>9, <2>10, <2>11 DEF IInv
  <1>6. CASE ClearTimer
    <2>1. /\ timer' = [j \in Ids |-> IF j \in Addressed THEN 0 ELSE timer[j]]
          /\ callback' = [at |-> "idle", id |-> None]
          /\ UNCHANGED <<object, addr, queue, arms, overtaken, expired, revoked>>
      BY <1>6 DEF ClearTimer
    <2>2. Addressed \in SUBSET Ids
      BY DEF Addressed, At
    <2>3. \A j \in Addressed : j = c \/ Tainted(j)
      BY <1>1
    <2> HIDE DEF c
    <2>4. callback.id = c
      BY DEF c
    <2>. QED  BY <1>0, <1>2, <2>1, <2>2, <2>3, <2>4, EndKeepsIInv
  <1>. QED  BY <1>3, <1>4, <1>5, <1>6 DEF Callback

\* Every step of every thread keeps the inductive invariant.
LEMMA NextKeepsIInv == IInv /\ [Next]_vars => IInv'
  <1> SUFFICES ASSUME IInv, [Next]_vars PROVE IInv'
    OBVIOUS
  <1>1. ASSUME UNCHANGED <<object, addr, timer, queue, arms, overtaken, callback, revoked>>,
               expired \subseteq expired'
        PROVE  IInv'
    <2>1. (\A j : Tainted(j)' <=> Tainted(j)) /\ (\A j : Present(j)' <=> Present(j))
      BY <1>1 DEF Tainted, Present
    <2>2. Shape' /\ OneEach' /\ Fresh' /\ Gone'
      BY <1>1, <2>1 DEF IInv, Shape, OneEach, Fresh, Gone
    <2>3. Queued'
      BY <1>1, <2>1 DEF IInv, Queued
    <2>4. InCallback'
      BY <1>1, <2>1 DEF IInv, InCallback
    <2>5. Noted' /\ NoEarlyReport'
      BY <1>1, <2>1 DEF IInv, Noted, NoEarlyReport
    <2>. QED  BY <2>2, <2>3, <2>4, <2>5 DEF IInv
  <1>2. CASE UNCHANGED vars
    BY <1>1, <1>2 DEF vars
  <1>3. ASSUME NEW i \in Ids, CertificateExpires(i) PROVE IInv'
    BY <1>1, <1>3 DEF CertificateExpires, identities
  <1>4. ASSUME NEW present \in BOOLEAN, StoreListener(present) PROVE IInv'
    BY <1>1, <1>4 DEF StoreListener, identities
  <1>5. CASE SwitchDispatcher
    BY <1>1, <1>5 DEF SwitchDispatcher, identities
  <1>6. ASSUME NEW i \in Ids, NEW k \in 1 .. MaxArms, Fire(i, k) PROVE IInv'
    BY <1>6, FireKeepsIInv, BoundsAssumption
  <1>. QED
    BY <1>2, <1>3, <1>4, <1>5, <1>6, CreateLocalKeepsIInv, RegisterRemoteKeepsIInv,
       RegisterLocalKeepsIInv, CompleteHandshakeKeepsIInv, ReturnKeepsIInv, CallbackKeepsIInv DEF Next

\* The inductive invariant holds in every reachable state.
THEOREM IInvHolds == Spec => []IInv
  BY InitIInv, NextKeepsIInv, PTL DEF Spec

\* No event of the dispatcher is left behind for an identity that return_identity_handle
\* has freed, however addresses are reused and the callback's unlocked update of the timer
\* field interleaves, unless an identity was returned under its own callback before.
THEOREM NoTimerIsOrphaned == Spec => []NoOrphanTimer
  <1>1. IInv => NoOrphanTimer
    BY BoundsAssumption DEF IInv, Queued, NoOrphanTimer
  <1>. QED  BY <1>1, IInvHolds, PTL

\* The timer field by which process_handshake and return_identity_handle decide is right,
\* with the same exception.
THEOREM TimerFieldStaysTrue == Spec => []TimerFieldIsTrue
  <1>1. IInv => TimerFieldIsTrue
    BY BoundsAssumption DEF IInv, Queued, Noted, Present, TimerFieldIsTrue, Ids
  <1>. QED  BY <1>1, IInvHolds, PTL

\* on_revoke_identity is not called for an identity before its certificate has ended,
\* although the callback only knows its address, with the same exception.
THEOREM ReportsAreNotEarly == Spec => []NoEarlyReport
  <1>1. IInv => NoEarlyReport
    BY DEF IInv
  <1>. QED  BY <1>1, IInvHolds, PTL

----------------------------------------------------------------------------
(* The listener. *)

\* Without a listener the dispatcher is disabled and nothing runs in it, unless the
\* thread in set_listener has yet to disable it.
Guarded ==
  /\ listener \in BOOLEAN
  /\ setter \in {"idle", "enable", "disable"}
  /\ listener \/ setter = "disable" \/ (~enabled /\ callback.at = "idle")
  /\ setter = "enable" => listener

\* What holds of the listener, also in the last state of the process.
ListenerInv == Guarded /\ ListenerMissedOnlyInRemoval

\* Every step of every thread keeps the listener in place for the callback.
LEMMA NextKeepsListenerInv == ListenerInv /\ [Next]_vars => ListenerInv'
<1> SUFFICES ASSUME ListenerInv, [Next]_vars PROVE ListenerInv'
  OBVIOUS
<1> USE DEF ListenerInv, Guarded, ListenerMissedOnlyInRemoval
<1>1. CASE UNCHANGED vars
  BY <1>1 DEF vars
<1>2. ASSUME NEW i \in Ids,
             \/ \E a \in Addresses : CreateLocal(i, a) \/ RegisterRemote(i, a)
             \/ RegisterLocal(i) \/ CompleteHandshake(i) \/ ReturnIdentityHandle(i)
             \/ CertificateExpires(i)
      PROVE  ListenerInv'
  <2>1. UNCHANGED <<listener, enabled, setter, callback, failure>>
    BY <1>2 DEF CreateLocal, RegisterLocal, RegisterRemote, CompleteHandshake,
                ReturnIdentityHandle, CertificateExpires, listening
  <2> QED BY <2>1
<1>3. ASSUME NEW i \in Ids, NEW k \in 1 .. MaxArms, Fire(i, k) PROVE ListenerInv'
  BY <1>3 DEF Fire, listening
<1>4. ASSUME NEW present \in BOOLEAN, StoreListener(present) PROVE ListenerInv'
  BY <1>4 DEF StoreListener, Running
<1>5. CASE SwitchDispatcher
  BY <1>5 DEF SwitchDispatcher, Running
<1>6. CASE CheckListener
  BY <1>6 DEF CheckListener, Running, listening
<1>7. CASE LookUp
  BY <1>7 DEF LookUp, listening
<1>8. CASE Notify
  BY <1>8 DEF Notify, Running, listening
<1>9. CASE ClearTimer
  BY <1>9 DEF ClearTimer, listening
<1> QED
  BY <1>1, <1>2, <1>3, <1>4, <1>5, <1>6, <1>7, <1>8, <1>9 DEF Next, Callback

\* validity_callback misses its listener only while set_listener(NULL) is between its
\* two steps, whatever the other threads do.
THEOREM ListenerIsMissedOnlyInRemoval == Spec => []ListenerMissedOnlyInRemoval
<1>1. Init => ListenerInv
  <2> SUFFICES ASSUME Init PROVE ListenerInv
    OBVIOUS
  <2>1. /\ listener = FALSE /\ enabled = FALSE
        /\ setter = "idle" /\ callback = [at |-> "idle", id |-> None] /\ failure = "none"
    BY DEF Init
  <2>2. callback.at = "idle" /\ setter # "enable"
    BY <2>1
  <2> QED BY <2>1, <2>2, Zenon DEF ListenerInv, Guarded, ListenerMissedOnlyInRemoval
<1>2. ListenerInv => ListenerMissedOnlyInRemoval
  BY DEF ListenerInv
<1> QED BY <1>1, <1>2, NextKeepsListenerInv, PTL DEF Spec
=============================================================================
