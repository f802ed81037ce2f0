------------------------- MODULE CycloneDomainProofs -------------------------
(***************************************************************************)
(* What holds of the plugin instances of a process for any number of       *)
(* domains, participants, providers, directories and certificates.         *)
(*                                                                         *)
(* Four strengthenings are needed.  A call of validate_local_identity holds *)
(* exactly what its earlier steps obtained (CallsHold), from which every   *)
(* label is shown to free what a call that jumps to it holds, except the   *)
(* CAs of a directory that is too large, which no label knows.  Each       *)
(* activation of a provider is held by one running instance, which has its *)
(* KEM from it (ProvidersAreHeld): an instance that goes takes only its    *)
(* own activation along.  A participant replaces the list only with a      *)
(* directory it could read (InsideOK), and a load that has passed its      *)
(* first test with a CRL meets a list only if that was filled since        *)
(* (LoadsOK).                                                              *)
(***************************************************************************)
EXTENDS CycloneDomain, FiniteSetTheorems, TLAPS

(* What a call holds at its nth step: all that the steps before it obtained. *)

\* The step that obtains r.
ObtainedAt(r) ==
  CASE r = "certPEM" -> 1 [] r = "caPEM" -> 2 [] r = "keyPEM" -> 3
    [] r \in {"password", "dir"} -> 4 [] r \in {"crlPEM", "ca"} -> 5
    [] r = "cert" -> 7 [] r = "key" -> 8 [] r = "crl" -> 10

HeldBefore(p, n) == {r \in Resources : Optional(p, r) /\ ObtainedAt(r) < n}

\* A call in progress belongs to a running instance and holds what it obtained.
CallsHold ==
  \A p \in Participants : call[p].at # Returned =>
    /\ DomainOf[p] \in running
    /\ ~local[p]
    /\ ~call[p].wild
    /\ call[p].holds = HeldBefore(p, call[p].at)

\* The instances that hold provider p.
Holders(p) == {d \in Domains : provider[d] = p}

\* Every activation is held by one instance, which runs and has its KEM from it.
ProvidersAreHeld ==
  /\ \A p \in Providers : activations[p] = Cardinality(Holders(p))
  /\ \A d \in Domains : provider[d] # None => d \in running /\ Kem \in Exposes[provider[d]]

\* The list of trusted CAs, who is about to access it again, and the loads under way.
ListsOK ==
  /\ trusted \in [Domains -> SUBSET UNION {Contents[dir] :
                     dir \in {r \in DOMAIN Contents : Contents[r] # None}}]
  /\ \A d \in Domains : Cardinality(trusted[d]) <= MaxTrusted
  /\ inside \subseteq Participants
  /\ loading \in [Domains -> {NoLoad} \union [by : Participants, cert : Certificates, filled : BOOLEAN]]

\* Between two accesses to the list a participant replaces it, with a directory it has
\* read, or looks for its own CA.
InsideOK ==
  \A p \in inside :
    \/ AtStep(p, "trusted_ca") /\ DirOf[p] # None /\ Readable(DirOf[p])
    \/ AtStep(p, "trust")

\* A load belongs to a participant of the instance; with a CRL there was no list at its
\* first test.
LoadsOK ==
  \A d \in Domains : loading[d] # NoLoad =>
    /\ DomainOf[loading[d].by] = d
    /\ loading[d].by \in HasCrl /\ trusted[d] # {} => loading[d].filled

DomainInv == TypeOK /\ CallsHold /\ OnlyCaBufferLeaks /\ ProvidersAreHeld

----------------------------------------------------------------------------
(* The steps of validate_local_identity and its labels. *)

\* The thirteen steps and the positions behind them.
LEMMA StepTable ==
  /\ DOMAIN Steps = 1 .. 13 /\ Registering = 14 /\ Returned = 15
  /\ Steps[1] = "identity_cert" /\ Steps[2] = "identity_ca" /\ Steps[3] = "private_key"
  /\ Steps[4] = "trusted_ca" /\ Steps[5] = "load_ca" /\ Steps[6] = "trust"
  /\ Steps[7] = "load_cert" /\ Steps[8] = "load_key" /\ Steps[9] = "match"
  /\ Steps[10] = "load_crl" /\ Steps[11] = "verify" /\ Steps[12] = "expiry" /\ Steps[13] = "guid"
  <1>1. Len(Steps) = 13
    BY DEF Steps
  <1>2. DOMAIN Steps = 1 .. 13
    BY DEF Steps
  <1>3. Registering = 14 /\ Returned = 15
    BY <1>1 DEF Registering, Returned
  <1>. QED  BY <1>2, <1>3 DEF Steps

\* Where each label stands, and what it frees.
FreedAt(r) ==
  CASE r = "crl" -> 2 [] r = "key" -> 3 [] r = "cert" -> 4 [] r = "ca" -> 5 [] r = "crlPEM" -> 6
    [] r \in {"password", "keyPEM", "dir"} -> 7 [] r = "caPEM" -> 8 [] r = "certPEM" -> 9

Rank(label) ==
  CASE label = "err_adj_guid_failed" -> 1 [] label = "err_verification_failed" -> 2
    [] label = "err_inv_crl" -> 3 [] label = "err_inv_private_key" -> 4
    [] label = "err_identity_ca_not_trusted" -> 5 [] label = "err_inv_identity_ca" -> 6
    [] label = "err_inv_trusted_ca_dir" -> 7 [] label = "err_no_private_key" -> 8
    [] label = "err_no_identity_ca" -> 9 [] label = "err_no_identity_cert" -> 10

\* The label that the nth step jumps to.
JumpsTo(n) ==
  CASE n = 1 -> 10 [] n = 2 -> 9 [] n = 3 -> 8 [] n = 4 -> 7 [] n = 5 -> 6 [] n \in {6, 7} -> 5
    [] n = 8 -> 4 [] n \in {9, 10} -> 3 [] n \in {11, 12} -> 2 [] n = 13 -> 1

\* The ten labels: no two are alike, and each frees what stands at its place.
LEMMA LabelTable ==
  /\ DOMAIN Labels = 1 .. 10
  /\ \A i \in 1 .. 10 : Rank(Labels[i]) = i
  /\ \A i \in 1 .. 10 : Frees(Labels[i]) = {r \in Resources : FreedAt(r) = i}
  <1>0. DOMAIN Labels = 1 .. 10
    BY DEF Labels
  <1>1. /\ Labels[1] = "err_adj_guid_failed" /\ Labels[2] = "err_verification_failed"
        /\ Labels[3] = "err_inv_crl" /\ Labels[4] = "err_inv_private_key"
        /\ Labels[5] = "err_identity_ca_not_trusted" /\ Labels[6] = "err_inv_identity_ca"
        /\ Labels[7] = "err_inv_trusted_ca_dir" /\ Labels[8] = "err_no_private_key"
        /\ Labels[9] = "err_no_identity_ca" /\ Labels[10] = "err_no_identity_cert"
    BY DEF Labels
  <1>2. ASSUME NEW i \in 1 .. 10 PROVE Rank(Labels[i]) = i
    <2>1. i \in {1, 2, 3, 4, 5, 6, 7, 8, 9, 10}
      OBVIOUS
    <2>. QED  BY <1>1, <2>1 DEF Rank
  <1>3. ASSUME NEW i \in 1 .. 10 PROVE Frees(Labels[i]) = {r \in Resources : FreedAt(r) = i}
    <2>1. i \in {1, 2, 3, 4, 5, 6, 7, 8, 9, 10}
      OBVIOUS
    <2>2. \A r \in Resources : FreedAt(r) \in 2 .. 9
      BY DEF FreedAt, Resources
    <2>3. CASE i \in {1, 10}
      BY <1>1, <2>2, <2>3 DEF Frees
    <2>4. CASE i = 2
      BY <1>1, <2>4 DEF Frees, FreedAt, Resources
    <2>5. CASE i = 3
      BY <1>1, <2>5 DEF Frees, FreedAt, Resources
    <2>6. CASE i = 4
      BY <1>1, <2>6 DEF Frees, FreedAt, Resources
    <2>7. CASE i = 5
      BY <1>1, <2>7 DEF Frees, FreedAt, Resources
    <2>8. CASE i = 6
      BY <1>1, <2>8 DEF Frees, FreedAt, Resources
    <2>9. CASE i = 7
      BY <1>1, <2>9 DEF Frees, FreedAt, Resources
    <2>10. CASE i = 8
      BY <1>1, <2>10 DEF Frees, FreedAt, Resources
    <2>11. CASE i = 9
      BY <1>1, <2>11 DEF Frees, FreedAt, Resources
    <2>. QED  BY <2>1, <2>3, <2>4, <2>5, <2>6, <2>7, <2>8, <2>9, <2>10, <2>11
  <1>. QED  BY <1>0, <1>2, <1>3

\* Control falls from a label to the end of the function.
LEMMA FallsThrough ==
  ASSUME NEW i \in 1 .. 10
  PROVE  FreedFrom(Labels[i]) = {r \in Resources : FreedAt(r) >= i}
  <1>1. ASSUME NEW j \in 1 .. 10
        PROVE  (\E k \in 1 .. j : Labels[k] = Labels[i]) <=> i <= j
    <2>1. ASSUME NEW k \in 1 .. j, Labels[k] = Labels[i] PROVE i <= j
      <3>1. k \in 1 .. 10
        OBVIOUS
      <3>2. k = i
        BY <2>1, <3>1, LabelTable
      <3>. QED  BY <3>2
    <2>2. i <= j => i \in 1 .. j
      OBVIOUS
    <2>. QED  BY <2>1, <2>2
  <1>2. FreedFrom(Labels[i]) = UNION {Frees(Labels[j]) : j \in {k \in 1 .. 10 : i <= k}}
    <2>1. {j \in DOMAIN Labels : \E k \in 1 .. j : Labels[k] = Labels[i]} = {k \in 1 .. 10 : i <= k}
      BY <1>1, LabelTable
    <2>. QED  BY <2>1 DEF FreedFrom
  <1>3. ASSUME NEW r
        PROVE  r \in FreedFrom(Labels[i]) <=> r \in Resources /\ FreedAt(r) >= i
    <2>1. r \in FreedFrom(Labels[i]) <=> \E j \in 1 .. 10 : i <= j /\ r \in Resources /\ FreedAt(r) = j
      BY <1>2, LabelTable
    <2>2. r \in Resources => FreedAt(r) \in 1 .. 10
      BY DEF FreedAt, Resources
    <2>. QED  BY <2>1, <2>2
  <1>. QED  BY <1>3

\* What the nth step frees when it fails.
LEMMA JumpTable ==
  ASSUME NEW n \in 1 .. 13
  PROVE  /\ JumpsTo(n) \in 1 .. 10
         /\ LabelOf(Steps[n]) = Labels[JumpsTo(n)]
  <1>1. n \in {1, 2, 3, 4, 5, 6, 7, 8, 9, 10, 11, 12, 13}
    OBVIOUS
  <1>2. JumpsTo(n) \in 1 .. 10
    BY <1>1 DEF JumpsTo
  <1>3. /\ Labels[1] = "err_adj_guid_failed" /\ Labels[2] = "err_verification_failed"
        /\ Labels[3] = "err_inv_crl" /\ Labels[4] = "err_inv_private_key"
        /\ Labels[5] = "err_identity_ca_not_trusted" /\ Labels[6] = "err_inv_identity_ca"
        /\ Labels[7] = "err_inv_trusted_ca_dir" /\ Labels[8] = "err_no_private_key"
        /\ Labels[9] = "err_no_identity_ca" /\ Labels[10] = "err_no_identity_cert"
    BY DEF Labels
  <1>4. LabelOf(Steps[n]) = Labels[JumpsTo(n)]
    <2>1. CASE n \in {1, 2, 3, 4}
      BY <1>3, <2>1, StepTable DEF LabelOf, JumpsTo
    <2>2. CASE n \in {5, 6, 7, 8}
      BY <1>3, <2>2, StepTable DEF LabelOf, JumpsTo
    <2>3. CASE n \in {9, 10, 11}
      BY <1>3, <2>3, StepTable DEF LabelOf, JumpsTo
    <2>4. CASE n \in {12, 13}
      BY <1>3, <2>4, StepTable DEF LabelOf, JumpsTo
    <2>. QED  BY <1>1, <2>1, <2>2, <2>3, <2>4
  <1>. QED  BY <1>2, <1>4

\* The step that r is obtained at, for each r.
LEMMA ResourceTable ==
  ASSUME NEW r \in Resources
  PROVE  ObtainedAt(r) \in 1 .. 10 /\ FreedAt(r) \in 2 .. 9
  BY DEF ObtainedAt, FreedAt, Resources

\* The properties read before the nth step.
LEMMA ReadTable ==
  ASSUME NEW p \in Participants, NEW n \in 1 .. 13
  PROVE  ReadBefore(p, Steps[n]) =
           {r \in {"password", "dir", "crlPEM"} : Optional(p, r) /\ ObtainedAt(r) = n}
  <1>1. n \in {1, 2, 3, 4, 5, 6, 7, 8, 9, 10, 11, 12, 13}
    OBVIOUS
  <1>. QED  BY <1>1, StepTable DEF ReadBefore, ObtainedAt

\* The nth step adds what is obtained at n.
LEMMA PassTable ==
  ASSUME NEW p \in Participants, NEW n \in 1 .. 13
  PROVE  HeldBefore(p, n) \union ReadBefore(p, Steps[n]) \union Obtains(p, Steps[n])
           = HeldBefore(p, n + 1)
  <1>1. n \in {1, 2, 3, 4, 5, 6, 7, 8, 9, 10, 11, 12, 13}
    OBVIOUS
  <1>2. Obtains(p, Steps[n]) =
          {r \in {"certPEM", "caPEM", "keyPEM", "ca", "cert", "key", "crl"} :
             Optional(p, r) /\ ObtainedAt(r) = n}
    BY <1>1, StepTable DEF Obtains, ObtainedAt
  <1>3. ASSUME NEW r \in Resources PROVE ObtainedAt(r) < n + 1 <=> ObtainedAt(r) < n \/ ObtainedAt(r) = n
    BY ResourceTable
  <1>4. Resources = {"password", "dir", "crlPEM"} \union
                    {"certPEM", "caPEM", "keyPEM", "ca", "cert", "key", "crl"}
    BY DEF Resources
  <1>. QED  BY <1>2, <1>3, <1>4, ReadTable DEF HeldBefore

\* Whichever step fails, its label frees all that is held and nothing else.
LEMMA FailTable ==
  ASSUME NEW p \in Participants, NEW n \in 1 .. 13
  PROVE  LET held  == HeldBefore(p, n) \union ReadBefore(p, Steps[n])
             freed == FreedFrom(LabelOf(Steps[n]))
         IN  held \ freed = {} /\ freed \subseteq held \union Nullable /\ freed \subseteq Resources
  <1> DEFINE held == HeldBefore(p, n) \union ReadBefore(p, Steps[n])
             freed == FreedFrom(LabelOf(Steps[n]))
  <1>0. n \in {1, 2, 3, 4, 5, 6, 7, 8, 9, 10, 11, 12, 13}
    OBVIOUS
  <1>1. freed = {r \in Resources : FreedAt(r) >= JumpsTo(n)}
    BY JumpTable, FallsThrough
  <1>2. held \subseteq {r \in Resources :
           ObtainedAt(r) < n \/ (ObtainedAt(r) = n /\ r \in {"password", "dir", "crlPEM"})}
    BY ReadTable DEF HeldBefore, Resources
  <1> HIDE DEF held, freed
  <1>3. ASSUME NEW r \in Resources,
               ObtainedAt(r) < n \/ (ObtainedAt(r) = n /\ r \in {"password", "dir", "crlPEM"})
        PROVE  FreedAt(r) >= JumpsTo(n)
    BY <1>0, <1>3 DEF FreedAt, ObtainedAt, JumpsTo, Resources
  <1>4. ASSUME NEW r \in Resources \ Nullable, FreedAt(r) >= JumpsTo(n)
        PROVE  ObtainedAt(r) < n /\ Optional(p, r)
    BY <1>0, <1>4 DEF FreedAt, ObtainedAt, JumpsTo, Resources, Nullable, Optional
  <1>5. \A r \in Resources \ Nullable : ObtainedAt(r) < n /\ Optional(p, r) => r \in held
    BY DEF held, HeldBefore
  <1>. QED  BY <1>1, <1>2, <1>3, <1>4, <1>5 DEF held, freed

----------------------------------------------------------------------------
(* Calls of validate_local_identity. *)

CallType == [at : 1 .. Returned, holds : SUBSET (Resources \union {"ca_buf"}), wild : BOOLEAN]

\* What the identity of p owns.
Owned(p) == {r \in {"ca", "cert", "key", "crl"} : Optional(p, r)}

\* What CallsHold and OnlyCaBufferLeaks say of one call.
CallOK(p, c, l) ==
  /\ c.at # Returned =>
       DomainOf[p] \in running /\ ~l /\ ~c.wild /\ c.holds = HeldBefore(p, c.at)
  /\ c.at = Returned =>
       ~c.wild /\ IF l THEN c.holds = Owned(p) ELSE c.holds \subseteq Unlisted(p, "trusted_ca")

\* A participant whose call is at rest or as it should be keeps the calls in order.
LEMMA CallReplaced ==
  ASSUME DomainInv, NEW p \in Participants, NEW c \in CallType, NEW l \in BOOLEAN,
         call' = [call EXCEPT ![p] = c], local' = [local EXCEPT ![p] = l],
         UNCHANGED <<activations, running, provider, accepted>>,
         ListsOK',
         CallOK(p, c, l)
  PROVE  DomainInv'
  <1>1. call' \in [Participants -> CallType] /\ local' \in [Participants -> BOOLEAN]
    BY DEF DomainInv, TypeOK, CallType
  <1>2. TypeOK'
    BY <1>1 DEF DomainInv, TypeOK, ListsOK, CallType
  <1>3. /\ call'[p] = c /\ local'[p] = l
        /\ \A q \in Participants \ {p} : call'[q] = call[q] /\ local'[q] = local[q]
    BY DEF DomainInv, TypeOK
  <1>4. CallsHold'
    BY <1>3 DEF DomainInv, CallsHold, CallOK
  <1>5. OnlyCaBufferLeaks'
    <2> SUFFICES ASSUME NEW q \in Participants, call'[q].at = Returned
                 PROVE  /\ ~call'[q].wild
                        /\ IF local'[q] THEN call'[q].holds = Owned(q)
                           ELSE call'[q].holds \subseteq Unlisted(q, "trusted_ca")
      BY DEF OnlyCaBufferLeaks, Owned
    <2>1. CASE q = p
      BY <1>3, <2>1 DEF CallOK
    <2>2. CASE q # p
      BY <1>3, <2>2 DEF DomainInv, OnlyCaBufferLeaks, Owned
    <2>. QED  BY <2>1, <2>2
  <1>6. ProvidersAreHeld'
    BY DEF DomainInv, ProvidersAreHeld, Holders
  <1>. QED  BY <1>2, <1>4, <1>5, <1>6 DEF DomainInv

\* The list of trusted CAs as it was.
LEMMA ListsKept ==
  ASSUME DomainInv, UNCHANGED <<trusted, loading>>, inside' \subseteq Participants
  PROVE  ListsOK'
  BY DEF DomainInv, TypeOK, ListsOK

\* A step that passes.
LEMMA AdvanceKeeps ==
  ASSUME DomainInv, NEW p \in Participants, NEW step, AtStep(p, step), Advance(p, step),
         UNCHANGED <<activations, running, provider, accepted, local>>,
         ListsOK'
  PROVE  DomainInv'
  <1> DEFINE n == call[p].at
             h == call[p].holds \union ReadBefore(p, step) \union Obtains(p, step)
             c == [at |-> n + 1, holds |-> h, wild |-> call[p].wild]
  <1>1. /\ n \in 1 .. 13 /\ step = Steps[n]
    BY StepTable DEF AtStep
  <1>2. call[p] \in CallType /\ n # Returned
    BY <1>1, StepTable DEF DomainInv, TypeOK, CallType
  <1>3. /\ call[p].holds = HeldBefore(p, n) /\ ~call[p].wild /\ ~local[p] /\ DomainOf[p] \in running
    BY <1>2 DEF DomainInv, CallsHold
  <1>4. h = HeldBefore(p, n + 1)
    BY <1>1, <1>3, PassTable
  <1>5. call' = [call EXCEPT ![p] = c]
    BY DEF Advance, DomainInv, TypeOK
  <1>6. c.at = n + 1 /\ c.holds = HeldBefore(p, n + 1) /\ c.wild = call[p].wild
    BY <1>4
  <1>7. c \in CallType
    <2>1. n + 1 \in 1 .. Returned
      BY <1>1, StepTable
    <2>2. HeldBefore(p, n + 1) \subseteq Resources
      BY DEF HeldBefore
    <2>. QED  BY <1>2, <1>4, <2>1, <2>2 DEF CallType
  <1>8. n + 1 # Returned
    BY <1>1, StepTable
  <1>9. local' = [local EXCEPT ![p] = local[p]] /\ local[p] \in BOOLEAN
    BY DEF DomainInv, TypeOK
  <1> HIDE DEF c, n, h
  <1>10. CallOK(p, c, local[p])
    BY <1>3, <1>6, <1>8 DEF CallOK
  <1>. QED  BY <1>5, <1>7, <1>9, <1>10, CallReplaced

\* A step that fails: its label leaves nothing behind that a label knows of.
LEMMA FailKeeps ==
  ASSUME DomainInv, NEW p \in Participants, NEW step, AtStep(p, step), Fail(p, step),
         UNCHANGED <<activations, running, provider, accepted, local>>,
         ListsOK'
  PROVE  DomainInv'
  <1> DEFINE n == call[p].at
             known == call[p].holds \union ReadBefore(p, step)
             held == known \union Unlisted(p, step)
             freed == FreedFrom(LabelOf(step))
             c == [at |-> Returned, holds |-> held \ freed,
                   wild |-> ~(freed \subseteq held \union Nullable)]
  <1>1. n \in 1 .. 13 /\ step = Steps[n] /\ n # Returned
    BY StepTable DEF AtStep
  <1>2. call[p].holds = HeldBefore(p, n) /\ ~local[p]
    BY <1>1 DEF DomainInv, CallsHold
  <1>3. known \ freed = {} /\ freed \subseteq known \union Nullable /\ freed \subseteq Resources
    BY <1>1, <1>2, FailTable
  <1>4. Unlisted(p, step) \subseteq {"ca_buf"} /\ Unlisted(p, step) \subseteq Unlisted(p, "trusted_ca")
    BY DEF Unlisted
  <1>5. call' = [call EXCEPT ![p] = c]
    BY DEF Fail
  <1> HIDE DEF known, freed
  <1>6. held \ freed \subseteq Unlisted(p, step) /\ freed \subseteq held \union Nullable
    BY <1>3
  <1>7. c.at = Returned /\ c.holds \subseteq Unlisted(p, step) /\ ~c.wild
    BY <1>6
  <1>8. c \in CallType
    <2>1. Returned \in 1 .. Returned
      BY StepTable
    <2>2. held \ freed \in SUBSET (Resources \union {"ca_buf"})
      BY <1>4, <1>6
    <2>. QED  BY <2>1, <2>2 DEF CallType
  <1>9. local' = [local EXCEPT ![p] = local[p]] /\ local[p] \in BOOLEAN
    BY DEF DomainInv, TypeOK
  <1> HIDE DEF c, held
  <1>10. CallOK(p, c, local[p])
    BY <1>2, <1>4, <1>7 DEF CallOK
  <1>. QED  BY <1>5, <1>8, <1>9, <1>10, CallReplaced

\* A call at rest without an identity.
LEMMA NoCallOK ==
  ASSUME NEW p \in Participants
  PROVE  NoCall \in CallType /\ CallOK(p, NoCall, FALSE)
  <1>1. Returned \in 1 .. Returned
    BY StepTable
  <1>. QED  BY <1>1 DEF NoCall, CallType, CallOK

\* A step that leaves the call where it is.
LEMMA CallKept ==
  ASSUME DomainInv, UNCHANGED <<activations, running, provider, accepted, local, call>>, ListsOK'
  PROVE  DomainInv'
  <1>1. TypeOK'
    BY DEF DomainInv, TypeOK, ListsOK
  <1>2. CallsHold' /\ OnlyCaBufferLeaks'
    BY DEF DomainInv, CallsHold, OnlyCaBufferLeaks
  <1>3. ProvidersAreHeld'
    BY DEF DomainInv, ProvidersAreHeld, Holders
  <1>. QED  BY <1>1, <1>2, <1>3 DEF DomainInv

\* Begin, PassStep, FailStep, CheckTrust and FindOwnCa.
LEMMA StepsKeep ==
  ASSUME DomainInv, NEW p \in Participants,
         Begin(p) \/ PassStep(p) \/ FailStep(p) \/ CheckTrust(p) \/ FindOwnCa(p)
  PROVE  DomainInv'
  <1>0. /\ UNCHANGED <<activations, running, provider, accepted, local, trusted, loading>>
        /\ inside' \subseteq Participants
    BY DEF Begin, PassStep, FailStep, CheckTrust, FindOwnCa, instance, DomainInv, TypeOK
  <1>1. ListsOK'
    BY <1>0, ListsKept
  <1>2. CASE Begin(p)
    <2> DEFINE c == [at |-> 1, holds |-> {}, wild |-> FALSE]
    <2>1. HeldBefore(p, 1) = {}
      BY ResourceTable DEF HeldBefore
    <2>2. 1 \in 1 .. Returned /\ 1 # Returned
      BY StepTable
    <2>3. c \in CallType
      BY <2>2 DEF CallType
    <2>4. CallOK(p, c, FALSE)
      BY <1>2, <2>1, <2>2 DEF CallOK, Begin
    <2>5. call' = [call EXCEPT ![p] = c] /\ local' = [local EXCEPT ![p] = FALSE] /\ FALSE \in BOOLEAN
      BY <1>2 DEF Begin, DomainInv, TypeOK
    <2> HIDE DEF c
    <2>. QED  BY <1>0, <1>1, <2>3, <2>4, <2>5, CallReplaced
  <1>3. CASE PassStep(p)
    BY <1>0, <1>1, <1>3, AdvanceKeeps DEF PassStep
  <1>4. CASE FailStep(p)
    BY <1>0, <1>1, <1>4, FailKeeps DEF FailStep
  <1>5. CASE CheckTrust(p)
    <2>1. AtStep(p, "trust") /\ (Advance(p, "trust") \/ Fail(p, "trust") \/ UNCHANGED call)
      BY <1>5 DEF CheckTrust
    <2>. QED  BY <1>0, <1>1, <2>1, AdvanceKeeps, FailKeeps, CallKept
  <1>6. CASE FindOwnCa(p)
    <2>1. AtStep(p, "trust") /\ (Advance(p, "trust") \/ Fail(p, "trust"))
      BY <1>6 DEF FindOwnCa
    <2>. QED  BY <1>0, <1>1, <2>1, AdvanceKeeps, FailKeeps
  <1>. QED  BY <1>2, <1>3, <1>4, <1>5, <1>6

\* The old list is freed, or nothing is done to it.
LEMMA EmptyTrustedCAsKeeps ==
  ASSUME DomainInv, NEW p \in Participants, EmptyTrustedCAs(p)
  PROVE  DomainInv'
  <1>1. /\ AtStep(p, "trusted_ca")
        /\ Advance(p, "trusted_ca") \/ Fail(p, "trusted_ca") \/ UNCHANGED call
        /\ trusted' = [trusted EXCEPT ![DomainOf[p]] = {}] \/ UNCHANGED trusted
        /\ inside' \subseteq Participants
        /\ UNCHANGED <<activations, running, provider, local, accepted, loading>>
    BY DEF EmptyTrustedCAs, instance, DomainInv, TypeOK
  <1>2. ListsOK'
    <2>1. Cardinality({}) <= MaxTrusted
      BY FS_EmptySet, ConfigurationAssumption
    <2>. QED  BY <1>1, <2>1 DEF DomainInv, TypeOK, ListsOK
  <1>. QED  BY <1>1, <1>2, AdvanceKeeps, FailKeeps, CallKept

\* The new list is a directory that is small enough.
LEMMA FillTrustedCAsKeeps ==
  ASSUME DomainInv, InsideOK, NEW p \in Participants, FillTrustedCAs(p)
  PROVE  DomainInv'
  <1> DEFINE d == DomainOf[p]
             dir == DirOf[p]
             All == UNION {Contents[x] : x \in {r \in DOMAIN Contents : Contents[r] # None}}
             Load == [by : Participants, cert : Certificates, filled : BOOLEAN]
  <1>1. /\ AtStep(p, "trusted_ca") /\ Advance(p, "trusted_ca") /\ p \in inside
        /\ trusted' = [trusted EXCEPT ![d] = Contents[dir]]
        /\ loading' = IF loading[d] = NoLoad THEN loading ELSE [loading EXCEPT ![d].filled = TRUE]
        /\ inside' = inside \ {p}
        /\ UNCHANGED <<activations, running, provider, local, accepted>>
    BY DEF FillTrustedCAs, instance
  <1>2. d \in Domains
    BY ConfigurationAssumption
  <1>3. dir # None /\ Readable(dir)
    <2>1. ~AtStep(p, "trust")
      BY <1>1 DEF AtStep
    <2>. QED  BY <1>1, <2>1 DEF InsideOK
  <1>4. dir \in DOMAIN Contents /\ Contents[dir] # None /\ Cardinality(Contents[dir]) <= MaxTrusted
    BY <1>3, ConfigurationAssumption DEF Readable, TooLarge
  <1>5. /\ trusted' \in [Domains -> SUBSET All]
        /\ \A x \in Domains : Cardinality(trusted'[x]) <= MaxTrusted
    <2>1. Contents[dir] \in SUBSET All
      BY <1>4
    <2>. QED  BY <1>1, <1>2, <1>4, <2>1 DEF DomainInv, TypeOK
  <1>6. loading' \in [Domains -> {NoLoad} \union Load]
    <2>1. loading \in [Domains -> {NoLoad} \union Load]
      BY DEF DomainInv, TypeOK
    <2>2. ASSUME loading[d] # NoLoad PROVE loading' \in [Domains -> {NoLoad} \union Load]
      <3>1. loading[d] \in Load
        BY <1>2, <2>1, <2>2
      <3>2. [loading[d] EXCEPT !.filled = TRUE] \in Load
        BY <3>1
      <3> HIDE DEF Load
      <3>3. loading' = [loading EXCEPT ![d] = [loading[d] EXCEPT !.filled = TRUE]]
        BY <1>1, <2>2
      <3>. QED  BY <1>2, <2>1, <3>2, <3>3
    <2>. QED  BY <1>1, <2>1, <2>2
  <1>7. ListsOK'
    BY <1>1, <1>5, <1>6 DEF DomainInv, TypeOK, ListsOK
  <1>. QED  BY <1>1, <1>7, AdvanceKeeps

\* A call that succeeds keeps what the identity owns.
LEMMA RegisterLocalKeeps ==
  ASSUME DomainInv, NEW p \in Participants, RegisterLocal(p)
  PROVE  DomainInv'
  <1> DEFINE h == call[p].holds \ {"certPEM", "caPEM", "keyPEM", "password", "dir", "crlPEM"}
             c == [at |-> Returned, wild |-> FALSE, holds |-> h]
  <1>1. call[p].at = 14 /\ Returned = 15
    BY StepTable DEF RegisterLocal
  <1>2. call[p].holds = HeldBefore(p, 14)
    BY <1>1 DEF DomainInv, CallsHold
  <1>3. h = Owned(p)
    <2>1. \A r \in Resources : ObtainedAt(r) < 14
      BY ResourceTable
    <2>. QED  BY <1>2, <2>1 DEF HeldBefore, Owned, Resources
  <1>4. call' = [call EXCEPT ![p] = c]
    BY DEF RegisterLocal, DomainInv, TypeOK
  <1>5. c \in CallType
    <2>1. Returned \in 1 .. Returned
      BY StepTable
    <2>2. Owned(p) \subseteq Resources
      BY DEF Owned, Resources
    <2>. QED  BY <1>3, <2>1, <2>2 DEF CallType
  <1>6. CallOK(p, c, TRUE)
    BY <1>3 DEF CallOK
  <1> HIDE DEF c
  <1>7. /\ TRUE \in BOOLEAN /\ local' = [local EXCEPT ![p] = TRUE]
        /\ UNCHANGED <<activations, running, provider, accepted, trusted, loading, inside>>
    BY DEF RegisterLocal, instance
  <1>8. ListsOK'
    BY <1>7 DEF DomainInv, TypeOK, ListsOK
  <1>. QED  BY <1>4, <1>5, <1>6, <1>7, <1>8, CallReplaced

\* An identity that is returned takes all it owns along.
LEMMA ReturnLocalKeeps ==
  ASSUME DomainInv, NEW p \in Participants, ReturnLocalIdentity(p)
  PROVE  DomainInv'
  <1>1. /\ call' = [call EXCEPT ![p] = NoCall] /\ local' = [local EXCEPT ![p] = FALSE]
        /\ accepted' = [accepted EXCEPT ![p] = {}]
        /\ UNCHANGED <<activations, running, provider, trusted, inside, loading>>
    BY DEF ReturnLocalIdentity, instance
  <1>2. NoCall \in CallType /\ CallOK(p, NoCall, FALSE)
    BY NoCallOK
  <1>3. TypeOK'
    BY <1>1, <1>2 DEF DomainInv, TypeOK, CallType
  <1>4. /\ call'[p] = NoCall /\ ~local'[p]
        /\ \A q \in Participants \ {p} : call'[q] = call[q] /\ local'[q] = local[q]
    BY <1>1 DEF DomainInv, TypeOK
  <1>5. CallsHold'
    BY <1>1, <1>4 DEF DomainInv, CallsHold, NoCall
  <1>6. OnlyCaBufferLeaks'
    BY <1>4 DEF DomainInv, OnlyCaBufferLeaks, NoCall
  <1>7. ProvidersAreHeld'
    BY <1>1 DEF DomainInv, ProvidersAreHeld, Holders
  <1>. QED  BY <1>3, <1>5, <1>6, <1>7 DEF DomainInv

\* The first test of a peer's certificate starts a load.
LEMMA LoadPeerKeeps ==
  ASSUME DomainInv, NEW p \in Participants, NEW cert \in Certificates, LoadPeerCertificate(p, cert)
  PROVE  DomainInv'
  <1>1. /\ UNCHANGED <<activations, running, provider, trusted, call, local, inside, accepted>>
        /\ loading' = [loading EXCEPT ![DomainOf[p]] = [by |-> p, cert |-> cert, filled |-> FALSE]]
    BY DEF LoadPeerCertificate, instance
  <1>2. ListsOK'
    <2>1. [by |-> p, cert |-> cert, filled |-> FALSE] \in
            [by : Participants, cert : Certificates, filled : BOOLEAN]
      OBVIOUS
    <2>. QED  BY <1>1, <2>1 DEF DomainInv, TypeOK, ListsOK
  <1>. QED  BY <1>1, <1>2, CallKept

\* Accepting a peer's certificate touches nothing else.
LEMMA VerifyPeerKeeps ==
  ASSUME DomainInv, NEW d \in Domains, VerifyPeerCertificate(d)
  PROVE  DomainInv'
  <1> DEFINE p == loading[d].by
             cert == loading[d].cert
  <1>1. /\ UNCHANGED <<activations, running, provider, trusted, call, local, inside>>
        /\ loading' = [loading EXCEPT ![d] = NoLoad] /\ loading[d] # NoLoad
        /\ accepted' = accepted \/ accepted' = [accepted EXCEPT ![p] = @ \union {cert}]
    BY DEF VerifyPeerCertificate, instance
  <1>2. p \in Participants /\ cert \in Certificates
    <2>1. loading[d] \in [by : Participants, cert : Certificates, filled : BOOLEAN]
      BY <1>1 DEF DomainInv, TypeOK
    <2>. QED  BY <2>1
  <1>3. accepted' \in [Participants -> SUBSET Certificates]
    BY <1>1, <1>2 DEF DomainInv, TypeOK
  <1>4. loading' \in [Domains -> {NoLoad} \union [by : Participants, cert : Certificates, filled : BOOLEAN]]
    BY <1>1 DEF DomainInv, TypeOK
  <1>. QED  BY <1>1, <1>3, <1>4 DEF DomainInv, TypeOK, CallsHold, OnlyCaBufferLeaks, ProvidersAreHeld, Holders

----------------------------------------------------------------------------
(* Instances and their providers. *)

\* The instances that hold a provider are finitely many.
LEMMA HoldersAreFinite ==
  ASSUME NEW p
  PROVE  IsFiniteSet(Holders(p)) /\ Cardinality(Holders(p)) \in Nat
  BY ConfigurationAssumption, FS_Subset, FS_CardinalityType DEF Holders

\* An instance without provider that loads one.
LEMMA LoadKeepsCount ==
  ASSUME DomainInv, NEW d \in Domains, NEW name \in Installed, provider[d] = None,
         Kem \in Exposes[name], d \in running', running \subseteq running',
         provider' = [provider EXCEPT ![d] = name], activations' = Loaded(activations, name)
  PROVE  /\ activations' \in [Providers -> Nat]
         /\ provider' \in [Domains -> Installed \union {None}]
         /\ ProvidersAreHeld'
  <1>0. activations \in [Providers -> Nat] /\ provider \in [Domains -> Installed \union {None}]
    BY DEF DomainInv, TypeOK
  <1>1. name \in Providers /\ name # None
    BY ProvidersAssumption, ConfigurationAssumption
  <1>2. activations' \in [Providers -> Nat]
    BY <1>0, <1>1 DEF Loaded
  <1>3. provider' \in [Domains -> Installed \union {None}]
    BY <1>0
  <1>4. ASSUME NEW p \in Providers PROVE activations'[p] = Cardinality(Holders(p)')
    <2>1. activations[p] = Cardinality(Holders(p))
      BY DEF DomainInv, ProvidersAreHeld
    <2>2. CASE p = name
      <3>1. Holders(p)' = Holders(p) \union {d} /\ d \notin Holders(p)
        BY <1>0, <1>1, <2>2 DEF Holders
      <3>2. Cardinality(Holders(p)') = Cardinality(Holders(p)) + 1
        BY <3>1, HoldersAreFinite, FS_AddElement
      <3>. QED  BY <1>0, <1>1, <2>1, <2>2, <3>2 DEF Loaded
    <2>3. CASE p # name
      <3>1. Holders(p)' = Holders(p)
        BY <1>0, ConfigurationAssumption, <2>3 DEF Holders
      <3>. QED  BY <1>0, <1>1, <2>1, <2>3, <3>1 DEF Loaded
    <2>. QED  BY <2>2, <2>3
  <1>5. \A e \in Domains : provider'[e] # None => e \in running' /\ Kem \in Exposes[provider'[e]]
    BY <1>0 DEF DomainInv, ProvidersAreHeld
  <1>. QED  BY <1>2, <1>3, <1>4, <1>5 DEF ProvidersAreHeld

\* An instance that goes and gives its provider back.
LEMMA UnloadKeepsCount ==
  ASSUME DomainInv, NEW d \in Domains, provider[d] # None,
         running' = running \ {d},
         provider' = [provider EXCEPT ![d] = None], activations' = Unloaded(activations, provider[d])
  PROVE  /\ activations' \in [Providers -> Nat]
         /\ provider' \in [Domains -> Installed \union {None}]
         /\ ProvidersAreHeld'
  <1> DEFINE name == provider[d]
  <1>0. activations \in [Providers -> Nat] /\ provider \in [Domains -> Installed \union {None}]
    BY DEF DomainInv, TypeOK
  <1>1. name \in Providers /\ name # None
    BY <1>0, ProvidersAssumption
  <1>2. ASSUME NEW p \in Providers
        PROVE  activations'[p] \in Nat /\ activations'[p] = Cardinality(Holders(p)')
    <2>1. activations[p] = Cardinality(Holders(p)) /\ activations[p] \in Nat
      BY <1>0 DEF DomainInv, ProvidersAreHeld
    <2>2. CASE p = name
      <3>1. Holders(p)' = Holders(p) \ {d} /\ d \in Holders(p)
        BY <1>0, <1>1, <2>2 DEF Holders
      <3>2. Cardinality(Holders(p)') = Cardinality(Holders(p)) - 1
        BY <3>1, HoldersAreFinite, FS_RemoveElement
      <3>3. Cardinality(Holders(p)) # 0
        BY <3>1, HoldersAreFinite, FS_EmptySet
      <3>4. activations'[p] = activations[p] - 1
        BY <1>0, <1>1, <2>2 DEF Unloaded
      <3>. QED  BY <2>1, <3>2, <3>3, <3>4
    <2>3. CASE p # name
      <3>1. Holders(p)' = Holders(p)
        BY <1>0, ConfigurationAssumption, <2>3 DEF Holders
      <3>2. activations'[p] = activations[p]
        BY <1>0, <1>1, <2>3 DEF Unloaded
      <3>. QED  BY <2>1, <3>1, <3>2
    <2>. QED  BY <2>2, <2>3
  <1>3. activations' \in [Providers -> Nat]
    BY <1>0, <1>2 DEF Unloaded
  <1>4. provider' \in [Domains -> Installed \union {None}]
    BY <1>0
  <1>5. \A e \in Domains : provider'[e] # None => e \in running' /\ Kem \in Exposes[provider'[e]]
    BY <1>0 DEF DomainInv, ProvidersAreHeld
  <1>. QED  BY <1>2, <1>3, <1>4, <1>5 DEF ProvidersAreHeld

\* A provider that makes a KEM available exposes it itself.
LEMMA LoadedExposes ==
  ASSUME activations \in [Providers -> Nat], NEW name \in Providers,
         ~Supported(activations, Kem), Supported(Loaded(activations, name), Kem)
  PROVE  Kem \in Exposes[name]
  <1>1. PICK p \in Providers : Loaded(activations, name)[p] > 0 /\ Kem \in Exposes[p]
    BY DEF Supported
  <1>2. p # name => Loaded(activations, name)[p] = activations[p]
    BY DEF Loaded
  <1>. QED  BY <1>1, <1>2 DEF Supported

\* init_authentication starts an instance with a provider it needs, or changes nothing.
LEMMA InitAuthenticationKeeps ==
  ASSUME DomainInv, NEW d \in Domains, InitAuthentication(d)
  PROVE  DomainInv'
  <1>0. activations \in [Providers -> Nat] /\ provider \in [Domains -> Installed \union {None}]
    BY DEF DomainInv, TypeOK
  <1>1. provider[d] = None /\ running \subseteq running' /\ running' \subseteq Domains
    BY DEF InitAuthentication, DomainInv, TypeOK, ProvidersAreHeld
  <1>2. /\ activations' \in [Providers -> Nat]
        /\ provider' \in [Domains -> Installed \union {None}]
        /\ ProvidersAreHeld'
    <2>1. CASE EnsureKem(d).provider = None /\ EnsureKem(d).active = activations
      <3>1. UNCHANGED <<activations, provider>>
        BY <1>0, <1>1, <2>1 DEF InitAuthentication
      <3>. QED  BY <1>0, <1>1, <3>1 DEF DomainInv, ProvidersAreHeld, Holders
    <2>2. CASE ~(EnsureKem(d).provider = None /\ EnsureKem(d).active = activations)
      <3>1. /\ ProviderOf[d] \in Installed
            /\ ~Supported(activations, Kem)
            /\ Supported(Loaded(activations, ProviderOf[d]), Kem)
            /\ EnsureKem(d).ok
            /\ EnsureKem(d).provider = ProviderOf[d]
            /\ EnsureKem(d).active = Loaded(activations, ProviderOf[d])
        BY <2>2 DEF EnsureKem
      <3>2. ProviderOf[d] \in Providers
        BY <3>1, ProvidersAssumption
      <3>3. Kem \in Exposes[ProviderOf[d]]
        BY <1>0, <3>1, <3>2, LoadedExposes
      <3>4. /\ d \in running'
            /\ provider' = [provider EXCEPT ![d] = ProviderOf[d]]
            /\ activations' = Loaded(activations, ProviderOf[d])
        BY <3>1 DEF InitAuthentication
      <3>. QED  BY <1>1, <3>1, <3>3, <3>4, LoadKeepsCount
    <2>. QED  BY <2>1, <2>2
  <1>3. UNCHANGED <<trusted, call, inside, local, loading, accepted>>
    BY DEF InitAuthentication
  <1>. QED  BY <1>1, <1>2, <1>3 DEF DomainInv, TypeOK, CallsHold, OnlyCaBufferLeaks

\* finalize_authentication ends an instance, and gives back its own provider only.
LEMMA FinalizeKeeps ==
  ASSUME DomainInv, NEW d \in Domains, FinalizeAuthentication(d)
  PROVE  DomainInv'
  <1>0. activations \in [Providers -> Nat] /\ provider \in [Domains -> Installed \union {None}]
    BY DEF DomainInv, TypeOK
  <1>1. running' = running \ {d} /\ provider' = [provider EXCEPT ![d] = None]
    BY DEF FinalizeAuthentication
  <1>2. /\ activations' \in [Providers -> Nat]
        /\ provider' \in [Domains -> Installed \union {None}]
        /\ ProvidersAreHeld'
    <2>1. CASE provider[d] = None
      <3>1. UNCHANGED <<activations, provider>>
        BY <1>0, <1>1, <2>1 DEF FinalizeAuthentication
      <3>. QED  BY <1>0, <1>1, <2>1, <3>1 DEF DomainInv, ProvidersAreHeld, Holders
    <2>2. CASE provider[d] # None
      <3>1. activations' = Unloaded(activations, provider[d])
        BY <2>2 DEF FinalizeAuthentication
      <3>. QED  BY <1>1, <2>2, <3>1, UnloadKeepsCount
    <2>. QED  BY <2>1, <2>2
  <1>3. ASSUME NEW p \in Participants
        PROVE  /\ p \in Members(d) => call'[p] = NoCall /\ ~local'[p] /\ accepted'[p] = {}
               /\ p \notin Members(d) =>
                    call'[p] = call[p] /\ local'[p] = local[p] /\ accepted'[p] = accepted[p]
    BY DEF FinalizeAuthentication, DomainInv, TypeOK
  <1>4. /\ trusted' \in [Domains -> SUBSET UNION {Contents[dir] :
                           dir \in {r \in DOMAIN Contents : Contents[r] # None}}]
        /\ \A x \in Domains : Cardinality(trusted'[x]) <= MaxTrusted
    <2>1. trusted' = [trusted EXCEPT ![d] = {}]
      BY DEF FinalizeAuthentication, NoTrusted
    <2>2. Cardinality({}) <= MaxTrusted
      BY FS_EmptySet, ConfigurationAssumption
    <2>. QED  BY <2>1, <2>2 DEF DomainInv, TypeOK
  <1>5. NoCall \in CallType
    BY StepTable DEF NoCall, CallType
  <1>6. call' \in [Participants -> CallType]
    <2>1. \A p \in Participants : call[p] \in CallType
      BY DEF DomainInv, TypeOK, CallType
    <2>. QED  BY <1>5, <2>1 DEF FinalizeAuthentication
  <1>7. /\ local' \in [Participants -> BOOLEAN] /\ accepted' \in [Participants -> SUBSET Certificates]
        /\ running' \subseteq Domains /\ UNCHANGED <<inside, loading>>
    BY <1>1 DEF FinalizeAuthentication, DomainInv, TypeOK
  <1>8. TypeOK'
    <2>1. /\ inside' \subseteq Participants
          /\ loading' \in [Domains ->
               {NoLoad} \union [by : Participants, cert : Certificates, filled : BOOLEAN]]
      BY <1>7 DEF DomainInv, TypeOK
    <2>. QED  BY <1>2, <1>4, <1>6, <1>7, <2>1 DEF TypeOK, CallType
  <1>9. CallsHold'
    <2> SUFFICES ASSUME NEW p \in Participants, call'[p].at # Returned
                 PROVE  /\ DomainOf[p] \in running' /\ ~local'[p] /\ ~call'[p].wild
                        /\ call'[p].holds = HeldBefore(p, call'[p].at)
      BY DEF CallsHold
    <2>1. p \notin Members(d)
      BY <1>3 DEF NoCall
    <2>. QED  BY <1>1, <1>3, <2>1 DEF DomainInv, CallsHold, Members
  <1>10. OnlyCaBufferLeaks'
    <2> SUFFICES ASSUME NEW p \in Participants, call'[p].at = Returned
                 PROVE  /\ ~call'[p].wild
                        /\ IF local'[p] THEN call'[p].holds = Owned(p)
                           ELSE call'[p].holds \subseteq Unlisted(p, "trusted_ca")
      BY DEF OnlyCaBufferLeaks, Owned
    <2>1. CASE p \in Members(d)
      BY <1>3, <2>1 DEF NoCall
    <2>2. CASE p \notin Members(d)
      BY <1>3, <2>2 DEF DomainInv, OnlyCaBufferLeaks, Owned
    <2>. QED  BY <2>1, <2>2
  <1>. QED  BY <1>2, <1>8, <1>9, <1>10 DEF DomainInv

----------------------------------------------------------------------------
(* The theorems. *)

\* Nothing runs, nothing is loaded, and no call is on its way.
LEMMA DomainInit == Init => DomainInv
  <1> SUFFICES ASSUME Init PROVE DomainInv
    OBVIOUS
  <1>1. TypeOK
    <2>1. Cardinality({}) <= MaxTrusted
      BY FS_EmptySet, ConfigurationAssumption
    <2>2. NoCall \in CallType
      BY StepTable DEF NoCall, CallType
    <2>. QED  BY <2>1, <2>2 DEF Init, TypeOK, NothingLoaded, CallType
  <1>2. CallsHold /\ OnlyCaBufferLeaks
    BY DEF Init, CallsHold, OnlyCaBufferLeaks, NoCall
  <1>3. ProvidersAreHeld
    <2>1. ASSUME NEW p \in Providers PROVE activations[p] = Cardinality(Holders(p))
      <3>1. Holders(p) = {}
        BY ConfigurationAssumption DEF Init, Holders
      <3>. QED  BY <3>1, FS_EmptySet DEF Init, NothingLoaded
    <2>. QED  BY <2>1 DEF Init, ProvidersAreHeld
  <1>. QED  BY <1>1, <1>2, <1>3 DEF DomainInv

\* Every step keeps the invariant.
LEMMA DomainInductive == DomainInv /\ InsideOK /\ [Next]_vars => DomainInv'
  <1>1. DomainInv /\ UNCHANGED vars => DomainInv'
    <2> SUFFICES ASSUME DomainInv, UNCHANGED vars PROVE DomainInv'
      OBVIOUS
    <2>1. ListsOK'
      BY DEF vars, DomainInv, TypeOK, ListsOK
    <2>. QED  BY <2>1, CallKept DEF vars
  <1>2. ASSUME DomainInv, InsideOK, Next PROVE DomainInv'
    BY <1>2, InitAuthenticationKeeps, FinalizeKeeps, StepsKeep, EmptyTrustedCAsKeeps, FillTrustedCAsKeeps,
       RegisterLocalKeeps, ReturnLocalKeeps, LoadPeerKeeps, VerifyPeerKeeps DEF Next
  <1>. QED  BY <1>1, <1>2

\* A participant between two accesses to the list stays at its step.
LEMMA InsideInductive == DomainInv /\ InsideOK /\ [Next]_vars => InsideOK'
  <1> SUFFICES ASSUME DomainInv, InsideOK, [Next]_vars, NEW q \in inside'
               PROVE  \/ AtStep(q, "trusted_ca")' /\ DirOf[q] # None /\ Readable(DirOf[q])
                      \/ AtStep(q, "trust")'
    BY DEF InsideOK
  <1>0. call \in [Participants -> CallType] /\ inside \subseteq Participants
    BY DEF DomainInv, TypeOK, CallType
  <1>1. ASSUME q \in inside, call'[q] = call[q]
        PROVE  \/ AtStep(q, "trusted_ca")' /\ DirOf[q] # None /\ Readable(DirOf[q])
               \/ AtStep(q, "trust")'
    BY <1>1 DEF InsideOK, AtStep
  <1>2. \A p \in inside : call[p].at \in {4, 6}
    BY StepTable DEF InsideOK, AtStep
  <1>3. ASSUME NEW p \in Participants, p \notin inside, NEW c, call' = [call EXCEPT ![p] = c],
               UNCHANGED inside
        PROVE  q \in inside /\ call'[q] = call[q]
    BY <1>0, <1>3
  <1>4. ASSUME NEW p \in Participants, Begin(p) \/ RegisterLocal(p) \/ ReturnLocalIdentity(p)
        PROVE  q \in inside /\ call'[q] = call[q]
    <2>1. PICK c : call' = [call EXCEPT ![p] = c]
      BY <1>4 DEF Begin, RegisterLocal, ReturnLocalIdentity
    <2>2. UNCHANGED inside
      BY <1>4 DEF Begin, RegisterLocal, ReturnLocalIdentity
    <2>3. call[p].at \in {14, 15}
      BY <1>4, StepTable DEF Begin, RegisterLocal, ReturnLocalIdentity, DomainInv, CallsHold
    <2>. QED  BY <1>2, <1>3, <2>1, <2>2, <2>3
  <1>5. ASSUME NEW p \in Participants, PassStep(p) \/ FailStep(p)
        PROVE  q \in inside /\ call'[q] = call[q]
    <2>1. PICK c : call' = [call EXCEPT ![p] = c]
      BY <1>5 DEF PassStep, FailStep, Advance, Fail
    <2>2. UNCHANGED inside
      BY <1>5 DEF PassStep, FailStep
    <2>3. PICK step \in OwnSteps : AtStep(p, step)
      BY <1>5 DEF PassStep, FailStep
    <2>4. ~AtStep(p, "trusted_ca") /\ ~AtStep(p, "trust")
      BY <2>3 DEF OwnSteps, AtStep
    <2>5. p \notin inside
      BY <2>4 DEF InsideOK
    <2>. QED  BY <1>3, <2>1, <2>2, <2>5
  <1>6. ASSUME NEW p \in Participants, EmptyTrustedCAs(p)
        PROVE  \/ AtStep(q, "trusted_ca")' /\ DirOf[q] # None /\ Readable(DirOf[q])
               \/ AtStep(q, "trust")'
    <2>1. CASE DirOf[p] # None /\ Readable(DirOf[p])
      <3>1. inside' = inside \union {p} /\ UNCHANGED call /\ AtStep(p, "trusted_ca")
        BY <1>6, <2>1 DEF EmptyTrustedCAs
      <3>2. CASE q = p
        BY <2>1, <3>1, <3>2 DEF AtStep
      <3>. QED  BY <1>1, <3>1, <3>2
    <2>2. CASE ~(DirOf[p] # None /\ Readable(DirOf[p]))
      <3>1. UNCHANGED inside /\ p \notin inside
        BY <1>6, <2>2 DEF EmptyTrustedCAs
      <3>2. PICK c : call' = [call EXCEPT ![p] = c]
        BY <1>6, <2>2 DEF EmptyTrustedCAs, Advance, Fail
      <3>. QED  BY <1>1, <1>3, <3>1, <3>2
    <2>. QED  BY <2>1, <2>2
  <1>7. ASSUME NEW p \in Participants, FillTrustedCAs(p) \/ FindOwnCa(p)
        PROVE  q \in inside /\ call'[q] = call[q]
    <2>1. PICK c : call' = [call EXCEPT ![p] = c]
      BY <1>7 DEF FillTrustedCAs, FindOwnCa, Advance, Fail
    <2>2. inside' = inside \ {p}
      BY <1>7 DEF FillTrustedCAs, FindOwnCa
    <2>. QED  BY <1>0, <2>1, <2>2
  <1>8. ASSUME NEW p \in Participants, CheckTrust(p)
        PROVE  \/ AtStep(q, "trusted_ca")' /\ DirOf[q] # None /\ Readable(DirOf[q])
               \/ AtStep(q, "trust")'
    <2>1. CASE inside' = inside \union {p} /\ UNCHANGED call
      <3>1. AtStep(p, "trust")
        BY <1>8 DEF CheckTrust
      <3>2. CASE q = p
        BY <2>1, <3>1, <3>2 DEF AtStep
      <3>. QED  BY <1>1, <2>1, <3>2
    <2>2. CASE ~(inside' = inside \union {p} /\ UNCHANGED call)
      <3>1. UNCHANGED inside /\ p \notin inside
        BY <1>8, <2>2 DEF CheckTrust
      <3>2. PICK c : call' = [call EXCEPT ![p] = c]
        BY <1>8, <2>2 DEF CheckTrust, Advance, Fail
      <3>. QED  BY <1>1, <1>3, <3>1, <3>2
    <2>. QED  BY <2>1, <2>2
  <1>9. ASSUME NEW d \in Domains, FinalizeAuthentication(d)
        PROVE  q \in inside /\ call'[q] = call[q]
    <2>1. q \in inside /\ q \notin Members(d)
      BY <1>2, <1>9, StepTable DEF FinalizeAuthentication
    <2>. QED  BY <1>0, <1>9, <2>1 DEF FinalizeAuthentication
  <1>10. CASE UNCHANGED <<call, inside>>
    BY <1>1, <1>10
  <1>11. \/ UNCHANGED <<call, inside>>
         \/ \E d \in Domains : FinalizeAuthentication(d)
         \/ \E p \in Participants :
              \/ Begin(p) \/ RegisterLocal(p) \/ ReturnLocalIdentity(p) \/ PassStep(p) \/ FailStep(p)
              \/ EmptyTrustedCAs(p) \/ FillTrustedCAs(p) \/ FindOwnCa(p) \/ CheckTrust(p)
    BY DEF vars, Next, InitAuthentication, LoadPeerCertificate, VerifyPeerCertificate
  <1>. QED  BY <1>1, <1>4, <1>5, <1>6, <1>7, <1>8, <1>9, <1>10, <1>11

\* The invariant holds in every reachable state.
THEOREM DomainInvHolds == Spec => [](DomainInv /\ InsideOK)
  <1>1. Init => InsideOK
    BY DEF Init, InsideOK
  <1>. QED  BY <1>1, DomainInit, DomainInductive, InsideInductive, PTL DEF Spec

\* The tables are well formed, and no list of trusted CAs grows beyond MAX_TRUSTED_CA.
THEOREM TypeCorrect == Spec => []TypeOK
  <1>1. DomainInv => TypeOK
    BY DEF DomainInv
  <1>. QED  BY <1>1, DomainInvHolds, PTL

\* Whichever step of validate_local_identity fails, and whatever other participants do
\* meanwhile, its labels free nothing the call does not hold, and all it holds but the CAs of
\* a directory that is too large.
THEOREM CleanupCorrect == Spec => []OnlyCaBufferLeaks
  <1>1. DomainInv => OnlyCaBufferLeaks
    BY DEF DomainInv
  <1>. QED  BY <1>1, DomainInvHolds, PTL

\* An instance that loaded a provider keeps its KEM, whichever instances come and go, and
\* no provider outlives them all.
THEOREM KemStays == Spec => []LoadedKemStays
  <1>1. DomainInv => LoadedKemStays
    <2> SUFFICES ASSUME DomainInv PROVE LoadedKemStays
      OBVIOUS
    <2>0. /\ activations \in [Providers -> Nat] /\ provider \in [Domains -> Installed \union {None}]
          /\ running \subseteq Domains
      BY DEF DomainInv, TypeOK
    <2>1. ASSUME NEW d \in running, provider[d] # None PROVE Supported(activations, Kem)
      <3>1. /\ d \in Domains /\ provider[d] \in Providers /\ Kem \in Exposes[provider[d]]
            /\ activations[provider[d]] = Cardinality(Holders(provider[d]))
        BY <2>0, <2>1, ProvidersAssumption DEF DomainInv, ProvidersAreHeld
      <3>2. d \in Holders(provider[d])
        BY <3>1 DEF Holders
      <3>3. Cardinality(Holders(provider[d])) # 0
        BY <3>2, HoldersAreFinite, FS_EmptySet
      <3>4. activations[provider[d]] > 0
        BY <2>0, <3>1, <3>3
      <3>. QED  BY <3>1, <3>4 DEF Supported
    <2>2. ASSUME running = {} PROVE activations = NothingLoaded
      <3>1. ASSUME NEW p \in Providers PROVE activations[p] = 0
        <4>1. Holders(p) = {}
          BY <2>2, ConfigurationAssumption DEF DomainInv, ProvidersAreHeld, Holders
        <4>. QED  BY <4>1, FS_EmptySet DEF DomainInv, ProvidersAreHeld
      <3>. QED  BY <2>0, <3>1 DEF NothingLoaded
    <2>. QED  BY <2>1, <2>2 DEF LoadedKemStays
  <1>. QED  BY <1>1, DomainInvHolds, PTL

\* A load that passed its first test with a CRL meets a list only if that was filled since.
LEMMA LoadsInductive == DomainInv /\ LoadsOK /\ [Next]_vars => LoadsOK'
  <1> SUFFICES ASSUME DomainInv, LoadsOK, [Next]_vars, NEW d \in Domains, loading'[d] # NoLoad
               PROVE  /\ DomainOf[loading'[d].by] = d
                      /\ loading'[d].by \in HasCrl /\ trusted'[d] # {} => loading'[d].filled
    BY DEF LoadsOK
  <1> DEFINE Load == [by : Participants, cert : Certificates, filled : BOOLEAN]
  <1>0. /\ trusted \in [Domains -> SUBSET UNION {Contents[dir] :
                          dir \in {r \in DOMAIN Contents : Contents[r] # None}}]
        /\ loading \in [Domains -> {NoLoad} \union Load]
        /\ DomainOf \in [Participants -> Domains]
    BY ConfigurationAssumption DEF DomainInv, TypeOK
  <1> HIDE DEF Load
  <1>1. CASE loading'[d] = loading[d] /\ (trusted'[d] = trusted[d] \/ trusted'[d] = {})
    BY <1>1 DEF LoadsOK
  <1>2. ASSUME NEW e \in Domains, FinalizeAuthentication(e)
        PROVE  loading' = loading /\ trusted'[d] \in {trusted[d], {}}
    BY <1>0, <1>2 DEF FinalizeAuthentication, NoTrusted
  <1>3. ASSUME NEW e \in Domains, VerifyPeerCertificate(e)
        PROVE  loading'[d] = loading[d] /\ trusted' = trusted
    BY <1>0, <1>3 DEF VerifyPeerCertificate
  <1>4. ASSUME NEW p \in Participants, EmptyTrustedCAs(p)
        PROVE  loading' = loading /\ trusted'[d] \in {trusted[d], {}}
    BY <1>0, <1>4 DEF EmptyTrustedCAs
  <1>5. ASSUME NEW p \in Participants, FillTrustedCAs(p)
        PROVE  /\ DomainOf[loading'[d].by] = d
               /\ loading'[d].by \in HasCrl /\ trusted'[d] # {} => loading'[d].filled
    <2>1. CASE d # DomainOf[p]
      BY <1>0, <1>1, <1>5, <2>1 DEF FillTrustedCAs
    <2>2. CASE d = DomainOf[p]
      <3>1. loading[d] # NoLoad /\ loading' = [loading EXCEPT ![d].filled = TRUE]
        BY <1>5, <2>2 DEF FillTrustedCAs
      <3>2. loading[d] \in Load
        BY <1>0, <3>1
      <3>3. loading'[d].filled = TRUE /\ loading'[d].by = loading[d].by
        BY <1>0, <3>1, <3>2 DEF Load
      <3>. QED  BY <3>1, <3>3 DEF LoadsOK
    <2>. QED  BY <2>1, <2>2
  <1>6. ASSUME NEW p \in Participants, NEW cert \in Certificates, LoadPeerCertificate(p, cert)
        PROVE  /\ DomainOf[loading'[d].by] = d
               /\ loading'[d].by \in HasCrl /\ trusted'[d] # {} => loading'[d].filled
    <2>1. CASE d # DomainOf[p]
      BY <1>0, <1>1, <1>6, <2>1 DEF LoadPeerCertificate
    <2>2. CASE d = DomainOf[p]
      <3>1. loading'[d] = [by |-> p, cert |-> cert, filled |-> FALSE] /\ trusted' = trusted
        BY <1>0, <1>6, <2>2 DEF LoadPeerCertificate
      <3>2. loading'[d].by = p
        BY <3>1
      <3>3. ~(p \in HasCrl /\ trusted[d] # {})
        BY <1>6, <2>2 DEF LoadPeerCertificate, Conflict
      <3>. QED  BY <2>2, <3>1, <3>2, <3>3
    <2>. QED  BY <2>1, <2>2
  <1>7. \/ UNCHANGED <<trusted, loading>>
        \/ \E e \in Domains : FinalizeAuthentication(e) \/ VerifyPeerCertificate(e)
        \/ \E p \in Participants : EmptyTrustedCAs(p) \/ FillTrustedCAs(p)
        \/ \E p \in Participants : \E cert \in Certificates : LoadPeerCertificate(p, cert)
    BY DEF vars, Next, InitAuthentication, Begin, PassStep, FailStep, CheckTrust, FindOwnCa,
           RegisterLocal, ReturnLocalIdentity
  <1>. QED  BY <1>1, <1>2, <1>3, <1>4, <1>5, <1>6, <1>7

\* A participant with a CRL accepts a certificate that it revokes only if another one filled
\* the list of trusted CAs between the two tests of the load.
THEOREM RevokedAcceptedOnlyThen == Spec => RevokedOnlyAsListArrives
  <1> DEFINE Only ==
        \A p \in HasCrl, cert \in Certificates :
          cert \in accepted'[p] \ accepted[p] /\ cert.ca = CaOf[p] /\ cert.revoked =>
            /\ loading[DomainOf[p]].by = p /\ loading[DomainOf[p]].filled
            /\ CaOf[p] \in trusted[DomainOf[p]]
  <1>1. Init => LoadsOK
    BY DEF Init, LoadsOK
  <1>2. DomainInv /\ LoadsOK /\ [Next]_vars => [Only]_vars
    <2> SUFFICES ASSUME DomainInv, LoadsOK, Next,
                        NEW p \in HasCrl, NEW cert \in Certificates,
                        cert \in accepted'[p] \ accepted[p], cert.ca = CaOf[p], cert.revoked
                 PROVE  /\ loading[DomainOf[p]].by = p /\ loading[DomainOf[p]].filled
                        /\ CaOf[p] \in trusted[DomainOf[p]]
      OBVIOUS
    <2>0. p \in Participants /\ accepted \in [Participants -> SUBSET Certificates]
      BY ConfigurationAssumption DEF DomainInv, TypeOK
    <2>1. ASSUME NEW d \in Domains, FinalizeAuthentication(d) PROVE FALSE
      BY <2>0, <2>1 DEF FinalizeAuthentication
    <2>2. ASSUME NEW q \in Participants, ReturnLocalIdentity(q) PROVE FALSE
      BY <2>0, <2>2 DEF ReturnLocalIdentity
    <2>3. \E d \in Domains : VerifyPeerCertificate(d)
      <3>1. \/ UNCHANGED accepted
            \/ \E d \in Domains : FinalizeAuthentication(d) \/ VerifyPeerCertificate(d)
            \/ \E q \in Participants : ReturnLocalIdentity(q)
        BY DEF Next, InitAuthentication, Begin, PassStep, FailStep, EmptyTrustedCAs, FillTrustedCAs,
               CheckTrust, FindOwnCa, RegisterLocal, LoadPeerCertificate
      <3>2. ~UNCHANGED accepted
        OBVIOUS
      <3>. QED  BY <2>1, <2>2, <3>1, <3>2
    <2>4. PICK d \in Domains : VerifyPeerCertificate(d)
      BY <2>3
    <2>5. /\ loading[d] # NoLoad
          /\ PeerTrusted(loading[d].by, loading[d].cert, trusted[d])
          /\ accepted' = [accepted EXCEPT ![loading[d].by] = @ \union {loading[d].cert}]
      BY <2>4 DEF VerifyPeerCertificate
    <2>6. loading[d].by = p /\ loading[d].cert = cert
      BY <2>0, <2>5
    <2>7. DomainOf[p] = d
      BY <2>5, <2>6 DEF LoadsOK
    <2>8. PeerTrusted(p, cert, trusted[d])
      BY <2>5, <2>6
    <2>9. trusted[d] # {}
      BY <2>8 DEF PeerTrusted, Verifies
    <2>10. cert.ca \in trusted[d]
      BY <2>8, <2>9 DEF PeerTrusted, Verifies
    <2>. QED  BY <2>5, <2>6, <2>7, <2>9, <2>10 DEF LoadsOK
  <1>3. [][Only]_vars <=> RevokedOnlyAsListArrives
    BY DEF RevokedOnlyAsListArrives
  <1>. QED  BY <1>1, <1>2, <1>3, DomainInvHolds, LoadsInductive, PTL DEF Spec

\* A list of trusted CAs is always the whole of one directory that a participant of the
\* running instance names.
THEOREM TrustedIsWhole == Spec => []TrustedIsOneDirectory
  <1>1. Init => TrustedIsOneDirectory
    BY DEF Init, TrustedIsOneDirectory
  <1>2. DomainInv /\ InsideOK /\ TrustedIsOneDirectory /\ [Next]_vars => TrustedIsOneDirectory'
    <2> SUFFICES ASSUME DomainInv, InsideOK, TrustedIsOneDirectory, [Next]_vars,
                        NEW d \in Domains, trusted'[d] # {}
                 PROVE  /\ d \in running'
                        /\ \E p \in Members(d) : /\ DirOf[p] # None /\ Readable(DirOf[p])
                                                 /\ trusted'[d] = Contents[DirOf[p]]
      BY DEF TrustedIsOneDirectory
    <2>0. trusted \in [Domains -> SUBSET UNION {Contents[dir] :
                         dir \in {r \in DOMAIN Contents : Contents[r] # None}}]
      BY DEF DomainInv, TypeOK
    <2>1. CASE UNCHANGED trusted /\ running \subseteq running'
      BY <2>1 DEF TrustedIsOneDirectory
    <2>2. ASSUME NEW e \in Domains, FinalizeAuthentication(e)
          PROVE  trusted'[d] = trusted[d] /\ running' = running \ {e} /\ d # e
      BY <2>0, <2>2 DEF FinalizeAuthentication, NoTrusted
    <2>3. ASSUME NEW p \in Participants, EmptyTrustedCAs(p)
          PROVE  trusted'[d] = trusted[d] /\ running' = running
      BY <2>0, <2>3 DEF EmptyTrustedCAs, instance
    <2>4. ASSUME NEW p \in Participants, FillTrustedCAs(p)
          PROVE  \/ trusted'[d] = trusted[d] /\ running' = running
                 \/ /\ d \in running' /\ p \in Members(d)
                    /\ DirOf[p] # None /\ Readable(DirOf[p]) /\ trusted'[d] = Contents[DirOf[p]]
      <3>1. AtStep(p, "trusted_ca") /\ p \in inside /\ running' = running
        BY <2>4 DEF FillTrustedCAs, instance
      <3>2. DomainOf[p] \in running
        BY <3>1, StepTable DEF AtStep, DomainInv, CallsHold
      <3>3. DirOf[p] # None /\ Readable(DirOf[p])
        <4>1. ~AtStep(p, "trust")
          BY <3>1 DEF AtStep
        <4>. QED  BY <3>1, <4>1 DEF InsideOK
      <3>4. trusted' = [trusted EXCEPT ![DomainOf[p]] = Contents[DirOf[p]]]
        BY <2>4 DEF FillTrustedCAs
      <3>5. CASE DomainOf[p] # d
        BY <2>0, <3>1, <3>4, <3>5
      <3>6. CASE DomainOf[p] = d
        BY <2>0, <3>1, <3>2, <3>3, <3>4, <3>6 DEF Members
      <3>. QED  BY <3>5, <3>6
    <2>5. \/ UNCHANGED trusted /\ running \subseteq running'
          \/ \E e \in Domains : FinalizeAuthentication(e)
          \/ \E p \in Participants : EmptyTrustedCAs(p) \/ FillTrustedCAs(p)
      BY DEF vars, instance, Next, InitAuthentication, Begin, PassStep, FailStep, CheckTrust, FindOwnCa,
             RegisterLocal, ReturnLocalIdentity, LoadPeerCertificate, VerifyPeerCertificate
    <2>. QED  BY <2>1, <2>2, <2>3, <2>4, <2>5 DEF TrustedIsOneDirectory
  <1>. QED  BY <1>1, <1>2, DomainInvHolds, PTL DEF Spec
==============================================================================
