-------------------------- MODULE OpenDDSPluginProofs --------------------------
(* Proofs about the life of the OpenDDS plugin and its fallback providers, for *)
(* any number of participants, Authentication objects and providers.           *)
EXTENDS OpenDDSPlugin, FiniteSetTheorems, TLAPS

\* The objects that hold provider p.
Holders(p) == {a \in Objects : provider[a] = p}

\* What is released has to be counted: types alone are not inductive.
Inv == TypeOK /\ ActivationsAreHeld

----------------------------------------------------------------------------
(* Counting. *)

\* The objects that hold a provider are finitely many.
LEMMA HoldersAreFinite ==
  ASSUME NEW p
  PROVE  IsFiniteSet(Holders(p)) /\ Cardinality(Holders(p)) \in Nat
BY ConfigurationAssumption, FS_Subset, FS_CardinalityType DEF Holders

\* An object that had no provider and loads one makes it active once more.
LEMMA LoadingKeepsCount ==
  ASSUME activations \in [Providers -> Nat], provider \in [Objects -> Installed \union {None}],
         ActivationsAreHeld,
         NEW a \in Objects, NEW name \in Installed, provider[a] = None,
         provider' = [provider EXCEPT ![a] = name], activations' = Loaded(activations, name)
  PROVE  /\ activations' \in [Providers -> Nat]
         /\ provider' \in [Objects -> Installed \union {None}]
         /\ ActivationsAreHeld'
<1>1. name \in Providers /\ name # None
  BY ProvidersAssumption, ConfigurationAssumption
<1>2. activations' \in [Providers -> Nat]
  BY <1>1 DEF Loaded
<1>3. provider' \in [Objects -> Installed \union {None}]
  OBVIOUS
<1>4. ASSUME NEW p \in Providers PROVE activations'[p] = Cardinality(Holders(p)')
  <2>1. activations[p] = Cardinality(Holders(p))
    BY DEF ActivationsAreHeld, Holders
  <2>2. CASE p = name
    <3>1. Holders(p)' = Holders(p) \union {a} /\ a \notin Holders(p)
      BY <1>1, <2>2 DEF Holders
    <3>2. Cardinality(Holders(p)') = Cardinality(Holders(p)) + 1
      BY <3>1, HoldersAreFinite, FS_AddElement
    <3> QED BY <1>1, <2>1, <2>2, <3>2 DEF Loaded
  <2>3. CASE p # name
    <3>1. Holders(p)' = Holders(p)
      BY ConfigurationAssumption, <2>3 DEF Holders
    <3> QED BY <1>1, <2>1, <2>3, <3>1 DEF Loaded
  <2> QED BY <2>2, <2>3
<1> QED BY <1>2, <1>3, <1>4 DEF ActivationsAreHeld, Holders

\* An object that goes makes its provider active once less, but not less than never.
LEMMA UnloadingKeepsCount ==
  ASSUME activations \in [Providers -> Nat], provider \in [Objects -> Installed \union {None}],
         ActivationsAreHeld,
         NEW a \in Objects, provider[a] # None,
         provider' = [provider EXCEPT ![a] = None],
         activations' = Unloaded(activations, provider[a])
  PROVE  /\ activations' \in [Providers -> Nat]
         /\ provider' \in [Objects -> Installed \union {None}]
         /\ ActivationsAreHeld'
<1> DEFINE name == provider[a]
<1>1. name \in Providers /\ name # None
  BY ProvidersAssumption
<1>2. ASSUME NEW p \in Providers
      PROVE  activations'[p] \in Nat /\ activations'[p] = Cardinality(Holders(p)')
  <2>1. activations[p] = Cardinality(Holders(p)) /\ activations[p] \in Nat
    BY DEF ActivationsAreHeld, Holders
  <2>2. CASE p = name
    <3>1. Holders(p)' = Holders(p) \ {a} /\ a \in Holders(p)
      BY <1>1, <2>2 DEF Holders
    <3>2. Cardinality(Holders(p)') = Cardinality(Holders(p)) - 1
      BY <3>1, HoldersAreFinite, FS_RemoveElement
    <3>3. Cardinality(Holders(p)) # 0
      BY <3>1, HoldersAreFinite, FS_EmptySet
    <3>4. activations'[p] = activations[p] - 1
      BY <1>1, <2>2 DEF Unloaded
    <3> QED BY <2>1, <3>2, <3>3, <3>4
  <2>3. CASE p # name
    <3>1. Holders(p)' = Holders(p)
      BY ConfigurationAssumption, <2>3 DEF Holders
    <3>2. activations'[p] = activations[p]
      BY <1>1, <2>3 DEF Unloaded
    <3> QED BY <2>1, <3>1, <3>2
  <2> QED BY <2>2, <2>3
<1>3. activations' \in [Providers -> Nat]
  BY <1>2 DEF Unloaded
<1>4. provider' \in [Objects -> Installed \union {None}]
  OBVIOUS
<1> QED BY <1>2, <1>3, <1>4 DEF ActivationsAreHeld, Holders

----------------------------------------------------------------------------
(* The steps. *)

\* When an object loses its last reference it gives its provider back.
LEMMA DestroyKeepsInv ==
  ASSUME Inv, NEW a \in Objects, DestroyIfUnused(a, registered', user'),
         registered' \in Objects \union {None},
         user' \in [Participants -> Handed \union {None}],
         \A b \in Objects \ {a} : Referenced(b, registered, user) => Referenced(b, registered', user')
  PROVE  Inv'
<1>1. /\ activations' \in [Providers -> Nat]
      /\ provider' \in [Objects -> Installed \union {None}]
      /\ ActivationsAreHeld'
      /\ \A b \in Objects : provider'[b] = provider[b] \/ provider'[b] = None
      /\ ~Referenced(a, registered', user') => provider'[a] = None
  <2>1. CASE Referenced(a, registered', user') \/ provider[a] = None
    BY <2>1 DEF DestroyIfUnused, Inv, TypeOK, ActivationsAreHeld
  <2>2. CASE ~(Referenced(a, registered', user') \/ provider[a] = None)
    <3>1. /\ provider' = [provider EXCEPT ![a] = None]
          /\ activations' = Unloaded(activations, provider[a])
      BY <2>2 DEF DestroyIfUnused
    <3> QED BY <2>2, <3>1, UnloadingKeepsCount DEF Inv, TypeOK
  <2> QED BY <2>1, <2>2
<1>2. ASSUME NEW b \in Unused' PROVE provider'[b] = None
  <2>1. b \in Objects /\ ~Referenced(b, registered', user')
    BY DEF Unused
  <2>2. CASE b = a
    BY <1>1, <2>1, <2>2
  <2>3. CASE b # a
    BY <1>1, <2>1, <2>3 DEF Unused, Inv, TypeOK
  <2> QED BY <2>2, <2>3
<1> QED BY <1>1, <1>2 DEF Inv, TypeOK

\* The invariant holds when nothing is loaded.
LEMMA InitInv == Init => Inv
<1> SUFFICES ASSUME Init PROVE Inv
  OBVIOUS
<1>1. TypeOK
  BY DEF Init, TypeOK, NothingLoaded, Unused
<1>2. ASSUME NEW p \in Providers PROVE activations[p] = Cardinality(Holders(p))
  <2>1. Holders(p) = {}
    BY ConfigurationAssumption DEF Init, Holders
  <2> QED BY <2>1, FS_EmptySet DEF Init, NothingLoaded
<1> QED BY <1>1, <1>2 DEF Inv, ActivationsAreHeld, Holders

\* init takes an object that nobody refers to.
LEMMA LoadPluginKeepsInv == Inv /\ LoadPlugin => Inv'
<1> SUFFICES ASSUME Inv, LoadPlugin PROVE Inv'
  OBVIOUS
<1>1. registered' \in Objects /\ registered = None /\ UNCHANGED <<activations, provider, user>>
  BY DEF LoadPlugin, Unused
<1>2. Unused' \subseteq Unused
  BY <1>1, ConfigurationAssumption DEF Unused, Referenced
<1> QED BY <1>1, <1>2 DEF Inv, TypeOK, ActivationsAreHeld

\* create_authentication adds a reference.
LEMMA CreateAuthenticationKeepsInv ==
  ASSUME Inv, NEW d \in Participants, CreateAuthentication(d)
  PROVE  Inv'
<1>1. /\ registered \in Objects
      /\ user' = [user EXCEPT ![d] = [object |-> registered, outcome |-> "none"]]
      /\ UNCHANGED <<activations, registered, provider>>
  BY DEF CreateAuthentication, Inv, TypeOK
<1>2. [object |-> registered, outcome |-> "none"] \in Handed
  BY <1>1 DEF Handed, Outcomes
<1>3. user' \in [Participants -> Handed \union {None}]
  BY <1>1, <1>2 DEF Inv, TypeOK
<1>4. \A b \in Objects : Referenced(b, registered, user) => Referenced(b, registered', user')
  BY <1>1 DEF Referenced, CreateAuthentication, Inv, TypeOK
<1> QED BY <1>1, <1>3, <1>4 DEF Inv, TypeOK, ActivationsAreHeld, Unused

\* validate_local_identity loads a provider for the object that d holds, at most.
LEMMA ValidateLocalIdentityKeepsInv ==
  ASSUME Inv, NEW d \in Participants, ValidateLocalIdentity(d)
  PROVE  Inv'
<1> DEFINE a == user[d].object
           ensured == EnsureAlgorithm(a, KemOf[d], ProviderOf[d])
           outcome == IF Supported(ensured.active, KemOf[d]) THEN "validated" ELSE "refused"
<1>1. user[d] \in Handed /\ user[d] # None /\ a \in Objects
  BY DEF ValidateLocalIdentity, Inv, TypeOK, Handed
<1>2. /\ provider' = [provider EXCEPT ![a] = ensured.provider]
      /\ activations' = ensured.active
      /\ user' = [user EXCEPT ![d].outcome = outcome]
      /\ UNCHANGED registered
  BY DEF ValidateLocalIdentity
<1>3. /\ activations' \in [Providers -> Nat]
      /\ provider' \in [Objects -> Installed \union {None}]
      /\ ActivationsAreHeld'
      /\ \A b \in Objects \ {a} : provider'[b] = provider[b]
  <2>1. CASE Supported(activations, KemOf[d]) \/ provider[a] # None \/ ProviderOf[d] \notin Installed
    <3>1. UNCHANGED <<provider, activations>>
      BY <1>1, <1>2, <2>1 DEF EnsureAlgorithm, Inv, TypeOK
    <3> QED BY <3>1 DEF Inv, TypeOK, ActivationsAreHeld
  <2>2. CASE ~(Supported(activations, KemOf[d]) \/ provider[a] # None \/ ProviderOf[d] \notin Installed)
    <3>1. /\ provider' = [provider EXCEPT ![a] = ProviderOf[d]]
          /\ activations' = Loaded(activations, ProviderOf[d])
      BY <1>2, <2>2 DEF EnsureAlgorithm
    <3>2. ProviderOf[d] \in Installed /\ provider[a] = None
      BY <2>2
    <3> QED BY <1>1, <3>1, <3>2, LoadingKeepsCount DEF Inv, TypeOK
  <2> QED BY <2>1, <2>2
<1>4. /\ user'[d] \in Handed /\ user'[d] # None /\ user'[d].object = a
      /\ \A e \in Participants \ {d} : user'[e] = user[e]
      /\ user' \in [Participants -> Handed \union {None}]
  <2>1. outcome \in Outcomes
    BY DEF Outcomes
  <2> HIDE DEF outcome
  <2>2. [user[d] EXCEPT !.outcome = outcome] \in Handed
        /\ [user[d] EXCEPT !.outcome = outcome].object = a
    BY <1>1, <2>1 DEF Handed
  <2>3. user' = [user EXCEPT ![d] = [user[d] EXCEPT !.outcome = outcome]]
    BY <1>2 DEF Inv, TypeOK
  <2> QED BY <2>2, <2>3, ConfigurationAssumption DEF Inv, TypeOK
<1>5. \A b \in Objects : Referenced(b, registered, user) => Referenced(b, registered', user')
  BY <1>2, <1>4 DEF Referenced
<1>6. ASSUME NEW b \in Unused' PROVE provider'[b] = None
  <2>1. b # a
    BY <1>1, <1>4 DEF Unused, Referenced
  <2> QED BY <1>3, <1>5, <2>1 DEF Unused, Inv, TypeOK
<1> QED BY <1>2, <1>3, <1>4, <1>6 DEF Inv, TypeOK

\* A participant that goes takes one reference to its own object along.
LEMMA ReleaseAuthenticationKeepsInv ==
  ASSUME Inv, NEW d \in Participants, ReleaseAuthentication(d)
  PROVE  Inv'
<1>1. user[d] \in Handed /\ user[d].object \in Objects
  BY DEF ReleaseAuthentication, Inv, TypeOK, Handed
<1>2. /\ user' = [user EXCEPT ![d] = None] /\ UNCHANGED registered
      /\ DestroyIfUnused(user[d].object, registered', user')
  BY DEF ReleaseAuthentication
<1>3. user' \in [Participants -> Handed \union {None}] /\ registered' \in Objects \union {None}
  BY <1>2 DEF Inv, TypeOK
<1>4. \A b \in Objects \ {user[d].object} :
        Referenced(b, registered, user) => Referenced(b, registered', user')
  BY <1>2 DEF Referenced, Inv, TypeOK
<1> QED BY <1>1, <1>2, <1>3, <1>4, DestroyKeepsInv

\* shutdown gives up the reference of the registry.
LEMMA ShutDownKeepsInv == Inv /\ ShutDown => Inv'
<1> SUFFICES ASSUME Inv, ShutDown PROVE Inv'
  OBVIOUS
<1>1. /\ registered \in Objects /\ registered' = None /\ UNCHANGED user
      /\ DestroyIfUnused(registered, registered', user')
  BY DEF ShutDown, Inv, TypeOK
<1>2. \A b \in Objects \ {registered} :
        Referenced(b, registered, user) => Referenced(b, registered', user')
  BY <1>1 DEF Referenced
<1> QED BY <1>1, <1>2, DestroyKeepsInv DEF Inv, TypeOK

----------------------------------------------------------------------------
(* The theorems. *)

\* Every step keeps the invariant.
LEMMA NextKeepsInv == Inv /\ [Next]_vars => Inv'
<1>1. Inv /\ UNCHANGED vars => Inv'
  BY DEF vars, Inv, TypeOK, ActivationsAreHeld, Unused, Referenced
<1> QED
  BY <1>1, LoadPluginKeepsInv, ShutDownKeepsInv, CreateAuthenticationKeepsInv,
     ValidateLocalIdentityKeepsInv, ReleaseAuthenticationKeepsInv DEF Next

\* Participants hold objects that exist, and only objects in use hold a provider.
THEOREM TypeCorrect == Spec => []TypeOK
<1>1. Inv => TypeOK
  BY DEF Inv
<1> QED BY <1>1, InitInv, NextKeepsInv, PTL DEF Spec

\* Providers are loaded and unloaded in pairs, whoever holds the last reference to an
\* Authentication object (ProviderFallback).
THEOREM ActivationsCorrect == Spec => []ActivationsAreHeld
<1>1. Inv => ActivationsAreHeld
  BY DEF Inv
<1> QED BY <1>1, InitInv, NextKeepsInv, PTL DEF Spec

\* Destroying object a takes KEMs away that a's provider supplied, and no others.
LEMMA OnlyItsKemsGo ==
  ASSUME TypeOK, NEW a \in Objects, NEW r, NEW u, DestroyIfUnused(a, r, u),
         NEW kem, Supported(activations, kem), ~Supported(activations', kem)
  PROVE  provider[a] # None /\ kem \in Exposes[provider[a]] /\ ~Referenced(a, r, u)
<1>1. /\ ~Referenced(a, r, u) /\ provider[a] # None
      /\ activations' = Unloaded(activations, provider[a])
  BY DEF DestroyIfUnused
<1>2. PICK p \in Providers : activations[p] > 0 /\ kem \in Exposes[p] /\ ~(activations'[p] > 0)
  BY DEF Supported
<1>3. p = provider[a]
  BY <1>1, <1>2 DEF Unloaded, TypeOK
<1> QED BY <1>1, <1>2, <1>3

\* Loading a provider takes no KEM away.
LEMMA LoadingTakesNothing ==
  ASSUME TypeOK, NEW a, NEW name, NEW k, NEW kem, Supported(activations, kem)
  PROVE  Supported(EnsureAlgorithm(a, k, name).active, kem)
<1>1. CASE EnsureAlgorithm(a, k, name).active = activations
  BY <1>1
<1>2. CASE EnsureAlgorithm(a, k, name).active = Loaded(activations, name) /\ name \in Installed
  <2>1. name \in Providers
    BY <1>2, ProvidersAssumption
  <2>2. \A p \in Providers : activations[p] > 0 => Loaded(activations, name)[p] > 0
    BY <2>1 DEF Loaded, TypeOK
  <2> QED BY <1>2, <2>2 DEF Supported
<1> QED BY <1>1, <1>2 DEF EnsureAlgorithm

\* A participant that is validated loses its KEM only through the end of an object other
\* than its own (~ProviderFallback).
THEOREM KemsGoWithOthers == Spec => KemGoesWithAnotherObject
<1> DEFINE A == \A d \in Participants :
       /\ user[d] # None /\ user[d].outcome = "validated" /\ user'[d] = user[d]
       /\ Supported(activations, KemOf[d]) /\ ~Supported(activations', KemOf[d])
       => \E a \in Objects \ {user[d].object} :
            /\ provider[a] # None /\ KemOf[d] \in Exposes[provider[a]]
            /\ ~Referenced(a, registered', user')
<1>1. Inv /\ [Next]_vars => [A]_vars
  <2> SUFFICES ASSUME Inv, Next,
                      NEW d \in Participants, user[d] # None, user'[d] = user[d],
                      Supported(activations, KemOf[d]), ~Supported(activations', KemOf[d])
               PROVE  \E a \in Objects \ {user[d].object} :
                        /\ provider[a] # None /\ KemOf[d] \in Exposes[provider[a]]
                        /\ ~Referenced(a, registered', user')
    OBVIOUS
  <2>0. TypeOK
    BY DEF Inv
  <2>1. ASSUME NEW a \in Objects, DestroyIfUnused(a, registered', user')
        PROVE  \E b \in Objects \ {user[d].object} :
                 /\ provider[b] # None /\ KemOf[d] \in Exposes[provider[b]]
                 /\ ~Referenced(b, registered', user')
    <3>1. provider[a] # None /\ KemOf[d] \in Exposes[provider[a]] /\ ~Referenced(a, registered', user')
      BY <2>0, <2>1, OnlyItsKemsGo
    <3>2. a # user[d].object
      BY <3>1 DEF Referenced
    <3> QED BY <3>1, <3>2
  <2>2. CASE ShutDown
    <3>1. registered \in Objects /\ DestroyIfUnused(registered, registered', user')
      BY <2>0, <2>2 DEF ShutDown, TypeOK
    <3> QED BY <2>1, <3>1
  <2>3. ASSUME NEW e \in Participants, ReleaseAuthentication(e)
        PROVE  \E b \in Objects \ {user[d].object} :
                 /\ provider[b] # None /\ KemOf[d] \in Exposes[provider[b]]
                 /\ ~Referenced(b, registered', user')
    <3>1. user[e].object \in Objects /\ DestroyIfUnused(user[e].object, registered', user')
      BY <2>0, <2>3 DEF ReleaseAuthentication, TypeOK, Handed
    <3> QED BY <2>1, <3>1
  <2>4. ASSUME NEW e \in Participants, ValidateLocalIdentity(e) PROVE FALSE
    BY <2>0, <2>4, LoadingTakesNothing DEF ValidateLocalIdentity
  <2>5. CASE LoadPlugin \/ \E e \in Participants : CreateAuthentication(e)
    BY <2>5 DEF LoadPlugin, CreateAuthentication
  <2> QED BY <2>2, <2>3, <2>4, <2>5 DEF Next
<1> QED BY <1>1, InitInv, NextKeepsInv, PTL DEF Spec, KemGoesWithAnotherObject
=============================================================================
