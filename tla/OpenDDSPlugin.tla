---------------------------- MODULE OpenDDSPlugin ----------------------------
(***************************************************************************)
(* The life of the OpenDDS plugin in one process                           *)
(* (src/adapters/opendds/src/Plugin.cpp) and the fallback to another       *)
(* OpenSSL provider (ProviderFallback in Crypto.cpp).                      *)
(*                                                                         *)
(* The service configurator loads the plugin into the security registry;   *)
(* the plugin holds one Authentication object and hands it, by reference   *)
(* count, to every domain participant.  Shutting the registry down drops   *)
(* the plugin's reference, and whoever holds the last one destroys the     *)
(* object and with it its fallback provider.  A registry that was shut     *)
(* down may be set up again while participants still hold the old object.  *)
(***************************************************************************)
EXTENDS OpenSSLProviders, FiniteSets

CONSTANTS
  Objects,       \* the Authentication objects that may exist at one time
  Participants,  \* domain participants
  KemOf,         \* KemOf[d]: the KEM that d's QoS selects
  ProviderOf,    \* ProviderOf[d]: the provider that d's QoS or the environment names
  None           \* nothing: a null pointer, an empty provider name

Outcomes == {"none", "validated", "refused"}

\* What a participant may hold: an object and what the validation with it came to.
Handed == [object : Objects, outcome : Outcomes]

ASSUME ConfigurationAssumption ==
  /\ DOMAIN KemOf = Participants
  /\ DOMAIN ProviderOf = Participants
  /\ IsFiniteSet(Objects)
  /\ None \notin Objects \union Providers \union Handed

VARIABLES
  registered,   \* the object of the plugin the registry knows, or None
  provider,     \* provider[a]: provider_ of object a, or None
  user          \* user[d]: what participant d holds, or None

vars == <<activations, registered, provider, user>>

Init ==
  /\ activations = NothingLoaded
  /\ registered = None
  /\ provider = [a \in Objects |-> None]
  /\ user = [d \in Participants |-> None]

\* Whether a reference to object a is left when the registry holds r and the
\* participants hold u.
Referenced(a, r, u) == r = a \/ \E d \in Participants : u[d] # None /\ u[d].object = a

Unused == {a \in Objects : ~Referenced(a, registered, user)}

----------------------------------------------------------------------------

\* PQSecPluginLoader::init; a plugin that is registered already stays.
LoadPlugin ==
  /\ registered = None
  /\ \E a \in Unused : registered' = a
  /\ UNCHANGED <<activations, provider, user>>

\* create_authentication, for a new participant; a nil object starts nothing.
CreateAuthentication(d) ==
  /\ registered # None
  /\ user[d] = None
  /\ user' = [user EXCEPT ![d] = [object |-> registered, outcome |-> "none"]]
  /\ UNCHANGED <<activations, registered, provider>>

\* Mutant: another provider name replaces the provider loaded before.
ReplacesProvider(a, kem, name) ==
  IF Supported(activations, kem) \/ name \notin Installed
  THEN [provider |-> provider[a], active |-> activations]
  ELSE [provider |-> name,
        active |-> Loaded(IF provider[a] = None THEN activations
                                                ELSE Unloaded(activations, provider[a]), name)]

\* ensure_algorithm: provider_ and the activations after it.  It loads at most one
\* provider in the life of the object and keeps it even if it does not help.
EnsureAlgorithm(a, kem, name) ==
  IF Supported(activations, kem) \/ provider[a] # None \/ name \notin Installed
  THEN [provider |-> provider[a], active |-> activations]
  ELSE [provider |-> name, active |-> Loaded(activations, name)]

\* validate_local_identity, once the credentials are loaded.
ValidateLocalIdentity(d) ==
  LET a == user[d].object
      ensured == EnsureAlgorithm(a, KemOf[d], ProviderOf[d])
  IN
  /\ user[d] # None
  /\ user[d].outcome # "validated"
  /\ provider' = [provider EXCEPT ![a] = ensured.provider]
  /\ activations' = ensured.active
  /\ user' = [user EXCEPT ![d].outcome =
       IF Supported(ensured.active, KemOf[d]) THEN "validated" ELSE "refused"]
  /\ UNCHANGED registered

\* Mutant: the destructor forgets the provider without unloading it.
ForgetsProvider(a, r, u) ==
  /\ provider' = [provider EXCEPT ![a] = IF Referenced(a, r, u) THEN @ ELSE None]
  /\ UNCHANGED activations

\* Mutant: the object is never destroyed.
LeaksObject(a, r, u) == UNCHANGED <<provider, activations>>

\* ~ProviderFallback, if the last reference to a is gone.
DestroyIfUnused(a, r, u) ==
  IF Referenced(a, r, u) \/ provider[a] = None
  THEN UNCHANGED <<provider, activations>>
  ELSE /\ provider' = [provider EXCEPT ![a] = None]
       /\ activations' = Unloaded(activations, provider[a])

\* The participant is deleted.
ReleaseAuthentication(d) ==
  LET left == [user EXCEPT ![d] = None] IN
  /\ user[d] # None
  /\ user' = left
  /\ DestroyIfUnused(user[d].object, registered, left)
  /\ UNCHANGED registered

\* shutdown, when the registry closes and forgets its plugins.
ShutDown ==
  /\ registered # None
  /\ registered' = None
  /\ DestroyIfUnused(registered, None, user)
  /\ UNCHANGED user

Next ==
  \/ LoadPlugin
  \/ ShutDown
  \/ \E d \in Participants :
       \/ CreateAuthentication(d)
       \/ ValidateLocalIdentity(d)
       \/ ReleaseAuthentication(d)

Spec == Init /\ [][Next]_vars

----------------------------------------------------------------------------
(* Properties. *)

\* Participants hold existing objects, and only objects in use hold a provider.
TypeOK ==
  /\ activations \in [Providers -> Nat]
  /\ registered \in Objects \union {None}
  /\ provider \in [Objects -> Installed \union {None}]
  /\ user \in [Participants -> Handed \union {None}]
  /\ \A a \in Unused : provider[a] = None

\* A provider is active exactly as often as living objects hold it, in whatever order
\* participants and registry let go: none stays loaded for a destroyed object and
\* none is unloaded under another object that holds it (ProviderFallback).
ActivationsAreHeld ==
  \A p \in Providers : activations[p] = Cardinality({a \in Objects : provider[a] = p})

\* What a validated participant relies on is taken away only by the end of another
\* object: its own keeps the provider it loaded until its last user is gone ("the
\* provider remains loaded until all EVP keys are gone"), whatever other participants
\* ask for and whenever the registry is shut down.  An object that found the KEM
\* available loads nothing, so it does depend on the object that loaded the provider.
KemGoesWithAnotherObject ==
  [][\A d \in Participants :
       /\ user[d] # None /\ user[d].outcome = "validated" /\ user'[d] = user[d]
       /\ Supported(activations, KemOf[d]) /\ ~Supported(activations', KemOf[d])
       => \E a \in Objects \ {user[d].object} :
            /\ provider[a] # None /\ KemOf[d] \in Exposes[provider[a]]
            /\ ~Referenced(a, registered', user')]_vars

=============================================================================
