--------------------------- MODULE OpenSSLProviders ---------------------------
(***************************************************************************)
(* The OpenSSL providers of one process, as far as both adapters use them: *)
(* which KEM algorithms OpenSSL can find (EVP_PKEY_CTX_new_from_name), and *)
(* OSSL_PROVIDER_try_load and OSSL_PROVIDER_unload.  Providers are process-*)
(* wide and counted: a provider is active while it was loaded more often   *)
(* than it was unloaded.                                                   *)
(***************************************************************************)
EXTENDS Naturals

CONSTANTS
  Providers,   \* provider names
  Installed,   \* those whose module OpenSSL finds
  Exposes,     \* Exposes[p]: the KEMs that provider p supplies
  Native       \* the KEMs of OpenSSL's default provider, which is always active

ASSUME ProvidersAssumption ==
  /\ Installed \subseteq Providers
  /\ DOMAIN Exposes = Providers

VARIABLE activations   \* activations[p]: loads of p not yet undone

NothingLoaded == [p \in Providers |-> 0]

\* openssl_supports and pqsec_kem_is_available, when `active` are the activations.
Supported(active, kem) ==
  \/ kem \in Native
  \/ \E p \in Providers : active[p] > 0 /\ kem \in Exposes[p]

Loaded(active, p) == [active EXCEPT ![p] = @ + 1]

Unloaded(active, p) == [active EXCEPT ![p] = @ - 1]
=============================================================================
