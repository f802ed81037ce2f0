---------------------------- MODULE CycloneDomain ----------------------------
(***************************************************************************)
(* The plugin instances of the CycloneDDS adapter in one process           *)
(* (src/adapters/cyclonedds/src/authentication.c): each domain initialises *)
(* and finalises one, which checks its KEM and may load a provider for it; *)
(* local participants are validated step by step, because                  *)
(* validate_local_identity runs without the lock; and the list of trusted  *)
(* CAs, which every call that names a directory replaces for the whole     *)
(* instance, decides with each participant's own CA and CRL which peer     *)
(* certificates are accepted.                                              *)
(*                                                                         *)
(* validate_local_identity reads and replaces the list without the lock,   *)
(* so both are taken apart into the accesses others can come between.      *)
(* What the call holds is followed, to check what a failing step leaves.   *)
(***************************************************************************)
EXTENDS OpenSSLProviders, FiniteSets, Sequences

CONSTANTS
  Domains,       \* plugin instances, one per DDS domain of the process
  Participants,  \* local participants
  DomainOf,      \* DomainOf[p]: the domain p belongs to
  Kem,           \* the KEM the plugin was compiled for, or None if it is unknown
  ProviderOf,    \* ProviderOf[d]: PQSEC_OPENSSL_PROVIDER or PQSEC_FALLBACK_PROVIDER
  CaOf,          \* CaOf[p]: the identity CA in p's QoS, which issued p's certificate
  HasCrl,        \* participants whose QoS has a CRL of their CA
  DirOf,         \* DirOf[p]: the trusted CA directory in p's QoS, or None
  Contents,      \* Contents[dir]: the CAs in it, one file each; None if it cannot be read
  MaxTrusted,    \* MAX_TRUSTED_CA
  Certificates,  \* peer certificates: records of issuing CA and revoked (by its CRL)
  None           \* nothing

ASSUME ConfigurationAssumption ==
  /\ IsFiniteSet(Domains)
  /\ DomainOf \in [Participants -> Domains]
  /\ DOMAIN CaOf = Participants
  /\ HasCrl \subseteq Participants
  /\ DOMAIN DirOf = Participants
  /\ \A p \in Participants : DirOf[p] \in DOMAIN Contents \union {None}
  /\ DOMAIN ProviderOf = Domains
  /\ MaxTrusted \in Nat \ {0}
  /\ None \notin Providers /\ None \notin Participants

VARIABLES
  running,    \* instances between init_authentication and finalize_authentication
  provider,   \* provider[d]: fallback_provider of d's instance, or None
  trusted,    \* trusted[d]: trustedCAList, the set of CAs in it
  call,       \* call[p]: p's last validate_local_identity
  inside,     \* participants between the two accesses to the list in a step of their call
  local,      \* local[p]: the LocalIdentityInfo is registered
  loading,    \* loading[d]: the peer certificate being checked, under the lock of d's
              \* instance: whose check, and (history) whether the list was filled meanwhile
  accepted    \* accepted[p]: peer certificates p has accepted since it was validated

vars == <<activations, running, provider, trusted, call, inside, local, loading, accepted>>

instance == <<activations, running, provider>>

(***************************************************************************)
(* validate_local_identity obtains one thing after the other.  A call is   *)
(* at its nth step, past the last one, or back with a result; it holds     *)
(* what it has allocated, and is wild once it freed what it did not hold.  *)
(***************************************************************************)
Steps == <<"identity_cert", "identity_ca", "private_key", "trusted_ca", "load_ca", "trust",
           "load_cert", "load_key", "match", "load_crl", "verify", "expiry", "guid">>

Registering == Len(Steps) + 1
Returned == Len(Steps) + 2

NoLoad == [by |-> None, cert |-> None, filled |-> FALSE]

NoCall == [at |-> Returned, holds |-> {}, wild |-> FALSE]

Init ==
  /\ activations = NothingLoaded
  /\ running = {}
  /\ provider = [d \in Domains |-> None]
  /\ trusted = [d \in Domains |-> {}]
  /\ call = [p \in Participants |-> NoCall]
  /\ inside = {}
  /\ local = [p \in Participants |-> FALSE]
  /\ loading = [d \in Domains |-> NoLoad]
  /\ accepted = [p \in Participants |-> {}]

----------------------------------------------------------------------------
(* The instance. *)

\* Mutant: the provider that does not help is forgotten but stays loaded.
ForgetsUselessProvider(d) ==
  IF Supported(activations, Kem) THEN [ok |-> TRUE, provider |-> None, active |-> activations]
  ELSE IF ProviderOf[d] \notin Installed THEN [ok |-> FALSE, provider |-> None, active |-> activations]
  ELSE LET active == Loaded(activations, ProviderOf[d])
           ok == Supported(active, Kem) IN
       [ok |-> ok, provider |-> IF ok THEN ProviderOf[d] ELSE None, active |-> active]

\* ensure_selected_kem_available: whether the KEM can be used, the provider that
\* stays loaded for it, and the activations.
EnsureKem(d) ==
  LET tried == Loaded(activations, ProviderOf[d])
      nothing(ok) == [ok |-> ok, provider |-> None, active |-> activations]
  IN
  IF Kem = None THEN nothing(FALSE)
  ELSE IF Supported(activations, Kem) THEN nothing(TRUE)
  ELSE IF ProviderOf[d] \in Installed /\ Supported(tried, Kem)
    THEN [ok |-> TRUE, provider |-> ProviderOf[d], active |-> tried]
    ELSE nothing(FALSE)   \* a provider that does not help is unloaded again

\* init_authentication; when the KEM is missing everything is freed again.
InitAuthentication(d) ==
  LET ensured == EnsureKem(d) IN
  /\ d \notin running
  /\ running' = IF ensured.ok THEN running \union {d} ELSE running
  /\ provider' = [provider EXCEPT ![d] = ensured.provider]
  /\ activations' = ensured.active
  /\ UNCHANGED <<trusted, call, inside, local, loading, accepted>>

Members(d) == {p \in Participants : DomainOf[p] = d}

\* Mutant: the list of trusted CAs survives in the next instance.
KeepsTrusted(d) == trusted[d]

\* free_ca_list_contents
NoTrusted(d) == {}

\* finalize_authentication, when no participant of the domain is inside a call: all
\* objects, the trusted CAs and the instance's own provider go.
FinalizeAuthentication(d) ==
  /\ d \in running
  /\ \A p \in Members(d) : call[p].at = Returned
  /\ loading[d] = NoLoad
  /\ running' = running \ {d}
  /\ activations' = IF provider[d] = None THEN activations ELSE Unloaded(activations, provider[d])
  /\ provider' = [provider EXCEPT ![d] = None]
  /\ trusted' = [trusted EXCEPT ![d] = NoTrusted(d)]
  /\ call' = [p \in Participants |-> IF p \in Members(d) THEN NoCall ELSE call[p]]
  /\ local' = [p \in Participants |-> local[p] /\ p \notin Members(d)]
  /\ accepted' = [p \in Participants |-> IF p \in Members(d) THEN {} ELSE accepted[p]]
  /\ UNCHANGED <<inside, loading>>

----------------------------------------------------------------------------
(* validate_local_identity: what each step obtains, and the label it jumps to *)
(* when it fails.                                                            *)

Optional(p, r) == IF r = "dir" THEN DirOf[p] # None
                  ELSE IF r \in {"crlPEM", "crl"} THEN p \in HasCrl ELSE TRUE

\* The optional properties are read before the step that can fail.
ReadBefore(p, step) ==
  {r \in CASE step = "trusted_ca" -> {"password", "dir"}
           [] step = "load_ca" -> {"crlPEM"}
           [] OTHER -> {} : Optional(p, r)}

Obtains(p, step) ==
  {r \in CASE step = "identity_cert" -> {"certPEM"}
           [] step = "identity_ca" -> {"caPEM"}
           [] step = "private_key" -> {"keyPEM"}
           [] step = "load_ca" -> {"ca"}
           [] step = "load_cert" -> {"cert"}
           [] step = "load_key" -> {"key"}
           [] step = "load_crl" -> {"crl"}
           [] OTHER -> {} : Optional(p, r)}

\* The labels at the end of the function, top to bottom, and what each frees.
Labels == <<"err_adj_guid_failed", "err_verification_failed", "err_inv_crl", "err_inv_private_key",
            "err_identity_ca_not_trusted", "err_inv_identity_ca", "err_inv_trusted_ca_dir",
            "err_no_private_key", "err_no_identity_ca", "err_no_identity_cert">>

Frees(label) ==
  CASE label = "err_verification_failed" -> {"crl"}
    [] label = "err_inv_crl" -> {"key"}
    [] label = "err_inv_private_key" -> {"cert"}
    [] label = "err_identity_ca_not_trusted" -> {"ca"}
    [] label = "err_inv_identity_ca" -> {"crlPEM"}
    [] label = "err_inv_trusted_ca_dir" -> {"password", "keyPEM", "dir"}
    [] label = "err_no_private_key" -> {"caPEM"}
    [] label = "err_no_identity_ca" -> {"certPEM"}
    [] OTHER -> {}

\* Mutant: a certificate that does not verify is treated like a missing CRL.
SkipsCrl(step) ==
  CASE step = "identity_cert" -> "err_no_identity_cert" [] step = "identity_ca" -> "err_no_identity_ca"
    [] step = "private_key" -> "err_no_private_key" [] step = "trusted_ca" -> "err_inv_trusted_ca_dir"
    [] step = "load_ca" -> "err_inv_identity_ca" [] step = "trust" -> "err_identity_ca_not_trusted"
    [] step = "load_cert" -> "err_identity_ca_not_trusted" [] step = "load_key" -> "err_inv_private_key"
    [] step \in {"match", "load_crl", "verify", "expiry"} -> "err_inv_crl"
    [] OTHER -> "err_adj_guid_failed"

LabelOf(step) ==
  CASE step = "identity_cert" -> "err_no_identity_cert"
    [] step = "identity_ca" -> "err_no_identity_ca"
    [] step = "private_key" -> "err_no_private_key"
    [] step = "trusted_ca" -> "err_inv_trusted_ca_dir"
    [] step = "load_ca" -> "err_inv_identity_ca"
    [] step \in {"trust", "load_cert"} -> "err_identity_ca_not_trusted"
    [] step = "load_key" -> "err_inv_private_key"
    [] step \in {"match", "load_crl"} -> "err_inv_crl"
    [] step \in {"verify", "expiry"} -> "err_verification_failed"
    [] step = "guid" -> "err_adj_guid_failed"

\* A label falls through to those below it.
FreedFrom(label) ==
  UNION {Frees(Labels[i]) : i \in {j \in DOMAIN Labels : \E k \in 1 .. j : Labels[k] = label}}

\* Optional pointers are null when there is nothing to free.
Nullable == {"password", "dir", "crlPEM", "crl"}

Begin(p) ==
  /\ DomainOf[p] \in running
  /\ ~local[p]
  /\ call[p].at = Returned
  /\ call' = [call EXCEPT ![p] = [at |-> 1, holds |-> {}, wild |-> FALSE]]
  /\ UNCHANGED <<instance, trusted, inside, local, loading, accepted>>

AtStep(p, step) == call[p].at \in DOMAIN Steps /\ Steps[call[p].at] = step

Advance(p, step) ==
  call' = [call EXCEPT ![p] =
    [at |-> @.at + 1, holds |-> @.holds \union ReadBefore(p, step) \union Obtains(p, step), wild |-> @.wild]]

TooLarge(dir) == Contents[dir] # None /\ ~(Cardinality(Contents[dir]) <= MaxTrusted)

\* The CAs get_trusted_ca_list has read when it meets one too many; no label knows of them.
Unlisted(p, step) ==
  IF step = "trusted_ca" /\ DirOf[p] # None /\ TooLarge(DirOf[p]) THEN {"ca_buf"} ELSE {}

\* Everything from the label down is freed; wild tells whether something was freed
\* that the call did not hold.
Fail(p, step) ==
  LET held == call[p].holds \union ReadBefore(p, step) \union Unlisted(p, step)
      freed == FreedFrom(LabelOf(step)) IN
  call' = [call EXCEPT ![p] = [at |-> Returned, holds |-> held \ freed,
                               wild |-> ~(freed \subseteq held \union Nullable)]]

\* Steps that depend on p's files only; any of them may fail.
OwnSteps == {Steps[i] : i \in DOMAIN Steps} \ {"trusted_ca", "trust"}

PassStep(p) ==
  /\ \E step \in OwnSteps : AtStep(p, step) /\ Advance(p, step)
  /\ UNCHANGED <<instance, trusted, inside, local, loading, accepted>>

FailStep(p) ==
  /\ \E step \in OwnSteps :
       /\ AtStep(p, step)
       /\ step = "load_crl" => p \in HasCrl
       /\ Fail(p, step)
  /\ UNCHANGED <<instance, trusted, inside, local, loading, accepted>>

\* Mutant: the directory may hold any number of CAs.
ReadableAtAnySize(dir) == Contents[dir] # None

Readable(dir) == Contents[dir] # None /\ ~TooLarge(dir)

\* get_trusted_ca_list reads the directory first, and fails before it touches the list;
\* then it frees the old list ...
EmptyTrustedCAs(p) ==
  LET d == DomainOf[p] dir == DirOf[p] IN
  /\ AtStep(p, "trusted_ca")
  /\ p \notin inside
  /\ IF dir # None /\ Readable(dir)
       THEN /\ trusted' = [trusted EXCEPT ![d] = {}]
            /\ inside' = inside \union {p}
            /\ UNCHANGED call
       ELSE /\ IF dir = None THEN Advance(p, "trusted_ca") ELSE Fail(p, "trusted_ca")
            /\ UNCHANGED <<trusted, inside>>
  /\ UNCHANGED <<instance, local, loading, accepted>>

\* ... and puts the new one in its place.
FillTrustedCAs(p) ==
  LET d == DomainOf[p] IN
  /\ AtStep(p, "trusted_ca")
  /\ p \in inside
  /\ trusted' = [trusted EXCEPT ![d] = Contents[DirOf[p]]]
  /\ loading' = IF loading[d] = NoLoad THEN loading ELSE [loading EXCEPT ![d].filled = TRUE]
  /\ inside' = inside \ {p}
  /\ Advance(p, "trusted_ca")
  /\ UNCHANGED <<instance, local, accepted>>

\* With a list, p may have no CRL ...
CheckTrust(p) ==
  /\ AtStep(p, "trust")
  /\ p \notin inside
  /\ IF trusted[DomainOf[p]] = {} THEN Advance(p, "trust") /\ UNCHANGED inside
     ELSE IF p \in HasCrl THEN Fail(p, "trust") /\ UNCHANGED inside
     ELSE inside' = inside \union {p} /\ UNCHANGED call
  /\ UNCHANGED <<instance, trusted, local, loading, accepted>>

\* ... and p's CA must be in the list, as it is by now.
FindOwnCa(p) ==
  /\ AtStep(p, "trust")
  /\ p \in inside
  /\ IF CaOf[p] \in trusted[DomainOf[p]] THEN Advance(p, "trust") ELSE Fail(p, "trust")
  /\ inside' = inside \ {p}
  /\ UNCHANGED <<instance, trusted, local, loading, accepted>>

\* The strings are freed, the rest belongs to the identity.
RegisterLocal(p) ==
  /\ call[p].at = Registering
  /\ loading[DomainOf[p]] = NoLoad
  /\ call' = [call EXCEPT ![p] = [at |-> Returned, wild |-> FALSE, holds |->
       @.holds \ {"certPEM", "caPEM", "keyPEM", "password", "dir", "crlPEM"}]]
  /\ local' = [local EXCEPT ![p] = TRUE]
  /\ UNCHANGED <<instance, trusted, inside, loading, accepted>>

\* return_identity_handle: local_identity_info_free frees what the identity owns.
ReturnLocalIdentity(p) ==
  /\ local[p]
  /\ loading[DomainOf[p]] = NoLoad
  /\ local' = [local EXCEPT ![p] = FALSE]
  /\ call' = [call EXCEPT ![p] = NoCall]
  /\ accepted' = [accepted EXCEPT ![p] = {}]
  /\ UNCHANGED <<instance, trusted, inside, loading>>

----------------------------------------------------------------------------
(* load_X509_certificate_from_binprop, for the certificate of a peer.  It    *)
(* reads the list twice, under the lock, which those who write it do not take. *)

\* Mutant: a CRL does not exclude a list of trusted CAs.
IgnoresConflict(p, list) == FALSE

Conflict(p, list) == p \in HasCrl /\ list # {}

\* verify_certificate
Verifies(cert, ca, crl) == cert.ca = ca /\ ~(crl /\ cert.revoked)

PeerTrusted(p, cert, list) ==
  IF list = {} THEN Verifies(cert, CaOf[p], p \in HasCrl)
  ELSE \E ca \in list : Verifies(cert, ca, FALSE)

\* The first test; a load that it refuses changes nothing.
LoadPeerCertificate(p, cert) ==
  LET d == DomainOf[p] IN
  /\ local[p]
  /\ loading[d] = NoLoad
  /\ ~Conflict(p, trusted[d])
  /\ loading' = [loading EXCEPT ![d] = [by |-> p, cert |-> cert, filled |-> FALSE]]
  /\ UNCHANGED <<instance, trusted, call, inside, local, accepted>>

\* The verification; the certificate is refused as well if it cannot be parsed or has expired.
VerifyPeerCertificate(d) ==
  LET p == loading[d].by cert == loading[d].cert IN
  /\ loading[d] # NoLoad
  /\ \/ PeerTrusted(p, cert, trusted[d]) /\ accepted' = [accepted EXCEPT ![p] = @ \union {cert}]
     \/ UNCHANGED accepted
  /\ loading' = [loading EXCEPT ![d] = NoLoad]
  /\ UNCHANGED <<instance, trusted, call, inside, local>>

Next ==
  \/ \E d \in Domains : InitAuthentication(d) \/ FinalizeAuthentication(d) \/ VerifyPeerCertificate(d)
  \/ \E p \in Participants :
       \/ Begin(p)
       \/ PassStep(p)
       \/ FailStep(p)
       \/ EmptyTrustedCAs(p)
       \/ FillTrustedCAs(p)
       \/ CheckTrust(p)
       \/ FindOwnCa(p)
       \/ RegisterLocal(p)
       \/ ReturnLocalIdentity(p)
       \/ \E cert \in Certificates : LoadPeerCertificate(p, cert)

Spec == Init /\ [][Next]_vars

----------------------------------------------------------------------------
(* Properties. *)

Resources == {"certPEM", "caPEM", "keyPEM", "password", "dir", "crlPEM", "ca", "cert", "key", "crl"}

\* The list of trusted CAs never holds more than MAX_TRUSTED_CA of them.
TypeOK ==
  /\ activations \in [Providers -> Nat]
  /\ running \subseteq Domains
  /\ provider \in [Domains -> Installed \union {None}]
  /\ trusted \in [Domains -> SUBSET UNION {Contents[dir] :
       dir \in {r \in DOMAIN Contents : Contents[r] # None}}]
  /\ \A d \in Domains : Cardinality(trusted[d]) <= MaxTrusted
  /\ call \in [Participants ->
       [at : 1 .. Returned, holds : SUBSET (Resources \union {"ca_buf"}), wild : BOOLEAN]]
  /\ inside \subseteq Participants
  /\ local \in [Participants -> BOOLEAN]
  /\ loading \in [Domains -> {NoLoad} \union [by : Participants, cert : Certificates, filled : BOOLEAN]]
  /\ accepted \in [Participants -> SUBSET Certificates]

\* Whichever step of validate_local_identity fails, and whatever becomes of the list of
\* trusted CAs meanwhile, the labels free nothing the call does not hold, and all it holds
\* but the CAs read from a directory that is too large; a call that succeeds leaves exactly
\* what the identity owns.
OnlyCaBufferLeaks ==
  \A p \in Participants :
    call[p].at = Returned =>
      /\ ~call[p].wild
      /\ IF local[p]
           THEN call[p].holds = {r \in {"ca", "cert", "key", "crl"} : Optional(p, r)}
           ELSE call[p].holds \subseteq Unlisted(p, "trusted_ca")

\* A participant with a CRL accepts a certificate that its CRL revokes only when another
\* participant filled the list of trusted CAs, p's own CA among them, between the two
\* tests of this very load: whatever is loaded into the instance before or after, the
\* CRL is consulted or the certificate refused.
RevokedOnlyAsListArrives ==
  [][\A p \in HasCrl, cert \in Certificates :
       cert \in accepted'[p] \ accepted[p] /\ cert.ca = CaOf[p] /\ cert.revoked =>
         /\ loading[DomainOf[p]].by = p /\ loading[DomainOf[p]].filled
         /\ CaOf[p] \in trusted[DomainOf[p]]]_vars

\* The trusted CAs are those of one directory that a participant of this instance
\* names: a directory that is unreadable or too large leaves no part of itself, and
\* a new instance starts without those of the last.
TrustedIsOneDirectory ==
  \A d \in Domains : trusted[d] # {} =>
    /\ d \in running
    /\ \E p \in Members(d) : DirOf[p] # None /\ Readable(DirOf[p]) /\ trusted[d] = Contents[DirOf[p]]

\* An instance that loaded a provider keeps its KEM until it is finalised, in whatever
\* order the domains of the process come and go, and no provider outlives them all.
LoadedKemStays ==
  /\ \A d \in running : provider[d] # None => Supported(activations, Kem)
  /\ running = {} => activations = NothingLoaded
=============================================================================
