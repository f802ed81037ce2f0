# A verification project for pqsec-dds

pqsec-dds adds post-quantum authentication to two DDS implementations. Each adapter
is an Authentication plugin (the SPI of OMG DDS Security): it validates identities and
runs a three-message handshake with ML-DSA signatures and an ML-KEM key
encapsulation. This directory models the two plugins in TLA+, checks the models with
TLC and proves the central results with TLAPS.

## The system

| Part | Source | State it keeps |
|---|---|---|
| OpenDDS Authentication plugin | `adapters/opendds/src/Authentication.cpp` | one object per process, which all domain participants share: `locals_`, `remotes_`, `handshakes_`, `next_handle_`, one mutex |
| OpenDDS transcripts | `adapters/opendds/src/Transcript.cpp` | none: what a credential hash and the two signatures cover |
| OpenDDS KEM, provider fallback | `adapters/opendds/src/Crypto.cpp` | a key pair per handshake; one fallback provider per Authentication object |
| OpenDDS plugin loading | `adapters/opendds/src/Plugin.cpp` | the plugin in the security registry, its reference to the Authentication object |
| Cyclone Authentication plugin | `adapters/cyclonedds/src/authentication.c` | one instance per domain: `objectHash`, `remoteGuidHash`, per remote identity a `linkHash` of relations, trusted CAs, listener, dispatcher, fallback provider, one mutex |
| Cyclone validity timers | same file, `validity_callback`, `add_validity_end_trigger`, `set_listener` | a `timer` field per identity; events in CycloneDDS's timed dispatcher |
| Cyclone KEM, algorithms, utilities | `pq_kem.c`, `auth_algs.c`, `auth_utils.c` | none (a key pair per handshake; constant tables) |
| OpenSSL providers | outside the repository | how often each provider of the process is loaded |
| Scripts, CMake, debug, benchmark, OpenSSL support | elsewhere | none that matters |

**Operations.** Both plugins have the same SPI: `validate_local_identity`,
`validate_remote_identity` (which produces or consumes an AuthRequest token with a
future challenge), `begin_handshake_request`, `begin_handshake_reply`,
`process_handshake` (a reply at the initiator, a final at the replier),
`get_shared_secret`, permissions, and the `return_*` operations.

**Interaction.** The DDS middleware calls the plugin and carries its tokens. It may call
from several threads, repeat a token, deliver it late, out of order or to another
handshake of the pair, and return any handle at any moment. In Cyclone a second thread,
the timed dispatcher, calls back when a certificate ends. All plugin objects and
instances of a process share OpenSSL's providers.

**What is hard.** Nothing in the plugins orders the tokens; an honest token of an older
exchange is the typical wrong one. A failing cryptographic call leaves a handshake half
filled. In Cyclone the identity of a peer is shared by all local participants and freed by
the first that returns it, its address serves again, a repeated request reuses a handshake,
a completed handshake still accepts tokens, and the validity callback and two calls work
on objects after they released the lock. `validate_local_identity` runs without the lock,
replaces the list of trusted CAs that others are reading, and has ten clean-up labels.

**What makes each part correct.** OpenDDS: both ends of a completed handshake agree on
identities, credentials, challenges and secret; a session serves once; an ended handshake
never changes; different configurations never complete; a handle names one object; a
provider is loaded exactly as often as it is held. Cyclone: peers that complete hold one
secret, and keep it; a replier completes last, on an answer to its own reply; nothing
outlives what it points to; an authenticated peer is watched until its certificate ends, and
the end is reported, not earlier; two ends that keep sending complete; a failed validation
gives back what it took; trust is decided by the list of one directory, and a CRL by whoever
has one. The code keeps some of these with exceptions, which the properties name and
"What the models found" collects. `PROJECT.json` lists the hazards behind these, each at its
line.

The two adapters put different things into tokens (`protocol/pqsec-auth-v1.md` documents
the OpenDDS tokens), so their handshakes are separate models and not composed with each
other. What they share, the providers of OpenSSL, is one module that both extend.

## The modules

| Module | What it models |
|---|---|
| `MutualAuth` | the abstract promise: a session is offered, then accepted by its initiator, then confirmed |
| `OpenDDSAuth` | the handshakes of the OpenDDS plugin and the tokens in flight |
| `OpenDDSAuthProofs` | types, handles, frozen handshakes, agreement, fail-closed, single use and the refinement of `MutualAuth`, proved |
| `OpenSSLProviders` | the providers of a process: which KEMs OpenSSL finds, loading, unloading |
| `OpenDDSPlugin` | registry, Authentication objects, participants and the provider fallback |
| `OpenDDSPluginProofs` | the providers' accounts, proved |
| `CycloneAuth` | the handshakes of the `PQ_CRYPTO` build and the tokens in flight |
| `CycloneAuthProofs` | types, dangling objects, watched peers, finals and equal secrets, proved |
| `CycloneClassic` | the handshake of the Diffie-Hellman build, with liveness |
| `CycloneClassicProofs` | its types, secrets and the assertion on the peer's key, proved |
| `CycloneCalls` | the calls of one instance at the grain of its lock, with memory that is used again |
| `CycloneCallsProofs` | memory safety of what is reached through the tables, proved |
| `CycloneDomain` | instances of the domains of a process, `validate_local_identity` step by step, trusted CAs |
| `CycloneDomainProofs` | clean-up, providers, revocation and trusted CAs, proved |
| `CycloneAlgorithms` | the algorithm tables and the comparisons of names and sizes between two builds |
| `CycloneAlgorithmsProofs` | the tables' names and sizes, and the agreement on them, proved |
| `CycloneValidity` | the validity timers, the callback and `set_listener`, at the grain of the lock |
| `CycloneValidityProofs` | the invariants of the timers, proved |
| `MC...` | configurations for TLC |

### How state and actions correspond to the code

*OpenDDSAuth.* `locals[p]`, `remotes[p]`, `handshakes[p]` and `nextHandle[p]` are the
members of an Authentication object; a participant p here has an object of its own, as
participants of different processes have. Every operation holds the mutex throughout,
hence one action per call, except that a call has one action per outcome that changes the
tables (`ProcessReply`, `ProcessFinal`, `RefuseMessage`); a call that fails and changes
nothing is a stuttering step. `validate_remote_identity` registers a new identity before
it looks at the token, so a refused token leaves the identity behind
(`ApplyAuthRequest`). An object stays in its table after its handle is returned, with
`held` false, because handshakes hold shared pointers to identities. `msgs` only grows: a
lost token is one that is never read, a repeated one is read twice. A request whose
challenge or key has the wrong size is refused without effect and therefore left out.

*OpenDDSPlugin.* `registered` is the plugin of the registry, `user[d]` what participant d
holds, `provider[a]` the member `provider_` of object a; reference counts are the question
whether anybody still refers to a (`Referenced`). `EnsureAlgorithm` and `DestroyIfUnused`
are `ProviderFallback`'s `ensure_algorithm` and destructor.

*CycloneAuth.* `local[p]`, `remote[i][q]`, `relation[p][q]` and `handshake[p][q]` are the
objects of the instances; `remote` is indexed by the instance because local participants
of one instance share it. Reuse of a handshake by a repeated request is `FindOrCreate`;
what a token leaves behind although it is refused (permissions, the pinned challenge, the
cleared certificate, the hash) is in `LearnedRemote`, `KnownChallenge` and `Replying`.
`Optional` is a set of instances, as `include_optional` is a field of one.
`RepeatHandshakeReply` is the path on which the code reads an uninitialised pointer: its
outcomes are a key seen before, other memory, or the death of the process.

*CycloneClassic.* One initiator and one replier. The key pair `ldh` lives as long as the
handshake, the peer's key `rdh` is replaced by each token and dropped by a refused one.
`derived` and `returned` are history; `aborted` is a failed assertion.

*CycloneCalls.* `heap[a]` is the object at address a; `malloc` may return any free address,
so a freed one serves again. A handle is an address, and a look-up asks only whether an
object of the right kind is there, as `security_object_find` does. `call[p]` is what p's call
still reads after the unlock and whether that has been freed; a call that would read a freed
object has no next step. `mine[p].lost` says that another participant's return has freed p's
handshake. Tokens are not modelled here.

*CycloneDomain.* `call[p]` follows one `validate_local_identity`: the position in `Steps`,
what it `holds` so far, and whether it freed what it did not hold (`wild`). A failing step
jumps to `LabelOf(step)` and runs through the labels below it; `ca_buf` stands for the CAs
that `get_trusted_ca_list` has read when it meets one too many. `trusted[d]` is
`trustedCAList` of the instance. It is written without the lock, in two steps
(`EmptyTrustedCAs`, `FillTrustedCAs`), and read twice by a validation (`CheckTrust`,
`FindOwnCa`) and twice by the load of a peer's certificate (`LoadPeerCertificate`,
`VerifyPeerCertificate`, between which `loading[d]` keeps the instance's lock); `inside` are
the participants between two such steps. `accepted[p]` are the peer certificates p accepted.

*CycloneAlgorithms.* The tables of `auth_algs.c` are records; a run of the model is one
handshake of two builds. OpenSSL's own sizes are a constant, so the comparison of the table
`kem_key_sizes` with what OpenSSL makes is checked and not assumed.

*CycloneValidity.* The callback is four steps (assertion, look-up under the lock, listener,
timer field), registration of a local identity two (timer, then table), `set_listener` two
(pointer, then dispatcher). An identity has an address (`addr`), which serves again once the
identity is freed; the callback keeps the address its timer was armed with, and looks up,
reports and clears whichever identity is there by then (`Addressed`). A failed assertion and a
call through a null listener end the run in `failure`; a write into freed memory may.
`overtaken` is history: the identities returned under their own callback.

*Data.* A nonce, key pair or encapsulation is named by who drew it and when (OpenDDS: for
which handle); a signature is its signer and the record it covers; a hash is the record it
covers. Cryptography is perfect, every call of it may fail where `Faults` says so, and all
participants are honest: the models are about correctness under disorder and failure.

## The runs

| Run | Shows |
|---|---|
| `opendds_handshake` | agreement of both roles, single use of a session, refinement of `MutualAuth`, no completion with a third participant of another CA; failing decapsulation and signing |
| `opendds_lifecycle` | types, unambiguous handles, frozen results; handles returned at any time, odd AuthRequest tokens, late permissions |
| `opendds_plugin` | providers loaded and unloaded in pairs while two Authentication objects overlap; a validated participant loses its KEM only with another object |
| `cyclone_handshake` | a participant and two others of one instance, every cryptographic fault, tokens repeated and reordered: equal and stable secrets, the replier last, the shared identity always watched |
| `cyclone_objects` | identities and handshakes returned in any order, requests begun again, late permissions, a replier that lives twice: no dangling objects, finals of an earlier life refused |
| `cyclone_classic` | the Diffie-Hellman build: equal, stable and derived secrets, the assertion on the peer's key, and that both ends complete |
| `cyclone_calls` | calls interleaved between lock and unlock with returns, addresses used again: nothing dangles, a secret stays allocated |
| `cyclone_domain` | four validations at once, each step failing, three instances that come and go: clean-up that misses only `ca_buf`, a revoked peer only if the list arrives between the two tests, one directory's list, the loaded KEM stays |
| `cyclone_algorithms` | all pairs of builds and certificates: the same KEM is enough, and who completes agrees on algorithms |
| `cyclone_validity` | timers against callbacks, returns, reused addresses, repeated handshakes and listener changes: no orphaned timer, a true field and no early report, except at an address whose earlier identity was overtaken; and the liveness of expiry reports |
| `cyclone_stale_reply` (violation) | a request begun again draws a new key under the old challenge; the late reply to the first is accepted and the secrets differ |
| `cyclone_repeated_request` (violation) | a repeated request makes the reply name a key other than the one encapsulated to |

**Deadlock** is checked where the program can always go on: in `opendds_plugin` and
`cyclone_domain`. The other models really stop: one handshake ends, the bounds exhaust
handles and random values, an assertion fails, and nobody is obliged to call a plugin.

**Bounds.** `MaxHandles`, `MaxLocals` and `MaxRemotes` bound the objects of an OpenDDS
participant; four handles with one identity each leave two handshakes per side, the least
in which a token of one can reach the other. `ThirdCa` adds a participant of another CA;
other mismatches (KEM, signature) are covered by the theorem only. Three handles leave one
handshake, which is enough for the lifecycle, where the question is what happens to it
afterwards. `Draws` bounds the random values of a Cyclone participant: `TwoPeers` is a
challenge and a key pair for each of two peers, and a spare draw for a replier, so that a
second encapsulation is possible if the code allowed one; `TwoReplies` lets the replier
forget everything and start again; `TwoKeys` lets the initiator begin its request again;
`InitiatorLivesTwice` gives the classical initiator two challenges and two key pairs. In
`cyclone_handshake` the caller begins a request once per handshake, because
`cyclone_stale_reply` shows what happens otherwise. Six addresses in `cyclone_calls` are the
objects of two participants that hold everything at once: two local identities, the shared
remote one, and three for two handshakes and a secret, so memory also runs short; the
theorems hold for any number. `MaxTrusted` is two, so that a directory of three is too
large; one of two and one of one CA fit. Four participants have a CRL or one of these
directories each: the least in which a list is replaced by another while a peer is being
loaded for a participant with a CRL. Two of the three domains name the provider that helps
and one a useless one; the one peer certificate is revoked. `MaxArms` and `MaxSets` bound
timers per identity and listener changes at two: one more than the first. Two local
identities, one remote one and two addresses let the next identity at an address be of either
kind and leave one untouched. `Kems` in `cyclone_algorithms` are those whose sizes OpenSSL
itself fixes.

**Fairness.** In `CycloneValidity`: weak fairness of the dispatcher firing an event that is
due, of the callback's own steps, and of a thread inside `set_listener` reaching its end.
The dispatcher is a thread that sleeps until the next event, and neither callback nor
`set_listener` waits for anything but each other; no fairness is put on calls of the
application.

In `CycloneClassic` the handshake layer of CycloneDDS resends the newest token of each end
until it is answered or it gives up. So validation and the beginning of a request are weakly
fair, and the processing of the newest request, reply and final strongly fair: older tokens
arriving in between disable it again and again. Strong fairness is put on the processing
that succeeds, because a transient failure of signing or derivation is retried, and only
while no handle was returned, because a caller that returns one has given up. Neither end is
obliged to repeat an older token, and `HandshakeCompletes` shows that older tokens that do
arrive cannot undo progress for ever. The same is not stated for the KEM build: there a
repeated request meets the uninitialised pointer. OpenDDS has no liveness property: the plugin
retries nothing, and whether another handshake is begun is up to the middleware, which is
not in this repository.

## What is proved

For every value of the constants, under the named assumptions of the modules
(participants are numbers where they are compared, the configuration is total, builds are
ones that the tables know, sets that are counted are finite, an absent value is none of the values it stands beside):

* `OpenDDSAuthProofs`: `TypeCorrect`, `HandlesCorrect`, `EndedHandshakesStayFrozen`. The
  types alone are not inductive: reading a handshake's remote identity needs that it
  exists. The inductive invariant is
  `Registered == TypeOK /\ HandleNamesOneObject /\ RemoteKept`: slots at and above the
  counter are empty in all three tables, so a new object never overwrites one, and the
  identity of a handshake stays registered. `StepEvolves` says what one step may do to one
  handshake; the action property follows from it.

  Then `InitiatorsAgree`, `RepliersAgree`, `MismatchesFail`, `SessionsUsedOnce`.
  `AgreementInv` adds what the fields of a handshake say it has checked
  (`InitiatorFields`, `ReplierFields`) and that every signature in flight covers the
  transcript of a handshake its signer holds (`RepliesSigned`, `FinalsSigned`). What a
  signature covers never changes, so a peer that verifies it against its own transcript has
  found its partner. The other two theorems follow from agreement: the partner of a
  completed handshake passed the same checks, and ciphertexts and keys name the handle
  they were made for.

  Last `RefinesMutualAuth`: from the same invariant, each call maps to offering, accepting
  or confirming one session or to a stutter. The mapping reads sessions off the handshakes,
  so the step that matters is that a completion adds one session and takes none away, and
  that the session it adds was offered, or accepted, before.
* `OpenDDSPluginProofs`: `TypeCorrect`, `ActivationsCorrect`, `KemsGoWithOthers`. That an
  activation count never goes below zero needs that it is the number of holders, so types
  and count are one invariant. `UnloadingKeepsCount` is the heart: the object that goes is
  one of those counted. For the action property, loading takes no KEM away and destroying
  takes only those of the provider that was held, by an object nobody refers to any more.
* `CycloneCallsProofs`: `NothingDanglesAlways`, `SecretStaysAllocatedAlways`. The secret of
  a participant may be an earlier one of its handshake, so neither property is inductive:
  `Owned` says that a handshake's secret is allocated and its alone, `Held` the same of what
  a participant was given, with its own handshake as the only possible other owner. Returns
  are one argument: what goes (`Freed`) is closed under references if the handshakes of the
  identities go too (`MayGo`, `FreedIsClosed`), and freeing a closed set leaves a sound heap
  (`FreeingKeepsHeap`). A handle's address may serve again, and the proof needs nothing
  about that: a call only reads what the look-up finds.
* `CycloneValidityProofs`: `NoTimerIsOrphaned`, `TimerFieldStaysTrue`,
  `ReportsAreNotEarly`, `ListenerIsMissedOnlyInRemoval`. The inductive invariant relates the
  queue, the timer field, the addresses and the position of the callback: the field may be
  stale only for the identity the callback is working on, no timer is armed while it says so,
  and if that identity is gone it is among the overtaken, so that whoever has its address by
  now is `Tainted`. That is the exception the first three theorems share.
* `CycloneAuthProofs`: `TypeCorrect`, `NothingDangles`, `PeersStayWatched` and
  `FinalsAnswerOwnReplies`, whoever returns handles or begins requests again. `PairInv`
  has, beside types and dangling objects, that tokens are made of values drawn
  (`TokensOK`) and that a replier has encapsulated and knows its peer's challenge as soon as
  its handshake outlives a call (`Roles`): otherwise a final would be compared with nothing.
  `PeersAgree`, `ReplierIsLast` and `SecretsStay` are
  proved under the two conditions of the run `cyclone_handshake`, `~RepeatRequests` and
  `~CallerReturns`; `cyclone_stale_reply` shows that the first cannot be dropped. Their
  invariant `Matching` says that relations, tokens in flight and handshakes of a pair agree
  with what their owners hold now, which is why no token can be a wrong one.
* `CycloneClassicProofs`: `TypeCorrect` and `ReplierDerives` always; `PeersAgree`,
  `PeerKeyStays` and `SecretsStay` until a handle is returned, requests begun again
  included. `ClassicInv` holds always: a final carries a secret its sender has completed
  with. `Matching` holds until a return: key pairs and challenges are drawn once, so every
  token agrees with what its sender holds, hence no request is ever refused, hence the
  peer's key is never dropped, and there is one secret to derive (`TheSecret`). Each call
  is first reduced to what it may do to its own end (`Outcome`), so that the invariants are
  argued once and not once per call.
* `CycloneDomainProofs`: `TypeCorrect`, `CleanupCorrect`, `KemStays`,
  `RevokedAcceptedOnlyThen`, `TrustedIsWhole`. `CallsHold` says what a validation in progress
  holds before each step; from there each failing step, its label and the labels below it are
  one computation over the set held. `ProvidersAreHeld` is the count of `OpenDDSPluginProofs`
  with instances for objects. `InsideOK` says that who is about to fill the list has a
  readable directory, which makes the list whole; `LoadsOK` says that a load of a participant
  with a CRL has passed its first test, so that the list is empty or was filled since.
* `CycloneAlgorithmsProofs`: `EndsAgree` and `SameKemSuffices`. No two rows of a table have
  a kind or a name in common (`KemRows`, `SignatureRows`), so a name is read back as the
  kind it was made from (`NameReadBack`). The second theorem has as its hypothesis what the
  run checks for the native KEMs: that OpenSSL makes the sizes of the table
  (`SizesAreMade`), and that a peer ends a name in one NUL at most.

**Only model-checked:** liveness, which is out of the prover's reach: `ExpiryIsReported` of
`CycloneValidity` and `HandshakeCompletes` of `CycloneClassic`. Every invariant and every
action property that a passing run checks is also proved.

## What the models found

Two runs end in a violation; `PROJECT.json` has the details under `findings`.

1. *Stale reply.* `begin_handshake_request` replaces the key pair of a handshake that
   exists; the reply's `kem_public` is compared by size only. Two peers can complete with
   different secrets.
2. *Repeated request.* `begin_handshake_reply` uses `binary_property_kem_public` without
   having set it when the handshake already has a ciphertext.

The models also have the following behaviours of the code as steps. No comment or test
promises otherwise, or the properties are stated so that they say exactly when it may
happen; each is at its line among the hazards.

* `set_listener(NULL)` clears the pointer while a callback that asserts it may be starting
  (`ListenerMissedOnlyInRemoval`: then only).
* The callback writes the timer field of an object that may have been freed meanwhile, and
  a certificate that ends before its identity is in the table is never reported.
* The callback goes by an address. If its identity is returned under it and another is
  created there, that one is reported although its certificate has not ended, its timer field
  is cleared while its event is queued, and when it is returned the event stays behind
  (`NoEarlyReport`, `TimerFieldIsTrue`, `NoOrphanTimer`: then only).
* `load_X509_certificate_from_binprop` tests the list of trusted CAs, parses, and tests it
  again, while `validate_local_identity` writes it without the lock. If another participant
  fills an empty list in between, a participant with a CRL verifies without it and accepts a
  revoked peer (`RevokedOnlyAsListArrives`: then only).
* A directory with too many CAs is refused, and those read so far are freed nowhere
  (`OnlyCaBufferLeaks`: these only).
* An OpenDDS Authentication object loads one provider in its life; a participant that names
  another is refused. An object that finds its KEM already available loads nothing, and
  loses the KEM with the object that loaded it (`KemGoesWithAnotherObject`: then only). The
  same is true of the instances of Cyclone, where `LoadedKemStays` speaks only of those that
  loaded a provider themselves.
* A Cyclone participant with a CRL and no directory is refused its peers once another
  participant of the instance has named a directory.
* `begin_handshake_request` reads the handle after the unlock, when the handshake may be
  gone; a handle whose address serves again passes the look-up and fails the assertion of
  the relation.
* In the classical build a final that arrives after a refused request fails the assertion of
  the peer's key, once a handle was returned (`PeerKeyIsThere`: then only).

## What is not modelled

* The sizes of the KEMs of experimental providers, which OpenSSL does not fix, and the sizes
  of secret keys, which nothing compares.
* The finer data races on the list of trusted CAs: a thread that walks the list while another
  frees it, and two threads that write it at once, inside what the model has as one step.
  Their outcome is memory corruption. The race between the tests of the list and its
  replacement, whose outcome is a wrong decision, is modelled.
* Malformed tokens whose refusal changes nothing; certificates with an invalid end date,
  except what they do to a handshake's secret.
* A 32-bit handle counter of OpenDDS that overflows; out of a checker's reach.
* OpenSSL support (error text, initialisation of the library), timing measurement, debug
  output, scripts, certificates and build files: they keep no state the others depend on.

## Plan

What is left:

1. What else holds of `CycloneAuth` once handles are returned, beside
   `FinalAnswersOwnReply`: in `CycloneClassic` a replier's secret is always one that the
   initiator derived; the KEM build has the corresponding history only in its tokens.
2. That peers of the KEM build agree when requests are begun again but each reply is
   processed before the next request: the weakest condition under which `PeersAgree` holds.
3. Extend `cyclone_classic` by a second local participant that shares the peer's identity,
   so that the certificate one refused request drops is seen by another handshake.
