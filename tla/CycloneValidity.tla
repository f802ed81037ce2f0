--------------------------- MODULE CycloneValidity ---------------------------
(***************************************************************************)
(* The certificate validity timers of one CycloneDDS plugin instance, at   *)
(* the grain of what its threads do between taking and releasing           *)
(* impl->lock: the thread of the timed dispatcher runs validity_callback   *)
(* while application threads create and return identities, complete        *)
(* handshakes and change the listener                                      *)
(* (src/adapters/cyclonedds/src/authentication.c).                         *)
(*                                                                         *)
(* A handle is the address of its object, and an address may be given out  *)
(* again once its object is freed.  Identities are told apart here by      *)
(* names the code does not have; what the code looks up or writes by       *)
(* address reaches whichever identity is there by then.                    *)
(*                                                                         *)
(* The dispatcher is part of CycloneDDS.  What the plugin relies on: while *)
(* enabled it takes due events off its queue and runs their callbacks, one *)
(* at a time, holding no lock; remove takes an event off the queue if it is*)
(* still there; disable waits for a running callback.                      *)
(***************************************************************************)
EXTENDS Naturals

CONSTANTS
  LocalIds,    \* local identities, each with a certificate that ends
  RemoteIds,   \* remote identities, likewise
  Addresses,   \* what malloc may return for an identity
  MaxArms,     \* bound on the timers armed for one identity
  MaxSets,     \* bound on the calls of set_listener
  None         \* no identity

ASSUME IdsAssumption ==
  LocalIds \intersect RemoteIds = {} /\ None \notin LocalIds \union RemoteIds \union Addresses
ASSUME BoundsAssumption == MaxArms \in Nat /\ MaxSets \in Nat

Ids == LocalIds \union RemoteIds

VARIABLES
  object,     \* object[i]: absent, created (not in objectHash yet), live, freed
  addr,       \* addr[i]: the address i has or had
  timer,      \* timer[i]: the timer field, 0 or the number of the timer armed for i
  queue,      \* events in the dispatcher: <<i, k>> is the kth timer armed for i
  arms,       \* timers armed so far for each identity
  expired,    \* identities whose certificate has ended
  listener,   \* auth->listener is not NULL
  enabled,    \* the dispatcher is enabled
  setter,     \* what the thread in set_listener does next
  sets,       \* calls of set_listener so far
  callback,   \* validity_callback: where it is, and the identity its timer was armed for
  revoked,    \* identities reported through on_revoke_identity
  overtaken,  \* history: identities returned while their own callback was running
  failure     \* how the process ended

vars == <<object, addr, timer, queue, arms, expired, listener, enabled, setter, sets, callback,
          revoked, overtaken, failure>>

identities == <<object, addr, timer, queue, arms, overtaken>>
listening == <<listener, enabled, setter, sets>>

Init ==
  /\ object = [i \in Ids |-> "absent"]
  /\ addr = [i \in Ids |-> None]
  /\ timer = [i \in Ids |-> 0]
  /\ queue = {}
  /\ arms = [i \in Ids |-> 0]
  /\ expired = {}
  /\ listener = FALSE
  /\ enabled = FALSE
  /\ setter = "idle"
  /\ sets = 0
  /\ callback = [at |-> "idle", id |-> None]
  /\ revoked = {}
  /\ overtaken = {}
  /\ failure = "none"

Running == failure = "none"

Present(i) == object[i] \in {"created", "live"}

\* The identities at an address: one or none.
At(a) == {i \in Ids : Present(i) /\ addr[i] = a}

\* Mutant: the handle of the new timer is not stored.
ArmUnnoted(i) ==
  /\ arms[i] < MaxArms
  /\ queue' = queue \union {<<i, arms[i] + 1>>}
  /\ arms' = [arms EXCEPT ![i] = @ + 1]
  /\ UNCHANGED timer

\* add_validity_end_trigger, and the assignment of its result to the timer field.
Arm(i) ==
  /\ arms[i] < MaxArms
  /\ timer' = [timer EXCEPT ![i] = arms[i] + 1]
  /\ queue' = queue \union {<<i, arms[i] + 1>>}
  /\ arms' = [arms EXCEPT ![i] = @ + 1]

----------------------------------------------------------------------------
(* Application threads. *)

\* validate_local_identity arms the timer before it takes the lock ...
CreateLocal(i, a) ==
  /\ Running
  /\ i \in LocalIds
  /\ object[i] = "absent"
  /\ At(a) = {}
  /\ i \notin expired
  /\ object' = [object EXCEPT ![i] = "created"]
  /\ addr' = [addr EXCEPT ![i] = a]
  /\ Arm(i)
  /\ UNCHANGED <<listening, expired, callback, revoked, overtaken, failure>>

\* ... and then adds the object to objectHash.
RegisterLocal(i) ==
  /\ Running
  /\ object[i] = "created"
  /\ object' = [object EXCEPT ![i] = "live"]
  /\ UNCHANGED <<addr, timer, queue, arms, listening, expired, callback, revoked, overtaken, failure>>

\* validate_remote_identity
RegisterRemote(i, a) ==
  /\ Running
  /\ i \in RemoteIds
  /\ object[i] = "absent"
  /\ At(a) = {}
  /\ object' = [object EXCEPT ![i] = "live"]
  /\ addr' = [addr EXCEPT ![i] = a]
  /\ UNCHANGED <<timer, queue, arms, listening, expired, callback, revoked, overtaken, failure>>

\* The expiry listener at the end of process_handshake: a timer if the field holds none.
CompleteHandshake(i) ==
  /\ Running
  /\ i \in RemoteIds
  /\ object[i] = "live"
  /\ timer[i] = 0
  /\ Arm(i)
  /\ UNCHANGED <<object, addr, listening, expired, callback, revoked, overtaken, failure>>

\* Mutant: the timer is left in the dispatcher.
ReturnKeepsTimer(i) ==
  /\ Running
  /\ object[i] = "live"
  /\ object' = [object EXCEPT ![i] = "freed"]
  /\ overtaken' = IF callback.id = i THEN overtaken \union {i} ELSE overtaken
  /\ UNCHANGED <<addr, timer, queue, arms, listening, expired, callback, revoked, failure>>

\* return_identity_handle removes the event the timer field names, if it is still queued,
\* and frees the object.
ReturnIdentityHandle(i) ==
  /\ Running
  /\ object[i] = "live"
  /\ object' = [object EXCEPT ![i] = "freed"]
  /\ queue' = queue \ {<<i, timer[i]>>}
  /\ overtaken' = IF callback.id = i THEN overtaken \union {i} ELSE overtaken
  /\ UNCHANGED <<addr, timer, arms, listening, expired, callback, revoked, failure>>

\* set_listener takes no lock: it stores the pointer first ...
StoreListener(present) ==
  /\ Running
  /\ setter = "idle"
  /\ sets < MaxSets
  /\ sets' = sets + 1
  /\ listener' = present
  /\ setter' = IF present THEN "enable" ELSE "disable"
  /\ UNCHANGED <<identities, enabled, expired, callback, revoked, failure>>

\* Mutant: the dispatcher is disabled under a running callback.
SwitchAtOnce ==
  /\ Running
  /\ setter # "idle"
  /\ enabled' = (setter = "enable")
  /\ setter' = "idle"
  /\ UNCHANGED <<identities, listener, sets, expired, callback, revoked, failure>>

\* ... and then switches the dispatcher.
SwitchDispatcher ==
  /\ Running
  /\ setter # "idle"
  /\ setter = "disable" => callback.at = "idle"
  /\ enabled' = (setter = "enable")
  /\ setter' = "idle"
  /\ UNCHANGED <<identities, listener, sets, expired, callback, revoked, failure>>

----------------------------------------------------------------------------
(* The dispatcher's thread. *)

CertificateExpires(i) ==
  /\ i \notin expired
  /\ expired' = expired \union {i}
  /\ UNCHANGED <<identities, listening, callback, revoked, failure>>

Fire(i, k) ==
  /\ Running
  /\ enabled
  /\ callback.at = "idle"
  /\ <<i, k>> \in queue
  /\ i \in expired
  /\ queue' = queue \ {<<i, k>>}
  /\ callback' = [at |-> "entered", id |-> i]
  /\ UNCHANGED <<object, addr, timer, arms, listening, expired, revoked, overtaken, failure>>

\* assert(info->auth->listener)
CheckListener ==
  /\ Running
  /\ callback.at = "entered"
  /\ IF listener
       THEN callback' = [callback EXCEPT !.at = "checked"] /\ UNCHANGED failure
       ELSE failure' = "assertion" /\ UNCHANGED callback
  /\ UNCHANGED <<identities, listening, expired, revoked>>

\* The identities at the address the event of the running callback was armed with.
Addressed == At(addr[callback.id])

\* get_identity_info looks the address up under the lock and returns a bare pointer.
LookUp ==
  /\ Running
  /\ callback.at = "checked"
  /\ callback' = IF \E j \in Addressed : object[j] = "live"
                   THEN [callback EXCEPT !.at = "found"]
                   ELSE [at |-> "idle", id |-> None]
  /\ UNCHANGED <<identities, listening, expired, revoked, failure>>

\* Mutant: the callback returns without telling the listener.
NotifyNobody ==
  /\ Running
  /\ callback.at = "found"
  /\ callback' = [callback EXCEPT !.at = "notified"]
  /\ UNCHANGED <<identities, listening, expired, revoked, failure>>

\* The listener is read a second time, and is told the address.
Notify ==
  /\ Running
  /\ callback.at = "found"
  /\ IF listener
       THEN /\ revoked' = revoked \union Addressed
            /\ callback' = [callback EXCEPT !.at = "notified"]
            /\ UNCHANGED failure
       ELSE failure' = "null listener" /\ UNCHANGED <<revoked, callback>>
  /\ UNCHANGED <<identities, listening, expired>>

\* The timer field at the address is cleared without the lock.  Where there is no identity
\* any more, the write goes into freed memory, which may or may not do harm.
ClearTimer ==
  /\ Running
  /\ callback.at = "notified"
  /\ timer' = [i \in Ids |-> IF i \in Addressed THEN 0 ELSE timer[i]]
  /\ IF Addressed = {} THEN failure' \in {"none", "use after free"} ELSE UNCHANGED failure
  /\ callback' = [at |-> "idle", id |-> None]
  /\ UNCHANGED <<object, addr, queue, arms, listening, expired, revoked, overtaken>>

----------------------------------------------------------------------------

Callback == CheckListener \/ LookUp \/ Notify \/ ClearTimer

Next ==
  \/ \E i \in Ids :
       \/ \E a \in Addresses : CreateLocal(i, a) \/ RegisterRemote(i, a)
       \/ RegisterLocal(i) \/ CompleteHandshake(i) \/ ReturnIdentityHandle(i)
       \/ CertificateExpires(i)
       \/ \E k \in 1 .. MaxArms : Fire(i, k)
  \/ \E present \in BOOLEAN : StoreListener(present)
  \/ SwitchDispatcher
  \/ Callback

(***************************************************************************)
(* Fairness: the dispatcher's thread keeps running, and a thread inside    *)
(* set_listener goes on to its end.  Nobody is obliged to call the plugin. *)
(***************************************************************************)
Fairness ==
  /\ \A i \in Ids, k \in 1 .. MaxArms : WF_vars(Fire(i, k))
  /\ WF_vars(Callback)
  /\ WF_vars(SwitchDispatcher)

Spec == Init /\ [][Next]_vars /\ Fairness

----------------------------------------------------------------------------
(* Properties. *)

\* An identity before i at its address was returned while its own callback was running:
\* the callback, which goes by the address, may now act on i.
Tainted(i) == \E j \in overtaken \ {i} : addr[j] = addr[i]

\* An event in the dispatcher belongs to an identity that still exists, whatever the order
\* of expiry, callbacks, repeated handshakes, returned handles and reused addresses, except
\* where a late callback of an earlier identity at its address came in between.
NoOrphanTimer == \A i \in Ids, k \in 1 .. MaxArms : <<i, k>> \in queue => Present(i) \/ Tainted(i)

\* The timer field, by which return_identity_handle removes and process_handshake arms the
\* timer, tells the truth although the callback clears it without the lock: an event in the
\* dispatcher is always the one noted in the field, and a remote identity's field never
\* claims a timer that is gone.  Only a late callback of an earlier identity at the address
\* breaks this.
TimerFieldIsTrue ==
  \A i \in Ids : object[i] = "live" /\ ~Tainted(i) =>
    /\ \A k \in 1 .. MaxArms : <<i, k>> \in queue => timer[i] = k
    /\ i \in RemoteIds /\ timer[i] # 0 => <<i, timer[i]>> \in queue \/ callback.id = i

\* on_revoke_identity is told the address of an identity only after the certificate of
\* that identity has ended, although addresses are reused; again except for identities at
\* an address whose earlier owner was returned under its own callback.
NoEarlyReport == \A i \in revoked : i \in expired \/ Tainted(i)

\* An armed identity whose certificate ends is reported to the listener, unless it is
\* returned first, or the listener is taken away.
ExpiryIsReported ==
  \A i \in Ids :
    (i \in expired /\ (\E k \in 1 .. MaxArms : <<i, k>> \in queue)
       /\ object[i] = "live" /\ listener /\ enabled)
      ~> (i \in revoked \/ object[i] = "freed" \/ ~listener \/ ~Running)

\* validity_callback: assert(info->auth->listener), and the second read of the listener.
\* Both find it, except while set_listener, which stores the pointer before it switches
\* the dispatcher, is between the two steps of a removal: never when a listener is set,
\* and never once set_listener(NULL) is back.
ListenerMissedOnlyInRemoval ==
  failure \in {"assertion", "null listener"} => setter = "disable"
=============================================================================
