----------------------------- MODULE CycloneCalls -----------------------------
(***************************************************************************)
(* The calls of one CycloneDDS plugin instance at the grain of its lock    *)
(* (src/adapters/cyclonedds/src/authentication.c), made by the threads of  *)
(* several local participants that all know the same remote participant.   *)
(*                                                                         *)
(* A handle is the address of its object, and addresses are used again.    *)
(* The participants share one RemoteIdentityInfo, which the first of them  *)
(* that returns its handle frees, with the handshakes of the others.  Two  *)
(* calls go on reading objects after they released the lock, so they take  *)
(* two steps here; the others are one step.                                *)
(*                                                                         *)
(* Each participant is a well-behaved caller: it uses the handles it was   *)
(* given until it returns them, handshake before identities, and makes one *)
(* call at a time.  A call that is refused changes nothing and is no step. *)
(***************************************************************************)
EXTENDS FiniteSets

CONSTANTS
  Participants,   \* local participants, one thread each
  Addresses,      \* the addresses malloc may return: bounds what is allocated
  Nil             \* the null handle

ASSUME NilAssumption == Nil \notin Addresses

VARIABLES
  heap,     \* heap[a]: the object at address a
  mine,     \* mine[p]: the handles p holds; lost: its handshake was freed by another
  call,     \* call[p]: what p's call still has to read after the lock is released
  aborted   \* an assertion has failed

vars == <<heap, mine, call, aborted>>

Free == [kind |-> "free"]

Idle == [op |-> "none", reads |-> {}, result |-> Nil, gone |-> FALSE]

NoHandles == [local |-> Nil, remote |-> Nil, handshake |-> Nil, secret |-> Nil, lost |-> FALSE]

Init ==
  /\ heap = [a \in Addresses |-> Free]
  /\ mine = [p \in Participants |-> NoHandles]
  /\ call = [p \in Participants |-> Idle]
  /\ aborted = FALSE

Unallocated == {a \in Addresses : heap[a] = Free}

\* security_object_find and security_object_valid
Found(handle, kind) == handle # Nil /\ heap[handle].kind = kind

\* find_handshake
Handshakes(l, r) ==
  {h \in Addresses : heap[h].kind = "handshake" /\ heap[h].local = l /\ heap[h].remote = r}

\* handshake_info_free frees the secret with its handshake.
Parts(h) == {h} \union ({heap[h].secret} \ {Nil})

\* What freeing S does to those who still refer to it.
CallAfter(S) == [p \in Participants |-> [call[p] EXCEPT !.gone = @ \/ call[p].reads \cap S # {}]]

MineAfter(S) == [p \in Participants |-> [mine[p] EXCEPT !.lost = @ \/ mine[p].handshake \in S]]

Running(p) == ~aborted /\ call[p] = Idle

----------------------------------------------------------------------------

ValidateLocalIdentity(p) ==
  /\ Running(p)
  /\ mine[p].local = Nil
  /\ \E a \in Unallocated :
       /\ heap' = [heap EXCEPT ![a] = [kind |-> "local"]]
       /\ mine' = [mine EXCEPT ![p].local = a]
  /\ UNCHANGED <<call, aborted>>

\* validate_remote_identity, up to the unlock: the remote identity is found by its GUID
\* or created, the relation with p's identity is made unless there is one.
ValidateRemoteIdentity(p) ==
  LET l == mine[p].local
      known == {a \in Addresses : heap[a].kind = "remote"} IN
  /\ Running(p)
  /\ Found(l, "local")
  /\ \E r \in IF known # {} THEN known ELSE Unallocated :
       /\ heap' = [heap EXCEPT ![r] =
            [kind |-> "remote", links |-> {l} \union IF r \in known THEN @.links ELSE {}]]
       /\ call' = [call EXCEPT ![p] = [op |-> "validate", reads |-> {l, r}, result |-> r, gone |-> FALSE]]
  /\ UNCHANGED <<mine, aborted>>

\* After the unlock: the challenge, both GUIDs and the handle are read.
EndValidateRemoteIdentity(p) ==
  /\ ~aborted
  /\ call[p].op = "validate" /\ ~call[p].gone
  /\ mine' = [mine EXCEPT ![p].remote = call[p].result]
  /\ call' = [call EXCEPT ![p] = Idle]
  /\ UNCHANGED <<heap, aborted>>

\* The common part of begin_handshake_request and begin_handshake_reply: h is the
\* handshake of the pair, found or created.
FindOrCreate(p, h) ==
  LET l == mine[p].local r == mine[p].remote IN
  /\ Running(p)
  /\ Found(l, "local") /\ Found(r, "remote")
  /\ \/ /\ h \in Handshakes(l, r)
        /\ UNCHANGED heap
     \/ /\ Handshakes(l, r) = {} /\ l \in heap[r].links
        /\ h \in Unallocated
        /\ heap' = [heap EXCEPT ![h] =
             [kind |-> "handshake", local |-> l, remote |-> r, secret |-> Nil]]
  /\ UNCHANGED aborted

\* A new handshake asserts that there is a relation.
FailAssertion(p) ==
  LET l == mine[p].local r == mine[p].remote IN
  /\ Running(p)
  /\ Found(l, "local") /\ Found(r, "remote")
  /\ Handshakes(l, r) = {} /\ l \notin heap[r].links
  /\ aborted' = TRUE
  /\ UNCHANGED <<heap, mine, call>>

BeginHandshakeRequest(p) ==
  /\ \E h \in Addresses :
       /\ FindOrCreate(p, h)
       /\ call' = [call EXCEPT ![p] = [op |-> "request", reads |-> {h}, result |-> h, gone |-> FALSE]]
  /\ UNCHANGED mine

\* p is given the handle h; a secret of another handshake is not p's any more.
Given(p, h) ==
  LET same == mine[p].handshake = h /\ ~mine[p].lost IN
  [mine EXCEPT ![p].handshake = h, ![p].lost = FALSE, ![p].secret = IF same THEN @ ELSE Nil]

\* After the unlock: the handle is read from the handshake.
EndHandshakeRequest(p) ==
  /\ ~aborted
  /\ call[p].op = "request" /\ ~call[p].gone
  /\ mine' = Given(p, call[p].result)
  /\ call' = [call EXCEPT ![p] = Idle]
  /\ UNCHANGED <<heap, aborted>>

\* Sets the handle before it unlocks.
BeginHandshakeReply(p) ==
  /\ \E h \in Addresses : FindOrCreate(p, h) /\ mine' = Given(p, h)
  /\ UNCHANGED call

\* Mutant: the secret of an earlier token is freed.
FreesOldSecret(h, s) == [heap EXCEPT ![h].secret = s, ![s] = [kind |-> "secret"],
                                     ![heap[h].secret] = Free]

\* The new secret replaces the one of an earlier token, which is not freed.
StoreSecret(h, s) == [heap EXCEPT ![h].secret = s, ![s] = [kind |-> "secret"]]

\* process_handshake; if the certificate's end is invalid, no secret is left in the
\* handshake.  Other refusals leave the secret alone.
ProcessHandshake(p) ==
  LET h == mine[p].handshake IN
  /\ Running(p)
  /\ Found(h, "handshake")
  /\ \/ \E s \in Unallocated : heap' = StoreSecret(h, s)
     \/ heap' = [heap EXCEPT ![h].secret = Nil]
  /\ UNCHANGED <<mine, call, aborted>>

GetSharedSecret(p) ==
  /\ Running(p)
  /\ Found(mine[p].handshake, "handshake")
  /\ mine' = [mine EXCEPT ![p].secret = heap[mine[p].handshake].secret]
  /\ UNCHANGED <<heap, call, aborted>>

ReturnHandshakeHandle(p) ==
  LET h == mine[p].handshake IN
  /\ Running(p)
  /\ Found(h, "handshake")
  /\ heap' = [a \in Addresses |-> IF a \in Parts(h) THEN Free ELSE heap[a]]
  /\ mine' = [MineAfter({h}) EXCEPT ![p].handshake = Nil, ![p].secret = Nil, ![p].lost = FALSE]
  /\ call' = CallAfter({h})
  /\ UNCHANGED aborted

\* Mutant: only the handshake with p's own identity goes.
OwnHandshakeOnly(p, r) == Handshakes(mine[p].local, r)

\* invalidate_remote_related_objects: those of all local identities go.
RelatedHandshakes(p, r) == UNION {Handshakes(l, r) : l \in heap[r].links}

\* return_identity_handle of the remote identity, which frees what is related to it, too.
ReturnRemoteIdentity(p) ==
  LET r == mine[p].remote
      lost == RelatedHandshakes(p, r)
      freed == {r} \union UNION {Parts(h) : h \in lost} IN
  /\ Running(p)
  /\ mine[p].handshake = Nil
  /\ Found(r, "remote")
  /\ heap' = [a \in Addresses |-> IF a \in freed THEN Free ELSE heap[a]]
  /\ mine' = [MineAfter(lost) EXCEPT ![p].remote = Nil]
  /\ call' = CallAfter({r} \union lost)
  /\ UNCHANGED aborted

\* return_identity_handle of the local identity: invalidate_local_related_objects.
ReturnLocalIdentity(p) ==
  LET l == mine[p].local
      lost == UNION {Handshakes(l, r) : r \in Addresses}
      freed == {l} \union UNION {Parts(h) : h \in lost} IN
  /\ Running(p)
  /\ mine[p].handshake = Nil
  /\ Found(l, "local")
  /\ heap' = [a \in Addresses |->
       IF a \in freed THEN Free
       ELSE IF heap[a].kind = "remote" THEN [heap[a] EXCEPT !.links = @ \ {l}] ELSE heap[a]]
  /\ mine' = [MineAfter(lost) EXCEPT ![p] = NoHandles]
  /\ call' = CallAfter({l} \union lost)
  /\ UNCHANGED aborted

\* A caller whose handle was refused as invalid drops it.
DropHandles(p) ==
  /\ Running(p)
  /\ \/ /\ mine[p].handshake # Nil /\ ~Found(mine[p].handshake, "handshake")
        /\ mine' = [mine EXCEPT ![p].handshake = Nil, ![p].secret = Nil, ![p].lost = FALSE]
     \/ /\ mine[p].handshake = Nil /\ mine[p].remote # Nil /\ ~Found(mine[p].remote, "remote")
        /\ mine' = [mine EXCEPT ![p].remote = Nil]
  /\ UNCHANGED <<heap, call, aborted>>

Next == \E p \in Participants :
  \/ ValidateLocalIdentity(p)
  \/ ValidateRemoteIdentity(p)
  \/ EndValidateRemoteIdentity(p)
  \/ BeginHandshakeRequest(p)
  \/ EndHandshakeRequest(p)
  \/ BeginHandshakeReply(p)
  \/ FailAssertion(p)
  \/ ProcessHandshake(p)
  \/ GetSharedSecret(p)
  \/ ReturnHandshakeHandle(p)
  \/ ReturnRemoteIdentity(p)
  \/ ReturnLocalIdentity(p)
  \/ DropHandles(p)

Spec == Init /\ [][Next]_vars

----------------------------------------------------------------------------
(* Properties. *)

\* The secret a participant was given stays allocated until its handshake is freed,
\* although every repeated token makes process_handshake store another one.
SecretStaysAllocated ==
  \A p \in Participants :
    mine[p].secret # Nil /\ ~mine[p].lost => heap[mine[p].secret].kind = "secret"

\* A handshake never refers to an identity that was freed, nor a relation to a local
\* identity, whoever returned what while others were inside a call.
NothingDangles ==
  \A a \in Addresses :
    /\ heap[a].kind = "handshake" =>
         /\ Found(heap[a].local, "local")
         /\ Found(heap[a].remote, "remote")
         /\ heap[a].local \in heap[heap[a].remote].links
    /\ heap[a].kind = "remote" => \A l \in heap[a].links : Found(l, "local")
=============================================================================
