----------------------------- MODULE MutualAuth -----------------------------
(***************************************************************************)
(* What a three-message authentication promises, with no tokens, handles,  *)
(* signatures or network: a replier offers a session (who the two parties  *)
(* are and the secret they would share), the initiator accepts a session   *)
(* that was offered to it, and the replier confirms a session only after   *)
(* the initiator has accepted it.  Sessions are never withdrawn and no two *)
(* offers carry the same secret.  A session is a record with a field       *)
(* secret; the module does not say what else it holds.                     *)
(***************************************************************************)
VARIABLES
  offers,      \* sessions a replier has encapsulated a secret for
  accepted,    \* sessions the initiator has completed
  confirmed    \* sessions the replier has completed

absVars == <<offers, accepted, confirmed>>

AbsInit == offers = {} /\ accepted = {} /\ confirmed = {}

Offer(s) ==
  /\ s \notin offers
  /\ \A o \in offers : o.secret # s.secret
  /\ offers' = offers \cup {s}
  /\ UNCHANGED <<accepted, confirmed>>

Accept(s) ==
  /\ s \in offers \ accepted
  /\ accepted' = accepted \cup {s}
  /\ UNCHANGED <<offers, confirmed>>

Confirm(s) ==
  /\ s \in accepted \ confirmed
  /\ confirmed' = confirmed \cup {s}
  /\ UNCHANGED <<offers, accepted>>

AbsNext ==
  \/ \E s \in offers' \ offers : Offer(s)
  \/ \E s \in offers : Accept(s)
  \/ \E s \in accepted : Confirm(s)

AbsSpec == AbsInit /\ [][AbsNext]_absVars
=============================================================================
