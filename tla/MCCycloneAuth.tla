--------------------------- MODULE MCCycloneAuth ---------------------------
(* Small instances of CycloneAuth. *)
EXTENDS CycloneAuth

\* One participant per process.
Apart == [p \in Participants |-> p]

\* Participants 2 and 3 share a process.
Shared == [p \in Participants |-> IF p = 1 THEN 1 ELSE 2]

\* A challenge and a key pair for the initiator; the replier has one draw to spare.
OneExchange == [p \in Participants |-> IF p = 1 THEN 2 ELSE 3]

\* The replier lives twice.
TwoReplies == [p \in Participants |-> IF p = 1 THEN 2 ELSE 4]

\* The initiator draws two challenges and two key pairs, or one and three.
TwoKeys == [p \in Participants |-> IF p = 1 THEN 4 ELSE 2]

\* The initiator has a key pair for each of two peers, the first of which has one draw
\* to spare.
TwoPeers == [p \in Participants |-> CASE p = 1 -> 4 [] p = 2 -> 3 [] p = 3 -> 2]

NoPerms == [p \in Participants |-> {}]

\* Permissions arrive at the initiator.
InitiatorsPerms == [p \in Participants |-> IF p = 1 THEN {"d1"} ELSE {}]

SameKem == [p \in Participants |-> "mlkem768"]
SameCa == [p \in Participants |-> "ca"]
=============================================================================
