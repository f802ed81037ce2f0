--------------------------- MODULE MCCycloneClassic ---------------------------
(* Small instances of CycloneClassic. *)
EXTENDS CycloneClassic

\* Two challenges and two key pairs for the initiator, which may live twice.
InitiatorLivesTwice == [r \in Roles |-> IF r = "initiator" THEN 4 ELSE 3]

\* Permissions arrive at the initiator.
InitiatorsDocument == [r \in Roles |-> IF r = "initiator" THEN {"d1"} ELSE {}]
=============================================================================
