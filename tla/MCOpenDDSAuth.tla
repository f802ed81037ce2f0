--------------------------- MODULE MCOpenDDSAuth ---------------------------
(* Configurations of the participants, and the tokens no peer sent. *)
EXTENDS OpenDDSAuth

SameKem == [p \in Participants |-> "X25519MLKEM768"]
SameDsign == [p \in Participants |-> "ML-DSA-65"]
SameCa == [p \in Participants |-> "ca"]

\* Participant 3 was certified by another CA.
ThirdCa == [p \in Participants |-> IF p = 3 THEN "ca2" ELSE "ca"]

OddAuthRequests == {ForeignToken, ShortToken}
=============================================================================
