--------------------------- MODULE MCCycloneDomain ---------------------------
(* Small instances of CycloneDomain. *)
EXTENDS CycloneDomain

Exposed == [p \in Providers |-> IF p = "oqsprovider" THEN {"frodo640shake"} ELSE {}]

OneDomain == [p \in Participants |-> "d"]
SameCa == [p \in Participants |-> "A"]
Directories == [big |-> {"C", "D", "E"}, small |-> {"A", "B"}, other |-> {"B"}]

\* Participant 1 has a CRL, 2 and 4 a good directory, 3 a directory that is too large.
Dirs == [p \in Participants |-> CASE p = 1 -> None [] p = 2 -> "small" [] p = 3 -> "big" [] p = 4 -> "other"]

\* The domains name a good provider and a useless one.
Names == [d \in Domains |-> CASE d = "d" -> "oqsprovider" [] d = "e" -> "oqsprovider"
                              [] d = "f" -> "useless"]
Peers == {[ca |-> "A", revoked |-> TRUE]}
=============================================================================
