--------------------------- MODULE MCOpenDDSPlugin ---------------------------
(* Small instances of OpenDDSPlugin: a native KEM, two KEMs of oqsprovider, one *)
(* of another provider and one of a provider that is not installed.             *)
EXTENDS OpenDDSPlugin

Exposed == [p \in Providers |->
  CASE p = "oqsprovider" -> {"frodo640shake", "bikel1"}
    [] p = "other" -> {"hqc128"}
    [] p = "missing" -> {"bikel1"}]

\* Everybody's own choice: native, by default, by another name, by a missing module.
Kems == [d \in Participants |->
  CASE d = 1 -> "ML-KEM-768" [] d = 2 -> "frodo640shake" [] d = 3 -> "hqc128" [] d = 4 -> "bikel1"]
Names == [d \in Participants |->
  CASE d = 1 -> "oqsprovider" [] d = 2 -> "oqsprovider" [] d = 3 -> "other" [] d = 4 -> "missing"]
=============================================================================
