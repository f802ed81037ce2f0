---------------------------- MODULE MCCycloneCalls ----------------------------
(* Small instances of CycloneCalls; addresses are interchangeable. *)
EXTENDS CycloneCalls, TLC

Symmetric == Permutations(Addresses) \union Permutations(Participants)
=============================================================================
