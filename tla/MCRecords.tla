------------------------------- MODULE MCRecords -------------------------------
(* Instances of Records for TLC. *)
EXTENDS Records, TLC

Symmetric == Permutations(Processes) \cup Permutations(Hosts) \cup Permutations(Deployments)
             \cup Permutations(Addresses) \cup Permutations(Settings)
================================================================================
