------------------------------ MODULE MCHostChecks ------------------------------
(* Instances of HostChecks for TLC. *)
EXTENDS HostChecks, TLC

\* The page of a job offers a retry only when it has failed; the API always does.
FromThePage == {"failed"}
================================================================================
