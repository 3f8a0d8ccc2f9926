------------------------------- MODULE RemoteCall -------------------------------
(***************************************************************************)
(* What the runners rely on when they send a command to a host: success is *)
(* reported only for a command that has been carried out.  A failure says  *)
(* nothing: the command may have been carried out before, or be so later.  *)
(***************************************************************************)
VARIABLES
  effect,  \* the host has carried out the command
  report   \* what the caller was told so far

Init == effect = FALSE /\ report = "none"

CarryOut ==
  /\ effect' = TRUE
  /\ UNCHANGED report

Tell ==
  /\ report = "none"
  /\ report' \in IF effect THEN {"success", "failure"} ELSE {"failure"}
  /\ UNCHANGED effect

Next == CarryOut \/ Tell

Spec == Init /\ [][Next]_<<effect, report>>
================================================================================
