------------------------------ MODULE HealthProbe ------------------------------
(***************************************************************************)
(* What the runners of deployments rely on when they call                  *)
(* check_deployment: whatever happens to the container meanwhile, a        *)
(* verdict other than ERROR says that SGLang was serving at one moment of  *)
(* the call.  DeploymentOps takes the whole call for that moment.          *)
(***************************************************************************)
VARIABLES serving,   \* SGLang answers on its port
          verdict,   \* of the call: "none" before one, "asking" during it
          answered   \* it was seen serving during this call

Init == serving \in BOOLEAN /\ verdict = "none" /\ answered = FALSE

\* The container's life is nobody's business here.
Live == serving' \in BOOLEAN /\ UNCHANGED <<verdict, answered>>

Ask ==
  /\ verdict = "none"
  /\ verdict' = "asking" /\ answered' = FALSE
  /\ UNCHANGED serving

Look ==
  /\ verdict = "asking" /\ serving
  /\ answered' = TRUE
  /\ UNCHANGED <<serving, verdict>>

Tell ==
  /\ verdict = "asking"
  /\ verdict' \in IF answered THEN {"OK", "WARN", "ERROR"} ELSE {"ERROR"}
  /\ UNCHANGED <<serving, answered>>

\* The caller has used the verdict, or an exception ended the call without one.
Forget == verdict' = "none" /\ answered' = FALSE /\ UNCHANGED serving

Next == Live \/ Ask \/ Look \/ Tell \/ Forget

Spec == Init /\ [][Next]_<<serving, verdict, answered>>
================================================================================
