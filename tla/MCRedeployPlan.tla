---------------------------- MODULE MCRedeployPlan ----------------------------
(* Instances of RedeployPlan for TLC. *)
EXTENDS RedeployPlan

Careful == [DefaultDocker EXCEPT !.network = "bridge", !.user = "app", !.gpus = "0",
                                 !.env = [LANG |-> "C"]]

\* What the page can ask for, and one careful configuration with its variants.
Dockers ==
  {DefaultDocker, [DefaultDocker EXCEPT !.privileged = "True"], Careful,
   [Careful EXCEPT !.env = [LANG |-> "C.UTF-8", TZ |-> "UTC"]],
   [Careful EXCEPT !.volumes = "[models:ro]", !.ipc = "host"]}

FewDockers ==
  {DefaultDocker, [DefaultDocker EXCEPT !.privileged = "True"],
   [Careful EXCEPT !.volumes = "[models:ro]"]}

Symmetric == Permutations(Requests)
================================================================================
