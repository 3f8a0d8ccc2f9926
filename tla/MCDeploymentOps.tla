---------------------------- MODULE MCDeploymentOps ----------------------------
(* Instances of DeploymentOps for TLC. *)
EXTENDS DeploymentOps, TLC

\* A configuration of two columns; a docker configuration may replace containers.
Config(image, docker) == [image |-> image, docker_config |-> docker]
BothColumns == {"image", "docker_config"}
FourConfigs == {Config(image, docker) : image \in {"old", "new"}, docker \in {"keep", "replace"}}
TwoConfigs == {c \in FourConfigs : c.image = "old"}
OneConfig == {Config("old", "replace")}

\* Going from c to d is a change that carries a risk; these replace containers.
RiskyPairs ==
  {<<c, d>> \in Configs \X Configs :
     c.docker_config = "keep" /\ d.docker_config = "replace"}
Replacing == {c \in Configs : c.docker_config = "replace"}

Operations == {"deploy", "restart", "stop", "start"}
Guarded == {"restart", "stop", "start", "redeploy"}
Symmetric == Permutations(Jobs) \cup Permutations(Workers) \cup Permutations(Clients)
================================================================================
