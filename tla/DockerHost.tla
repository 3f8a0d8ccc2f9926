------------------------------ MODULE DockerHost ------------------------------
(***************************************************************************)
(* The one container that a deployment owns on its GPU host, and what the  *)
(* docker commands built in commands/docker.py do to it.                   *)
(*                                                                         *)
(* The container is created idle (docker run ... tail -f /dev/null) and    *)
(* SGLang is started in it by docker exec -d, so the process is not the    *)
(* container's main one: docker stop and docker restart kill it and docker *)
(* start does not bring it back.                                           *)
(***************************************************************************)
CONSTANTS Configs, NoConfig

\* exited : created, not running        idle    : running, no SGLang process
\* loading: SGLang started, not serving serving : SGLang answers on its port
Running == {"idle", "loading", "serving"}
Container == [state : {"exited"} \cup Running, config : Configs]
NoContainer == [state |-> "absent", config |-> NoConfig]

Commands == {"port_check", "pull", "rm", "run", "exec", "inspect",
             "stop", "start", "restart"}

\* Exit codes that also stand for success: docker's generic error 1 for the docker
\* commands, any code but 1 for the port check (127 without python3, say).
Tolerant == {"rm", "stop", "inspect", "port_check"}

To(box, s) == [box EXCEPT !.state = s]

(***************************************************************************)
(* The containers a command can leave when docker carries it out; none     *)
(* when it refuses.  c is the configuration the command is built from.     *)
(***************************************************************************)
Applied(cmd, c, box) ==
  CASE cmd \in {"pull", "inspect"} -> {box}
    [] cmd = "port_check" -> {b \in {box} : b.state # "serving"}
    [] cmd = "rm"         -> {NoContainer}
    [] cmd = "run"        -> {b \in {[state |-> "idle", config |-> c]} :
                                box = NoContainer}
    [] cmd = "exec"       -> {To(b, IF b.state = "idle" THEN "loading" ELSE b.state) :
                                b \in {box} \cap [state : Running, config : Configs]}
    [] cmd = "stop"       -> {IF box = NoContainer THEN box ELSE To(box, "exited")}
    [] cmd = "restart"    -> {To(b, "idle") : b \in {box} \ {NoContainer}}
    [] cmd = "start"      -> {To(b, IF b.state = "exited" THEN "idle" ELSE b.state) :
                                b \in {box} \ {NoContainer}}

(***************************************************************************)
(* The containers a command can leave when it fails, times out or loses    *)
(* its connection: it had no effect, all of it, or (docker run) created    *)
(* the container without being able to start it.                           *)
(***************************************************************************)
Interrupted(cmd, c, box) ==
  {box} \cup Applied(cmd, c, box)
        \cup {b \in {[state |-> "exited", config |-> c]} :
                 cmd = "run" /\ box = NoContainer}

\* check_deployment: without a running SGLang the process layer is ERROR, and
\* before it serves the HTTP layer is; past both, any layer may still fail or warn
HealthOutcomes(box) ==
  IF box.state = "serving" THEN {"OK", "WARN", "ERROR"} ELSE {"ERROR"}
===============================================================================
