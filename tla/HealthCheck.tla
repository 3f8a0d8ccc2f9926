------------------------------ MODULE HealthCheck ------------------------------
(***************************************************************************)
(* HealthService.check_deployment, layer by layer, and what its callers    *)
(* and the dashboard make of the result.                                   *)
(*                                                                         *)
(* The layers are asked one after another, over SSH and HTTP, while other  *)
(* commands and SGLang itself change the container.  The call works on the *)
(* deployment's row as the runner loaded it: a redeployment is checked     *)
(* before its configuration reaches the row.                               *)
(***************************************************************************)
EXTENDS Naturals, Sequences, FiniteSets, DockerHost

CONSTANT Metrics  \* the configurations with sglang_config.enable_metrics

ASSUME MetricsAssumption == Metrics \subseteq Configs

VARIABLES
  box,    \* the container on the host
  row,    \* row of deployments: status, configuration, last_health_status
  check   \* the job at work and the layers it has collected

vars == <<box, row, check>>

Layers == <<"host_reachable", "docker_ready", "container_running",
            "sglang_process_exists", "http_health", "model_or_server_info",
            "load_optional", "metrics">>

Redeployable == {"running", "degraded", "failed", "stopped"}
Verdicts == {"OK", "WARN", "ERROR"}

\* last_health_status: the aggregate, the metrics layer, and the configuration
\* that was checked
NoHealth == [verdict |-> "none", metrics |-> "none", of |-> NoConfig]
IdleCheck == [at |-> "idle", redeploy |-> FALSE, config |-> NoConfig,
              url |-> FALSE, old |-> "failed", layers |-> <<>>]

Init ==
  /\ \E c \in Configs : row = [status |-> "draft", config |-> c, health |-> NoHealth]
  /\ box = NoContainer
  /\ check = IdleCheck

-----------------------------------------------------------------------------
(* The jobs around the call                                                  *)

\* Mutant of Begin: a deployment that is busy may be redeployed.
BeginBusy ==
  /\ check.at = "idle"
  /\ \E redeploy \in BOOLEAN, c \in Configs :
       /\ IF redeploy THEN row.status \in Redeployable \cup {"busy"} ELSE c = row.config
       /\ check' = [IdleCheck EXCEPT !.at = "commands", !.redeploy = redeploy, !.config = c,
                                     !.url = row.config \in Metrics,
                                     !.old = IF redeploy THEN row.status ELSE "failed"]
  /\ row' = [row EXCEPT !.status = "busy"]
  /\ UNCHANGED box

\* Mutant of Begin: every job restores the status it found when it fails.
BeginRestoring ==
  /\ check.at = "idle" /\ row.status # "busy"
  /\ \E redeploy \in BOOLEAN, c \in Configs :
       /\ IF redeploy THEN row.status \in Redeployable ELSE c = row.config
       /\ check' = [IdleCheck EXCEPT !.at = "commands", !.redeploy = redeploy, !.config = c,
                                     !.url = row.config \in Metrics,
                                     !.old = IF row.status = "draft" THEN "failed"
                                                                     ELSE row.status]
  /\ row' = [row EXCEPT !.status = "busy"]
  /\ UNCHANGED box

\* A job other than stop starts.  It is to check the configuration in the row or,
\* when it redeploys, the one of its payload.
Begin ==
  /\ check.at = "idle" /\ row.status # "busy"
  /\ \E redeploy \in BOOLEAN, c \in Configs :
       /\ IF redeploy THEN row.status \in Redeployable ELSE c = row.config
       /\ check' = [IdleCheck EXCEPT !.at = "commands", !.redeploy = redeploy, !.config = c,
                                     !.url = row.config \in Metrics,
                                     !.old = IF redeploy THEN row.status ELSE "failed"]
  /\ row' = [row EXCEPT !.status = "busy"]
  /\ UNCHANGED box

\* Its commands succeed, and it calls check_deployment ...
Call ==
  /\ check.at = "commands"
  /\ check' = [check EXCEPT !.at = "layers"]
  /\ UNCHANGED <<box, row>>

\* ... or one of them fails: _fail.
CommandFails ==
  /\ check.at = "commands"
  /\ row' = [row EXCEPT !.status = check.old]
  /\ check' = IdleCheck
  /\ UNCHANGED box

\* A stop, which checks nothing.
Stop ==
  /\ check.at = "idle" /\ row.status \in Redeployable \ {"stopped"}
  /\ \E outcome \in {"stopped", "failed"} : row' = [row EXCEPT !.status = outcome]
  /\ UNCHANGED <<box, check>>

-----------------------------------------------------------------------------
(* check_deployment                                                          *)

\* The layer that is next.
Layer == Layers[Len(check.layers) + 1]

\* What has to be so for a layer to be OK.
CanPass(layer) ==
  CASE layer \in {"host_reachable", "docker_ready"} -> TRUE
    [] layer = "container_running"                  -> box.state \in Running
    [] layer = "sglang_process_exists"              -> box.state \in {"loading", "serving"}
    [] layer = "metrics"                            -> /\ box.state = "serving"
                                                       /\ box.config \in Metrics
    [] OTHER                                        -> box.state = "serving"

\* Mutant of Trouble: a failing /health is only a warning.
TroubleOfHttp(layer) ==
  IF layer \in {"http_health", "model_or_server_info", "load_optional", "metrics"}
  THEN "WARN" ELSE "ERROR"

\* What it is otherwise.
Trouble(layer) ==
  IF layer \in {"model_or_server_info", "load_optional", "metrics"} THEN "WARN" ELSE "ERROR"

\* Only an unreachable host ends the call early.
Collect(s) ==
  check' = [check EXCEPT !.layers = Append(@, s),
                         !.at = IF \/ Layer = "host_reachable" /\ s = "ERROR"
                                   \/ Layer = "metrics"
                                THEN "told" ELSE "layers"]

Pass ==
  /\ check.at \in {"layers", "server_info"} /\ CanPass(Layer)
  /\ Layer = "metrics" => check.url
  /\ Collect("OK")
  /\ UNCHANGED <<box, row>>

\* A command or request may fail whatever the state of the container.  When
\* /model_info fails, /server_info is asked before the layer is given up.
LayerFails ==
  /\ check.at \in {"layers", "server_info"}
  /\ Layer = "metrics" => check.url
  /\ IF Layer = "model_or_server_info" /\ check.at = "layers"
     THEN check' = [check EXCEPT !.at = "server_info"]
     ELSE Collect(Trouble(Layer))
  /\ UNCHANGED <<box, row>>

\* Mutant of Skip: metrics that do not answer are skipped.
SkipFreely ==
  /\ check.at = "layers" /\ Layer = "metrics"
  /\ Collect("SKIPPED")
  /\ UNCHANGED <<box, row>>

\* The row that was loaded has no metrics_url.
Skip ==
  /\ check.at = "layers" /\ Layer = "metrics" /\ ~check.url
  /\ Collect("SKIPPED")
  /\ UNCHANGED <<box, row>>

\* An SSH or HTTP error that neither client names, or a crash, ends the task.
Abort ==
  /\ check.at # "idle"
  /\ check' = IdleCheck
  /\ UNCHANGED <<box, row>>

Reported(layers) == {layers[i] : i \in 1..Len(layers)}

\* Mutant of Aggregate: the optional last layer does not count.
AggregateRequired(layers) ==
  LET required == {layers[i] : i \in (1..Len(layers)) \ {Len(Layers)}} IN
  IF "ERROR" \in required THEN "ERROR" ELSE IF "WARN" \in required THEN "WARN" ELSE "OK"

Aggregate(layers) ==
  IF "ERROR" \in Reported(layers) THEN "ERROR"
  ELSE IF "WARN" \in Reported(layers) THEN "WARN" ELSE "OK"

Verdict == Aggregate(check.layers)

Health == [verdict |-> Verdict, of |-> check.config,
           metrics |-> IF Len(check.layers) = Len(Layers) THEN check.layers[Len(Layers)]
                                                          ELSE "none"]

\* What a job commits on the way to its end: the health of the configuration in the
\* row, or a redeployment's configuration once its health was no ERROR.
Record ==
  /\ check.at = "told" /\ (check.redeploy => Verdict # "ERROR")
  /\ row' = IF check.redeploy THEN [row EXCEPT !.config = check.config]
                              ELSE [row EXCEPT !.health = Health]
  /\ check' = [check EXCEPT !.at = "recorded"]
  /\ UNCHANGED box

\* The last commit of a job that does not fail.
Succeed ==
  /\ check.at = "recorded" /\ Verdict # "ERROR"
  /\ row' = [row EXCEPT !.status = IF Verdict = "OK" THEN "running" ELSE "degraded",
                        !.health = Health]
  /\ check' = IdleCheck
  /\ UNCHANGED box

\* Mutant of Fail: the health of a failed redeployment is stored like any other.
FailRecording ==
  /\ check.at = IF check.redeploy THEN "told" ELSE "recorded"
  /\ Verdict = "ERROR"
  /\ row' = [row EXCEPT !.status = check.old, !.health = Health]
  /\ check' = IdleCheck
  /\ UNCHANGED box

\* _fail: a redeployment gives back the status it found, and leaves the health.
Fail ==
  /\ check.at = IF check.redeploy THEN "told" ELSE "recorded"
  /\ Verdict = "ERROR"
  /\ row' = [row EXCEPT !.status = check.old]
  /\ check' = IdleCheck
  /\ UNCHANGED box

-----------------------------------------------------------------------------
(* The container: commands of this and of other jobs, and SGLang             *)

Command ==
  /\ \E cmd \in Commands, c \in Configs : box' \in Interrupted(cmd, c, box)
  /\ UNCHANGED <<row, check>>

Serve ==
  /\ box.state = "loading"
  /\ box' = To(box, "serving")
  /\ UNCHANGED <<row, check>>

Die ==
  /\ box.state \in {"loading", "serving"}
  /\ box' = To(box, "idle")
  /\ UNCHANGED <<row, check>>

Next ==
  \/ Begin \/ Call \/ CommandFails \/ Stop
  \/ Pass \/ LayerFails \/ Skip \/ Abort \/ Record \/ Succeed \/ Fail
  \/ Command \/ Serve \/ Die

Spec == Init /\ [][Next]_vars

-----------------------------------------------------------------------------
(* The dashboard: monitoring_service.py                                      *)

\* _deployment_health_status
DashboardStatus ==
  CASE row.status = "running"  -> IF row.health.verdict = "WARN" THEN "warning" ELSE "healthy"
    [] row.status = "degraded" -> "warning"
    [] row.status = "failed"   -> "failed"
    [] OTHER                   -> "unknown"

\* metrics_status_from_health: by the stored health, if the row has a metrics_url.
MetricsStatus ==
  IF row.config \notin Metrics THEN "DISABLED"
  ELSE IF row.health.metrics = "none" THEN "UNKNOWN" ELSE row.health.metrics

\* metrics_unreachable of dashboard_summary: the layer's reachable is false.
MetricsUnreachable == MetricsStatus = "WARN"

-----------------------------------------------------------------------------
(* Properties                                                                *)

TypeOK ==
  /\ box \in Container \cup {NoContainer}
  /\ row \in [status : {"draft", "busy"} \cup Redeployable, config : Configs,
              health : [verdict : Verdicts \cup {"none"},
                        metrics : {"OK", "WARN", "SKIPPED", "none"},
                        of : Configs \cup {NoConfig}]]
  /\ check \in [at : {"idle", "commands", "layers", "server_info", "told", "recorded"},
                redeploy : BOOLEAN, config : Configs \cup {NoConfig}, url : BOOLEAN,
                old : Redeployable, layers : Seq(Verdicts \cup {"SKIPPED"})]
  /\ Len(check.layers) <= Len(Layers)

Serving == box.state = "serving"
Answered == Len(check.layers) >= 5 /\ check.layers[5] = "OK"
Telling == CASE check.at \in {"layers", "server_info"} -> "asking"
             [] check.at \in {"told", "recorded"}      -> Verdict
             [] OTHER                                  -> "none"

\* A verdict other than ERROR was deserved at one moment of the call, although the
\* layers are asked at different moments and the container changes in between.
Probe == INSTANCE HealthProbe WITH serving <- Serving, verdict <- Telling,
                                   answered <- Answered
ProbeIsDeserved == Probe!Spec

\* The health shown with a deployment is that of the configuration in its row, however
\* many redeployments failed since: their results must not be shown for it.
StoredHealthIsOfRow ==
  row.status # "busy" /\ row.health # NoHealth => row.health.of = row.config

\* The dashboard, which reads two columns that are written by different paths, counts
\* as healthy only what passed its last check, and as a warning what it warned about.
DashboardAgrees ==
  /\ DashboardStatus = "healthy" => row.health.verdict = "OK"
  /\ DashboardStatus = "warning" => row.health.verdict = "WARN"

\* What the dashboard lists with unreachable metrics is counted as a warning while it is
\* up, and was found so by the last check of this very configuration: the list reads
\* the stored layers and the row, the count the status and the stored aggregate.
UnreachableIsWarned ==
  MetricsUnreachable /\ row.status \in {"running", "degraded"}
  => DashboardStatus = "warning" /\ row.health.of = row.config

\* An overall OK says that every layer was asked and passed; only metrics that the row
\* does not have are left out.
OkMeansAllLayers ==
  check.at \in {"told", "recorded"} /\ Verdict = "OK" =>
    \A i \in 1..Len(Layers) :
      check.layers[i] = IF Layers[i] = "metrics" /\ ~check.url THEN "SKIPPED" ELSE "OK"
================================================================================
