----------------------------- MODULE DeploymentOps -----------------------------
(***************************************************************************)
(* One deployment: the API requests that create jobs for it, the task      *)
(* queue, the workers that run the jobs, the rows of the database and the  *)
(* container on the GPU host.                                              *)
(*                                                                         *)
(* A request and a run each work on ORM objects loaded once (the fields    *)
(* seen and seenJob below) and write in several commits; every action is   *)
(* one commit or one remote command, so all processes interleave there.    *)
(***************************************************************************)
EXTENDS Naturals, Sequences, FiniteSets, JobService, DockerHost

CONSTANTS
  Jobs, NoJob,     \* ids of the jobs that may be created; no id
  Columns,         \* the columns of deployments that hold its configuration
  Clients,         \* concurrent API requests
  Workers,         \* threads or worker processes that run tasks
  RemoveExisting,  \* the configurations with docker_config.remove_existing
  HighRisk,        \* <<old, new>> pairs whose diff carries a risk
  Kinds,           \* the operations that clients ask for
  Celery,          \* task_queue_mode = "celery"; else BackgroundTasks
  Faults,          \* which of AllFaults can happen
  MaxFaults        \* bound on their number in a behaviour

AllKinds == {"deploy", "restart", "stop", "start", "redeploy"}
AllFaults == {"crash",      \* a process dies between two steps
              "redeliver",  \* the broker delivers an unacknowledged task again
              "lose",       \* the queue refuses or loses a task
              "raise",      \* an exception that the runner does not catch
              "daemon",     \* a tolerated exit code hides that a command did nothing
              "die",        \* SGLang dies in its container, or the container stops
              "late"}       \* a command is carried out after its call has failed

\* A commit writes the columns whose value differs from the one that was loaded.
FlushConfig(seen, new, stored) ==
  [k \in Columns |-> Flush(seen[k], new[k], stored[k])]

\* Configurations are values of the columns, any value of one with any of another.
ASSUME Parameters ==
  /\ NoJob \notin Jobs /\ NoConfig \notin Configs
  /\ \A c \in Configs : c = [k \in Columns |-> c[k]]
  /\ \A seen, new, stored \in Configs : FlushConfig(seen, new, stored) \in Configs
  /\ RemoveExisting \subseteq Configs
  /\ HighRisk \subseteq Configs \X Configs
  /\ Kinds \subseteq AllKinds
  /\ Celery \in BOOLEAN
  /\ Faults \subseteq AllFaults
  /\ MaxFaults \in Nat

VARIABLES
  dep,      \* row of deployments: status, last_job_id, configuration, current revision
  revs,     \* rows of deployment_revisions in insertion order: their configurations
  job,      \* rows of jobs, by id
  task,     \* the message of each job: what it was asked to do
  queue,    \* jobs with a task waiting in the queue
  request,  \* API requests between their two commits
  run,      \* tasks being executed
  box,      \* the container on the host
  faults    \* number of faults so far

vars == <<dep, revs, job, task, queue, request, run, box, faults>>

Settled == {"running", "degraded", "stopped", "failed"}
Busy == {"deploying", "redeploying", "restarting", "stopping", "starting"}
DepStatus == {"draft"} \cup Settled \cup Busy

Transition == [restart |-> "restarting", stop |-> "stopping", start |-> "starting",
               deploy |-> "deploying", redeploy |-> "redeploying"]

\* _ALLOWED_STATUSES and _REDEPLOY_ALLOWED; deploying is not guarded at all
AllowedFrom == [restart  |-> {"running", "degraded", "failed"},
                stop     |-> {"running", "degraded", "failed"},
                start    |-> {"stopped", "failed"},
                redeploy |-> {"running", "degraded", "failed", "stopped"},
                deploy   |-> DepStatus]

\* validate_redeploy's last test
RiskAccepted(t, c) == <<c, t.config>> \in HighRisk => t.confirmed

Tasks == [kind : AllKinds, config : Configs \cup {NoConfig}, confirmed : BOOLEAN]
NoTask == [kind |-> "deploy", config |-> NoConfig, confirmed |-> FALSE]

\* The remote commands of a run, in order, before its health check.
Script(kind, c) ==
  CASE kind = "deploy"   -> <<"port_check", "pull">>
                            \o (IF c \in RemoveExisting THEN <<"rm">> ELSE <<>>)
                            \o <<"run", "exec", "inspect">>
    [] kind = "redeploy" -> <<"stop", "rm", "pull", "run", "exec">>
    [] OTHER             -> <<kind>>

Stages == {"idle", "loaded", "command", "probe", "apply", "point",
           "settle", "finish", "fail", "mark_failed", "raised", "ack"}
IdleRun == [at |-> "idle", job |-> NoJob, seen |-> "draft", seenConfig |-> NoConfig,
            seenJob |-> "pending", old |-> "failed", todo |-> <<>>, health |-> "none",
            rev |-> 1]
IdleRequest == [at |-> "idle", job |-> NoJob, seen |-> "draft"]

\* A new deployment, or one that is already serving.
Init ==
  \E c \in Configs, new \in BOOLEAN :
    /\ dep = [status |-> IF new THEN "draft" ELSE "running", last |-> NoJob,
              config |-> c, revision |-> 1]
    /\ box = IF new THEN NoContainer ELSE [state |-> "serving", config |-> c]
    /\ revs = <<c>>
    /\ job = [j \in Jobs |-> [status |-> NoRow, previous |-> "none"]]
    /\ task = [j \in Jobs |-> NoTask]
    /\ queue = {}
    /\ request = [a \in Clients |-> IdleRequest]
    /\ run = [w \in Workers |-> IdleRun]
    /\ faults = 0

Fault(f) == f \in Faults /\ faults < MaxFaults /\ faults' = faults + 1
NoFault == faults' = faults
Step(w, stage) == run' = [run EXCEPT ![w].at = stage]

-----------------------------------------------------------------------------
(* API requests: operations.py, deployments.py and the create_*_job services *)

\* Read the deployment, validate, and commit the pending job.
Submit(c) ==
  /\ request[c].at = "idle"
  /\ \E j \in Jobs, k \in Kinds, conf \in Configs \cup {NoConfig}, ok \in BOOLEAN :
       LET t == [kind |-> k, config |-> conf, confirmed |-> ok] IN
       /\ job[j].status = NoRow
       /\ conf = NoConfig <=> k # "redeploy"
       /\ ok => k \in {"deploy", "redeploy"}
       /\ dep.status \in AllowedFrom[k]
       /\ k = "redeploy" => RiskAccepted(t, dep.config)
       /\ job' = [job EXCEPT ![j].status = "pending"]
       /\ task' = [task EXCEPT ![j] = t]
       /\ request' = [request EXCEPT ![c] = [at |-> "created", job |-> j,
                                             seen |-> dep.status]]
  /\ UNCHANGED <<dep, revs, queue, run, box, faults>>

\* Mutant of Accept: the second commit forgets the deployment's status.
AcceptSilently(c) ==
  LET j == request[c].job IN
  /\ request[c].at = "created"
  /\ dep' = [dep EXCEPT !.last = j]
  /\ request' = [request EXCEPT ![c] = IdleRequest]
  /\ queue' = queue \cup {j}
  /\ UNCHANGED <<revs, job, task, run, box, faults>>

\* Second commit of the request, on the row as it was read, then enqueue_job.
Accept(c) ==
  LET j == request[c].job
      k == task[j].kind IN
  /\ request[c].at = "created"
  /\ dep' = [dep EXCEPT !.last = j, !.status = Flush(request[c].seen, Transition[k], @)]
  /\ job' = [job EXCEPT ![j].previous = IF k = "redeploy" THEN request[c].seen ELSE @]
  /\ request' = [request EXCEPT ![c] = IdleRequest]
  /\ queue' = queue \cup {j}
  /\ UNCHANGED <<revs, task, run, box, faults>>

\* The API process dies between the two commits.
Abandon(c) ==
  /\ request[c].at = "created"
  /\ Fault("crash")
  /\ request' = [request EXCEPT ![c] = IdleRequest]
  /\ UNCHANGED <<dep, revs, job, task, queue, run, box>>

-----------------------------------------------------------------------------
(* Task runs: deployment_jobs.py, operation_jobs.py and redeploy_jobs.py     *)

\* What a failing run of j writes to the deployment: a redeployment restores the
\* status the request found, or the current one if the job no longer has it.
FallBack(j) ==
  LET old == IF job[j].previous = "none" THEN dep.status ELSE job[j].previous IN
  IF task[j].kind # "redeploy" \/ old = "redeploying" THEN "failed" ELSE old

\* run_*_task: load the job and the deployment into a new session.
Take(w) ==
  /\ run[w].at = "idle"
  /\ \E j \in queue :
       /\ queue' = queue \ {j}
       /\ run' = [run EXCEPT ![w] =
                    [IdleRun EXCEPT !.at = "loaded", !.job = j, !.seen = dep.status,
                                    !.seenConfig = dep.config, !.seenJob = job[j].status,
                                    !.old = FallBack(j),
                                    !.todo = Script(task[j].kind, dep.config)]]
  /\ UNCHANGED <<dep, revs, job, task, request, box, faults>>

\* Mutant of Begin: the run starts without marking its job running.
BeginUnmarked(w) ==
  /\ run[w].at = "loaded"
  /\ Step(w, "command")
  /\ UNCHANGED <<dep, revs, job, task, queue, request, box, faults>>

\* Mutant of Begin: a redeployment stores its configuration when it starts.
BeginApplying(w) ==
  LET j == run[w].job
      t == task[j]
      row == MarkRunning(job[j], run[w].seenJob) IN
  /\ run[w].at = "loaded"
  /\ job' = [job EXCEPT ![j] = row]
  /\ run' = [run EXCEPT ![w].seenJob = row.status, ![w].at = "command"]
  /\ dep' = [dep EXCEPT !.config = IF t.kind = "redeploy" THEN t.config ELSE @]
  /\ UNCHANGED <<revs, task, queue, request, box, faults>>

\* mark_running; a redeployment validates its payload once more.
Begin(w) ==
  LET j == run[w].job
      row == MarkRunning(job[j], run[w].seenJob) IN
  /\ run[w].at = "loaded"
  /\ job' = [job EXCEPT ![j] = row]
  /\ run' = [run EXCEPT ![w].seenJob = row.status,
                        ![w].at = IF /\ task[j].kind = "redeploy"
                                     /\ ~RiskAccepted(task[j], run[w].seenConfig)
                                  THEN "fail" ELSE "command"]
  /\ UNCHANGED <<dep, revs, task, queue, request, box, faults>>

\* deploy removes a container only when the request confirmed it
Refused(w) ==
  LET t == task[run[w].job] IN
  t.kind = "deploy" /\ ~t.confirmed /\ Head(run[w].todo) = "rm"

\* The configuration the docker commands of a run are built from.
Built(w) ==
  IF task[run[w].job].kind = "redeploy" THEN task[run[w].job].config
                                        ELSE run[w].seenConfig

\* Mutant of AfterCommands: no kind of run checks the health.
AlwaysSettle(kind) == "settle"

\* The stage after the last command; only a stop is settled without a probe.
AfterCommands(kind) == IF kind = "stop" THEN "settle" ELSE "probe"

\* A command exits with an allowed code.
CommandSucceeds(w) ==
  LET r == run[w]
      cmd == Head(r.todo)
      k == task[r.job].kind IN
  /\ r.at = "command" /\ ~Refused(w)
  /\ \/ box' \in Applied(cmd, Built(w), box) /\ NoFault
     \/ cmd \in Tolerant /\ box' = box /\ Fault("daemon")
  /\ run' = [run EXCEPT ![w].todo = Tail(@),
                        ![w].at = IF Len(r.todo) = 1 THEN AfterCommands(k) ELSE @]
  /\ UNCHANGED <<dep, revs, job, task, queue, request>>

\* Mutant of CommandFails: no except clause for the failure.
CommandFailsUncaught(w) ==
  /\ run[w].at = "command"
  /\ box' \in Interrupted(Head(run[w].todo), Built(w), box)
  /\ Step(w, "ack")
  /\ UNCHANGED <<dep, revs, job, task, queue, request, faults>>

\* It exits otherwise, times out, loses SSH, or is refused.
CommandFails(w) ==
  /\ run[w].at = "command"
  /\ box' \in IF Refused(w) THEN {box}
              ELSE Interrupted(Head(run[w].todo), Built(w), box)
  /\ run' = [run EXCEPT ![w].at = "fail",
                        ![w].todo = IF Refused(w) \/ box' # box THEN <<>> ELSE @]
  /\ UNCHANGED <<dep, revs, job, task, queue, request, faults>>

\* Mutant of Probe: an ERROR is taken for a degraded deployment.
ProbeForgives(w) ==
  /\ run[w].at = "probe"
  /\ \E h \in HealthOutcomes(box) :
       run' = [run EXCEPT ![w].health = h,
                          ![w].at = IF task[run[w].job].kind = "redeploy" THEN "apply"
                                    ELSE "settle"]
  /\ UNCHANGED <<dep, revs, job, task, queue, request, box, faults>>

\* check_deployment, once, right after the last command.
Probe(w) ==
  /\ run[w].at = "probe"
  /\ \E h \in HealthOutcomes(box) :
       run' = [run EXCEPT
                 ![w].health = h,
                 ![w].at = IF h = "ERROR" THEN "fail"
                           ELSE IF task[run[w].job].kind = "redeploy" THEN "apply"
                           ELSE "settle"]
  /\ UNCHANGED <<dep, revs, job, task, queue, request, box, faults>>

\* Mutant of ApplyConfig: max(revision_no) is used without the + 1.
ApplyOldNumber(w) ==
  LET new == task[run[w].job].config IN
  /\ run[w].at = "apply"
  /\ revs' = Append(revs, new)
  /\ dep' = [dep EXCEPT !.config = FlushConfig(run[w].seenConfig, new, @)]
  /\ run' = [run EXCEPT ![w].at = "point", ![w].seenConfig = new,
                        ![w].rev = Len(revs)]
  /\ UNCHANGED <<job, task, queue, request, box, faults>>

\* apply_payload_to_deployment: create_revision's commit flushes the columns of the
\* new configuration together with the revision row, which has all of it ...
ApplyConfig(w) ==
  LET new == task[run[w].job].config IN
  /\ run[w].at = "apply"
  /\ revs' = Append(revs, new)
  /\ dep' = [dep EXCEPT !.config = FlushConfig(run[w].seenConfig, new, @)]
  /\ run' = [run EXCEPT ![w].at = "point", ![w].seenConfig = new,
                        ![w].rev = Len(revs) + 1]
  /\ UNCHANGED <<job, task, queue, request, box, faults>>

\* ... and a second commit moves the current revision; then refresh(deployment).
PointRevision(w) ==
  /\ run[w].at = "point"
  /\ dep' = [dep EXCEPT !.revision = run[w].rev]
  /\ run' = [run EXCEPT ![w].at = "settle",
                        ![w].seen = dep.status, ![w].seenConfig = dep.config]
  /\ UNCHANGED <<revs, job, task, queue, request, box, faults>>

\* Mutant of Outcome: the aggregated health itself becomes the status.
HealthAsStatus(w) == run[w].health

\* The status a run that did not fail gives to the deployment.
Outcome(w) ==
  IF task[run[w].job].kind = "stop" THEN "stopped"
  ELSE IF run[w].health = "OK" THEN "running" ELSE "degraded"

\* The commit of the deployment's status and the job's result.
Settle(w) ==
  LET j == run[w].job IN
  /\ run[w].at = "settle"
  /\ dep' = [dep EXCEPT !.status = Flush(run[w].seen, Outcome(w), @)]
  /\ job' = [job EXCEPT ![j] = SaveResult(@)]
  /\ run' = [run EXCEPT ![w].at = "finish", ![w].seenJob = job[j].status]
  /\ UNCHANGED <<revs, task, queue, request, box, faults>>

Finish(w) ==
  LET j == run[w].job IN
  /\ run[w].at = "finish"
  /\ job' = [job EXCEPT ![j] = MarkSucceeded(@, run[w].seenJob)]
  /\ Step(w, "ack")
  /\ UNCHANGED <<dep, revs, task, queue, request, box, faults>>

\* Mutant of Fail: only the job is marked.
FailJobOnly(w) ==
  /\ run[w].at = "fail"
  /\ Step(w, "mark_failed")
  /\ UNCHANGED <<dep, revs, job, task, queue, request, box, faults>>

\* _fail: first the deployment ...
Fail(w) ==
  /\ run[w].at = "fail"
  /\ dep' = [dep EXCEPT !.status = Flush(run[w].seen, run[w].old, @)]
  /\ Step(w, "mark_failed")
  /\ UNCHANGED <<revs, job, task, queue, request, box, faults>>

\* ... then the job.
FailJob(w) ==
  LET j == run[w].job IN
  /\ run[w].at = "mark_failed"
  /\ job' = [job EXCEPT ![j] = MarkFailed(@, run[w].seenJob)]
  /\ Step(w, "ack")
  /\ UNCHANGED <<dep, revs, task, queue, request, box, faults>>

\* The task has returned: with late acknowledgement its message goes only now.
Ack(w) ==
  /\ run[w].at = "ack"
  /\ run' = [run EXCEPT ![w] = IdleRun]
  /\ UNCHANGED <<dep, revs, job, task, queue, request, box, faults>>

-----------------------------------------------------------------------------
(* Faults                                                                    *)

\* An exception no except clause names, such as OSError from the SSH connect.
Raise(w) ==
  /\ run[w].at \in {"loaded", "command", "probe", "apply"}
  /\ Fault("raise")
  /\ Step(w, IF Celery THEN "raised" ELSE "ack")
  /\ UNCHANGED <<dep, revs, job, task, queue, request, box>>

\* _mark_job_failed, in a session of its own: the job, never the deployment.
MarkTaskFailed(w) ==
  LET j == run[w].job IN
  /\ run[w].at = "raised"
  /\ job' = [job EXCEPT ![j].status = IF @ \in Finished THEN @ ELSE "failed"]
  /\ Step(w, "ack")
  /\ UNCHANGED <<dep, revs, task, queue, request, box, faults>>

\* The worker dies: its task is lost.
Crash(w) ==
  /\ run[w].at # "idle"
  /\ Fault("crash")
  /\ run' = [run EXCEPT ![w] = IdleRun]
  /\ UNCHANGED <<dep, revs, job, task, queue, request, box>>

\* The broker delivers a task again: its worker is dead, or still at work
\* after the visibility timeout.
Redeliver(w) ==
  /\ Celery
  /\ run[w].at # "idle"
  /\ Fault("redeliver")
  /\ queue' = queue \cup {run[w].job}
  /\ run' \in {run, [run EXCEPT ![w] = IdleRun]}
  /\ UNCHANGED <<dep, revs, job, task, request, box>>

\* A task is refused by the broker, or is lost with it or with the API process.
Lose ==
  /\ Fault("lose")
  /\ \E j \in queue : queue' = queue \ {j}
  /\ UNCHANGED <<dep, revs, job, task, request, run, box>>

\* SGLang finishes loading its model, or dies.
Serve ==
  /\ box.state = "loading"
  /\ box' = To(box, "serving")
  /\ UNCHANGED <<dep, revs, job, task, queue, request, run, faults>>

\* So does the container when Docker restarts, as it does after an installation on the
\* host: it has no restart policy.
Die ==
  /\ \/ box.state \in {"loading", "serving"} /\ box' = To(box, "idle")
     \/ box.state \in Running /\ box' = To(box, "exited")
  /\ Fault("die")
  /\ UNCHANGED <<dep, revs, job, task, queue, request, run>>

\* A command whose call timed out or broke is still at work, and done only now: the
\* runner has closed the channel, which the command does not notice (RemoteCommand).
\* What validation refused was never sent.
Late(w) ==
  LET t == task[run[w].job] IN
  /\ run[w].at \in {"fail", "mark_failed", "ack"} /\ run[w].todo # <<>>
  /\ t.kind = "redeploy" => RiskAccepted(t, run[w].seenConfig)
  /\ box' \in Applied(Head(run[w].todo), Built(w), box)
  /\ run' = [run EXCEPT ![w].todo = <<>>]
  /\ Fault("late")
  /\ UNCHANGED <<dep, revs, job, task, queue, request>>

-----------------------------------------------------------------------------
RunStep(w) ==
  \/ Begin(w) \/ CommandSucceeds(w) \/ CommandFails(w) \/ Probe(w)
  \/ ApplyConfig(w) \/ PointRevision(w) \/ Settle(w) \/ Finish(w)
  \/ Fail(w) \/ FailJob(w) \/ MarkTaskFailed(w) \/ Ack(w)

Next ==
  \/ \E c \in Clients : Submit(c) \/ Accept(c) \/ Abandon(c)
  \/ \E w \in Workers : Take(w) \/ RunStep(w)
  \/ \E w \in Workers : Raise(w) \/ Crash(w) \/ Redeliver(w)
  \/ \E w \in Workers : Late(w)
  \/ Lose \/ Serve \/ Die

Spec == Init /\ [][Next]_vars

\* The tasks that reach a worker run to their end and requests complete; nobody
\* has to send one, and SGLang finishes loading unless it dies.
Fairness ==
  /\ \A c \in Clients : WF_vars(Accept(c))
  /\ \A w \in Workers : WF_vars(Take(w)) /\ WF_vars(RunStep(w))
  /\ WF_vars(Serve)

FairSpec == Spec /\ Fairness

-----------------------------------------------------------------------------
(* Properties                                                                *)

Deployments == [status : DepStatus, last : Jobs \cup {NoJob}, config : Configs,
                revision : Nat]
JobRows == [status : JobStatus \cup {NoRow}, previous : DepStatus \cup {"none"}]
Requests == [at : {"idle", "created"}, job : Jobs \cup {NoJob}, seen : DepStatus]
Runs == [at : Stages, job : Jobs \cup {NoJob}, seen : DepStatus,
         seenConfig : Configs \cup {NoConfig}, seenJob : JobStatus \cup {NoRow},
         old : DepStatus, todo : Seq(Commands),
         health : {"OK", "WARN", "ERROR", "none"}, rev : Nat]

\* The tables, the queue and the sessions hold what their columns and objects may
\* hold; a deployment's status is one the pages know.
TypeOK ==
  /\ dep \in Deployments
  /\ revs \in Seq(Configs)
  /\ job \in [Jobs -> JobRows]
  /\ task \in [Jobs -> Tasks]
  /\ queue \subseteq Jobs
  /\ request \in [Clients -> Requests]
  /\ run \in [Workers -> Runs]
  /\ box \in Container \cup {NoContainer}
  /\ faults \in 0..MaxFaults

\* A busy deployment names a job that has not ended: the deployment is always
\* settled before the job is closed, whatever requests and other runs write in
\* between.  Otherwise no operation is accepted any more ("deployment is busy").
BusyHasLiveJob == dep.status \in Busy => job[dep.last].status \in Live

\* A run that may still act on the host or on the deployment's row.
Active == {"loaded", "command", "probe", "apply", "point", "settle", "fail"}
Acting(w) == run[w].at \in Active

\* Guarded operations exclude each other: two runs never work on the
\* deployment's container and row at the same time.
OneAtATime == \A v, w \in Workers : Acting(v) /\ Acting(w) => v = w

Quiet == \A w \in Workers : ~Acting(w)

\* The current revision is the snapshot of the configuration in the row, except
\* between the two commits of apply_payload_to_deployment.
RevisionIsConfig ==
  (\A w \in Workers : run[w].at # "point") => revs[dep.revision] = dep.config

Redeployed == {j \in Jobs : task[j].kind = "redeploy" /\ job[j].status = "succeeded"}
Redeploying == {w \in Workers : /\ run[w].at \in {"point", "settle", "finish"}
                                /\ task[run[w].job].kind = "redeploy"}

\* The first configuration, and those of redeployments that passed their health check.
Proven ==
  {revs[1]} \cup {task[j].config : j \in Redeployed}
            \cup {task[run[w].job].config : w \in Redeploying}

\* A redeployment that fails, at whatever step, leaves nothing of itself in use: the
\* current revision and the value of every column are of a configuration that passed
\* its health check.
OnlyProvenIsUsed ==
  /\ revs[dep.revision] \in Proven
  /\ \A k \in Columns : \E c \in Proven : dep.config[k] = c[k]

\* When nothing runs and the last job succeeded, the database tells the truth: a
\* stopped deployment serves nothing, any other one serves, and after a redeployment
\* what serves is the configuration in the row.  (A start or restart says nothing of
\* the configuration: the container may be the one a failed redeployment left.)
SuccessIsTrue ==
  LET j == dep.last IN
  Quiet /\ j # NoJob /\ job[j].status = "succeeded"
  => IF dep.status = "stopped" THEN box.state \notin Running
     ELSE /\ box.state = "serving"
          /\ task[j].kind = "redeploy" => box.config = dep.config

\* When nothing runs, a deployment shown as up has a serving container with the
\* configuration in its row.
UpIsServing ==
  Quiet /\ dep.status \in {"running", "degraded"}
  => box = [state |-> "serving", config |-> dep.config]

\* The same as long as every redeployment that was begun has succeeded: one that fails
\* shows the status from before it.  A deployment whose run raised an exception, or
\* whose task was lost, is not shown as up at all.
UpIsServingUnlessRedeployFailed ==
  (\A j \in Jobs : task[j].kind = "redeploy" => job[j].status \notin {"running", "failed"})
  => UpIsServing

\* Every job a request enqueued ends, and the deployment becomes available again.
JobsEnd == \A j \in Jobs : job[j].status = "pending" ~> job[j].status \in Finished
DeploymentSettles == dep.status \in Busy ~> dep.status \notin Busy

\* "Start SGLang with the current revision if its process is not running": a
\* start or restart never gets to its health check with an idle container.
StartsSGLang ==
  \A w \in Workers :
    run[w].at = "probe" /\ task[run[w].job].kind \in {"start", "restart"}
    => box.state # "idle"

\* "wait_http: poll /health until it returns 200 or a deadline": no run gives up
\* on its health check while SGLang is still loading.
WaitsForHttp ==
  [][\A w \in Workers :
       run[w].at = "probe" /\ run'[w].at = "fail" => box.state # "loading"]_vars

\* The life cycle of docs/architecture-and-technical-plan.md, section 15.2.
Lifecycle == INSTANCE JobLifecycle WITH status <- [j \in Jobs |-> job[j].status]
JobsFollowLifecycle == Lifecycle!Spec
================================================================================
