------------------------------- MODULE HostChecks -------------------------------
(***************************************************************************)
(* The jobs of one GPU host: the SSH connection check, the environment     *)
(* check and the installation that an operator confirms or retries.        *)
(*                                                                         *)
(* A check walks through its steps by remote commands, one at a time.  It  *)
(* writes to the database when it starts and when it ends, and ends in up  *)
(* to three commits: the host's last_check_status, the job's result and    *)
(* the job's status.  Nothing stops two tasks from working on one job, and *)
(* nothing keeps the host's row while jobs work for it.                    *)
(***************************************************************************)
EXTENDS Naturals, Sequences, FiniteSets, JobService

CONSTANTS
  Jobs, NoJob,
  Clients,      \* concurrent API requests
  Workers,      \* threads or worker processes that run tasks
  RetryFrom,    \* the statuses from which an operator asks for a retry
  Patient,      \* operators confirm once, and wait for the task to end
  MaxRequests,  \* bound on the confirmations and retries of a behaviour
  Faults,       \* which of AllFaults can happen
  MaxFaults     \* bound on their number in a behaviour

AllFaults == {"raise",    \* an exception the runner does not catch: connection refused
              "crash",    \* the worker dies
              "useless",  \* installation commands exit 0 and install nothing
              "delete"}   \* the host is deleted: no deployment refers to it

ASSUME Parameters ==
  /\ NoJob \notin Jobs
  /\ RetryFrom \subseteq JobStatus
  /\ Patient \in BOOLEAN
  /\ MaxRequests \in Nat /\ MaxFaults \in Nat
  /\ Faults \subseteq AllFaults

VARIABLES
  job,       \* rows of jobs: status, type, and the component their result plans for
  queue,     \* number of waiting tasks of each job and mode
  request,   \* retry requests between their read and their commit
  run,       \* tasks being executed
  host,      \* the components present on the host
  exists,    \* the row of the host is in the database
  overlap,   \* history: two installations were at work at the same time
  shown,     \* hosts.last_check_status
  requests,  \* number of confirmations and retries so far
  faults     \* number of faults so far

vars == <<job, queue, request, run, host, exists, overlap, shown, requests, faults>>

Components == {"driver", "docker", "runtime"}
Modes == {"ssh", "check", "install"}

Ready == \A c \in Components : host[c]

\* Mutant of Steps: a check ends with Docker.
ShortSteps(mode) ==
  <<"access">> \o (IF mode = "ssh" THEN <<>> ELSE <<"driver", "docker">>)

\* The steps of a task, in order.  "access" stands for the commands that can only
\* pass or fail: ssh, os and gpu, and those of the SSH check.
Steps(mode) ==
  <<"access">>
  \o (IF mode = "ssh" THEN <<>> ELSE <<"driver", "docker", "runtime", "container">>)

\* What a step looks for: the runtime is what docker info lists, and the container
\* test needs everything before it.
Present(step) ==
  CASE step = "runtime"               -> host.docker /\ host.runtime
    [] step \in {"driver", "docker"} -> host[step]
    [] step = "container"             -> Ready
    [] OTHER                          -> TRUE

\* What the installation commands of a component leave when they do not all succeed:
\* those of the runtime end with a restart of Docker, which may not come back.
Unfinished(step) ==
  {host, [host EXCEPT ![step] = TRUE]}
  \cup {h \in {[host EXCEPT !.docker = FALSE], [host EXCEPT !.docker = FALSE, !.runtime = TRUE]} :
          step = "runtime"}

Stages == {"idle", "loaded", "orphan", "checking", "installing", "restarting",
           "host", "save", "close"}
Verdicts == {"none", "succeeded", "failed", "waiting_confirmation"}
IdleRun == [at |-> "idle", job |-> NoJob, mode |-> "ssh", seen |-> "pending",
            seenShown |-> "none", todo |-> <<>>, again |-> FALSE,
            verdict |-> "none", plan |-> "none"]
IdleRequest == [job |-> NoJob, seen |-> "pending"]

\* Tasks of j that wait or run.
Working(j) == {w \in Workers : run[w].job = j}
Waiting(j) == {m \in Modes : queue[<<j, m>>] > 0}
HasTask(j) == Working(j) # {} \/ Waiting(j) # {}

Init ==
  /\ job = [j \in Jobs |-> [status |-> NoRow, type |-> "ssh", plan |-> "none"]]
  /\ queue = [t \in Jobs \X Modes |-> 0]
  /\ request = [c \in Clients |-> IdleRequest]
  /\ run = [w \in Workers |-> IdleRun]
  /\ host \in [Components -> BOOLEAN]
  /\ exists = TRUE
  /\ overlap = FALSE
  /\ shown = "none"
  /\ requests = 0
  /\ faults = 0

Fault(f) == f \in Faults /\ faults < MaxFaults /\ faults' = faults + 1
Enqueue(j, mode) == queue' = [queue EXCEPT ![<<j, mode>>] = @ + 1]
Step(w, stage) == run' = [run EXCEPT ![w].at = stage]

-----------------------------------------------------------------------------
(* API requests: hosts.py and jobs.py                                        *)

\* start_ssh_check and start_environment_check.
Start ==
  /\ exists
  /\ \E j \in Jobs, mode \in {"ssh", "check"} :
       /\ job[j].status = NoRow
       /\ job' = [job EXCEPT ![j].status = "pending", ![j].type = mode]
       /\ Enqueue(j, mode)
  /\ UNCHANGED <<request, run, host, exists, overlap, shown, requests, faults>>

\* Mutant of Confirm: the job's status is not checked.
ConfirmAnything ==
  /\ requests < MaxRequests
  /\ \E j \in Jobs :
       /\ job[j].type = "check" /\ job[j].status # NoRow
       /\ Patient => ~HasTask(j)
       /\ Enqueue(j, "install")
  /\ requests' = requests + 1
  /\ UNCHANGED <<job, request, run, host, exists, overlap, shown, faults>>

\* confirm_install: enqueues the installation and leaves the job as it is.
Confirm ==
  /\ requests < MaxRequests
  /\ \E j \in Jobs :
       /\ job[j].type = "check" /\ job[j].status = "waiting_confirmation"
       /\ Patient => ~HasTask(j)
       /\ Enqueue(j, "install")
  /\ requests' = requests + 1
  /\ UNCHANGED <<job, request, run, host, exists, overlap, shown, faults>>

\* retry_job reads the job, whose status it does not check ...
AskRetry(c) ==
  /\ request[c].job = NoJob
  /\ requests < MaxRequests
  /\ \E j \in Jobs :
       /\ job[j].type = "check" /\ job[j].status \in RetryFrom
       /\ request' = [request EXCEPT ![c] = [job |-> j, seen |-> job[j].status]]
  /\ requests' = requests + 1
  /\ UNCHANGED <<job, queue, run, host, exists, overlap, shown, faults>>

\* ... resets it and enqueues a check.
Reset(c) ==
  LET j == request[c].job IN
  /\ j # NoJob
  /\ job' = [job EXCEPT ![j] = ResetForRetry(@, request[c].seen)]
  /\ request' = [request EXCEPT ![c] = IdleRequest]
  /\ Enqueue(j, "check")
  /\ UNCHANGED <<run, host, exists, overlap, shown, requests, faults>>

\* delete_host: the jobs of the host keep its number.
Delete ==
  /\ exists
  /\ Fault("delete")
  /\ exists' = FALSE
  /\ UNCHANGED <<job, queue, request, run, host, overlap, shown, requests>>

-----------------------------------------------------------------------------
(* Tasks: ssh_connect_check.py and environment/runner.py                     *)

\* The task loads the job and the host ...
Take(w) ==
  /\ run[w].at = "idle"
  /\ \E j \in Jobs, m \in Modes :
       /\ queue[<<j, m>>] > 0
       /\ queue' = [queue EXCEPT ![<<j, m>>] = @ - 1]
       /\ run' = [run EXCEPT ![w] =
                    [IdleRun EXCEPT !.at = IF exists THEN "loaded" ELSE "orphan",
                                    !.job = j, !.mode = m,
                                    !.seen = job[j].status, !.seenShown = shown,
                                    !.todo = Steps(m)]]
  /\ overlap' = \/ overlap
                \/ run'[w].mode = "install" /\ \E v \in Workers : run[v].mode = "install"
  /\ UNCHANGED <<job, request, host, exists, shown, requests, faults>>

\* Mutant of FailOrphan: without a host the task just returns.
ForgetOrphan(w) ==
  /\ run[w].at = "orphan"
  /\ run' = [run EXCEPT ![w] = IdleRun]
  /\ UNCHANGED <<job, queue, request, host, exists, overlap, shown, requests, faults>>

\* ... whose job fails at once when the host has been deleted ...
FailOrphan(w) ==
  LET j == run[w].job IN
  /\ run[w].at = "orphan"
  /\ job' = [job EXCEPT ![j] = MarkFailed(@, run[w].seen)]
  /\ run' = [run EXCEPT ![w] = IdleRun]
  /\ UNCHANGED <<queue, request, host, exists, overlap, shown, requests, faults>>

\* ... and marks the job running.
Begin(w) ==
  LET j == run[w].job
      row == MarkRunning(job[j], run[w].seen) IN
  /\ run[w].at = "loaded"
  /\ job' = [job EXCEPT ![j] = row]
  /\ run' = [run EXCEPT ![w].at = "checking", ![w].seen = row.status]
  /\ UNCHANGED <<queue, request, host, exists, overlap, shown, requests, faults>>

\* The run r with its verdict: checks and failures go to the host's row first.
Concluding(r, verdict) ==
  [r EXCEPT !.verdict = verdict, !.todo = <<>>, !.again = FALSE,
            !.at = IF verdict = "failed" \/ r.mode # "install" THEN "host" ELSE "save"]

\* The step finds what it looks for; after the last one the task has succeeded.
Pass(w) ==
  LET r == run[w]
      next == [r EXCEPT !.todo = Tail(@), !.again = FALSE] IN
  /\ r.at = "checking" /\ Present(Head(r.todo))
  /\ run' = [run EXCEPT ![w] = IF next.todo = <<>> THEN Concluding(next, "succeeded")
                                                   ELSE next]
  /\ UNCHANGED <<job, queue, request, host, exists, overlap, shown, requests, faults>>

\* _EnvFailure, SSH errors and timeouts, at any step.
StepFails(w) ==
  /\ run[w].at = "checking"
  /\ run' = [run EXCEPT ![w] = Concluding(@, "failed")]
  /\ UNCHANGED <<job, queue, request, host, exists, overlap, shown, requests, faults>>

Lacks(w) ==
  LET step == Head(run[w].todo) IN
  run[w].at = "checking" /\ step \in Components /\ ~Present(step)

\* Mutant of Pause: the step is recorded, but no plan for it.
PauseWithoutPlan(w) ==
  /\ Lacks(w)
  /\ run[w].mode = "check" \/ Head(run[w].todo) = "driver"
  /\ run' = [run EXCEPT ![w].verdict = "waiting_confirmation", ![w].at = "save"]
  /\ UNCHANGED <<job, queue, request, host, exists, overlap, shown, requests, faults>>

\* _wait_for_confirmation: a check installs nothing, and nothing installs a driver.
Pause(w) ==
  LET step == Head(run[w].todo) IN
  /\ Lacks(w)
  /\ run[w].mode = "check" \/ step = "driver"
  /\ run' = [run EXCEPT ![w].verdict = "waiting_confirmation", ![w].plan = step,
                        ![w].todo = <<>>, ![w].again = FALSE, ![w].at = "save"]
  /\ UNCHANGED <<job, queue, request, host, exists, overlap, shown, requests, faults>>

BeginInstall(w) ==
  /\ Lacks(w)
  /\ run[w].mode = "install" /\ Head(run[w].todo) # "driver" /\ ~run[w].again
  /\ Step(w, "installing")
  /\ UNCHANGED <<job, queue, request, host, exists, overlap, shown, requests, faults>>

\* The last command for the runtime restarts Docker, for every other task as well.
Restart(w) ==
  /\ run[w].at = "installing" /\ Head(run[w].todo) = "runtime"
  /\ host' = [host EXCEPT !.docker = FALSE]
  /\ Step(w, "restarting")
  /\ UNCHANGED <<job, queue, request, exists, overlap, shown, requests, faults>>

\* All installation commands exit 0; the step is checked again, without install.
Install(w) ==
  LET step == Head(run[w].todo) IN
  /\ \/ run[w].at = "installing" /\ step # "runtime"
     \/ run[w].at = "restarting"
  /\ \/ host' = [host EXCEPT ![step] = TRUE, !.docker = TRUE] /\ faults' = faults
     \/ host' = [host EXCEPT !.docker = @ \/ step = "runtime"] /\ Fault("useless")
  /\ run' = [run EXCEPT ![w].at = "checking", ![w].again = TRUE]
  /\ UNCHANGED <<job, queue, request, exists, overlap, shown, requests>>

\* Mutant of InstallFails: it returns False without _fail.
InstallFailsSilently(w) ==
  /\ run[w].at \in {"installing", "restarting"}
  /\ run' = [run EXCEPT ![w] = IdleRun]
  /\ UNCHANGED <<job, queue, request, host, exists, overlap, shown, requests, faults>>

InstallFails(w) ==
  /\ run[w].at \in {"installing", "restarting"}
  /\ host' \in Unfinished(Head(run[w].todo))
  /\ run' = [run EXCEPT ![w] = Concluding(@, "failed")]
  /\ UNCHANGED <<job, queue, request, exists, overlap, shown, requests, faults>>

\* The second look finds nothing either: confirm_install returns, and that is all.
GiveUp(w) ==
  /\ Lacks(w)
  /\ run[w].mode = "install" /\ run[w].again
  /\ run' = [run EXCEPT ![w] = IdleRun]
  /\ UNCHANGED <<job, queue, request, host, exists, overlap, shown, requests, faults>>

\* Mutant of WriteHost: the job's status instead of the verdict.
WriteJobStatus(w) ==
  /\ run[w].at = "host"
  /\ shown' = run[w].seen
  /\ Step(w, IF run[w].mode = "ssh" THEN "close" ELSE "save")
  /\ UNCHANGED <<job, queue, request, host, exists, overlap, requests, faults>>

\* The task's next write to the host's row has something to change.  The SSH check
\* sets last_check_at; the other tasks find out about the system and the GPU on the way.
Writes(w) ==
  LET r == run[w] IN
  \/ r.at = "host" /\ (r.mode = "ssh" \/ r.verdict # r.seenShown)
  \/ r.at = "checking" /\ r.mode # "ssh" /\ Head(r.todo) \in {"access", "docker"}

\* The commit of last_check_status, on the host's row as the task loaded it.
WriteHost(w) ==
  /\ run[w].at = "host" /\ (exists \/ ~Writes(w))
  /\ shown' = Flush(run[w].seenShown, run[w].verdict, shown)
  /\ Step(w, IF run[w].mode = "ssh" THEN "close" ELSE "save")
  /\ UNCHANGED <<job, queue, request, host, exists, overlap, requests, faults>>

\* The row is gone: the UPDATE matches nothing, and SQLAlchemy's error ends the task
\* without a word, as the session of its handlers needs a rollback first.
LoseHost(w) ==
  /\ ~exists /\ Writes(w)
  /\ run' = [run EXCEPT ![w] = IdleRun]
  /\ UNCHANGED <<job, queue, request, host, exists, overlap, shown, requests, faults>>

Save(w) ==
  LET j == run[w].job IN
  /\ run[w].at = "save"
  /\ job' = [job EXCEPT ![j].plan = run[w].plan]
  /\ run' = [run EXCEPT ![w].at = "close", ![w].seen = job[j].status]
  /\ UNCHANGED <<queue, request, host, exists, overlap, shown, requests, faults>>

\* mark_waiting_confirmation sets the result just saved once more, which is no change.
Close(w) ==
  LET r == run[w] IN
  /\ r.at = "close"
  /\ job' = [job EXCEPT ![r.job] =
               CASE r.verdict = "succeeded" -> MarkSucceeded(@, r.seen)
                 [] r.verdict = "failed"    -> MarkFailed(@, r.seen)
                 [] OTHER                   -> MarkWaiting(@, r.seen)]
  /\ run' = [run EXCEPT ![w] = IdleRun]
  /\ UNCHANGED <<queue, request, host, exists, overlap, shown, requests, faults>>

-----------------------------------------------------------------------------
(* Faults, and the operator at the host                                      *)

\* An exception other than RuntimeError.  run_ssh_connect_check fails the job; the
\* wrappers of the environment tasks swallow it.
Raise(w) ==
  /\ run[w].at \in {"checking", "installing", "restarting"}
  /\ Fault("raise")
  /\ host' \in IF run[w].at = "checking" THEN {host} ELSE Unfinished(Head(run[w].todo))
  /\ run' = [run EXCEPT ![w] = IF @.mode = "ssh" THEN Concluding(@, "failed") ELSE IdleRun]
  /\ UNCHANGED <<job, queue, request, exists, overlap, shown, requests>>

Crash(w) ==
  /\ run[w].at # "idle"
  /\ Fault("crash")
  /\ host' \in IF run[w].at \in {"installing", "restarting"}
               THEN Unfinished(Head(run[w].todo)) ELSE {host}
  /\ run' = [run EXCEPT ![w] = IdleRun]
  /\ UNCHANGED <<job, queue, request, exists, overlap, shown, requests>>

\* Somebody installs the driver by hand and reboots.
Repair ==
  /\ ~host.driver
  /\ host' = [host EXCEPT !.driver = TRUE]
  /\ UNCHANGED <<job, queue, request, run, exists, overlap, shown, requests, faults>>

-----------------------------------------------------------------------------
TaskStep(w) ==
  \/ FailOrphan(w) \/ Begin(w) \/ Pass(w) \/ StepFails(w) \/ Pause(w)
  \/ BeginInstall(w) \/ Restart(w) \/ Install(w) \/ InstallFails(w) \/ GiveUp(w)
  \/ WriteHost(w) \/ LoseHost(w) \/ Save(w) \/ Close(w)

Next ==
  \/ Start \/ Confirm \/ Delete \/ Repair
  \/ \E c \in Clients : AskRetry(c) \/ Reset(c)
  \/ \E w \in Workers : Take(w) \/ TaskStep(w) \/ Raise(w) \/ Crash(w)

Spec == Init /\ [][Next]_vars

\* Requests complete and workers keep working; operators need not do anything.
Fairness ==
  /\ \A c \in Clients : WF_vars(Reset(c))
  /\ \A w \in Workers : WF_vars(Take(w) \/ TaskStep(w))

FairSpec == Spec /\ Fairness

-----------------------------------------------------------------------------
(* Properties                                                                *)

JobRows == [status : JobStatus \cup {NoRow}, type : {"ssh", "check"},
            plan : Components \cup {"none"}]
Requests == [job : Jobs \cup {NoJob}, seen : JobStatus]
Shown == {"none", "succeeded", "failed"}
Runs == [at : Stages, job : Jobs \cup {NoJob}, mode : Modes, seen : JobStatus \cup {NoRow},
         seenShown : Shown, todo : Seq(Components \cup {"access", "container"}),
         again : BOOLEAN, verdict : Verdicts, plan : Components \cup {"none"}]

TypeOK ==
  /\ job \in [Jobs -> JobRows]
  /\ queue \in [Jobs \X Modes -> Nat]
  /\ request \in [Clients -> Requests]
  /\ run \in [Workers -> Runs]
  /\ host \in [Components -> BOOLEAN]
  /\ exists \in BOOLEAN
  /\ overlap \in BOOLEAN
  /\ shown \in Shown
  /\ requests \in 0..MaxRequests
  /\ faults \in 0..MaxFaults

\* "On failure there is an error code, a reason and a way to retry": a job that is
\* shown as running has a task at work or waiting; it is never just left there.
RunningHasTask == \A j \in Jobs : job[j].status = "running" => HasTask(j)

\* The same as long as no worker dies, every exception is one the runner names, every
\* installation that reports success has installed something, nobody deletes the host,
\* and no second installation restarts Docker before the first one looks again.
RunningHasTaskUnlessFault == faults = 0 /\ ~overlap => RunningHasTask

\* A job that waits for the operator offers a plan to confirm: the page shows the
\* form only below a plan, and without one the job could only be abandoned.
WaitingOffersPlan ==
  \A j \in Jobs : job[j].status = "waiting_confirmation" => job[j].plan # "none"

\* An environment check or installation that succeeded leaves the driver and the runtime
\* for good, whatever tasks fail or die and do to the host meanwhile.  It leaves Docker
\* too, unless a job that has not succeeded has taken it by a restart.
SuccessMeansReady ==
  (\E j \in Jobs : job[j].type = "check" /\ job[j].status = "succeeded")
  => /\ host.driver /\ host.runtime
     /\ host.docker \/ \E j \in Jobs : /\ job[j].type = "check"
                                       /\ job[j].status \notin {NoRow, "succeeded"}

\* The life cycle of docs/architecture-and-technical-plan.md, section 15.2, with its
\* pauses for confirmation and its retries.
Lifecycle == INSTANCE JobLifecycle WITH status <- [j \in Jobs |-> job[j].status]
JobsFollowLifecycle == Lifecycle!Spec

\* A fault other than the deletion of the host.
FaultyTask == faults > IF exists THEN 0 ELSE 1

\* A job that was asked for ends or asks for a confirmation, also when its host was
\* deleted while it waited for a worker; only a job at work then stays as it is.
ChecksEnd ==
  \A j \in Jobs :
    job[j].status \in Live
      ~> \/ job[j].status \notin Live \/ FaultyTask
         \/ (~exists \/ overlap) /\ job[j].status = "running"
================================================================================
