# A TLA+ model of sglang_ops_stack

sglang_ops_stack is a web service that deploys SGLang, an LLM server, on GPU
hosts. Operators register hosts, check and prepare them over SSH, create a
deployment, and start, stop, restart or redeploy its container. Every such
request creates a *job*; a worker runs the job as a sequence of SSH commands and
database commits. This directory models that machinery: requests, queue,
workers, job rows, deployment row and container, with the interleavings,
crashes, lost or repeated messages and stale reads that the code meets.

Paths below are relative to `src/sglang_ops_stack/` of the repository.

## The system

| Component | State | Operations | Hard because |
|---|---|---|---|
| Deployment requests (`api/routers/operations.py`, `deployments.py`, the same forms in `pages.py`; `services/operation_service.py`, `redeploy_service.py`, `deployment_service.py`) | row of `deployments` | deploy, restart, stop, start, redeploy | two commits per request, on a row read before the first |
| Runners (`jobs/*.py`) | ORM objects of one session | remote commands, health check, settling | minutes between read and write; every failure must settle two rows |
| Job rows (`services/job_service.py`) | row of `jobs` | `create_job`, `mark_*`, `reset_for_retry`, `save_result` | no writer checks the current status |
| Queue (`worker/queue.py`) | Celery messages, or background tasks of the API process | `enqueue_job`, `_dispatch_job`, `_mark_job_failed` | late acknowledgement, loss, repetition |
| Container (`commands/docker.py`) | docker on the host | pull, rm, run, exec, inspect, stop, start, restart | tolerated exit codes; SGLang is not the container's main process |
| Host checks (`services/environment/runner.py`, `services/ssh_connect_check.py`, `api/routers/jobs.py`) | job, host row, the host itself | SSH check, environment check, confirmed installation, retry | several tasks on one job and on one host; three closing commits |
| Remote executor (`remote/executor.py`) | one connection and channel per command | connect, input, reading two streams, exit status, deadline | the command goes on when the call has ended, and may wait for its reader |
| Health check (`services/health_service.py`, `clients/sglang_http.py`) | none | layers and their aggregate | layers asked one by one while the container changes, with the row as loaded |
| Redeployment plan (`services/redeploy_service.py`) | none | diff, risks, confirmation | computed twice, on two readings of the row and two types of payload |
| Revisions (`services/deployment_service.py`) | `deployment_revisions` | `create_revision`, `apply_payload_to_deployment` | number and pointer in separate commits |
| Host and deployment records (`api/routers/hosts.py`, `deployments.py`, the same forms in `pages.py`; `host_service.py`, `deployment_service.py`) | `hosts`, `deployments` | create, edit, delete | a row read at the beginning of a request and written, or gone, at its end |
| Audit trail (`services/audit_service.py`) | `audit_logs` | `record_event` | a commit of its own, after what it tells of, for a deletion before it |
| Users and roles (`services/user_service.py`, `api/deps.py`, `main.py`) | `users` | first administrator at start-up, `create_user`, role of a request | look-up and insertion apart; several applications start together |
| Monitoring (`services/monitoring_service.py`) | `monitoring_configs` | the one configuration, the dashboard and its two statuses | check-then-insert; statuses combined from several columns and requests |
| Pages, passwords and tokens, command lines, masking, migrations | none that decides anything | | |

Interaction: a request handler commits a pending job, commits the deployment as
busy and hands a message to the queue; a worker loads job and deployment into a
session of its own, marks the job running, sends commands through
`remote/executor.py`, asks the health service, writes the outcome to the
deployment and then closes the job. Nothing but the deployment's `status` column
keeps two jobs of one deployment apart, and no lock at all keeps apart the jobs
of one host. Sessions are made with `expire_on_commit=False` (`db/session.py:67`),
so an object keeps the values it was loaded with; SQLAlchemy writes only the
attributes that differ from them.

What makes each part correct: a busy deployment has somebody who will settle it;
jobs on one container exclude each other; the configuration, the current
revision and what runs agree; what the pages show is true when nothing runs; a
job follows its life cycle and ends; an operator always has a next step; and the
audit log tells of what was done, of all of it and of nothing else, up to the one
commit that a crash may cut off. That a deployment refers to a host that exists
is left to the foreign key, which the default database does not enforce.

## Modules

| Module | Models | Notes |
|---|---|---|
| `JobService` | rows of `jobs` and the `mark_*` functions | `Flush` is the rule for an assignment to a stale object |
| `JobLifecycle` | abstract: the life cycle of a job, section 15.2 of the architecture document | implemented by both detailed modules (`JobsFollowLifecycle`) |
| `RemoteCall` | abstract: what a runner may conclude from the report of a command | implemented by `RemoteCommand` (`CallIsAtomic`) |
| `RemoteCommand` | one call of `SSHExecutor.run`: the command, the network, the executor | |
| `DockerHost` | the container and what each command does to it | `Applied`: carried out; `Interrupted`: all or nothing seen by the runner as a failure |
| `DeploymentOps` | one deployment: requests, queue, workers, rows, container | extends the first and the third |
| `HostChecks` | the checks and installations of one host, and its deletion meanwhile | extends the first |
| `HealthProbe` | abstract: what the runners rely on when they ask for the health | implemented by `HealthCheck` (`ProbeIsDeserved`) |
| `HealthCheck` | `check_deployment` layer by layer, what its callers store, the dashboard's two statuses | extends `DockerHost` |
| `RedeployPlan` | configurations as documents, the diff and its risks, requests from API and page, the worker's second validation | uses `Flush` of `JobService` |
| `Records` | the requests that keep hosts, deployments, revisions, users, the monitoring configuration and the audit log | uses `Flush` of `JobService` |
| `MCDeploymentOps`, `MCHostChecks`, `MCRedeployPlan`, `MCRecords` | definitions for TLC's instances | |
| `DeploymentOps_proofs` | theorems of `DeploymentOps` on its types, its busy status and exclusion | for every number of jobs, clients, workers and configurations |
| `DeploymentJobs_proofs` | theorems of `DeploymentOps` on jobs, revisions and the container | extends `DeploymentOps_proofs` |
| `HostChecks_proofs` | theorems of `HostChecks` | for every number of jobs, clients, workers, requests and faults |
| `HostTruth_proofs` | theorems of `HostChecks` on what the rows of jobs and hosts say | for one operator who waits; the last one for any |
| `HealthCheck_proofs` | theorems of `HealthCheck`: all its properties | for every set of configurations |
| `RedeployPlan_proofs` | theorems of `RedeployPlan`: all its properties | for every number of requests, images, sizes and docker configurations |
| `Records_proofs` | theorems of `Records`: all its properties | for every number of processes, rows, requests and crashes |
| `RemoteCommand_proofs` | theorems of `RemoteCommand`: all but liveness | for every length of output, pipe and window |

### DeploymentOps

`request[c]` is an API request between its two commits: `Submit` is the read,
the validation and the commit of the job in `create_job`; `Accept` is the second
commit, of the deployment as read, and the enqueueing. The read and the first
commit are one action because the new job row is nobody else's until then.
Clients stand for concurrent requests, so two of them may both pass the status
check.

`run[w]` is a task at work. `seen`, `seenConfig` and `seenJob` are the columns as
the session loaded them. Actions follow the runner: `Take` (load), `Begin`
(`mark_running`; a redeployment validates again), `CommandSucceeds` and
`CommandFails` for the commands in `todo`, `Probe`, for a redeployment
`ApplyConfig` and `PointRevision`, then `Settle` and `Finish`, or `Fail` and
`FailJob`. Each is one commit or one remote command. The three runners share the
actions; where they differ the action says so (`Script`, `Refused`, `Built`,
`AfterCommands`, `FallBack`).

A configuration is a function of `Columns`, the columns of the row that a
redeployment replaces. `apply_payload_to_deployment` assigns all of them, and the
commit of `ApplyConfig` writes those that differ from what the session has loaded
(`FlushConfig`), so that two overlapping redeployments may leave a row with columns
of both. `OnlyProvenIsUsed` is stated column by column for that reason.

Six faults can be switched on. `raise` is an exception outside the runner's list,
`crash` the death of a worker, `redeliver` and `lose` are the broker's; `daemon`
is a docker command whose tolerated exit code 1 means that the daemon could not
be reached, and `die` is the end of SGLang. `late` is what `RemoteCommand`
explains: a command whose call failed goes on at the host, and is `Applied` to
the container while the runner settles, or after it.

Left out: log lines, error columns, the name, host and port of a configuration
(all configurations of an instance share them, as redeploying requires of the
host and the runners of the container), deletion of rows, and
`host.environment_status`, which no code writes. The health check is one
step: `serving` may yield any verdict, everything else ERROR.

### HostChecks

The three environment tasks and the SSH check share the actions as well. A host
is the set of components present; the steps ssh, os and gpu only pass or fail and
are one step `access`. `Pause`, `BeginInstall`, `Install`, `InstallFails` and
`GiveUp` are the outcomes of a missing component: the driver is never installed,
the others only in the mode `install`, and the check after an installation runs
without `install`. A verdict is written in up to three commits: `WriteHost`
(checks and failures only), `Save` and `Close`. A retry is two actions,
`AskRetry` (read) and `Reset` (commit and enqueue).

`Restart` is the command that ends the configuration of the runtime
(`environment/commands.py:204`): while Docker restarts it is missing for every
other task, too. `overlap` remembers that two installations were at work at the
same time, for then the second look of one may come upon the restart of the
other, and `GiveUp` leaves its job as it is. That happens without any fault, and
is why `RunningHasTaskUnlessFault` and `ChecksEnd` exclude it.

`Delete` removes the row of the host, as long as no deployment refers to it. A
task that starts afterwards fails its job at once (`FailOrphan`). One that is at
work goes on until it has something to write to the row (`Writes`): the UPDATE
matches nothing, the error leaves the session in need of a rollback, the handlers
that would close the job fail on it, and the job stays running (`LoseHost`).

### HealthCheck

`check` is the job at work: `at` is where it is, `config` what it checks, `url`
whether the row it loaded has a `metrics_url`, `old` the status it falls back to,
and `layers` what `check_deployment` has collected. `Pass`, `LayerFails` and
`Skip` are the results of the next layer; a layer that needs a container or a
server passes only if they are there at that moment, and may fail whenever its
command or request does. `Command`, `Serve` and `Die` change the container
between any two layers, by the commands of `DockerHost`. `Record`, `Succeed` and
`Fail` are the commits of the callers in `jobs/*.py`, in the order of those
files: a deployment or restart stores the health before it knows whether it
failed, a redeployment stores its configuration first and the health last, and
not at all when it fails. There is one job at a time, which is what
`OneAtATime` of `DeploymentOps` shows for guarded requests; but commands of
others may reach the container at any time.

`DeploymentOps` has the whole call as its one step `Probe`. That is sound because
the detailed call implements `HealthProbe`: a verdict other than ERROR needs an
answer on `/health`, so there was a moment during the call at which SGLang was
serving. The module also shows what is in no property: the metrics layer looks at
the `metrics_url` of the row as loaded (`health_service.py:152`), so a
redeployment that turns metrics off is warned about metrics that do not answer,
and ends as degraded.

`MetricsStatus` is the other status that the dashboard derives from a deployment
(`metrics_status_from_health`, `monitoring_service.py:98`): it looks for the
metrics layer in the stored health. `UnreachableIsWarned` says that a deployment
that is up and listed with unreachable metrics is also counted as a warning, and
that the configuration in its row is the one whose metrics did not answer.

### RemoteCommand

A call of `SSHExecutor.run` opens a connection, sends the command, writes its
input if it has one (`tee` gets the repository file), and then goes round a loop:
read standard output, read standard error, ask for the exit status, look at the
clock (`_read_channel`). `call.at` is the place in that code, one action to a
line that reads or waits. The command writes to two streams, `Pipe` chunks ahead
of the SSH server, which is `Window` unread chunks ahead of the executor, both
streams together: that is how a command can wait for its reader, and why
`CallEnds` needs both streams read in the loop. `Status` is the arrival of the
exit status, which needs no window and may overtake output (`overtaken`); `Break`
breaks the connection, with or without the client's knowledge, and `Hang` stops
the command.

`CallIsAtomic` is the refinement of `RemoteCall`, and says what the other modules
take from it: a success was carried out, and a failure says nothing. `DockerHost`
therefore has for each command what it does (`Applied`) and what may be left
behind by a failure (`Interrupted`), and `DeploymentOps` has `Late`.

Assumed: the requests that open a channel end (paramiko waits for them without a
deadline of the code's), and a command does not write for ever.

### RedeployPlan

A configuration is a document, a tree of functions from field names as
`model_dump()` gives it: `image` stands for the fields at the top that are
copied nowhere, `tp_size` for those that `DeploymentBase` copies into
`sglang_config`, and `docker_config` is complete but for `shm_size` and
`remove_existing`, which no rule mentions. `Plan` is `build_config_diff`: the walk of
`_append_diff`, which calls itself for dictionaries, written out to the depth that
documents have (`ConfigDiff`, then `EnvDiff`), with `Item` for values that are no
dictionaries. `Risk` is `_risk_for` and `Acceptable` is `validate_redeploy`.
`SubmitApi` validates the
payload with the two fields of its own that a `RedeployRequest` has, and the task
gets it without them (`Requested`); `SubmitPage` builds it as the page does.
`Accept` is the second commit, and `Begin` or `Refuse` the validation by the
worker, on the row as it is by then. `base` is the configuration that the request,
and from `Begin` on its task, has loaded: what was validated, and what the flush
compares with (`FlushDocument`). Any number of tasks are at work at once, for neither
`celery worker` nor the background tasks are limited to one (`worker/queue.py:36`,
`config.py:27`). So the row may have been replaced again since the second validation,
and `UnconfirmedIsHarmless` compares with the row that the task validated. Crashes, lost tasks and
uncaught exceptions are those of `DeploymentOps`; they end a redeployment at one
of the same stages and decide nothing about its plan.

### Records

`proc[p]` is a process with the request it works on: the stage names what it
commits next and holds what it has read (`Stage`). `Ask` admits a request whose
user has the role of its route, and is its first read or commit; `Commit` goes on
to the next. So creating a host is one commit and its event; editing it is a
read, the write of `WriteHost` on the row as read (`Flush`), and the event; a
deletion is a read, the *event* and then the row (`hosts.py:82`). Creating a
deployment is a read of the host, the insertion, the revision, the pointer to it
and the event. `ForeignKeys` says whether the database refuses the row of a
deployment without a host and the deletion of a host in use
(`db/models/deployment.py:18`). PostgreSQL does. SQLite, the default
(`config.py:13`), only does when told, and `db/session.py:10-28` does not tell it: there the deletion, which
checks nothing itself (`host_service.py:35`), removes a host in use, a deployment whose
host was deleted meanwhile is inserted all the same, and the runner of a later redeployment
fails its job (`redeploy_jobs.py:40`). `Redeploy` stands for the runner of a redeployment, as far as it
writes the URLs and the revision; that a deployment has only one at a time is
`OneAtATime` of `DeploymentOps`. `Boot` is the start of an application up to its
first administrator; `CreateUser` and `InsertUser` are the look-up and the
insertion of `create_user`, and `InsertUser` fails on the unique name if another
was faster. `PutConfig` and `WriteConfig` are `upsert_config`, which inserts a row
when it has found none: two first requests leave two rows and the first is read
from then on. `Crash` ends a process between any two commits; what it held is
lost.

A host is one value, its address, for that is what deployments copy. An id is used
once; SQLite may give the highest one again after its row was deleted. Requests
that are refused, logins and job requests write events, too, but no record, and
are left out.

## Checks

Every configuration says `CHECK_DEADLOCK FALSE`: the number of jobs and requests
is bounded, and when they are used up and done the system stops.

| Run | Instance | Distinct states | Shows |
|---|---|---|---|
| `guarded` | 1 client, 2 workers, 3 jobs, 2 configurations, no `deploy`, one uncaught exception or lost task | 2,051,632 | `OneAtATime`, `RevisionIsConfig`, `OnlyProvenIsUsed`, `SuccessIsTrue`, `UpIsServingUnlessRedeployFailed`, the life cycle |
| `concurrent` | 2 clients, 2 workers, 2 jobs, stop and redeploy, one crash, redelivery, loss, lying exit code, late command or death of SGLang | 2,565,101 | `BusyHasLiveJob` |
| `settles` | 2 clients, 2 workers, 2 jobs, deploy, stop and redeploy, no faults, fair | 497,378 | `JobsEnd`, `DeploymentSettles` |
| `environment` | 2 jobs, 2 workers, 2 confirmations or retries, one exception, crash, useless installation or deletion of the host, fair | 408,304 | the properties of `HostChecks` |
| `health` | 3 configurations, 2 of them with metrics, one job at a time | | `StoredHealthIsOfRow`, `DashboardAgrees`, `UnreachableIsWarned`, `OkMeansAllLayers`, and `ProbeIsDeserved` (the refinement) |
| `redeploy_plan` | 2 requests whose tasks overlap, 1 image, 2 sizes, 3 docker configurations | 825,778 | `PlanIsDiff`, `UnconfirmedIsHarmless`, `RefusalHasCause` |
| `records` | 3 processes, 2 each of hosts, deployments, addresses, users and settings, 5 requests, 1 crash, foreign keys not enforced | 766,189 | `ChangesAreAudited`, `DeletionsAreAudited`, `AuditIsTrue`, `SomeAdmin` |
| `remote` | up to 3 chunks to each stream, pipe and window of 1, with input, fair | 26,646 | `OutputIsWhole`, `ResultIsFinal`, `CallIsAtomic` (the refinement), `CallEnds` |
| `start_is_idle`, `single_probe`, `env_stuck`, `page_resets` | small | | four places where the code differs from the documents, see below |

Bounds. `Jobs` bounds the number of requests: two jobs are needed for a race and
three for a job that starts from what the two before left behind (that is how
`SuccessIsTrue` came to say nothing of the configuration after a `start`: a
redeployment that failed at its health check leaves a container with the new
configuration, and a later `start` reports success for it). Two configurations
of two columns, of which one differs, one change between them risky and the other
one not, cover both answers of the validation. No redeployments overlap in `guarded`; that columns
of two may mix is covered by `redeploy_plan` and by the theorems. `MaxFaults` = 1 keeps each fault apart from the others, so that a
violation names its cause. `MaxRequests` = 2 is one retry or confirmation after
another. `HealthCheck` needs no
bound: it runs job after job for ever; three configurations let a redeployment
that fails or is aborted be followed by one with other metrics. `redeploy_plan`
has the two docker configurations that the page can produce and a careful one with
volumes, an environment and a bridged network; two
requests are what it takes for one to be validated on a row that the other
replaces, before or after the second validation. `page_resets` has the other values
of the page and the API. `records` needs three processes for two that race and one that is
announced in between; without enforced foreign keys they may do more than with them;
and five requests for a user to be created, a host edited
and deleted and a deployment created on the way. `remote` has a pipe and a window
of one, so that the first chunk that is not read blocks the command, and three
chunks, so that the pipe, the window and the command each hold one. Jobs, workers
and clients, and the constants of `records`, are symmetric in the safety runs; the runs
with liveness properties use no symmetry.

Fairness. In `DeploymentOps` a request that committed its job goes on to its second
commit, an idle worker takes waiting tasks, a run takes its next step, and SGLang
finishes loading. Commands have timeouts (`CommandSpec.timeout_seconds`), so a
step of a run always ends; that is `CallEnds` of `RemoteCommand`. In `HostChecks`
the same holds of each worker (`Take` or a step of its task) and of the second
half of a retry. Nobody has to send requests, confirm or retry. In
`RemoteCommand` the executor, a command that works and a sound connection go on;
time is only asked to pass where the command hangs or the connection is silent,
so a call on a healthy host has to end without its deadline.

Assumptions of the passing runs that the code does not enforce, and what breaks
without them:

- `guarded` has one client and no redelivery. With two concurrent requests both
  may pass `validate_operation` (`operation_service.py:53`), and `OneAtATime`
  fails; a redelivered task runs beside its first run or reruns a finished job
  (`worker/queue.py:39`), and `OneAtATime` and the life cycle fail.
- `guarded` has no `deploy`: `create_deployment_job` checks no status.
- `guarded` has none of `daemon`, `late` and `die`: each makes a status untrue by
  itself, and `SuccessIsTrue` and `UpIsServingUnlessRedeployFailed` fail. Nothing
  in the code watches a container between two jobs.
- `concurrent` has no `raise`: with Celery `_mark_job_failed` closes the job and
  leaves the deployment busy, so `BusyHasLiveJob` fails. (With background tasks
  both stay as they are.)
- `environment` has `Patient` operators, who confirm a job once and wait. A second
  confirmation before the first is taken starts a second installation of the
  same job. Retries come from the page, which offers them for failed jobs only;
  the API resets a job in any status.

- `settles` has background tasks (`Celery = FALSE`) and no faults: a crash, a lost
  task or an uncaught exception leaves a job or a deployment as it is, for no part
  of the code looks for such remains.

### Where the code and the documents differ

Four runs end in a counterexample:

- `start_is_idle`: `start` and `restart` never start SGLang in the container
  although the implementation step says they do; they fail at the health check.
- `single_probe`: the documents poll `/health` with a deadline; the runners ask
  once and fail a deployment whose model is still loading.
- `env_stuck`: an exception that is not a `RuntimeError`, such as a refused
  connection, leaves an environment job running, without error or retry.
- `page_resets`: the page says nothing of the fields that its form does not have,
  and the documents say that it loads the last configuration; `pages.py:323`
  rebuilds them from defaults. Parallel sizes and GPUs change without a
  question, volumes and environment once risky changes are confirmed.

Others were met while modelling and are in the models as the code has them, without
a run of their own:

- A redeployment that fails after the old container was removed restores the old
  status (`redeploy_jobs.py:279`); `docs/architecture-and-technical-plan.md:1403`
  says that it is marked failed. `UpIsServingUnlessRedeployFailed` has its name
  from that.
- Two deployments of a host may have one container name
  (`deployment_service.py:76`), which
  `docs/implementation-steps/03-sglang-deployment-and-health-probe.md:78` forbids.
- A confirmation installs whatever it finds missing by then, not only the plan that
  was confirmed (`environment/runner.py:163`), and two jobs may install on one
  host at the same time.
- An installation that succeeds never writes `last_check_status`
  (`environment/runner.py:181`).
- Editing a host's address leaves the `service_url` and `metrics_url` of its
  deployments on the old one (`hosts.py:55`), while the scrape targets take the
  address of the host.
- A result that is read when the exit status has overtaken output lacks the rest
  (`executor.py:131`): `OutputIsWhole` excludes it by `overtaken`.
- `POST /{deployment_id}/redeploy` and `/logs` are declared behind
  `/{deployment_id}/{operation}` (`operations.py:46`), which answers them first, with
  a 422: at present only the page reaches `create_redeploy_job`. `RedeployPlan` has
  the API's handler as it is written.
- The page of the monitoring configuration asks for an operator (`pages.py:614`), its API
  for an administrator, as does
  `docs/implementation-steps/06-security-audit-and-productionization.md:55`.
- The documents want a revision for every redeployment, created before its commands
  (`docs/implementation-steps/04-operations-and-redeployment.md:84` and `:92-99`,
  `docs/architecture-and-technical-plan.md:1394`). The code stores one when the health check
  has passed (`redeploy_jobs.py:137`, `deployment_service.py:207`), so a redeployment that fails
  leaves no revision. `OnlyProvenIsUsed` asks neither: it says that what is in use
  has passed its health check, whenever the revision is stored.
- The plan that `/redeploy/plan` returns (`operations.py:104`) has an item with the
  plaintext `password` of the request, which `_payload_secrets`
  (`redeploy_service.py:160`) does not mask.
  `docs/implementation-steps/06-security-audit-and-productionization.md:94` and
  `deploy/README.md:14-19` say that plaintext secrets are never returned. `PlanIsDiff` asks
  nothing of the items of the request's own fields.
- `db/models/deployment.py:18` restricts the deletion of a host in use, and the default
  database does not enforce it (see `Records`): the deletion of a host leaves its
  deployments without one.
- Two redeployments that overlap, which takes two concurrent requests, may leave a
  row with columns of both (`deployment_service.py:188`): a configuration that no revision
  has and nobody validated. Where the model path is copied to `sglang_config`, the two
  copies may disagree, and the next payload made from the row is invalid.
- A check that fails writes `last_check_status` only if it differs from the value it
  loaded (`environment/runner.py:573`). If another check has succeeded in between, the
  list of hosts shows the success.

## Proofs

`DeploymentOps_proofs` proves, for all values of the constants that satisfy
`Parameters`:

| Theorem | Under | States |
|---|---|---|
| `TypeCorrect` | `Parameters` only, all faults included | `Spec => []TypeOK` |
| `BusyNamesLiveJob` | background tasks, or no uncaught exception | `Spec => []BusyHasLiveJob` |
| `GuardedRunsExclude` | one client, no `deploy`, no redelivery | `Spec => []OneAtATime` |

and `DeploymentJobs_proofs`, of which `GuardedRuns` is one client, no `deploy` and no
redelivery, and `FaithfulHost` none of `daemon`, `late` and `die`:

| Theorem | Under | States |
|---|---|---|
| `JobsKeepLifecycle` | no redelivery | `Spec => JobsFollowLifecycle`: `DeploymentOps` implements `JobLifecycle` |
| `OnlyProvenConfigsAreUsed` | no redelivery, no crash | `Spec => []OnlyProvenIsUsed` |
| `RevisionsKeepAll` | `Parameters` only, all faults included | `Spec => []NothingIsLost`: the configuration of every redeployment that succeeded is a revision, and every value of the row's configuration is that of some revision |
| `RevisionsMatchConfig` | `GuardedRuns`, no crash | `Spec => []RevisionIsConfig` |
| `RisksAreConfirmed` | `GuardedRuns` | `Spec => RiskIsConfirmed`: a change of the configuration is the last request's, and confirmed if it carries a risk for what it replaces |
| `SuccessTellsTruth` | `GuardedRuns`, `FaithfulHost` | `Spec => []SuccessIsTrue` |
| `UpUntilRedeployFails` | `GuardedRuns`, `FaithfulHost` | `Spec => []UpIsServingUnlessRedeployFailed` |

`HostChecks_proofs`, where `OneOperator` confirms once and waits, retries only what
has failed, and sends one retry at a time:

| Theorem | Under | States |
|---|---|---|
| `ChecksTypeCorrect` | `Parameters` only, all faults included | `Spec => []TypeOK` |
| `WaitingJobsOfferPlan` | `OneOperator` | `Spec => []WaitingOffersPlan` |
| `ChecksKeepLifecycle` | `OneOperator` | `Spec => JobsFollowLifecycle`: `HostChecks` implements `JobLifecycle` |

and `HostTruth_proofs`:

| Theorem | Under | States |
|---|---|---|
| `SuccessLeavesHostReady` | `OneOperator`, all faults included | `Spec => []SuccessMeansReady` |
| `RunningJobsAreWorkedOn` | `OneOperator` | `Spec => []RunningHasTaskUnlessFault` |
| `SuccessIsLasting` | `Parameters` only, all faults included | `Spec => []SuccessLasts`: driver and runtime of a host with a succeeded check last, for any operators |

`HealthCheck_proofs`, for every set of configurations with or without metrics:

| Theorem | States |
|---|---|
| `HealthTypeCorrect` | `Spec => []TypeOK` |
| `HealthBelongsToRow` | `Spec => []StoredHealthIsOfRow` |
| `DashboardIsRight` | `Spec => []DashboardAgrees` |
| `UnreachableIsCounted` | `Spec => []UnreachableIsWarned` |
| `OkIsComplete` | `Spec => []OkMeansAllLayers` |
| `CallIsProbe` | `Spec => ProbeIsDeserved`: the layered call implements `HealthProbe` |

`RedeployPlan_proofs`, for every number of requests, of tasks at once, and all values of a
configuration:

| Theorem | States |
|---|---|
| `TypeCorrect` | `Spec => []TypeOK` |
| `PlansAreDiffs` | `Spec => []PlanIsDiff` |
| `UnconfirmedAreHarmless` | `Spec => UnconfirmedIsHarmless` |
| `RefusalsHaveCause` | `Spec => RefusalHasCause` |

They assume `DocumentsAssumption`, which TLC evaluates: what the form of the page fills
in by itself is a valid configuration, every docker configuration has the fields of
`DockerConfig`, and its environment is a dictionary of strings
(`api/schemas/deployment.py`), so that null in a plan is a variable that is not there.

`Records_proofs`, for every number of processes, rows, requests and crashes, with
and without enforced foreign keys: `TypeCorrect`, `DeletionsAudited`, `ChangesAudited`,
`AuditTells` (`AuditIsTrue`) and `AdminFirst` (`SomeAdmin`).

`RemoteCommand_proofs`, for every length of output, pipe and window:
`RemoteTypeCorrect`, `ResultsAreWhole` (`OutputIsWhole`), `ResultsAreFinal`
(`ResultIsFinal`), and `CallsAreAtomic` (`CallIsAtomic`, the refinement of
`RemoteCall`).

### Along which argument

Each rests on an inductive invariant.

`TypeInv` is `TypeOK` with `WellFormed`: a run that is not idle has a job whose
row exists, a redeployment carries a configuration, a run in a command stage has
a command left, and so on. `TypeOK` alone is not inductive, because a session
object may hold "no job" or "no configuration" in its type but not in the stage
that writes it to a table.

`LiveInv` makes `BusyHasLiveJob` inductive. The argument: a job is closed only in
the stages `finish` and `mark_failed`, after its run has written the
deployment. That write could be swallowed, since a column is written only if it
differs from what the session loaded; but a run of the job the busy deployment
names loaded a busy status (`Accept` had written it before the task was
enqueued, and nobody could take the task earlier: `RequestsAreFresh`), and what
it writes is a settled status (`GivesBack`), for a redeployment because the
status it falls back to was one that `AllowedFrom` admits. Runs of other jobs may
write the deployment at any time, but only make it settled. Hence the assumption:
`MarkTaskFailed`, after an exception in a Celery task, closes a job without
having written the deployment.

`Exclusive` makes `OneAtATime` inductive: there is at most one of a request
between its commits, a waiting task and an acting run, and in the last two cases
the deployment is busy, so that no guarded request passes.

`LayersInOrder` says which layers a call can have collected at each stage: fewer
than eight while it asks, eight or a single failed `host_reachable` when it has
told its verdict, and at the fifth place, `/health`, only OK or ERROR. It is what
makes every step of `HealthCheck` one of `HealthProbe`'s (`MappedStep`): a call
that was not answered has an ERROR among its layers. `HealthOfRow` makes
`StoredHealthIsOfRow` inductive: it says the same while a job is at work, but for
the gap between the two commits of a redeployment, and `JobOnRow` that every other
job checks the configuration in the row.

`StatusOfHealth` makes the two properties of the dashboard inductive: the status of
the row and the stored health come from one verdict, or the status is one that is
never shown as up. `OnlyMetricsSkipped` says of the collected layers what
`OkMeansAllLayers` says of the stored ones.

`JobsHaveOwner` makes the life cycle inductive. No `mark_` function looks at the row it
writes, so the order of a job's writes must come from the fact that a job is in
one place only: in its request, then in the queue, then in one run. `Knows` ties
the row to the stage of that run, and to what its session loaded, so that `Flush`
swallows nothing. Redelivery breaks it, and nothing else does.

`ProvenInv` says where the columns of the row and the current revision can come from: the
first configuration, a redeployment that has succeeded, or a run that is past its health check
and will succeed, for a crash is the only thing that stops it there. It needs no
exclusion: a flush that leaves a column alone leaves one of those. For
`RevisionIsConfig` the acting run must have the row as it is: `OwnInv` joins
`Exclusive` and `JobInv` with `SeesRow`, and `RevisionsFit` adds the number that a run
is about to point the row to.

`StoredInv` needs none of that, and so no assumption: the commit that flushes the changed
columns stores the whole configuration as a revision (`ApplyConfig`), so that each value in the
row is that of some revision, even after a run whose session is stale or whose task is delivered
twice. Two values may be those of two revisions, and which one the row points to is the question
of `RevisionIsConfig`.

`RunsValidated` says that a run at its commands or its health check has validated what its
session loaded, and `OwnInv` that this is still the row when `ApplyConfig` replaces it: with
guarded requests no configuration is replaced between the second validation and the write,
however many workers there are. `NothingIsLost` and `RiskIsConfirmed` are defined next to their
theorems and belong to no run.

`BoxFits` follows the container through the commands of the acting run: what is left to
do says what has been done. `EndedIsTrue` carries the last of it over to a quiet
deployment, also over refused requests and lost tasks. `ShownInv` adds that, as long as
every redeployment that was begun has ended well, the container has the
configuration of the row and serves if the row says so; the first failure ends that,
since the new container stays while the row goes back.

In `HostChecks_proofs` `TypeInv` is `TypeOK` with `Fit`: a run has a job unless it is idle,
a step left while it is at one, and a verdict for the host's row when it writes
there. `OwnerInv` is to the tasks of a host what `JobsHaveOwner` is to those of a
deployment, with one difference: a retry hands the same job out again, and a
confirmation hands out one that is paused. That works because both find the job
without a task (`Free`): `OthersAreFree` shows it of a job that has failed, and of a
paused one the operator sees to it. With an operator who does not wait, a second
confirmation starts a second task.

`HostTruth_proofs` adds to `OwnerInv` what a run knows of itself (`RunTruth`: no verdict
before its end, and the container test as its last step) and that SSH checks have
jobs of their own (`KindInv`). `ReadyInv` carries `SuccessMeansReady` from the container
test, where the host is ready, to the commit that says so, two commits later, and past
every restart of Docker: the job of the installation that restarts it is `Unsettled`
until a container test passes again. `WorkInv` says that without overlap only one run
installs, so that nothing takes back what it has installed before it looks again; the
silent return of `confirm_install` (`GiveUp`) is then impossible.

`FreeInv` and `LastingInv` carry `SuccessLasts` without any assumption on the operators, so
without `OwnerInv`: several runs may work on one job, and rows are written by whoever comes.
What remains: a task has the verdict that it succeeded only behind the container test of
its own run, at a moment when the host was ready; nothing takes driver or runtime away
again, also not a step that is cut off, for the restart takes Docker only; and no task writes
"succeeded" to a row but one with that verdict, nor a request but "pending". `KindInv`
keeps the SSH checks out, which succeed without a look at either, and `NewInv` says that a job
that does not exist yet has no task, whose kind the creation of the job would change.

In `RedeployPlan_proofs` the lemmas on `Plan` come first: an item of the plan of two documents
is a leaf at which they differ with its new value, and the fields of the request itself
add an item each and hide none (`ItemOfPlan`, `ItemOfRequestPlan`). From that follow
`PlanIsDiff` as soon as the types hold, and `HarmlessKeeps`: a plan without risks adds no
warning and keeps volumes and environment. `Validated` strengthens the types: a request that is
on its way, and a run that is at its commands, would be accepted on its `base`. It is what
both validations leave behind, and lasts because nobody else writes to a
request's `base` or payload (`OneRequestStep`). A refusal therefore has another row before it, and
what `Apply` stores of the docker configuration is the payload's or what was there (`FlushTyped`).

In `Records_proofs` `TypeInv` has with the types that a configuration which was found
does not vanish (`PutSeen`). `AnnouncedInv`, `AdminInv`, `AuditInv` and `ChangesInv`
strengthen one property each by what processes hold: an event that is not stored yet, a
deployment whose revision is, an address on its way. `ChangesInv` has to explain a deployment
without a host as well, and takes the explanation from `DeletionsAreAudited`: a host that is
gone has its event.

In `RemoteCommand_proofs` `HostInv`, `ChannelInv` and `CallInv` follow the output from the
command through the channel to the executor: once the exit status has arrived in
order, nothing is left in the pipe, and each of the last two reads empties its
stream for good.

## What is only checked, and what is not modelled

Only checked by TLC, not proved: liveness (`JobsEnd`, `DeploymentSettles`,
`ChecksEnd`, `CallEnds`), which needs fairness and is out of the prover's reach, and the
four disagreements, which are counterexamples. Every other property of a passing run is
stated by a theorem. A theorem without a run (`SuccessLasts`, `NothingIsLost`,
`RiskIsConfirmed`) holds under weaker assumptions than the runs have, or says what two modules
say together.

Not modelled:

- Log lines, error texts and masking: they decide nothing.
- Passwords, tokens and their encryption; logins. Of the users only the first
  administrator, the creation of users and the roles of requests are in `Records`.
- The text that is built for others: command lines of SGLang and docker, the links and
  the scrape configuration of the monitoring page, the rendering of pages; and the
  validation of single values of a payload.
- Migrations, settings and middleware.
- Two deployments on one host. Every module has one deployment to a container, and the
  restart of Docker by an installation (`Restart`) is in `HostChecks` only.
- Remains of crashed processes over a restart of the service: nothing in the code looks
  for them, so there is nothing to model but that they stay.

## Plan

1. Done: `JobService`, `JobLifecycle`, `DockerHost`, `DeploymentOps`, `HostChecks`,
   their runs and first theorems.
2. Done: `HealthProbe`, `HealthCheck` and its theorems.
3. Done: `RedeployPlan`, which gives `HighRisk` of `DeploymentOps` its meaning.
4. Done: `Records`, with revisions, users, the monitoring configuration and the audit
   log, and its theorems.
5. Done: `RemoteCall` and `RemoteCommand`, which give `DockerHost` and `Late` their
   meaning.
6. Done: the theorems on jobs, revisions and the container, and that both modules of
   jobs implement `JobLifecycle`.
7. Open: Docker restarted by an installation under serving deployments, and two
   deployments with one container name: `HostChecks` and `DeploymentOps` over one host.
8. Done: the theorems on what the rows of jobs and hosts say.
9. Done: the theorems of `RedeployPlan`, and the one of `HostChecks` that holds for any
   operators; of `DeploymentOps` that no configuration gets lost, and that risky changes are
   confirmed with any number of workers.
