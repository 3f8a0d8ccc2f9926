-------------------------- MODULE DeploymentJobs_proofs --------------------------
(***************************************************************************)
(* Theorems of DeploymentOps about the jobs and the revisions, for any     *)
(* requests, and about what the rows say of the configuration and the      *)
(* container, when requests are guarded.                                   *)
(***************************************************************************)
EXTENDS DeploymentOps_proofs

-----------------------------------------------------------------------------
(* Jobs follow their life cycle                                              *)

\* The stages of a run after mark_running and before its job is closed.
Working == {"command", "probe", "apply", "point", "settle", "finish", "fail", "mark_failed"}

\* What a run r knows of the row of its job is true, and the row is where r is.
Knows(r, row) ==
  /\ r.at = "loaded" => row.status = "pending" /\ r.seenJob = "pending"
  /\ r.at \in Working => row.status = "running" /\ r.seenJob = "running"
  /\ r.at = "raised" => row.status \in Live

\* A job belongs to its request, then to the queue, then to one run.
JobsHaveOwner ==
  /\ \A c \in Clients : request[c].at = "created" =>
       /\ job[request[c].job].status = "pending" /\ request[c].job \notin queue
       /\ \A d \in Clients :
            request[d].at = "created" /\ request[d].job = request[c].job => d = c
       /\ \A w \in Workers : run[w].at # "idle" => run[w].job # request[c].job
  /\ \A j \in queue :
       /\ job[j].status = "pending"
       /\ \A w \in Workers : run[w].at # "idle" => run[w].job # j
  /\ \A v, w \in Workers :
       run[v].at # "idle" /\ run[w].at # "idle" /\ run[v].job = run[w].job => v = w
  /\ \A w \in Workers : run[w].at # "idle" => Knows(run[w], job[run[w].job])

JobInv == TypeInv /\ JobsHaveOwner

LEMMA JobInit == Init => JobInv
<1> SUFFICES ASSUME Init PROVE JobInv
  OBVIOUS
<1>1. /\ queue = {} /\ \A w \in Workers : run[w].at = "idle"
      /\ \A c \in Clients : request[c].at = "idle"
  BY DEF Init, IdleRun, IdleRequest
<1> QED
  BY <1>1, TypeInit DEF JobInv, JobsHaveOwner

\* What a run does with its own job is nobody else's concern.
LEMMA JobOwnStep ==
  ASSUME JobInv, TypeInv', NEW w \in Workers, NEW r, NEW row,
         run[w].at # "idle",
         UNCHANGED <<queue, request>>,
         run' = [run EXCEPT ![w] = r], job' = [job EXCEPT ![run[w].job] = row],
         r.at # "idle" => r.job = run[w].job /\ Knows(r, row)
  PROVE  JobInv'
<1> DEFINE j == run[w].job
<1>1. /\ j \in Jobs
      /\ \A i \in Jobs : job'[i] = IF i = j THEN row ELSE job[i]
      /\ \A v \in Workers : run'[v] = IF v = w THEN r ELSE run[v]
  BY DEF JobInv, TypeInv, TypeOK, WellFormed
<1>2. \A v \in Workers : v # w /\ run[v].at # "idle" => run[v].job \in Jobs /\ run[v].job # j
  BY DEF JobInv, JobsHaveOwner, TypeInv, WellFormed
<1>3. \A c \in Clients : request[c].at = "created" =>
        request[c].job \in Jobs /\ request[c].job # j
  BY DEF JobInv, JobsHaveOwner, TypeInv, WellFormed
<1>4. \A i \in queue : i \in Jobs /\ i # j
  BY DEF JobInv, JobsHaveOwner, TypeInv, TypeOK
<1>5. \A v \in Workers : run'[v].at # "idle" => run[v].at # "idle" /\ run'[v].job = run[v].job
  BY <1>1
<1>6. \A v \in Workers : run'[v].at # "idle" => Knows(run'[v], job'[run'[v].job])
  <2> SUFFICES ASSUME NEW v \in Workers, run'[v].at # "idle"
               PROVE  Knows(run'[v], job'[run'[v].job])
    OBVIOUS
  <2>1. CASE v = w
    BY <1>1, <2>1
  <2>2. CASE v # w
    <3>1. Knows(run[v], job[run[v].job]) /\ run'[v] = run[v] /\ job'[run[v].job] = job[run[v].job]
      BY <1>1, <1>2, <2>2 DEF JobInv, JobsHaveOwner
    <3> QED
      BY <3>1
  <2> QED
    BY <2>1, <2>2
<1>7. \A c \in Clients : request'[c].at = "created" =>
        job'[request'[c].job] = job[request[c].job] /\ request'[c] = request[c]
  BY <1>1, <1>3
<1>8. \A i \in queue' : job'[i] = job[i] /\ i \in queue
  BY <1>1, <1>4
<1>9. JobsHaveOwner'
  BY <1>5, <1>6, <1>7, <1>8 DEF JobInv, JobsHaveOwner
<1> QED
  BY <1>9 DEF JobInv

\* The same if it leaves the row alone.
LEMMA JobRunOnly ==
  ASSUME JobInv, TypeInv', NEW w \in Workers, NEW r,
         run[w].at # "idle",
         UNCHANGED <<job, queue, request>>,
         run' = [run EXCEPT ![w] = r],
         r.at # "idle" => r.job = run[w].job /\ Knows(r, job[run[w].job])
  PROVE  JobInv'
<1>1. job' = [job EXCEPT ![run[w].job] = job[run[w].job]]
  BY DEF JobInv, TypeInv, TypeOK
<1> QED
  BY <1>1, JobOwnStep

LEMMA JobRequests ==
  ASSUME JobInv, TypeInv', NEW c \in Clients, Submit(c) \/ Accept(c) \/ Abandon(c)
  PROVE  JobInv'
<1>0. TypeOK /\ WellFormed /\ JobsHaveOwner
  BY DEF JobInv, TypeInv
<1>1. CASE Submit(c)
  <2>1. PICK j \in Jobs :
          /\ job[j].status = NoRow
          /\ job' = [job EXCEPT ![j].status = "pending"]
          /\ request' = [request EXCEPT ![c] = [at |-> "created", job |-> j,
                                                seen |-> dep.status]]
    BY <1>1 DEF Submit
  <2>2. UNCHANGED <<queue, run>>
    BY <1>1 DEF Submit
  <2>3. /\ \A i \in Jobs : i # j => job'[i] = job[i]
        /\ job'[j].status = "pending"
    BY <1>0, <2>1 DEF TypeOK, JobRows
  <2>4. /\ request'[c].at = "created" /\ request'[c].job = j
        /\ \A d \in Clients : d # c => request'[d] = request[d]
    BY <1>0, <2>1 DEF TypeOK
  <2>5. /\ \A i \in queue : i \in Jobs /\ i # j
        /\ \A w \in Workers : run[w].at # "idle" => run[w].job \in Jobs /\ run[w].job # j
        /\ \A d \in Clients : request[d].at = "created" =>
             request[d].job \in Jobs /\ request[d].job # j
    BY <1>0, <2>1 DEF WellFormed, TypeOK
  <2>6. \A w \in Workers : run'[w].at # "idle" => Knows(run'[w], job'[run'[w].job])
    BY <1>0, <2>2, <2>3, <2>5 DEF JobsHaveOwner
  <2>7. \A i \in queue' : job'[i].status = "pending"
                         /\ \A w \in Workers : run'[w].at # "idle" => run'[w].job # i
    BY <1>0, <2>2, <2>3, <2>5 DEF JobsHaveOwner
  <2>8. \A d \in Clients : request'[d].at = "created" =>
          /\ job'[request'[d].job].status = "pending" /\ request'[d].job \notin queue'
          /\ \A e \in Clients :
               request'[e].at = "created" /\ request'[e].job = request'[d].job => e = d
          /\ \A w \in Workers : run'[w].at # "idle" => run'[w].job # request'[d].job
    BY <1>0, <2>2, <2>3, <2>4, <2>5 DEF JobsHaveOwner
  <2>9. JobsHaveOwner'
    BY <1>0, <2>2, <2>6, <2>7, <2>8 DEF JobsHaveOwner
  <2> QED
    BY <2>9 DEF JobInv
<1>2. CASE Accept(c)
  <2> DEFINE j == request[c].job
  <2>1. /\ request[c].at = "created" /\ queue' = queue \cup {j} /\ UNCHANGED run
        /\ request' = [request EXCEPT ![c] = IdleRequest] /\ j \in Jobs
    BY <1>0, <1>2 DEF Accept, WellFormed
  <2>2. \A i \in Jobs : job'[i].status = job[i].status
    BY <1>0, <1>2 DEF Accept, TypeOK, JobRows
  <2>3. /\ job[j].status = "pending"
        /\ \A w \in Workers : run[w].at # "idle" => run[w].job # j
    BY <1>0, <2>1 DEF JobsHaveOwner
  <2>4. \A d \in Clients : request'[d].at = "created" =>
          request'[d] = request[d] /\ request[d].job # j
    BY <1>0, <2>1 DEF TypeOK, IdleRequest, JobsHaveOwner
  <2>5. \A w \in Workers : run'[w].at # "idle" => Knows(run'[w], job'[run'[w].job])
    BY <1>0, <2>1, <2>2 DEF JobsHaveOwner, WellFormed, Knows
  <2>6. /\ queue \subseteq Jobs
        /\ \A d \in Clients : request[d].at = "created" => request[d].job \in Jobs
    BY <1>0 DEF TypeOK, WellFormed
  <2> HIDE DEF j
  <2>7. JobsHaveOwner'
    BY <1>0, <2>1, <2>2, <2>3, <2>4, <2>5, <2>6 DEF JobsHaveOwner
  <2> QED
    BY <2>7 DEF JobInv
<1>3. CASE Abandon(c)
  <2>1. /\ UNCHANGED <<job, queue, run>>
        /\ \A d \in Clients : request'[d].at = "created" => request'[d] = request[d]
    BY <1>0, <1>3 DEF Abandon, TypeOK, IdleRequest
  <2> QED
    BY <1>0, <2>1 DEF JobInv, JobsHaveOwner
<1> QED
  BY <1>1, <1>2, <1>3

LEMMA JobTake ==
  ASSUME JobInv, TypeInv', NEW w \in Workers, Take(w)
  PROVE  JobInv'
<1>0. TypeOK /\ WellFormed /\ JobsHaveOwner
  BY DEF JobInv, TypeInv
<1>1. PICK j \in queue :
        /\ queue' = queue \ {j}
        /\ run' = [run EXCEPT ![w] =
                     [IdleRun EXCEPT !.at = "loaded", !.job = j, !.seen = dep.status,
                                     !.seenConfig = dep.config, !.seenJob = job[j].status,
                                     !.old = FallBack(j),
                                     !.todo = Script(task[j].kind, dep.config)]]
  BY DEF Take
<1>2. UNCHANGED <<job, request>> /\ j \in Jobs /\ job[j].status = "pending"
  BY <1>0, <1>1 DEF Take, TypeOK, JobsHaveOwner
<1>3. /\ run'[w].at = "loaded" /\ run'[w].job = j /\ run'[w].seenJob = "pending"
      /\ \A v \in Workers : v # w => run'[v] = run[v]
  BY <1>0, <1>1, <1>2 DEF TypeOK, IdleRun
<1>4. \A v \in Workers : run[v].at # "idle" => run[v].job # j
  BY <1>0, <1>1 DEF JobsHaveOwner
<1>5. \A c \in Clients : request[c].at = "created" => request[c].job # j
  BY <1>0, <1>1 DEF JobsHaveOwner
<1>6. \A v \in Workers : run'[v].at # "idle" => Knows(run'[v], job'[run'[v].job])
  BY <1>0, <1>2, <1>3 DEF JobsHaveOwner, Knows, Working
<1>7. JobsHaveOwner'
  BY <1>0, <1>1, <1>2, <1>3, <1>4, <1>5, <1>6 DEF JobsHaveOwner
<1> QED
  BY <1>7 DEF JobInv

\* The steps of a run, and what may happen to it; the wrapper of a Celery task closes
\* only a job that is open.
LEMMA JobRuns ==
  ASSUME JobInv, TypeInv', NEW w \in Workers,
         RunStep(w) \/ Raise(w) \/ Crash(w) \/ Late(w)
  PROVE  JobInv'
<1> DEFINE r == run'[w]
           j == run[w].job
<1>0. /\ run \in [Workers -> Runs] /\ run[w] \in Runs
      /\ run[w].at # "idle" => /\ Knows(run[w], job[j]) /\ j \in Jobs
                               /\ job[j] \in JobRows /\ job \in [Jobs -> JobRows]
  BY DEF JobInv, TypeInv, TypeOK, WellFormed, JobsHaveOwner
<1>1. CASE Begin(w)
  <2> DEFINE row == MarkRunning(job[j], run[w].seenJob)
             at == IF task[j].kind = "redeploy" /\ ~RiskAccepted(task[j], run[w].seenConfig)
                   THEN "fail" ELSE "command"
  <2>1. /\ run[w].at = "loaded" /\ UNCHANGED <<queue, request>>
        /\ job' = [job EXCEPT ![j] = row]
        /\ run' = [run EXCEPT ![w].seenJob = row.status, ![w].at = at]
    BY <1>1 DEF Begin
  <2>2. row.status = "running"
    BY <1>0, <2>1 DEF Knows, MarkRunning, Flush, JobRows
  <2>3. at \in {"fail", "command"}
    OBVIOUS
  <2> HIDE DEF row, at
  <2>4. /\ run' = [run EXCEPT ![w] = r] /\ r.at = at /\ r.job = j /\ r.seenJob = "running"
    BY <1>0, <2>1, <2>2 DEF Runs
  <2>5. Knows(r, row)
    BY <2>2, <2>3, <2>4 DEF Knows, Working
  <2> HIDE DEF r
  <2> QED
    BY <2>1, <2>4, <2>5, JobOwnStep
<1>2. CASE CommandSucceeds(w) \/ CommandFails(w) \/ Probe(w) \/ ApplyConfig(w)
           \/ PointRevision(w) \/ Fail(w)
  <2>1. /\ run[w].at \in Working /\ UNCHANGED <<job, queue, request>>
    BY <1>2 DEF CommandSucceeds, CommandFails, Probe, ApplyConfig, PointRevision, Fail, Working
  <2>2. /\ run' = [run EXCEPT ![w] = r] /\ r.job = j /\ r.seenJob = run[w].seenJob
        /\ r.at \in Working
    <3>1. CASE CommandSucceeds(w)
      <4> DEFINE after == IF Len(run[w].todo) = 1
                          THEN AfterCommands(task[j].kind) ELSE run[w].at
      <4>1. /\ run' = [run EXCEPT ![w].todo = Tail(run[w].todo), ![w].at = after]
            /\ after \in Working
        BY <3>1 DEF CommandSucceeds, AfterCommands, Working
      <4> HIDE DEF after
      <4> QED
        BY <1>0, <4>1 DEF Runs
    <3>2. CASE CommandFails(w)
      BY <1>0, <3>2 DEF CommandFails, Runs, Working
    <3>3. CASE Probe(w)
      <4>1. PICK h, after :
              /\ run' = [run EXCEPT ![w].health = h, ![w].at = after]
              /\ after \in {"fail", "apply", "settle"}
        BY <3>3 DEF Probe
      <4> QED
        BY <1>0, <4>1 DEF Runs, Working
    <3>4. CASE ApplyConfig(w)
      <4>1. PICK new, rev :
              run' = [run EXCEPT ![w].at = "point", ![w].seenConfig = new, ![w].rev = rev]
        BY <3>4 DEF ApplyConfig
      <4> QED
        BY <1>0, <4>1 DEF Runs, Working
    <3>5. CASE PointRevision(w)
      <4>1. PICK s, c :
              run' = [run EXCEPT ![w].at = "settle", ![w].seen = s, ![w].seenConfig = c]
        BY <3>5 DEF PointRevision
      <4> QED
        BY <1>0, <4>1 DEF Runs, Working
    <3>6. CASE Fail(w)
      BY <1>0, <3>6 DEF Fail, Step, Runs, Working
    <3> QED
      BY <1>2, <3>1, <3>2, <3>3, <3>4, <3>5, <3>6
  <2>3. run[w].at # "idle" /\ r.at # "idle" /\ Knows(r, job[j])
    BY <1>0, <2>1, <2>2 DEF Knows, Working
  <2> HIDE DEF r
  <2> QED
    BY <2>1, <2>2, <2>3, JobRunOnly
<1>3. CASE Settle(w)
  <2> DEFINE row == SaveResult(job[j])
  <2>1. /\ run[w].at = "settle" /\ UNCHANGED <<queue, request>>
        /\ job' = [job EXCEPT ![j] = row]
        /\ run' = [run EXCEPT ![w].at = "finish", ![w].seenJob = job[j].status]
    BY <1>3 DEF Settle
  <2>2. row.status = "running" /\ job[j].status = "running"
    BY <1>0, <2>1 DEF Knows, Working, SaveResult, JobRows
  <2>3. /\ run' = [run EXCEPT ![w] = r] /\ r.job = j /\ r.at = "finish"
        /\ r.seenJob = "running"
    BY <1>0, <2>1, <2>2 DEF Runs
  <2>4. Knows(r, row)
    BY <2>2, <2>3 DEF Knows, Working
  <2> HIDE DEF row, r
  <2> QED
    BY <2>1, <2>3, <2>4, JobOwnStep
<1>4. CASE Finish(w) \/ FailJob(w) \/ MarkTaskFailed(w)
  <2> DEFINE row == job'[j]
  <2>1. /\ run[w].at # "idle" /\ UNCHANGED <<queue, request>> /\ Step(w, "ack")
    BY <1>4 DEF Finish, FailJob, MarkTaskFailed
  <2>2. job' = [job EXCEPT ![j] = row]
    BY <1>0, <1>4, <2>1 DEF Finish, FailJob, MarkTaskFailed
  <2>3. /\ run' = [run EXCEPT ![w] = r] /\ r.job = j /\ r.at = "ack"
    BY <1>0, <2>1 DEF Step, Runs
  <2>4. Knows(r, row)
    BY <2>3 DEF Knows, Working
  <2> HIDE DEF row, r
  <2> QED
    BY <2>1, <2>2, <2>3, <2>4, JobOwnStep
<1>5. CASE Ack(w) \/ Crash(w)
  <2>1. /\ run[w].at # "idle" /\ UNCHANGED <<job, queue, request>>
        /\ run' = [run EXCEPT ![w] = IdleRun]
    BY <1>5 DEF Ack, Crash
  <2> QED
    BY <2>1, JobRunOnly DEF IdleRun
<1>6. CASE Raise(w)
  <2>1. /\ run[w].at \in {"loaded", "command", "probe", "apply"}
        /\ UNCHANGED <<job, queue, request>>
        /\ run' = [run EXCEPT ![w].at = IF Celery THEN "raised" ELSE "ack"]
    BY <1>6 DEF Raise, Step
  <2>2. /\ run' = [run EXCEPT ![w] = r] /\ r.job = j /\ r.at \in {"raised", "ack"}
    BY <1>0, <2>1 DEF Runs
  <2>3. run[w].at # "idle" /\ Knows(r, job[j])
    BY <1>0, <2>1, <2>2 DEF Knows, Working, Live
  <2> HIDE DEF r
  <2> QED
    BY <2>1, <2>2, <2>3, JobRunOnly
<1>7. CASE Late(w)
  <2>1. /\ run[w].at # "idle" /\ UNCHANGED <<job, queue, request>>
        /\ run' = [run EXCEPT ![w].todo = <<>>]
    BY <1>7 DEF Late
  <2>2. /\ run' = [run EXCEPT ![w] = r] /\ r.job = j /\ r.at = run[w].at
        /\ r.seenJob = run[w].seenJob
    BY <1>0, <2>1 DEF Runs
  <2>3. Knows(r, job[j])
    BY <1>0, <2>1, <2>2 DEF Knows
  <2> HIDE DEF r
  <2> QED
    BY <2>1, <2>2, <2>3, JobRunOnly
<1> QED
  BY <1>1, <1>2, <1>3, <1>4, <1>5, <1>6, <1>7 DEF RunStep

LEMMA JobStep ==
  ASSUME "redeliver" \notin Faults
  PROVE  JobInv /\ [Next]_vars => JobInv'
<1> SUFFICES ASSUME JobInv, [Next]_vars PROVE JobInv'
  OBVIOUS
<1>0. TypeInv'
  BY TypeStep DEF JobInv
<1>1. CASE \E c \in Clients : Submit(c) \/ Accept(c) \/ Abandon(c)
  BY <1>0, <1>1, JobRequests
<1>2. CASE \E w \in Workers : Take(w) \/ RunStep(w) \/ Raise(w) \/ Crash(w) \/ Late(w)
  BY <1>0, <1>2, JobTake, JobRuns
<1>3. CASE Lose \/ Serve \/ Die \/ UNCHANGED vars
  <2>1. queue' \subseteq queue /\ UNCHANGED <<job, request, run>>
    BY <1>3 DEF Lose, Serve, Die, vars
  <2> QED
    BY <1>0, <2>1 DEF JobInv, JobsHaveOwner
<1>4. \A w \in Workers : ~Redeliver(w)
  BY DEF Redeliver, Fault
<1> QED
  BY <1>1, <1>2, <1>3, <1>4 DEF Next

\* A write of one row moves one job.
LEMMA RowMoves ==
  ASSUME job \in [Jobs -> JobRows], NEW j \in Jobs, NEW row, NEW from,
         job' = [job EXCEPT ![j] = row], job[j].status \in from
  PROVE  Lifecycle!Move(j, from, row.status)
<1> DEFINE before == [i \in Jobs |-> job[i].status]
           after == [i \in Jobs |-> job'[i].status]
<1>1. before[j] \in from
  OBVIOUS
<1>2. after = [before EXCEPT ![j] = row.status]
  OBVIOUS
<1> QED
  BY <1>1, <1>2 DEF Lifecycle!Move

\* Every commit is a step of the abstract life cycle on the one job it writes.
LEMMA LifecycleStep ==
  ASSUME JobInv, Next, "redeliver" \notin Faults
  PROVE  Lifecycle!Next \/ UNCHANGED [j \in Jobs |-> job[j].status]
<1> DEFINE status == [j \in Jobs |-> job[j].status]
<1>0. /\ TypeOK /\ WellFormed /\ JobsHaveOwner /\ job \in [Jobs -> JobRows]
  BY DEF JobInv, TypeInv, TypeOK
<1>1. ASSUME NEW c \in Clients, Submit(c) PROVE Lifecycle!Next
  <2>1. PICK j \in Jobs : job[j].status = NoRow /\ job' = [job EXCEPT ![j].status = "pending"]
    BY <1>1 DEF Submit
  <2>2. Lifecycle!Create(j)
    BY <1>0, <2>1 DEF Lifecycle!Create, Lifecycle!Move, NoRow, JobRows
  <2> QED
    BY <2>2 DEF Lifecycle!Next
<1>2. ASSUME NEW w \in Workers, Begin(w) \/ Finish(w) \/ FailJob(w) \/ MarkTaskFailed(w)
      PROVE  Lifecycle!Next
  <2>1. PICK j \in Jobs : j = run[w].job /\ Knows(run[w], job[j])
    BY <1>0, <1>2 DEF WellFormed, JobsHaveOwner, Begin, Finish, FailJob, MarkTaskFailed
  <2>2. CASE Begin(w)
    <3>1. /\ job[j].status = "pending" /\ run[w].seenJob = "pending"
          /\ job' = [job EXCEPT ![j] = MarkRunning(job[j], run[w].seenJob)]
      BY <2>1, <2>2 DEF Begin, Knows
    <3>2. MarkRunning(job[j], run[w].seenJob).status = "running"
      BY <1>0, <2>1, <3>1 DEF MarkRunning, Flush, JobRows
    <3>3. Lifecycle!Start(j)
      BY <1>0, <2>1, <3>1, <3>2, RowMoves DEF Lifecycle!Start
    <3> QED
      BY <2>1, <3>3 DEF Lifecycle!Next
  <2>3. CASE Finish(w)
    <3>1. /\ job[j].status = "running" /\ run[w].seenJob = "running"
          /\ job' = [job EXCEPT ![j] = MarkSucceeded(job[j], run[w].seenJob)]
      BY <2>1, <2>3 DEF Finish, Knows, Working
    <3>2. MarkSucceeded(job[j], run[w].seenJob).status = "succeeded"
      BY <1>0, <2>1, <3>1 DEF MarkSucceeded, Flush, JobRows
    <3>3. Lifecycle!Succeed(j)
      BY <1>0, <2>1, <3>1, <3>2, RowMoves DEF Lifecycle!Succeed
    <3> QED
      BY <2>1, <3>3 DEF Lifecycle!Next
  <2>4. CASE FailJob(w)
    <3>1. /\ job[j].status = "running" /\ run[w].seenJob = "running"
          /\ job' = [job EXCEPT ![j] = MarkFailed(job[j], run[w].seenJob)]
      BY <2>1, <2>4 DEF FailJob, Knows, Working
    <3>2. MarkFailed(job[j], run[w].seenJob).status = "failed"
      BY <1>0, <2>1, <3>1 DEF MarkFailed, Flush, JobRows
    <3>3. Lifecycle!Fail(j)
      BY <1>0, <2>1, <3>1, <3>2, RowMoves DEF Lifecycle!Fail
    <3> QED
      BY <2>1, <3>3 DEF Lifecycle!Next
  <2>5. CASE MarkTaskFailed(w)
    <3>1. /\ job[j].status \in {"pending", "running"}
          /\ job' = [job EXCEPT ![j].status = "failed"]
      BY <2>1, <2>5 DEF MarkTaskFailed, Knows, Live, Finished
    <3>2. Lifecycle!Fail(j)
      BY <1>0, <2>1, <3>1 DEF Lifecycle!Fail, Lifecycle!Move
    <3> QED
      BY <2>1, <3>2 DEF Lifecycle!Next
  <2> QED
    BY <1>2, <2>2, <2>3, <2>4, <2>5
<1>3. ASSUME NEW w \in Workers, Settle(w) PROVE UNCHANGED status
  BY <1>0, <1>3 DEF Settle, SaveResult, JobRows
<1>4. ASSUME NEW c \in Clients, Accept(c) PROVE UNCHANGED status
  BY <1>0, <1>4 DEF Accept, JobRows
<1>5. ASSUME NEW c \in Clients, Abandon(c) PROVE UNCHANGED status
  BY <1>5 DEF Abandon
<1>6. ASSUME NEW w \in Workers,
             \/ Take(w) \/ CommandSucceeds(w) \/ CommandFails(w) \/ Probe(w)
             \/ ApplyConfig(w) \/ PointRevision(w) \/ Fail(w) \/ Ack(w)
             \/ Raise(w) \/ Crash(w) \/ Redeliver(w) \/ Late(w)
      PROVE  UNCHANGED status
  BY <1>6 DEF Take, CommandSucceeds, CommandFails, Probe, ApplyConfig, PointRevision, Fail,
              Ack, Raise, Crash, Redeliver, Late
<1>7. CASE Lose \/ Serve \/ Die
  BY <1>7 DEF Lose, Serve, Die
<1> QED
  BY <1>1, <1>2, <1>3, <1>4, <1>5, <1>6, <1>7 DEF Next, RunStep

\* Without repeated delivery a job is created pending, runs once, and ends at most once,
\* although no mark_ function looks at the row it writes.
THEOREM JobsKeepLifecycle ==
  ASSUME "redeliver" \notin Faults
  PROVE  Spec => JobsFollowLifecycle
<1> DEFINE status == [j \in Jobs |-> job[j].status]
<1>1. Init => Lifecycle!Init
  BY DEF Init, Lifecycle!Init, NoRow
<1>2. JobInv /\ [Next]_vars => JobInv'
  BY JobStep
<1>3. JobInv /\ [Next]_vars => [Lifecycle!Next]_status
  BY LifecycleStep DEF vars
<1> QED
  BY <1>1, <1>2, <1>3, JobInit, PTL DEF Spec, JobsFollowLifecycle, Lifecycle!Spec

-----------------------------------------------------------------------------
(* Nothing is used that has not passed its health check                      *)

\* All revisions are of such configurations, and only they are pointed to.
ProvenRows ==
  /\ dep.revision \in DOMAIN revs
  /\ \A n \in DOMAIN revs : revs[n] \in Proven
  /\ \A w \in Workers : run[w].at = "point" => run[w].rev \in DOMAIN revs
  /\ \A k \in Columns : \E c \in Proven : dep.config[k] = c[k]

ProvenInv == JobInv /\ ProvenRows

\* The run has stored the revision of its redeployment and has not closed its job.
HasStored(w) ==
  run[w].at \in {"point", "settle", "finish"} /\ task[run[w].job].kind = "redeploy"

\* What has stored its revision goes on to be closed with success.
Closing ==
  /\ \A j \in Redeployed : j \in Redeployed' /\ task'[j] = task[j]
  /\ \A w \in Workers : HasStored(w) =>
       LET j == run[w].job IN
       /\ task'[j] = task[j]
       /\ (HasStored(w)' /\ run'[w].job = j) \/ j \in Redeployed'

LEMMA ProvenInit == Init => ProvenInv
<1> SUFFICES ASSUME Init PROVE ProvenInv
  OBVIOUS
<1>1. PICK c \in Configs : revs = <<c>> /\ dep.config = c /\ dep.revision = 1
  BY DEF Init
<1>2. revs[1] = c /\ DOMAIN revs = {1} /\ c \in Proven
  BY <1>1 DEF Proven
<1>3. \A w \in Workers : run[w].at # "point"
  BY DEF Init, IdleRun
<1> QED
  BY <1>1, <1>2, <1>3, JobInit DEF ProvenInv, ProvenRows

\* So what was proven stays so, as long as the first revision does.
LEMMA ProvenLasts ==
  ASSUME Closing, revs'[1] = revs[1]
  PROVE  Proven \subseteq Proven'
<1> SUFFICES ASSUME NEW c \in Proven PROVE c \in Proven'
  OBVIOUS
<1>1. CASE c = revs[1]
  BY <1>1 DEF Proven
<1>2. CASE \E j \in Redeployed : c = task[j].config
  BY <1>2 DEF Closing, Proven
<1>3. CASE \E w \in Redeploying : c = task[run[w].job].config
  <2>1. PICK w \in Workers : HasStored(w) /\ c = task[run[w].job].config
    BY <1>3 DEF Redeploying, HasStored
  <2>2. CASE HasStored(w)' /\ run'[w].job = run[w].job
    <3>1. w \in Redeploying'
      BY <2>2 DEF Redeploying, HasStored
    <3>2. c = task'[run'[w].job].config
      BY <2>1, <2>2 DEF Closing
    <3> QED
      BY <3>1, <3>2 DEF Proven
  <2>3. CASE run[w].job \in Redeployed'
    <3>1. c = task'[run[w].job].config
      BY <2>1 DEF Closing
    <3> QED
      BY <2>3, <3>1 DEF Proven
  <2> QED
    BY <2>1, <2>2, <2>3 DEF Closing
<1> QED
  BY <1>1, <1>2, <1>3 DEF Proven

\* A step that writes neither revisions nor what the row has of them.
LEMMA ProvenSame ==
  ASSUME ProvenInv, JobInv', Closing, UNCHANGED revs,
         dep'.config = dep.config, dep'.revision = dep.revision,
         \A w \in Workers : run'[w].at = "point" =>
           run[w].at = "point" /\ run'[w].rev = run[w].rev
  PROVE  ProvenInv'
<1>1. Proven \subseteq Proven'
  BY ProvenLasts
<1>2. ProvenRows
  BY DEF ProvenInv
<1>3. \A k \in Columns : \E c \in Proven' : dep'.config[k] = c[k]
  BY <1>1, <1>2 DEF ProvenRows
<1>4. /\ dep'.revision \in DOMAIN revs'
      /\ \A n \in DOMAIN revs' : revs'[n] \in Proven'
      /\ \A w \in Workers : run'[w].at = "point" => run'[w].rev \in DOMAIN revs'
  BY <1>1, <1>2 DEF ProvenRows
<1> QED
  BY <1>3, <1>4 DEF ProvenInv, ProvenRows

\* The job of a run, and its task, are there for good.
LEMMA RequestsKeepTasks ==
  ASSUME TypeInv, NEW c \in Clients, Submit(c) \/ Accept(c) \/ Abandon(c)
  PROVE  /\ UNCHANGED <<revs, run>> /\ dep'.config = dep.config
         /\ \A w \in Workers : HasStored(w)' <=> HasStored(w)
         /\ \A w \in Workers : HasStored(w) => task'[run[w].job] = task[run[w].job]
         /\ \A j \in Jobs : j \in Redeployed' <=> j \in Redeployed
         /\ \A j \in Redeployed : task'[j] = task[j]
<1>0. TypeOK /\ WellFormed /\ job \in [Jobs -> JobRows] /\ dep \in Deployments
  BY DEF TypeInv, TypeOK
<1>1. UNCHANGED <<revs, run>> /\ dep'.config = dep.config
  BY <1>0 DEF Submit, Accept, Abandon, Deployments
<1>2. CASE Submit(c)
  <2>1. PICK j \in Jobs :
          /\ job[j].status = NoRow /\ \E t : task' = [task EXCEPT ![j] = t]
          /\ job' = [job EXCEPT ![j].status = "pending"]
    BY <1>2 DEF Submit
  <2>2. /\ \A i \in Jobs : i # j => job'[i] = job[i] /\ task'[i] = task[i]
        /\ job'[j].status = "pending"
    BY <1>0, <2>1 DEF TypeOK, JobRows
  <2>3. \A i \in Jobs : i \in Redeployed' <=> i \in Redeployed
    BY <2>1, <2>2 DEF Redeployed, NoRow
  <2>4. \A w \in Workers : run[w].at # "idle" => run[w].job \in Jobs /\ run[w].job # j
    BY <1>0, <2>1 DEF WellFormed
  <2>5. \A w \in Workers : /\ HasStored(w)' <=> HasStored(w)
                           /\ HasStored(w) => task'[run[w].job] = task[run[w].job]
    BY <1>1, <2>2, <2>4 DEF HasStored
  <2>6. j \notin Redeployed
    BY <2>1 DEF Redeployed, NoRow
  <2> QED
    BY <1>1, <2>2, <2>3, <2>5, <2>6 DEF Redeployed
<1>3. CASE Accept(c) \/ Abandon(c)
  <2>1. task' = task /\ \A i \in Jobs : job'[i].status = job[i].status
    BY <1>0, <1>3 DEF Accept, Abandon, JobRows
  <2> QED
    BY <1>1, <2>1 DEF HasStored, Redeployed
<1> QED
  BY <1>2, <1>3

LEMMA ProvenRequests ==
  ASSUME ProvenInv, JobInv', NEW c \in Clients, Submit(c) \/ Accept(c) \/ Abandon(c)
  PROVE  ProvenInv'
<1>1. /\ UNCHANGED <<revs, run>> /\ dep'.config = dep.config
      /\ \A w \in Workers : HasStored(w)' <=> HasStored(w)
      /\ \A w \in Workers : HasStored(w) => task'[run[w].job] = task[run[w].job]
      /\ \A j \in Jobs : j \in Redeployed' <=> j \in Redeployed
      /\ \A j \in Redeployed : task'[j] = task[j]
  BY RequestsKeepTasks DEF ProvenInv, JobInv
<1>2. dep'.revision = dep.revision
  BY DEF ProvenInv, JobInv, TypeInv, TypeOK, Deployments, Submit, Accept, Abandon
<1>3. Closing
  BY <1>1 DEF Closing, Redeployed
<1> QED
  BY <1>1, <1>2, <1>3, ProvenSame

LEMMA ProvenOthers ==
  ASSUME ProvenInv, JobInv', NEW w \in Workers,
         \/ Take(w) \/ Begin(w) \/ CommandSucceeds(w) \/ CommandFails(w) \/ Probe(w)
         \/ Settle(w) \/ Fail(w) \/ FailJob(w) \/ MarkTaskFailed(w)
         \/ Ack(w) \/ Raise(w) \/ Late(w)
  PROVE  ProvenInv'
<1> DEFINE r == run'[w]
           j == run[w].job
<1>0. /\ run \in [Workers -> Runs] /\ run[w] \in Runs /\ job \in [Jobs -> JobRows]
      /\ run[w].at # "idle" => Knows(run[w], job[j]) /\ j \in Jobs
  BY DEF ProvenInv, JobInv, TypeInv, TypeOK, WellFormed, JobsHaveOwner
<1>1. /\ revs' = revs /\ task' = task
      /\ dep'.config = dep.config /\ dep'.revision = dep.revision
  <2>1. dep \in Deployments
    BY DEF ProvenInv, JobInv, TypeInv, TypeOK
  <2> QED
    BY <2>1 DEF Take, Begin, CommandSucceeds, CommandFails, Probe, Settle, Fail, FailJob,
                MarkTaskFailed, Ack, Raise, Late, Deployments
<1>2. \A i \in Jobs : job'[i].status = "succeeded" <=> job[i].status = "succeeded"
  <2>1. CASE job' = job
    BY <2>1
  <2>2. CASE Begin(w)
    <3>1. /\ job' = [job EXCEPT ![j] = MarkRunning(job[j], run[w].seenJob)]
          /\ job[j].status = "pending" /\ run[w].seenJob = "pending" /\ j \in Jobs
      BY <1>0, <2>2 DEF Begin, Knows
    <3> QED
      BY <1>0, <3>1 DEF MarkRunning, Flush, JobRows
  <2>3. CASE Settle(w)
    BY <1>0, <2>3 DEF Settle, SaveResult, JobRows
  <2>4. CASE FailJob(w)
    <3>1. /\ job' = [job EXCEPT ![j] = MarkFailed(job[j], run[w].seenJob)]
          /\ job[j].status = "running" /\ run[w].seenJob = "running" /\ j \in Jobs
      BY <1>0, <2>4 DEF FailJob, Knows, Working
    <3> QED
      BY <1>0, <3>1 DEF MarkFailed, Flush, JobRows
  <2>5. CASE MarkTaskFailed(w)
    <3>1. /\ job' = [job EXCEPT ![j].status = "failed"]
          /\ job[j].status \in {"pending", "running"} /\ j \in Jobs
      BY <1>0, <2>5 DEF MarkTaskFailed, Knows, Live, Finished
    <3> QED
      BY <1>0, <3>1 DEF JobRows
  <2> QED
    BY <2>1, <2>2, <2>3, <2>4, <2>5
       DEF Take, CommandSucceeds, CommandFails, Probe, Fail, Ack, Raise, Late
<1>3. /\ \A v \in Workers : v # w => run'[v] = run[v]
      /\ HasStored(w) => HasStored(w)' /\ r.job = j
      /\ r.at # "point"
  <2>1. CASE Take(w)
    <3>1. PICK x : run' = [run EXCEPT ![w] = x] /\ x.at = "loaded"
      <4>1. PICK i :
              run' = [run EXCEPT ![w] =
                       [IdleRun EXCEPT !.at = "loaded", !.job = i, !.seen = dep.status,
                                       !.seenConfig = dep.config, !.seenJob = job[i].status,
                                       !.old = FallBack(i),
                                       !.todo = Script(task[i].kind, dep.config)]]
        BY <2>1 DEF Take
      <4> DEFINE x == [IdleRun EXCEPT !.at = "loaded", !.job = i, !.seen = dep.status,
                                      !.seenConfig = dep.config, !.seenJob = job[i].status,
                                      !.old = FallBack(i),
                                      !.todo = Script(task[i].kind, dep.config)]
      <4>2. run' = [run EXCEPT ![w] = x]
        BY <4>1
      <4>3. x.at = "loaded"
        BY DEF IdleRun
      <4> HIDE DEF x
      <4> QED
        BY <4>2, <4>3
    <3>2. run'[w].at = "loaded" /\ \A v \in Workers : v # w => run'[v] = run[v]
      BY <1>0, <3>1
    <3> QED
      BY <2>1, <3>2 DEF HasStored, Take
  <2>2. CASE Begin(w) \/ CommandFails(w) \/ Fail(w) \/ FailJob(w) \/ MarkTaskFailed(w)
             \/ Ack(w) \/ Raise(w)
    <3>1. run[w].at \notin {"point", "settle", "finish"}
      BY <2>2 DEF Begin, CommandFails, Fail, FailJob, MarkTaskFailed, Ack, Raise
    <3>2. /\ run'[w].at \notin {"point", "settle", "finish"}
          /\ \A v \in Workers : v # w => run'[v] = run[v]
      BY <1>0, <2>2 DEF Begin, CommandFails, Fail, FailJob, MarkTaskFailed, Ack, Raise, Step,
                        IdleRun, Runs
    <3> QED
      BY <3>1, <3>2 DEF HasStored
  <2>3. CASE CommandSucceeds(w)
    <3> DEFINE after == IF Len(run[w].todo) = 1
                        THEN AfterCommands(task[j].kind) ELSE run[w].at
    <3>1. /\ run' = [run EXCEPT ![w].todo = Tail(run[w].todo), ![w].at = after]
          /\ run[w].at = "command"
      BY <2>3 DEF CommandSucceeds
    <3>2. after \in {"command", "probe"} \/ (after = "settle" /\ task[j].kind = "stop")
      BY <3>1 DEF AfterCommands
    <3> HIDE DEF after
    <3>3. r.at = after /\ r.job = j /\ \A v \in Workers : v # w => run'[v] = run[v]
      BY <1>0, <3>1 DEF Runs
    <3> QED
      BY <1>1, <3>1, <3>2, <3>3 DEF HasStored
  <2>4. CASE Probe(w)
    <3>1. PICK h, after :
            /\ run' = [run EXCEPT ![w].health = h, ![w].at = after]
            /\ \/ after \in {"fail", "apply"}
               \/ after = "settle" /\ task[j].kind # "redeploy"
      BY <2>4 DEF Probe
    <3>2. r.at = after /\ r.job = j /\ \A v \in Workers : v # w => run'[v] = run[v]
      BY <1>0, <3>1 DEF Runs
    <3>3. run[w].at = "probe"
      BY <2>4 DEF Probe
    <3> QED
      BY <1>1, <3>1, <3>2, <3>3 DEF HasStored
  <2>5. CASE Settle(w)
    <3>1. /\ run[w].at = "settle" /\ r.at = "finish" /\ r.job = j
          /\ \A v \in Workers : v # w => run'[v] = run[v]
      BY <1>0, <2>5 DEF Settle, Runs
    <3> QED
      BY <1>1, <3>1 DEF HasStored
  <2>6. CASE Late(w)
    <3>1. /\ r.at = run[w].at /\ r.at \in {"fail", "mark_failed", "ack"} /\ r.job = j
          /\ \A v \in Workers : v # w => run'[v] = run[v]
      BY <1>0, <2>6 DEF Late, Runs
    <3> QED
      BY <1>1, <3>1 DEF HasStored
  <2> QED
    BY <2>1, <2>2, <2>3, <2>4, <2>5, <2>6
<1>4. Closing
  <2>1. \A v \in Workers : HasStored(v) => HasStored(v)' /\ run'[v].job = run[v].job
    BY <1>1, <1>3 DEF HasStored
  <2>2. \A i \in Redeployed : i \in Redeployed'
    BY <1>1, <1>2 DEF Redeployed
  <2> QED
    BY <1>1, <2>1, <2>2 DEF Closing
<1>5. \A v \in Workers : run'[v].at = "point" =>
        run[v].at = "point" /\ run'[v].rev = run[v].rev
  BY <1>3
<1> QED
  BY <1>1, <1>4, <1>5, ProvenSame

\* The configuration that is stored is that of the run, whose probe it has passed.
LEMMA ProvenApplies ==
  ASSUME ProvenInv, JobInv', NEW w \in Workers, ApplyConfig(w)
  PROVE  ProvenInv'
<1> DEFINE j == run[w].job
<1>0. /\ run \in [Workers -> Runs] /\ run[w] \in Runs /\ dep \in Deployments
      /\ revs \in Seq(Configs) /\ Len(revs) \in Nat /\ ProvenRows
      /\ task[j].kind = "redeploy" /\ task[j].config \in Configs /\ j \in Jobs
  BY LenProperties
     DEF ProvenInv, JobInv, TypeInv, TypeOK, WellFormed, ApplyConfig
<1> PICK new \in Configs : new = task[j].config
  BY <1>0
<1>1. /\ run[w].at = "apply" /\ revs' = Append(revs, new) /\ UNCHANGED <<job, task>>
      /\ dep'.revision = dep.revision
      /\ \A k \in Columns : dep'.config[k] \in {new[k], dep.config[k]}
  BY <1>0 DEF ApplyConfig, FlushConfig, Flush, Deployments
<1>2. run' = [run EXCEPT ![w].at = "point", ![w].seenConfig = new, ![w].rev = Len(revs) + 1]
  BY DEF ApplyConfig
<1>3. /\ run'[w].at = "point" /\ run'[w].job = j /\ run'[w].rev = Len(revs) + 1
      /\ \A v \in Workers : v # w => run'[v] = run[v]
  BY <1>0, <1>2 DEF Runs
<1>4. /\ DOMAIN revs' = 1..(Len(revs) + 1) /\ DOMAIN revs = 1..Len(revs)
      /\ revs'[Len(revs) + 1] = new
      /\ \A n \in 1..Len(revs) : revs'[n] = revs[n]
  BY <1>0, <1>1
<1>5. revs'[1] = revs[1]
  BY <1>0, <1>4 DEF ProvenRows
<1>6. Proven \subseteq Proven'
  <2>1. Redeployed' = Redeployed
    BY <1>1 DEF Redeployed
  <2>2. \A v \in Workers : HasStored(v) => HasStored(v)' /\ run'[v].job = run[v].job
    BY <1>1, <1>3 DEF HasStored
  <2>3. Closing
    BY <1>1, <2>1, <2>2 DEF Closing
  <2> QED
    BY <1>5, <2>3, ProvenLasts
<1>7. new \in Proven'
  <2>1. w \in Redeploying'
    BY <1>0, <1>1, <1>3 DEF Redeploying
  <2>2. new = task'[run'[w].job].config
    BY <1>1, <1>3
  <2> QED
    BY <2>1, <2>2 DEF Proven
<1>8. \A n \in DOMAIN revs' : revs'[n] \in Proven'
  BY <1>0, <1>4, <1>6, <1>7 DEF ProvenRows
<1>9. \A k \in Columns : \E c \in Proven' : dep'.config[k] = c[k]
  BY <1>0, <1>1, <1>6, <1>7 DEF ProvenRows
<1>10. /\ dep'.revision \in DOMAIN revs'
       /\ \A v \in Workers : run'[v].at = "point" => run'[v].rev \in DOMAIN revs'
  BY <1>0, <1>1, <1>3, <1>4 DEF ProvenRows
<1> QED
  BY <1>8, <1>9, <1>10 DEF ProvenInv, ProvenRows

\* Its revision becomes the current one, and its job succeeds.
LEMMA ProvenEnds ==
  ASSUME ProvenInv, JobInv', NEW w \in Workers, PointRevision(w) \/ Finish(w)
  PROVE  ProvenInv'
<1> DEFINE j == run[w].job
<1>0. /\ run \in [Workers -> Runs] /\ run[w] \in Runs /\ job \in [Jobs -> JobRows]
      /\ dep \in Deployments /\ ProvenRows
      /\ Knows(run[w], job[j]) /\ j \in Jobs
  BY DEF ProvenInv, JobInv, TypeInv, TypeOK, WellFormed, JobsHaveOwner, PointRevision, Finish
<1>1. UNCHANGED <<revs, task>> /\ dep'.config = dep.config
  BY <1>0 DEF PointRevision, Finish, Deployments
<1>2. /\ \A v \in Workers : v # w => run'[v] = run[v]
      /\ run'[w].job = j /\ run'[w].at # "point"
  BY <1>0 DEF PointRevision, Finish, Step, Runs
<1>3. CASE PointRevision(w)
  <2>1. /\ run[w].at = "point" /\ run'[w].at = "settle" /\ UNCHANGED job
        /\ dep'.revision = run[w].rev
    BY <1>0, <1>3 DEF PointRevision, Runs, Deployments
  <2>2. Closing
    BY <1>1, <1>2, <2>1 DEF Closing, HasStored, Redeployed
  <2>3. Proven \subseteq Proven'
    BY <1>1, <2>2, ProvenLasts
  <2>4. \A k \in Columns : \E c \in Proven' : dep'.config[k] = c[k]
    BY <1>0, <1>1, <2>3 DEF ProvenRows
  <2>5. /\ dep'.revision \in DOMAIN revs'
        /\ \A n \in DOMAIN revs' : revs'[n] \in Proven'
        /\ \A v \in Workers : run'[v].at = "point" => run'[v].rev \in DOMAIN revs'
    BY <1>0, <1>1, <1>2, <2>1, <2>3 DEF ProvenRows
  <2> QED
    BY <2>4, <2>5 DEF ProvenInv, ProvenRows
<1>4. CASE Finish(w)
  <2>1. /\ run[w].at = "finish" /\ UNCHANGED dep
        /\ job[j].status = "running" /\ run[w].seenJob = "running"
        /\ job' = [job EXCEPT ![j] = MarkSucceeded(job[j], run[w].seenJob)]
    BY <1>0, <1>4 DEF Finish, Knows, Working
  <2>2. job'[j].status = "succeeded" /\ \A i \in Jobs : i # j => job'[i] = job[i]
    BY <1>0, <2>1 DEF MarkSucceeded, Flush, JobRows
  <2>3. \A i \in Redeployed : i \in Redeployed'
    BY <1>1, <2>2 DEF Redeployed
  <2>4. HasStored(w) => j \in Redeployed'
    BY <1>0, <1>1, <2>2 DEF HasStored, Redeployed
  <2>5. Closing
    BY <1>1, <1>2, <2>3, <2>4 DEF Closing, HasStored
  <2> QED
    BY <1>1, <1>2, <2>1, <2>5, ProvenSame
<1> QED
  BY <1>3, <1>4

\* However many redeployments overlap, none that fails leaves its revision as the current one
\* or a value of its own in a column of the row.  (A crash behind the first commit of
\* apply_payload_to_deployment leaves a job that never ends, and its configuration.)
THEOREM OnlyProvenConfigsAreUsed ==
  ASSUME "redeliver" \notin Faults, "crash" \notin Faults
  PROVE  Spec => []OnlyProvenIsUsed
<1>1. ProvenInv /\ [Next]_vars => ProvenInv'
  <2> SUFFICES ASSUME ProvenInv, [Next]_vars PROVE ProvenInv'
    OBVIOUS
  <2>0. JobInv'
    BY JobStep DEF ProvenInv
  <2>1. CASE \E c \in Clients : Submit(c) \/ Accept(c) \/ Abandon(c)
    BY <2>0, <2>1, ProvenRequests
  <2>2. CASE \E w \in Workers : Take(w) \/ RunStep(w) \/ Raise(w) \/ Late(w)
    BY <2>0, <2>2, ProvenOthers, ProvenApplies, ProvenEnds DEF RunStep
  <2>3. CASE Lose \/ Serve \/ Die \/ UNCHANGED vars
    <3>1. UNCHANGED <<dep, revs, job, task, run>>
      BY <2>3 DEF Lose, Serve, Die, vars
    <3>2. Closing
      BY <3>1 DEF Closing, Redeployed, HasStored
    <3> QED
      BY <2>0, <3>1, <3>2, ProvenSame
  <2>4. \A w \in Workers : ~Redeliver(w) /\ ~Crash(w)
    BY DEF Redeliver, Crash, Fault
  <2> QED
    BY <2>1, <2>2, <2>3, <2>4 DEF Next
<1>2. ProvenInv => OnlyProvenIsUsed
  BY DEF ProvenInv, ProvenRows, OnlyProvenIsUsed
<1> QED
  BY <1>1, <1>2, ProvenInit, PTL DEF Spec

-----------------------------------------------------------------------------
(* Revisions hold whatever a column or a successful redeployment had         *)

Stored(c) == \E n \in DOMAIN revs : revs[n] = c

ColumnsAreStored == \A k \in Columns : \E n \in DOMAIN revs : dep.config[k] = revs[n][k]

NothingIsLost ==
  /\ ColumnsAreStored
  /\ \A j \in Redeployed : Stored(task[j].config)

StoredInv ==
  TypeInv /\ NothingIsLost /\ \A w \in Workers : HasStored(w) => Stored(task[run[w].job].config)

LEMMA StoredInit == Init => StoredInv
<1> SUFFICES ASSUME Init PROVE StoredInv
  OBVIOUS
<1>1. PICK c \in Configs : revs = <<c>> /\ dep.config = c
  BY DEF Init
<1>2. ColumnsAreStored
  BY <1>1 DEF ColumnsAreStored
<1>3. Redeployed = {} /\ \A w \in Workers : ~HasStored(w)
  BY DEF Init, Redeployed, HasStored, NoRow, IdleRun
<1> QED
  BY <1>2, <1>3, TypeInit DEF StoredInv, NothingIsLost

\* A run that takes a task has loaded it and leaves the other runs alone.
LEMMA TakeLoads ==
  ASSUME run \in [Workers -> Runs], NEW w \in Workers, Take(w)
  PROVE  run'[w].at = "loaded" /\ \A v \in Workers : v # w => run'[v] = run[v]
<1>1. PICK j \in queue :
        run' = [run EXCEPT ![w] =
                  [IdleRun EXCEPT !.at = "loaded", !.job = j, !.seen = dep.status,
                                  !.seenConfig = dep.config, !.seenJob = job[j].status,
                                  !.old = FallBack(j),
                                  !.todo = Script(task[j].kind, dep.config)]]
  BY DEF Take
<1>2. \A a, b, c, d, e, f, g :
        [IdleRun EXCEPT !.at = a, !.job = b, !.seen = c, !.seenConfig = d, !.seenJob = e,
                        !.old = f, !.todo = g].at = a
  BY DEF IdleRun
<1>3. \A new : run' = [run EXCEPT ![w] = new] =>
                 run'[w] = new /\ \A v \in Workers : v # w => run'[v] = run[v]
  OBVIOUS
<1> QED
  BY <1>1, <1>2, <1>3

\* A step of a run other than the first commit of a revision.
LEMMA StoredRuns ==
  ASSUME StoredInv, TypeInv', NEW w \in Workers, ~ApplyConfig(w),
         Take(w) \/ RunStep(w) \/ Raise(w) \/ Crash(w) \/ Redeliver(w) \/ Late(w)
  PROVE  StoredInv'
<1> DEFINE r == run'[w]
           j == run[w].job
<1>0. /\ run \in [Workers -> Runs] /\ run[w] \in Runs /\ job \in [Jobs -> JobRows]
      /\ run[w].at # "idle" => j \in Jobs /\ job[j] \in JobRows
      /\ dep \in Deployments
  BY DEF StoredInv, TypeInv, TypeOK, WellFormed
<1>1. UNCHANGED <<revs, task>> /\ dep'.config = dep.config
  BY <1>0 DEF RunStep, Take, Begin, CommandSucceeds, CommandFails, Probe, PointRevision, Settle,
              Finish, Fail, FailJob, MarkTaskFailed, Ack, Raise, Crash, Redeliver, Late,
              Deployments
<1>2. ASSUME NEW i \in Jobs, job'[i].status = "succeeded", job[i].status # "succeeded"
      PROVE  Finish(w) /\ i = j
  <2>1. CASE Begin(w) \/ FailJob(w) \/ MarkTaskFailed(w) \/ Settle(w)
    <3>1. PICK row : /\ job' = [job EXCEPT ![j] = row]
                     /\ row.status \in {job[j].status, "running", "failed"}
      <4>1. CASE Begin(w)
        <5>1. MarkRunning(job[j], run[w].seenJob).status \in {job[j].status, "running"}
          BY <1>0, <4>1 DEF Begin, MarkRunning, Flush, JobRows
        <5> QED
          BY <4>1, <5>1 DEF Begin
      <4>2. CASE FailJob(w)
        <5>1. MarkFailed(job[j], run[w].seenJob).status \in {job[j].status, "failed"}
          BY <1>0, <4>2 DEF FailJob, MarkFailed, Flush, JobRows
        <5> QED
          BY <4>2, <5>1 DEF FailJob
      <4>3. CASE MarkTaskFailed(w)
        <5> DEFINE row == [job[j] EXCEPT
                             !.status = IF job[j].status \in Finished THEN job[j].status
                                        ELSE "failed"]
        <5>1. row.status \in {job[j].status, "failed"}
          BY <1>0, <4>3 DEF MarkTaskFailed, JobRows
        <5>2. job' = [job EXCEPT ![j] = row]
          BY <1>0, <4>3 DEF MarkTaskFailed
        <5> QED
          BY <5>1, <5>2
      <4>4. CASE Settle(w)
        <5>1. SaveResult(job[j]).status = job[j].status
          BY <1>0, <4>4 DEF Settle, SaveResult, JobRows
        <5> QED
          BY <4>4, <5>1 DEF Settle
      <4> QED
        BY <2>1, <4>1, <4>2, <4>3, <4>4
    <3> QED
      BY <1>0, <1>2, <3>1
  <2>2. CASE Finish(w)
    BY <1>0, <1>2, <2>2 DEF Finish
  <2>3. CASE job' = job
    BY <1>2, <2>3
  <2> QED
    BY <2>1, <2>2, <2>3
       DEF RunStep, Take, CommandSucceeds, CommandFails, Probe, PointRevision, Fail, Ack, Raise,
           Crash, Redeliver, Late
<1>3. /\ \A v \in Workers : v # w => run'[v] = run[v]
      /\ r.at \in {"point", "settle", "finish"} /\ task[r.job].kind = "redeploy" =>
           r.job = j /\ run[w].at \in {"point", "settle", "finish"}
  <2>1. CASE Take(w) \/ Crash(w) \/ Ack(w)
    <3>1. CASE Take(w)
      BY <1>0, <3>1, TakeLoads
    <3>2. CASE Crash(w) \/ Ack(w)
      BY <1>0, <3>2 DEF Crash, Ack, IdleRun
    <3> QED
      BY <2>1, <3>1, <3>2
  <2>2. CASE Begin(w)
    <3>1. PICK s, at : run' = [run EXCEPT ![w].seenJob = s, ![w].at = at]
                       /\ at \in {"fail", "command"}
      BY <2>2 DEF Begin
    <3> QED
      BY <1>0, <3>1 DEF Runs
  <2>3. CASE CommandSucceeds(w)
    <3>1. PICK todo, at :
            /\ run' = [run EXCEPT ![w].todo = todo, ![w].at = at]
            /\ at \in {"command", AfterCommands(task[j].kind)}
      BY <1>0, <2>3 DEF CommandSucceeds
    <3>2. task[j].kind = "redeploy" => at \in {"command", "probe"}
      BY <3>1 DEF AfterCommands
    <3> QED
      BY <1>0, <3>1, <3>2 DEF Runs
  <2>4. CASE Probe(w)
    <3>1. PICK h, at :
            /\ run' = [run EXCEPT ![w].health = h, ![w].at = at]
            /\ task[j].kind = "redeploy" => at \in {"fail", "apply"}
      BY <2>4 DEF Probe
    <3> QED
      BY <1>0, <3>1 DEF Runs
  <2>5. CASE PointRevision(w)
    BY <1>0, <2>5 DEF PointRevision, Runs
  <2>6. CASE Settle(w)
    <3>1. PICK s : run' = [run EXCEPT ![w].at = "finish", ![w].seenJob = s]
                   /\ run[w].at = "settle"
      BY <2>6 DEF Settle
    <3> QED
      BY <1>0, <3>1 DEF Runs
  <2>7. CASE Redeliver(w)
    BY <1>0, <2>7 DEF Redeliver, IdleRun
  <2>8. CASE CommandFails(w) \/ Late(w)
    BY <1>0, <2>8 DEF CommandFails, Late, Runs
  <2>9. CASE Finish(w) \/ Fail(w) \/ FailJob(w) \/ MarkTaskFailed(w) \/ Raise(w)
    BY <1>0, <2>9 DEF Finish, Fail, FailJob, MarkTaskFailed, Raise, Step, Runs
  <2> QED
    BY <2>1, <2>2, <2>3, <2>4, <2>5, <2>6, <2>7, <2>8, <2>9 DEF RunStep
<1>4. \A v \in Workers : HasStored(v)' => HasStored(v) /\ run'[v].job = run[v].job
  BY <1>1, <1>3 DEF HasStored
<1>5. \A i \in Jobs : i \in Redeployed' => i \in Redeployed \/ (HasStored(w) /\ i = j)
  BY <1>1, <1>2 DEF Redeployed, HasStored, Finish
<1>6. NothingIsLost'
  <2>1. \A i \in Redeployed' : Stored(task[i].config)
    BY <1>5 DEF StoredInv, NothingIsLost, Redeployed
  <2>2. \A i \in Redeployed' : Stored(task[i].config)'
    BY <1>1, <2>1 DEF Stored
  <2>3. ColumnsAreStored'
    BY <1>1 DEF StoredInv, NothingIsLost, ColumnsAreStored
  <2> QED
    BY <2>2, <2>3 DEF NothingIsLost
<1>7. \A v \in Workers : HasStored(v)' => Stored(task[run[v].job].config)'
  <2>1. \A v \in Workers : HasStored(v)' => Stored(task[run[v].job].config)
    BY <1>4 DEF StoredInv
  <2> QED
    BY <1>1, <1>4, <2>1 DEF Stored
<1> QED
  BY <1>6, <1>7 DEF StoredInv

\* One commit stores the revision and gives the row its configuration.
LEMMA StoredApplies ==
  ASSUME StoredInv, TypeInv', NEW w \in Workers, ApplyConfig(w)
  PROVE  StoredInv'
<1>0. /\ run \in [Workers -> Runs] /\ run[w] \in Runs /\ dep \in Deployments
      /\ revs \in Seq(Configs) /\ task[run[w].job].config \in Configs
      /\ ColumnsAreStored
  BY DEF StoredInv, NothingIsLost, TypeInv, TypeOK, WellFormed, ApplyConfig
<1> PICK new \in Configs : new = task[run[w].job].config
  BY <1>0
<1>1. /\ revs' = Append(revs, new) /\ UNCHANGED <<job, task>>
      /\ \A k \in Columns : dep'.config[k] \in {new[k], dep.config[k]}
  BY <1>0 DEF ApplyConfig, FlushConfig, Flush, Deployments
<1>2. PICK rev, seen :
        run' = [run EXCEPT ![w].at = "point", ![w].seenConfig = seen, ![w].rev = rev]
  BY DEF ApplyConfig
<1>3. run'[w].job = run[w].job /\ \A v \in Workers : v # w => run'[v] = run[v]
  BY <1>0, <1>2 DEF Runs
<1>4. /\ Stored(new)' /\ \A c : Stored(c) => Stored(c)'
      /\ ColumnsAreStored'
  <2>1. /\ DOMAIN revs' = 1..(Len(revs) + 1) /\ DOMAIN revs = 1..Len(revs)
        /\ Len(revs) \in Nat /\ revs'[Len(revs) + 1] = new
        /\ \A n \in 1..Len(revs) : revs'[n] = revs[n]
    BY <1>0, <1>1
  <2>2. Len(revs) + 1 \in DOMAIN revs' /\ \A n \in DOMAIN revs : n \in DOMAIN revs'
    BY <2>1
  <2>3. ASSUME NEW k \in Columns PROVE \E n \in DOMAIN revs' : dep'.config[k] = revs'[n][k]
    <3>1. CASE dep'.config[k] = new[k]
      BY <2>1, <2>2, <3>1
    <3>2. CASE dep'.config[k] = dep.config[k]
      BY <1>0, <2>1, <2>2, <3>2 DEF ColumnsAreStored
    <3> QED
      BY <1>1, <3>1, <3>2
  <2> QED
    BY <2>1, <2>2, <2>3 DEF Stored, ColumnsAreStored
<1>5. NothingIsLost'
  <2>1. ColumnsAreStored'
    BY <1>4
  <2>2. Redeployed' = Redeployed
    BY <1>1 DEF Redeployed
  <2> QED
    BY <1>1, <1>4, <2>1, <2>2 DEF StoredInv, NothingIsLost
<1>6. \A v \in Workers : HasStored(v)' => Stored(task[run[v].job].config)'
  <2> SUFFICES ASSUME NEW v \in Workers, HasStored(v)' PROVE Stored(task[run[v].job].config)'
    OBVIOUS
  <2>1. CASE v = w
    BY <1>1, <1>3, <1>4, <2>1
  <2>2. CASE v # w
    BY <1>1, <1>3, <1>4, <2>2 DEF StoredInv, HasStored
  <2> QED
    BY <2>1, <2>2
<1> QED
  BY <1>5, <1>6 DEF StoredInv

\* Whatever requests and runs overlap, and whatever dies or is delivered twice: the
\* configuration of each redeployment that is shown as succeeded is a revision, and each
\* value in the configuration of the row is that of a revision.  Two of them may have to be
\* looked for in two revisions, when overlapping redeployments wrote different columns.
THEOREM RevisionsKeepAll == Spec => []NothingIsLost
<1>1. StoredInv /\ [Next]_vars => StoredInv'
  <2> SUFFICES ASSUME StoredInv, [Next]_vars PROVE StoredInv'
    OBVIOUS
  <2>0. TypeInv'
    BY TypeStep DEF StoredInv
  <2>1. CASE \E c \in Clients : Submit(c) \/ Accept(c) \/ Abandon(c)
    <3>1. /\ UNCHANGED <<revs, run>> /\ dep'.config = dep.config
          /\ \A w \in Workers : HasStored(w)' <=> HasStored(w)
          /\ \A w \in Workers : HasStored(w) => task'[run[w].job] = task[run[w].job]
          /\ \A j \in Jobs : j \in Redeployed' <=> j \in Redeployed
          /\ \A j \in Redeployed : task'[j] = task[j]
      BY <2>1, RequestsKeepTasks DEF StoredInv
    <3>2. (\A c : Stored(c)' <=> Stored(c)) /\ (ColumnsAreStored' <=> ColumnsAreStored)
      BY <3>1 DEF Stored, ColumnsAreStored
    <3>3. Redeployed' = Redeployed
      BY <3>1 DEF Redeployed
    <3> QED
      BY <2>0, <3>1, <3>2, <3>3 DEF StoredInv, NothingIsLost
  <2>2. CASE \E w \in Workers : \/ Take(w) \/ RunStep(w) \/ Raise(w) \/ Crash(w)
                                \/ Redeliver(w) \/ Late(w)
    BY <2>0, <2>2, StoredRuns, StoredApplies
  <2>3. CASE Lose \/ Serve \/ Die \/ UNCHANGED vars
    <3>1. UNCHANGED <<dep, revs, job, task, run>>
      BY <2>3 DEF Lose, Serve, Die, vars
    <3> QED
      BY <2>0, <3>1 DEF StoredInv, NothingIsLost, Stored, ColumnsAreStored, Redeployed, HasStored
  <2> QED
    BY <2>1, <2>2, <2>3 DEF Next
<1>2. StoredInv => NothingIsLost
  BY DEF StoredInv
<1>3. Init => StoredInv
  BY StoredInit
<1> QED
  BY <1>1, <1>2, <1>3, PTL DEF Spec

-----------------------------------------------------------------------------
(* Under guarded requests the row is what the acting run loaded              *)

\* The runs of guarded requests: one client, no deploy, every task delivered once.
GuardedRuns ==
  /\ \A a, b \in Clients : a = b
  /\ "deploy" \notin Kinds /\ "redeliver" \notin Faults

\* An acting run r has the row d as it is, and works for its last job.
SeesRow(r, d) ==
  r.at \in Active =>
    /\ r.seen = d.status /\ r.seenConfig = d.config /\ r.job = d.last
    /\ task[r.job].kind # "redeploy" => r.old = "failed"

OwnRow ==
  /\ \A w \in Workers : SeesRow(run[w], dep)
  /\ \A j \in queue : j = dep.last
  /\ \A j \in Jobs : job[j].status # NoRow => task[j].kind # "deploy"
  /\ dep.last \in Jobs => job[dep.last].status # NoRow

OwnInv == Exclusive /\ JobInv /\ OwnRow

LEMMA OwnInit == Init => OwnInv
<1> SUFFICES ASSUME Init PROVE OwnInv
  OBVIOUS
<1>1. /\ queue = {} /\ \A w \in Workers : run[w].at = "idle"
      /\ \A j \in Jobs : job[j].status = NoRow
      /\ dep.last = NoJob
  BY DEF Init, IdleRun
<1> QED
  BY <1>1, ExclusiveInit, JobInit, Parameters DEF OwnInv, OwnRow, SeesRow, Active, Parameters

LEMMA OwnRequests ==
  ASSUME GuardedRuns, OwnInv, Exclusive', JobInv',
         NEW c \in Clients, Submit(c) \/ Accept(c) \/ Abandon(c)
  PROVE  OwnInv'
<1>0. /\ TypeOK /\ WellFormed /\ OwnRow /\ job \in [Jobs -> JobRows]
      /\ run' = run
  BY DEF OwnInv, Exclusive, TypeInv, TypeOK, Submit, Accept, Abandon
<1>1. CASE Submit(c)
  <2> PICK j \in Jobs, k \in Kinds, conf \in Configs \cup {NoConfig}, ok \in BOOLEAN :
         Submit(c)!2!(j, k, conf, ok)
    BY <1>1 DEF Submit
  <2>1. /\ job[j].status = NoRow
        /\ task' = [task EXCEPT ![j] = [kind |-> k, config |-> conf, confirmed |-> ok]]
        /\ job' = [job EXCEPT ![j].status = "pending"]
    OBVIOUS
  <2>2. /\ \A i \in Jobs : i # j => job'[i] = job[i] /\ task'[i] = task[i]
        /\ job'[j].status = "pending" /\ task'[j].kind = k /\ k # "deploy"
        /\ UNCHANGED <<dep, queue>>
    BY <1>0, <1>1, <2>1 DEF TypeOK, JobRows, GuardedRuns, Submit
  <2>3. \A w \in Workers : run[w].at \in Active => run[w].job \in Jobs /\ run[w].job # j
    BY <1>0, <2>1 DEF WellFormed, Active
  <2>4. \A w \in Workers : SeesRow(run[w], dep)'
    BY <1>0, <2>2, <2>3 DEF OwnRow, SeesRow
  <2>5. OwnRow'
    BY <1>0, <2>1, <2>2, <2>4 DEF OwnRow, NoRow
  <2> QED
    BY <2>5 DEF OwnInv
<1>2. CASE Accept(c)
  <2> DEFINE j == request[c].job
  <2>1. /\ request[c].at = "created" /\ queue' = queue \cup {j} /\ task' = task
        /\ dep'.last = j
    BY <1>0, <1>2 DEF Accept, TypeOK, Deployments
  <2>2. queue = {} /\ Quiet /\ j \in Jobs /\ job[j].status # NoRow
    BY <1>0, <2>1 DEF OwnInv, Exclusive, RequestedAlone, WellFormed
  <2>3. \A i \in Jobs : job'[i].status = job[i].status
    BY <1>0, <1>2 DEF Accept, JobRows
  <2>4. \A w \in Workers : SeesRow(run[w], dep)'
    BY <1>0, <2>2 DEF Quiet, Acting, SeesRow
  <2>5. OwnRow'
    BY <1>0, <2>1, <2>2, <2>3, <2>4 DEF OwnRow
  <2> QED
    BY <2>5 DEF OwnInv
<1>3. CASE Abandon(c)
  <2>1. UNCHANGED <<dep, job, task, queue>>
    BY <1>3 DEF Abandon
  <2> QED
    BY <1>0, <2>1 DEF OwnInv, OwnRow, SeesRow
<1> QED
  BY <1>1, <1>2, <1>3

LEMMA OwnTake ==
  ASSUME OwnInv, Exclusive', JobInv', NEW w \in Workers, Take(w)
  PROVE  OwnInv'
<1>0. TypeOK /\ OwnRow
  BY DEF OwnInv, Exclusive, TypeInv
<1>1. PICK j \in queue :
        /\ queue' = queue \ {j}
        /\ run' = [run EXCEPT ![w] =
                     [IdleRun EXCEPT !.at = "loaded", !.job = j, !.seen = dep.status,
                                     !.seenConfig = dep.config, !.seenJob = job[j].status,
                                     !.old = FallBack(j),
                                     !.todo = Script(task[j].kind, dep.config)]]
  BY DEF Take
<1>2. UNCHANGED <<dep, job, task>> /\ j = dep.last
  BY <1>0, <1>1 DEF Take, OwnRow
<1>3. /\ run'[w].seen = dep.status /\ run'[w].seenConfig = dep.config
      /\ run'[w].job = j /\ run'[w].old = FallBack(j)
      /\ \A v \in Workers : v # w => run'[v] = run[v]
  BY <1>0, <1>1 DEF TypeOK, IdleRun
<1>4. task[j].kind # "redeploy" => FallBack(j) = "failed"
  BY DEF FallBack
<1>5. \A v \in Workers : SeesRow(run[v], dep)'
  BY <1>0, <1>2, <1>3, <1>4 DEF OwnRow, SeesRow
<1> QED
  BY <1>0, <1>1, <1>2, <1>5 DEF OwnInv, OwnRow

\* A run writes the row it saw, and only while it acts, which it does alone.
LEMMA OwnRuns ==
  ASSUME OwnInv, Exclusive', JobInv', NEW w \in Workers,
         RunStep(w) \/ Raise(w) \/ Crash(w) \/ Late(w)
  PROVE  OwnInv'
<1> DEFINE r == run'[w]
<1>0. /\ TypeOK /\ WellFormed /\ OwnRow /\ job \in [Jobs -> JobRows]
      /\ run \in [Workers -> Runs] /\ run[w] \in Runs /\ dep \in Deployments
      /\ SeesRow(run[w], dep)
  BY DEF OwnInv, Exclusive, TypeInv, TypeOK, OwnRow
<1>1. ASSUME UNCHANGED <<task, queue>>, dep'.last = dep.last,
             \A i \in Jobs : job'[i].status = NoRow <=> job[i].status = NoRow,
             \A v \in Workers : v # w => run'[v] = run[v],
             Acting(w) \/ dep' = dep,
             SeesRow(r, dep')
      PROVE  OwnInv'
  <2>1. \A v \in Workers : v # w => SeesRow(run'[v], dep')
    <3> SUFFICES ASSUME NEW v \in Workers, v # w, run'[v].at \in Active
                 PROVE  SeesRow(run'[v], dep')
      BY DEF SeesRow
    <3>1. dep' = dep
      BY <1>1 DEF OwnInv, Exclusive, ActingAlone, Acting
    <3> QED
      BY <1>0, <1>1, <3>1 DEF OwnRow
  <2>2. \A v \in Workers : SeesRow(run[v], dep)'
    BY <1>1, <2>1 DEF SeesRow
  <2> QED
    BY <1>0, <1>1, <2>2 DEF OwnInv, OwnRow
<1>2. ASSUME RunStep(w) \/ Raise(w) \/ Crash(w) \/ Late(w)
      PROVE  /\ UNCHANGED <<task, queue>>
             /\ \A i \in Jobs : job'[i].status = NoRow <=> job[i].status = NoRow
             /\ \A v \in Workers : v # w => run'[v] = run[v]
             /\ Acting(w) \/ dep' = dep
  <2>1. UNCHANGED <<task, queue>>
    BY <1>2 DEF RunStep, Begin, CommandSucceeds, CommandFails, Probe, ApplyConfig,
                PointRevision, Settle, Finish, Fail, FailJob, MarkTaskFailed, Ack, Raise,
                Crash, Late
  <2>2. /\ \A v \in Workers : v # w => run'[v] = run[v]
        /\ Acting(w) \/ dep' = dep
    <3>1. CASE Late(w)
      BY <1>0, <3>1 DEF Late
    <3>2. CASE ~Late(w)
      BY <1>2, <3>2, RunStepShape DEF OwnInv, Exclusive
    <3> QED
      BY <3>1, <3>2
  <2>3. \A i \in Jobs : job'[i].status = NoRow <=> job[i].status = NoRow
    <3>1. CASE job' = job
      BY <3>1
    <3>2. CASE \E row : job' = [job EXCEPT ![run[w].job] = row] /\ row.status # NoRow
      <4>1. run[w].at # "idle"
        BY <1>2 DEF RunStep, Begin, CommandSucceeds, CommandFails, Probe, ApplyConfig,
                    PointRevision, Settle, Finish, Fail, FailJob, MarkTaskFailed, Ack, Raise,
                    Crash, Late
      <4> QED
        BY <1>0, <3>2, <4>1 DEF WellFormed
    <3>3. CASE Begin(w) \/ Settle(w) \/ Finish(w) \/ FailJob(w) \/ MarkTaskFailed(w)
      <4>1. run[w].job \in Jobs /\ job[run[w].job].status # NoRow
            /\ job[run[w].job] \in JobRows
        BY <1>0, <3>3 DEF WellFormed, Begin, Settle, Finish, FailJob, MarkTaskFailed
      <4>2. \E row : job' = [job EXCEPT ![run[w].job] = row] /\ row.status # NoRow
        BY <1>0, <3>3, <4>1 DEF Begin, Settle, Finish, FailJob, MarkTaskFailed, MarkRunning,
             MarkSucceeded, MarkFailed, SaveResult, Flush, NoRow, JobRows
      <4> QED
        BY <3>2, <4>2
    <3> QED
      BY <1>2, <3>1, <3>3 DEF RunStep, CommandSucceeds, CommandFails, Probe, ApplyConfig,
                    PointRevision, Fail, Ack, Raise, Crash, Late
  <2> QED
    BY <2>1, <2>2, <2>3
<1>3. CASE Begin(w) \/ CommandSucceeds(w) \/ CommandFails(w) \/ Probe(w) \/ Late(w)
  <2>1. /\ dep' = dep /\ task' = task
        /\ r.at \in Active => run[w].at \in Active
    <3>1. CASE Late(w)
      BY <1>0, <3>1 DEF Late, Runs
    <3>2. CASE ~Late(w)
      BY <1>3, <3>2 DEF Begin, CommandSucceeds, CommandFails, Probe, Active
    <3> QED
      BY <3>1, <3>2
  <2>2. /\ r.seen = run[w].seen /\ r.seenConfig = run[w].seenConfig /\ r.job = run[w].job
        /\ r.old = run[w].old
    <3>1. CASE CommandSucceeds(w)
      <4>1. PICK todo, at : run' = [run EXCEPT ![w].todo = todo, ![w].at = at]
        BY <3>1 DEF CommandSucceeds
      <4> QED
        BY <1>0, <4>1 DEF Runs
    <3>2. CASE Probe(w)
      <4>1. PICK h, at : run' = [run EXCEPT ![w].health = h, ![w].at = at]
        BY <3>2 DEF Probe
      <4> QED
        BY <1>0, <4>1 DEF Runs
    <3>3. CASE Begin(w)
      <4>1. PICK s, at : run' = [run EXCEPT ![w].seenJob = s, ![w].at = at]
        BY <3>3 DEF Begin
      <4> QED
        BY <1>0, <4>1 DEF Runs
    <3>4. CASE CommandFails(w) \/ Late(w)
      BY <1>0, <3>4 DEF CommandFails, Late, Runs
    <3> QED
      BY <1>3, <3>1, <3>2, <3>3, <3>4
  <2>3. SeesRow(r, dep')
    BY <1>0, <2>1, <2>2 DEF SeesRow
  <2> QED
    BY <1>1, <1>2, <1>3, <2>1, <2>3 DEF RunStep
<1>4. CASE ApplyConfig(w)
  <2> DEFINE new == task[run[w].job].config
             rev == Len(revs) + 1
  <2>1. /\ run[w].at = "apply"
        /\ run' = [run EXCEPT ![w].at = "point", ![w].seenConfig = new, ![w].rev = rev]
        /\ dep' = [dep EXCEPT !.config = FlushConfig(run[w].seenConfig, new, dep.config)]
    BY <1>4 DEF ApplyConfig
  <2>2. run[w].seenConfig = dep.config /\ dep.config \in Configs /\ new \in Configs
    BY <1>0, <2>1 DEF SeesRow, Active, Deployments, OwnInv, Exclusive, TypeInv, WellFormed
  <2>3. dep'.config = new /\ dep'.status = dep.status /\ dep'.last = dep.last
    BY <1>0, <2>1, <2>2, FreshConfigIsStored DEF Deployments
  <2> HIDE DEF new, rev
  <2>4. /\ r.seen = run[w].seen /\ r.seenConfig = new /\ r.job = run[w].job
        /\ r.old = run[w].old
    BY <1>0, <2>1 DEF Runs
  <2>5. SeesRow(r, dep')
    BY <1>0, <1>2, <1>4, <2>1, <2>3, <2>4 DEF SeesRow, Active, RunStep
  <2> QED
    BY <1>1, <1>2, <1>4, <2>3, <2>5 DEF RunStep
<1>5. CASE PointRevision(w)
  <2>1. /\ run[w].at = "point" /\ dep' = [dep EXCEPT !.revision = run[w].rev]
        /\ run' = [run EXCEPT ![w].at = "settle", ![w].seen = dep.status,
                              ![w].seenConfig = dep.config]
    BY <1>5 DEF PointRevision
  <2>2. /\ r.seen = dep.status /\ r.seenConfig = dep.config /\ r.job = run[w].job
        /\ r.old = run[w].old
    BY <1>0, <2>1 DEF Runs
  <2>3. dep'.config = dep.config /\ dep'.status = dep.status /\ dep'.last = dep.last
    BY <1>0, <2>1 DEF Deployments
  <2>4. SeesRow(r, dep')
    BY <1>0, <1>2, <1>5, <2>1, <2>2, <2>3 DEF SeesRow, Active, RunStep
  <2> QED
    BY <1>1, <1>2, <1>5, <2>3, <2>4 DEF RunStep
<1>6. CASE Settle(w) \/ Finish(w) \/ Fail(w) \/ FailJob(w) \/ MarkTaskFailed(w) \/ Ack(w)
           \/ Raise(w) \/ Crash(w)
  <2>1. r.at \notin Active
    BY <1>0, <1>6 DEF Settle, Finish, Fail, FailJob, MarkTaskFailed, Ack, Raise, Crash, Step,
                      IdleRun, Runs, Active
  <2>2. dep'.last = dep.last
    BY <1>0, <1>6 DEF Settle, Finish, Fail, FailJob, MarkTaskFailed, Ack, Raise, Crash,
                      Deployments
  <2> QED
    BY <1>1, <1>2, <1>6, <2>1, <2>2 DEF RunStep, SeesRow
<1> QED
  BY <1>3, <1>4, <1>5, <1>6 DEF RunStep

LEMMA OwnStep ==
  ASSUME GuardedRuns
  PROVE  OwnInv /\ [Next]_vars => OwnInv'
<1> SUFFICES ASSUME OwnInv, [Next]_vars PROVE OwnInv'
  OBVIOUS
<1>0. Exclusive' /\ JobInv'
  BY ExclusiveStep, JobStep DEF GuardedRuns, OwnInv
<1>1. CASE \E c \in Clients : Submit(c) \/ Accept(c) \/ Abandon(c)
  BY <1>0, <1>1, OwnRequests
<1>2. CASE \E w \in Workers : Take(w) \/ RunStep(w) \/ Raise(w) \/ Crash(w) \/ Late(w)
  BY <1>0, <1>2, OwnTake, OwnRuns
<1>3. CASE Lose \/ Serve \/ Die \/ UNCHANGED vars
  <2>1. queue' \subseteq queue /\ UNCHANGED <<dep, job, task, run>>
    BY <1>3 DEF Lose, Serve, Die, vars
  <2> QED
    BY <1>0, <2>1 DEF OwnInv, OwnRow, SeesRow
<1>4. \A w \in Workers : ~Redeliver(w)
  BY DEF GuardedRuns, Redeliver, Fault
<1> QED
  BY <1>1, <1>2, <1>3, <1>4 DEF Next

-----------------------------------------------------------------------------
(* The current revision is the configuration of the row                      *)

\* A number of a revision p, to which the row is about to be pointed, is right for d.
PointsTo(p, d, rs) == p \in 1..Len(rs) /\ rs[p] = d.config

RevisionsFit ==
  /\ dep.revision \in 1..Len(revs)
  /\ \A w \in Workers : run[w].at = "point" => PointsTo(run[w].rev, dep, revs)
  /\ RevisionIsConfig

ConfigInv == OwnInv /\ RevisionsFit

LEMMA ConfigInit == Init => ConfigInv
<1> SUFFICES ASSUME Init PROVE ConfigInv
  OBVIOUS
<1>1. PICK c \in Configs : dep.config = c /\ dep.revision = 1 /\ revs = <<c>>
  BY DEF Init
<1>2. Len(revs) = 1 /\ revs[1] = c
  BY <1>1
<1>3. \A w \in Workers : run[w].at = "idle"
  BY DEF Init, IdleRun
<1> QED
  BY <1>1, <1>2, <1>3, OwnInit DEF ConfigInv, RevisionsFit, RevisionIsConfig

\* No step disturbs them but those of apply_payload_to_deployment.
LEMMA ConfigSame ==
  ASSUME RevisionsFit, revs' = revs,
         dep'.config = dep.config, dep'.revision = dep.revision,
         \A w \in Workers : (run'[w].at = "point" <=> run[w].at = "point")
                            /\ (run'[w].at = "point" => run'[w].rev = run[w].rev)
  PROVE  RevisionsFit'
BY DEF RevisionsFit, PointsTo, RevisionIsConfig

\* The first commit stores the revision that the second makes the current one.
LEMMA ConfigApplies ==
  ASSUME ConfigInv, TypeInv', NEW w \in Workers, ApplyConfig(w) \/ PointRevision(w)
  PROVE  RevisionsFit'
<1>0. /\ run \in [Workers -> Runs] /\ run[w] \in Runs /\ dep \in Deployments
      /\ revs \in Seq(Configs) /\ RevisionsFit /\ SeesRow(run[w], dep)
  BY DEF ConfigInv, OwnInv, OwnRow, Exclusive, TypeInv, TypeOK
<1>1. \A v \in Workers : v # w => run[v].at # "point"
  BY DEF ConfigInv, OwnInv, Exclusive, ActingAlone, Acting, Active, ApplyConfig, PointRevision
<1>2. CASE ApplyConfig(w)
  <2> DEFINE new == task[run[w].job].config
             rev == Len(revs) + 1
  <2>1. /\ run[w].at = "apply" /\ revs' = Append(revs, new)
        /\ dep' = [dep EXCEPT !.config = FlushConfig(run[w].seenConfig, new, dep.config)]
        /\ run' = [run EXCEPT ![w].at = "point", ![w].seenConfig = new, ![w].rev = rev]
    BY <1>2 DEF ApplyConfig
  <2>0. new \in Configs
    BY <2>1 DEF ConfigInv, OwnInv, Exclusive, TypeInv, WellFormed
  <2> HIDE DEF new
  <2>2. run[w].seenConfig = dep.config /\ dep.config \in Configs
    BY <1>0, <1>2 DEF SeesRow, Active, ApplyConfig, Deployments
  <2>3. dep'.config = new /\ dep'.revision = dep.revision
    BY <1>0, <2>0, <2>1, <2>2, FreshConfigIsStored DEF Deployments
  <2>4. /\ run'[w].at = "point" /\ run'[w].rev = rev
        /\ \A v \in Workers : v # w => run'[v] = run[v]
    BY <1>0, <2>1 DEF Runs
  <2>5. Len(revs') = rev /\ revs'[rev] = new /\ Len(revs) \in Nat /\ rev \in Nat \ {0}
    BY <1>0, <2>0, <2>1
  <2>6. dep'.revision \in 1..Len(revs')
    BY <1>0, <2>3, <2>5 DEF RevisionsFit, Deployments
  <2>7. \A v \in Workers : run'[v].at = "point" => PointsTo(run'[v].rev, dep', revs')
    <3>1. PointsTo(rev, dep', revs')
      BY <2>3, <2>5 DEF PointsTo
    <3> HIDE DEF rev
    <3> QED
      BY <1>1, <2>4, <3>1
  <2> QED
    BY <2>4, <2>6, <2>7 DEF RevisionsFit, RevisionIsConfig
<1>3. CASE PointRevision(w)
  <2>1. /\ run[w].at = "point" /\ revs' = revs
        /\ dep' = [dep EXCEPT !.revision = run[w].rev]
        /\ run' = [run EXCEPT ![w].at = "settle", ![w].seen = dep.status,
                              ![w].seenConfig = dep.config]
    BY <1>3 DEF PointRevision
  <2>2. dep'.config = dep.config /\ dep'.revision = run[w].rev
    BY <1>0, <2>1 DEF Deployments
  <2>3. \A v \in Workers : run'[v].at # "point"
    BY <1>0, <1>1, <2>1 DEF Runs
  <2> QED
    BY <1>0, <2>1, <2>2, <2>3 DEF RevisionsFit, PointsTo, RevisionIsConfig
<1> QED
  BY <1>2, <1>3

LEMMA ConfigOthers ==
  ASSUME GuardedRuns, "crash" \notin Faults, ConfigInv, [Next]_vars,
         \A w \in Workers : ~ApplyConfig(w) /\ ~PointRevision(w)
  PROVE  RevisionsFit'
<1>0. /\ run \in [Workers -> Runs] /\ dep \in Deployments /\ RevisionsFit
  BY DEF ConfigInv, OwnInv, Exclusive, TypeInv, TypeOK
<1>1. revs' = revs /\ dep'.config = dep.config /\ dep'.revision = dep.revision
  <2>1. CASE \E c \in Clients : Submit(c) \/ Accept(c) \/ Abandon(c)
    BY <1>0, <2>1 DEF Submit, Accept, Abandon, Deployments
  <2>2. CASE \E w \in Workers : Take(w) \/ RunStep(w)
    BY <1>0, <2>2 DEF Take, RunStep, Begin, CommandSucceeds, CommandFails, Probe, Settle,
                      Finish, Fail, FailJob, MarkTaskFailed, Ack, Deployments
  <2>3. CASE \E w \in Workers : Raise(w) \/ Crash(w) \/ Redeliver(w) \/ Late(w)
    BY <2>3 DEF Raise, Crash, Redeliver, Late
  <2>4. CASE Lose \/ Serve \/ Die \/ UNCHANGED vars
    BY <2>4 DEF Lose, Serve, Die, vars
  <2> QED
    BY <2>1, <2>2, <2>3, <2>4 DEF Next
<1>2. ASSUME NEW w \in Workers, Take(w) \/ RunStep(w) \/ Raise(w) \/ Late(w)
      PROVE  \A v \in Workers : run'[v] = run[v]
               \/ (run[v].at # "point" /\ run'[v].at # "point")
  <2>0. run[w] \in Runs
    BY <1>0
  <2>1. CASE Take(w)
    BY <1>0, <2>1 DEF Take, IdleRun
  <2>2. CASE Begin(w)
    <3>1. PICK s, at : run' = [run EXCEPT ![w].seenJob = s, ![w].at = at]
                       /\ at \in {"fail", "command"} /\ run[w].at = "loaded"
      BY <2>2 DEF Begin
    <3> QED
      BY <1>0, <2>0, <3>1 DEF Runs
  <2>3. CASE CommandSucceeds(w)
    <3>1. PICK todo, at : run' = [run EXCEPT ![w].todo = todo, ![w].at = at]
                          /\ at \in {"command", "settle", "probe"} /\ run[w].at = "command"
      BY <2>3 DEF CommandSucceeds, AfterCommands
    <3> QED
      BY <1>0, <2>0, <3>1 DEF Runs
  <2>4. CASE Probe(w)
    <3>1. PICK h, at : run' = [run EXCEPT ![w].health = h, ![w].at = at]
                       /\ at \in {"fail", "apply", "settle"} /\ run[w].at = "probe"
      BY <2>4 DEF Probe
    <3> QED
      BY <1>0, <2>0, <3>1 DEF Runs
  <2>5. CASE Settle(w)
    <3>1. PICK s : run' = [run EXCEPT ![w].at = "finish", ![w].seenJob = s]
                   /\ run[w].at = "settle"
      BY <2>5 DEF Settle
    <3> QED
      BY <1>0, <2>0, <3>1 DEF Runs
  <2>6. CASE CommandFails(w) \/ Late(w)
    BY <1>0, <2>0, <2>6 DEF CommandFails, Late, Runs
  <2>7. CASE Finish(w) \/ Fail(w) \/ FailJob(w) \/ MarkTaskFailed(w) \/ Ack(w) \/ Raise(w)
    BY <1>0, <2>0, <2>7 DEF Finish, Fail, FailJob, MarkTaskFailed, Ack, Raise, Step, IdleRun,
                            Runs
  <2> QED
    BY <1>2, <2>1, <2>2, <2>3, <2>4, <2>5, <2>6, <2>7 DEF RunStep
<1>3. \A v \in Workers : run'[v] = run[v] \/ (run[v].at # "point" /\ run'[v].at # "point")
  <2>1. CASE \E c \in Clients : Submit(c) \/ Accept(c) \/ Abandon(c)
    BY <2>1 DEF Submit, Accept, Abandon
  <2>2. CASE \E w \in Workers : Take(w) \/ RunStep(w) \/ Raise(w) \/ Late(w)
    BY <1>2, <2>2
  <2>3. \A w \in Workers : ~Crash(w)
    BY DEF Crash, Fault
  <2>4. \A w \in Workers : ~Redeliver(w)
    BY DEF GuardedRuns, Redeliver, Fault
  <2>5. CASE Lose \/ Serve \/ Die \/ UNCHANGED vars
    BY <2>5 DEF Lose, Serve, Die, vars
  <2> QED
    BY <2>1, <2>2, <2>3, <2>4, <2>5 DEF Next
<1> QED
  BY <1>0, <1>1, <1>3, ConfigSame

\* When guarded operations come from one client, each task is delivered once and no
\* process dies, the current revision is always the snapshot of the stored configuration.
THEOREM RevisionsMatchConfig ==
  ASSUME GuardedRuns, "crash" \notin Faults
  PROVE  Spec => []RevisionIsConfig
<1>1. ConfigInv /\ [Next]_vars => ConfigInv'
  <2> SUFFICES ASSUME ConfigInv, [Next]_vars PROVE ConfigInv'
    OBVIOUS
  <2>1. OwnInv'
    BY OwnStep DEF ConfigInv
  <2>2. TypeInv'
    BY <2>1 DEF OwnInv, Exclusive
  <2>3. RevisionsFit'
    BY <2>2, ConfigApplies, ConfigOthers
  <2> QED
    BY <2>1, <2>3 DEF ConfigInv
<1>2. ConfigInv => RevisionIsConfig
  BY DEF ConfigInv, RevisionsFit
<1> QED
  BY <1>1, <1>2, ConfigInit, PTL DEF Spec

-----------------------------------------------------------------------------
(* A risky change of the configuration was confirmed                         *)

\* Every change of the row's configuration is the one its last request asked for, and
\* carries no risk that was not confirmed, measured on the configuration it replaces.
RiskIsConfirmed ==
  [][dep'.config # dep.config =>
       LET t == task[dep.last] IN
       /\ t.kind = "redeploy" /\ t.config = dep'.config
       /\ RiskAccepted(t, dep.config)]_vars

\* A run t at its commands or its health check has validated what its session loaded.
Validated(r, t) ==
  r.at \in {"command", "probe", "apply"} /\ t.kind = "redeploy" => RiskAccepted(t, r.seenConfig)

RunsValidated == \A w \in Workers : Validated(run[w], task[run[w].job])

RiskInv == OwnInv /\ RunsValidated

LEMMA ValidatedByRuns ==
  ASSUME TypeInv, RunsValidated, NEW w \in Workers,
         Take(w) \/ RunStep(w) \/ Raise(w) \/ Crash(w) \/ Late(w)
  PROVE  RunsValidated'
<1> DEFINE r == run'[w]
           t == task[run[w].job]
<1>0. run \in [Workers -> Runs] /\ run[w] \in Runs /\ Validated(run[w], t)
  BY DEF TypeInv, TypeOK, RunsValidated
<1>1. task' = task
  BY DEF RunStep, Take, Begin, CommandSucceeds, CommandFails, Probe, ApplyConfig, PointRevision,
         Settle, Finish, Fail, FailJob, MarkTaskFailed, Ack, Raise, Crash, Late
<1>2. (\A v \in Workers : v # w => run'[v] = run[v]) /\ Validated(r, task[r.job])
  <2>1. CASE Begin(w)
    <3>1. PICK s, at :
            /\ run' = [run EXCEPT ![w].seenJob = s, ![w].at = at]
            /\ t.kind = "redeploy" /\ ~RiskAccepted(t, run[w].seenConfig) => at = "fail"
      BY <2>1 DEF Begin
    <3>2. r.job = run[w].job /\ r.seenConfig = run[w].seenConfig /\ r.at = at
      BY <1>0, <3>1 DEF Runs
    <3> QED
      BY <1>0, <3>1, <3>2 DEF Validated
  <2>2. CASE CommandSucceeds(w) \/ CommandFails(w) \/ Probe(w) \/ Late(w)
    <3>1. /\ r.job = run[w].job /\ r.seenConfig = run[w].seenConfig
          /\ r.at \in {"command", "probe", "apply"} => run[w].at \in {"command", "probe", "apply"}
          /\ \A v \in Workers : v # w => run'[v] = run[v]
      <4>1. CASE CommandSucceeds(w)
        <5>1. PICK todo, at : /\ run' = [run EXCEPT ![w].todo = todo, ![w].at = at]
                              /\ run[w].at = "command"
          BY <4>1 DEF CommandSucceeds
        <5> QED
          BY <1>0, <5>1 DEF Runs
      <4>2. CASE CommandFails(w)
        <5>1. PICK todo : run' = [run EXCEPT ![w].at = "fail", ![w].todo = todo]
          BY <4>2 DEF CommandFails
        <5> QED
          BY <1>0, <5>1 DEF Runs
      <4>3. CASE Probe(w)
        <5>1. PICK h, at : /\ run' = [run EXCEPT ![w].health = h, ![w].at = at]
                           /\ run[w].at = "probe"
          BY <4>3 DEF Probe
        <5> QED
          BY <1>0, <5>1 DEF Runs
      <4>4. CASE Late(w)
        <5>1. /\ run' = [run EXCEPT ![w].todo = <<>>]
              /\ run[w].at \notin {"command", "probe", "apply"}
          BY <4>4 DEF Late
        <5> QED
          BY <1>0, <5>1 DEF Runs
      <4> QED
        BY <2>2, <4>1, <4>2, <4>3, <4>4
    <3> QED
      BY <1>0, <3>1 DEF Validated
  <2>3. CASE ~(Begin(w) \/ CommandSucceeds(w) \/ CommandFails(w) \/ Probe(w) \/ Late(w))
    <3>1. /\ r.at \notin {"command", "probe", "apply"}
          /\ \A v \in Workers : v # w => run'[v] = run[v]
      <4>1. CASE Take(w)
        BY <1>0, <4>1, TakeLoads
      <4>2. CASE Ack(w) \/ Crash(w)
        BY <1>0, <4>2 DEF Ack, Crash, IdleRun
      <4>3. CASE ApplyConfig(w)
        <5>1. PICK seen, rev :
                run' = [run EXCEPT ![w].at = "point", ![w].seenConfig = seen, ![w].rev = rev]
          BY <4>3 DEF ApplyConfig
        <5> QED
          BY <1>0, <5>1 DEF Runs
      <4>4. CASE PointRevision(w)
        <5>1. run' = [run EXCEPT ![w] = [run[w] EXCEPT !.at = "settle", !.seen = dep.status,
                                                       !.seenConfig = dep.config]]
          BY <1>0, <4>4 DEF PointRevision
        <5> QED
          BY <1>0, <5>1 DEF Runs
      <4>5. CASE Settle(w)
        <5>1. PICK s : run' = [run EXCEPT ![w].at = "finish", ![w].seenJob = s]
          BY <4>5 DEF Settle
        <5> QED
          BY <1>0, <5>1 DEF Runs
      <4>6. CASE Finish(w) \/ Fail(w) \/ FailJob(w) \/ MarkTaskFailed(w) \/ Raise(w)
        <5>1. PICK at : run' = [run EXCEPT ![w].at = at] /\ at \notin {"command", "probe", "apply"}
          BY <4>6 DEF Finish, Fail, FailJob, MarkTaskFailed, Raise, Step
        <5> QED
          BY <1>0, <5>1 DEF Runs
      <4> QED
        BY <2>3, <4>1, <4>2, <4>3, <4>4, <4>5, <4>6 DEF RunStep
    <3> QED
      BY <1>0, <3>1 DEF Validated
  <2> QED
    BY <2>1, <2>2, <2>3
<1> QED
  BY <1>1, <1>2 DEF RunsValidated

LEMMA RiskStep ==
  ASSUME GuardedRuns
  PROVE  RiskInv /\ [Next]_vars => RiskInv'
<1> SUFFICES ASSUME RiskInv, [Next]_vars PROVE RiskInv'
  OBVIOUS
<1>0. OwnInv' /\ TypeInv
  BY OwnStep DEF RiskInv, OwnInv, Exclusive
<1>1. CASE \E c \in Clients : Submit(c) \/ Accept(c) \/ Abandon(c)
  <2>1. run' = run /\ job \in [Jobs -> JobRows] /\ task \in [Jobs -> Tasks]
    BY <1>0, <1>1 DEF Submit, Accept, Abandon, TypeInv, TypeOK
  <2>2. \A w \in Workers : run[w].at # "idle" => task'[run[w].job] = task[run[w].job]
    <3>1. CASE task' = task
      BY <3>1
    <3>2. CASE \E c \in Clients : Submit(c)
      <4>1. PICK j \in Jobs : job[j].status = NoRow /\ \E t : task' = [task EXCEPT ![j] = t]
        BY <3>2 DEF Submit
      <4> QED
        BY <1>0, <2>1, <4>1 DEF TypeInv, WellFormed
    <3> QED
      BY <1>1, <3>1, <3>2 DEF Accept, Abandon
  <2> QED
    BY <1>0, <2>1, <2>2 DEF RiskInv, RunsValidated, Validated
<1>2. CASE \E w \in Workers : Take(w) \/ RunStep(w) \/ Raise(w) \/ Crash(w) \/ Late(w)
  BY <1>0, <1>2, ValidatedByRuns DEF RiskInv
<1>3. CASE Lose \/ Serve \/ Die \/ UNCHANGED vars
  <2>1. UNCHANGED <<task, run>>
    BY <1>3 DEF Lose, Serve, Die, vars
  <2> QED
    BY <1>0, <2>1 DEF RiskInv, RunsValidated
<1>4. \A w \in Workers : ~Redeliver(w)
  BY DEF GuardedRuns, Redeliver, Fault
<1> QED
  BY <1>1, <1>2, <1>3, <1>4 DEF Next

LEMMA ChangesAreConfirmed ==
  ASSUME RiskInv, [Next]_vars, dep'.config # dep.config
  PROVE  LET t == task[dep.last] IN
         /\ t.kind = "redeploy" /\ t.config = dep'.config
         /\ RiskAccepted(t, dep.config)
<1>0. /\ dep \in Deployments /\ TypeInv
  BY DEF RiskInv, OwnInv, Exclusive, TypeInv, TypeOK
<1>1. PICK w \in Workers : ApplyConfig(w)
  <2>1. CASE \E c \in Clients : Submit(c) \/ Accept(c) \/ Abandon(c)
    BY <1>0, <2>1 DEF Submit, Accept, Abandon, Deployments
  <2>2. CASE \E w \in Workers : Take(w) \/ (RunStep(w) /\ ~ApplyConfig(w))
    BY <1>0, <2>2 DEF Take, RunStep, Begin, CommandSucceeds, CommandFails, Probe, Settle,
                      PointRevision, Finish, Fail, FailJob, MarkTaskFailed, Ack, Deployments
  <2>3. CASE \E w \in Workers : Raise(w) \/ Crash(w) \/ Redeliver(w) \/ Late(w)
    BY <2>3 DEF Raise, Crash, Redeliver, Late
  <2>4. CASE Lose \/ Serve \/ Die \/ UNCHANGED vars
    BY <2>4 DEF Lose, Serve, Die, vars
  <2> QED
    BY <2>1, <2>2, <2>3, <2>4 DEF Next
<1> DEFINE t == task[run[w].job]
<1>2. /\ run[w].at = "apply"
      /\ dep' = [dep EXCEPT !.config = FlushConfig(run[w].seenConfig, t.config, dep.config)]
  BY <1>1 DEF ApplyConfig
<1>3. run[w].job = dep.last /\ run[w].seenConfig = dep.config
  BY <1>2 DEF RiskInv, OwnInv, OwnRow, SeesRow, Active
<1>4. t.kind = "redeploy" /\ t.config \in Configs /\ dep.config \in Configs
  BY <1>0, <1>2 DEF TypeInv, WellFormed, Deployments
<1>5. dep'.config = t.config
  BY <1>0, <1>2, <1>3, <1>4, FreshConfigIsStored DEF Deployments
<1>6. RiskAccepted(t, run[w].seenConfig)
  BY <1>2, <1>4 DEF RiskInv, RunsValidated, Validated
<1> QED
  BY <1>3, <1>4, <1>5, <1>6

\* When guarded operations come from one client and each task is delivered once, only the
\* last request changes the configuration, and a change that carries a risk for the
\* configuration it replaces was confirmed, also behind crashes and late commands.
THEOREM RisksAreConfirmed ==
  ASSUME GuardedRuns
  PROVE  Spec => RiskIsConfirmed
<1>1. RiskInv /\ [Next]_vars => RiskInv'
  BY RiskStep
<1>2. Init => RiskInv
  BY OwnInit DEF RiskInv, RunsValidated, Validated, Init, IdleRun
<1>3. RiskInv /\ [Next]_vars =>
        [dep'.config # dep.config =>
           LET t == task[dep.last] IN
           /\ t.kind = "redeploy" /\ t.config = dep'.config
           /\ RiskAccepted(t, dep.config)]_vars
  BY ChangesAreConfirmed
<1> QED
  BY <1>1, <1>2, <1>3, PTL DEF Spec, RiskIsConfirmed

-----------------------------------------------------------------------------
(* What the row says of the container, on a host where nothing happens to    *)
(* the container but what the runs' commands do                              *)

\* Commands are obeyed or fail, nothing is done late, and SGLang does not die.
FaithfulHost == {"daemon", "late", "die"} \cap Faults = {}

-----------------------------------------------------------------------------
(* The container is where the acting run has brought it                      *)

\* The commands s that a redeployment has left end in docker run and docker exec.
Ends(s) == s[Len(s)] = "exec" /\ (Len(s) > 1 => s[Len(s) - 1] = "run")

\* An acting run r of the task t, the container b and the row's configuration c.
Fits(r, t, b, c) ==
  /\ r.at \in {"loaded", "command"} =>
       IF t.kind = "redeploy" THEN Ends(r.todo) ELSE r.todo = <<t.kind>>
  /\ t.kind = "redeploy" =>
       /\ r.at = "loaded" => Len(r.todo) > 1
       /\ r.at = "command" /\ Len(r.todo) = 1 => b.config = t.config
       /\ r.at \in {"probe", "apply"} => b.config = t.config
       /\ r.at \in {"point", "settle"} => b.config = c
  /\ r.at = "probe" => t.kind # "stop"
  /\ r.at \in {"apply", "point"} => b.state = "serving"
  /\ r.at = "settle" =>
       IF t.kind = "stop" THEN b.state \notin Running ELSE b.state = "serving"

BoxFits == \A w \in Workers : Fits(run[w], task[run[w].job], box, dep.config)

BoxInv == OwnInv /\ BoxFits

\* Who does not act need not fit.
LEMMA FitsIdle ==
  ASSUME NEW r, r.at \notin Active, NEW t, NEW b, NEW c
  PROVE  Fits(r, t, b, c)
BY DEF Fits, Active

LEMMA EndsTail ==
  ASSUME NEW s \in Seq(Commands), s # <<>>, Ends(s)
  PROVE  /\ Len(s) > 1 <=> Len(s) # 1
         /\ Len(s) = 1 => Head(s) = "exec"
         /\ Len(s) = 2 => Head(s) = "run"
         /\ Len(s) > 1 => Ends(Tail(s)) /\ Len(Tail(s)) = Len(s) - 1
<1>1. Len(s) \in Nat \ {0} /\ Head(s) = s[1]
  BY EmptySeq
<1>2. Len(s) = 1 => Head(s) = "exec"
  BY <1>1 DEF Ends
<1>3. Len(s) = 2 => Head(s) = "run"
  BY <1>1 DEF Ends
<1>4. Len(s) > 1 <=> Len(s) # 1
  <2>1. \A n \in Nat \ {0} : n > 1 <=> n # 1
    OBVIOUS
  <2> QED
    BY <1>1, <2>1, Zenon
<1>5. ASSUME Len(s) > 1 PROVE Ends(Tail(s)) /\ Len(Tail(s)) = Len(s) - 1
  <2>1. Len(Tail(s)) = Len(s) - 1 /\ \A i \in 1..(Len(s) - 1) : Tail(s)[i] = s[i + 1]
    BY <1>1
  <2> DEFINE n == Len(s) - 1
  <2>2. n \in 1..n /\ n + 1 = Len(s) /\ (n > 1 => n - 1 \in 1..n /\ (n - 1) + 1 = Len(s) - 1)
    BY <1>1, <1>5
  <2>3. Tail(s)[n] = "exec" /\ (n > 1 => Tail(s)[n - 1] = "run")
    <3>1. Tail(s)[n] = s[Len(s)]
      BY <2>1, <2>2
    <3>2. n > 1 => Tail(s)[n - 1] = s[Len(s) - 1]
      BY <2>1, <2>2
    <3> QED
      BY <1>5, <3>1, <3>2 DEF Ends
  <2> QED
    BY <2>1, <2>3 DEF Ends
<1> QED
  BY <1>2, <1>3, <1>4, <1>5

\* While one run acts, whatever it does to the container or the row concerns no other.
LEMMA FitsOne ==
  ASSUME BoxInv, NEW w \in Workers, task' = task,
         \A v \in Workers : v # w => run'[v] = run[v],
         Acting(w) \/ (box' = box /\ dep'.config = dep.config),
         Fits(run'[w], task[run'[w].job], box', dep'.config)
  PROVE  BoxFits'
<1>1. ASSUME NEW v \in Workers, v # w
      PROVE  Fits(run[v], task[run[v].job], box', dep'.config)
  <2>1. CASE Acting(w)
    <3>1. run[v].at \notin Active
      BY <1>1, <2>1 DEF BoxInv, OwnInv, Exclusive, ActingAlone, Acting
    <3> QED
      BY <3>1, FitsIdle
  <2>2. CASE box' = box /\ dep'.config = dep.config
    BY <2>2 DEF BoxInv, BoxFits
  <2> QED
    BY <2>1, <2>2
<1> QED
  BY <1>1 DEF BoxFits

LEMMA BoxInit == Init => BoxInv
<1> SUFFICES ASSUME Init PROVE BoxInv
  OBVIOUS
<1>1. \A w \in Workers : run[w].at \notin Active
  BY DEF Init, IdleRun, Active
<1> QED
  BY <1>1, OwnInit, FitsIdle DEF BoxInv, BoxFits

\* Requests wait for the run that acts.
LEMMA BoxRequests ==
  ASSUME BoxInv, NEW c \in Clients, Submit(c) \/ Accept(c) \/ Abandon(c)
  PROVE  BoxFits'
<1>0. TypeOK /\ WellFormed /\ BoxFits /\ run' = run /\ box' = box
  BY DEF BoxInv, OwnInv, Exclusive, TypeInv, Submit, Accept, Abandon
<1>1. CASE Submit(c)
  <2>1. PICK j \in Jobs :
          job[j].status = NoRow /\ \A i \in Jobs : i # j => task'[i] = task[i]
    BY <1>0, <1>1 DEF Submit, TypeOK
  <2>2. dep' = dep
    BY <1>1 DEF Submit
  <2>3. ASSUME NEW w \in Workers PROVE Fits(run[w], task'[run[w].job], box, dep.config)
    <3>1. CASE run[w].at = "idle"
      BY <3>1, FitsIdle DEF Active
    <3>2. CASE run[w].at # "idle"
      <4>1. run[w].job \in Jobs /\ run[w].job # j
        BY <1>0, <2>1, <3>2 DEF WellFormed
      <4> QED
        BY <1>0, <2>1, <4>1 DEF BoxFits
    <3> QED
      BY <3>1, <3>2
  <2> QED
    BY <1>0, <2>2, <2>3 DEF BoxFits
<1>2. CASE Accept(c)
  <2>1. \A w \in Workers : run[w].at \notin Active
    BY <1>2 DEF BoxInv, OwnInv, Exclusive, RequestedAlone, Quiet, Acting, Accept
  <2> QED
    BY <1>0, <2>1, FitsIdle DEF BoxFits
<1>3. CASE Abandon(c)
  BY <1>0, <1>3 DEF Abandon, BoxFits
<1> QED
  BY <1>1, <1>2, <1>3

LEMMA BoxTake ==
  ASSUME BoxInv, NEW w \in Workers, Take(w)
  PROVE  BoxFits'
<1>0. TypeOK /\ OwnRow /\ run \in [Workers -> Runs] /\ queue \subseteq Jobs
  BY DEF BoxInv, OwnInv, Exclusive, TypeInv, TypeOK
<1>1. PICK j \in queue :
        run' = [run EXCEPT ![w] =
                  [IdleRun EXCEPT !.at = "loaded", !.job = j, !.seen = dep.status,
                                  !.seenConfig = dep.config, !.seenJob = job[j].status,
                                  !.old = FallBack(j),
                                  !.todo = Script(task[j].kind, dep.config)]]
  BY DEF Take
<1>2. /\ run'[w].at = "loaded" /\ run'[w].job = j
      /\ run'[w].todo = Script(task[j].kind, dep.config)
      /\ \A v \in Workers : v # w => run'[v] = run[v]
  BY <1>0, <1>1 DEF IdleRun
<1>3. task[j].kind # "deploy" /\ task[j].kind \in AllKinds
  BY <1>0, <1>1 DEF BoxInv, OwnInv, Exclusive, TypeInv, WellFormed, OwnRow, TypeOK, Tasks
<1>4. Fits(run'[w], task[j], box, dep.config)
  <2>1. CASE task[j].kind = "redeploy"
    <3> DEFINE s == <<"stop", "rm", "pull", "run", "exec">>
    <3>1. run'[w].todo = s
      BY <1>2, <2>1 DEF Script
    <3>2. Len(s) = 5 /\ s[5] = "exec" /\ s[4] = "run"
      OBVIOUS
    <3> HIDE DEF s
    <3>3. Ends(s) /\ Len(s) > 1
      BY <3>2 DEF Ends
    <3> QED
      BY <1>2, <2>1, <3>1, <3>3 DEF Fits
  <2>2. CASE task[j].kind # "redeploy"
    <3>1. run'[w].todo = <<task[j].kind>>
      BY <1>2, <1>3, <2>2 DEF Script
    <3> QED
      BY <1>2, <2>2, <3>1 DEF Fits
  <2> QED
    BY <2>1, <2>2
<1>5. UNCHANGED <<dep, box, task>>
  BY DEF Take
<1> QED
  BY <1>2, <1>4, <1>5, FitsOne

\* A command does to the container what its run expects of it.
LEMMA BoxCommands ==
  ASSUME FaithfulHost, BoxInv, TypeInv', NEW w \in Workers,
         CommandSucceeds(w) \/ CommandFails(w)
  PROVE  BoxFits'
<1> DEFINE t == task[run[w].job]
           todo == run[w].todo
<1>0. /\ run \in [Workers -> Runs] /\ run[w] \in Runs /\ run[w].at = "command"
      /\ Fits(run[w], t, box, dep.config)
      /\ todo \in Seq(Commands) /\ todo # <<>>
      /\ t.kind \in AllKinds \ {"deploy"}
      /\ UNCHANGED <<dep, task>>
  <2>1. TypeOK /\ WellFormed /\ OwnRow /\ run[w].at = "command" /\ BoxFits
        /\ UNCHANGED <<dep, task>>
    BY DEF BoxInv, OwnInv, Exclusive, TypeInv, CommandSucceeds, CommandFails
  <2>2. run[w].job \in Jobs /\ job[run[w].job].status # NoRow /\ todo # <<>>
    BY <2>1 DEF WellFormed
  <2> QED
    BY <2>1, <2>2 DEF TypeOK, Runs, Tasks, OwnRow, BoxFits
<1>1. Acting(w)
  BY <1>0 DEF Acting, Active
<1>2. CASE CommandFails(w)
  <2>1. run'[w].at = "fail" /\ run'[w].job = run[w].job
        /\ \A v \in Workers : v # w => run'[v] = run[v]
    BY <1>0, <1>2 DEF CommandFails, Runs
  <2>2. Fits(run'[w], t, box', dep'.config)
    BY <2>1 DEF Fits
  <2> QED
    BY <1>0, <1>1, <2>1, <2>2, FitsOne
<1>3. CASE CommandSucceeds(w)
  <2> DEFINE cmd == Head(todo)
             at == IF Len(todo) = 1 THEN AfterCommands(t.kind) ELSE run[w].at
  <2>1. /\ box' \in Applied(cmd, Built(w), box)
        /\ run' = [run EXCEPT ![w].todo = Tail(todo), ![w].at = at]
    BY <1>3 DEF CommandSucceeds, FaithfulHost, Fault
  <2>2. at = IF Len(todo) = 1 THEN AfterCommands(t.kind) ELSE "command"
    BY <1>0
  <2> HIDE DEF at
  <2>3. /\ run'[w].at = at /\ run'[w].todo = Tail(todo) /\ run'[w].job = run[w].job
        /\ \A v \in Workers : v # w => run'[v] = run[v]
    BY <1>0, <2>1 DEF Runs
  <2>4. CASE t.kind = "redeploy"
    <3>1. Ends(todo) /\ (Len(todo) = 1 => box.config = t.config)
      BY <1>0, <2>4 DEF Fits
    <3>2. /\ Len(todo) > 1 <=> Len(todo) # 1
          /\ Len(todo) = 1 => cmd = "exec"
          /\ Len(todo) = 2 => cmd = "run"
          /\ Len(todo) > 1 => Ends(Tail(todo)) /\ Len(Tail(todo)) = Len(todo) - 1
      BY <1>0, <3>1, EndsTail
    <3>3. CASE Len(todo) = 1
      <4>1. at = "probe" /\ box'.config = t.config
        <5>1. at = "probe"
          BY <2>2, <2>4, <3>3 DEF AfterCommands
        <5>2. box' = To(box, IF box.state = "idle" THEN "loading" ELSE box.state)
              /\ box \in Container
          BY <2>1, <3>2, <3>3 DEF Applied, Container
        <5> QED
          BY <3>1, <3>3, <5>1, <5>2 DEF To, Container
      <4> QED
        BY <1>0, <1>1, <2>3, <2>4, <4>1, FitsOne DEF Fits
    <3>4. CASE Len(todo) > 1
      <4>1. at = "command" /\ Ends(Tail(todo)) /\ Len(Tail(todo)) = Len(todo) - 1
        BY <2>2, <3>2, <3>4
      <4>2. Len(Tail(todo)) = 1 => box'.config = t.config
        <5> SUFFICES ASSUME Len(Tail(todo)) = 1 PROVE box'.config = t.config
          OBVIOUS
        <5>1. cmd = "run"
          BY <3>2, <3>4
        <5> QED
          BY <2>1, <2>4, <5>1 DEF Applied, Built
      <4>3. Fits(run'[w], t, box', dep'.config)
        BY <2>3, <2>4, <4>1, <4>2 DEF Fits
      <4> QED
        BY <1>0, <1>1, <2>3, <4>3, FitsOne
    <3> QED
      BY <3>2, <3>3, <3>4
  <2>5. CASE t.kind # "redeploy"
    <3>1. todo = <<t.kind>>
      BY <1>0, <2>5 DEF Fits
    <3>2. Len(todo) = 1 /\ cmd = t.kind
      BY <3>1
    <3>3. at = IF t.kind = "stop" THEN "settle" ELSE "probe"
      BY <2>2, <3>2 DEF AfterCommands
    <3>4. t.kind = "stop" => box'.state \notin Running
      BY <2>1, <3>2 DEF Applied, NoContainer, To, Running, BoxInv, OwnInv, Exclusive, TypeInv,
                        TypeOK, Container
    <3>5. Fits(run'[w], t, box', dep'.config)
      BY <2>3, <2>5, <3>3, <3>4 DEF Fits
    <3> QED
      BY <1>0, <1>1, <2>3, <3>5, FitsOne
  <2> QED
    BY <2>4, <2>5
<1> QED
  BY <1>2, <1>3

\* Only what serves passes the health check.
LEMMA BoxProbe ==
  ASSUME BoxInv, NEW w \in Workers, Probe(w)
  PROVE  BoxFits'
<1> DEFINE t == task[run[w].job]
<1>0. /\ run \in [Workers -> Runs] /\ run[w] \in Runs /\ run[w].at = "probe"
      /\ Fits(run[w], t, box, dep.config) /\ UNCHANGED <<dep, task, box>>
  BY DEF BoxInv, OwnInv, Exclusive, TypeInv, TypeOK, BoxFits, Probe
<1>1. PICK h \in HealthOutcomes(box) :
        run' = [run EXCEPT ![w].health = h,
                           ![w].at = IF h = "ERROR" THEN "fail"
                                     ELSE IF t.kind = "redeploy" THEN "apply" ELSE "settle"]
  BY DEF Probe
<1>2. h # "ERROR" => box.state = "serving"
  BY <1>1 DEF HealthOutcomes
<1>3. /\ run'[w].at = IF h = "ERROR" THEN "fail"
                      ELSE IF t.kind = "redeploy" THEN "apply" ELSE "settle"
      /\ run'[w].job = run[w].job
      /\ \A v \in Workers : v # w => run'[v] = run[v]
  BY <1>0, <1>1 DEF Runs
<1>4. Fits(run'[w], t, box, dep.config)
  BY <1>0, <1>2, <1>3 DEF Fits
<1> QED
  BY <1>0, <1>3, <1>4, FitsOne

\* The configuration of what serves becomes the row's.
LEMMA BoxApplies ==
  ASSUME BoxInv, NEW w \in Workers, ApplyConfig(w) \/ PointRevision(w)
  PROVE  BoxFits'
<1> DEFINE t == task[run[w].job]
<1>0. /\ run \in [Workers -> Runs] /\ run[w] \in Runs /\ dep \in Deployments
      /\ Fits(run[w], t, box, dep.config) /\ UNCHANGED <<task, box>>
      /\ Acting(w) /\ SeesRow(run[w], dep) /\ t.kind = "redeploy"
  BY DEF BoxInv, OwnInv, OwnRow, Exclusive, TypeInv, TypeOK, WellFormed, BoxFits, Acting, Active,
         ApplyConfig, PointRevision
<1>1. CASE ApplyConfig(w)
  <2>1. PICK new, rev :
          /\ new = t.config /\ run[w].at = "apply"
          /\ dep' = [dep EXCEPT !.config = FlushConfig(run[w].seenConfig, new, dep.config)]
          /\ run' = [run EXCEPT ![w].at = "point", ![w].seenConfig = new, ![w].rev = rev]
    BY <1>1 DEF ApplyConfig
  <2>2. dep'.config = t.config
    <3>1. run[w].seenConfig = dep.config /\ dep.config \in Configs /\ t.config \in Configs
      BY <1>0, <2>1 DEF SeesRow, Active, Deployments, BoxInv, OwnInv, Exclusive, TypeInv,
                        WellFormed
    <3> QED
      BY <1>0, <2>1, <3>1, FreshConfigIsStored DEF Deployments
  <2>3. /\ run'[w].at = "point" /\ run'[w].job = run[w].job
        /\ \A v \in Workers : v # w => run'[v] = run[v]
    BY <1>0, <2>1 DEF Runs
  <2>4. Fits(run'[w], t, box, dep'.config)
    BY <1>0, <2>1, <2>2, <2>3 DEF Fits
  <2> QED
    BY <1>0, <2>3, <2>4, FitsOne
<1>2. CASE PointRevision(w)
  <2>1. /\ run[w].at = "point" /\ dep' = [dep EXCEPT !.revision = run[w].rev]
        /\ run' = [run EXCEPT ![w].at = "settle", ![w].seen = dep.status,
                              ![w].seenConfig = dep.config]
    BY <1>2 DEF PointRevision
  <2>2. dep'.config = dep.config
    BY <1>0, <2>1 DEF Deployments
  <2>3. /\ run'[w].at = "settle" /\ run'[w].job = run[w].job
        /\ \A v \in Workers : v # w => run'[v] = run[v]
    BY <1>0, <2>1 DEF Runs
  <2>4. Fits(run'[w], t, box, dep'.config)
    BY <1>0, <2>1, <2>2, <2>3 DEF Fits
  <2> QED
    BY <1>0, <2>3, <2>4, FitsOne
<1> QED
  BY <1>1, <1>2

\* The other steps of a run leave the container alone.
LEMMA BoxOthers ==
  ASSUME FaithfulHost, BoxInv, NEW w \in Workers,
         \/ Begin(w) \/ Settle(w) \/ Finish(w) \/ Fail(w) \/ FailJob(w)
         \/ MarkTaskFailed(w) \/ Ack(w) \/ Raise(w) \/ Crash(w) \/ Late(w)
  PROVE  BoxFits'
<1> DEFINE t == task[run[w].job]
<1>0. /\ run \in [Workers -> Runs] /\ run[w] \in Runs /\ dep \in Deployments
      /\ Fits(run[w], t, box, dep.config) /\ BoxFits
  BY DEF BoxInv, OwnInv, Exclusive, TypeInv, TypeOK, BoxFits
<1>1. CASE Begin(w)
  <2>1. PICK s, at :
          /\ run' = [run EXCEPT ![w].seenJob = s, ![w].at = at]
          /\ at \in {"fail", "command"} /\ run[w].at = "loaded"
    BY <1>1 DEF Begin
  <2>2. UNCHANGED <<dep, task, box>>
    BY <1>1 DEF Begin
  <2>3. /\ run'[w].at = at /\ run'[w].job = run[w].job /\ run'[w].todo = run[w].todo
        /\ \A v \in Workers : v # w => run'[v] = run[v]
    BY <1>0, <2>1 DEF Runs
  <2>4. Fits(run'[w], t, box, dep.config)
    <3>1. t.kind = "redeploy" => ~(Len(run[w].todo) = 1)
      <4>1. t.kind = "redeploy" => Len(run[w].todo) > 1 /\ Ends(run[w].todo)
        BY <1>0, <2>1 DEF Fits
      <4>2. run[w].todo \in Seq(Commands) /\ run[w].todo # <<>>
        BY <1>0, <2>1 DEF Runs, BoxInv, OwnInv, Exclusive, TypeInv, WellFormed
      <4> QED
        BY <4>1, <4>2, EndsTail
    <3> QED
      BY <1>0, <2>1, <2>3, <3>1 DEF Fits
  <2> QED
    BY <2>2, <2>3, <2>4, FitsOne
<1>2. CASE \/ Settle(w) \/ Finish(w) \/ Fail(w) \/ FailJob(w)
           \/ MarkTaskFailed(w) \/ Ack(w) \/ Raise(w) \/ Crash(w)
  <2>1. /\ run'[w].at \notin Active /\ UNCHANGED <<task, box>>
        /\ \A v \in Workers : v # w => run'[v] = run[v]
        /\ Acting(w) \/ dep' = dep
    BY <1>0, <1>2 DEF Settle, Finish, Fail, FailJob, MarkTaskFailed, Ack, Raise, Crash, Step,
                      IdleRun, Runs, Active, Acting
  <2>2. Fits(run'[w], task[run'[w].job], box', dep'.config)
    BY <2>1, FitsIdle
  <2> QED
    BY <2>1, <2>2, FitsOne
<1>3. ~Late(w)
  BY DEF Late, Fault, FaithfulHost
<1> QED
  BY <1>1, <1>2, <1>3

LEMMA BoxStep ==
  ASSUME GuardedRuns, FaithfulHost
  PROVE  BoxInv /\ [Next]_vars => BoxInv'
<1> SUFFICES ASSUME BoxInv, [Next]_vars PROVE BoxInv'
  OBVIOUS
<1>0. OwnInv' /\ TypeInv'
  BY OwnStep DEF BoxInv, OwnInv, Exclusive
<1>1. CASE \E c \in Clients : Submit(c) \/ Accept(c) \/ Abandon(c)
  BY <1>0, <1>1, BoxRequests DEF BoxInv
<1>2. CASE \E w \in Workers : Take(w) \/ RunStep(w) \/ Raise(w) \/ Crash(w) \/ Late(w)
  BY <1>0, <1>2, BoxTake, BoxCommands, BoxProbe, BoxApplies, BoxOthers DEF RunStep, BoxInv
<1>3. CASE Lose \/ UNCHANGED vars
  BY <1>0, <1>3 DEF Lose, vars, BoxInv, BoxFits
<1>4. CASE Serve
  <2>1. /\ box.state = "loading" /\ UNCHANGED <<dep, task, run>>
        /\ box' = [box EXCEPT !.state = "serving"]
    BY <1>4 DEF Serve, To
  <2>2. box'.config = box.config
    BY <2>1 DEF BoxInv, OwnInv, Exclusive, TypeInv, TypeOK, Container, NoContainer
  <2>3. ASSUME NEW w \in Workers
        PROVE  Fits(run[w], task[run[w].job], box', dep.config)
    <3>1. Fits(run[w], task[run[w].job], box, dep.config)
      BY DEF BoxInv, BoxFits
    <3> QED
      BY <2>1, <2>2, <3>1 DEF Fits, Running
  <2> QED
    BY <1>0, <2>1, <2>3 DEF BoxInv, BoxFits
<1>5. ~Die /\ \A w \in Workers : ~Redeliver(w)
  BY DEF GuardedRuns, FaithfulHost, Die, Redeliver, Fault
<1> QED
  BY <1>1, <1>2, <1>3, <1>4, <1>5 DEF Next

-----------------------------------------------------------------------------
(* What succeeded is true                                                    *)

\* Job j has succeeded, or its run has only that left to write.
HasEnded(j) ==
  job[j].status = "succeeded" \/ \E w \in Workers : run[w].at = "finish" /\ run[w].job = j

\* What a row d that task t settled says of the container b.
Truth(b, d, t) ==
  IF d.status = "stopped" THEN b.state \notin Running
  ELSE b.state = "serving" /\ (t.kind = "redeploy" => b.config = d.config)

EndedIsTrue ==
  dep.last \in Jobs /\ HasEnded(dep.last) => Truth(box, dep, task[dep.last])

TruthInv == BoxInv /\ EndedIsTrue

\* The last job has not ended while a run acts.
LEMMA EndedIsQuiet ==
  ASSUME OwnInv, dep.last \in Jobs, HasEnded(dep.last)
  PROVE  Quiet
<1> SUFFICES ASSUME NEW w \in Workers, Acting(w) PROVE FALSE
  BY DEF Quiet
<1>1. run[w].job = dep.last /\ run[w].at \in Active /\ run[w].at # "idle"
  BY DEF OwnInv, OwnRow, SeesRow, Acting, Active
<1>2. job[dep.last].status \in {"pending", "running"}
  BY <1>1 DEF OwnInv, JobInv, JobsHaveOwner, Knows, Working, Active
<1>3. PICK v \in Workers : run[v].at = "finish" /\ run[v].job = dep.last
  BY <1>2 DEF HasEnded
<1>4. v = w
  BY <1>1, <1>3 DEF OwnInv, JobInv, JobsHaveOwner
<1> QED
  BY <1>1, <1>3, <1>4 DEF Active

\* What a worker's step w does to the jobs, to the runs about to finish and to the
\* container.
LEMMA Closes ==
  ASSUME BoxInv, NEW w \in Workers,
         Take(w) \/ RunStep(w) \/ Raise(w) \/ Crash(w)
  PROVE  /\ task' = task
         /\ \A v \in Workers : run'[v].at = "finish" =>
              /\ run'[v].job = run[v].job
              /\ run[v].at = "finish" \/ (v = w /\ Settle(w))
         /\ \A j \in Jobs : job'[j].status = job[j].status
              \/ (j = run[w].job /\ job[j].status \in Live
                   /\ \/ job'[j].status \in {"running", "failed"}
                      \/ Finish(w) /\ job'[j].status = "succeeded")
         /\ Acting(w) \/ (dep' = dep /\ box' = box)
         /\ CommandSucceeds(w) \/ CommandFails(w) \/ box' = box
<1> DEFINE j == run[w].job
<1>0. /\ run \in [Workers -> Runs] /\ run[w] \in Runs /\ job \in [Jobs -> JobRows]
      /\ run[w].at # "idle" => j \in Jobs /\ job[j] \in JobRows /\ Knows(run[w], job[j])
  BY DEF BoxInv, OwnInv, JobInv, JobsHaveOwner, TypeInv, TypeOK, WellFormed
<1>1. CASE Take(w)
  <2>1. UNCHANGED <<task, job, dep, box>>
    BY <1>1 DEF Take
  <2>2. run'[w].at = "loaded" /\ \A v \in Workers : v # w => run'[v] = run[v]
    BY <1>0, <1>1 DEF Take, IdleRun
  <2> QED
    BY <2>1, <2>2
<1>2. CASE Begin(w) \/ Settle(w) \/ Finish(w) \/ FailJob(w) \/ MarkTaskFailed(w)
  <2>1. task' = task /\ box' = box /\ (Acting(w) \/ dep' = dep)
    BY <1>2 DEF Begin, Settle, Finish, FailJob, MarkTaskFailed, Acting, Active
  <2>2. \A i \in Jobs : i # j => job'[i] = job[i]
    BY <1>0, <1>2 DEF Begin, Settle, Finish, FailJob, MarkTaskFailed
  <2>3. \/ job'[j].status = job[j].status
        \/ job[j].status \in Live /\ \/ job'[j].status \in {"running", "failed"}
                                     \/ Finish(w) /\ job'[j].status = "succeeded"
    <3>1. CASE Begin(w)
      BY <1>0, <3>1 DEF Begin, Knows, MarkRunning, Flush, Live, JobRows
    <3>2. CASE Settle(w)
      BY <1>0, <3>2 DEF Settle, SaveResult, JobRows
    <3>3. CASE Finish(w) \/ FailJob(w)
      BY <1>0, <3>3 DEF Finish, FailJob, MarkSucceeded, MarkFailed, Flush, Knows, Working,
                        Live, JobRows
    <3>4. CASE MarkTaskFailed(w)
      BY <1>0, <3>4 DEF MarkTaskFailed, Knows, Live, Finished, JobRows
    <3> QED
      BY <1>2, <3>1, <3>2, <3>3, <3>4
  <2>4. /\ \A v \in Workers : v # w => run'[v] = run[v]
        /\ run'[w].job = j /\ (run'[w].at = "finish" => Settle(w))
    <3>1. CASE Begin(w)
      <4>1. PICK s, at : run' = [run EXCEPT ![w].seenJob = s, ![w].at = at]
                         /\ at \in {"fail", "command"}
        BY <3>1 DEF Begin
      <4> QED
        BY <1>0, <4>1 DEF Runs
    <3>2. CASE Settle(w)
      <4>1. PICK s : run' = [run EXCEPT ![w].at = "finish", ![w].seenJob = s]
        BY <3>2 DEF Settle
      <4> QED
        BY <1>0, <3>2, <4>1 DEF Runs
    <3>3. CASE Finish(w) \/ FailJob(w) \/ MarkTaskFailed(w)
      BY <1>0, <3>3 DEF Finish, FailJob, MarkTaskFailed, Step, Runs
    <3> QED
      BY <1>2, <3>1, <3>2, <3>3
  <2> QED
    BY <2>1, <2>2, <2>3, <2>4
<1>3. CASE \/ CommandSucceeds(w) \/ CommandFails(w) \/ Probe(w) \/ ApplyConfig(w)
           \/ PointRevision(w) \/ Fail(w)
  <2>1. task' = task /\ job' = job /\ Acting(w)
    BY <1>3 DEF CommandSucceeds, CommandFails, Probe, ApplyConfig, PointRevision, Fail, Acting,
                Active
  <2>2. CommandSucceeds(w) \/ CommandFails(w) \/ box' = box
    BY <1>3 DEF Probe, ApplyConfig, PointRevision, Fail
  <2>3. /\ \A v \in Workers : v # w => run'[v] = run[v]
        /\ run'[w].at # "finish"
    <3>1. CASE CommandSucceeds(w)
      <4>1. PICK todo, at : run' = [run EXCEPT ![w].todo = todo, ![w].at = at]
                            /\ at \in {"command", "settle", "probe"}
        BY <3>1 DEF CommandSucceeds, AfterCommands
      <4> QED
        BY <1>0, <4>1 DEF Runs
    <3>2. CASE Probe(w)
      <4>1. PICK h, at : run' = [run EXCEPT ![w].health = h, ![w].at = at]
                         /\ at \in {"fail", "apply", "settle"}
        BY <3>2 DEF Probe
      <4> QED
        BY <1>0, <4>1 DEF Runs
    <3>3. CASE ApplyConfig(w)
      <4>1. PICK c, rev :
              run' = [run EXCEPT ![w].at = "point", ![w].seenConfig = c, ![w].rev = rev]
        BY <3>3 DEF ApplyConfig
      <4> QED
        BY <1>0, <4>1 DEF Runs
    <3>4. CASE PointRevision(w)
      <4>1. PICK s, c :
              run' = [run EXCEPT ![w].at = "settle", ![w].seen = s, ![w].seenConfig = c]
        BY <3>4 DEF PointRevision
      <4> QED
        BY <1>0, <4>1 DEF Runs
    <3>5. CASE CommandFails(w) \/ Fail(w)
      BY <1>0, <3>5 DEF CommandFails, Fail, Step, Runs
    <3> QED
      BY <1>3, <3>1, <3>2, <3>3, <3>4, <3>5
  <2>4. \A v \in Workers : run'[v].at = "finish" => v # w
    BY <2>3
  <2> QED
    BY <2>1, <2>2, <2>3, <2>4, Zenon
<1>4. CASE Ack(w) \/ Raise(w) \/ Crash(w)
  <2>1. UNCHANGED <<task, job, dep, box>>
    BY <1>4 DEF Ack, Raise, Crash
  <2>2. /\ \A v \in Workers : v # w => run'[v] = run[v]
        /\ run'[w].at # "finish"
    BY <1>0, <1>4 DEF Ack, Raise, Crash, Step, IdleRun, Runs
  <2> QED
    BY <2>1, <2>2
<1> QED
  BY <1>1, <1>2, <1>3, <1>4 DEF RunStep

\* A run settles the row on what its commands and its health check have left.
LEMMA SettlesTruly ==
  ASSUME BoxInv, NEW w \in Workers, Settle(w)
  PROVE  /\ box' = box /\ dep'.config = dep.config /\ dep'.last = dep.last
         /\ run[w].job = dep.last /\ task' = task
         /\ Truth(box', dep', task[dep.last])
         /\ dep'.status # "stopped" => box.state = "serving"
<1> DEFINE t == task[run[w].job]
<1>0. /\ run[w].at = "settle" /\ SeesRow(run[w], dep) /\ dep \in Deployments
      /\ Fits(run[w], t, box, dep.config) /\ UNCHANGED <<box, task>>
      /\ dep' = [dep EXCEPT !.status = Flush(run[w].seen, Outcome(w), dep.status)]
  BY DEF Settle, BoxInv, BoxFits, OwnInv, OwnRow, Exclusive, TypeInv, TypeOK
<1>1. run[w].seen = dep.status /\ run[w].job = dep.last
  BY <1>0 DEF SeesRow, Active
<1>2. dep'.status = Outcome(w) /\ dep'.config = dep.config /\ dep'.last = dep.last
  BY <1>0, <1>1 DEF Flush, Deployments
<1>3. dep'.status = "stopped" <=> t.kind = "stop"
  BY <1>2 DEF Outcome
<1>4. Truth(box', dep', t) /\ (dep'.status # "stopped" => box.state = "serving")
  BY <1>0, <1>2, <1>3 DEF Fits, Truth
<1> QED
  BY <1>0, <1>1, <1>2, <1>4

LEMMA TruthInit == Init => TruthInv
<1> SUFFICES ASSUME Init PROVE TruthInv
  OBVIOUS
<1>1. dep.last \notin Jobs
  BY Parameters DEF Init, Parameters
<1> QED
  BY <1>1, BoxInit DEF TruthInv, EndedIsTrue

LEMMA TruthRequests ==
  ASSUME TruthInv, NEW c \in Clients, Submit(c) \/ Accept(c) \/ Abandon(c)
  PROVE  EndedIsTrue'
<1>0. /\ TypeOK /\ WellFormed /\ JobsHaveOwner /\ OwnRow /\ EndedIsTrue
      /\ run' = run /\ box' = box
  BY DEF TruthInv, BoxInv, OwnInv, JobInv, Exclusive, TypeInv, Submit, Accept, Abandon
<1>1. CASE Submit(c)
  <2>1. PICK j \in Jobs :
          /\ job[j].status = NoRow
          /\ \A i \in Jobs : i # j => task'[i] = task[i] /\ job'[i] = job[i]
    BY <1>0, <1>1 DEF Submit, TypeOK
  <2>2. dep' = dep /\ (dep.last \in Jobs => dep.last # j)
    BY <1>0, <1>1, <2>1 DEF Submit, OwnRow
  <2> QED
    BY <1>0, <2>1, <2>2 DEF EndedIsTrue, HasEnded
<1>2. CASE Accept(c)
  <2>1. PICK j \in Jobs :
          /\ j = request[c].job /\ dep'.last = j /\ job[j].status = "pending"
          /\ \A w \in Workers : run[w].at # "idle" => run[w].job # j
    BY <1>0, <1>2 DEF Accept, TypeOK, WellFormed, JobsHaveOwner, Deployments
  <2>2. job'[j].status = "pending"
    BY <1>0, <1>2, <2>1 DEF Accept, TypeOK, JobRows
  <2>3. ~HasEnded(j)'
    BY <1>0, <2>1, <2>2 DEF HasEnded
  <2> QED
    BY <2>1, <2>3 DEF EndedIsTrue, HasEnded
<1>3. CASE Abandon(c)
  BY <1>0, <1>3 DEF Abandon, EndedIsTrue, HasEnded
<1> QED
  BY <1>1, <1>2, <1>3

LEMMA TruthRuns ==
  ASSUME TruthInv, NEW w \in Workers, Take(w) \/ RunStep(w) \/ Raise(w) \/ Crash(w)
  PROVE  EndedIsTrue'
<1>1. CASE Settle(w)
  BY <1>1, SettlesTruly DEF TruthInv, EndedIsTrue
<1>2. CASE ~Settle(w)
  <2> SUFFICES ASSUME NEW last \in Jobs, last = dep'.last, HasEnded(last)'
               PROVE  Truth(box', dep', task'[last])
    BY DEF EndedIsTrue, HasEnded
  <2>0. last = dep.last
    BY DEF Take, RunStep, Begin, CommandSucceeds, CommandFails, Probe, ApplyConfig,
           PointRevision, Settle, Finish, Fail, FailJob, MarkTaskFailed, Ack, Raise, Crash,
           TruthInv, BoxInv, OwnInv, Exclusive, TypeInv, TypeOK, Deployments
  <2>1. HasEnded(last)
    <3>1. CASE \E v \in Workers : run'[v].at = "finish" /\ run'[v].job = last
      BY <1>2, <3>1, Closes DEF TruthInv, HasEnded
    <3>2. CASE job'[last].status = "succeeded"
      <4>1. CASE Finish(w) /\ last = run[w].job
        BY <4>1 DEF Finish, HasEnded
      <4>2. CASE ~(Finish(w) /\ last = run[w].job)
        BY <3>2, <4>2, Closes DEF TruthInv, HasEnded
      <4> QED
        BY <4>1, <4>2
    <3> QED
      BY <2>0, <3>1, <3>2 DEF HasEnded
  <2>2. ~Acting(w)
    BY <2>0, <2>1, EndedIsQuiet DEF TruthInv, BoxInv, Quiet
  <2>3. dep' = dep /\ box' = box /\ task' = task
    BY <2>2, Closes DEF TruthInv
  <2> QED
    BY <2>0, <2>1, <2>3 DEF TruthInv, EndedIsTrue
<1> QED
  BY <1>1, <1>2

LEMMA TruthStep ==
  ASSUME GuardedRuns, FaithfulHost
  PROVE  TruthInv /\ [Next]_vars => TruthInv'
<1> SUFFICES ASSUME TruthInv, [Next]_vars PROVE EndedIsTrue'
  BY BoxStep DEF TruthInv
<1>1. CASE \E c \in Clients : Submit(c) \/ Accept(c) \/ Abandon(c)
  BY <1>1, TruthRequests
<1>2. CASE \E w \in Workers : Take(w) \/ RunStep(w) \/ Raise(w) \/ Crash(w)
  BY <1>2, TruthRuns
<1>3. CASE Lose \/ UNCHANGED vars
  BY <1>3 DEF Lose, vars, TruthInv, EndedIsTrue, HasEnded
<1>4. CASE Serve
  <2>1. UNCHANGED <<dep, job, task, run>> /\ box.state = "loading"
    BY <1>4 DEF Serve
  <2>2. ~Truth(box, dep, task[dep.last])
    BY <2>1 DEF Truth, Running
  <2>3. dep.last \in Jobs => ~HasEnded(dep.last)
    BY <2>2 DEF TruthInv, EndedIsTrue
  <2> QED
    BY <2>1, <2>3 DEF EndedIsTrue, HasEnded
<1>5. ~Die /\ \A w \in Workers : ~Redeliver(w) /\ ~Late(w)
  BY DEF GuardedRuns, FaithfulHost, Die, Late, Redeliver, Fault
<1> QED
  BY <1>1, <1>2, <1>3, <1>4, <1>5 DEF Next

\* On a faithful host the outcome of a guarded operation that succeeded is what the
\* container is, whichever processes die, tasks are lost and exceptions escape.
THEOREM SuccessTellsTruth ==
  ASSUME GuardedRuns, FaithfulHost
  PROVE  Spec => []SuccessIsTrue
<1>1. TruthInv => SuccessIsTrue
  <2> SUFFICES ASSUME TruthInv, dep.last # NoJob, job[dep.last].status = "succeeded"
               PROVE  Truth(box, dep, task[dep.last])
    BY DEF SuccessIsTrue, Truth
  <2>1. dep.last \in Jobs
    BY DEF TruthInv, BoxInv, OwnInv, Exclusive, TypeInv, TypeOK, Deployments
  <2> QED
    BY <2>1 DEF TruthInv, EndedIsTrue, HasEnded
<1>2. TruthInv /\ [Next]_vars => TruthInv'
  BY TruthStep
<1> QED
  BY <1>1, <1>2, TruthInit, PTL DEF Spec

-----------------------------------------------------------------------------
(* Until a redeployment fails, what is shown as up serves the row's settings *)

\* Job j is no redeployment that was begun, or it has ended well.
Good(j) ==
  task[j].kind = "redeploy" /\ job[j].status \in {"running", "failed"} =>
    /\ job[j].status = "running"
    /\ \E w \in Workers : run[w].at = "finish" /\ run[w].job = j

AllGood == \A j \in Jobs : Good(j)

Up == {"running", "degraded"}

\* The container b has the configuration of row d, and serves if d says so.
Shows(b, d) ==
  /\ b = NoContainer \/ b.config = d.config
  /\ d.status \in Up => b.state = "serving"

ShownInv == TruthInv /\ (AllGood => Shows(box, dep))

LEMMA ShownInit == Init => ShownInv
<1> SUFFICES ASSUME Init PROVE Shows(box, dep)
  BY TruthInit DEF ShownInv
<1>1. PICK c \in Configs, new \in BOOLEAN :
        /\ dep = [status |-> IF new THEN "draft" ELSE "running", last |-> NoJob,
                  config |-> c, revision |-> 1]
        /\ box = IF new THEN NoContainer ELSE [state |-> "serving", config |-> c]
  BY DEF Init
<1> QED
  BY <1>1 DEF Shows, Up

\* A redeployment at work is not yet good.
LEMMA BegunIsNotGood ==
  ASSUME JobInv', TypeInv', NEW w \in Workers, run'[w].at \in Working \ {"finish"},
         task'[run'[w].job].kind = "redeploy"
  PROVE  ~AllGood'
<1>1. PICK j \in Jobs : j = run'[w].job
  BY DEF TypeInv, WellFormed, Working
<1>2. job'[j].status = "running" /\ run'[w].at # "idle"
  BY <1>1 DEF JobInv, JobsHaveOwner, Knows, Working
<1>3. ASSUME NEW v \in Workers, run'[v].at = "finish", run'[v].job = j PROVE FALSE
  <2>1. v = w
    BY <1>1, <1>2, <1>3 DEF JobInv, JobsHaveOwner
  <2> QED
    BY <1>3, <2>1
<1>4. ~Good(j)'
  BY <1>1, <1>2, <1>3 DEF Good
<1> QED
  BY <1>4 DEF AllGood

\* A step by which no redeployment ends well but one that was about to makes nothing good.
LEMMA GoodBefore ==
  ASSUME \A j \in Jobs : job[j].status # NoRow => task'[j] = task[j],
         \A v \in Workers : run'[v].at = "finish" /\ task'[run'[v].job].kind = "redeploy"
           => run[v].at = "finish" /\ run'[v].job = run[v].job,
         \A j \in Jobs :
           \/ job'[j].status = job[j].status
           \/ job[j].status \notin {"running", "failed"}
           \/ job'[j].status = "failed"
           \/ \E v \in Workers : /\ run[v].at = "finish" /\ run[v].job = j
                                 /\ job[j].status = "running"
  PROVE  AllGood' => AllGood
<1> SUFFICES ASSUME AllGood', NEW j \in Jobs,
                    task[j].kind = "redeploy", job[j].status \in {"running", "failed"}
             PROVE  /\ job[j].status = "running"
                    /\ \E w \in Workers : run[w].at = "finish" /\ run[w].job = j
  BY DEF AllGood, Good
<1>1. task'[j].kind = "redeploy"
  BY DEF NoRow
<1>2. Good(j)'
  BY DEF AllGood
<1>3. CASE job'[j].status = job[j].status
  BY <1>1, <1>2, <1>3 DEF Good
<1>4. CASE job'[j].status = "failed"
  BY <1>1, <1>2, <1>4 DEF Good
<1> QED
  BY <1>3, <1>4

LEMMA ShownRequests ==
  ASSUME GuardedRuns, ShownInv, NEW c \in Clients, Submit(c) \/ Accept(c) \/ Abandon(c)
  PROVE  AllGood' => Shows(box', dep')
<1>0. /\ TypeOK /\ WellFormed /\ OwnRow /\ RequestedAlone /\ run' = run /\ box' = box
  BY DEF ShownInv, TruthInv, BoxInv, OwnInv, Exclusive, TypeInv, Submit, Accept, Abandon
<1>1. CASE Submit(c)
  <2>1. PICK j \in Jobs :
          /\ job[j].status = NoRow
          /\ \A i \in Jobs : i # j => task'[i] = task[i] /\ job'[i] = job[i]
    BY <1>0, <1>1 DEF Submit, TypeOK
  <2>2. dep' = dep
    BY <1>1 DEF Submit
  <2>3. AllGood' => AllGood
    BY <1>0, <2>1, GoodBefore DEF NoRow
  <2> QED
    BY <1>0, <2>2, <2>3 DEF ShownInv
<1>2. CASE Accept(c)
  <2>1. task' = task /\ \A j \in Jobs : job'[j].status = job[j].status
    BY <1>0, <1>2 DEF Accept, TypeOK, JobRows
  <2>2. AllGood' => AllGood
    BY <1>0, <2>1, GoodBefore
  <2>3. dep'.status \in Busy /\ dep'.config = dep.config
    <3>1. PICK k \in AllKinds :
            dep' = [dep EXCEPT !.last = request[c].job,
                               !.status = Flush(request[c].seen, Transition[k], dep.status)]
      BY <1>0, <1>2 DEF Accept, WellFormed, TypeOK, Tasks
    <3>2. request[c].seen \notin Busy /\ Transition[k] \in Busy
      BY <1>0, <1>2, <3>1 DEF Accept, RequestedAlone, Transition, Busy, AllKinds
    <3> QED
      BY <1>0, <3>1, <3>2 DEF Flush, TypeOK, Deployments
  <2>4. Up \cap Busy = {}
    BY DEF Up, Busy
  <2> QED
    BY <1>0, <2>2, <2>3, <2>4 DEF ShownInv, Shows
<1>3. CASE Abandon(c)
  <2>1. UNCHANGED <<dep, job, task>>
    BY <1>3 DEF Abandon
  <2> QED
    BY <1>0, <2>1 DEF ShownInv, AllGood, Good
<1> QED
  BY <1>1, <1>2, <1>3

\* A run of another operation keeps the configuration of the container, if there is one.
LEMMA OperationsKeepConfig ==
  ASSUME BoxInv, NEW w \in Workers, CommandSucceeds(w) \/ CommandFails(w),
         task[run[w].job].kind # "redeploy", Shows(box, dep)
  PROVE  Shows(box', dep')
<1> DEFINE kind == task[run[w].job].kind
<1>0. /\ run[w].at = "command" /\ dep' = dep /\ box \in Container \cup {NoContainer}
      /\ Fits(run[w], task[run[w].job], box, dep.config) /\ dep.status \in Busy
      /\ kind \in {"restart", "stop", "start"}
  <2>1. TypeOK /\ WellFormed /\ OwnRow /\ ActingAlone /\ BoxFits
    BY DEF BoxInv, OwnInv, Exclusive, TypeInv
  <2>2. run[w].at = "command" /\ dep' = dep
    BY DEF CommandSucceeds, CommandFails
  <2>3. dep.status \in Busy
    BY <2>1, <2>2 DEF ActingAlone, Acting, Active
  <2>4. run[w].job \in Jobs /\ kind # "deploy"
    BY <2>1, <2>2 DEF WellFormed, OwnRow
  <2> QED
    BY <2>1, <2>2, <2>3, <2>4 DEF TypeOK, Tasks, AllKinds, BoxFits
<1>1. Head(run[w].todo) = kind
  <2>1. run[w].todo = <<kind>>
    BY <1>0 DEF Fits
  <2> QED
    BY <2>1
<1>2. box' = box \/ box' \in Applied(kind, Built(w), box)
  BY <1>0, <1>1 DEF CommandSucceeds, CommandFails, Interrupted
<1>3. box' = NoContainer \/ box'.config = dep.config
  BY <1>0, <1>2 DEF Applied, To, Shows, Container, NoContainer
<1>4. dep.status \notin Up
  BY <1>0 DEF Up, Busy
<1> QED
  BY <1>0, <1>3, <1>4 DEF Shows

LEMMA ShownRuns ==
  ASSUME ShownInv, OwnInv', NEW w \in Workers,
         Take(w) \/ RunStep(w) \/ Raise(w) \/ Crash(w)
  PROVE  AllGood' => Shows(box', dep')
<1> DEFINE t == task[run[w].job]
<1>0. /\ BoxInv /\ TruthInv /\ TypeOK /\ WellFormed /\ OwnRow /\ JobInv' /\ TypeInv'
      /\ dep \in Deployments /\ run \in [Workers -> Runs] /\ run[w] \in Runs
      /\ run[w].at \in Working => job[run[w].job].status = "running" /\ run[w].job \in Jobs
      /\ AllGood => Shows(box, dep)
  BY DEF ShownInv, TruthInv, BoxInv, OwnInv, JobInv, JobsHaveOwner, Knows, Working, Exclusive,
         TypeInv, TypeOK, WellFormed
<1>1. ASSUME ~Settle(w) PROVE AllGood' => AllGood
  <2>1. \A j \in Jobs : job[j].status # NoRow => task'[j] = task[j]
    BY <1>0, Closes
  <2>2. \A v \in Workers : run'[v].at = "finish" /\ task'[run'[v].job].kind = "redeploy"
          => run[v].at = "finish" /\ run'[v].job = run[v].job
    BY <1>0, <1>1, Closes
  <2>3. ASSUME NEW j \in Jobs
        PROVE  \/ job'[j].status = job[j].status
               \/ job[j].status \notin {"running", "failed"}
               \/ job'[j].status = "failed"
               \/ \E v \in Workers : /\ run[v].at = "finish" /\ run[v].job = j
                                     /\ job[j].status = "running"
    <3>1. CASE Finish(w) /\ j = run[w].job
      BY <1>0, <3>1 DEF Finish, Working
    <3>2. CASE ~(Finish(w) /\ j = run[w].job)
      BY <1>0, <3>2, Closes DEF Live
    <3> QED
      BY <3>1, <3>2
  <2> QED
    BY <2>1, <2>2, <2>3, GoodBefore
<1>2. CASE Settle(w)
  <2>1. /\ box' = box /\ dep'.config = dep.config /\ task' = task /\ run[w].job = dep.last
        /\ Truth(box', dep', t) /\ (dep'.status # "stopped" => box.state = "serving")
    BY <1>0, <1>2, SettlesTruly
  <2>2. dep'.status \in Up => box'.state = "serving"
    BY <2>1 DEF Up
  <2>3. CASE t.kind = "redeploy"
    <3>1. box.config = dep.config
      BY <1>0, <1>2, <2>3 DEF Settle, BoxInv, BoxFits, Fits
    <3> QED
      BY <2>1, <2>2, <3>1 DEF Shows
  <2>4. CASE t.kind # "redeploy"
    <3>1. \A v \in Workers : run'[v].at = "finish" /\ task'[run'[v].job].kind = "redeploy"
            => run[v].at = "finish" /\ run'[v].job = run[v].job
      BY <1>0, <1>2, <2>1, <2>4, Closes
    <3>2. \A j \in Jobs : job'[j].status = job[j].status
      BY <1>0, <1>2 DEF Settle, SaveResult, TypeOK, JobRows
    <3>3. AllGood' => AllGood
      BY <2>1, <3>1, <3>2, GoodBefore
    <3> QED
      BY <1>0, <2>1, <2>2, <3>3 DEF Shows
  <2> QED
    BY <2>3, <2>4
<1>3. CASE CommandSucceeds(w) \/ CommandFails(w)
  <2>1. CASE t.kind = "redeploy"
    <3>1. run'[w].at \in Working \ {"finish"} /\ run'[w].job = run[w].job /\ task' = task
      <4>1. CASE CommandSucceeds(w)
        <5>1. PICK todo, at : run' = [run EXCEPT ![w].todo = todo, ![w].at = at]
                              /\ at \in {"command", "settle", "probe"}
          BY <4>1 DEF CommandSucceeds, AfterCommands
        <5> QED
          BY <1>0, <4>1, <5>1 DEF Runs, CommandSucceeds, Working
      <4>2. CASE CommandFails(w)
        BY <1>0, <4>2 DEF CommandFails, Runs, Working
      <4> QED
        BY <1>3, <4>1, <4>2
    <3> QED
      BY <1>0, <2>1, <3>1, BegunIsNotGood
  <2>2. CASE t.kind # "redeploy"
    <3>1. ~Settle(w)
      BY <1>3 DEF CommandSucceeds, CommandFails, Settle
    <3> QED
      BY <1>0, <1>1, <1>3, <2>2, <3>1, OperationsKeepConfig
  <2> QED
    BY <2>1, <2>2
<1>4. CASE ApplyConfig(w) \/ PointRevision(w)
  <2>1. t.kind = "redeploy" /\ task' = task
    BY <1>0, <1>4 DEF ApplyConfig, PointRevision, WellFormed
  <2>2. run'[w].at \in Working \ {"finish"} /\ run'[w].job = run[w].job
    <3>1. CASE ApplyConfig(w)
      <4>1. PICK c, rev :
              run' = [run EXCEPT ![w].at = "point", ![w].seenConfig = c, ![w].rev = rev]
        BY <3>1 DEF ApplyConfig
      <4> QED
        BY <1>0, <4>1 DEF Runs, Working
    <3>2. CASE PointRevision(w)
      <4>1. PICK s, c :
              run' = [run EXCEPT ![w].at = "settle", ![w].seen = s, ![w].seenConfig = c]
        BY <3>2 DEF PointRevision
      <4> QED
        BY <1>0, <4>1 DEF Runs, Working
    <3> QED
      BY <1>4, <3>1, <3>2
  <2> QED
    BY <1>0, <2>1, <2>2, BegunIsNotGood
<1>5. CASE Fail(w)
  <2>1. /\ run[w].at = "fail" /\ task' = task /\ box' = box
        /\ dep' = [dep EXCEPT !.status = Flush(run[w].seen, run[w].old, dep.status)]
        /\ run'[w].at \in Working \ {"finish"} /\ run'[w].job = run[w].job
    BY <1>0, <1>5 DEF Fail, Step, Runs, Working
  <2>2. CASE t.kind = "redeploy"
    BY <1>0, <2>1, <2>2, BegunIsNotGood
  <2>3. CASE t.kind # "redeploy"
    <3>1. run[w].old = "failed" /\ run[w].seen = dep.status
      BY <1>0, <2>1, <2>3 DEF OwnRow, SeesRow, Active
    <3>2. dep'.status = "failed" /\ dep'.config = dep.config
      BY <1>0, <2>1, <3>1 DEF Flush, Deployments
    <3>3. AllGood' => AllGood
      BY <1>1, <2>1 DEF Settle
    <3> QED
      BY <1>0, <2>1, <3>2, <3>3 DEF Shows, Up
  <2> QED
    BY <2>2, <2>3
<1>6. CASE \/ Take(w) \/ Begin(w) \/ Probe(w) \/ Finish(w) \/ FailJob(w)
           \/ MarkTaskFailed(w) \/ Ack(w) \/ Raise(w) \/ Crash(w)
  <2>1. UNCHANGED <<dep, box>>
    BY <1>6 DEF Take, Begin, Probe, Finish, FailJob, MarkTaskFailed, Ack, Raise, Crash
  <2>2. CASE Settle(w)
    BY <1>2, <2>2
  <2>3. CASE ~Settle(w)
    BY <1>0, <1>1, <2>1, <2>3
  <2> QED
    BY <2>2, <2>3
<1> QED
  BY <1>2, <1>3, <1>4, <1>5, <1>6 DEF RunStep

\* On a faithful host a deployment is shown as up only when a container serves with the
\* configuration of its row, unless a redeployment has failed: that one shows the status
\* from before it, whatever it has done to the container.
THEOREM UpUntilRedeployFails ==
  ASSUME GuardedRuns, FaithfulHost
  PROVE  Spec => []UpIsServingUnlessRedeployFailed
<1>1. ShownInv /\ [Next]_vars => ShownInv'
  <2> SUFFICES ASSUME ShownInv, [Next]_vars PROVE AllGood' => Shows(box', dep')
    BY TruthStep DEF ShownInv
  <2>0. OwnInv'
    BY OwnStep DEF ShownInv, TruthInv, BoxInv
  <2>1. CASE \E c \in Clients : Submit(c) \/ Accept(c) \/ Abandon(c)
    BY <2>1, ShownRequests
  <2>2. CASE \E w \in Workers : Take(w) \/ RunStep(w) \/ Raise(w) \/ Crash(w)
    BY <2>0, <2>2, ShownRuns
  <2>3. CASE Lose \/ UNCHANGED vars
    BY <2>3 DEF Lose, vars, ShownInv, AllGood, Good
  <2>4. CASE Serve
    <3>1. UNCHANGED <<dep, job, task, run>> /\ box.state = "loading" /\ box' = To(box, "serving")
      BY <2>4 DEF Serve
    <3>2. AllGood' => AllGood
      BY <3>1 DEF AllGood, Good
    <3>3. box'.state = "serving" /\ box'.config = box.config /\ box # NoContainer
      BY <3>1 DEF To, NoContainer, ShownInv, TruthInv, BoxInv, OwnInv, Exclusive, TypeInv,
                  TypeOK, Container
    <3> QED
      BY <3>1, <3>2, <3>3 DEF ShownInv, Shows
  <2>5. ~Die /\ \A w \in Workers : ~Redeliver(w) /\ ~Late(w)
    BY DEF GuardedRuns, FaithfulHost, Die, Late, Redeliver, Fault
  <2> QED
    BY <2>1, <2>2, <2>3, <2>4, <2>5 DEF Next
<1>2. ShownInv => UpIsServingUnlessRedeployFailed
  <2> SUFFICES ASSUME ShownInv, dep.status \in Up,
                      \A j \in Jobs : task[j].kind = "redeploy"
                                        => job[j].status \notin {"running", "failed"}
               PROVE  box = [state |-> "serving", config |-> dep.config]
    BY DEF UpIsServingUnlessRedeployFailed, UpIsServing, Up
  <2>1. AllGood
    BY DEF AllGood, Good
  <2>2. box.state = "serving" /\ (box = NoContainer \/ box.config = dep.config)
    BY <2>1 DEF ShownInv, Shows
  <2>3. box \in Container
    BY <2>2 DEF ShownInv, TruthInv, BoxInv, OwnInv, Exclusive, TypeInv, TypeOK, NoContainer
  <2> QED
    BY <2>2, <2>3 DEF Container, NoContainer
<1> QED
  BY <1>1, <1>2, ShownInit, PTL DEF Spec
================================================================================
