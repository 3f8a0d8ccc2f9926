-------------------------- MODULE DeploymentOps_proofs --------------------------
(***************************************************************************)
(* Theorems of DeploymentOps, for any number of jobs, clients, workers,    *)
(* configurations and faults.                                              *)
(***************************************************************************)
EXTENDS DeploymentOps, SequenceTheorems, TLAPS

-----------------------------------------------------------------------------
(* Type correctness                                                          *)

\* Messages, requests and sessions refer to rows that exist, a redeployment has a
\* configuration, and only redeployments store one.
WellFormed ==
  /\ \A j \in Jobs : task[j].kind = "redeploy" => task[j].config \in Configs
  /\ \A j \in queue : job[j].status # NoRow
  /\ \A c \in Clients :
       request[c].at = "created" =>
         request[c].job \in Jobs /\ job[request[c].job].status # NoRow
  /\ \A w \in Workers :
       run[w].at # "idle" =>
         /\ run[w].job \in Jobs /\ job[run[w].job].status # NoRow
         /\ run[w].seenConfig \in Configs
  /\ \A w \in Workers : run[w].at \in {"loaded", "command"} => run[w].todo # <<>>
  /\ \A w \in Workers :
       run[w].at \in {"apply", "point"} => task[run[w].job].kind = "redeploy"

TypeInv == TypeOK /\ WellFormed

\* A conditional write leaves a column within its domain.
LEMMA FlushTyped ==
  ASSUME NEW S, NEW seen, NEW new \in S, NEW stored \in S
  PROVE  Flush(seen, new, stored) \in S
BY DEF Flush

\* So does a commit of all columns, for they are independent of each other.
LEMMA FlushConfigTyped ==
  ASSUME NEW seen \in Configs, NEW new \in Configs, NEW stored \in Configs
  PROVE  FlushConfig(seen, new, stored) \in Configs
BY Parameters

\* A session that has loaded what is stored stores all of the new configuration.
LEMMA FreshConfigIsStored ==
  ASSUME NEW new \in Configs, NEW stored \in Configs
  PROVE  FlushConfig(stored, new, stored) = new
<1>1. FlushConfig(stored, new, stored) = [k \in Columns |-> new[k]]
  BY DEF FlushConfig, Flush
<1> QED
  BY <1>1, Parameters

\* Every run has commands to send.
LEMMA ScriptTyped ==
  ASSUME NEW kind \in AllKinds, NEW c
  PROVE  Script(kind, c) \in Seq(Commands) /\ Script(kind, c) # <<>>
<1>1. CASE kind = "deploy"
  <2> DEFINE remove == IF c \in RemoveExisting THEN <<"rm">> ELSE <<>>
             start == <<"port_check", "pull">>
             finish == <<"run", "exec", "inspect">>
  <2>1. /\ start \in Seq(Commands)
        /\ remove \in Seq(Commands)
        /\ finish \in Seq(Commands)
    <3>1. start \in Seq(Commands)
      BY DEF Commands
    <3>2. <<"rm">> \in Seq(Commands) /\ <<>> \in Seq(Commands)
      BY EmptySeq DEF Commands
    <3>3. finish \in Seq(Commands)
      BY DEF Commands
    <3> QED
      BY <3>1, <3>2, <3>3, Zenon
  <2>2. Script(kind, c) = start \o remove \o finish
    BY <1>1 DEF Script
  <2>3. Len(start) = 2
    OBVIOUS
  <2> QED
    BY <2>1, <2>2, <2>3
<1>2. CASE kind = "redeploy"
  <2> DEFINE s == <<"stop", "rm", "pull", "run", "exec">>
  <2>1. Script(kind, c) = s
    BY <1>2 DEF Script
  <2>2. s \in Seq(Commands)
    BY DEF Commands
  <2>3. Len(s) = 5 /\ Len(<<>>) = 0
    OBVIOUS
  <2> HIDE DEF s
  <2> QED
    BY <2>1, <2>2, <2>3
<1>3. CASE kind \in {"restart", "stop", "start"}
  <2>1. Script(kind, c) = <<kind>> /\ kind \in Commands
    BY <1>3 DEF Script, Commands
  <2>2. <<kind>> \in Seq(Commands)
    BY <2>1
  <2>3. Len(<<kind>>) = 1 /\ Len(<<>>) = 0
    OBVIOUS
  <2> QED
    BY <2>1, <2>2, <2>3
<1> QED
  BY <1>1, <1>2, <1>3 DEF AllKinds

\* The commands of a run consist of the next one and the others.
LEMMA TodoTyped ==
  ASSUME NEW s \in Seq(Commands), s # <<>>
  PROVE  /\ Head(s) \in Commands /\ Tail(s) \in Seq(Commands)
         /\ Len(s) # 1 => Tail(s) # <<>>
<1>1. Len(s) \in Nat \ {0}
  BY EmptySeq
<1>2. Head(s) \in Commands /\ Tail(s) \in Seq(Commands) /\ Len(Tail(s)) = Len(s) - 1
  BY HeadTailProperties
<1>3. Len(<<>>) = 0
  BY EmptySeq
<1>4. Len(s) # 1 => Len(Tail(s)) # 0
  BY <1>1, <1>2
<1> QED
  BY <1>2, <1>3, <1>4

\* Commands, carried out or interrupted, leave a container or none.
LEMMA AppliedTyped ==
  ASSUME NEW cmd \in Commands, NEW c \in Configs, NEW b \in Container \cup {NoContainer}
  PROVE  Applied(cmd, c, b) \subseteq Container \cup {NoContainer}
BY DEF Applied, Commands, Container, NoContainer, Running, To

LEMMA InterruptedTyped ==
  ASSUME NEW cmd \in Commands, NEW c \in Configs, NEW b \in Container \cup {NoContainer}
  PROVE  Interrupted(cmd, c, b) \subseteq Container \cup {NoContainer}
BY AppliedTyped DEF Interrupted, Container

\* A configuration always exists to build a run's commands from.
LEMMA BuiltTyped ==
  ASSUME TypeInv, NEW w \in Workers, run[w].at # "idle"
  PROVE  Built(w) \in Configs
BY DEF TypeInv, TypeOK, WellFormed, Built

\* The status a run restores or sets is a status of deployments.
LEMMA FallBackTyped ==
  ASSUME TypeInv, NEW j \in Jobs
  PROVE  FallBack(j) \in DepStatus
BY DEF TypeInv, TypeOK, FallBack, JobRows, Deployments, DepStatus, Settled

LEMMA OutcomeTyped ==
  ASSUME NEW w
  PROVE  Outcome(w) \in Settled
BY DEF Outcome, Settled

LEMMA TypeInit == Init => TypeInv
<1> SUFFICES ASSUME Init PROVE TypeInv
  OBVIOUS
<1> USE Parameters
<1>1. TypeOK
  <2>1. IdleRun \in Runs
    BY EmptySeq DEF IdleRun, Runs, Stages, DepStatus, Settled, JobStatus
  <2>2. PICK c \in Configs, new \in BOOLEAN :
          /\ dep = [status |-> IF new THEN "draft" ELSE "running", last |-> NoJob,
                    config |-> c, revision |-> 1]
          /\ box = IF new THEN NoContainer ELSE [state |-> "serving", config |-> c]
          /\ revs = <<c>>
    BY DEF Init
  <2>3. dep \in Deployments
    BY <2>2 DEF Deployments, DepStatus, Settled
  <2>4. box \in Container \cup {NoContainer}
    BY <2>2 DEF Container, Running
  <2>5. revs \in Seq(Configs)
    BY <2>2
  <2>6. job \in [Jobs -> JobRows] /\ task \in [Jobs -> Tasks] /\ queue \subseteq Jobs
    BY DEF Init, JobRows, Tasks, NoTask, AllKinds
  <2>7. request \in [Clients -> Requests]
    BY DEF Init, Requests, IdleRequest, DepStatus
  <2>8. run \in [Workers -> Runs] /\ faults \in 0..MaxFaults
    BY <2>1 DEF Init, Parameters
  <2> QED
    BY <2>3, <2>4, <2>5, <2>6, <2>7, <2>8 DEF TypeOK
<1>2. WellFormed
  BY DEF Init, WellFormed, NoTask, IdleRequest, IdleRun
<1> QED
  BY <1>1, <1>2 DEF TypeInv

\* API requests keep the types.
LEMMA TypeRequests ==
  ASSUME TypeInv, NEW c \in Clients, Submit(c) \/ Accept(c) \/ Abandon(c)
  PROVE  TypeInv'
<1> USE DEF TypeInv
<1>1. CASE Submit(c)
  <2> PICK j \in Jobs, k \in Kinds, conf \in Configs \cup {NoConfig}, ok \in BOOLEAN :
         Submit(c)!2!(j, k, conf, ok)
    BY <1>1 DEF Submit
  <2>1. /\ job[j].status = NoRow
        /\ conf = NoConfig <=> k # "redeploy"
        /\ job' = [job EXCEPT ![j].status = "pending"]
        /\ task' = [task EXCEPT ![j] = [kind |-> k, config |-> conf, confirmed |-> ok]]
        /\ request' = [request EXCEPT ![c] = [at |-> "created", job |-> j, seen |-> dep.status]]
    OBVIOUS
  <2>2. job' \in [Jobs -> JobRows]
    BY <2>1 DEF TypeOK, JobRows, JobStatus
  <2>3. task' \in [Jobs -> Tasks]
    <3>1. k \in AllKinds
      BY Parameters
    <3>2. [kind |-> k, config |-> conf, confirmed |-> ok] \in Tasks
      BY <3>1 DEF Tasks
    <3> QED
      BY <2>1, <3>2 DEF TypeOK
  <2>4. request' \in [Clients -> Requests]
    BY <2>1 DEF TypeOK, Requests, Deployments
  <2>5. TypeOK'
    BY <1>1, <2>2, <2>3, <2>4 DEF TypeOK, Submit
  <2>6. WellFormed'
    BY <1>1, <2>1 DEF TypeOK, WellFormed, Submit, NoRow, JobRows, Tasks
  <2> QED
    BY <2>5, <2>6
<1>2. CASE Accept(c)
  <2> DEFINE j == request[c].job
  <2>1. j \in Jobs /\ job[j].status # NoRow
    BY <1>2 DEF Accept, WellFormed
  <2>2. Transition[task[j].kind] \in DepStatus
    BY <2>1 DEF TypeOK, Tasks, AllKinds, Transition, DepStatus, Busy
  <2>3. dep' \in Deployments
    BY <1>2, <2>1, <2>2, FlushTyped DEF Accept, TypeOK, Deployments
  <2>4. job' \in [Jobs -> JobRows] /\ \A i \in Jobs : job'[i].status = job[i].status
    <3> DEFINE p == IF task[j].kind = "redeploy" THEN request[c].seen ELSE job[j].previous
    <3>1. p \in DepStatus \cup {"none"}
      BY <2>1 DEF TypeOK, JobRows, Requests
    <3>2. job' = [job EXCEPT ![j].previous = p]
      BY <1>2 DEF Accept
    <3> HIDE DEF p, j
    <3> QED
      BY <2>1, <3>1, <3>2 DEF TypeOK, JobRows
  <2>5. request' \in [Clients -> Requests]
    BY <1>2 DEF Accept, TypeOK, Requests, IdleRequest, DepStatus
  <2>6. TypeOK'
    BY <1>2, <2>1, <2>3, <2>4, <2>5 DEF Accept, TypeOK
  <2>7. WellFormed'
    BY <1>2, <2>1, <2>4 DEF Accept, TypeOK, WellFormed, IdleRequest
  <2> QED
    BY <2>6, <2>7
<1>3. CASE Abandon(c)
  <2>1. request' \in [Clients -> Requests] /\ faults' \in 0..MaxFaults
    BY <1>3, Parameters DEF Abandon, Fault, TypeOK, Requests, IdleRequest, DepStatus, Parameters
  <2>2. TypeOK'
    BY <1>3, <2>1 DEF Abandon, TypeOK
  <2>3. WellFormed'
    BY <1>3 DEF Abandon, TypeOK, WellFormed, IdleRequest
  <2> QED
    BY <2>2, <2>3
<1> QED
  BY <1>1, <1>2, <1>3

\* A run that goes on with its task, or drops it, leaves everything well formed.
LEMMA RunUpdate ==
  ASSUME TypeInv, NEW w \in Workers, NEW r \in Runs,
         run' = [run EXCEPT ![w] = r],
         job' \in [Jobs -> JobRows],
         \A j \in Jobs : job[j].status # NoRow => job'[j].status # NoRow,
         UNCHANGED <<task, queue, request>>,
         r.at # "idle" => /\ run[w].at # "idle" /\ r.job = run[w].job
                          /\ r.seenConfig \in Configs,
         r.at \in {"loaded", "command"} => r.todo # <<>>,
         r.at \in {"apply", "point"} => task[r.job].kind = "redeploy"
  PROVE  run' \in [Workers -> Runs] /\ WellFormed'
<1>1. run' \in [Workers -> Runs]
  BY DEF TypeInv, TypeOK
<1>2. \A v \in Workers : run'[v] = IF v = w THEN r ELSE run[v]
  BY DEF TypeInv, TypeOK
<1>3. WellFormed'
  BY <1>2 DEF TypeInv, TypeOK, WellFormed
<1> QED
  BY <1>1, <1>3

\* So do loading a task and beginning it.
LEMMA TypeBegins ==
  ASSUME TypeInv, NEW w \in Workers, Take(w) \/ Begin(w)
  PROVE  TypeInv'
<1> USE DEF TypeInv
<1>1. CASE Take(w)
  <2>1. PICK j \in queue :
          /\ queue' = queue \ {j}
          /\ run' = [run EXCEPT ![w] =
                       [IdleRun EXCEPT !.at = "loaded", !.job = j, !.seen = dep.status,
                                       !.seenConfig = dep.config, !.seenJob = job[j].status,
                                       !.old = FallBack(j),
                                       !.todo = Script(task[j].kind, dep.config)]]
    BY <1>1 DEF Take
  <2> DEFINE r == [IdleRun EXCEPT !.at = "loaded", !.job = j, !.seen = dep.status,
                                  !.seenConfig = dep.config, !.seenJob = job[j].status,
                                  !.old = FallBack(j),
                                  !.todo = Script(task[j].kind, dep.config)]
  <2>2. j \in Jobs /\ job[j].status # NoRow /\ task[j].kind \in AllKinds
    BY DEF TypeOK, WellFormed, Tasks
  <2>3. r \in Runs
    <3>1. FallBack(j) \in DepStatus
      BY <2>2, FallBackTyped
    <3>2. Script(task[j].kind, dep.config) \in Seq(Commands)
      BY <2>2, ScriptTyped
    <3>3. dep.status \in DepStatus /\ dep.config \in Configs
      BY DEF TypeOK, Deployments
    <3>4. job[j].status \in JobStatus \cup {NoRow}
      BY <2>2 DEF TypeOK, JobRows
    <3> QED
      BY <2>2, <3>1, <3>2, <3>3, <3>4 DEF Runs, IdleRun, Stages
  <2>4. /\ r.at = "loaded" /\ r.job = j /\ r.seenConfig \in Configs
        /\ r.todo # <<>>
    BY <2>2, ScriptTyped DEF IdleRun, TypeOK, Deployments
  <2>5. run' = [run EXCEPT ![w] = r]
    BY <2>1
  <2> HIDE DEF r
  <2>6. TypeOK'
    BY <1>1, <2>1, <2>3, <2>5 DEF Take, TypeOK
  <2>7. /\ \A v \in Workers : run'[v] = IF v = w THEN r ELSE run[v]
        /\ UNCHANGED <<job, task, request>> /\ queue' \subseteq queue
    BY <1>1, <2>1, <2>5 DEF Take, TypeOK
  <2>8. WellFormed'
    BY <2>2, <2>4, <2>7 DEF WellFormed
  <2> QED
    BY <2>6, <2>8
<1>2. CASE Begin(w)
  <2> DEFINE j == run[w].job
             row == MarkRunning(job[j], run[w].seenJob)
             next == IF /\ task[j].kind = "redeploy"
                        /\ ~RiskAccepted(task[j], run[w].seenConfig)
                     THEN "fail" ELSE "command"
  <2>1. /\ j \in Jobs /\ job[j].status # NoRow /\ run[w].todo # <<>>
        /\ run[w].at # "idle" /\ run[w].seenConfig \in Configs
        /\ UNCHANGED <<task, queue, request>>
    BY <1>2 DEF Begin, WellFormed
  <2>2. row \in JobRows /\ row.status # NoRow
    BY <2>1 DEF TypeOK, MarkRunning, Flush, JobRows, JobStatus, NoRow
  <2>3. next \in {"fail", "command"}
    OBVIOUS
  <2>4. /\ job' = [job EXCEPT ![j] = row]
        /\ run' = [run EXCEPT ![w].seenJob = row.status, ![w].at = next]
    BY <1>2 DEF Begin
  <2> DEFINE r == [run[w] EXCEPT !.seenJob = row.status, !.at = next]
  <2>5. run' = [run EXCEPT ![w] = r]
    BY <2>4
  <2> HIDE DEF row, next
  <2>6. /\ r \in Runs /\ r.at = next /\ r.job = j /\ r.todo = run[w].todo
        /\ r.seenConfig = run[w].seenConfig
    <3>1. row.status \in JobStatus \cup {NoRow} /\ next \in Stages /\ run[w] \in Runs
      BY <2>2, <2>3 DEF TypeOK, JobRows, Stages
    <3> QED
      BY <3>1 DEF Runs
  <2> HIDE DEF r
  <2>7. /\ job' \in [Jobs -> JobRows]
        /\ \A i \in Jobs : job[i].status # NoRow => job'[i].status # NoRow
    BY <2>1, <2>2, <2>4 DEF TypeOK
  <2>8. run' \in [Workers -> Runs] /\ WellFormed'
    BY <2>1, <2>3, <2>5, <2>6, <2>7, RunUpdate
  <2> QED
    BY <1>2, <2>7, <2>8 DEF Begin, TypeOK
<1> QED
  BY <1>1, <1>2

\* Of the steps of a run, those that only move it to a stage after its commands.
LEMMA StageUpdate ==
  ASSUME TypeInv, NEW w \in Workers, NEW stage \in Stages,
         stage \notin {"idle", "loaded", "command", "apply", "point"},
         run[w].at # "idle", Step(w, stage),
         job' \in [Jobs -> JobRows],
         \A j \in Jobs : job[j].status # NoRow => job'[j].status # NoRow,
         UNCHANGED <<task, queue, request>>
  PROVE  run' \in [Workers -> Runs] /\ WellFormed'
<1> DEFINE r == [run[w] EXCEPT !.at = stage]
<1>1. run' = [run EXCEPT ![w] = r]
  BY DEF Step
<1>2. r \in Runs /\ r.job = run[w].job /\ r.at = stage /\ r.seenConfig = run[w].seenConfig
  BY DEF TypeInv, TypeOK, Runs
<1>3. run[w].seenConfig \in Configs
  BY DEF TypeInv, WellFormed
<1> HIDE DEF r
<1> QED
  BY <1>1, <1>2, <1>3, RunUpdate

\* A task that is given up leaves an idle worker.
LEMMA IdleUpdate ==
  ASSUME TypeInv, NEW w \in Workers, run' = [run EXCEPT ![w] = IdleRun],
         UNCHANGED <<job, task, queue, request>>
  PROVE  run' \in [Workers -> Runs] /\ WellFormed'
<1>1. IdleRun \in Runs /\ IdleRun.at = "idle"
  BY EmptySeq, Parameters DEF IdleRun, Runs, Stages, DepStatus, Settled, JobStatus
<1>2. job' \in [Jobs -> JobRows] /\ \A j \in Jobs : job'[j] = job[j]
  BY DEF TypeInv, TypeOK
<1> QED
  BY <1>1, <1>2, RunUpdate

\* The writes of job_service on the row of an existing job keep its type.
LEMMA JobUpdate ==
  ASSUME TypeInv, NEW j \in Jobs, job[j].status # NoRow, NEW row,
         row \in {MarkSucceeded(job[j], seen) : seen \in JobStatus \cup {NoRow}}
                 \cup {MarkFailed(job[j], seen) : seen \in JobStatus \cup {NoRow}}
                 \cup {SaveResult(job[j])},
         job' = [job EXCEPT ![j] = row]
  PROVE  /\ job' \in [Jobs -> JobRows]
         /\ \A i \in Jobs : job[i].status # NoRow => job'[i].status # NoRow
<1>1. row \in JobRows /\ row.status # NoRow
  BY DEF TypeInv, TypeOK, JobRows, JobStatus, NoRow, Flush, MarkSucceeded, MarkFailed,
         SaveResult
<1> QED
  BY <1>1 DEF TypeInv, TypeOK

\* Commands and the health probe keep the types.
LEMMA TypeCommands ==
  ASSUME TypeInv, NEW w \in Workers, CommandSucceeds(w) \/ CommandFails(w) \/ Probe(w)
  PROVE  TypeInv'
<1>0. run[w] \in Runs /\ box \in Container \cup {NoContainer} /\ job \in [Jobs -> JobRows]
  BY DEF TypeInv, TypeOK
<1>1. ASSUME run[w].at = "command"
      PROVE  /\ run[w].todo \in Seq(Commands) /\ run[w].todo # <<>>
             /\ Head(run[w].todo) \in Commands /\ Tail(run[w].todo) \in Seq(Commands)
             /\ Len(run[w].todo) # 1 => Tail(run[w].todo) # <<>>
             /\ Built(w) \in Configs /\ run[w].seenConfig \in Configs
             /\ run[w].at # "idle"
  <2>1. run[w].todo \in Seq(Commands) /\ run[w].todo # <<>> /\ run[w].seenConfig \in Configs
    BY <1>0, <1>1 DEF Runs, TypeInv, WellFormed
  <2>2. Built(w) \in Configs
    BY <1>1, BuiltTyped
  <2> QED
    BY <1>1, <2>1, <2>2, TodoTyped
<1>2. CASE CommandSucceeds(w)
  <2> DEFINE after == IF Len(run[w].todo) = 1 THEN AfterCommands(task[run[w].job].kind)
                                             ELSE run[w].at
             r == [run[w] EXCEPT !.todo = Tail(run[w].todo), !.at = after]
  <2>1. run[w].at = "command" /\ UNCHANGED <<dep, revs, job, task, queue, request>>
    BY <1>2 DEF CommandSucceeds
  <2>2. box' \in Container \cup {NoContainer} /\ faults' \in 0..MaxFaults
    <3>1. CASE box' \in Applied(Head(run[w].todo), Built(w), box) /\ NoFault
      BY <1>0, <1>1, <2>1, <3>1, AppliedTyped DEF NoFault, TypeInv, TypeOK
    <3>2. CASE box' = box /\ Fault("daemon")
      BY <1>0, <3>2, Parameters DEF Fault, TypeInv, TypeOK, Parameters
    <3> QED
      BY <1>2, <3>1, <3>2 DEF CommandSucceeds
  <2>3. after \in {"settle", "probe"} \/ (after = "command" /\ Len(run[w].todo) # 1)
    BY <2>1 DEF AfterCommands
  <2>4. run' = [run EXCEPT ![w].todo = Tail(run[w].todo), ![w].at = after]
    BY <1>2 DEF CommandSucceeds
  <2> HIDE DEF after
  <2>5. run' = [run EXCEPT ![w] = r]
    BY <2>4
  <2>6. /\ r \in Runs /\ r.at = after /\ r.job = run[w].job /\ r.todo = Tail(run[w].todo)
        /\ r.seenConfig = run[w].seenConfig
    BY <1>0, <1>1, <2>1, <2>3 DEF Runs, Stages
  <2> HIDE DEF r
  <2>7. job' = job
    BY <2>1
  <2>8. run' \in [Workers -> Runs] /\ WellFormed'
    BY <1>0, <1>1, <2>1, <2>3, <2>5, <2>6, <2>7, RunUpdate
  <2> QED
    BY <2>1, <2>2, <2>8 DEF TypeInv, TypeOK
<1>3. CASE CommandFails(w)
  <2> DEFINE rest == IF Refused(w) \/ box' # box THEN <<>> ELSE run[w].todo
             r == [run[w] EXCEPT !.at = "fail", !.todo = rest]
  <2>1. /\ run[w].at = "command" /\ job' = job
        /\ UNCHANGED <<dep, revs, task, queue, request, faults>>
    BY <1>3 DEF CommandFails
  <2>2. box' \in Container \cup {NoContainer}
    BY <1>0, <1>1, <1>3, <2>1, InterruptedTyped DEF CommandFails
  <2>3. rest \in Seq(Commands)
    BY <1>1, <2>1, EmptySeq
  <2>4. run' = [run EXCEPT ![w].at = "fail", ![w].todo = rest]
    BY <1>3 DEF CommandFails
  <2> HIDE DEF rest
  <2>5. run' = [run EXCEPT ![w] = r]
    BY <2>4
  <2>6. /\ r \in Runs /\ r.at = "fail" /\ r.job = run[w].job
        /\ r.seenConfig = run[w].seenConfig
    BY <1>0, <2>1, <2>3 DEF Runs, Stages
  <2> HIDE DEF r
  <2>7. run' \in [Workers -> Runs] /\ WellFormed'
    BY <1>0, <1>1, <2>1, <2>5, <2>6, RunUpdate
  <2> QED
    BY <2>1, <2>2, <2>7 DEF TypeInv, TypeOK
<1>4. CASE Probe(w)
  <2>1. /\ run[w].at = "probe"
        /\ UNCHANGED <<dep, revs, job, task, queue, request, box, faults>>
    BY <1>4 DEF Probe
  <2>2. PICK h \in HealthOutcomes(box) :
          run' = [run EXCEPT
                    ![w].health = h,
                    ![w].at = IF h = "ERROR" THEN "fail"
                              ELSE IF task[run[w].job].kind = "redeploy" THEN "apply"
                              ELSE "settle"]
    BY <1>4 DEF Probe
  <2> DEFINE after == IF h = "ERROR" THEN "fail"
                      ELSE IF task[run[w].job].kind = "redeploy" THEN "apply" ELSE "settle"
             r == [run[w] EXCEPT !.health = h, !.at = after]
  <2>3. h \in {"OK", "WARN", "ERROR"}
    BY DEF HealthOutcomes
  <2>4. /\ after \in {"fail", "apply", "settle"}
        /\ after = "apply" => task[run[w].job].kind = "redeploy"
    OBVIOUS
  <2>5. run' = [run EXCEPT ![w].health = h, ![w].at = after]
    BY <2>2
  <2> HIDE DEF after
  <2>6. run' = [run EXCEPT ![w] = r]
    BY <2>5
  <2>7. /\ r \in Runs /\ r.at = after /\ r.job = run[w].job
        /\ r.seenConfig = run[w].seenConfig /\ run[w].seenConfig \in Configs
    BY <1>0, <2>1, <2>3, <2>4 DEF Runs, Stages, TypeInv, WellFormed
  <2> HIDE DEF r
  <2>8. job' = job
    BY <2>1
  <2>9. run' \in [Workers -> Runs] /\ WellFormed'
    BY <1>0, <2>1, <2>4, <2>6, <2>7, <2>8, RunUpdate
  <2> QED
    BY <2>1, <2>9 DEF TypeInv, TypeOK
<1> QED
  BY <1>2, <1>3, <1>4

\* So do the commits that end a run.
LEMMA TypeEnds ==
  ASSUME TypeInv, NEW w \in Workers,
         \/ ApplyConfig(w) \/ PointRevision(w) \/ Settle(w) \/ Finish(w)
         \/ Fail(w) \/ FailJob(w) \/ MarkTaskFailed(w) \/ Ack(w)
  PROVE  TypeInv'
<1> DEFINE j == run[w].job
<1>0. /\ run[w] \in Runs /\ job \in [Jobs -> JobRows]
      /\ dep \in Deployments /\ revs \in Seq(Configs) /\ Len(revs) \in Nat
  BY LenProperties DEF TypeInv, TypeOK
<1>1. run[w].at # "idle" =>
        /\ j \in Jobs /\ job[j].status # NoRow /\ run[w].seenConfig \in Configs
        /\ job[j] \in JobRows
  BY DEF TypeInv, TypeOK, WellFormed
<1>2. CASE ApplyConfig(w)
  <2> DEFINE new == task[j].config
             rev == Len(revs) + 1
             r == [run[w] EXCEPT !.at = "point", !.seenConfig = new, !.rev = rev]
  <2>1. /\ run[w].at = "apply" /\ revs' = Append(revs, new)
        /\ dep' = [dep EXCEPT !.config = FlushConfig(run[w].seenConfig, new, dep.config)]
        /\ UNCHANGED <<job, task, queue, request, box, faults>>
    BY <1>2 DEF ApplyConfig
  <2>2. new \in Configs /\ task[j].kind = "redeploy"
    BY <1>1, <2>1 DEF TypeInv, WellFormed
  <2>3. dep' \in Deployments
    <3>1. FlushConfig(run[w].seenConfig, new, dep.config) \in Configs
      BY <1>0, <1>1, <2>1, <2>2, FlushConfigTyped DEF Deployments
    <3> QED
      BY <1>0, <2>1, <3>1 DEF Deployments
  <2>4. revs' \in Seq(Configs)
    BY <1>0, <2>1, <2>2
  <2>5. run' = [run EXCEPT ![w] = r]
    BY <1>2 DEF ApplyConfig
  <2>6. rev \in Nat
    BY <1>0
  <2> HIDE DEF rev, new
  <2>7. r \in Runs /\ r.at = "point" /\ r.job = j /\ r.seenConfig = new
    BY <1>0, <2>2, <2>6 DEF Runs, Stages
  <2> HIDE DEF r
  <2>8. run' \in [Workers -> Runs] /\ WellFormed'
    BY <1>0, <2>1, <2>2, <2>5, <2>7, RunUpdate
  <2> QED
    BY <2>1, <2>3, <2>4, <2>8 DEF TypeInv, TypeOK
<1>3. CASE PointRevision(w)
  <2> DEFINE r == [run[w] EXCEPT !.at = "settle", !.seen = dep.status,
                                 !.seenConfig = dep.config]
  <2>1. /\ run[w].at = "point" /\ dep' = [dep EXCEPT !.revision = run[w].rev]
        /\ UNCHANGED <<revs, job, task, queue, request, box, faults>>
    BY <1>3 DEF PointRevision
  <2>2. dep' \in Deployments
    BY <1>0, <2>1 DEF Deployments, Runs
  <2>3. run' = [run EXCEPT ![w] = r]
    BY <1>3 DEF PointRevision
  <2>4. r \in Runs /\ r.at = "settle" /\ r.job = j /\ r.seenConfig \in Configs
    BY <1>0 DEF Runs, Stages, Deployments
  <2> HIDE DEF r
  <2>5. run' \in [Workers -> Runs] /\ WellFormed'
    BY <1>0, <2>1, <2>3, <2>4, RunUpdate
  <2> QED
    BY <2>1, <2>2, <2>5 DEF TypeInv, TypeOK
<1>4. CASE Settle(w)
  <2> DEFINE r == [run[w] EXCEPT !.at = "finish", !.seenJob = job[j].status]
  <2>1. /\ run[w].at = "settle" /\ job' = [job EXCEPT ![j] = SaveResult(job[j])]
        /\ dep' = [dep EXCEPT !.status = Flush(run[w].seen, Outcome(w), dep.status)]
        /\ UNCHANGED <<revs, task, queue, request, box, faults>>
    BY <1>4 DEF Settle
  <2>2. dep' \in Deployments
    <3>1. Outcome(w) \in DepStatus /\ dep.status \in DepStatus
      BY <1>0, OutcomeTyped DEF DepStatus, Deployments
    <3> QED
      BY <1>0, <2>1, <3>1, FlushTyped DEF Deployments
  <2>3. /\ job' \in [Jobs -> JobRows]
        /\ \A i \in Jobs : job[i].status # NoRow => job'[i].status # NoRow
    BY <1>1, <2>1, JobUpdate
  <2>4. run' = [run EXCEPT ![w] = r]
    BY <1>4 DEF Settle
  <2>5. /\ r \in Runs /\ r.at = "finish" /\ r.job = j
        /\ r.seenConfig = run[w].seenConfig
    BY <1>0, <1>1, <2>1 DEF Runs, Stages, JobRows
  <2> HIDE DEF r
  <2>6. run' \in [Workers -> Runs] /\ WellFormed'
    BY <1>0, <1>1, <2>1, <2>3, <2>4, <2>5, RunUpdate
  <2> QED
    BY <2>1, <2>2, <2>3, <2>6 DEF TypeInv, TypeOK
<1>5. CASE Finish(w) \/ FailJob(w) \/ MarkTaskFailed(w)
  <2>1. /\ run[w].at # "idle" /\ Step(w, "ack") /\ "ack" \in Stages
        /\ UNCHANGED <<dep, revs, task, queue, request, box, faults>>
    BY <1>5 DEF Finish, FailJob, MarkTaskFailed, Stages
  <2>2. /\ job' \in [Jobs -> JobRows]
        /\ \A i \in Jobs : job[i].status # NoRow => job'[i].status # NoRow
    <3>1. run[w].seenJob \in JobStatus \cup {NoRow}
      BY <1>0 DEF Runs
    <3>2. CASE Finish(w)
      BY <1>1, <2>1, <3>1, <3>2, JobUpdate DEF Finish
    <3>3. CASE FailJob(w)
      BY <1>1, <2>1, <3>1, <3>3, JobUpdate DEF FailJob
    <3>4. CASE MarkTaskFailed(w)
      <4>1. PICK s \in {job[j].status, "failed"} : job' = [job EXCEPT ![j].status = s]
        BY <3>4 DEF MarkTaskFailed
      <4>2. s \in JobStatus \cup {NoRow} /\ s # NoRow
        BY <1>1, <2>1, <4>1 DEF JobRows, JobStatus, NoRow
      <4> QED
        BY <1>0, <1>1, <2>1, <4>1, <4>2 DEF JobRows
    <3> QED
      BY <1>5, <3>2, <3>3, <3>4
  <2>3. run' \in [Workers -> Runs] /\ WellFormed'
    BY <2>1, <2>2, StageUpdate
  <2> QED
    BY <2>1, <2>2, <2>3 DEF TypeInv, TypeOK
<1>6. CASE Fail(w)
  <2>1. /\ run[w].at = "fail" /\ Step(w, "mark_failed") /\ "mark_failed" \in Stages
        /\ dep' = [dep EXCEPT !.status = Flush(run[w].seen, run[w].old, dep.status)]
        /\ UNCHANGED <<revs, job, task, queue, request, box, faults>>
    BY <1>6 DEF Fail, Stages
  <2>2. dep' \in Deployments
    BY <1>0, <2>1, FlushTyped DEF Deployments, Runs
  <2>3. run' \in [Workers -> Runs] /\ WellFormed'
    BY <1>0, <2>1, StageUpdate
  <2> QED
    BY <2>1, <2>2, <2>3 DEF TypeInv, TypeOK
<1>7. CASE Ack(w)
  <2>1. run' \in [Workers -> Runs] /\ WellFormed'
    BY <1>7, IdleUpdate DEF Ack
  <2> QED
    BY <1>7, <2>1 DEF Ack, TypeInv, TypeOK
<1> QED
  BY <1>2, <1>3, <1>4, <1>5, <1>6, <1>7

\* So do the faults, and SGLang.
LEMMA TypeFaults ==
  ASSUME TypeInv,
         \/ \E w \in Workers : Raise(w) \/ Crash(w) \/ Redeliver(w)
         \/ \E w \in Workers : Late(w)
         \/ Lose \/ Serve \/ Die
  PROVE  TypeInv'
<1>1. ASSUME NEW f, Fault(f) PROVE faults' \in 0..MaxFaults
  BY <1>1, Parameters DEF Fault, TypeInv, TypeOK, Parameters
<1>2. ASSUME NEW w \in Workers, Raise(w) PROVE TypeInv'
  <2>1. PICK stage \in {"raised", "ack"} : Step(w, stage)
    BY <1>2 DEF Raise
  <2>2. stage \in Stages /\ stage \notin {"idle", "loaded", "command", "apply", "point"}
    BY DEF Stages
  <2>3. job' = job /\ job \in [Jobs -> JobRows] /\ run[w].at # "idle"
    BY <1>2 DEF Raise, TypeInv, TypeOK
  <2>4. run' \in [Workers -> Runs] /\ WellFormed'
    BY <1>2, <2>1, <2>2, <2>3, StageUpdate DEF Raise
  <2> QED
    BY <1>1, <1>2, <2>4 DEF Raise, TypeInv, TypeOK
<1>3. ASSUME NEW w \in Workers, Crash(w) PROVE TypeInv'
  <2>1. run' \in [Workers -> Runs] /\ WellFormed'
    BY <1>3, IdleUpdate DEF Crash
  <2> QED
    BY <1>1, <1>3, <2>1 DEF Crash, TypeInv, TypeOK
<1>4. ASSUME NEW w \in Workers, Redeliver(w) PROVE TypeInv'
  <2>1. /\ queue' = queue \cup {run[w].job} /\ Fault("redeliver")
        /\ run' \in {run, [run EXCEPT ![w] = IdleRun]}
        /\ UNCHANGED <<dep, revs, job, task, request, box>>
    BY <1>4 DEF Redeliver
  <2>2. run[w].job \in Jobs /\ job[run[w].job].status # NoRow
    BY <1>4 DEF Redeliver, TypeInv, WellFormed
  <2>3. IdleRun \in Runs /\ IdleRun.at = "idle"
    BY EmptySeq, Parameters DEF IdleRun, Runs, Stages, DepStatus, Settled, JobStatus
  <2>4. /\ run' \in [Workers -> Runs]
        /\ \A v \in Workers : run'[v] = run[v] \/ run'[v].at = "idle"
    BY <2>1, <2>3 DEF TypeInv, TypeOK
  <2>5. WellFormed'
    BY <2>1, <2>2, <2>4 DEF TypeInv, WellFormed
  <2> QED
    BY <1>1, <2>1, <2>2, <2>4, <2>5 DEF TypeInv, TypeOK
<1>5. CASE Lose
  BY <1>1, <1>5 DEF Lose, TypeInv, TypeOK, WellFormed
<1>6. CASE Serve \/ Die
  <2>1. box' \in Container
    BY <1>6 DEF Serve, Die, To, TypeInv, TypeOK, Container, NoContainer, Running
  <2>2. UNCHANGED <<dep, revs, job, task, queue, request, run>> /\ faults' \in 0..MaxFaults
    BY <1>1, <1>6 DEF Serve, Die, TypeInv, TypeOK
  <2> QED
    BY <2>1, <2>2 DEF TypeInv, TypeOK, WellFormed
<1>7. ASSUME NEW w \in Workers, Late(w) PROVE TypeInv'
  <2> DEFINE r == [run[w] EXCEPT !.todo = <<>>]
  <2>1. /\ run[w].at \in {"fail", "mark_failed", "ack"} /\ run[w].todo # <<>>
        /\ job' = job /\ Fault("late")
        /\ UNCHANGED <<dep, revs, task, queue, request>>
    BY <1>7 DEF Late
  <2>2. /\ run[w] \in Runs /\ run[w].todo \in Seq(Commands)
        /\ box \in Container \cup {NoContainer} /\ job \in [Jobs -> JobRows]
    BY DEF TypeInv, TypeOK, Runs
  <2>3. Head(run[w].todo) \in Commands /\ Built(w) \in Configs
    BY <2>1, <2>2, TodoTyped, BuiltTyped
  <2>4. box' \in Container \cup {NoContainer}
    BY <1>7, <2>2, <2>3, AppliedTyped DEF Late
  <2>5. run' = [run EXCEPT ![w] = r]
    BY <1>7 DEF Late
  <2>6. /\ r \in Runs /\ r.at = run[w].at /\ r.job = run[w].job
        /\ r.seenConfig = run[w].seenConfig /\ run[w].seenConfig \in Configs
    BY <2>1, <2>2, EmptySeq DEF Runs, TypeInv, WellFormed
  <2> HIDE DEF r
  <2>7. run' \in [Workers -> Runs] /\ WellFormed'
    BY <2>1, <2>2, <2>5, <2>6, RunUpdate
  <2> QED
    BY <1>1, <2>1, <2>4, <2>7 DEF TypeInv, TypeOK
<1> QED
  BY <1>2, <1>3, <1>4, <1>5, <1>6, <1>7

LEMMA TypeStep == TypeInv /\ [Next]_vars => TypeInv'
<1> SUFFICES ASSUME TypeInv, [Next]_vars PROVE TypeInv'
  OBVIOUS
<1>1. CASE \E c \in Clients : Submit(c) \/ Accept(c) \/ Abandon(c)
  BY <1>1, TypeRequests
<1>2. CASE \E w \in Workers : Take(w) \/ RunStep(w)
  BY <1>2, TypeBegins, TypeCommands, TypeEnds DEF RunStep
<1>3. CASE \/ \E w \in Workers : Raise(w) \/ Crash(w) \/ Redeliver(w)
           \/ \E w \in Workers : Late(w)
           \/ Lose \/ Serve \/ Die
  BY <1>3, TypeFaults
<1>4. CASE UNCHANGED vars
  BY <1>4 DEF vars, TypeInv, TypeOK, WellFormed
<1> QED
  BY <1>1, <1>2, <1>3, <1>4 DEF Next

LEMMA TypeInvariant == Spec => []TypeInv
BY TypeInit, TypeStep, PTL DEF Spec

\* Whatever interleaves and fails, every table, message and session object keeps to
\* its domain; no run is left without a job, a configuration or a next command.
THEOREM TypeCorrect == Spec => []TypeOK
<1>1. TypeInv => TypeOK
  BY DEF TypeInv
<1> QED
  BY <1>1, TypeInvariant, PTL

-----------------------------------------------------------------------------
(* A busy deployment always names a job that has not ended                   *)

\* The stages from which a run may go to fail.
MayFail == {"loaded", "command", "probe", "fail"}

\* The job that a busy deployment names is open and, if it is a redeployment, still
\* has the status to fall back to.
LastIsOpen ==
  dep.status \in Busy =>
    /\ dep.last \in Jobs
    /\ job[dep.last].status \in Live
    /\ task[dep.last].kind = "redeploy" => job[dep.last].previous \in Settled

LastIsKnown == dep.last \in Jobs => job[dep.last].status # NoRow

PreviousIsSettled == \A j \in Jobs : job[j].previous \in Settled \cup {"none"}

\* A run r of that job has not settled the deployment d yet, and when it does, its
\* write is not lost: it saw a busy status, so it will put a different one.  A run of
\* any job falls back to a settled status, or to the one it saw, which writes nothing.
GivesBack(r, d) ==
  /\ r.at # "raised"
  /\ r.at \in MayFail => r.old \in Settled \cup {r.seen}
  /\ d.status \in Busy /\ r.at # "idle" /\ r.job = d.last =>
       /\ r.at \notin {"finish", "mark_failed"}
       /\ r.at \in Active => r.seen \in Busy
       /\ r.at \in MayFail => r.old \in Settled

RunsGiveBack == \A w \in Workers : GivesBack(run[w], dep)

\* Until its second commit nobody else knows the job of a request.
RequestsAreFresh ==
  \A c \in Clients : request[c].at = "created" =>
    LET j == request[c].job IN
    /\ job[j].status = "pending" /\ j \notin queue /\ j # dep.last
    /\ task[j].kind = "redeploy" => request[c].seen \in Settled
    /\ \A d \in Clients : request[d].at = "created" /\ request[d].job = j => d = c
    /\ \A w \in Workers : run[w].at # "idle" => run[w].job # j

LiveInv ==
  TypeInv /\ LastIsOpen /\ LastIsKnown /\ PreviousIsSettled /\ RunsGiveBack
          /\ RequestsAreFresh

LEMMA BusyOrSettled == Busy \cap Settled = {}
BY DEF Busy, Settled

LEMMA LiveInit == Init => LiveInv
<1> SUFFICES ASSUME Init PROVE LiveInv
  OBVIOUS
<1>1. dep.status \notin Busy /\ dep.last = NoJob
  BY DEF Init, Busy
<1>2. \A w \in Workers : run[w].at = "idle"
  BY DEF Init, IdleRun
<1>3. \A c \in Clients : request[c].at = "idle"
  BY DEF Init, IdleRequest
<1>4. \A j \in Jobs : job[j].previous = "none"
  BY DEF Init
<1> QED
  BY <1>1, <1>2, <1>3, <1>4, TypeInit, Parameters
     DEF LiveInv, LastIsOpen, LastIsKnown, PreviousIsSettled, RunsGiveBack, GivesBack,
         MayFail, RequestsAreFresh, Parameters

\* A step of a run that does not make the deployment busy, does not touch rows of other
\* jobs and closes its own only when the deployment is not busy with it.
LEMMA LiveRunStep ==
  ASSUME LiveInv, TypeInv', NEW w \in Workers, NEW r, NEW row,
         run[w].at # "idle", r.job = run[w].job,
         run' = [run EXCEPT ![w] = r],
         job' = [job EXCEPT ![run[w].job] = row],
         UNCHANGED <<task, queue, request>>,
         dep'.last = dep.last,
         dep'.status \in Busy => dep'.status = dep.status,
         GivesBack(r, dep'),
         row.status # NoRow, row.previous \in Settled \cup {"none"},
         dep'.status \in Busy /\ run[w].job = dep.last =>
           row.status \in Live /\ row.previous = job[run[w].job].previous
  PROVE  LiveInv'
<1> DEFINE j == run[w].job
<1>1. /\ j \in Jobs
      /\ \A i \in Jobs : job'[i] = IF i = j THEN row ELSE job[i]
      /\ \A v \in Workers : run'[v] = IF v = w THEN r ELSE run[v]
  BY DEF LiveInv, TypeInv, TypeOK, WellFormed
<1>2. LastIsOpen' /\ LastIsKnown' /\ PreviousIsSettled'
  BY <1>1 DEF LiveInv, LastIsOpen, LastIsKnown, PreviousIsSettled
<1>3. RunsGiveBack'
  BY <1>1 DEF LiveInv, RunsGiveBack, GivesBack
<1>4. RequestsAreFresh'
  BY <1>1 DEF LiveInv, RequestsAreFresh, TypeInv, WellFormed
<1> QED
  BY <1>2, <1>3, <1>4 DEF LiveInv

\* Dropping a run disturbs nothing.
LEMMA LiveIdle ==
  ASSUME LiveInv, TypeInv', NEW w \in Workers,
         run' = [run EXCEPT ![w] = IdleRun],
         UNCHANGED <<dep, job, task, queue, request>>
  PROVE  LiveInv'
<1>1. \A v \in Workers : run'[v] = IF v = w THEN IdleRun ELSE run[v]
  BY DEF LiveInv, TypeInv, TypeOK
<1>2. IdleRun.at = "idle"
  BY DEF IdleRun
<1>3. LastIsOpen' /\ LastIsKnown' /\ PreviousIsSettled'
  BY DEF LiveInv, LastIsOpen, LastIsKnown, PreviousIsSettled
<1>4. RunsGiveBack'
  BY <1>1, <1>2 DEF LiveInv, RunsGiveBack, GivesBack, MayFail
<1>5. RequestsAreFresh'
  BY <1>1, <1>2 DEF LiveInv, RequestsAreFresh
<1> QED
  BY <1>3, <1>4, <1>5 DEF LiveInv

\* Requests: a new one brings a fresh job, an accepted one makes its job the last.
LEMMA LiveRequests ==
  ASSUME LiveInv, TypeInv', NEW c \in Clients, Submit(c) \/ Accept(c) \/ Abandon(c)
  PROVE  LiveInv'
<1>0. TypeInv /\ TypeOK /\ WellFormed
  BY DEF LiveInv, TypeInv
<1>1. CASE Submit(c)
  <2>1. PICK j \in Jobs, k \in Kinds, conf \in Configs \cup {NoConfig}, ok \in BOOLEAN :
          /\ job[j].status = NoRow
          /\ dep.status \in AllowedFrom[k]
          /\ job' = [job EXCEPT ![j].status = "pending"]
          /\ task' = [task EXCEPT ![j] = [kind |-> k, config |-> conf, confirmed |-> ok]]
          /\ request' = [request EXCEPT ![c] = [at |-> "created", job |-> j,
                                                seen |-> dep.status]]
    BY <1>1 DEF Submit
  <2>2. UNCHANGED <<dep, revs, queue, run, box, faults>> /\ request[c].at = "idle"
    BY <1>1 DEF Submit
  <2>3. /\ \A i \in Jobs : i # j => job'[i] = job[i] /\ task'[i] = task[i]
        /\ job'[j].status = "pending" /\ job'[j].previous = job[j].previous
        /\ task'[j].kind = k
    BY <1>0, <2>1 DEF TypeOK, JobRows
  <2>4. /\ request'[c].at = "created" /\ request'[c].job = j /\ request'[c].seen = dep.status
        /\ \A d \in Clients : d # c => request'[d] = request[d]
    BY <1>0, <2>1 DEF TypeOK
  <2>5. j # dep.last
    BY <2>1 DEF LiveInv, LastIsKnown
  <2>6. k = "redeploy" => dep.status \in Settled
    BY <2>1 DEF AllowedFrom, Settled
  <2>7. LastIsOpen' /\ LastIsKnown' /\ PreviousIsSettled'
    BY <2>2, <2>3, <2>5 DEF LiveInv, LastIsOpen, LastIsKnown, PreviousIsSettled, NoRow
  <2>8. RunsGiveBack'
    BY <2>2 DEF LiveInv, RunsGiveBack, GivesBack
  <2>9. RequestsAreFresh'
    BY <1>0, <2>1, <2>2, <2>3, <2>4, <2>5, <2>6 DEF LiveInv, RequestsAreFresh, WellFormed
  <2> QED
    BY <2>7, <2>8, <2>9 DEF LiveInv
<1>2. CASE Accept(c)
  <2> DEFINE j == request[c].job
             p == IF task[j].kind = "redeploy" THEN request[c].seen ELSE job[j].previous
  <2>1. /\ request[c].at = "created" /\ j \in Jobs
        /\ job[j].status = "pending" /\ j \notin queue
        /\ task[j].kind = "redeploy" => request[c].seen \in Settled
        /\ \A d \in Clients : request[d].at = "created" /\ request[d].job = j => d = c
        /\ \A w \in Workers : run[w].at # "idle" => run[w].job # j
    BY <1>0, <1>2 DEF Accept, LiveInv, RequestsAreFresh, WellFormed
  <2>2. /\ dep'.last = j /\ queue' = queue \cup {j} /\ UNCHANGED <<task, run>>
        /\ job' = [job EXCEPT ![j].previous = p]
        /\ request' = [request EXCEPT ![c] = IdleRequest]
    BY <1>0, <1>2 DEF Accept, TypeOK, Deployments
  <2>3. p \in Settled \cup {"none"} /\ (task[j].kind = "redeploy" => p \in Settled)
    BY <2>1 DEF LiveInv, PreviousIsSettled
  <2> HIDE DEF p
  <2>4. /\ \A i \in Jobs : i # j => job'[i] = job[i]
        /\ job'[j].status = "pending" /\ job'[j].previous = p
    BY <1>0, <2>1, <2>2 DEF TypeOK, JobRows
  <2>5. /\ request'[c].at = "idle"
        /\ \A d \in Clients : d # c => request'[d] = request[d]
    BY <1>0, <2>2 DEF TypeOK, IdleRequest
  <2>6. LastIsOpen' /\ LastIsKnown' /\ PreviousIsSettled'
    BY <2>1, <2>2, <2>3, <2>4
       DEF LiveInv, LastIsOpen, LastIsKnown, PreviousIsSettled, NoRow, Live
  <2>7. RunsGiveBack'
    BY <2>1, <2>2 DEF LiveInv, RunsGiveBack, GivesBack
  <2>8. RequestsAreFresh'
    BY <2>1, <2>2, <2>4, <2>5 DEF LiveInv, RequestsAreFresh, TypeInv, WellFormed
  <2> QED
    BY <2>6, <2>7, <2>8 DEF LiveInv
<1>3. CASE Abandon(c)
  <2>1. /\ UNCHANGED <<dep, revs, job, task, queue, run, box>>
        /\ \A d \in Clients : request'[d].at = "idle" \/ request'[d] = request[d]
    BY <1>0, <1>3 DEF Abandon, TypeOK, IdleRequest
  <2> QED
    BY <2>1 DEF LiveInv, LastIsOpen, LastIsKnown, PreviousIsSettled, RunsGiveBack,
                GivesBack, RequestsAreFresh
<1> QED
  BY <1>1, <1>2, <1>3

\* Taking a task of the last job of a busy deployment loads a busy status and a
\* settled one to fall back to.
LEMMA LiveTake ==
  ASSUME LiveInv, TypeInv', NEW w \in Workers, Take(w)
  PROVE  LiveInv'
<1>0. TypeInv /\ TypeOK /\ WellFormed
  BY DEF LiveInv, TypeInv
<1>1. PICK j \in queue :
        /\ queue' = queue \ {j}
        /\ run' = [run EXCEPT ![w] =
                     [IdleRun EXCEPT !.at = "loaded", !.job = j, !.seen = dep.status,
                                     !.seenConfig = dep.config, !.seenJob = job[j].status,
                                     !.old = FallBack(j),
                                     !.todo = Script(task[j].kind, dep.config)]]
  BY DEF Take
<1> DEFINE r == [IdleRun EXCEPT !.at = "loaded", !.job = j, !.seen = dep.status,
                                !.seenConfig = dep.config, !.seenJob = job[j].status,
                                !.old = FallBack(j),
                                !.todo = Script(task[j].kind, dep.config)]
<1>2. /\ r.at = "loaded" /\ r.job = j /\ r.seen = dep.status /\ r.old = FallBack(j)
      /\ \A v \in Workers : run'[v] = IF v = w THEN r ELSE run[v]
  BY <1>0, <1>1 DEF IdleRun, TypeOK
<1> HIDE DEF r
<1>3. UNCHANGED <<dep, job, task, request>> /\ j \in Jobs
  BY <1>0 DEF Take, TypeOK
<1>4. FallBack(j) \in Settled \cup {dep.status}
  BY <1>3 DEF FallBack, LiveInv, PreviousIsSettled, Settled
<1>5. dep.status \in Busy /\ j = dep.last => FallBack(j) \in Settled
  BY <1>3 DEF FallBack, LiveInv, LastIsOpen, Settled
<1>6. LastIsOpen' /\ LastIsKnown' /\ PreviousIsSettled'
  BY <1>3 DEF LiveInv, LastIsOpen, LastIsKnown, PreviousIsSettled
<1>7. RunsGiveBack'
  BY <1>2, <1>3, <1>4, <1>5 DEF LiveInv, RunsGiveBack, GivesBack
<1>8. RequestsAreFresh'
  BY <1>1, <1>2, <1>3 DEF LiveInv, RequestsAreFresh
<1> QED
  BY <1>6, <1>7, <1>8 DEF LiveInv

\* The same for a step that leaves the rows of jobs alone.
LEMMA LiveRunOnly ==
  ASSUME LiveInv, TypeInv', NEW w \in Workers, NEW r,
         run[w].at # "idle", r.job = run[w].job,
         run' = [run EXCEPT ![w] = r],
         UNCHANGED <<job, task, queue, request>>,
         dep'.last = dep.last,
         dep'.status \in Busy => dep'.status = dep.status,
         GivesBack(r, dep')
  PROVE  LiveInv'
<1> DEFINE row == job[run[w].job]
<1>1. /\ row.status # NoRow /\ row.previous \in Settled \cup {"none"}
      /\ job' = [job EXCEPT ![run[w].job] = row]
  BY DEF LiveInv, TypeInv, TypeOK, WellFormed, PreviousIsSettled
<1>2. dep'.status \in Busy /\ run[w].job = dep.last => row.status \in Live
  BY DEF LiveInv, LastIsOpen
<1> QED
  BY <1>1, <1>2, LiveRunStep

\* The commands, the probe and the storing of a revision.
LEMMA LiveMiddle ==
  ASSUME LiveInv, TypeInv', NEW w \in Workers,
         \/ CommandSucceeds(w) \/ CommandFails(w) \/ Probe(w)
         \/ ApplyConfig(w) \/ PointRevision(w)
  PROVE  LiveInv'
<1>0. /\ run \in [Workers -> Runs] /\ run[w] \in Runs /\ dep \in Deployments
      /\ GivesBack(run[w], dep)
  BY DEF LiveInv, TypeInv, TypeOK, RunsGiveBack
<1>1. CASE CommandSucceeds(w) \/ CommandFails(w) \/ Probe(w)
  <2> DEFINE r == run'[w]
  <2>1. UNCHANGED <<dep, job, task, queue, request>> /\ run[w].at \in {"command", "probe"}
    BY <1>1 DEF CommandSucceeds, CommandFails, Probe
  <2>2. /\ run' = [run EXCEPT ![w] = r] /\ r.job = run[w].job /\ r.seen = run[w].seen
        /\ r.old = run[w].old /\ r.at \in {"command", "probe", "fail", "apply", "settle"}
    <3>1. CASE CommandSucceeds(w)
      <4> DEFINE after == IF Len(run[w].todo) = 1
                          THEN AfterCommands(task[run[w].job].kind) ELSE run[w].at
      <4>1. /\ run' = [run EXCEPT ![w].todo = Tail(run[w].todo), ![w].at = after]
            /\ after \in {"settle", "probe", "command"}
        BY <3>1 DEF CommandSucceeds, AfterCommands
      <4> DEFINE new == [run[w] EXCEPT !.todo = Tail(run[w].todo), !.at = after]
      <4>2. run' = [run EXCEPT ![w] = new]
        BY <4>1
      <4>3. /\ new.job = run[w].job /\ new.seen = run[w].seen /\ new.old = run[w].old
            /\ new.at = after
        BY <1>0 DEF Runs
      <4> HIDE DEF after, new
      <4>4. r = new
        BY <1>0, <4>2
      <4> QED
        BY <4>1, <4>2, <4>3, <4>4
    <3>2. CASE CommandFails(w)
      BY <1>0, <3>2 DEF CommandFails, Runs
    <3>3. CASE Probe(w)
      <4>1. PICK h, after :
              /\ run' = [run EXCEPT ![w].health = h, ![w].at = after]
              /\ after \in {"fail", "apply", "settle"}
        BY <3>3 DEF Probe
      <4> DEFINE new == [run[w] EXCEPT !.health = h, !.at = after]
      <4>2. run' = [run EXCEPT ![w] = new]
        BY <4>1
      <4>3. /\ new.job = run[w].job /\ new.seen = run[w].seen /\ new.old = run[w].old
            /\ new.at = after
        BY <1>0 DEF Runs
      <4> HIDE DEF new
      <4>4. r = new
        BY <1>0, <4>2
      <4> QED
        BY <4>1, <4>2, <4>3, <4>4
    <3> QED
      BY <1>1, <3>1, <3>2, <3>3
  <2>3. GivesBack(r, dep)
    BY <1>0, <2>1, <2>2 DEF GivesBack, MayFail, Active
  <2> HIDE DEF r
  <2> QED
    BY <2>1, <2>2, <2>3, LiveRunOnly
<1>2. CASE ApplyConfig(w)
  <2> DEFINE r == run'[w]
  <2>1. /\ UNCHANGED <<job, task, queue, request>> /\ run[w].at = "apply"
        /\ dep'.last = dep.last /\ dep'.status = dep.status
    BY <1>0, <1>2 DEF ApplyConfig, Deployments
  <2>2. /\ run' = [run EXCEPT ![w] = r] /\ r.job = run[w].job /\ r.seen = run[w].seen
        /\ r.at = "point"
    BY <1>0, <1>2 DEF ApplyConfig, Runs
  <2>3. GivesBack(r, dep')
    BY <1>0, <2>1, <2>2 DEF GivesBack, MayFail, Active
  <2> HIDE DEF r
  <2> QED
    BY <2>1, <2>2, <2>3, LiveRunOnly
<1>3. CASE PointRevision(w)
  <2> DEFINE r == run'[w]
  <2>1. /\ UNCHANGED <<job, task, queue, request>> /\ run[w].at = "point"
        /\ dep'.last = dep.last /\ dep'.status = dep.status
    BY <1>0, <1>3 DEF PointRevision, Deployments
  <2>2. /\ run' = [run EXCEPT ![w] = r] /\ r.job = run[w].job /\ r.seen = dep.status
        /\ r.at = "settle"
    BY <1>0, <1>3 DEF PointRevision, Runs
  <2>3. GivesBack(r, dep')
    BY <1>0, <2>1, <2>2 DEF GivesBack, MayFail, Active
  <2> HIDE DEF r
  <2> QED
    BY <2>1, <2>2, <2>3, LiveRunOnly
<1> QED
  BY <1>1, <1>2, <1>3

\* Marking a job running, settling the deployment and closing the job.
LEMMA LiveEnds ==
  ASSUME LiveInv, TypeInv', NEW w \in Workers,
         \/ Begin(w) \/ Settle(w) \/ Finish(w) \/ Fail(w) \/ FailJob(w)
         \/ MarkTaskFailed(w) \/ Ack(w)
  PROVE  LiveInv'
<1> DEFINE j == run[w].job
           r == run'[w]
<1>0. /\ run \in [Workers -> Runs] /\ run[w] \in Runs /\ dep \in Deployments
      /\ GivesBack(run[w], dep) /\ job \in [Jobs -> JobRows]
      /\ run[w].at # "idle" =>
           /\ j \in Jobs /\ job[j] \in JobRows /\ job[j].status # NoRow
           /\ job[j].previous \in Settled \cup {"none"}
           /\ dep.status \in Busy /\ j = dep.last => job[j].status \in Live
  BY DEF LiveInv, TypeInv, TypeOK, WellFormed, RunsGiveBack, PreviousIsSettled, LastIsOpen
<1>1. CASE Begin(w)
  <2> DEFINE row == MarkRunning(job[j], run[w].seenJob)
  <2>1. /\ UNCHANGED <<dep, task, queue, request>> /\ run[w].at = "loaded"
        /\ job' = [job EXCEPT ![j] = row]
    BY <1>1 DEF Begin
  <2>2. /\ run' = [run EXCEPT ![w] = r] /\ r.job = j /\ r.seen = run[w].seen
        /\ r.old = run[w].old /\ r.at \in {"command", "fail"}
    BY <1>0, <1>1 DEF Begin, Runs
  <2>3. GivesBack(r, dep)
    BY <1>0, <2>1, <2>2 DEF GivesBack, MayFail, Active
  <2>4. /\ row.status \in {"running", job[j].status} /\ row.previous = job[j].previous
        /\ row.status # NoRow
    BY <1>0, <2>1 DEF MarkRunning, Flush, JobRows, NoRow
  <2> HIDE DEF r, row
  <2> QED
    BY <1>0, <2>1, <2>2, <2>3, <2>4, LiveRunStep DEF Live
<1>2. CASE Settle(w)
  <2> DEFINE row == SaveResult(job[j])
  <2>1. /\ UNCHANGED <<task, queue, request>> /\ run[w].at = "settle"
        /\ job' = [job EXCEPT ![j] = row]
        /\ dep'.last = dep.last
        /\ dep'.status = Flush(run[w].seen, Outcome(w), dep.status)
    BY <1>0, <1>2 DEF Settle, Deployments
  <2>2. /\ run' = [run EXCEPT ![w] = r] /\ r.job = j /\ r.at = "finish"
    BY <1>0, <1>2 DEF Settle, Runs
  <2>3. dep'.status \in Busy => dep'.status = dep.status /\ j # dep.last
    BY <1>0, <2>1, OutcomeTyped, BusyOrSettled DEF Flush, GivesBack, Active
  <2>4. GivesBack(r, dep')
    BY <2>1, <2>2, <2>3 DEF GivesBack, MayFail
  <2>5. /\ row.status = job[j].status /\ row.previous \in Settled \cup {"none"}
    BY <1>0, <2>1 DEF SaveResult, JobRows
  <2> HIDE DEF r, row
  <2> QED
    BY <1>0, <2>1, <2>2, <2>3, <2>4, <2>5, LiveRunStep
<1>3. CASE Fail(w)
  <2>1. /\ UNCHANGED <<job, task, queue, request>> /\ run[w].at = "fail"
        /\ dep'.last = dep.last
        /\ dep'.status = Flush(run[w].seen, run[w].old, dep.status)
    BY <1>0, <1>3 DEF Fail, Deployments
  <2>2. /\ run' = [run EXCEPT ![w] = r] /\ r.job = j /\ r.at = "mark_failed"
    BY <1>0, <1>3 DEF Fail, Step, Runs
  <2>3. dep'.status \in Busy => dep'.status = dep.status /\ j # dep.last
    BY <1>0, <2>1, BusyOrSettled DEF Flush, GivesBack, Active, MayFail
  <2>4. GivesBack(r, dep')
    BY <2>1, <2>2, <2>3 DEF GivesBack, MayFail
  <2> HIDE DEF r
  <2> QED
    BY <2>1, <2>2, <2>3, <2>4, LiveRunOnly
<1>4. CASE Finish(w) \/ FailJob(w)
  <2> DEFINE row == job'[j]
  <2>1. /\ UNCHANGED <<dep, task, queue, request>>
        /\ run[w].at \in {"finish", "mark_failed"}
    BY <1>4 DEF Finish, FailJob
  <2>2. /\ run' = [run EXCEPT ![w] = r] /\ r.job = j /\ r.at = "ack"
    BY <1>0, <1>4 DEF Finish, FailJob, Step, Runs
  <2>3. dep.status \in Busy => j # dep.last
    BY <1>0, <2>1 DEF GivesBack
  <2>4. GivesBack(r, dep)
    BY <2>2, <2>3 DEF GivesBack, MayFail
  <2>5. /\ job' = [job EXCEPT ![j] = row] /\ row.status # NoRow
        /\ row.previous = job[j].previous
    BY <1>0, <1>4, <2>1 DEF Finish, FailJob, MarkSucceeded, MarkFailed, Flush, JobRows, NoRow
  <2> HIDE DEF r, row
  <2> QED
    BY <1>0, <2>1, <2>2, <2>3, <2>4, <2>5, LiveRunStep
<1>5. CASE MarkTaskFailed(w)
  BY <1>0, <1>5 DEF MarkTaskFailed, GivesBack
<1>6. CASE Ack(w)
  BY <1>6, LiveIdle DEF Ack
<1> QED
  BY <1>1, <1>2, <1>3, <1>4, <1>5, <1>6

\* The faults, if an exception that nobody catches cannot end a Celery task: that
\* handler closes the job of a deployment it leaves busy.
LEMMA LiveFaults ==
  ASSUME ~Celery \/ "raise" \notin Faults, LiveInv, TypeInv',
         \/ \E w \in Workers : Raise(w) \/ Crash(w) \/ Redeliver(w)
         \/ \E w \in Workers : Late(w)
         \/ Lose \/ Serve \/ Die
  PROVE  LiveInv'
<1>0. TypeInv /\ TypeOK /\ WellFormed
  BY DEF LiveInv, TypeInv
<1>1. ASSUME NEW w \in Workers, Raise(w) PROVE LiveInv'
  <2> DEFINE r == run'[w]
  <2>1. /\ UNCHANGED <<dep, job, task, queue, request>> /\ run[w].at # "idle"
        /\ run' = [run EXCEPT ![w].at = "ack"]
    BY <1>1 DEF Raise, Fault, Step
  <2>2. /\ run' = [run EXCEPT ![w] = r] /\ r.job = run[w].job /\ r.at = "ack"
    BY <1>0, <2>1 DEF TypeOK, Runs
  <2>3. GivesBack(r, dep)
    BY <2>2 DEF GivesBack, MayFail, Active
  <2> HIDE DEF r
  <2> QED
    BY <2>1, <2>2, <2>3, LiveRunOnly
<1>2. ASSUME NEW w \in Workers, Crash(w) PROVE LiveInv'
  BY <1>2, LiveIdle DEF Crash
<1>3. ASSUME NEW w \in Workers, Redeliver(w) PROVE LiveInv'
  <2>1. /\ queue' = queue \cup {run[w].job} /\ run[w].at # "idle"
        /\ run' \in {run, [run EXCEPT ![w] = IdleRun]}
        /\ UNCHANGED <<dep, job, task, request>>
    BY <1>3 DEF Redeliver
  <2>2. \A v \in Workers : run'[v] = run[v] \/ run'[v].at = "idle"
    BY <1>0, <2>1 DEF TypeOK, IdleRun
  <2>3. LastIsOpen' /\ LastIsKnown' /\ PreviousIsSettled'
    BY <2>1 DEF LiveInv, LastIsOpen, LastIsKnown, PreviousIsSettled
  <2>4. RunsGiveBack'
    <3> SUFFICES ASSUME NEW v \in Workers PROVE GivesBack(run'[v], dep')
      BY DEF RunsGiveBack
    <3>1. GivesBack(run[v], dep)
      BY DEF LiveInv, RunsGiveBack
    <3> QED
      BY <2>1, <2>2, <3>1 DEF GivesBack, MayFail, Active
  <2>5. RequestsAreFresh'
    BY <2>1, <2>2 DEF LiveInv, RequestsAreFresh
  <2> QED
    BY <2>3, <2>4, <2>5 DEF LiveInv
<1>4. CASE Lose \/ Serve \/ Die
  <2>1. /\ queue' \subseteq queue
        /\ UNCHANGED <<dep, job, task, request, run>>
    BY <1>4 DEF Lose, Serve, Die
  <2>2. RunsGiveBack' /\ RequestsAreFresh'
    BY <2>1 DEF LiveInv, RunsGiveBack, GivesBack, RequestsAreFresh
  <2> QED
    BY <2>1, <2>2 DEF LiveInv, LastIsOpen, LastIsKnown, PreviousIsSettled
<1>5. ASSUME NEW w \in Workers, Late(w) PROVE LiveInv'
  <2> DEFINE r == run'[w]
  <2>1. /\ UNCHANGED <<dep, job, task, queue, request>> /\ run[w].at # "idle"
        /\ run' = [run EXCEPT ![w].todo = <<>>]
    BY <1>5 DEF Late
  <2>2. /\ run' = [run EXCEPT ![w] = r] /\ r.job = run[w].job /\ r.at = run[w].at
        /\ r.seen = run[w].seen /\ r.old = run[w].old
    BY <1>0, <2>1 DEF TypeOK, Runs
  <2>3. GivesBack(r, dep)
    BY <2>2 DEF LiveInv, RunsGiveBack, GivesBack
  <2> HIDE DEF r
  <2> QED
    BY <2>1, <2>2, <2>3, LiveRunOnly
<1> QED
  BY <1>1, <1>2, <1>3, <1>4, <1>5

LEMMA LiveStep ==
  ASSUME ~Celery \/ "raise" \notin Faults
  PROVE  LiveInv /\ [Next]_vars => LiveInv'
<1> SUFFICES ASSUME LiveInv, [Next]_vars PROVE LiveInv'
  OBVIOUS
<1>0. TypeInv'
  BY TypeStep DEF LiveInv
<1>1. CASE \E c \in Clients : Submit(c) \/ Accept(c) \/ Abandon(c)
  BY <1>0, <1>1, LiveRequests
<1>2. CASE \E w \in Workers : Take(w) \/ RunStep(w)
  BY <1>0, <1>2, LiveTake, LiveMiddle, LiveEnds DEF RunStep
<1>3. CASE \/ \E w \in Workers : Raise(w) \/ Crash(w) \/ Redeliver(w)
           \/ \E w \in Workers : Late(w)
           \/ Lose \/ Serve \/ Die
  BY <1>0, <1>3, LiveFaults
<1>4. CASE UNCHANGED vars
  BY <1>0, <1>4 DEF vars, LiveInv, LastIsOpen, LastIsKnown, PreviousIsSettled,
                    RunsGiveBack, GivesBack, RequestsAreFresh
<1> QED
  BY <1>1, <1>2, <1>3, <1>4 DEF Next

\* However requests, runs of different jobs, crashes, lost and repeated tasks
\* interleave, a deployment is busy only with a job that has not ended, as long as
\* no exception escapes from a Celery task.
THEOREM BusyNamesLiveJob ==
  ASSUME ~Celery \/ "raise" \notin Faults
  PROVE  Spec => []BusyHasLiveJob
<1>1. LiveInv => BusyHasLiveJob
  BY DEF LiveInv, LastIsOpen, BusyHasLiveJob
<1>2. LiveInv /\ [Next]_vars => LiveInv'
  BY LiveStep
<1> QED
  BY <1>1, <1>2, LiveInit, PTL DEF Spec

-----------------------------------------------------------------------------
(* Guarded operations of one client exclude each other                       *)

\* While a run acts, nothing else may start.
ActingAlone ==
  \A w \in Workers : Acting(w) =>
    /\ dep.status \in Busy /\ queue = {}
    /\ \A v \in Workers : Acting(v) => v = w

\* The same while its task waits ...
WaitingAlone ==
  \A j \in queue : dep.status \in Busy /\ queue = {j}

\* ... and between the two commits of its request, which found no busy status.
RequestedAlone ==
  \A c \in Clients : request[c].at = "created" =>
    request[c].seen \notin Busy /\ queue = {} /\ Quiet

Exclusive == TypeInv /\ ActingAlone /\ WaitingAlone /\ RequestedAlone

\* A step of a run leaves the others alone, never starts one, and writes the
\* deployment's status only to end its own acting.
LEMMA RunStepShape ==
  ASSUME TypeInv, NEW w \in Workers, RunStep(w) \/ Raise(w) \/ Crash(w)
  PROVE  /\ UNCHANGED <<queue, request>>
         /\ \A v \in Workers : v # w => run'[v] = run[v]
         /\ Acting(w)' => Acting(w) /\ dep'.status = dep.status
         /\ ~Acting(w) => dep' = dep
<1>0. run \in [Workers -> Runs] /\ run[w] \in Runs /\ dep \in Deployments
  BY DEF TypeInv, TypeOK
<1>1. CASE Begin(w) \/ CommandSucceeds(w) \/ CommandFails(w) \/ Probe(w)
  <2>1. UNCHANGED <<dep, queue, request>> /\ Acting(w)
    BY <1>1 DEF Begin, CommandSucceeds, CommandFails, Probe, Acting, Active
  <2>2. \A v \in Workers : v # w => run'[v] = run[v]
    <3>1. CASE Begin(w) \/ CommandFails(w)
      BY <1>0, <3>1 DEF Begin, CommandFails, Step
    <3>2. CASE CommandSucceeds(w)
      BY <1>0, <3>2 DEF CommandSucceeds
    <3>3. CASE Probe(w)
      BY <1>0, <3>3 DEF Probe
    <3> QED
      BY <1>1, <3>1, <3>2, <3>3
  <2> QED
    BY <2>1, <2>2
<1>2. CASE ApplyConfig(w) \/ PointRevision(w)
  <2>1. UNCHANGED <<queue, request>> /\ Acting(w) /\ dep'.status = dep.status
    BY <1>0, <1>2 DEF ApplyConfig, PointRevision, Acting, Active, Deployments
  <2>2. \A v \in Workers : v # w => run'[v] = run[v]
    BY <1>0, <1>2 DEF ApplyConfig, PointRevision
  <2> QED
    BY <2>1, <2>2
<1>3. CASE Settle(w) \/ Fail(w)
  <2>1. UNCHANGED <<queue, request>> /\ Acting(w)
    BY <1>3 DEF Settle, Fail, Acting, Active
  <2>2. \A v \in Workers : v # w => run'[v] = run[v]
    BY <1>0, <1>3 DEF Settle, Fail, Step
  <2>3. run'[w].at \in {"finish", "mark_failed"}
    BY <1>0, <1>3 DEF Settle, Fail, Step, Runs
  <2> QED
    BY <2>1, <2>2, <2>3 DEF Acting, Active
<1>4. CASE Finish(w) \/ FailJob(w) \/ MarkTaskFailed(w) \/ Ack(w) \/ Raise(w) \/ Crash(w)
  <2>1. UNCHANGED <<dep, queue, request>>
    BY <1>4 DEF Finish, FailJob, MarkTaskFailed, Ack, Raise, Crash
  <2>2. \A v \in Workers : v # w => run'[v] = run[v]
    BY <1>0, <1>4 DEF Finish, FailJob, MarkTaskFailed, Ack, Raise, Crash, Step
  <2>3. run'[w].at \in {"ack", "raised", "idle"}
    BY <1>0, <1>4 DEF Finish, FailJob, MarkTaskFailed, Ack, Raise, Crash, Step, IdleRun, Runs
  <2> QED
    BY <2>1, <2>2, <2>3 DEF Acting, Active
<1> QED
  BY <1>1, <1>2, <1>3, <1>4 DEF RunStep

LEMMA ExclusiveInit == Init => Exclusive
<1> SUFFICES ASSUME Init PROVE Exclusive
  OBVIOUS
<1>1. /\ queue = {} /\ \A w \in Workers : run[w].at = "idle"
      /\ \A c \in Clients : request[c].at = "idle"
  BY DEF Init, IdleRun, IdleRequest
<1> QED
  BY <1>1, TypeInit DEF Exclusive, ActingAlone, WaitingAlone, RequestedAlone, Acting, Active

LEMMA ExclusiveRuns ==
  ASSUME Exclusive, TypeInv', NEW w \in Workers, RunStep(w) \/ Raise(w) \/ Crash(w)
  PROVE  Exclusive'
<1>1. /\ UNCHANGED <<queue, request>>
      /\ \A v \in Workers : v # w => run'[v] = run[v]
      /\ Acting(w)' => Acting(w) /\ dep'.status = dep.status
      /\ ~Acting(w) => dep' = dep
  BY RunStepShape DEF Exclusive
<1>2. \A v \in Workers : Acting(v)' => Acting(v)
  BY <1>1 DEF Acting
<1>3. ActingAlone'
  <2> SUFFICES ASSUME NEW v \in Workers, Acting(v)'
               PROVE  /\ dep'.status \in Busy /\ queue' = {}
                      /\ \A u \in Workers : Acting(u)' => u = v
    BY DEF ActingAlone
  <2>1. /\ dep.status \in Busy /\ queue = {}
        /\ \A u \in Workers : Acting(u) => u = v
    BY <1>2 DEF Exclusive, ActingAlone
  <2>2. dep'.status = dep.status
    BY <1>1, <2>1
  <2> QED
    BY <1>1, <1>2, <2>1, <2>2
<1>4. WaitingAlone'
  BY <1>1 DEF Exclusive, WaitingAlone, ActingAlone
<1>5. RequestedAlone'
  BY <1>1, <1>2 DEF Exclusive, RequestedAlone, Quiet
<1> QED
  BY <1>3, <1>4, <1>5 DEF Exclusive

LEMMA ExclusiveRequests ==
  ASSUME \A a, b \in Clients : a = b, "deploy" \notin Kinds,
         Exclusive, TypeInv', NEW c \in Clients, Submit(c) \/ Accept(c) \/ Abandon(c)
  PROVE  Exclusive'
<1>0. TypeOK /\ WellFormed
  BY DEF Exclusive, TypeInv
<1>1. CASE Submit(c)
  <2>1. PICK j \in Jobs, k \in Kinds :
          /\ dep.status \in AllowedFrom[k]
          /\ request' = [request EXCEPT ![c] = [at |-> "created", job |-> j,
                                                seen |-> dep.status]]
    BY <1>1 DEF Submit
  <2>2. UNCHANGED <<dep, queue, run>>
    BY <1>1 DEF Submit
  <2>3. k \in {"restart", "stop", "start", "redeploy"}
    BY Parameters DEF Parameters, AllKinds
  <2>4. dep.status \notin Busy
    BY <2>1, <2>3 DEF AllowedFrom, Busy
  <2>5. queue = {} /\ Quiet
    BY <2>4 DEF Exclusive, ActingAlone, WaitingAlone, Quiet
  <2>6. /\ request'[c].seen = dep.status
        /\ \A d \in Clients : d = c
    BY <1>0, <2>1 DEF TypeOK
  <2>7. RequestedAlone' /\ ActingAlone' /\ WaitingAlone'
    BY <2>2, <2>4, <2>5, <2>6 DEF RequestedAlone, ActingAlone, WaitingAlone, Quiet, Acting
  <2> QED
    BY <2>7 DEF Exclusive
<1>2. CASE Accept(c)
  <2> DEFINE j == request[c].job
  <2>1. /\ request[c].at = "created" /\ queue' = queue \cup {j} /\ UNCHANGED run
        /\ dep'.status = Flush(request[c].seen, Transition[task[j].kind], dep.status)
        /\ request' = [request EXCEPT ![c] = IdleRequest]
    BY <1>0, <1>2 DEF Accept, TypeOK, Deployments
  <2>2. request[c].seen \notin Busy /\ queue = {} /\ Quiet
    BY <2>1 DEF Exclusive, RequestedAlone
  <2>3. Transition[task[j].kind] \in Busy
    <3>1. task[j].kind \in AllKinds
      BY <1>0, <2>1 DEF TypeOK, WellFormed, Tasks
    <3> QED
      BY <3>1 DEF AllKinds, Transition, Busy
  <2>4. dep'.status \in Busy /\ queue' = {j}
    BY <2>1, <2>2, <2>3 DEF Flush
  <2>5. \A d \in Clients : request'[d].at = "idle"
    BY <1>0, <2>1 DEF TypeOK, IdleRequest
  <2>6. Quiet'
    BY <2>1, <2>2 DEF Quiet, Acting
  <2>7. RequestedAlone' /\ ActingAlone' /\ WaitingAlone'
    BY <2>4, <2>5, <2>6 DEF RequestedAlone, ActingAlone, WaitingAlone, Quiet
  <2> QED
    BY <2>7 DEF Exclusive
<1>3. CASE Abandon(c)
  <2>1. /\ UNCHANGED <<dep, queue, run>>
        /\ \A d \in Clients : request'[d].at = "idle" \/ request'[d] = request[d]
    BY <1>0, <1>3 DEF Abandon, TypeOK, IdleRequest
  <2> QED
    BY <2>1 DEF Exclusive, RequestedAlone, ActingAlone, WaitingAlone, Quiet, Acting
<1> QED
  BY <1>1, <1>2, <1>3

\* The only task moves from the queue to a worker.
LEMMA ExclusiveTake ==
  ASSUME Exclusive, TypeInv', NEW w \in Workers, Take(w)
  PROVE  Exclusive'
<1>0. TypeOK
  BY DEF Exclusive, TypeInv
<1>1. PICK j \in queue : queue' = queue \ {j} /\ \E r : run' = [run EXCEPT ![w] = r]
  BY DEF Take
<1>2. UNCHANGED <<dep, request>>
  BY DEF Take
<1>3. dep.status \in Busy /\ queue' = {}
  BY <1>1 DEF Exclusive, WaitingAlone
<1>4. \A v \in Workers : v # w => ~Acting(v)'
  BY <1>0, <1>1 DEF Exclusive, ActingAlone, Acting, TypeOK
<1>5. \A c \in Clients : request'[c].at # "created"
  BY <1>1, <1>2 DEF Exclusive, RequestedAlone
<1> QED
  BY <1>2, <1>3, <1>4, <1>5 DEF Exclusive, RequestedAlone, ActingAlone, WaitingAlone

LEMMA ExclusiveStep ==
  ASSUME \A a, b \in Clients : a = b, "deploy" \notin Kinds, "redeliver" \notin Faults
  PROVE  Exclusive /\ [Next]_vars => Exclusive'
<1> SUFFICES ASSUME Exclusive, [Next]_vars PROVE Exclusive'
  OBVIOUS
<1>0. TypeInv'
  BY TypeStep DEF Exclusive
<1>1. CASE \E c \in Clients : Submit(c) \/ Accept(c) \/ Abandon(c)
  BY <1>0, <1>1, ExclusiveRequests
<1>2. CASE \E w \in Workers : Take(w) \/ RunStep(w)
  BY <1>0, <1>2, ExclusiveTake, ExclusiveRuns
<1>3. CASE \E w \in Workers : Raise(w) \/ Crash(w) \/ Redeliver(w)
  BY <1>0, <1>3, ExclusiveRuns DEF Redeliver, Fault
<1>4. CASE Lose \/ Serve \/ Die \/ UNCHANGED vars
  <2>1. queue' \subseteq queue /\ UNCHANGED <<dep, request, run>>
    BY <1>4 DEF Lose, Serve, Die, vars
  <2>2. \A v \in Workers : Acting(v)' = Acting(v)
    BY <2>1 DEF Acting
  <2> QED
    BY <1>0, <2>1, <2>2 DEF Exclusive, RequestedAlone, ActingAlone, WaitingAlone, Quiet
<1>5. ASSUME NEW w \in Workers, Late(w) PROVE Exclusive'
  <2>1. UNCHANGED <<dep, queue, request>> /\ run' = [run EXCEPT ![w].todo = <<>>]
    BY <1>5 DEF Late
  <2>2. \A v \in Workers : Acting(v)' = Acting(v)
    BY <2>1 DEF Acting, Exclusive, TypeInv, TypeOK, Runs
  <2> QED
    BY <1>0, <2>1, <2>2 DEF Exclusive, RequestedAlone, ActingAlone, WaitingAlone, Quiet
<1> QED
  BY <1>1, <1>2, <1>3, <1>4, <1>5 DEF Next

\* Restarts, stops, starts and redeployments of one client never act on the
\* deployment at the same time, whatever crashes, is lost or raises.  The assumptions
\* are needed: two requests may both read a free status, a deploy reads none, and a
\* repeated delivery may find its first run still at work.
THEOREM GuardedRunsExclude ==
  ASSUME \A a, b \in Clients : a = b, "deploy" \notin Kinds, "redeliver" \notin Faults
  PROVE  Spec => []OneAtATime
<1>1. Exclusive => OneAtATime
  BY DEF Exclusive, ActingAlone, OneAtATime
<1>2. Exclusive /\ [Next]_vars => Exclusive'
  BY ExclusiveStep
<1> QED
  BY <1>1, <1>2, ExclusiveInit, PTL DEF Spec
================================================================================
