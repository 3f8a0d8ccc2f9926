----------------------------- MODULE HostTruth_proofs -----------------------------
(***************************************************************************)
(* Theorems of HostChecks on what the rows of jobs say of their host: two  *)
(* for one operator who waits, the last one for any; for any number of     *)
(* jobs, workers and faults.                                               *)
(***************************************************************************)
EXTENDS HostChecks_proofs

-----------------------------------------------------------------------------
(* What a run knows of itself and of its job                                 *)

Before == {"loaded", "orphan", "checking", "installing", "restarting"}

\* A run has no verdict before its end, installs a component only for an installation
\* and looks for it again, and ends with the container test.
RunTruth(r) ==
  /\ r.at = "idle" => r = IdleRun
  /\ r.at \in Before => r.verdict = "none"
  /\ r.at \in {"installing", "restarting"} => r.mode = "install" /\ Head(r.todo) \in Components
  /\ r.mode # "ssh" /\ r.todo # <<>> => r.todo[Len(r.todo)] = "container"
  /\ r.again => r.at = "checking" /\ r.mode = "install" /\ Head(r.todo) \in Components

\* SSH checks are tasks of their own jobs.
KindInv ==
  /\ \A j \in Jobs, m \in Modes :
       queue[<<j, m>>] # 0 => (m = "ssh" <=> job[j].type = "ssh")
  /\ \A w \in Workers :
       run[w].at # "idle" => (run[w].mode = "ssh" <=> job[run[w].job].type = "ssh")
  /\ \A c \in Clients : request[c].job \in Jobs => job[request[c].job].type = "check"

TruthInv == OwnerInv /\ KindInv /\ \A w \in Workers : RunTruth(run[w])

\* A job that has not succeeded and is not about to.
Unsettled(j) ==
  /\ job[j].type = "check" /\ job[j].status \notin {NoRow, "succeeded"}
  /\ \A w \in Workers : run[w].job = j => run[w].verdict # "succeeded"

Succeeding == \E w \in Workers : run[w].mode # "ssh" /\ run[w].verdict = "succeeded"
Succeeded == \E j \in Jobs : job[j].type = "check" /\ job[j].status = "succeeded"

ReadyInv ==
  Succeeded \/ Succeeding
  => host.driver /\ host.runtime /\ (host.docker \/ \E j \in Jobs : Unsettled(j))

\* While there is one installation and no fault, what was installed is still there when
\* it is looked for again, and a running job has its run.
WorkInv ==
  /\ ~overlap => \A v, w \in Workers :
                   run[v].mode = "install" /\ run[w].mode = "install" => v = w
  /\ faults = 0 => exists
  /\ faults = 0 /\ ~overlap =>
       /\ \A w \in Workers : run[w].again => Present(Head(run[w].todo))
       /\ \A j \in Jobs : job[j].status = "running" => \E w \in Workers : run[w].job = j

-----------------------------------------------------------------------------
(* How one task moves                                                        *)

\* The run r moves on to s, for the same job.
Follows(r, s) ==
  \/ s = IdleRun
  \/ /\ s.at \notin {"idle", "orphan"} /\ s.job = r.job /\ s.mode = r.mode /\ s.seenShown = r.seenShown
     /\ RunTruth(s)

LEMMA IdleTruth == RunTruth(IdleRun) /\ IdleRun.at = "idle" /\ IdleRun.job = NoJob
                   /\ IdleRun.mode = "ssh" /\ IdleRun.verdict = "none" /\ ~IdleRun.again
                   /\ IdleRun.seenShown = "none"
BY DEF IdleRun, RunTruth, Before

LEMMA StepsEnd ==
  ASSUME NEW m \in Modes, m # "ssh"
  PROVE  Steps(m) \in Seq(StepNames) /\ Steps(m)[Len(Steps(m))] = "container"
<1> DEFINE first == <<"access">>
           rest == <<"driver", "docker", "runtime", "container">>
<1>1. first \in Seq(StepNames) /\ Len(first) = 1
  BY DEF StepNames
<1>2. rest \in Seq(StepNames) /\ Len(rest) = 4 /\ rest[4] = "container"
  BY DEF StepNames, Components
<1>3. Steps(m) = first \o rest
  BY DEF Steps
<1> HIDE DEF first, rest
<1>4. /\ Len(first \o rest) = Len(first) + Len(rest)
      /\ \A i \in 1 .. Len(first) + Len(rest) :
           (first \o rest)[i] = IF i <= Len(first) THEN first[i] ELSE rest[i - Len(first)]
  BY <1>1, <1>2, ConcatProperties, Zenon
<1>5. Len(first \o rest) = 5 /\ (first \o rest)[5] = rest[4]
  BY <1>1, <1>2, <1>4
<1> QED
  BY <1>2, <1>3, <1>5, StepsTyped

\* The last element stays the last one.
LEMMA TailEnd ==
  ASSUME NEW s \in Seq(StepNames), s # <<>>
  PROVE  /\ Tail(s) # <<>> => Tail(s)[Len(Tail(s))] = s[Len(s)]
         /\ Tail(s) = <<>> => Head(s) = s[Len(s)]
<1>1. /\ Tail(s) \in Seq(StepNames) /\ Len(Tail(s)) = Len(s) - 1 /\ Head(s) = s[1]
      /\ \A i \in 1..Len(Tail(s)) : Tail(s)[i] = s[i + 1]
      /\ Len(s) \in Nat /\ Len(s) # 0
  BY HeadTailProperties, EmptySeq, LenProperties
<1>2. Tail(s) = <<>> <=> Len(Tail(s)) = 0
  BY <1>1, EmptySeq
<1> QED
  BY <1>1, <1>2

LEMMA ConcludingTruth ==
  ASSUME NEW r \in Runs, r.job \in Jobs, NEW verdict \in {"succeeded", "failed"}
  PROVE  Follows(r, Concluding(r, verdict))
<1> DEFINE s == Concluding(r, verdict)
<1>1. /\ s.at \in {"host", "save"} /\ s.todo = <<>> /\ s.again = FALSE
      /\ s.job = r.job /\ s.mode = r.mode /\ s.seenShown = r.seenShown
  BY DEF Concluding, Runs
<1> HIDE DEF s
<1>2. RunTruth(s)
  BY <1>1 DEF RunTruth, Before
<1> QED
  BY <1>1, <1>2 DEF Follows, s

\* A verdict of success comes from the last step, which for all but SSH checks is the
\* container test; a component is looked for again only after its installation; and a
\* failure is committed to the job after the host's row.
LEMMA TaskFollows ==
  ASSUME TypeInv, NEW w \in Workers, RunTruth(run[w]), TaskStep(w) \/ Raise(w) \/ Crash(w)
  PROVE  \E s : /\ run' = [run EXCEPT ![w] = s] /\ Follows(run[w], s)
                /\ s.verdict = "succeeded" =>
                     run[w].verdict = "succeeded" \/ run[w].mode = "ssh" \/ (Ready /\ host' = host)
                /\ s.again => (run[w].again /\ s = run[w]) \/ Install(w)
                /\ s.at \in {"save", "close"} /\ s.verdict = "failed" =>
                     run[w].verdict = "failed" /\ (run[w].at \in {"save", "close"} \/ WriteHost(w))
<1> DEFINE r == run[w]
           Good(s) == /\ run' = [run EXCEPT ![w] = s] /\ Follows(r, s)
                      /\ s.verdict = "succeeded" =>
                           r.verdict = "succeeded" \/ r.mode = "ssh" \/ (Ready /\ host' = host)
                      /\ s.again => (r.again /\ s = r) \/ Install(w)
                      /\ s.at \in {"save", "close"} /\ s.verdict = "failed" =>
                           r.verdict = "failed" /\ (r.at \in {"save", "close"} \/ WriteHost(w))
<1>0. /\ r \in Runs /\ run \in [Workers -> Runs] /\ Fit(r) /\ r.todo \in Seq(StepNames)
      /\ RunTruth(r)
  BY DEF TypeInv, TypeOK, Runs, StepNames
<1> SUFFICES \E s : Good(s)
  OBVIOUS
<1>1. CASE GiveUp(w) \/ LoseHost(w) \/ Crash(w) \/ FailOrphan(w) \/ Close(w)
  <2>1. run' = [run EXCEPT ![w] = IdleRun]
    BY <1>1 DEF GiveUp, LoseHost, Crash, FailOrphan, Close
  <2>2. Good(IdleRun)
    BY <2>1, IdleTruth DEF Follows
  <2> QED
    BY <2>2
<1>2. CASE StepFails(w) \/ InstallFails(w) \/ Raise(w)
  <2>1. PICK s \in {Concluding(r, "failed"), IdleRun} : run' = [run EXCEPT ![w] = s]
    BY <1>2 DEF StepFails, InstallFails, Raise
  <2>2. r.job \in Jobs
    BY <1>0, <1>2 DEF StepFails, InstallFails, Raise, Fit
  <2>3. CASE s = Concluding(r, "failed")
    <3>1. Follows(r, s) /\ s.verdict = "failed" /\ s.at \in {"host", "save"}
      BY <1>0, <2>2, <2>3, ConcludingTruth, ConcludingTyped
    <3>2. s.again = FALSE /\ s.at = "host"
      BY <1>0, <2>3 DEF Concluding, Runs
    <3>3. Good(s)
      BY <2>1, <3>1, <3>2
    <3> QED
      BY <3>3
  <2>4. CASE s = IdleRun
    <3>1. Good(s)
      BY <2>1, <2>4, IdleTruth DEF Follows
    <3> QED
      BY <3>1
  <2> QED
    BY <2>1, <2>3, <2>4
<1>3. CASE Pass(w)
  <2> DEFINE next == [r EXCEPT !.todo = Tail(r.todo), !.again = FALSE]
             s == IF next.todo = <<>> THEN Concluding(next, "succeeded") ELSE next
  <2>1. /\ r.at = "checking" /\ run' = [run EXCEPT ![w] = s] /\ host' = host
        /\ Present(Head(r.todo)) /\ r.job \in Jobs /\ r.todo # <<>> /\ r.verdict = "none"
    BY <1>0, <1>3 DEF Pass, Fit, RunTruth, Before
  <2>2. /\ Tail(r.todo) \in Seq(StepNames)
        /\ Tail(r.todo) # <<>> => Tail(r.todo)[Len(Tail(r.todo))] = r.todo[Len(r.todo)]
        /\ Tail(r.todo) = <<>> => Head(r.todo) = r.todo[Len(r.todo)]
    BY <1>0, <2>1, TailTyped, TailEnd
  <2>3. /\ next \in Runs /\ next.job = r.job /\ next.at = r.at /\ next.seen = r.seen
        /\ next.mode = r.mode /\ next.seenShown = r.seenShown /\ next.again = FALSE
        /\ next.todo = Tail(r.todo) /\ next.verdict = "none"
    BY <1>0, <2>1, <2>2 DEF Runs, StepNames
  <2> HIDE DEF next
  <2>4. CASE next.todo = <<>>
    <3>1. Follows(next, s) /\ s.verdict = "succeeded"
      BY <2>1, <2>3, <2>4, ConcludingTruth, ConcludingTyped
    <3>2. Follows(r, s) /\ s.again = FALSE
      <4>1. s.again = FALSE
        BY <2>3, <2>4 DEF Concluding, Runs
      <4> HIDE DEF s
      <4> QED
        BY <2>3, <3>1, <4>1, IdleTruth DEF Follows
    <3>3. r.mode # "ssh" => Ready
      <4>1. r.mode # "ssh" => Head(r.todo) = "container"
        BY <1>0, <2>1, <2>2, <2>3, <2>4 DEF RunTruth
      <4> QED
        BY <2>1, <4>1 DEF Present, Components
    <3> HIDE DEF s
    <3>4. Good(s)
      BY <2>1, <3>1, <3>2, <3>3
    <3> QED
      BY <3>4
  <2>5. CASE next.todo # <<>>
    <3>1. s = next
      BY <2>5
    <3>2. RunTruth(next)
      BY <1>0, <2>1, <2>2, <2>3, <2>5 DEF RunTruth, Before
    <3> HIDE DEF s
    <3>3. Good(s)
      BY <2>1, <2>3, <3>1, <3>2 DEF Follows
    <3> QED
      BY <3>3
  <2> QED
    BY <2>4, <2>5
<1>4. CASE Pause(w)
  <2> DEFINE step == Head(r.todo)
             s == [r EXCEPT !.verdict = "waiting_confirmation", !.plan = step,
                            !.todo = <<>>, !.again = FALSE, !.at = "save"]
  <2>1. run' = [run EXCEPT ![w] = s]
    BY <1>0, <1>4 DEF Pause
  <2> HIDE DEF step
  <2>2. /\ s.at = "save" /\ s.job = r.job /\ s.mode = r.mode /\ s.seenShown = r.seenShown
        /\ s.todo = <<>> /\ s.again = FALSE /\ s.verdict = "waiting_confirmation"
    BY <1>0 DEF Runs
  <2> HIDE DEF s
  <2>3. RunTruth(s)
    BY <2>2 DEF RunTruth, Before
  <2>4. Good(s)
    BY <2>1, <2>2, <2>3 DEF Follows
  <2> QED
    BY <2>4
<1>5. CASE BeginInstall(w) \/ Restart(w)
  <2>1. PICK at \in {"installing", "restarting"} : run' = [run EXCEPT ![w].at = at]
    BY <1>5 DEF BeginInstall, Restart, Step
  <2> DEFINE s == [r EXCEPT !.at = at]
  <2>2. run' = [run EXCEPT ![w] = s]
    BY <1>0, <2>1
  <2>3. /\ r.mode = "install" /\ Head(r.todo) \in Components /\ ~r.again /\ r.verdict = "none"
    BY <1>0, <1>5 DEF BeginInstall, Restart, Lacks, RunTruth, Before
  <2>4. /\ s.at = at /\ s.job = r.job /\ s.mode = r.mode /\ s.seenShown = r.seenShown
        /\ s.todo = r.todo /\ s.again = r.again /\ s.verdict = r.verdict
    BY <1>0 DEF Runs
  <2> HIDE DEF s
  <2>5. RunTruth(s)
    BY <1>0, <2>3, <2>4 DEF RunTruth
  <2>6. Good(s)
    BY <2>1, <2>2, <2>3, <2>4, <2>5 DEF Follows
  <2> QED
    BY <2>6
<1>6. CASE Install(w)
  <2> DEFINE s == [r EXCEPT !.at = "checking", !.again = TRUE]
  <2>1. run' = [run EXCEPT ![w] = s]
    BY <1>0, <1>6 DEF Install
  <2>2. /\ r.mode = "install" /\ Head(r.todo) \in Components /\ r.verdict = "none"
    BY <1>0, <1>6 DEF Install, RunTruth, Before
  <2>3. /\ s.at = "checking" /\ s.job = r.job /\ s.mode = r.mode /\ s.seenShown = r.seenShown
        /\ s.todo = r.todo /\ s.again = TRUE /\ s.verdict = r.verdict
    BY <1>0 DEF Runs
  <2> HIDE DEF s
  <2>4. RunTruth(s)
    BY <1>0, <2>2, <2>3 DEF RunTruth
  <2>5. Good(s)
    BY <1>6, <2>1, <2>2, <2>3, <2>4 DEF Follows
  <2> QED
    BY <2>5
<1>7. CASE WriteHost(w)
  <2>1. PICK at \in {"close", "save"} : run' = [run EXCEPT ![w].at = at]
    BY <1>7 DEF WriteHost, Step
  <2> DEFINE s == [r EXCEPT !.at = at]
  <2>2. run' = [run EXCEPT ![w] = s] /\ r.at = "host"
    BY <1>0, <1>7, <2>1 DEF WriteHost
  <2>3. /\ s.at = at /\ s.job = r.job /\ s.mode = r.mode /\ s.seenShown = r.seenShown
        /\ s.todo = r.todo /\ s.again = r.again /\ s.verdict = r.verdict
    BY <1>0 DEF Runs
  <2> HIDE DEF s
  <2>4. RunTruth(s) /\ ~s.again
    BY <1>0, <2>2, <2>3 DEF RunTruth, Before
  <2>5. Good(s)
    BY <1>7, <2>1, <2>2, <2>3, <2>4 DEF Follows
  <2> QED
    BY <2>5
<1>8. CASE Begin(w) \/ Save(w)
  <2> DEFINE Moved(at, seen) ==
               /\ at \in {"checking", "close"}
               /\ run' = [run EXCEPT ![w] = [r EXCEPT !.at = at, !.seen = seen]]
               /\ r.at = IF at = "checking" THEN "loaded" ELSE "save"
  <2>1. PICK at, seen : Moved(at, seen)
    <3>1. CASE Begin(w)
      <4>1. PICK seen : run' = [run EXCEPT ![w].at = "checking", ![w].seen = seen]
        BY <3>1 DEF Begin
      <4>2. run' = [run EXCEPT ![w] = [r EXCEPT !.at = "checking", !.seen = seen]]
        BY <1>0, <4>1
      <4>3. Moved("checking", seen)
        BY <3>1, <4>2 DEF Begin
      <4> HIDE DEF Moved
      <4> QED
        BY <4>3
    <3>2. CASE Save(w)
      <4>1. PICK seen : run' = [run EXCEPT ![w].at = "close", ![w].seen = seen]
        BY <3>2 DEF Save
      <4>2. run' = [run EXCEPT ![w] = [r EXCEPT !.at = "close", !.seen = seen]]
        BY <1>0, <4>1
      <4>3. Moved("close", seen)
        BY <3>2, <4>2 DEF Save
      <4> HIDE DEF Moved
      <4> QED
        BY <4>3
    <3> QED
      BY <1>8, <3>1, <3>2
  <2> DEFINE s == [r EXCEPT !.at = at, !.seen = seen]
  <2>2. /\ s.at = at /\ s.job = r.job /\ s.mode = r.mode /\ s.seenShown = r.seenShown
        /\ s.todo = r.todo /\ s.again = r.again /\ s.verdict = r.verdict
    BY <1>0 DEF Runs
  <2> HIDE DEF s
  <2>3. RunTruth(s) /\ ~s.again
    BY <1>0, <2>1, <2>2 DEF RunTruth, Before
  <2>4. Good(s)
    BY <2>1, <2>2, <2>3 DEF Follows, s
  <2> QED
    BY <2>4
<1> QED
  BY <1>1, <1>2, <1>3, <1>4, <1>5, <1>6, <1>7, <1>8 DEF TaskStep

\* What the task of w may make of the row of its job.
Written(w, row) ==
  /\ row.type = job[run[w].job].type
  /\ row.status # NoRow
  /\ row.status = "succeeded" => run[w].at = "close" /\ run[w].verdict = "succeeded"
  /\ row.status = "failed" =>
       run[w].at = "orphan" \/ (run[w].at = "close" /\ run[w].verdict = "failed")
  /\ Close(w) /\ run[w].verdict = "succeeded" => row.status = "succeeded"
  /\ Close(w) /\ run[w].verdict = "failed" => row.status = "failed"
  /\ Close(w) \/ FailOrphan(w) => row.status # "running"

\* A task writes to the row of its own open job only, which ends as the verdict says.
LEMMA TaskJobs ==
  ASSUME OwnerInv, NEW w \in Workers, TaskStep(w) \/ Raise(w) \/ Crash(w)
  PROVE  /\ run[w].at # "idle" /\ run[w].job \in Jobs
         /\ job[run[w].job].status \in {"pending", "waiting_confirmation", "running"}
         /\ UNCHANGED <<queue, request, exists, overlap>>
         /\ \E row : job' = [job EXCEPT ![run[w].job] = row] /\ Written(w, row)
<1> DEFINE r == run[w]
<1>1. /\ r.at # "idle" /\ UNCHANGED <<queue, request, exists, overlap>>
  BY DEF TaskStep, FailOrphan, Begin, Pass, StepFails, Pause, Lacks, BeginInstall, Restart,
         Install, InstallFails, GiveUp, WriteHost, LoseHost, Writes, Save, Close, Raise, Crash
<1>2. PICK j \in Jobs : j = run[w].job
  BY <1>1 DEF OwnerInv, TypeInv, Fit
<1>3. /\ job[j] \in JobRows /\ job \in [Jobs -> JobRows] /\ Knows(r, job[j]) /\ r.at \in Stages
      /\ r.at # "idle"
  BY <1>1, <1>2 DEF OwnerInv, TypeInv, TypeOK, RunOwns, Runs
<1>4. job[j].status \in {"pending", "waiting_confirmation", "running"}
  BY <1>3 DEF Knows, Stages, AtWork
<1>5. CASE job' = job
  <2>1. ~Close(w) /\ ~FailOrphan(w)
    <3>1. ASSUME Close(w) PROVE FALSE
      <4>1. r.at = "close" /\ r.seen = "running"
        BY <1>3, <3>1 DEF Close, Knows, AtWork
      <4>2. job[j].status = "running"
        BY <1>3, <4>1 DEF Knows, AtWork
      <4>3. /\ MarkSucceeded(job[j], r.seen).status = "succeeded"
            /\ MarkFailed(job[j], r.seen).status = "failed"
            /\ MarkWaiting(job[j], r.seen).status = "waiting_confirmation"
        BY <1>3, <4>1 DEF MarkSucceeded, MarkFailed, MarkWaiting, Flush, JobRows
      <4>4. PICK row \in {MarkSucceeded(job[j], r.seen), MarkFailed(job[j], r.seen),
                          MarkWaiting(job[j], r.seen)} : job' = [job EXCEPT ![j] = row]
        BY <1>2, <3>1 DEF Close
      <4>5. row.status # "running" /\ job'[j] = row
        BY <1>2, <1>3, <4>3, <4>4
      <4> QED
        BY <1>5, <4>2, <4>5
    <3>2. ASSUME FailOrphan(w) PROVE FALSE
      <4>1. /\ job' = [job EXCEPT ![j] = MarkFailed(job[j], r.seen)]
            /\ MarkFailed(job[j], r.seen).status = "failed"
        BY <1>2, <1>3, <3>2 DEF FailOrphan, Knows, MarkFailed, Flush, JobRows
      <4> QED
        BY <1>2, <1>3, <1>4, <1>5, <4>1
    <3> QED
      BY <3>1, <3>2
  <2>2. job' = [job EXCEPT ![j] = job[j]] /\ Written(w, job[j])
    BY <1>2, <1>3, <1>4, <1>5, <2>1 DEF Written, NoRow
  <2> QED
    BY <1>1, <1>2, <1>4, <2>2
<1>6. CASE FailOrphan(w)
  <2> DEFINE row == MarkFailed(job[j], r.seen)
  <2>1. job' = [job EXCEPT ![j] = row] /\ r.at = "orphan"
    BY <1>2, <1>6 DEF FailOrphan
  <2>2. row.status = "failed" /\ row.type = job[j].type
    BY <1>3, <2>1 DEF Knows, MarkFailed, Flush, JobRows
  <2> HIDE DEF row
  <2>3. Written(w, row)
    BY <1>2, <2>1, <2>2 DEF Written, NoRow, Close
  <2> QED
    BY <1>1, <1>2, <1>4, <2>1, <2>3
<1>7. CASE Begin(w)
  <2> DEFINE row == MarkRunning(job[j], r.seen)
  <2>1. job' = [job EXCEPT ![j] = row] /\ r.at = "loaded"
    BY <1>2, <1>7 DEF Begin
  <2>2. row.status = "running" /\ row.type = job[j].type
    BY <1>3, <2>1 DEF Knows, MarkRunning, Flush, JobRows
  <2> HIDE DEF row
  <2>3. Written(w, row)
    BY <1>2, <2>1, <2>2 DEF Written, NoRow, Close, FailOrphan
  <2> QED
    BY <1>1, <1>2, <1>4, <2>1, <2>3
<1>8. CASE Save(w)
  <2> DEFINE row == [job[j] EXCEPT !.plan = r.plan]
  <2>1. job' = [job EXCEPT ![j] = row] /\ r.at = "save"
    BY <1>2, <1>3, <1>8 DEF Save
  <2>2. row.status = "running" /\ row.type = job[j].type
    BY <1>3, <2>1 DEF Knows, AtWork, JobRows
  <2> HIDE DEF row
  <2>3. Written(w, row)
    BY <1>2, <2>1, <2>2 DEF Written, NoRow, Close, FailOrphan
  <2> QED
    BY <1>1, <1>2, <1>4, <2>1, <2>3
<1>9. CASE Close(w)
  <2> DEFINE row == CASE r.verdict = "succeeded" -> MarkSucceeded(job[j], r.seen)
                      [] r.verdict = "failed"    -> MarkFailed(job[j], r.seen)
                      [] OTHER                   -> MarkWaiting(job[j], r.seen)
  <2>1. job' = [job EXCEPT ![j] = row] /\ r.at = "close"
    BY <1>2, <1>9 DEF Close
  <2>2. r.seen = "running"
    BY <1>3, <2>1 DEF Knows, AtWork
  <2>3. /\ r.verdict = "succeeded" => row = MarkSucceeded(job[j], r.seen)
        /\ r.verdict = "failed" => row = MarkFailed(job[j], r.seen)
        /\ r.verdict \notin Ended => row = MarkWaiting(job[j], r.seen)
    BY DEF Ended
  <2> HIDE DEF row
  <2>4. /\ row.type = job[j].type
        /\ row.status = IF r.verdict \in Ended THEN r.verdict ELSE "waiting_confirmation"
    BY <1>3, <2>2, <2>3
       DEF Ended, MarkSucceeded, MarkFailed, MarkWaiting, Flush, JobRows
  <2>5. Written(w, row)
    BY <1>2, <2>1, <2>4 DEF Written, NoRow, Ended
  <2> QED
    BY <1>1, <1>2, <1>4, <2>1, <2>5
<1> QED
  BY <1>5, <1>6, <1>7, <1>8, <1>9
     DEF TaskStep, Pass, StepFails, Pause, BeginInstall, Restart, Install, InstallFails,
         GiveUp, WriteHost, LoseHost, Raise, Crash

-----------------------------------------------------------------------------
(* SSH checks and environment checks keep to their tasks                     *)

LEMMA TruthInit == Init => TruthInv
<1> SUFFICES ASSUME Init PROVE TruthInv
  OBVIOUS
<1>1. /\ \A w \in Workers : run[w] = IdleRun
      /\ \A c \in Clients : request[c].job = NoJob
      /\ \A j \in Jobs, m \in Modes : queue[<<j, m>>] = 0
  BY DEF Init, IdleRequest
<1> QED
  BY <1>1, OwnerInit, IdleTruth, Parameters DEF TruthInv, KindInv, Parameters

\* The run that takes a task has everything still to do.
LEMMA TakeTruth ==
  ASSUME TypeInv, NEW w \in Workers, Take(w)
  PROVE  \E j \in Jobs, m \in Modes :
           /\ queue[<<j, m>>] # 0
           /\ \A i \in Jobs, n \in Modes : queue'[<<i, n>>] # 0 => queue[<<i, n>>] # 0
           /\ \A v \in Workers : v # w => run'[v] = run[v]
           /\ run[w].at = "idle"
           /\ run'[w].at = (IF exists THEN "loaded" ELSE "orphan")
           /\ run'[w].job = j /\ run'[w].mode = m /\ run'[w].seenShown = shown
           /\ run'[w].verdict = "none" /\ ~run'[w].again /\ RunTruth(run'[w])
<1>1. PICK j \in Jobs, m \in Modes :
        /\ queue[<<j, m>>] > 0
        /\ queue' = [queue EXCEPT ![<<j, m>>] = @ - 1]
        /\ run' = [run EXCEPT ![w] =
                     [IdleRun EXCEPT !.at = IF exists THEN "loaded" ELSE "orphan",
                                     !.job = j, !.mode = m,
                                     !.seen = job[j].status, !.seenShown = shown,
                                     !.todo = Steps(m)]]
  BY DEF Take
<1> DEFINE r == run'[w]
<1>2. /\ r.at = (IF exists THEN "loaded" ELSE "orphan") /\ r.job = j /\ r.mode = m
      /\ r.seenShown = shown /\ r.verdict = "none" /\ r.again = FALSE /\ r.todo = Steps(m)
      /\ \A v \in Workers : v # w => run'[v] = run[v]
  BY <1>1 DEF TypeInv, TypeOK, IdleRun
<1>3. run[w].at = "idle"
  BY DEF Take
<1> HIDE DEF r
<1>4. RunTruth(r)
  BY <1>2, StepsEnd DEF RunTruth
<1>5. queue[<<j, m>>] # 0
  BY <1>1 DEF TypeInv, TypeOK
<1>6. \A i \in Jobs, n \in Modes : queue'[<<i, n>>] # 0 => queue[<<i, n>>] # 0
  <2>1. \A i \in Jobs, n \in Modes : <<i, n>> # <<j, m>> => queue'[<<i, n>>] = queue[<<i, n>>]
    BY <1>1 DEF TypeInv, TypeOK
  <2> QED
    BY <1>5, <2>1
<1> QED
  BY <1>2, <1>3, <1>4, <1>5, <1>6 DEF r

\* A new task for j is one of its kind.
LEMMA EnqueueKinds ==
  ASSUME TypeInv, KindInv, NEW j \in Jobs, NEW mode \in Modes, Enqueue(j, mode),
         NEW type, mode = "ssh" <=> type = "ssh",
         \A i \in Jobs : job'[i].type = (IF i = j THEN type ELSE job[i].type),
         Free(j) \/ job[j].type = type
  PROVE  \A i \in Jobs, m \in Modes :
           queue'[<<i, m>>] # 0 => (m = "ssh" <=> job'[i].type = "ssh")
<1> SUFFICES ASSUME NEW i \in Jobs, NEW m \in Modes, queue'[<<i, m>>] # 0
             PROVE  m = "ssh" <=> job'[i].type = "ssh"
  OBVIOUS
<1>1. <<i, m>> # <<j, mode>> => queue'[<<i, m>>] = queue[<<i, m>>]
  BY DEF Enqueue, TypeInv, TypeOK
<1>2. CASE i = j /\ m = mode
  BY <1>2
<1>3. CASE i = j /\ m # mode
  <2>1. queue[<<j, m>>] # 0
    BY <1>1, <1>3
  <2>2. job[j].type = type
    BY <2>1 DEF Free
  <2> QED
    BY <1>3, <2>1, <2>2 DEF KindInv
<1>4. CASE i # j
  BY <1>1, <1>4 DEF KindInv
<1> QED
  BY <1>2, <1>3, <1>4

\* A job that is not stored yet has no task and no request.
NewInv ==
  \A j \in Jobs : job[j].status = NoRow => Free(j) /\ \A c \in Clients : request[c].job # j

LEMMA OwnersAreStored == OwnerInv => NewInv
BY OthersAreFree DEF NewInv, OwnerInv, RequestOwns, NoRow

LEMMA RequestKinds ==
  ASSUME TypeInv, KindInv, NewInv,
         Start \/ Confirm \/ Delete \/ Repair \/ \E c \in Clients : AskRetry(c) \/ Reset(c)
  PROVE  KindInv' /\ run' = run
<1>0. /\ TypeOK /\ NoJob \notin Jobs /\ job \in [Jobs -> JobRows]
  BY Parameters DEF TypeInv, TypeOK, Parameters
<1>1. CASE Start
  <2>1. PICK j \in Jobs, mode \in {"ssh", "check"} :
          /\ job[j].status = NoRow
          /\ job' = [job EXCEPT ![j].status = "pending", ![j].type = mode]
          /\ Enqueue(j, mode) /\ UNCHANGED <<request, run>>
    BY <1>1 DEF Start
  <2>2. \A i \in Jobs : job'[i].type = IF i = j THEN mode ELSE job[i].type
    BY <1>0, <2>1 DEF JobRows
  <2>3. Free(j)
    BY <2>1 DEF NewInv
  <2>4. \A i \in Jobs, m \in Modes :
          queue'[<<i, m>>] # 0 => (m = "ssh" <=> job'[i].type = "ssh")
    <3>1. mode \in Modes /\ Enqueue(j, mode)
      BY <2>1 DEF Modes
    <3> QED
      BY <2>2, <2>3, <3>1, EnqueueKinds
  <2>5. \A w \in Workers : run[w].at # "idle" => run[w].job \in Jobs /\ run[w].job # j
    BY <2>3 DEF TypeInv, Fit, Free
  <2>6. \A c \in Clients : request[c].job \in Jobs => request[c].job # j
    BY <2>1 DEF NewInv
  <2> QED
    BY <1>0, <2>1, <2>2, <2>4, <2>5, <2>6 DEF KindInv
<1>2. CASE Confirm
  <2>1. PICK j \in Jobs : job[j].type = "check" /\ Enqueue(j, "install")
    BY <1>2 DEF Confirm
  <2>2. UNCHANGED <<job, request, run>>
    BY <1>2 DEF Confirm
  <2>3. \A i \in Jobs, m \in Modes :
          queue'[<<i, m>>] # 0 => (m = "ssh" <=> job'[i].type = "ssh")
    BY <2>1, <2>2, EnqueueKinds DEF Modes
  <2> QED
    BY <1>0, <2>2, <2>3 DEF KindInv
<1>3. CASE Delete \/ Repair
  <2>1. UNCHANGED <<job, queue, request, run>>
    BY <1>3 DEF Delete, Repair
  <2> QED
    BY <1>0, <2>1 DEF KindInv
<1>4. ASSUME NEW c \in Clients, AskRetry(c) PROVE KindInv' /\ run' = run
  <2>1. PICK j \in Jobs :
          /\ job[j].type = "check"
          /\ request' = [request EXCEPT ![c] = [job |-> j, seen |-> job[j].status]]
    BY <1>4 DEF AskRetry
  <2>2. UNCHANGED <<job, queue, run>>
    BY <1>4 DEF AskRetry
  <2>3. \A d \in Clients : request'[d].job = IF d = c THEN j ELSE request[d].job
    BY <1>0, <2>1 DEF TypeOK
  <2> QED
    BY <1>0, <2>1, <2>2, <2>3 DEF KindInv
<1>5. ASSUME NEW c \in Clients, Reset(c) PROVE KindInv' /\ run' = run
  <2>1. PICK j \in Jobs : j = request[c].job
    BY <1>0, <1>5 DEF Reset, TypeOK, Requests
  <2>2. /\ job' = [job EXCEPT ![j] = ResetForRetry(job[j], request[c].seen)] /\ run' = run
        /\ request' = [request EXCEPT ![c] = IdleRequest] /\ Enqueue(j, "check")
    BY <1>5, <2>1 DEF Reset
  <2>3. \A i \in Jobs : job'[i].type = job[i].type
    BY <1>0, <2>2 DEF ResetForRetry, JobRows
  <2>4. job[j].type = "check"
    BY <1>0, <2>1 DEF KindInv
  <2>5. \A i \in Jobs, m \in Modes :
          queue'[<<i, m>>] # 0 => (m = "ssh" <=> job'[i].type = "ssh")
    <3>1. \A i \in Jobs : job'[i].type = IF i = j THEN "check" ELSE job[i].type
      BY <2>3, <2>4
    <3>2. "check" \in Modes
      BY DEF Modes
    <3> QED
      BY <2>2, <2>4, <3>1, <3>2, EnqueueKinds
  <2>6. \A d \in Clients : request'[d].job = IF d = c THEN NoJob ELSE request[d].job
    BY <1>0, <2>2 DEF TypeOK, IdleRequest
  <2>7. \A w \in Workers : run[w].at # "idle" => run[w].job \in Jobs
    BY DEF TypeInv, Fit
  <2> QED
    BY <1>0, <2>2, <2>3, <2>5, <2>6, <2>7 DEF KindInv
<1> QED
  BY <1>1, <1>2, <1>3, <1>4, <1>5

LEMMA TruthStep == ASSUME OneOperator PROVE TruthInv /\ [Next]_vars => TruthInv'
<1> SUFFICES ASSUME TruthInv, [Next]_vars PROVE TruthInv'
  OBVIOUS
<1>0. OwnerInv /\ OwnerInv' /\ KindInv /\ TypeInv
  BY OwnerStep DEF TruthInv, OwnerInv
<1>1. CASE Start \/ Confirm \/ Delete \/ Repair \/ \E c \in Clients : AskRetry(c) \/ Reset(c)
  BY <1>0, <1>1, RequestKinds, OwnersAreStored DEF TruthInv
<1>2. ASSUME NEW w \in Workers, Take(w) PROVE TruthInv'
  <2>1. PICK j \in Jobs, m \in Modes :
           /\ queue[<<j, m>>] # 0
           /\ \A i \in Jobs, n \in Modes : queue'[<<i, n>>] # 0 => queue[<<i, n>>] # 0
           /\ \A v \in Workers : v # w => run'[v] = run[v]
           /\ run'[w].job = j /\ run'[w].mode = m /\ RunTruth(run'[w])
    BY <1>0, <1>2, TakeTruth
  <2>2. UNCHANGED <<job, request>>
    BY <1>2 DEF Take
  <2>3. KindInv'
    <3>1. m = "ssh" <=> job[j].type = "ssh"
      BY <1>0, <2>1 DEF KindInv
    <3> QED
      BY <1>0, <2>1, <2>2, <3>1 DEF KindInv
  <2> QED
    BY <1>0, <2>1, <2>3 DEF TruthInv
<1>3. ASSUME NEW w \in Workers, TaskStep(w) \/ Raise(w) \/ Crash(w) PROVE TruthInv'
  <2>1. PICK s : run' = [run EXCEPT ![w] = s] /\ Follows(run[w], s)
    BY <1>0, <1>3, TaskFollows DEF TruthInv
  <2>2. PICK row : job' = [job EXCEPT ![run[w].job] = row] /\ Written(w, row)
    BY <1>0, <1>3, TaskJobs
  <2>3. run[w].at # "idle" /\ run[w].job \in Jobs /\ UNCHANGED <<queue, request>>
    BY <1>0, <1>3, TaskJobs
  <2>4. \A v \in Workers : run'[v] = IF v = w THEN s ELSE run[v]
    BY <1>0, <2>1 DEF TypeInv, TypeOK
  <2>5. \A i \in Jobs : job'[i].type = job[i].type
    BY <1>0, <2>2, <2>3 DEF TypeInv, TypeOK, Written
  <2>6. KindInv'
    <3>1. \A v \in Workers : run[v].at # "idle" => run[v].job \in Jobs
      BY <1>0 DEF TypeInv, Fit
    <3>2. s.at # "idle" => s.job = run[w].job /\ s.mode = run[w].mode
      BY <2>1, IdleTruth DEF Follows
    <3> QED
      BY <1>0, <2>3, <2>4, <2>5, <3>1, <3>2 DEF KindInv
  <2>7. \A v \in Workers : RunTruth(run'[v])
    BY <2>1, <2>4, IdleTruth DEF TruthInv, Follows
  <2> QED
    BY <1>0, <2>6, <2>7 DEF TruthInv
<1>4. CASE UNCHANGED vars
  BY <1>0, <1>4 DEF vars, TruthInv, KindInv
<1> QED
  BY <1>1, <1>2, <1>3, <1>4 DEF Next

-----------------------------------------------------------------------------
(* The host of a job that succeeded                                          *)

\* Tasks take nothing from the host but Docker, and that only while they install.
LEMMA HostMoves ==
  ASSUME TypeInv, NEW w \in Workers, RunTruth(run[w]), TaskStep(w) \/ Raise(w) \/ Crash(w)
  PROVE  /\ host.driver => host'.driver
         /\ host.runtime => host'.runtime
         /\ host.docker => host'.docker \/ run[w].at \in {"installing", "restarting"}
<1> DEFINE step == Head(run[w].todo)
<1>0. host \in [Components -> BOOLEAN]
  BY DEF TypeInv, TypeOK
<1>1. ASSUME host' \in Unfinished(step), run[w].at \in {"installing", "restarting"}
      PROVE  (host.driver => host'.driver) /\ (host.runtime => host'.runtime)
  <2>1. step \in Components
    BY <1>1 DEF RunTruth
  <2> HIDE DEF step
  <2> QED
    BY <1>0, <1>1, <2>1 DEF Unfinished, Components
<1>2. CASE Install(w)
  <2>1. step \in Components /\ run[w].at \in {"installing", "restarting"}
    BY <1>2 DEF Install, RunTruth
  <2>2. CASE host' = [host EXCEPT ![step] = TRUE, !.docker = TRUE]
    <3> HIDE DEF step
    <3> QED
      BY <1>0, <2>1, <2>2 DEF Components
  <2>3. CASE host' = [host EXCEPT !.docker = @ \/ step = "runtime"]
    <3>1. host'["driver"] = host["driver"] /\ host'["runtime"] = host["runtime"]
      BY <1>0, <2>3, Zenon DEF Components
    <3> QED
      BY <2>1, <3>1
  <2> QED
    BY <1>2, <2>2, <2>3 DEF Install
<1>3. CASE Restart(w)
  BY <1>0, <1>3 DEF Restart, Components
<1>4. CASE InstallFails(w)
  BY <1>1, <1>4 DEF InstallFails
<1>5. CASE Raise(w) \/ Crash(w)
  <2>1. CASE run[w].at \in {"installing", "restarting"}
    BY <1>1, <1>5, <2>1 DEF Raise, Crash
  <2>2. CASE run[w].at \notin {"installing", "restarting"}
    BY <1>5, <2>2 DEF Raise, Crash
  <2> QED
    BY <2>1, <2>2
<1>6. CASE host' = host
  BY <1>6
<1> QED
  BY <1>2, <1>3, <1>4, <1>5, <1>6
     DEF TaskStep, FailOrphan, Begin, Pass, StepFails, Pause, BeginInstall, GiveUp,
         WriteHost, LoseHost, Save, Close

\* Requests write only "pending", for jobs that are new or have failed.
LEMMA RequestRows ==
  ASSUME OwnerInv, NEW i \in Jobs,
         Start \/ Confirm \/ Delete \/ Repair \/ \E c \in Clients : AskRetry(c) \/ Reset(c)
  PROVE  \/ job'[i] = job[i]
         \/ job'[i].status = "pending" /\ job[i].status = NoRow
         \/ /\ job'[i].status = "pending" /\ job[i].status = "failed"
            /\ job'[i].type = job[i].type
<1>0. TypeOK /\ job \in [Jobs -> JobRows]
  BY DEF OwnerInv, TypeInv, TypeOK
<1>1. CASE Start
  <2>1. PICK j \in Jobs, mode \in {"ssh", "check"} :
          /\ job[j].status = NoRow
          /\ job' = [job EXCEPT ![j].status = "pending", ![j].type = mode]
    BY <1>1 DEF Start
  <2> QED
    BY <1>0, <2>1 DEF JobRows
<1>2. ASSUME NEW c \in Clients, Reset(c)
      PROVE  \/ job'[i] = job[i]
             \/ /\ job'[i].status = "pending" /\ job[i].status = "failed"
                /\ job'[i].type = job[i].type
  <2>1. PICK j \in Jobs : j = request[c].job
    BY <1>0, <1>2 DEF Reset, TypeOK, Requests
  <2>2. job' = [job EXCEPT ![j] = ResetForRetry(job[j], request[c].seen)]
    BY <1>2, <2>1 DEF Reset
  <2>3. job[j].status = "failed" /\ request[c].seen = "failed"
    BY <2>1 DEF OwnerInv, RequestOwns
  <2> QED
    BY <1>0, <2>2, <2>3 DEF ResetForRetry, Flush, JobRows
<1>3. CASE Confirm \/ Delete \/ Repair \/ \E c \in Clients : AskRetry(c)
  BY <1>3 DEF Confirm, Delete, Repair, AskRetry
<1> QED
  BY <1>1, <1>2, <1>3

LEMMA ReadyRequests ==
  ASSUME OneOperator, TruthInv, ReadyInv,
         Start \/ Confirm \/ Delete \/ Repair \/ \E c \in Clients : AskRetry(c) \/ Reset(c)
  PROVE  ReadyInv'
<1>0. OwnerInv /\ run' = run /\ host \in [Components -> BOOLEAN]
  BY RequestKinds, OwnersAreStored DEF TruthInv, OwnerInv, TypeInv, TypeOK
<1>1. /\ host.driver => host'.driver
      /\ host.runtime => host'.runtime /\ (host.docker => host'.docker)
  BY <1>0 DEF Start, Confirm, Delete, Repair, AskRetry, Reset, Components
<1>2. \A i \in Jobs : Unsettled(i) => Unsettled(i)'
  <2> SUFFICES ASSUME NEW i \in Jobs, Unsettled(i) PROVE Unsettled(i)'
    OBVIOUS
  <2> QED
    BY <1>0, RequestRows DEF Unsettled, NoRow
<1>3. Succeeded' => Succeeded
  <2> SUFFICES ASSUME NEW i \in Jobs, job'[i].type = "check", job'[i].status = "succeeded"
               PROVE  Succeeded
    BY DEF Succeeded
  <2> QED
    BY <1>0, RequestRows DEF Succeeded
<1>4. Succeeding' => Succeeding
  BY <1>0 DEF Succeeding
<1> QED
  BY <1>1, <1>2, <1>3, <1>4 DEF ReadyInv

LEMMA ReadyTake ==
  ASSUME TruthInv, ReadyInv, NEW w \in Workers, Take(w)
  PROVE  ReadyInv'
<1>0. TypeInv /\ run[w].verdict = "none" /\ UNCHANGED <<job, host>>
  BY IdleTruth DEF TruthInv, OwnerInv, RunTruth, Take
<1>1. /\ \A v \in Workers : v # w => run'[v] = run[v]
      /\ run'[w].verdict = "none"
  BY <1>0, TakeTruth
<1>2. \A i \in Jobs : Unsettled(i) => Unsettled(i)'
  BY <1>0, <1>1 DEF Unsettled
<1>3. (Succeeded' => Succeeded) /\ (Succeeding' => Succeeding)
  BY <1>0, <1>1 DEF Succeeded, Succeeding
<1> QED
  BY <1>0, <1>2, <1>3 DEF ReadyInv

LEMMA ReadyTask ==
  ASSUME TruthInv, ReadyInv, NEW w \in Workers, TaskStep(w) \/ Raise(w) \/ Crash(w)
  PROVE  ReadyInv'
<1> DEFINE r == run[w]
<1>0. OwnerInv /\ KindInv /\ TypeInv /\ RunTruth(r) /\ NoJob \notin Jobs
  BY Parameters DEF TruthInv, OwnerInv, Parameters
<1>1. PICK j \in Jobs : j = run[w].job
  BY <1>0, TaskJobs
<1>2. PICK row : job' = [job EXCEPT ![j] = row] /\ Written(w, row)
  BY <1>0, <1>1, TaskJobs
<1>3. PICK s : /\ run' = [run EXCEPT ![w] = s] /\ Follows(r, s)
               /\ s.verdict = "succeeded" =>
                    r.verdict = "succeeded" \/ r.mode = "ssh" \/ (Ready /\ host' = host)
  BY <1>0, TaskFollows
<1>4. /\ \A v \in Workers : run'[v] = IF v = w THEN s ELSE run[v]
      /\ \A i \in Jobs : job'[i] = IF i = j THEN row ELSE job[i]
      /\ \A v \in Workers : run[v].job = j => v = w
      /\ r.mode = "ssh" <=> job[j].type = "ssh"
      /\ row.type = job[j].type /\ job[j].type \in {"ssh", "check"}
      /\ row.status # NoRow
      /\ row.status = "succeeded" => r.at = "close" /\ r.verdict = "succeeded"
  <2>1. r.at # "idle"
    BY <1>0, TaskJobs
  <2> QED
    BY <1>0, <1>1, <1>2, <1>3, <2>1
       DEF TypeInv, TypeOK, JobRows, OwnerInv, RunOwns, KindInv, Written
<1>5. s.job \in {NoJob, j} /\ (s.verdict = "succeeded" => s.mode = r.mode)
  BY <1>1, <1>3, IdleTruth DEF Follows
<1>6. CASE Ready /\ host' = host
  BY <1>6 DEF ReadyInv, Ready, Components
<1>7. CASE ~(Ready /\ host' = host)
  <2>1. Succeeded' \/ Succeeding' => Succeeded \/ Succeeding
    <3>1. Succeeded' => Succeeded \/ Succeeding
      <4> SUFFICES ASSUME NEW i \in Jobs, job'[i].type = "check", job'[i].status = "succeeded"
                   PROVE  Succeeded \/ Succeeding
        BY DEF Succeeded
      <4> QED
        BY <1>4 DEF Succeeded, Succeeding
    <3>2. Succeeding' => Succeeding
      <4> SUFFICES ASSUME NEW v \in Workers, run'[v].mode # "ssh", run'[v].verdict = "succeeded"
                   PROVE  Succeeding
        BY DEF Succeeding
      <4> QED
        BY <1>3, <1>4, <1>5, <1>7 DEF Succeeding
    <3> QED
      BY <3>1, <3>2
  <2>2. ASSUME r.at \in {"installing", "restarting"} PROVE Unsettled(j)'
    <3>1. r.mode # "ssh" /\ r.verdict = "none"
      BY <1>0, <2>2 DEF RunTruth, Before
    <3>2. s.verdict # "succeeded"
      BY <1>3, <1>7, <3>1
    <3>3. job'[j].type = "check" /\ job'[j].status \notin {NoRow, "succeeded"}
      BY <1>4, <2>2, <3>1
    <3>4. \A v \in Workers : run'[v].job = j => run'[v].verdict # "succeeded"
      BY <1>4, <3>2
    <3> QED
      BY <3>3, <3>4 DEF Unsettled
  <2>3. ASSUME NEW i \in Jobs, Unsettled(i) PROVE Unsettled(i)'
    <3>1. CASE i # j
      BY <1>0, <1>4, <1>5, <2>3, <3>1 DEF Unsettled
    <3>2. CASE i = j
      <4>1. r.verdict # "succeeded" /\ r.mode # "ssh"
        BY <1>1, <1>4, <2>3, <3>2 DEF Unsettled
      <4>2. s.verdict # "succeeded"
        BY <1>3, <1>7, <4>1
      <4> QED
        BY <1>4, <2>3, <3>2, <4>1, <4>2 DEF Unsettled
    <3> QED
      BY <3>1, <3>2
  <2>4. /\ host.driver => host'.driver
        /\ host.runtime => host'.runtime
        /\ host.docker => host'.docker \/ r.at \in {"installing", "restarting"}
    BY <1>0, HostMoves
  <2> QED
    BY <2>1, <2>2, <2>3, <2>4 DEF ReadyInv
<1> QED
  BY <1>6, <1>7

\* For one operator who waits: a host on which a check or an installation has succeeded has
\* its driver and its runtime, and Docker unless a job that restarted it is still open or
\* has failed, whichever tasks fail, die or install nothing and whoever deletes its row.
THEOREM SuccessLeavesHostReady ==
  ASSUME OneOperator
  PROVE  Spec => []SuccessMeansReady
<1>1. Init => ReadyInv
  <2> SUFFICES ASSUME Init PROVE ~Succeeded /\ ~Succeeding
    BY DEF ReadyInv
  <2> QED
    BY IdleTruth DEF Init, Succeeded, Succeeding, NoRow
<1>2. TruthInv /\ ReadyInv /\ [Next]_vars => ReadyInv'
  <2> SUFFICES ASSUME TruthInv, ReadyInv, [Next]_vars PROVE ReadyInv'
    OBVIOUS
  <2>1. CASE UNCHANGED vars
    BY <2>1 DEF vars, ReadyInv, Succeeded, Succeeding, Unsettled
  <2> QED
    BY <2>1, ReadyRequests, ReadyTake, ReadyTask DEF Next
<1>3. ReadyInv => SuccessMeansReady
  BY DEF ReadyInv, SuccessMeansReady, Succeeded, Unsettled
<1>4. TruthInv /\ [Next]_vars => TruthInv'
  BY TruthStep
<1> QED
  BY <1>1, <1>2, <1>3, <1>4, TruthInit, PTL DEF Spec

-----------------------------------------------------------------------------
(* The run of a running job                                                  *)

LEMMA TaskEnds ==
  ASSUME TypeInv, NEW w \in Workers, TaskStep(w) \/ Raise(w) \/ Crash(w), run'[w].at = "idle"
  PROVE  GiveUp(w) \/ LoseHost(w) \/ FailOrphan(w) \/ Close(w) \/ Raise(w) \/ Crash(w)
<1> DEFINE r == run[w]
<1>0. r \in Runs /\ run \in [Workers -> Runs] /\ Fit(r)
  BY DEF TypeInv, TypeOK
<1>1. ASSUME StepFails(w) \/ InstallFails(w) PROVE FALSE
  <2>1. run'[w] = Concluding(r, "failed") /\ r.job \in Jobs
    BY <1>0, <1>1 DEF StepFails, InstallFails, Fit
  <2> QED
    BY <1>0, <2>1, ConcludingTyped
<1>2. ASSUME Pass(w) PROVE FALSE
  <2> DEFINE next == [r EXCEPT !.todo = Tail(r.todo), !.again = FALSE]
  <2>1. /\ run'[w] = IF next.todo = <<>> THEN Concluding(next, "succeeded") ELSE next
        /\ r.at = "checking" /\ r.job \in Jobs /\ r.todo # <<>>
    BY <1>0, <1>2 DEF Pass, Fit
  <2>2. Tail(r.todo) \in Seq(StepNames)
    BY <1>0, <2>1, TailTyped DEF Runs, StepNames
  <2>3. next \in Runs /\ next.job = r.job /\ next.at = r.at
    BY <1>0, <2>2 DEF Runs, StepNames
  <2> HIDE DEF next
  <2> QED
    BY <2>1, <2>3, ConcludingTyped
<1>3. ASSUME BeginInstall(w) \/ Restart(w) \/ WriteHost(w) PROVE FALSE
  <2>1. PICK at \in {"installing", "restarting", "close", "save"} : run' = [run EXCEPT ![w].at = at]
    BY <1>3 DEF BeginInstall, Restart, WriteHost, Step
  <2> QED
    BY <1>0, <2>1 DEF Runs
<1>4. ASSUME Begin(w) \/ Install(w) \/ Pause(w) \/ Save(w) PROVE FALSE
  <2>1. ASSUME Begin(w) PROVE run'[w].at = "checking"
    BY <1>0, <2>1 DEF Begin, Runs
  <2>2. ASSUME Install(w) PROVE run'[w].at = "checking"
    BY <1>0, <2>2 DEF Install, Runs
  <2>3. ASSUME Pause(w) PROVE run'[w].at = "save"
    BY <1>0, <2>3 DEF Pause, Runs
  <2>4. ASSUME Save(w) PROVE run'[w].at = "close"
    BY <1>0, <2>4 DEF Save, Runs
  <2> QED
    BY <1>4, <2>1, <2>2, <2>3, <2>4
<1> QED
  BY <1>1, <1>2, <1>3, <1>4 DEF TaskStep

\* What only faults change.
LEMMA StepWrites ==
  ASSUME Next
  PROVE  /\ faults' = faults \/ \E f : Fault(f)
         /\ exists' = exists \/ Fault("delete")
<1>1. CASE Start \/ Confirm \/ Delete \/ Repair
  BY <1>1 DEF Start, Confirm, Delete, Repair
<1>2. CASE \E c \in Clients : AskRetry(c) \/ Reset(c)
  BY <1>2 DEF AskRetry, Reset
<1>3. ASSUME NEW w \in Workers,
             Take(w) \/ FailOrphan(w) \/ Begin(w) \/ Pass(w) \/ StepFails(w) \/ Pause(w)
      PROVE  UNCHANGED <<faults, exists>>
  BY <1>3 DEF Take, FailOrphan, Begin, Pass, StepFails, Pause
<1>4. ASSUME NEW w \in Workers,
             BeginInstall(w) \/ Restart(w) \/ InstallFails(w) \/ GiveUp(w) \/ LoseHost(w)
             \/ Save(w) \/ Close(w)
      PROVE  UNCHANGED <<faults, exists>>
  BY <1>4 DEF BeginInstall, Restart, InstallFails, GiveUp, LoseHost, Save, Close
<1>5. ASSUME NEW w \in Workers, Install(w) \/ Raise(w) \/ Crash(w)
      PROVE  /\ faults' = faults \/ \E f : Fault(f)
             /\ UNCHANGED exists
  BY <1>5 DEF Install, Raise, Crash
<1>6. ASSUME NEW w \in Workers, WriteHost(w) PROVE UNCHANGED <<faults, exists>>
  BY <1>6 DEF WriteHost
<1> QED
  BY <1>1, <1>2, <1>3, <1>4, <1>5, <1>6 DEF Next, TaskStep

LEMMA FaultsStay ==
  ASSUME TypeInv, Next, faults' = 0
  PROVE  faults = 0 /\ \A f : ~Fault(f)
<1>1. faults \in Nat
  BY Parameters DEF TypeInv, TypeOK, Parameters
<1>2. \A f : ~Fault(f)
  BY <1>1 DEF Fault
<1> QED
  BY <1>2, StepWrites

\* A job has at most one installation in its run; the second is noticed by its task.
LEMMA WorkModes ==
  ASSUME TruthInv, WorkInv, Next
  PROVE  ~overlap' => /\ ~overlap
                      /\ \A v, w \in Workers :
                           run'[v].mode = "install" /\ run'[w].mode = "install" => v = w
<1>0. OwnerInv /\ TypeInv /\ \A w \in Workers : RunTruth(run[w])
  BY DEF TruthInv, OwnerInv
<1>1. CASE Start \/ Confirm \/ Delete \/ Repair \/ \E c \in Clients : AskRetry(c) \/ Reset(c)
  <2>1. UNCHANGED <<run, overlap>>
    BY <1>1 DEF Start, Confirm, Delete, Repair, AskRetry, Reset
  <2> QED
    BY <2>1 DEF WorkInv
<1>2. ASSUME NEW w \in Workers, Take(w), ~overlap'
      PROVE  /\ ~overlap
             /\ \A v, u \in Workers :
                  run'[v].mode = "install" /\ run'[u].mode = "install" => v = u
  <2>1. \A v \in Workers : v # w => run'[v] = run[v]
    BY <1>0, <1>2, TakeTruth
  <2>2. ~overlap /\ ~(run'[w].mode = "install" /\ \E v \in Workers : run[v].mode = "install")
    BY <1>2 DEF Take
  <2> QED
    BY <2>1, <2>2 DEF WorkInv
<1>3. ASSUME NEW w \in Workers, TaskStep(w) \/ Raise(w) \/ Crash(w), ~overlap'
      PROVE  /\ ~overlap
             /\ \A v, u \in Workers :
                  run'[v].mode = "install" /\ run'[u].mode = "install" => v = u
  <2>1. PICK s : run' = [run EXCEPT ![w] = s] /\ Follows(run[w], s)
    BY <1>0, <1>3, TaskFollows
  <2>2. s.mode \in {"ssh", run[w].mode}
    BY <2>1, IdleTruth DEF Follows
  <2>3. \A v \in Workers : run'[v] = IF v = w THEN s ELSE run[v]
    BY <1>0, <2>1 DEF TypeInv, TypeOK
  <2>4. ~overlap
    BY <1>0, <1>3, TaskJobs
  <2> QED
    BY <2>2, <2>3, <2>4 DEF WorkInv
<1> QED
  BY <1>1, <1>2, <1>3 DEF Next

\* What an installation has just installed is still there when it looks again.
LEMMA WorkAgain ==
  ASSUME OneOperator, TruthInv, WorkInv, Next, faults' = 0, ~overlap',
         NEW v \in Workers, run'[v].again
  PROVE  Present(Head(run[v].todo))'
<1>0. /\ OwnerInv /\ TypeInv /\ \A w \in Workers : RunTruth(run[w])
      /\ host \in [Components -> BOOLEAN] /\ run \in [Workers -> Runs]
      /\ faults = 0 /\ ~overlap /\ \A f : ~Fault(f)
  BY FaultsStay, WorkModes DEF TruthInv, OwnerInv, TypeInv, TypeOK
<1>1. ASSUME run[v].again, run'[v] = run[v], \A c \in Components : host[c] => host'[c]
      PROVE  Present(Head(run[v].todo))'
  <2> DEFINE step == Head(run[v].todo)
  <2>1. Present(step) /\ step \in Components
    BY <1>0, <1>1 DEF WorkInv, RunTruth
  <2> HIDE DEF step
  <2>2. host'[step] /\ (step = "runtime" => host'.docker /\ host'.runtime)
    <3>1. host[step] /\ (step = "runtime" => host.docker /\ host.runtime)
      BY <2>1 DEF Present, Components
    <3> QED
      BY <1>1, <2>1, <3>1 DEF Components
  <2>3. Present(Head(run[v].todo))'
    BY <1>1, <2>1, <2>2 DEF Present, Components, step
  <2> QED
    BY <2>3
<1>2. CASE Start \/ Confirm \/ Delete \/ Repair \/ \E c \in Clients : AskRetry(c) \/ Reset(c)
  <2>1. run' = run /\ \A c \in Components : host[c] => host'[c]
    BY <1>0, <1>2 DEF Start, Confirm, Delete, Repair, AskRetry, Reset, Components
  <2> QED
    BY <1>1, <2>1
<1>3. ASSUME NEW w \in Workers, Take(w)
      PROVE  Present(Head(run[v].todo))'
  <2>1. (v # w => run'[v] = run[v]) /\ ~run'[w].again /\ host' = host
    BY <1>0, <1>3, TakeTruth DEF Take
  <2> QED
    BY <1>1, <2>1
<1>4. ASSUME NEW w \in Workers, TaskStep(w) \/ Raise(w) \/ Crash(w)
      PROVE  Present(Head(run[v].todo))'
  <2>1. PICK s : /\ run' = [run EXCEPT ![w] = s]
                 /\ s.again => (run[w].again /\ s = run[w]) \/ Install(w)
    BY <1>0, <1>4, TaskFollows
  <2>2. \A u \in Workers : run'[u] = IF u = w THEN s ELSE run[u]
    BY <1>0, <2>1
  <2>3. CASE Install(w) /\ v = w
    <3> DEFINE step == Head(run[w].todo)
    <3>1. step \in Components
      BY <1>0, <2>3 DEF Install, RunTruth
    <3>2. host' = [host EXCEPT ![step] = TRUE, !.docker = TRUE]
      BY <1>0, <2>3 DEF Install
    <3>3. run'[w].todo = run[w].todo
      <4>1. run' = [run EXCEPT ![w] = [run[w] EXCEPT !.at = "checking", !.again = TRUE]]
        BY <1>0, <2>3 DEF Install
      <4> QED
        BY <1>0, <4>1 DEF Runs
    <3> HIDE DEF step
    <3>4. host'[step] /\ host'.docker
      BY <1>0, <3>1, <3>2 DEF Components
    <3> QED
      BY <2>3, <3>1, <3>3, <3>4 DEF Present, Components, step
  <2>4. CASE ~(Install(w) /\ v = w)
    <3>1. run[v].again /\ run'[v] = run[v]
      BY <2>1, <2>2, <2>4
    <3>2. run[v].mode = "install" /\ run[v].at = "checking"
      BY <1>0, <3>1 DEF RunTruth
    <3>3. run[w].at \notin {"installing", "restarting"}
      BY <1>0, <3>2 DEF WorkInv, RunTruth
    <3>4. host' = host
      BY <1>0, <1>4, <3>3
         DEF TaskStep, FailOrphan, Begin, Pass, StepFails, Pause, BeginInstall, Restart, Install,
             InstallFails, GiveUp, WriteHost, LoseHost, Save, Close, Raise, Crash
    <3> QED
      BY <1>1, <3>1, <3>4
  <2> QED
    BY <2>3, <2>4
<1> QED
  BY <1>2, <1>3, <1>4 DEF Next

LEMMA WorkRuns ==
  ASSUME OneOperator, TruthInv, WorkInv, Next, faults' = 0, ~overlap',
         NEW i \in Jobs, job'[i].status = "running"
  PROVE  \E v \in Workers : run'[v].job = i
<1>0. /\ OwnerInv /\ TypeInv /\ \A w \in Workers : RunTruth(run[w])
      /\ run \in [Workers -> Runs] /\ job \in [Jobs -> JobRows]
      /\ faults = 0 /\ ~overlap /\ exists /\ \A f : ~Fault(f)
  BY FaultsStay, WorkModes DEF TruthInv, OwnerInv, TypeInv, TypeOK, WorkInv
<1>1. CASE Start \/ Confirm \/ Delete \/ Repair \/ \E c \in Clients : AskRetry(c) \/ Reset(c)
  <2>1. job[i].status = "running" /\ run' = run
    BY <1>0, <1>1, RequestRows DEF Start, Confirm, Delete, Repair, AskRetry, Reset
  <2> QED
    BY <1>0, <2>1 DEF WorkInv
<1>2. ASSUME NEW w \in Workers, Take(w) PROVE \E v \in Workers : run'[v].job = i
  <2>1. PICK v \in Workers : run[v].job = i
    BY <1>0, <1>2 DEF WorkInv, Take
  <2>2. v # w
    BY <1>0, <1>2, <2>1, Parameters DEF Take, OwnerInv, RunOwns, Parameters
  <2>3. run'[v] = run[v]
    BY <1>0, <1>2, <2>2, TakeTruth
  <2> QED
    BY <2>1, <2>3
<1>3. ASSUME NEW w \in Workers, TaskStep(w) \/ Raise(w) \/ Crash(w)
      PROVE  \E v \in Workers : run'[v].job = i
  <2>1. PICK j \in Jobs : j = run[w].job
    BY <1>0, <1>3, TaskJobs
  <2>2. PICK row : job' = [job EXCEPT ![j] = row] /\ Written(w, row)
    BY <1>0, <1>3, <2>1, TaskJobs
  <2>3. PICK s : run' = [run EXCEPT ![w] = s] /\ Follows(run[w], s)
    BY <1>0, <1>3, TaskFollows
  <2>4. /\ \A v \in Workers : run'[v] = IF v = w THEN s ELSE run[v]
        /\ job'[i] = IF i = j THEN row ELSE job[i]
    BY <1>0, <2>2, <2>3
  <2>5. CASE i # j
    <3>1. PICK v \in Workers : run[v].job = i
      BY <1>0, <2>4, <2>5 DEF WorkInv
    <3> QED
      BY <2>1, <2>4, <2>5, <3>1
  <2>6. CASE i = j
    <3>1. ~GiveUp(w)
      BY <1>0 DEF GiveUp, Lacks, WorkInv
    <3>2. ~LoseHost(w) /\ ~Raise(w) /\ ~Crash(w)
      BY <1>0 DEF LoseHost, Raise, Crash
    <3>3. ~Close(w) /\ ~FailOrphan(w)
      BY <2>2, <2>4, <2>6 DEF Written
    <3>4. run'[w].at # "idle"
      BY <1>0, <1>3, <3>1, <3>2, <3>3, TaskEnds
    <3>5. s.job = j
      BY <2>1, <2>3, <2>4, <3>4, IdleTruth DEF Follows
    <3> QED
      BY <2>4, <2>6, <3>5
  <2> QED
    BY <2>5, <2>6
<1> QED
  BY <1>1, <1>2, <1>3 DEF Next

LEMMA WorkStep == ASSUME OneOperator PROVE TruthInv /\ WorkInv /\ [Next]_vars => WorkInv'
<1> SUFFICES ASSUME TruthInv, WorkInv, [Next]_vars PROVE WorkInv'
  OBVIOUS
<1>1. CASE Next
  <2>1. faults' = 0 => exists'
    <3> SUFFICES ASSUME faults' = 0 PROVE exists'
      OBVIOUS
    <3>1. exists /\ \A f : ~Fault(f)
      BY <1>1, FaultsStay DEF WorkInv, TruthInv, OwnerInv
    <3> QED
      BY <1>1, <3>1, StepWrites
  <2>2. ~overlap' => \A v, w \in Workers :
                       run'[v].mode = "install" /\ run'[w].mode = "install" => v = w
    BY <1>1, WorkModes
  <2>3. faults' = 0 /\ ~overlap' =>
          \A w \in Workers : run'[w].again => Present(Head(run[w].todo))'
    BY <1>1, WorkAgain
  <2>4. faults' = 0 /\ ~overlap' =>
          \A j \in Jobs : job'[j].status = "running" => \E w \in Workers : run'[w].job = j
    BY <1>1, WorkRuns
  <2> QED
    BY <2>1, <2>2, <2>3, <2>4 DEF WorkInv
<1>2. CASE UNCHANGED vars
  BY <1>2 DEF vars, WorkInv, Present, Ready
<1> QED
  BY <1>1, <1>2

\* For one operator who waits, and as long as nothing of what RunningHasTaskUnlessFault
\* excludes has happened, a job that is shown as running is being worked on: no answer of
\* a host, no retry and no other job leaves it there.
THEOREM RunningJobsAreWorkedOn ==
  ASSUME OneOperator
  PROVE  Spec => []RunningHasTaskUnlessFault
<1>1. Init => WorkInv
  BY IdleTruth DEF Init, WorkInv, NoRow
<1>2. TruthInv /\ [Next]_vars => TruthInv'
  BY TruthStep
<1>3. TruthInv /\ WorkInv /\ [Next]_vars => WorkInv'
  BY WorkStep
<1>4. WorkInv => RunningHasTaskUnlessFault
  BY DEF WorkInv, RunningHasTaskUnlessFault, RunningHasTask, HasTask, Working
<1> QED
  BY <1>1, <1>2, <1>3, <1>4, TruthInit, PTL DEF Spec

-----------------------------------------------------------------------------
(* What lasts, whatever the operators do                                     *)

FreeInv == TypeInv /\ KindInv /\ NewInv /\ \A w \in Workers : RunTruth(run[w])

\* A check or an installation that has succeeded, or is about to, has found the driver
\* and the runtime.
LastingInv == Succeeded \/ Succeeding => host.driver /\ host.runtime

SuccessLasts == Succeeded => host.driver /\ host.runtime

\* What a task may make of the row of a job that others work on as well.
WrittenFreely(w, row) ==
  /\ row.type = job[run[w].job].type
  /\ row.status = NoRow => job[run[w].job].status = NoRow
  /\ row.status = "succeeded" =>
       job[run[w].job].status = "succeeded" \/ run[w].verdict = "succeeded"

LEMMA TaskWrites ==
  ASSUME TypeInv, NEW w \in Workers, TaskStep(w) \/ Raise(w) \/ Crash(w)
  PROVE  /\ run[w].at # "idle" /\ run[w].job \in Jobs /\ UNCHANGED <<queue, request>>
         /\ \E row : job' = [job EXCEPT ![run[w].job] = row] /\ WrittenFreely(w, row)
<1> DEFINE r == run[w]
<1>1. r.at # "idle" /\ UNCHANGED <<queue, request>>
  BY DEF TaskStep, FailOrphan, Begin, Pass, StepFails, Pause, Lacks, BeginInstall, Restart,
         Install, InstallFails, GiveUp, WriteHost, LoseHost, Writes, Save, Close, Raise, Crash
<1>2. PICK j \in Jobs : j = run[w].job
  BY <1>1 DEF TypeInv, Fit
<1>3. job[j] \in JobRows /\ job \in [Jobs -> JobRows]
  BY DEF TypeInv, TypeOK
<1>4. CASE job' = job
  <2>1. job' = [job EXCEPT ![j] = job[j]] /\ WrittenFreely(w, job[j])
    BY <1>2, <1>3, <1>4 DEF WrittenFreely
  <2> QED
    BY <1>1, <1>2, <2>1
<1>5. CASE FailOrphan(w) \/ Begin(w) \/ Save(w)
  <2>1. PICK row \in {MarkFailed(job[j], r.seen), MarkRunning(job[j], r.seen),
                      [job[j] EXCEPT !.plan = r.plan]} : job' = [job EXCEPT ![j] = row]
    BY <1>2, <1>3, <1>5 DEF FailOrphan, Begin, Save
  <2>2. row.type = job[j].type /\ row.status \in {job[j].status, "failed", "running"}
    BY <1>3, <2>1 DEF MarkFailed, MarkRunning, Flush, JobRows
  <2>3. WrittenFreely(w, row)
    BY <1>2, <2>2 DEF WrittenFreely, NoRow
  <2> QED
    BY <1>1, <1>2, <2>1, <2>3
<1>6. CASE Close(w)
  <2> DEFINE row == CASE r.verdict = "succeeded" -> MarkSucceeded(job[j], r.seen)
                      [] r.verdict = "failed"    -> MarkFailed(job[j], r.seen)
                      [] OTHER                   -> MarkWaiting(job[j], r.seen)
  <2>1. job' = [job EXCEPT ![j] = row]
    BY <1>2, <1>6 DEF Close
  <2>2. /\ r.verdict = "succeeded" => row = MarkSucceeded(job[j], r.seen)
        /\ r.verdict # "succeeded" =>
             row \in {MarkFailed(job[j], r.seen), MarkWaiting(job[j], r.seen)}
    OBVIOUS
  <2> HIDE DEF row
  <2>3. /\ row.type = job[j].type
        /\ row.status \in {job[j].status, "succeeded", "failed", "waiting_confirmation"}
        /\ r.verdict # "succeeded" =>
             row.status \in {job[j].status, "failed", "waiting_confirmation"}
    BY <1>3, <2>2 DEF MarkSucceeded, MarkFailed, MarkWaiting, Flush, JobRows
  <2>4. WrittenFreely(w, row)
    BY <1>2, <2>3 DEF WrittenFreely, NoRow
  <2> QED
    BY <1>1, <1>2, <2>1, <2>4
<1> QED
  BY <1>4, <1>5, <1>6
     DEF TaskStep, Pass, StepFails, Pause, BeginInstall, Restart, Install, InstallFails,
         GiveUp, WriteHost, LoseHost, Raise, Crash

\* Requests write "pending", for new jobs and for those that are retried.
LEMMA RequestsWrite ==
  ASSUME TypeInv, NEW i \in Jobs,
         Start \/ Confirm \/ Delete \/ Repair \/ \E c \in Clients : AskRetry(c) \/ Reset(c)
  PROVE  \/ job'[i] = job[i]
         \/ job'[i].status = "pending" /\ job[i].status = NoRow
         \/ /\ job'[i].status \in {job[i].status, "pending"} /\ job'[i].type = job[i].type
<1>0. TypeOK /\ job \in [Jobs -> JobRows]
  BY DEF TypeInv, TypeOK
<1>1. CASE Start
  <2>1. PICK j \in Jobs, mode \in {"ssh", "check"} :
          /\ job[j].status = NoRow
          /\ job' = [job EXCEPT ![j].status = "pending", ![j].type = mode]
    BY <1>1 DEF Start
  <2> QED
    BY <1>0, <2>1 DEF JobRows
<1>2. ASSUME NEW c \in Clients, Reset(c)
      PROVE  job'[i].status \in {job[i].status, "pending"} /\ job'[i].type = job[i].type
  <2>1. PICK j \in Jobs : j = request[c].job
    BY <1>0, <1>2 DEF Reset, TypeOK, Requests
  <2>2. job' = [job EXCEPT ![j] = ResetForRetry(job[j], request[c].seen)]
    BY <1>2, <2>1 DEF Reset
  <2> QED
    BY <1>0, <2>2 DEF ResetForRetry, Flush, JobRows
<1>3. CASE Confirm \/ Delete \/ Repair \/ \E c \in Clients : AskRetry(c)
  BY <1>3 DEF Confirm, Delete, Repair, AskRetry
<1> QED
  BY <1>1, <1>2, <1>3

LEMMA NewRequests ==
  ASSUME TypeInv, NewInv,
         Start \/ Confirm \/ Delete \/ Repair \/ \E c \in Clients : AskRetry(c) \/ Reset(c)
  PROVE  NewInv'
<1>0. /\ TypeOK /\ run' = run /\ NoJob \notin Jobs
      /\ job \in [Jobs -> JobRows] /\ queue \in [Jobs \X Modes -> Nat]
  BY Parameters DEF TypeInv, TypeOK, Parameters, Start, Confirm, Delete, Repair, AskRetry, Reset
<1>1. ASSUME NEW i \in Jobs, job'[i].status = NoRow
      PROVE  job[i].status = NoRow
  BY <1>1, RequestsWrite DEF NoRow
<1>2. ASSUME NEW j \in Jobs, NEW mode \in Modes, job'[j].status # NoRow, Enqueue(j, mode)
      PROVE  \A i \in Jobs : job'[i].status = NoRow =>
               \A m \in Modes : queue'[<<i, m>>] = queue[<<i, m>>]
  BY <1>0, <1>2 DEF Enqueue
<1>3. ASSUME NEW i \in Jobs, job'[i].status = NoRow
      PROVE  \A m \in Modes : queue'[<<i, m>>] = queue[<<i, m>>]
  <2>1. CASE Start
    <3>1. PICK j \in Jobs, mode \in {"ssh", "check"} :
            /\ job' = [job EXCEPT ![j].status = "pending", ![j].type = mode]
            /\ Enqueue(j, mode)
      BY <2>1 DEF Start
    <3>2. job'[j].status # NoRow /\ mode \in Modes
      BY <1>0, <3>1 DEF JobRows, NoRow, Modes
    <3> QED
      BY <1>2, <1>3, <3>1, <3>2
  <2>2. CASE Confirm
    <3>1. PICK j \in Jobs : /\ job[j].status = "waiting_confirmation" /\ job' = job
                            /\ Enqueue(j, "install")
      BY <2>2 DEF Confirm
    <3>2. job'[j].status # NoRow /\ "install" \in Modes
      BY <3>1 DEF NoRow, Modes
    <3> QED
      BY <1>2, <1>3, <3>1, <3>2
  <2>3. ASSUME NEW c \in Clients, Reset(c)
        PROVE  \A m \in Modes : queue'[<<i, m>>] = queue[<<i, m>>]
    <3>1. PICK j \in Jobs : j = request[c].job
      BY <1>0, <2>3 DEF Reset, TypeOK, Requests
    <3>2. job[j].status # NoRow
      BY <3>1 DEF NewInv
    <3>3. job'[j].status # NoRow /\ Enqueue(j, "check") /\ "check" \in Modes
      BY <1>1, <2>3, <3>1, <3>2 DEF Reset, Modes
    <3> QED
      BY <1>2, <1>3, <3>3
  <2>4. CASE Delete \/ Repair \/ \E c \in Clients : AskRetry(c)
    BY <2>4 DEF Delete, Repair, AskRetry
  <2> QED
    BY <2>1, <2>2, <2>3, <2>4
<1>4. ASSUME NEW i \in Jobs, job'[i].status = NoRow, NEW c \in Clients
      PROVE  request'[c].job # i
  <2>1. request[c].job # i
    BY <1>1, <1>4 DEF NewInv
  <2>2. ASSUME NEW d \in Clients, AskRetry(d) PROVE request'[c].job # i
    <3>1. PICK j \in Jobs :
            /\ job[j].status \in RetryFrom
            /\ request' = [request EXCEPT ![d] = [job |-> j, seen |-> job[j].status]]
      BY <2>2 DEF AskRetry
    <3>2. j # i
      BY <1>1, <1>4, <3>1, Parameters DEF Parameters, JobStatus, NoRow
    <3> QED
      BY <1>0, <2>1, <3>1, <3>2 DEF TypeOK
  <2>3. ASSUME NEW d \in Clients, Reset(d) PROVE request'[c].job # i
    BY <1>0, <2>1, <2>3 DEF Reset, IdleRequest, TypeOK
  <2>4. CASE Start \/ Confirm \/ Delete \/ Repair
    BY <2>1, <2>4 DEF Start, Confirm, Delete, Repair
  <2> QED
    BY <2>2, <2>3, <2>4
<1> QED
  BY <1>0, <1>1, <1>3, <1>4 DEF NewInv, Free

\* Whoever asks for what, tasks keep to the kind of their jobs, and run as they should.
LEMMA FreeStep == FreeInv /\ [Next]_vars => FreeInv'
<1> SUFFICES ASSUME FreeInv, [Next]_vars PROVE FreeInv'
  OBVIOUS
<1>0. /\ TypeInv /\ TypeInv' /\ KindInv /\ NewInv /\ NoJob \notin Jobs
      /\ \A w \in Workers : RunTruth(run[w])
  BY TypeStep, Parameters DEF FreeInv, Parameters
<1>1. CASE Start \/ Confirm \/ Delete \/ Repair \/ \E c \in Clients : AskRetry(c) \/ Reset(c)
  BY <1>0, <1>1, RequestKinds, NewRequests DEF FreeInv
<1>2. ASSUME NEW w \in Workers, Take(w) PROVE FreeInv'
  <2>1. PICK j \in Jobs, m \in Modes :
           /\ queue[<<j, m>>] # 0
           /\ \A i \in Jobs, n \in Modes : queue'[<<i, n>>] # 0 => queue[<<i, n>>] # 0
           /\ \A v \in Workers : v # w => run'[v] = run[v]
           /\ run'[w].job = j /\ run'[w].mode = m /\ RunTruth(run'[w])
    BY <1>0, <1>2, TakeTruth
  <2>2. UNCHANGED <<job, request>>
    BY <1>2 DEF Take
  <2>3. KindInv'
    <3>1. m = "ssh" <=> job[j].type = "ssh"
      BY <1>0, <2>1 DEF KindInv
    <3> QED
      BY <1>0, <2>1, <2>2, <3>1 DEF KindInv
  <2>4. NewInv'
    <3>1. job[j].status # NoRow
      BY <1>0, <2>1 DEF NewInv, Free
    <3> QED
      BY <1>0, <2>1, <2>2, <3>1 DEF NewInv, Free
  <2> QED
    BY <1>0, <2>1, <2>3, <2>4 DEF FreeInv
<1>3. ASSUME NEW w \in Workers, TaskStep(w) \/ Raise(w) \/ Crash(w) PROVE FreeInv'
  <2>1. PICK s : run' = [run EXCEPT ![w] = s] /\ Follows(run[w], s)
    BY <1>0, <1>3, TaskFollows
  <2>2. PICK row : job' = [job EXCEPT ![run[w].job] = row] /\ WrittenFreely(w, row)
    BY <1>0, <1>3, TaskWrites
  <2>3. run[w].at # "idle" /\ run[w].job \in Jobs /\ UNCHANGED <<queue, request>>
    BY <1>0, <1>3, TaskWrites
  <2>4. \A v \in Workers : run'[v] = IF v = w THEN s ELSE run[v]
    BY <1>0, <2>1 DEF TypeInv, TypeOK
  <2>5. \A i \in Jobs : /\ job'[i].type = job[i].type
                        /\ job'[i].status = NoRow => job[i].status = NoRow
    BY <1>0, <2>2, <2>3 DEF TypeInv, TypeOK, WrittenFreely
  <2>6. KindInv'
    <3>1. \A v \in Workers : run[v].at # "idle" => run[v].job \in Jobs
      BY <1>0 DEF TypeInv, Fit
    <3>2. s.at # "idle" => s.job = run[w].job /\ s.mode = run[w].mode
      BY <2>1, IdleTruth DEF Follows
    <3> QED
      BY <1>0, <2>3, <2>4, <2>5, <3>1, <3>2 DEF KindInv
  <2>7. NewInv'
    <3>1. s.job \in {NoJob, run[w].job}
      BY <2>1, IdleTruth DEF Follows
    <3> QED
      BY <1>0, <2>3, <2>4, <2>5, <3>1 DEF NewInv, Free
  <2>8. \A v \in Workers : RunTruth(run'[v])
    BY <1>0, <2>1, <2>4, IdleTruth DEF Follows
  <2> QED
    BY <1>0, <2>6, <2>7, <2>8 DEF FreeInv
<1>4. CASE UNCHANGED vars
  BY <1>0, <1>4 DEF vars, FreeInv, KindInv, NewInv, Free
<1> QED
  BY <1>1, <1>2, <1>3, <1>4 DEF Next

LEMMA LastingStep == FreeInv /\ LastingInv /\ [Next]_vars => LastingInv'
<1> SUFFICES ASSUME FreeInv, LastingInv, [Next]_vars PROVE LastingInv'
  OBVIOUS
<1>0. /\ TypeInv /\ KindInv /\ \A w \in Workers : RunTruth(run[w])
      /\ host \in [Components -> BOOLEAN]
  BY DEF FreeInv, TypeInv, TypeOK
<1>1. CASE Start \/ Confirm \/ Delete \/ Repair \/ \E c \in Clients : AskRetry(c) \/ Reset(c)
  <2>1. run' = run /\ (host.driver => host'.driver) /\ (host.runtime => host'.runtime)
    BY <1>0, <1>1 DEF Start, Confirm, Delete, Repair, AskRetry, Reset, Components
  <2>2. ASSUME NEW i \in Jobs, job'[i].type = "check", job'[i].status = "succeeded"
        PROVE  Succeeded
    BY <1>0, <1>1, <2>2, RequestsWrite DEF Succeeded
  <2> QED
    BY <2>1, <2>2 DEF LastingInv, Succeeded, Succeeding
<1>2. ASSUME NEW w \in Workers, Take(w) PROVE LastingInv'
  <2>1. UNCHANGED <<job, host>>
    BY <1>2 DEF Take
  <2>2. (\A v \in Workers : v # w => run'[v] = run[v]) /\ run'[w].verdict = "none"
    BY <1>0, <1>2, TakeTruth
  <2> QED
    BY <2>1, <2>2 DEF LastingInv, Succeeded, Succeeding
<1>3. ASSUME NEW w \in Workers, TaskStep(w) \/ Raise(w) \/ Crash(w) PROVE LastingInv'
  <2> DEFINE r == run[w]
  <2>1. PICK s : /\ run' = [run EXCEPT ![w] = s] /\ Follows(r, s)
                 /\ s.verdict = "succeeded" =>
                      r.verdict = "succeeded" \/ r.mode = "ssh" \/ (Ready /\ host' = host)
    BY <1>0, <1>3, TaskFollows
  <2>2. PICK row : job' = [job EXCEPT ![r.job] = row] /\ WrittenFreely(w, row)
    BY <1>0, <1>3, TaskWrites
  <2>3. r.at # "idle" /\ r.job \in Jobs
    BY <1>0, <1>3, TaskWrites
  <2>4. (host.driver => host'.driver) /\ (host.runtime => host'.runtime)
    BY <1>0, <1>3, HostMoves
  <2>5. CASE Ready /\ host' = host
    BY <2>5 DEF LastingInv, Ready, Components
  <2>6. CASE ~(Ready /\ host' = host)
    <3>1. Succeeded' => Succeeded \/ Succeeding
      <4> SUFFICES ASSUME NEW i \in Jobs, job'[i].type = "check", job'[i].status = "succeeded"
                   PROVE  Succeeded \/ Succeeding
        BY DEF Succeeded
      <4>1. CASE i # r.job
        BY <1>0, <2>2, <4>1 DEF TypeInv, TypeOK, Succeeded
      <4>2. CASE i = r.job
        <5>1. job'[i] = row /\ job[i].type = "check"
          BY <1>0, <2>2, <2>3, <4>2 DEF TypeInv, TypeOK, WrittenFreely
        <5>2. r.mode # "ssh"
          BY <1>0, <2>3, <4>2, <5>1 DEF KindInv
        <5> QED
          BY <2>2, <4>2, <5>1, <5>2 DEF WrittenFreely, Succeeded, Succeeding
      <4> QED
        BY <4>1, <4>2
    <3>2. Succeeding' => Succeeding
      <4> SUFFICES ASSUME NEW v \in Workers, run'[v].mode # "ssh", run'[v].verdict = "succeeded"
                   PROVE  Succeeding
        BY DEF Succeeding
      <4>1. CASE v # w
        BY <1>0, <2>1, <4>1 DEF TypeInv, TypeOK, Succeeding
      <4>2. CASE v = w
        <5>1. s.mode # "ssh" /\ s.verdict = "succeeded"
          BY <1>0, <2>1, <4>2 DEF TypeInv, TypeOK
        <5>2. s.mode = r.mode
          BY <2>1, <5>1, IdleTruth DEF Follows
        <5> QED
          BY <2>1, <2>6, <5>1, <5>2 DEF Succeeding
      <4> QED
        BY <4>1, <4>2
    <3> QED
      BY <2>4, <3>1, <3>2 DEF LastingInv
  <2> QED
    BY <2>5, <2>6
<1>4. CASE UNCHANGED vars
  BY <1>4 DEF vars, LastingInv, Succeeded, Succeeding
<1> QED
  BY <1>1, <1>2, <1>3, <1>4 DEF Next

\* A host on which a check or an installation has succeeded has its driver and its runtime
\* for good, for any operators: also when they confirm twice, retry jobs that are at work,
\* and send requests at the same time.
THEOREM SuccessIsLasting == Spec => []SuccessLasts
<1>1. Init => FreeInv /\ LastingInv
  <2> SUFFICES ASSUME Init PROVE FreeInv /\ LastingInv
    OBVIOUS
  <2>1. TruthInv
    BY TruthInit
  <2>2. ~Succeeded /\ ~Succeeding
    BY IdleTruth DEF Init, Succeeded, Succeeding, NoRow
  <2> QED
    BY <2>1, <2>2, OwnersAreStored DEF TruthInv, OwnerInv, FreeInv, LastingInv
<1>2. LastingInv => SuccessLasts
  BY DEF LastingInv, SuccessLasts
<1> QED
  BY <1>1, <1>2, FreeStep, LastingStep, PTL DEF Spec
================================================================================
