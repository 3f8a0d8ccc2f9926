----------------------------- MODULE HostChecks_proofs -----------------------------
(***************************************************************************)
(* Theorems of HostChecks, for any number of jobs, clients, workers,       *)
(* requests and faults.                                                    *)
(***************************************************************************)
EXTENDS HostChecks, SequenceTheorems, TLAPS

-----------------------------------------------------------------------------
(* Type correctness                                                          *)

\* A run r that is not idle has a job, one at a step has a step, and one about to
\* write to the host's row has a verdict for it.
Fit(r) ==
  /\ r.at # "idle" => r.job \in Jobs
  /\ r.at \in {"loaded", "checking", "installing", "restarting"} => r.todo # <<>>
  /\ r.at = "host" => r.verdict \in {"succeeded", "failed"}

TypeInv == TypeOK /\ \A w \in Workers : Fit(run[w])

StepNames == Components \cup {"access", "container"}

LEMMA StepsTyped ==
  ASSUME NEW m \in Modes
  PROVE  Steps(m) \in Seq(StepNames) /\ Steps(m) # <<>>
<1> DEFINE first == <<"access">>
           rest == IF m = "ssh" THEN <<>> ELSE <<"driver", "docker", "runtime", "container">>
<1>1. first \in Seq(StepNames) /\ Len(first) = 1
  BY DEF StepNames
<1>2. rest \in Seq(StepNames)
  <2>1. <<>> \in Seq(StepNames)
    OBVIOUS
  <2>2. <<"driver", "docker", "runtime", "container">> \in Seq(StepNames)
    BY DEF StepNames, Components
  <2> QED
    BY <2>1, <2>2
<1>3. Steps(m) = first \o rest
  BY DEF Steps
<1>4. Len(<<>>) = 0
  OBVIOUS
<1> HIDE DEF first, rest
<1>5. first \o rest \in Seq(StepNames) /\ Len(first \o rest) = Len(first) + Len(rest)
      /\ Len(rest) \in Nat
  BY <1>1, <1>2, ConcatProperties, LenProperties
<1>6. Len(first \o rest) # 0
  BY <1>1, <1>5
<1> QED
  BY <1>3, <1>4, <1>5, <1>6

\* The end of a run is fit to be written.
LEMMA ConcludingTyped ==
  ASSUME NEW r \in Runs, r.job \in Jobs, NEW verdict \in {"succeeded", "failed"}
  PROVE  /\ Concluding(r, verdict) \in Runs /\ Fit(Concluding(r, verdict))
         /\ Concluding(r, verdict).at \in {"host", "save"}
         /\ Concluding(r, verdict).verdict = verdict
         /\ Concluding(r, verdict).job = r.job /\ Concluding(r, verdict).seen = r.seen
<1>1. <<>> \in Seq(StepNames)
  OBVIOUS
<1> QED
  BY <1>1 DEF Concluding, Runs, Fit, Stages, Verdicts, StepNames

LEMMA IdleTyped == IdleRun \in Runs /\ Fit(IdleRun)
<1>1. <<>> \in Seq(StepNames)
  OBVIOUS
<1> QED
  BY <1>1 DEF IdleRun, Runs, Fit, Stages, Modes, JobStatus, NoRow, Shown, Verdicts, StepNames

LEMMA TypeInit == Init => TypeInv
<1> SUFFICES ASSUME Init PROVE TypeInv
  OBVIOUS
<1>1. job \in [Jobs -> JobRows] /\ queue \in [Jobs \X Modes -> Nat]
  BY DEF Init, JobRows
<1>2. request \in [Clients -> Requests] /\ run \in [Workers -> Runs]
  BY IdleTyped DEF Init, Requests, IdleRequest, JobStatus
<1>3. /\ host \in [Components -> BOOLEAN] /\ exists \in BOOLEAN /\ overlap \in BOOLEAN
      /\ shown \in Shown
  BY DEF Init, Shown
<1>4. requests \in 0..MaxRequests /\ faults \in 0..MaxFaults
  BY Parameters DEF Init, Parameters
<1> QED
  BY <1>1, <1>2, <1>3, <1>4, IdleTyped DEF Init, TypeOK, TypeInv

LEMMA RunTyped ==
  ASSUME TypeInv, NEW w \in Workers, NEW r \in Runs, Fit(r), run' = [run EXCEPT ![w] = r]
  PROVE  run' \in [Workers -> Runs] /\ \A v \in Workers : Fit(run'[v])
BY DEF TypeInv, TypeOK

\* The mark_* functions write a status.
LEMMA MarksTyped ==
  ASSUME NEW row \in JobRows, NEW seen
  PROVE  /\ MarkRunning(row, seen) \in JobRows /\ MarkSucceeded(row, seen) \in JobRows
         /\ MarkFailed(row, seen) \in JobRows /\ MarkWaiting(row, seen) \in JobRows
         /\ ResetForRetry(row, seen) \in JobRows
BY DEF MarkRunning, MarkSucceeded, MarkFailed, MarkWaiting, ResetForRetry, Flush, JobRows,
       JobStatus

LEMMA FaultTyped ==
  ASSUME TypeOK, NEW f, Fault(f)
  PROVE  faults' \in 0..MaxFaults
BY Parameters DEF TypeOK, Fault, Parameters

LEMMA TypeRequests ==
  ASSUME TypeInv,
         Start \/ Confirm \/ Delete \/ Repair \/ \E c \in Clients : AskRetry(c) \/ Reset(c)
  PROVE  TypeInv'
<1>0. TypeOK /\ run' = run
  BY DEF TypeInv, Start, Confirm, Delete, Repair, AskRetry, Reset
<1>1. CASE Start
  <2>1. job' \in [Jobs -> JobRows] /\ queue' \in [Jobs \X Modes -> Nat]
    BY <1>0, <1>1 DEF Start, Enqueue, TypeOK, JobRows, JobStatus, Modes
  <2> QED
    BY <1>0, <1>1, <2>1 DEF Start, TypeOK, TypeInv
<1>2. CASE Confirm
  <2>1. queue' \in [Jobs \X Modes -> Nat] /\ requests' \in 0..MaxRequests
    BY <1>0, <1>2, Parameters DEF Confirm, Enqueue, TypeOK, Modes, Parameters
  <2> QED
    BY <1>0, <1>2, <2>1 DEF Confirm, TypeOK, TypeInv
<1>3. CASE Delete
  <2>1. faults' \in 0..MaxFaults
    BY <1>0, <1>3, FaultTyped DEF Delete
  <2>2. exists' \in BOOLEAN
    BY <1>3, Zenon DEF Delete
  <2> QED
    BY <1>0, <1>3, <2>1, <2>2 DEF Delete, TypeOK, TypeInv
<1>4. CASE Repair
  BY <1>0, <1>4 DEF Repair, TypeOK, TypeInv
<1>5. ASSUME NEW c \in Clients, AskRetry(c) PROVE TypeInv'
  <2>1. request' \in [Clients -> Requests] /\ requests' \in 0..MaxRequests
    BY <1>0, <1>5, Parameters DEF AskRetry, TypeOK, Requests, Parameters
  <2> QED
    BY <1>0, <1>5, <2>1 DEF AskRetry, TypeOK, TypeInv
<1>6. ASSUME NEW c \in Clients, Reset(c) PROVE TypeInv'
  <2>1. request[c].job \in Jobs
    BY <1>0, <1>6 DEF Reset, TypeOK, Requests
  <2>2. job' \in [Jobs -> JobRows]
    BY <1>0, <1>6, <2>1, MarksTyped DEF Reset, TypeOK
  <2>3. queue' \in [Jobs \X Modes -> Nat] /\ request' \in [Clients -> Requests]
    BY <1>0, <1>6, <2>1
       DEF Reset, Enqueue, TypeOK, Modes, Requests, IdleRequest, JobStatus
  <2> QED
    BY <1>0, <1>6, <2>2, <2>3 DEF Reset, TypeOK, TypeInv
<1> QED
  BY <1>1, <1>2, <1>3, <1>4, <1>5, <1>6

\* What installation leaves on a host is a host.
LEMMA UnfinishedTyped ==
  ASSUME TypeOK, NEW step
  PROVE  Unfinished(step) \subseteq [Components -> BOOLEAN]
BY DEF TypeOK, Unfinished, Components

LEMMA TailTyped ==
  ASSUME NEW s \in Seq(StepNames), s # <<>>
  PROVE  Tail(s) \in Seq(StepNames)
BY HeadTailProperties

LEMMA TypeTake ==
  ASSUME TypeInv, NEW w \in Workers, Take(w)
  PROVE  TypeInv'
<1>0. TypeOK
  BY DEF TypeInv
<1>1. PICK j \in Jobs, m \in Modes :
        /\ queue[<<j, m>>] > 0
        /\ queue' = [queue EXCEPT ![<<j, m>>] = queue[<<j, m>>] - 1]
        /\ run' = [run EXCEPT ![w] =
                     [IdleRun EXCEPT !.at = IF exists THEN "loaded" ELSE "orphan",
                                     !.job = j, !.mode = m,
                                     !.seen = job[j].status, !.seenShown = shown,
                                     !.todo = Steps(m)]]
  BY DEF Take
<1>2. queue' \in [Jobs \X Modes -> Nat]
  <2>1. PICK n \in Nat : n = queue[<<j, m>>] - 1
    <3>1. queue[<<j, m>>] \in Nat
      BY <1>0 DEF TypeOK
    <3>2. \A k \in Nat : k > 0 => k - 1 \in Nat
      OBVIOUS
    <3> QED
      BY <1>1, <3>1, <3>2, Zenon
  <2> QED
    BY <1>0, <1>1, <2>1 DEF TypeOK
<1> DEFINE r == [IdleRun EXCEPT !.at = IF exists THEN "loaded" ELSE "orphan",
                                !.job = j, !.mode = m,
                                !.seen = job[j].status, !.seenShown = shown,
                                !.todo = Steps(m)]
<1>3. job[j].status \in JobStatus \cup {NoRow} /\ shown \in Shown
  BY <1>0 DEF TypeOK, JobRows
<1>4. r \in Runs /\ Fit(r)
  BY <1>3, StepsTyped, IdleTyped DEF Runs, Fit, Stages, IdleRun, StepNames
<1>5. run' \in [Workers -> Runs] /\ \A v \in Workers : Fit(run'[v])
  BY <1>1, <1>4, RunTyped
<1>6. overlap' \in BOOLEAN
  BY <1>0, Zenon DEF Take, TypeOK
<1> QED
  BY <1>0, <1>2, <1>5, <1>6 DEF Take, TypeOK, TypeInv

\* A step that changes no table of the database.
LEMMA TypeRunOnly ==
  ASSUME TypeInv, NEW w \in Workers, NEW r \in Runs, Fit(r), run' = [run EXCEPT ![w] = r],
         host' \in [Components -> BOOLEAN], faults' \in 0..MaxFaults,
         UNCHANGED <<job, queue, request, exists, overlap, shown, requests>>
  PROVE  TypeInv'
BY RunTyped DEF TypeInv, TypeOK

\* The same with a row of the jobs table.
LEMMA TypeJobStep ==
  ASSUME TypeInv, NEW w \in Workers, NEW r \in Runs, Fit(r), run' = [run EXCEPT ![w] = r],
         NEW j \in Jobs, NEW row \in JobRows, job' = [job EXCEPT ![j] = row],
         UNCHANGED <<queue, request, host, exists, overlap, shown, requests, faults>>
  PROVE  TypeInv'
BY RunTyped DEF TypeInv, TypeOK

LEMMA TypeChecks ==
  ASSUME TypeInv, NEW w \in Workers,
         \/ Pass(w) \/ StepFails(w) \/ Pause(w) \/ BeginInstall(w) \/ Restart(w)
         \/ Install(w) \/ InstallFails(w) \/ GiveUp(w) \/ LoseHost(w) \/ Raise(w) \/ Crash(w)
  PROVE  TypeInv'
<1> DEFINE r == run[w]
<1>0. /\ TypeOK /\ r \in Runs /\ run \in [Workers -> Runs] /\ Fit(r)
      /\ host \in [Components -> BOOLEAN] /\ faults \in 0..MaxFaults
      /\ r.todo \in Seq(StepNames)
  BY DEF TypeInv, TypeOK, Runs, StepNames
<1>1. CASE Pass(w)
  <2> DEFINE next == [r EXCEPT !.todo = Tail(r.todo), !.again = FALSE]
             end == IF next.todo = <<>> THEN Concluding(next, "succeeded") ELSE next
  <2>1. /\ r.at = "checking" /\ run' = [run EXCEPT ![w] = end]
        /\ UNCHANGED <<job, queue, request, host, exists, overlap, shown, requests, faults>>
    BY <1>1 DEF Pass
  <2>2. Tail(r.todo) \in Seq(StepNames) /\ r.job \in Jobs
    BY <1>0, <2>1, TailTyped DEF Fit
  <2>3. next \in Runs /\ next.job \in Jobs /\ (next.todo # <<>> => Fit(next))
    BY <1>0, <2>1, <2>2 DEF Runs, Fit, StepNames
  <2> HIDE DEF next
  <2>4. end \in Runs /\ Fit(end)
    BY <2>3, ConcludingTyped
  <2> HIDE DEF end
  <2> QED
    BY <1>0, <2>1, <2>4, TypeRunOnly
<1>2. CASE StepFails(w) \/ InstallFails(w)
  <2>1. /\ r.job \in Jobs /\ run' = [run EXCEPT ![w] = Concluding(r, "failed")]
        /\ UNCHANGED <<job, queue, request, exists, overlap, shown, requests, faults>>
    BY <1>0, <1>2 DEF StepFails, InstallFails, Fit
  <2>2. host' \in [Components -> BOOLEAN]
    BY <1>0, <1>2, UnfinishedTyped DEF StepFails, InstallFails
  <2>3. Concluding(r, "failed") \in Runs /\ Fit(Concluding(r, "failed"))
    BY <1>0, <2>1, ConcludingTyped
  <2> QED
    BY <1>0, <2>1, <2>2, <2>3, TypeRunOnly
<1>3. CASE Pause(w)
  <2> DEFINE step == Head(r.todo)
             end == [r EXCEPT !.verdict = "waiting_confirmation", !.plan = step,
                              !.todo = <<>>, !.again = FALSE, !.at = "save"]
  <2>1. r.at = "checking" /\ step \in Components
    BY <1>3 DEF Pause, Lacks
  <2>2. run' = [run EXCEPT ![w] = end]
    BY <1>0, <1>3 DEF Pause
  <2>3. end \in Runs /\ Fit(end)
    <3>1. <<>> \in Seq(StepNames)
      OBVIOUS
    <3> HIDE DEF step
    <3> QED
      BY <1>0, <2>1, <3>1 DEF Runs, Fit, Stages, Verdicts, StepNames
  <2> HIDE DEF end
  <2> QED
    BY <1>0, <1>3, <2>2, <2>3, TypeRunOnly DEF Pause
<1>4. CASE BeginInstall(w) \/ Restart(w)
  <2>1. PICK at \in {"installing", "restarting"} : run' = [run EXCEPT ![w].at = at]
    BY <1>4 DEF BeginInstall, Restart, Step
  <2> DEFINE end == [r EXCEPT !.at = at]
  <2>2. run' = [run EXCEPT ![w] = end]
    BY <1>0, <2>1
  <2>3. r.job \in Jobs /\ r.todo # <<>>
    BY <1>0, <1>4 DEF BeginInstall, Restart, Lacks, Fit
  <2>4. end \in Runs /\ Fit(end)
    BY <1>0, <2>3 DEF Runs, Fit, Stages
  <2>5. host' \in [Components -> BOOLEAN] /\ faults' = faults
        /\ UNCHANGED <<job, queue, request, exists, overlap, shown, requests>>
    BY <1>0, <1>4 DEF BeginInstall, Restart
  <2> HIDE DEF end
  <2> QED
    BY <1>0, <2>2, <2>4, <2>5, TypeRunOnly
<1>5. CASE Install(w)
  <2> DEFINE end == [r EXCEPT !.at = "checking", !.again = TRUE]
             step == Head(r.todo)
  <2>1. run' = [run EXCEPT ![w] = end]
    BY <1>0, <1>5 DEF Install
  <2>2. r.job \in Jobs /\ r.todo # <<>>
    BY <1>0, <1>5 DEF Install, Fit
  <2>3. end \in Runs /\ Fit(end)
    BY <1>0, <2>2 DEF Runs, Fit, Stages
  <2>4. host' \in [Components -> BOOLEAN]
    <3>1. CASE host' = [host EXCEPT ![step] = TRUE, !.docker = TRUE]
      BY <1>0, <3>1
    <3>2. CASE host' = [host EXCEPT !.docker = @ \/ step = "runtime"]
      BY <1>0, <3>2, Zenon
    <3> QED
      BY <1>5, <3>1, <3>2 DEF Install
  <2>5. faults' \in 0..MaxFaults
    BY <1>0, <1>5, FaultTyped DEF Install
  <2> HIDE DEF end
  <2> QED
    BY <1>0, <1>5, <2>1, <2>3, <2>4, <2>5, TypeRunOnly DEF Install
<1>6. CASE GiveUp(w) \/ LoseHost(w) \/ Crash(w)
  <2>1. /\ run' = [run EXCEPT ![w] = IdleRun]
        /\ UNCHANGED <<job, queue, request, exists, overlap, shown, requests>>
    BY <1>6 DEF GiveUp, LoseHost, Crash
  <2>2. host' \in [Components -> BOOLEAN]
    BY <1>0, <1>6, UnfinishedTyped DEF GiveUp, LoseHost, Crash
  <2>3. faults' \in 0..MaxFaults
    BY <1>0, <1>6, FaultTyped DEF GiveUp, LoseHost, Crash
  <2> QED
    BY <1>0, <2>1, <2>2, <2>3, IdleTyped, TypeRunOnly
<1>7. CASE Raise(w)
  <2>1. PICK end \in {Concluding(r, "failed"), IdleRun} : run' = [run EXCEPT ![w] = end]
    BY <1>7 DEF Raise
  <2>2. r.job \in Jobs
    BY <1>0, <1>7 DEF Raise, Fit
  <2>3. end \in Runs /\ Fit(end)
    BY <1>0, <2>1, <2>2, ConcludingTyped, IdleTyped
  <2>4. host' \in [Components -> BOOLEAN]
    BY <1>0, <1>7, UnfinishedTyped DEF Raise
  <2>5. faults' \in 0..MaxFaults
    BY <1>0, <1>7, FaultTyped DEF Raise
  <2> QED
    BY <1>0, <1>7, <2>1, <2>3, <2>4, <2>5, TypeRunOnly DEF Raise
<1> QED
  BY <1>1, <1>2, <1>3, <1>4, <1>5, <1>6, <1>7

LEMMA TypeCommits ==
  ASSUME TypeInv, NEW w \in Workers,
         FailOrphan(w) \/ Begin(w) \/ WriteHost(w) \/ Save(w) \/ Close(w)
  PROVE  TypeInv'
<1> DEFINE r == run[w]
           j == run[w].job
<1>0. /\ TypeOK /\ r \in Runs /\ run \in [Workers -> Runs] /\ Fit(r)
      /\ j \in Jobs /\ job[j] \in JobRows
  BY DEF TypeInv, TypeOK, Fit, FailOrphan, Begin, WriteHost, Save, Close
<1>1. CASE FailOrphan(w)
  <2>1. MarkFailed(job[j], r.seen) \in JobRows
    BY <1>0, MarksTyped
  <2> QED
    BY <1>0, <1>1, <2>1, IdleTyped, TypeJobStep DEF FailOrphan
<1>2. CASE Begin(w)
  <2> DEFINE row == MarkRunning(job[j], r.seen)
             end == [r EXCEPT !.at = "checking", !.seen = row.status]
  <2>1. row \in JobRows
    BY <1>0, MarksTyped
  <2>2. /\ r.at = "loaded" /\ job' = [job EXCEPT ![j] = row]
        /\ run' = [run EXCEPT ![w] = end]
        /\ UNCHANGED <<queue, request, host, exists, overlap, shown, requests, faults>>
    BY <1>0, <1>2 DEF Begin
  <2> HIDE DEF row
  <2>3. end \in Runs /\ Fit(end)
    BY <1>0, <2>1, <2>2 DEF Runs, Fit, Stages, JobRows
  <2> HIDE DEF end
  <2> QED
    BY <1>0, <2>1, <2>2, <2>3, TypeJobStep
<1>3. CASE WriteHost(w)
  <2>1. PICK at \in {"close", "save"} : run' = [run EXCEPT ![w].at = at]
    BY <1>3 DEF WriteHost, Step
  <2> DEFINE end == [r EXCEPT !.at = at]
  <2>2. run' = [run EXCEPT ![w] = end]
    BY <1>0, <2>1
  <2>3. end \in Runs /\ Fit(end)
    BY <1>0 DEF Runs, Fit, Stages
  <2>4. shown' \in Shown
    BY <1>0, <1>3 DEF WriteHost, Flush, Fit, TypeOK, Shown
  <2> HIDE DEF end
  <2>5. run' \in [Workers -> Runs] /\ \A v \in Workers : Fit(run'[v])
    BY <2>2, <2>3, RunTyped
  <2> QED
    BY <1>0, <1>3, <2>4, <2>5 DEF WriteHost, TypeOK, TypeInv
<1>4. CASE Save(w)
  <2> DEFINE row == [job[j] EXCEPT !.plan = r.plan]
             end == [r EXCEPT !.at = "close", !.seen = job[j].status]
  <2>1. row \in JobRows
    BY <1>0 DEF JobRows, Runs
  <2>2. /\ job' = [job EXCEPT ![j] = row] /\ run' = [run EXCEPT ![w] = end]
        /\ UNCHANGED <<queue, request, host, exists, overlap, shown, requests, faults>>
    BY <1>0, <1>4 DEF Save, TypeOK
  <2>3. end \in Runs /\ Fit(end)
    BY <1>0 DEF Runs, Fit, Stages, JobRows
  <2> HIDE DEF row, end
  <2> QED
    BY <1>0, <2>1, <2>2, <2>3, TypeJobStep
<1>5. CASE Close(w)
  <2>1. PICK row \in {MarkSucceeded(job[j], r.seen), MarkFailed(job[j], r.seen),
                      MarkWaiting(job[j], r.seen)} : job' = [job EXCEPT ![j] = row]
    BY <1>5 DEF Close
  <2>2. row \in JobRows
    BY <1>0, <2>1, MarksTyped
  <2> QED
    BY <1>0, <1>5, <2>1, <2>2, IdleTyped, TypeJobStep DEF Close
<1> QED
  BY <1>1, <1>2, <1>3, <1>4, <1>5

LEMMA TypeStep == TypeInv /\ [Next]_vars => TypeInv'
<1> SUFFICES ASSUME TypeInv, [Next]_vars PROVE TypeInv'
  OBVIOUS
<1>1. CASE Start \/ Confirm \/ Delete \/ Repair \/ \E c \in Clients : AskRetry(c) \/ Reset(c)
  BY <1>1, TypeRequests
<1>2. CASE \E w \in Workers : Take(w) \/ TaskStep(w) \/ Raise(w) \/ Crash(w)
  BY <1>2, TypeTake, TypeChecks, TypeCommits DEF TaskStep
<1>3. CASE UNCHANGED vars
  BY <1>3 DEF vars, TypeInv, TypeOK
<1> QED
  BY <1>1, <1>2, <1>3 DEF Next

\* Whatever tasks, retries and deletions interleave and fail, the job rows, the host's
\* row and the sessions keep to their domains: no verdict that the list of hosts does
\* not know is ever written to it.
THEOREM ChecksTypeCorrect == Spec => []TypeOK
<1>1. TypeInv => TypeOK
  BY DEF TypeInv
<1> QED
  BY <1>1, TypeInit, TypeStep, PTL DEF Spec

-----------------------------------------------------------------------------
(* One operator who waits: every job has at most one task                    *)

\* Operators confirm once, retry only what has failed, and send one retry at a time.
OneOperator ==
  /\ Patient /\ RetryFrom \subseteq {"failed"}
  /\ \A a, b \in Clients : a = b

AtWork == {"checking", "installing", "restarting", "host", "save", "close"}
Ended == {"succeeded", "failed"}

\* What a run r knows of the row of its job is true, and a pause has its plan.
Knows(r, row) ==
  /\ r.at \in {"loaded", "orphan"} =>
       row.status = r.seen /\ r.seen \in {"pending", "waiting_confirmation"}
  /\ r.at \in AtWork => row.status = "running" /\ r.seen = "running"
  /\ r.at = "save" /\ r.verdict \notin Ended => r.plan # "none"
  /\ r.at = "close" /\ r.verdict \notin Ended => row.plan # "none"

Free(j) == (\A m \in Modes : queue[<<j, m>>] = 0) /\ \A w \in Workers : run[w].job # j

RequestOwns ==
  \A c \in Clients : request[c].job \in Jobs =>
    /\ job[request[c].job].status = "failed" /\ request[c].seen = "failed"
    /\ Free(request[c].job)

QueueOwns ==
  \A j \in Jobs, m \in Modes : queue[<<j, m>>] # 0 =>
    /\ queue[<<j, m>>] = 1 /\ \A n \in Modes : n # m => queue[<<j, n>>] = 0
    /\ \A w \in Workers : run[w].job # j
    /\ job[j].status \in {"pending", "waiting_confirmation"}

RunOwns ==
  \A w \in Workers :
    IF run[w].at = "idle" THEN run[w].job = NoJob
    ELSE /\ Knows(run[w], job[run[w].job])
         /\ \A v \in Workers : run[v].job = run[w].job => v = w

OwnerInv == TypeInv /\ RequestOwns /\ QueueOwns /\ RunOwns /\ WaitingOffersPlan

LEMMA OwnerInit == Init => OwnerInv
<1> SUFFICES ASSUME Init PROVE OwnerInv
  OBVIOUS
<1>1. /\ \A c \in Clients : request[c].job = NoJob
      /\ \A w \in Workers : run[w].at = "idle" /\ run[w].job = NoJob
      /\ \A j \in Jobs : job[j].status = NoRow
      /\ \A j \in Jobs, m \in Modes : queue[<<j, m>>] = 0
  BY DEF Init, IdleRun, IdleRequest
<1> QED
  BY <1>1, TypeInit, Parameters
     DEF OwnerInv, RequestOwns, QueueOwns, RunOwns, WaitingOffersPlan, NoRow, Parameters

\* A job that is neither open nor paused has no task.
LEMMA OthersAreFree ==
  ASSUME OwnerInv, NEW j \in Jobs,
         job[j].status \notin {"pending", "waiting_confirmation", "running"}
  PROVE  Free(j)
<1>1. ASSUME NEW w \in Workers, run[w].job = j PROVE FALSE
  <2>1. run[w].at # "idle"
    BY <1>1, Parameters DEF OwnerInv, RunOwns, Parameters
  <2>2. Knows(run[w], job[j]) /\ run[w].at \in Stages
    BY <1>1, <2>1 DEF OwnerInv, RunOwns, TypeInv, TypeOK, Runs
  <2> QED
    BY <2>1, <2>2 DEF Knows, AtWork, Stages
<1> QED
  BY <1>1 DEF OwnerInv, QueueOwns, Free

\* What a run does with its own job is nobody else's concern.
LEMMA OwnerJobStep ==
  ASSUME OwnerInv, TypeInv', NEW w \in Workers, NEW r, NEW row,
         run[w].at # "idle", UNCHANGED <<queue, request>>,
         run' = [run EXCEPT ![w] = r], job' = [job EXCEPT ![run[w].job] = row],
         IF r.at = "idle" THEN r.job = NoJob ELSE r.job = run[w].job /\ Knows(r, row),
         row.status = "waiting_confirmation" => row.plan # "none"
  PROVE  OwnerInv'
<1> DEFINE j == run[w].job
<1>1. /\ j \in Jobs
      /\ \A i \in Jobs : job'[i] = IF i = j THEN row ELSE job[i]
      /\ \A v \in Workers : run'[v] = IF v = w THEN r ELSE run[v]
  BY DEF OwnerInv, TypeInv, TypeOK, Fit
<1>2. \A v \in Workers : v # w => run[v].job # j
  BY DEF OwnerInv, RunOwns
<1>3. \A i \in Jobs, m \in Modes : queue[<<i, m>>] # 0 => i # j
  BY DEF OwnerInv, QueueOwns
<1>4. \A c \in Clients : request[c].job \in Jobs => request[c].job # j
  BY DEF OwnerInv, RequestOwns, Free
<1>5. NoJob \notin Jobs
  BY Parameters DEF Parameters
<1> HIDE DEF j
<1>6. \A v \in Workers : run'[v].job \in Jobs => run'[v].job = run[v].job
  BY <1>1, <1>5 DEF j
<1>7. \A i \in Jobs : Free(i) => Free(i)'
  BY <1>6 DEF Free
<1>8. RequestOwns'
  BY <1>1, <1>4, <1>7 DEF OwnerInv, RequestOwns
<1>9. QueueOwns'
  <2> SUFFICES ASSUME NEW i \in Jobs, NEW m \in Modes, queue'[<<i, m>>] # 0
               PROVE  /\ queue'[<<i, m>>] = 1
                      /\ \A n \in Modes : n # m => queue'[<<i, n>>] = 0
                      /\ \A v \in Workers : run'[v].job # i
                      /\ job'[i].status \in {"pending", "waiting_confirmation"}
    BY DEF QueueOwns
  <2>1. /\ queue[<<i, m>>] = 1 /\ \A n \in Modes : n # m => queue[<<i, n>>] = 0
        /\ \A v \in Workers : run[v].job # i
        /\ job[i].status \in {"pending", "waiting_confirmation"}
    BY DEF OwnerInv, QueueOwns
  <2>2. job'[i] = job[i]
    BY <1>1, <1>3
  <2>3. ASSUME NEW v \in Workers, run'[v].job = i PROVE FALSE
    BY <1>6, <2>1, <2>3
  <2> QED
    BY <2>1, <2>2, <2>3
<1>10. RunOwns'
  <2> SUFFICES ASSUME NEW v \in Workers
               PROVE  IF run'[v].at = "idle" THEN run'[v].job = NoJob
                      ELSE /\ Knows(run'[v], job'[run'[v].job])
                           /\ \A u \in Workers : run'[u].job = run'[v].job => u = v
    BY DEF RunOwns
  <2>1. CASE v = w
    BY <1>1, <1>2, <2>1 DEF j
  <2>2. CASE v # w
    <3>1. run'[v] = run[v]
      BY <1>1, <2>2
    <3>2. CASE run[v].at = "idle"
      BY <3>1, <3>2 DEF OwnerInv, RunOwns
    <3>3. CASE run[v].at # "idle"
      <4>1. run[v].job \in Jobs /\ run[v].job # j
        BY <1>2, <2>2, <3>3 DEF OwnerInv, TypeInv, Fit
      <4>2. Knows(run[v], job[run[v].job]) /\ \A u \in Workers : run[u].job = run[v].job => u = v
        BY <3>3 DEF OwnerInv, RunOwns
      <4> QED
        BY <1>1, <1>6, <3>1, <3>3, <4>1, <4>2
    <3> QED
      BY <3>2, <3>3
  <2> QED
    BY <2>1, <2>2
<1>11. WaitingOffersPlan'
  BY <1>1 DEF OwnerInv, WaitingOffersPlan
<1> QED
  BY <1>8, <1>9, <1>10, <1>11 DEF OwnerInv

LEMMA OwnerRunStep ==
  ASSUME OwnerInv, TypeInv', NEW w \in Workers, NEW r,
         run[w].at # "idle", UNCHANGED <<job, queue, request>>,
         run' = [run EXCEPT ![w] = r],
         IF r.at = "idle" THEN r.job = NoJob
         ELSE r.job = run[w].job /\ Knows(r, job[run[w].job])
  PROVE  OwnerInv'
<1>1. /\ run[w].job \in Jobs
      /\ job' = [job EXCEPT ![run[w].job] = job[run[w].job]]
  BY DEF OwnerInv, TypeInv, TypeOK, Fit
<1>2. job[run[w].job].status = "waiting_confirmation" => job[run[w].job].plan # "none"
  BY <1>1 DEF OwnerInv, WaitingOffersPlan
<1> QED
  BY <1>1, <1>2, OwnerJobStep

\* A request hands a job that nobody works on to the workers.
LEMMA OwnerEnqueue ==
  ASSUME OwnerInv, TypeInv', NEW j \in Jobs, NEW mode \in Modes, NEW row,
         Free(j), Enqueue(j, mode), run' = run, job' = [job EXCEPT ![j] = row],
         row.status \in {"pending", "waiting_confirmation"},
         row.status = "waiting_confirmation" => row.plan # "none",
         \A c \in Clients : request'[c].job \in Jobs =>
           request'[c].job # j /\ request'[c] = request[c]
  PROVE  OwnerInv'
<1>1. /\ \A i \in Jobs : job'[i] = IF i = j THEN row ELSE job[i]
      /\ queue'[<<j, mode>>] = 1
      /\ \A i \in Jobs, m \in Modes : <<i, m>> # <<j, mode>> => queue'[<<i, m>>] = queue[<<i, m>>]
  BY DEF OwnerInv, TypeInv, TypeOK, Enqueue, Free
<1>2. \A i \in Jobs : i # j /\ Free(i) => Free(i)'
  BY <1>1 DEF Free
<1>3. RequestOwns'
  BY <1>1, <1>2 DEF OwnerInv, RequestOwns
<1>4. QueueOwns'
  <2> SUFFICES ASSUME NEW i \in Jobs, NEW m \in Modes, queue'[<<i, m>>] # 0
               PROVE  /\ queue'[<<i, m>>] = 1
                      /\ \A n \in Modes : n # m => queue'[<<i, n>>] = 0
                      /\ \A v \in Workers : run[v].job # i
                      /\ job'[i].status \in {"pending", "waiting_confirmation"}
    BY DEF QueueOwns
  <2>1. CASE i = j
    BY <1>1, <2>1 DEF Free
  <2>2. CASE i # j
    BY <1>1, <2>2 DEF OwnerInv, QueueOwns
  <2> QED
    BY <2>1, <2>2
<1>5. RunOwns'
  <2>1. \A v \in Workers : run[v].at # "idle" => run[v].job \in Jobs /\ run[v].job # j
    BY DEF OwnerInv, TypeInv, Fit, Free
  <2> QED
    BY <1>1, <2>1 DEF OwnerInv, RunOwns
<1>6. WaitingOffersPlan'
  BY <1>1 DEF OwnerInv, WaitingOffersPlan
<1> QED
  BY <1>3, <1>4, <1>5, <1>6 DEF OwnerInv

LEMMA OwnerRequests ==
  ASSUME OneOperator, OwnerInv, TypeInv',
         Start \/ Confirm \/ Delete \/ Repair \/ \E c \in Clients : AskRetry(c) \/ Reset(c)
  PROVE  OwnerInv'
<1>0. /\ TypeOK /\ NoJob \notin Jobs
      /\ \A j \in Jobs : job = [job EXCEPT ![j] = job[j]]
  BY Parameters DEF OwnerInv, TypeInv, TypeOK, Parameters
<1>1. CASE Start
  <2>1. PICK j \in Jobs, mode \in {"ssh", "check"} :
          /\ job[j].status = NoRow
          /\ job' = [job EXCEPT ![j].status = "pending", ![j].type = mode]
          /\ Enqueue(j, mode)
    BY <1>1 DEF Start
  <2> DEFINE row == [job[j] EXCEPT !.status = "pending", !.type = mode]
  <2>2. job' = [job EXCEPT ![j] = row] /\ row.status = "pending"
    <3>1. job[j] \in JobRows /\ job \in [Jobs -> JobRows]
      BY <1>0 DEF TypeOK
    <3> DEFINE first == [job[j] EXCEPT !.status = "pending"]
    <3>2. [job EXCEPT ![j].status = "pending"] = [job EXCEPT ![j] = first]
      OBVIOUS
    <3>3. [[job EXCEPT ![j] = first] EXCEPT ![j].type = mode]
          = [job EXCEPT ![j] = [first EXCEPT !.type = mode]]
      BY <3>1
    <3>4. row = [first EXCEPT !.type = mode]
      OBVIOUS
    <3>5. row.status = "pending"
      BY <3>1 DEF JobRows
    <3> HIDE DEF row, first
    <3> QED
      BY <2>1, <3>2, <3>3, <3>4, <3>5
  <2>3. Free(j)
    BY <2>1, OthersAreFree DEF NoRow
  <2>4. \A c \in Clients : request[c].job \in Jobs => request[c].job # j
    BY <2>1 DEF OwnerInv, RequestOwns, NoRow
  <2>5. run' = run /\ request' = request /\ mode \in Modes
    BY <1>1 DEF Start, Modes
  <2> HIDE DEF row
  <2> QED
    BY <2>1, <2>2, <2>3, <2>4, <2>5, OwnerEnqueue
<1>2. CASE Confirm
  <2>1. PICK j \in Jobs :
          /\ job[j].status = "waiting_confirmation" /\ ~HasTask(j) /\ Enqueue(j, "install")
    BY <1>2 DEF Confirm, OneOperator
  <2>2. Free(j)
    BY <1>0, <2>1 DEF HasTask, Working, Waiting, Free, TypeOK
  <2>3. \A c \in Clients : request[c].job \in Jobs => request[c].job # j
    BY <2>1 DEF OwnerInv, RequestOwns
  <2>4. run' = run /\ request' = request /\ job' = [job EXCEPT ![j] = job[j]]
    BY <1>0, <1>2 DEF Confirm
  <2>5. job[j].plan # "none"
    BY <2>1 DEF OwnerInv, WaitingOffersPlan
  <2> QED
    BY <2>1, <2>2, <2>3, <2>4, <2>5, OwnerEnqueue DEF Modes
<1>3. CASE Delete \/ Repair
  <2>1. UNCHANGED <<job, queue, request, run>>
    BY <1>3 DEF Delete, Repair
  <2> QED
    BY <2>1 DEF OwnerInv, RequestOwns, QueueOwns, RunOwns, WaitingOffersPlan, Free
<1>4. ASSUME NEW c \in Clients, AskRetry(c) PROVE OwnerInv'
  <2>1. PICK j \in Jobs :
          /\ job[j].status = "failed"
          /\ request' = [request EXCEPT ![c] = [job |-> j, seen |-> "failed"]]
    BY <1>4 DEF AskRetry, OneOperator
  <2>2. UNCHANGED <<job, queue, run>>
    BY <1>4 DEF AskRetry
  <2>3. Free(j)
    BY <2>1, OthersAreFree
  <2>4. \A d \in Clients : request'[d] = IF d = c THEN [job |-> j, seen |-> "failed"]
                                                  ELSE request[d]
    BY <1>0, <2>1 DEF TypeOK
  <2>5. QueueOwns' /\ RunOwns' /\ WaitingOffersPlan' /\ \A i \in Jobs : Free(i) => Free(i)'
    BY <2>2 DEF OwnerInv, QueueOwns, RunOwns, WaitingOffersPlan, Free
  <2>6. RequestOwns'
    BY <2>1, <2>2, <2>3, <2>4, <2>5 DEF OwnerInv, RequestOwns
  <2> QED
    BY <2>5, <2>6 DEF OwnerInv
<1>5. ASSUME NEW c \in Clients, Reset(c) PROVE OwnerInv'
  <2> DEFINE j == request[c].job
             row == ResetForRetry(job[j], request[c].seen)
  <2>1. j \in Jobs
    BY <1>0, <1>5 DEF Reset, TypeOK, Requests
  <2>2. request[c].seen = "failed" /\ Free(j)
    BY <2>1 DEF OwnerInv, RequestOwns
  <2>3. row.status = "pending"
    BY <1>0, <2>1, <2>2 DEF ResetForRetry, Flush, TypeOK, JobRows
  <2>4. /\ job' = [job EXCEPT ![j] = row] /\ Enqueue(j, "check") /\ run' = run
        /\ request' = [request EXCEPT ![c] = IdleRequest]
    BY <1>5 DEF Reset
  <2>5. \A d \in Clients : request'[d].job = NoJob
    BY <1>0, <2>4 DEF OneOperator, TypeOK, IdleRequest
  <2> HIDE DEF j, row
  <2> QED
    BY <1>0, <2>1, <2>2, <2>3, <2>4, <2>5, OwnerEnqueue DEF Modes
<1> QED
  BY <1>1, <1>2, <1>3, <1>4, <1>5

LEMMA OwnerTake ==
  ASSUME OwnerInv, TypeInv', NEW w \in Workers, Take(w)
  PROVE  OwnerInv'
<1>1. PICK j \in Jobs, m \in Modes :
        /\ queue[<<j, m>>] > 0
        /\ queue' = [queue EXCEPT ![<<j, m>>] = @ - 1]
        /\ run' = [run EXCEPT ![w] =
                     [IdleRun EXCEPT !.at = IF exists THEN "loaded" ELSE "orphan",
                                     !.job = j, !.mode = m,
                                     !.seen = job[j].status, !.seenShown = shown,
                                     !.todo = Steps(m)]]
  BY DEF Take
<1> DEFINE r == run'[w]
<1>2. /\ r.at \in {"loaded", "orphan"} /\ r.job = j /\ r.seen = job[j].status
      /\ \A v \in Workers : v # w => run'[v] = run[v]
  BY <1>1 DEF OwnerInv, TypeInv, TypeOK, IdleRun
<1>3. UNCHANGED <<job, request>>
  BY DEF Take
<1>4. queue[<<j, m>>] # 0
  BY <1>1 DEF OwnerInv, TypeInv, TypeOK
<1>5. /\ queue[<<j, m>>] = 1 /\ \A n \in Modes : n # m => queue[<<j, n>>] = 0
      /\ \A v \in Workers : run[v].job # j
      /\ job[j].status \in {"pending", "waiting_confirmation"}
  BY <1>4 DEF OwnerInv, QueueOwns
<1>6. \A i \in Jobs, n \in Modes :
        queue'[<<i, n>>] = IF i = j THEN 0 ELSE queue[<<i, n>>]
  <2>1. queue'[<<j, m>>] = 0
    BY <1>1, <1>5 DEF OwnerInv, TypeInv, TypeOK
  <2>2. \A i \in Jobs, n \in Modes : i # j \/ n # m => queue'[<<i, n>>] = queue[<<i, n>>]
    BY <1>1 DEF OwnerInv, TypeInv, TypeOK
  <2> QED
    BY <1>5, <2>1, <2>2
<1>7. \A c \in Clients : request[c].job \in Jobs => request[c].job # j
  BY <1>5 DEF OwnerInv, RequestOwns
<1> HIDE DEF r
<1>8. \A i \in Jobs : i # j /\ Free(i) => Free(i)'
  BY <1>2, <1>6 DEF Free, r
<1>9. RequestOwns'
  BY <1>3, <1>7, <1>8 DEF OwnerInv, RequestOwns
<1>10. QueueOwns'
  <2> SUFFICES ASSUME NEW i \in Jobs, NEW n \in Modes, queue'[<<i, n>>] # 0
               PROVE  /\ queue'[<<i, n>>] = 1
                      /\ \A k \in Modes : k # n => queue'[<<i, k>>] = 0
                      /\ \A v \in Workers : run'[v].job # i
                      /\ job[i].status \in {"pending", "waiting_confirmation"}
    BY <1>3 DEF QueueOwns
  <2>1. i # j
    BY <1>6
  <2>2. /\ queue[<<i, n>>] = 1 /\ \A k \in Modes : k # n => queue[<<i, k>>] = 0
        /\ \A v \in Workers : run[v].job # i
        /\ job[i].status \in {"pending", "waiting_confirmation"}
    BY <1>6, <2>1 DEF OwnerInv, QueueOwns
  <2> QED
    BY <1>2, <1>6, <2>1, <2>2 DEF r
<1>11. RunOwns'
  <2> SUFFICES ASSUME NEW v \in Workers
               PROVE  IF run'[v].at = "idle" THEN run'[v].job = NoJob
                      ELSE /\ Knows(run'[v], job[run'[v].job])
                           /\ \A u \in Workers : run'[u].job = run'[v].job => u = v
    BY <1>3 DEF RunOwns
  <2>1. CASE v = w
    <3>1. \A u \in Workers : run'[u].job = j => u = w
      BY <1>2, <1>5
    <3>2. Knows(r, job[j])
      BY <1>2, <1>5 DEF Knows, AtWork
    <3> QED
      BY <1>2, <2>1, <3>1, <3>2 DEF r
  <2>2. CASE v # w
    <3>1. run'[v] = run[v] /\ run[v].job # j
      BY <1>2, <1>5, <2>2
    <3>2. IF run[v].at = "idle" THEN run[v].job = NoJob
          ELSE /\ Knows(run[v], job[run[v].job])
               /\ \A u \in Workers : run[u].job = run[v].job => u = v
      BY DEF OwnerInv, RunOwns
    <3> QED
      BY <1>2, <3>1, <3>2 DEF r
  <2> QED
    BY <2>1, <2>2
<1>12. WaitingOffersPlan'
  BY <1>3 DEF OwnerInv, WaitingOffersPlan
<1> QED
  BY <1>9, <1>10, <1>11, <1>12 DEF OwnerInv

\* A step in which run w moves on to r and its job to row.
LEMMA OwnerTask ==
  ASSUME OwnerInv, TypeInv', NEW w \in Workers,
         TaskStep(w) \/ Raise(w) \/ Crash(w)
  PROVE  OwnerInv'
<1> DEFINE r == run[w]
           j == run[w].job
<1>0. /\ r.at # "idle" /\ j \in Jobs /\ r \in Runs /\ Fit(r) /\ job[j] \in JobRows
      /\ run \in [Workers -> Runs] /\ job \in [Jobs -> JobRows] /\ NoJob \notin Jobs
      /\ Knows(r, job[j])
  <2>1. r.at # "idle"
    BY DEF TaskStep, FailOrphan, Begin, Pass, StepFails, Pause, Lacks, BeginInstall, Restart,
           Install, InstallFails, GiveUp, WriteHost, LoseHost, Writes, Save, Close, Raise, Crash
  <2> QED
    BY <2>1, Parameters DEF OwnerInv, TypeInv, TypeOK, Fit, RunOwns, Parameters
<1>1. UNCHANGED <<queue, request>>
  BY DEF TaskStep, FailOrphan, Begin, Pass, StepFails, Pause, BeginInstall, Restart,
         Install, InstallFails, GiveUp, WriteHost, LoseHost, Save, Close, Raise, Crash
<1>2. CASE GiveUp(w) \/ LoseHost(w) \/ Crash(w)
  <2>1. run' = [run EXCEPT ![w] = IdleRun] /\ job' = job
    BY <1>2 DEF GiveUp, LoseHost, Crash
  <2> QED
    BY <1>0, <1>1, <2>1, OwnerRunStep DEF IdleRun
<1>3. CASE StepFails(w) \/ InstallFails(w) \/ Raise(w)
  <2>1. PICK end \in {Concluding(r, "failed"), IdleRun} : run' = [run EXCEPT ![w] = end]
    BY <1>3 DEF StepFails, InstallFails, Raise
  <2>2. job' = job /\ r.at \in AtWork
    BY <1>3 DEF StepFails, InstallFails, Raise, AtWork
  <2>3. IF end.at = "idle" THEN end.job = NoJob ELSE end.job = j /\ Knows(end, job[j])
    BY <1>0, <2>1, <2>2, ConcludingTyped DEF IdleRun, Knows, AtWork, Ended
  <2> QED
    BY <1>0, <1>1, <2>1, <2>2, <2>3, OwnerRunStep
<1>4. CASE Pass(w)
  <2> DEFINE next == [r EXCEPT !.todo = Tail(r.todo), !.again = FALSE]
             end == IF next.todo = <<>> THEN Concluding(next, "succeeded") ELSE next
  <2>1. r.at = "checking" /\ run' = [run EXCEPT ![w] = end] /\ job' = job
    BY <1>4 DEF Pass
  <2>2. Tail(r.todo) \in Seq(StepNames)
    BY <1>0, <2>1, TailTyped DEF Fit, Runs, StepNames
  <2>3. next \in Runs /\ next.job = j /\ next.at = r.at /\ next.seen = r.seen
    BY <1>0, <2>2 DEF Runs, StepNames
  <2> HIDE DEF next
  <2>4. end.at # "idle" /\ end.job = j /\ Knows(end, job[j])
    BY <1>0, <2>1, <2>3, ConcludingTyped DEF Knows, AtWork, Ended
  <2> HIDE DEF end
  <2> QED
    BY <1>0, <1>1, <2>1, <2>4, OwnerRunStep
<1>5. CASE Pause(w)
  <2> DEFINE step == Head(r.todo)
             end == [r EXCEPT !.verdict = "waiting_confirmation", !.plan = step,
                              !.todo = <<>>, !.again = FALSE, !.at = "save"]
  <2>1. r.at = "checking" /\ step \in Components /\ job' = job
    BY <1>5 DEF Pause, Lacks
  <2>2. run' = [run EXCEPT ![w] = end]
    BY <1>0, <1>5 DEF Pause
  <2> HIDE DEF step
  <2>3. end.at = "save" /\ end.job = j /\ end.seen = r.seen /\ end.plan # "none"
    BY <1>0, <2>1 DEF Runs, Components
  <2> HIDE DEF end
  <2> QED
    BY <1>0, <1>1, <2>1, <2>2, <2>3, OwnerRunStep DEF Knows, AtWork
<1>6. CASE BeginInstall(w) \/ Restart(w) \/ Install(w)
  <2>1. PICK at \in {"installing", "restarting", "checking"}, again \in BOOLEAN :
          run' = [run EXCEPT ![w] = [r EXCEPT !.at = at, !.again = again]]
    <3>1. BeginInstall(w) => run' = [run EXCEPT ![w] = [r EXCEPT !.at = "installing", !.again = r.again]]
      BY <1>0 DEF BeginInstall, Step, Runs
    <3>2. Restart(w) => run' = [run EXCEPT ![w] = [r EXCEPT !.at = "restarting", !.again = r.again]]
      BY <1>0 DEF Restart, Step, Runs
    <3>3. Install(w) => run' = [run EXCEPT ![w] = [r EXCEPT !.at = "checking", !.again = TRUE]]
      BY <1>0 DEF Install, Runs
    <3>4. r.again \in BOOLEAN
      BY <1>0 DEF Runs
    <3> QED
      BY <1>6, <3>1, <3>2, <3>3, <3>4
  <2> DEFINE end == [r EXCEPT !.at = at, !.again = again]
  <2>2. job' = job /\ r.at \in AtWork
    BY <1>6 DEF BeginInstall, Restart, Install, Lacks, AtWork
  <2>3. end.at \in {"installing", "restarting", "checking"} /\ end.job = j /\ end.seen = r.seen
    BY <1>0 DEF Runs
  <2>4. end.at # "idle" /\ end.job = j /\ Knows(end, job[j])
    BY <1>0, <2>2, <2>3 DEF Knows, AtWork
  <2> HIDE DEF end
  <2> QED
    BY <1>0, <1>1, <2>1, <2>2, <2>4, OwnerRunStep DEF end
<1>7. CASE WriteHost(w)
  <2>1. PICK at \in {"close", "save"} : run' = [run EXCEPT ![w].at = at]
    BY <1>7 DEF WriteHost, Step
  <2> DEFINE end == [r EXCEPT !.at = at]
  <2>2. run' = [run EXCEPT ![w] = end] /\ job' = job /\ r.at = "host"
    BY <1>0, <1>7, <2>1 DEF WriteHost
  <2>3. /\ end.at \in {"close", "save"} /\ end.job = j /\ end.seen = r.seen
        /\ end.verdict \in Ended
    BY <1>0, <2>2 DEF Runs, Fit, Ended
  <2> HIDE DEF end
  <2> QED
    BY <1>0, <1>1, <2>2, <2>3, OwnerRunStep DEF Knows, AtWork
<1>8. CASE FailOrphan(w)
  <2> DEFINE row == MarkFailed(job[j], r.seen)
  <2>1. job' = [job EXCEPT ![j] = row] /\ run' = [run EXCEPT ![w] = IdleRun]
    BY <1>8 DEF FailOrphan
  <2>2. row.status = "failed"
    BY <1>0, <1>8 DEF FailOrphan, Knows, MarkFailed, Flush, JobRows
  <2> HIDE DEF row
  <2> QED
    BY <1>0, <1>1, <2>1, <2>2, OwnerJobStep DEF IdleRun
<1>9. CASE Begin(w)
  <2> DEFINE row == MarkRunning(job[j], r.seen)
             end == [r EXCEPT !.at = "checking", !.seen = row.status]
  <2>1. job' = [job EXCEPT ![j] = row] /\ run' = [run EXCEPT ![w] = end] /\ r.at = "loaded"
    BY <1>0, <1>9 DEF Begin
  <2>2. row.status = "running"
    BY <1>0, <2>1 DEF Knows, MarkRunning, Flush, JobRows
  <2> HIDE DEF row
  <2>3. end.at = "checking" /\ end.job = j /\ end.seen = "running"
    BY <1>0, <2>2 DEF Runs
  <2> HIDE DEF end
  <2> QED
    BY <1>0, <1>1, <2>1, <2>2, <2>3, OwnerJobStep DEF Knows, AtWork
<1>10. CASE Save(w)
  <2> DEFINE row == [job[j] EXCEPT !.plan = r.plan]
             end == [r EXCEPT !.at = "close", !.seen = job[j].status]
  <2>1. job' = [job EXCEPT ![j] = row] /\ run' = [run EXCEPT ![w] = end] /\ r.at = "save"
    BY <1>0, <1>10 DEF Save
  <2>2. job[j].status = "running" /\ (r.verdict \notin Ended => r.plan # "none")
    BY <1>0, <2>1 DEF Knows, AtWork
  <2>3. row.status = "running" /\ row.plan = r.plan
    BY <1>0, <2>2 DEF JobRows
  <2>4. end.at = "close" /\ end.job = j /\ end.seen = "running" /\ end.verdict = r.verdict
    BY <1>0, <2>2 DEF Runs
  <2> HIDE DEF row, end
  <2> QED
    BY <1>0, <1>1, <2>1, <2>2, <2>3, <2>4, OwnerJobStep DEF Knows, AtWork
<1>11. CASE Close(w)
  <2>1. r.at = "close" /\ run' = [run EXCEPT ![w] = IdleRun]
    BY <1>11 DEF Close
  <2>2. r.seen = "running" /\ (r.verdict \notin Ended => job[j].plan # "none")
    BY <1>0, <2>1 DEF Knows, AtWork
  <2>3. PICK row :
          /\ job' = [job EXCEPT ![j] = row]
          /\ row.status = "waiting_confirmation" => row.plan # "none"
    <3>1. CASE r.verdict = "succeeded"
      <4>1. /\ job' = [job EXCEPT ![j] = MarkSucceeded(job[j], r.seen)]
            /\ MarkSucceeded(job[j], r.seen).status = "succeeded"
        BY <1>0, <1>11, <2>2, <3>1 DEF Close, MarkSucceeded, Flush, JobRows
      <4> QED
        BY <4>1
    <3>2. CASE r.verdict = "failed"
      <4>1. /\ job' = [job EXCEPT ![j] = MarkFailed(job[j], r.seen)]
            /\ MarkFailed(job[j], r.seen).status = "failed"
        BY <1>0, <1>11, <2>2, <3>2 DEF Close, MarkFailed, Flush, JobRows
      <4> QED
        BY <4>1
    <3>3. CASE r.verdict \notin Ended
      <4>1. /\ job' = [job EXCEPT ![j] = MarkWaiting(job[j], r.seen)]
            /\ MarkWaiting(job[j], r.seen).plan = job[j].plan
        BY <1>0, <1>11, <3>3 DEF Close, Ended, MarkWaiting, JobRows
      <4> QED
        BY <2>2, <3>3, <4>1
    <3> QED
      BY <3>1, <3>2, <3>3 DEF Ended
  <2> QED
    BY <1>0, <1>1, <2>1, <2>3, OwnerJobStep DEF IdleRun
<1> QED
  BY <1>2, <1>3, <1>4, <1>5, <1>6, <1>7, <1>8, <1>9, <1>10, <1>11 DEF TaskStep

LEMMA OwnerStep == ASSUME OneOperator PROVE OwnerInv /\ [Next]_vars => OwnerInv'
<1> SUFFICES ASSUME OwnerInv, [Next]_vars PROVE OwnerInv'
  OBVIOUS
<1>0. TypeInv'
  BY TypeStep DEF OwnerInv
<1>1. CASE Start \/ Confirm \/ Delete \/ Repair \/ \E c \in Clients : AskRetry(c) \/ Reset(c)
  BY <1>0, <1>1, OwnerRequests
<1>2. CASE \E w \in Workers : Take(w) \/ TaskStep(w) \/ Raise(w) \/ Crash(w)
  BY <1>0, <1>2, OwnerTake, OwnerTask
<1>3. CASE UNCHANGED vars
  BY <1>0, <1>3 DEF vars, OwnerInv, RequestOwns, QueueOwns, RunOwns, WaitingOffersPlan, Free
<1> QED
  BY <1>1, <1>2, <1>3 DEF Next

\* For an operator who confirms once and retries one failed job at a time, every job that
\* waits for a confirmation has the plan to confirm, whatever tasks of other jobs do,
\* fail or lose meanwhile, and even if the host's row is deleted.
THEOREM WaitingJobsOfferPlan ==
  ASSUME OneOperator
  PROVE  Spec => []WaitingOffersPlan
<1>1. OwnerInv => WaitingOffersPlan
  BY DEF OwnerInv
<1>2. OwnerInv /\ [Next]_vars => OwnerInv'
  BY OwnerStep
<1> QED
  BY <1>1, <1>2, OwnerInit, PTL DEF Spec

\* A write of one row moves one job.
LEMMA RowMoves ==
  ASSUME job \in [Jobs -> JobRows], NEW j \in Jobs, NEW row, NEW from,
         job' = [job EXCEPT ![j] = row], job[j].status \in from
  PROVE  Lifecycle!Move(j, from, row.status)
<1> DEFINE before == [i \in Jobs |-> job[i].status]
           after == [i \in Jobs |-> job'[i].status]
<1>1. before[j] \in from
  OBVIOUS
<1>2. after = [before EXCEPT ![j] = row.status]
  OBVIOUS
<1> QED
  BY <1>1, <1>2 DEF Lifecycle!Move

\* What a task commits to its job is a step of the life cycle.
LEMMA CommitMoves ==
  ASSUME OwnerInv, NEW w \in Workers,
         FailOrphan(w) \/ Begin(w) \/ Close(w)
  PROVE  Lifecycle!Next
<1> DEFINE r == run[w]
<1>owner. PICK j \in Jobs : j = run[w].job
  BY DEF OwnerInv, TypeInv, Fit, FailOrphan, Begin, Close
<1>0. /\ job[j] \in JobRows /\ job \in [Jobs -> JobRows]
      /\ Knows(r, job[j]) /\ r.at \in {"orphan", "loaded", "close"}
  BY <1>owner DEF OwnerInv, TypeInv, TypeOK, RunOwns, FailOrphan, Begin, Close
<1>1. CASE FailOrphan(w)
  <2> DEFINE row == MarkFailed(job[j], r.seen)
  <2>1. job' = [job EXCEPT ![j] = row] /\ job[j].status \in {"pending", "waiting_confirmation"}
    BY <1>owner, <1>0, <1>1 DEF FailOrphan, Knows
  <2>2. row.status = "failed"
    BY <1>owner, <1>0, <1>1 DEF FailOrphan, Knows, MarkFailed, Flush, JobRows
  <2> HIDE DEF row
  <2>3. Lifecycle!Fail(j)
    BY <1>0, <2>1, <2>2, RowMoves DEF Lifecycle!Fail
  <2> QED
    BY <1>0, <2>3 DEF Lifecycle!Next
<1>2. CASE Begin(w)
  <2> DEFINE row == MarkRunning(job[j], r.seen)
  <2>1. job' = [job EXCEPT ![j] = row] /\ job[j].status \in {"pending", "waiting_confirmation"}
    BY <1>owner, <1>0, <1>2 DEF Begin, Knows
  <2>2. row.status = "running"
    BY <1>owner, <1>0, <1>2 DEF Begin, Knows, MarkRunning, Flush, JobRows
  <2> HIDE DEF row
  <2>3. Lifecycle!Start(j)
    BY <1>0, <2>1, <2>2, RowMoves DEF Lifecycle!Start
  <2> QED
    BY <1>0, <2>3 DEF Lifecycle!Next
<1>3. CASE Close(w)
  <2>1. job[j].status = "running" /\ r.seen = "running"
    BY <1>owner, <1>0, <1>3 DEF Close, Knows, AtWork
  <2>2. /\ MarkSucceeded(job[j], r.seen).status = "succeeded"
        /\ MarkFailed(job[j], r.seen).status = "failed"
        /\ MarkWaiting(job[j], r.seen).status = "waiting_confirmation"
    BY <1>0, <2>1 DEF MarkSucceeded, MarkFailed, MarkWaiting, Flush, JobRows
  <2>3. PICK row \in {MarkSucceeded(job[j], r.seen), MarkFailed(job[j], r.seen),
                      MarkWaiting(job[j], r.seen)} : job' = [job EXCEPT ![j] = row]
    BY <1>owner, <1>3 DEF Close
  <2>4. row.status \in {"succeeded", "failed", "waiting_confirmation"}
    BY <2>2, <2>3
  <2>5. /\ Lifecycle!Move(j, {"running"}, row.status)
        /\ Lifecycle!Move(j, {"pending", "waiting_confirmation", "running"}, row.status)
    BY <1>0, <2>1, <2>3, RowMoves
  <2>6. Lifecycle!Succeed(j) \/ Lifecycle!Fail(j) \/ Lifecycle!Wait(j)
    BY <2>4, <2>5 DEF Lifecycle!Succeed, Lifecycle!Fail, Lifecycle!Wait
  <2> QED
    BY <1>0, <2>6 DEF Lifecycle!Next
<1> QED
  BY <1>1, <1>2, <1>3

LEMMA LifecycleStep ==
  ASSUME OwnerInv, Next
  PROVE  Lifecycle!Next \/ UNCHANGED [j \in Jobs |-> job[j].status]
<1> DEFINE status == [j \in Jobs |-> job[j].status]
<1>0. TypeOK /\ job \in [Jobs -> JobRows]
  BY DEF OwnerInv, TypeInv, TypeOK
<1>1. CASE Start
  <2>1. PICK j \in Jobs, mode \in {"ssh", "check"} :
          /\ job[j].status = NoRow
          /\ job' = [job EXCEPT ![j].status = "pending", ![j].type = mode]
    BY <1>1 DEF Start
  <2>2. \A i \in Jobs : job'[i].status = IF i = j THEN "pending" ELSE job[i].status
    BY <1>0, <2>1 DEF JobRows
  <2>3. [i \in Jobs |-> job'[i].status] = [status EXCEPT ![j] = "pending"]
    BY <2>2
  <2>4. Lifecycle!Create(j)
    BY <2>1, <2>3 DEF Lifecycle!Create, Lifecycle!Move, NoRow
  <2> QED
    BY <2>4 DEF Lifecycle!Next
<1>2. ASSUME NEW c \in Clients, Reset(c) PROVE Lifecycle!Next
  <2>owner. PICK j \in Jobs : j = request[c].job
    BY <1>0, <1>2 DEF Reset, TypeOK, Requests
  <2> DEFINE row == ResetForRetry(job[j], request[c].seen)
  <2>1. job' = [job EXCEPT ![j] = row]
    BY <1>2, <2>owner DEF Reset
  <2>2. job[j].status = "failed" /\ request[c].seen = "failed"
    BY <2>owner DEF OwnerInv, RequestOwns
  <2>3. row.status = "pending"
    BY <1>0, <2>1, <2>2 DEF ResetForRetry, Flush, JobRows
  <2> HIDE DEF row
  <2>4. Lifecycle!Retry(j)
    BY <1>0, <2>1, <2>2, <2>3, RowMoves DEF Lifecycle!Retry
  <2> QED
    BY <2>4 DEF Lifecycle!Next
<1>3. ASSUME NEW w \in Workers, Save(w) PROVE UNCHANGED status
  BY <1>0, <1>3 DEF Save, JobRows
<1>4. ASSUME NEW w \in Workers,
             \/ Take(w) \/ Pass(w) \/ StepFails(w) \/ Pause(w) \/ BeginInstall(w) \/ Restart(w)
             \/ Install(w) \/ InstallFails(w) \/ GiveUp(w) \/ WriteHost(w) \/ LoseHost(w)
             \/ Raise(w) \/ Crash(w)
      PROVE  UNCHANGED status
  BY <1>4 DEF Take, Pass, StepFails, Pause, BeginInstall, Restart, Install, InstallFails,
              GiveUp, WriteHost, LoseHost, Raise, Crash
<1>5. ASSUME NEW c \in Clients, AskRetry(c) PROVE UNCHANGED status
  BY <1>5 DEF AskRetry
<1>6. CASE Confirm \/ Delete \/ Repair
  BY <1>6 DEF Confirm, Delete, Repair
<1> QED
  BY <1>1, <1>2, <1>3, <1>4, <1>5, <1>6, CommitMoves DEF Next, TaskStep

\* For such an operator every job of a host goes through the documented life cycle, although
\* neither a task nor a retry looks at the status it overwrites.
THEOREM ChecksKeepLifecycle ==
  ASSUME OneOperator
  PROVE  Spec => JobsFollowLifecycle
<1> DEFINE status == [j \in Jobs |-> job[j].status]
<1>1. Init => Lifecycle!Init
  BY DEF Init, Lifecycle!Init, NoRow
<1>2. OwnerInv /\ [Next]_vars => OwnerInv'
  BY OwnerStep
<1>3. OwnerInv /\ [Next]_vars => [Lifecycle!Next]_status
  BY LifecycleStep DEF vars
<1> QED
  BY <1>1, <1>2, <1>3, OwnerInit, PTL DEF Spec, JobsFollowLifecycle, Lifecycle!Spec
================================================================================
