----------------------------- MODULE JobLifecycle -----------------------------
(***************************************************************************)
(* What the job table promises its readers (jobs/, the pages and the retry *)
(* button): a job starts pending, runs, and ends; success is final.        *)
(***************************************************************************)
CONSTANT Jobs
VARIABLE status  \* of each job; "none" before it is created

Init == status = [j \in Jobs |-> "none"]

Move(j, from, to) ==
  /\ status[j] \in from
  /\ status' = [status EXCEPT ![j] = to]

Create(j)  == Move(j, {"none"}, "pending")
Start(j)   == Move(j, {"pending", "waiting_confirmation"}, "running")
Succeed(j) == Move(j, {"running"}, "succeeded")
Wait(j)    == Move(j, {"running"}, "waiting_confirmation")
\* a task that cannot even be started fails as well
Fail(j)    == Move(j, {"pending", "waiting_confirmation", "running"}, "failed")
Retry(j)   == Move(j, {"failed", "waiting_confirmation"}, "pending")

Next == \E j \in Jobs : Create(j) \/ Start(j) \/ Succeed(j) \/ Wait(j) \/ Fail(j) \/ Retry(j)

Spec == Init /\ [][Next]_status
===============================================================================
