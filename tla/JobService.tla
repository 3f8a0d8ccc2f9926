------------------------------ MODULE JobService ------------------------------
(***************************************************************************)
(* The rows of the jobs table and the writes of services/job_service.py.   *)
(*                                                                         *)
(* Every mark_* function sets attributes of a Job object that was loaded   *)
(* earlier and commits the session.  The session is created with           *)
(* expire_on_commit=False, so the object keeps the values it was loaded    *)
(* with, and SQLAlchemy puts into the UPDATE only the attributes whose     *)
(* value differs from the loaded one.  Flush is that rule: a process that  *)
(* saw a column as seen and assigns it new changes the stored value only   *)
(* when new differs from what it saw.                                      *)
(***************************************************************************)

\* "none" stands for a job id that has no row yet
JobStatus == {"pending", "running", "waiting_confirmation",
              "succeeded", "failed", "canceled"}
NoRow == "none"

\* _mark_job_failed leaves these alone; nothing leaves them in the documents
Finished == {"succeeded", "failed"}
Live == {"pending", "running"}

Flush(seen, new, stored) == IF new = seen THEN stored ELSE new

(***************************************************************************)
(* The mark_* functions by a session that saw the status as seen;          *)
(* save_result replaces the whole result, and with it the previous_status  *)
(* that a redeployment keeps there.                                        *)
(***************************************************************************)
MarkRunning(row, seen)   == [row EXCEPT !.status = Flush(seen, "running", @)]
MarkSucceeded(row, seen) == [row EXCEPT !.status = Flush(seen, "succeeded", @)]
MarkFailed(row, seen)    == [row EXCEPT !.status = Flush(seen, "failed", @)]
MarkWaiting(row, seen)   == [row EXCEPT !.status = Flush(seen, "waiting_confirmation", @)]
ResetForRetry(row, seen) == [row EXCEPT !.status = Flush(seen, "pending", @)]
SaveResult(row)          == [row EXCEPT !.previous = "none"]
===============================================================================
