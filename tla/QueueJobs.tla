----------------------------- MODULE QueueJobs -----------------------------
(***************************************************************************)
(* The OCA queue_job addon, as far as the Marketing Center relies on it.   *)
(* The addon itself is not part of the repository: what is modelled is     *)
(* what its callers assume (identity_key, max_retries, RetryableJobError,  *)
(* FailedJobError, the "failed" state an administrator can retry).         *)
(*                                                                         *)
(* "pending" stands for pending, enqueued and wait_dependencies, which no  *)
(* caller tells apart; "gone" for a row that was cancelled or deleted.     *)
(***************************************************************************)
EXTENDS Naturals

CONSTANTS Jobs,          \* uuids a run may use; a bound on jobs ever created
          NoJob,         \* queue_job_uuid = False
          QueueRetries   \* max_retries given to with_delay

ASSUME NoJobAssumption == NoJob \notin Jobs
ASSUME QueueRetriesAssumption == QueueRetries \in Nat \ {0}

ActiveJobStates == {"pending", "started"}
JobStates == ActiveJobStates \cup {"unborn", "done", "failed", "gone"}
JobRecord == [state : JobStates, retry : 0..QueueRetries]

Unborn == [state |-> "unborn", retry |-> 0]
Fresh == [state |-> "pending", retry |-> 0]

InState(jobs, states) == {j \in Jobs : jobs[j].state \in states}

\* perform() adds one to retry before calling the method; a retryable error
\* at the ceiling is turned into FailedJobError.
Postponed(retry) ==
  [state |-> IF retry + 1 >= QueueRetries THEN "failed" ELSE "pending",
   retry |-> IF retry + 1 >= QueueRetries THEN QueueRetries ELSE retry + 1]

\* The same error raised when the outcome is stored, outside perform(): the
\* job is postponed whatever its counter says (capped here at the ceiling).
PostponedOutside(retry) == [Postponed(retry) EXCEPT !.state = "pending"]
=============================================================================
