----------------------------- MODULE FencedRow -----------------------------
(***************************************************************************)
(* One row of the webhook ledger and the queue jobs that may process it.   *)
(*                                                                         *)
(* meta.webhook.delivery and meta.webhook.dispatch follow one protocol: a  *)
(* row names the only job that may process it (queue_job_uuid), every      *)
(* reader takes the row FOR UPDATE, and everything a transaction writes is *)
(* committed or rolled back together.  PostgreSQL runs at REPEATABLE READ: *)
(* a transaction reads the snapshot it opened with, and locking a row that *)
(* another one has changed since fails with a serialization error.  A      *)
(* transaction is therefore two steps here: Begin takes the snapshot, the  *)
(* closing action commits it if nothing it locks has changed ("conflict"), *)
(* and what it read without a lock (queue_job) may be stale by then.       *)
(***************************************************************************)
EXTENDS QueueJobs

CONSTANTS Workers,         \* queue workers
          Clients,         \* requests, administrator actions, cron runs
          AttemptCeiling,  \* _ATTEMPT_CEILING
          MaxDisturbances, \* bound on crashes, duplicates, lost jobs, requeues
          Outcomes,        \* states a processed row may end in, besides dead
          Final,           \* the outcomes action_requeue refuses to reopen
          MayDuplicate,    \* whether a runner may restart under a live worker
          Idle             \* no open transaction

ASSUME CeilingAssumption == AttemptCeiling \in Nat \ {0}
ASSUME BoundAssumption == MaxDisturbances \in Nat /\ MayDuplicate \in BOOLEAN
ASSUME OutcomesAssumption ==
  /\ Outcomes \subseteq {"done", "dispatched", "unrouted", "stale"}
  /\ Final \subseteq Outcomes /\ "unrouted" \notin Final
ASSUME ActorsAssumption == Workers \cap Clients = {}

VARIABLES row, jobs, txn, disturbances

vars == <<row, jobs, txn, disturbances>>

Open == {"pending", "processing"}
RowStates == {"absent"} \cup Open \cup Outcomes \cup {"dead"}
Row == [state : RowStates, attempts : 0..(QueueRetries + 1),
        job : Jobs \cup {NoJob}]
Reopened == [state |-> "pending", attempts |-> 0, job |-> NoJob]

Ops == {"process", "enqueue", "requeue", "recover", "revive"}
Transaction ==
  [op : Ops, job : Jobs \cup {NoJob}, retry : 0..QueueRetries, row : Row,
   active : SUBSET Jobs, failed : SUBSET Jobs, conflict : BOOLEAN]

ASSUME IdleAssumption == Idle \notin Transaction

\* Types of the variables; an open row was never attempted, since "processing"
\* and the attempt count are only ever committed with a settled state.
TypeOK ==
  /\ row \in Row
  /\ row.state \in Open => row.state = "pending" /\ row.attempts = 0
  /\ jobs \in [Jobs -> JobRecord]
  /\ txn \in [Workers \cup Clients -> Transaction \cup {Idle}]
  /\ \A w \in Workers : txn[w] # Idle => txn[w].op = "process" /\ txn[w].job \in Jobs
  /\ \A c \in Clients : txn[c] # Idle => txn[c].op # "process" /\ txn[c].job = NoJob
  /\ disturbances \in 0..MaxDisturbances

-----------------------------------------------------------------------------
(* Transactions.                                                           *)

Max2(a, b) == IF a >= b THEN a ELSE b

Snapshot(op, j, js) ==
  [op |-> op, job |-> j, retry |-> IF j = NoJob THEN 0 ELSE js[j].retry,
   row |-> row, active |-> InState(js, ActiveJobStates),
   failed |-> InState(js, {"failed"}), conflict |-> FALSE]

\* A worker's commit also stores its own queue_job row.
Overtaken(t) ==
  \/ row' # row
  \/ txn[t].job # NoJob /\ jobs'[txn[t].job] # jobs[txn[t].job]

\* Every change of what an open transaction locks makes it conflict.
Spoiled(t) ==
  IF txn[t] # Idle /\ Overtaken(t)
    THEN [txn[t] EXCEPT !.conflict = TRUE] ELSE txn[t]

Close(t) == txn' = [u \in Workers \cup Clients |-> IF u = t THEN Idle ELSE Spoiled(u)]
KeepOpen == txn' = [u \in Workers \cup Clients |-> Spoiled(u)]

\* A row every worker locks besides its own changed.
SpoilWorkers ==
  txn' = [t \in Workers \cup Clients |->
            IF t \in Workers /\ txn[t] # Idle
              THEN [txn[t] EXCEPT !.conflict = TRUE] ELSE txn[t]]

Disturb == /\ disturbances < MaxDisturbances
           /\ disturbances' = disturbances + 1

-----------------------------------------------------------------------------
(* The worker's transaction: lock, process, store the job.                 *)

Start(w, j) ==
  /\ txn[w] = Idle
  /\ jobs[j].state = "pending"
  /\ jobs' = [jobs EXCEPT ![j].state = "started"]
  /\ UNCHANGED <<row, disturbances>>
  /\ txn' = [u \in Workers \cup Clients |->
               IF u = w THEN Snapshot("process", j, jobs') ELSE Spoiled(u)]

Attempt(t) == Max2(txn[t].row.attempts + 1, txn[t].retry + 1)

Locked(w) == txn[w] # Idle /\ ~txn[w].conflict

\* Mutated forms: without the uuid fence, and without FOR UPDATE.
ClaimedUnfenced(w) == Locked(w) /\ txn[w].row.state \in Open
ClaimedUnlocked(w) ==
  txn[w] # Idle /\ txn[w].row.job = txn[w].job /\ txn[w].row.state \in Open

Claimed(w) ==
  /\ Locked(w)
  /\ txn[w].row.job = txn[w].job
  /\ txn[w].row.state \in Open

JobEnds(w, j, record) ==
  /\ jobs' = [jobs EXCEPT ![j] = record]
  /\ Close(w)
  /\ UNCHANGED disturbances

Completed(j) == [jobs[j] EXCEPT !.state = "done"]

\* The job is not the one the row names, or the row is already settled.
Superseded(w) ==
  /\ Locked(w) /\ ~Claimed(w)
  /\ UNCHANGED row
  /\ JobEnds(w, txn[w].job, Completed(txn[w].job))

Settle(w, outcome) ==
  /\ Claimed(w)
  /\ row' = [txn[w].row EXCEPT !.state = outcome, !.attempts = Attempt(w)]
  /\ JobEnds(w, txn[w].job, Completed(txn[w].job))

\* A retryable or unexpected error below the ceiling rolls everything back.
Defer(w) ==
  /\ Claimed(w) /\ Attempt(w) < AttemptCeiling
  /\ UNCHANGED row
  /\ JobEnds(w, txn[w].job, Postponed(txn[w].retry))

Exhaust(w) ==
  /\ Claimed(w) /\ Attempt(w) >= AttemptCeiling
  /\ Settle(w, "dead")

\* A lost lock, a serialization failure or a connection error.
TransientFailure(w) ==
  /\ txn[w] # Idle
  /\ UNCHANGED row
  /\ \/ JobEnds(w, txn[w].job, Postponed(txn[w].retry))
     \/ txn[w].conflict /\ JobEnds(w, txn[w].job, PostponedOutside(txn[w].retry))

\* An operational error that is not transient leaves perform() as it is.
PermanentFailure(w) ==
  /\ txn[w] # Idle
  /\ UNCHANGED row
  /\ JobEnds(w, txn[w].job, [state |-> "failed", retry |-> Postponed(txn[w].retry).retry])

-----------------------------------------------------------------------------
(* The other transactions on the row.                                      *)

BeginClient(c, op) ==
  /\ txn[c] = Idle
  /\ row.state # "absent"
  /\ txn' = [txn EXCEPT ![c] = Snapshot(op, NoJob, jobs)]
  /\ UNCHANGED <<row, jobs, disturbances>>

\* Mutated form: a failed job is replaced like a missing one.
EnqueueIgnoringFailure(c, r) ==
  \/ /\ \E j \in txn[c].active : row' = [r EXCEPT !.job = j]
     /\ UNCHANGED jobs
  \/ /\ txn[c].active = {}
     /\ \E j \in InState(jobs, {"unborn"}) :
          /\ jobs' = [jobs EXCEPT ![j] = Fresh]
          /\ row' = [r EXCEPT !.job = j]

\* Adopt an active job of the same identity; leave a row whose job failed;
\* otherwise delay a new job.  r is the row as this transaction wrote it.
Enqueue(c, r) ==
  \/ /\ \E j \in txn[c].active : row' = [r EXCEPT !.job = j]
     /\ UNCHANGED jobs
  \/ /\ txn[c].active = {} /\ r.job \in txn[c].failed
     /\ row' = r /\ UNCHANGED jobs
  \/ /\ txn[c].active = {} /\ r.job \notin txn[c].failed
     /\ \E j \in InState(jobs, {"unborn"}) :
          /\ jobs' = [jobs EXCEPT ![j] = Fresh]
          /\ row' = [r EXCEPT !.job = j]

EnqueueOpen(c) ==
  /\ Locked(c) /\ txn[c].op = "enqueue"
  /\ txn[c].row.state \in Open
  /\ Enqueue(c, txn[c].row)
  /\ Close(c) /\ UNCHANGED disturbances

\* Mutated forms: the spent attempts are kept; a final row is reopened.
RequeueKeepsAttempts(c) ==
  /\ Locked(c) /\ txn[c].op = "requeue"
  /\ txn[c].row.state \in RowStates \ (Final \cup {"absent"})
  /\ txn[c].active = {}
  /\ Enqueue(c, [txn[c].row EXCEPT !.state = "pending", !.job = NoJob])
  /\ Close(c) /\ Disturb
RequeueSettled(c) ==
  /\ Locked(c) /\ txn[c].op = "requeue"
  /\ txn[c].row.state # "absent" /\ txn[c].active = {}
  /\ Enqueue(c, Reopened)
  /\ Close(c) /\ Disturb

ActionRequeue(c) ==
  /\ Locked(c) /\ txn[c].op = "requeue"
  /\ txn[c].row.state \in RowStates \ (Final \cup {"absent"})
  /\ txn[c].active = {}
  /\ Enqueue(c, Reopened)
  /\ Close(c) /\ Disturb

\* Mutated form: pending rows are not looked at.
RecoverProcessingOnly(c) ==
  /\ Locked(c) /\ txn[c].op = "recover"
  /\ txn[c].row.state = "processing"
  /\ txn[c].active = {} /\ txn[c].row.job \notin txn[c].failed
  /\ Enqueue(c, [txn[c].row EXCEPT !.state = "pending", !.job = NoJob])
  /\ Close(c) /\ UNCHANGED disturbances

\* The grace period before a row counts as orphaned is left out: recovery
\* may come at any time.
RecoverOrphan(c) ==
  /\ Locked(c) /\ txn[c].op = "recover"
  /\ txn[c].row.state \in Open
  /\ txn[c].active = {} /\ txn[c].row.job \notin txn[c].failed
  /\ Enqueue(c, [txn[c].row EXCEPT !.state = "pending", !.job = NoJob])
  /\ Close(c) /\ UNCHANGED disturbances

\* Mutated form: whatever the state is.
ReviveAnything(c) ==
  /\ Locked(c) /\ txn[c].op = "revive"
  /\ txn[c].row.state # "absent"
  /\ Enqueue(c, Reopened)
  /\ Close(c) /\ Disturb

ReviveUnrouted(c) ==
  /\ Locked(c) /\ txn[c].op = "revive"
  /\ txn[c].row.state = "unrouted"
  /\ Enqueue(c, Reopened)
  /\ Close(c) /\ Disturb

\* Refused, nothing to do, or rolled back by a conflict.
Rollback(c) ==
  /\ txn[c] # Idle
  /\ txn' = [txn EXCEPT ![c] = Idle]
  /\ UNCHANGED <<row, jobs, disturbances>>

-----------------------------------------------------------------------------
(* The queue's environment.                                                *)

Running(j) == \E w \in Workers : txn[w] # Idle /\ txn[w].job = j

\* The worker process dies; PostgreSQL rolls its transaction back.
Crash(w) ==
  /\ txn[w] # Idle
  /\ txn' = [txn EXCEPT ![w] = Idle]
  /\ Disturb
  /\ UNCHANGED <<row, jobs>>

ChangeJob(j, record) ==
  /\ jobs' = [jobs EXCEPT ![j] = record]
  /\ UNCHANGED row
  /\ KeepOpen

RunnerReset(j) ==
  /\ jobs[j].state = "started" /\ ~Running(j)
  /\ ChangeJob(j, [jobs[j] EXCEPT !.state = "pending"])
  /\ UNCHANGED disturbances

\* A runner that restarts while the worker still runs: a duplicate worker.
Duplicate(j) ==
  /\ MayDuplicate /\ jobs[j].state = "started" /\ Running(j)
  /\ ChangeJob(j, [jobs[j] EXCEPT !.state = "pending"])
  /\ Disturb

RetryFailedJob(j) ==
  /\ jobs[j].state = "failed"
  /\ ChangeJob(j, Fresh)
  /\ Disturb

\* An administrator cancels, or the database loses, a job nobody runs.
LoseJob(j) ==
  /\ jobs[j].state = "pending" /\ ~Running(j)
  /\ ChangeJob(j, [jobs[j] EXCEPT !.state = "gone"])
  /\ Disturb

-----------------------------------------------------------------------------
(* The protocol, without the actions of a particular model.                *)

ClientSteps(c) ==
  \/ BeginClient(c, "requeue")
  \/ BeginClient(c, "recover")
  \/ BeginClient(c, "revive")
  \/ ActionRequeue(c)
  \/ RecoverOrphan(c)
  \/ ReviveUnrouted(c)
  \/ Rollback(c)

QueueSteps(j) ==
  \/ RunnerReset(j)
  \/ Duplicate(j)
  \/ RetryFailedJob(j)
  \/ LoseJob(j)

-----------------------------------------------------------------------------
(* Safety of the protocol.                                                 *)

\* A transaction without a conflict has read the row as it is now, and a
\* worker without a conflict runs a job that is still recorded as started.
SnapshotCurrent ==
  \A t \in Workers \cup Clients : Locked(t) =>
    /\ txn[t].row = row
    /\ t \in Workers => jobs[txn[t].job].state = "started"

\* A job runs in one live transaction: the others are bound to fail.
OneLiveRun ==
  \A v, w \in Workers :
    Locked(v) /\ Locked(w) /\ txn[v].job = txn[w].job => v = w

\* _lock_for_fanout and _lock_for_processing: of all workers with an open
\* transaction, duplicates included, at most one can still settle the row.
ClaimIsExclusive ==
  \A v, w \in Workers : Claimed(v) /\ Claimed(w) => v = w

\* _has_failed_job: while the job the row names is failed, no transaction
\* gives the row a new automatic budget; only an administrator's requeue
\* creates another job.
NoSilentBudget ==
  [][ (row.state = "pending" /\ row.job # NoJob /\ jobs[row.job].state = "failed")
        => \A j \in Jobs : (jobs[j].state = "unborn" /\ jobs'[j].state # "unborn")
             => \E c \in Clients : txn[c] # Idle /\ txn[c].op = "requeue" /\ txn'[c] = Idle ]_vars
=============================================================================
