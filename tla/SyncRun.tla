------------------------------ MODULE SyncRun ------------------------------
(***************************************************************************)
(* marketing.center.sync.service: the runs that read one scope of one      *)
(* source page by page, the cursor they share and the jobs that carry a    *)
(* run from page to page.                                                  *)
(*                                                                         *)
(* A page job calls the provider inside its transaction: what it checked   *)
(* before the call (run, cursor, source and connection) is a snapshot, and *)
(* every row it locks afterwards fails with a serialization error if it    *)
(* changed in between (REPEATABLE READ).  A page is therefore two steps:   *)
(* StartPage takes the snapshot, a closing action of the provider's module *)
(* commits if nothing it locks was changed ("conflict").                   *)
(*                                                                         *)
(* conf stands for the source, its connection and the reader profile: one  *)
(* revision for all of theirs, and whether they may be read.  A profile    *)
(* that changes pauses its connections, and every such write raises the    *)
(* binding revision, so one number tells every change.                     *)
(***************************************************************************)
EXTENDS Naturals, FiniteSets

CONSTANTS Runs,            \* occurrences (run_key) a scheduler may plan
          Workers,         \* queue workers
          Planners,        \* schedulers and manual requests
          Jobs, NoJob,     \* job uuids in use at the same time
          LastPage,        \* pages the provider has
          PageLimit,       \* _MAX_..._PAGES
          Batch,           \* pages one provider call may return
          AttemptCeiling,  \* _..._ATTEMPT_CEILING
          MaxDisturbances, \* bound on crashes, lost jobs, writes of others
          MayDuplicate,    \* whether a running job may be started again
          Idle             \* no open transaction

ASSUME SyncBounds ==
  /\ LastPage \in Nat \ {0} /\ PageLimit \in Nat \ {0} /\ Batch \in Nat \ {0}
  /\ AttemptCeiling \in Nat \ {0} /\ MaxDisturbances \in Nat
  /\ MayDuplicate \in BOOLEAN
ASSUME SyncActors == Workers \cap Planners = {} /\ NoJob \notin Jobs

VARIABLES run, cursor, conf, jobs, txn, disturbances,
          applied   \* history: the pages each run has applied

syncVars == <<run, cursor, conf, jobs, txn, disturbances, applied>>

ActiveStates == {"queued", "running"}
TerminalStates == {"succeeded", "partial", "failed", "cancelled", "stale"}
RunRecord == [state : {"unborn"} \cup ActiveStates \cup TerminalStates,
              job : Jobs \cup {NoJob}, rev : Nat, pages : Nat, errors : BOOLEAN]
JobRecord == [state : {"pending", "started", "done", "gone"},
              retry : 0..AttemptCeiling, run : Runs, seq : Nat, deferrals : Nat]

Active(runs) == {r \in Runs : runs[r].state \in ActiveStates}

\* No run is planned; every job slot is free.
Init ==
  /\ run = [r \in Runs |-> [state |-> "unborn", job |-> NoJob, rev |-> 0,
                            pages |-> 0, errors |-> FALSE]]
  /\ cursor = [seq |-> 0, pos |-> 0]
  /\ conf = [rev |-> 1, ready |-> TRUE]
  /\ \E r \in Runs : jobs = [j \in Jobs |-> [state |-> "done", retry |-> 0,
                                             run |-> r, seq |-> 0, deferrals |-> 0]]
  /\ txn = [t \in Workers \cup Planners |-> Idle]
  /\ disturbances = 0
  /\ applied = [r \in Runs |-> 0]

-----------------------------------------------------------------------------
(* Transactions.                                                           *)

Snapshot(j, js) ==
  [job |-> j, retry |-> js[j].retry, run |-> run[js[j].run],
   cursor |-> cursor, conf |-> conf, conflict |-> FALSE]

Target(w) == jobs[txn[w].job].run
Expected(w) == jobs[txn[w].job].seq
Current(w) == txn[w].run

Holds(t) == txn[t] # Idle /\ ~txn[t].conflict

\* _current_job_uuid and _lock_current_job.
Owns(w) == Holds(w) /\ Current(w).job = txn[w].job /\ Current(w).state \in ActiveStates

FencesMoved(touched) == touched \/ conf' # conf \/ cursor' # cursor
RunMoved(w) == run'[Target(w)] # run[Target(w)]

\* Mutated forms: a page locks its run and not the fences, or the reverse.
LocksRun(w, touched) == RunMoved(w)
LocksFences(w, touched) == FencesMoved(touched)
\* Run, source, connection, profile and cursor: everything a page locks.
LocksMoved(w, touched) == RunMoved(w) \/ FencesMoved(touched)

\* What t is going to lock has changed.  A page job whose run is over or
\* carried on by another locks nothing but its own queue row.  touched: a
\* write to the connection that leaves its revision alone.
Overtaken(t, touched) ==
  IF txn[t].job = NoJob THEN FencesMoved(touched)
  ELSE \/ jobs'[txn[t].job] # jobs[txn[t].job]
       \/ Owns(t) /\ LocksMoved(t, touched)

Spoiled(t, touched) ==
  IF Holds(t) /\ Overtaken(t, touched)
    THEN [job |-> txn[t].job, conflict |-> TRUE] ELSE txn[t]

Close(t, touched) ==
  txn' = [u \in Workers \cup Planners |-> IF u = t THEN Idle ELSE Spoiled(u, touched)]
KeepOpen(touched) == txn' = [u \in Workers \cup Planners |-> Spoiled(u, touched)]

Disturb == disturbances < MaxDisturbances /\ disturbances' = disturbances + 1

-----------------------------------------------------------------------------
(* Planning.                                                               *)

\* The readiness checks and lookups of _plan_run, on a snapshot: one that fails
\* is a ValidationError and changes nothing.
BeginPlan(p, r) ==
  /\ txn[p] = Idle
  /\ conf.ready /\ run[r].state = "unborn" /\ Active(run) = {}
  /\ txn' = [txn EXCEPT ![p] = [job |-> NoJob, run |-> r, conflict |-> FALSE]]
  /\ UNCHANGED <<run, cursor, conf, jobs, disturbances, applied>>

\* Job slots nobody can still refer to; a bound on jobs alive at a time.
FreeJobs ==
  {j \in Jobs : /\ jobs[j].state \in {"done", "gone"}
                /\ \A r \in Active(run) : run[r].job # j
                /\ \A w \in Workers : txn[w] # Idle => txn[w].job # j}

\* What a finished job still carries is never read: the model forgets it.
Done(job) == [job EXCEPT !.state = "done", !.retry = 0, !.seq = 0, !.deferrals = 0]

\* r's registered job becomes a new job for the page at seq.
Delay(r, seq, deferrals, record, own) ==
  \E j \in FreeJobs :
    /\ jobs' = [i \in Jobs |->
                  IF i = j THEN [state |-> "pending", retry |-> 0, run |-> r,
                                 seq |-> seq, deferrals |-> deferrals]
                  ELSE IF i = own THEN Done(jobs[i])
                  ELSE jobs[i]]
    /\ run' = [run EXCEPT ![r] = [record EXCEPT !.job = j]]

\* A cursor some earlier run left behind starts at the first page again.
Restarted == IF cursor.pos = 0 THEN cursor ELSE [seq |-> cursor.seq + 1, pos |-> 0]

\* Mutated form: mc_sync_run_active_uq is missing.
UnclaimedUnindexed(r) == run[r].state = "unborn"
\* The unique indexes see the runs as they are.
Unclaimed(r) == run[r].state = "unborn" /\ Active(run) = {}

Begin(p, r, seq) ==
  /\ Delay(r, seq, 0, [run[r] EXCEPT !.state = "queued", !.rev = conf.rev], NoJob)
  /\ UNCHANGED <<conf, disturbances, applied>>
  /\ Close(p, FALSE)

\* Mutated form: the cursor is taken over from the run before.
PlanResumed(p) ==
  LET r == txn[p].run IN
  /\ Holds(p) /\ Unclaimed(r)
  /\ UNCHANGED cursor
  /\ Begin(p, r, cursor.seq)

\* _plan_run, the cursor's restart and the first job in one transaction.
Plan(p) ==
  LET r == txn[p].run IN
  /\ Holds(p) /\ Unclaimed(r)
  /\ cursor' = Restarted
  /\ Begin(p, r, Restarted.seq)

\* The occurrence exists, the scope is taken, or a lock is lost.
RejectPlan(p) ==
  /\ txn[p] # Idle
  /\ txn' = [txn EXCEPT ![p] = Idle]
  /\ UNCHANGED <<run, cursor, conf, jobs, disturbances, applied>>

-----------------------------------------------------------------------------
(* The page job: what every provider's job is built from.                  *)

StartPage(w, j) ==
  /\ txn[w] = Idle /\ jobs[j].state = "pending"
  /\ jobs' = [jobs EXCEPT ![j].state = "started"]
  /\ UNCHANGED <<run, cursor, conf, disturbances, applied>>
  /\ txn' = [u \in Workers \cup Planners |->
               IF u = w THEN Snapshot(j, jobs') ELSE Spoiled(u, FALSE)]

\* Mutated form: the revisions are not compared.
ReadyOnly(w) == txn[w].conf.ready
\* _preflight_current, and _validate_fencing under its locks.
Fenced(w) == txn[w].conf.ready /\ txn[w].conf.rev = Current(w).rev

\* The job's argument is no longer the cursor's sequence: the one condition of
\* _reschedule_current_cursor.  No action takes it, see NeverOutdated.
Outdated(w) == Owns(w) /\ Fenced(w) /\ txn[w].cursor.seq # Expected(w)

\* The checks before the provider is called.
Prepared(w) ==
  /\ Owns(w) /\ Fenced(w)
  /\ Current(w).pages < PageLimit
  /\ txn[w].cursor.seq = Expected(w)

JobDone(w) == jobs' = [jobs EXCEPT ![txn[w].job] = Done(@)]

\* The run is terminal, or another job carries it on.
Obsolete(w) ==
  /\ Holds(w) /\ ~Owns(w)
  /\ JobDone(w)
  /\ UNCHANGED <<run, cursor, conf, disturbances, applied>>
  /\ Close(w, FALSE)

EndTarget(w, state) ==
  /\ run' = [run EXCEPT ![Target(w)].state = state]
  /\ JobDone(w)
  /\ UNCHANGED <<cursor, disturbances, applied>>

MarkStale(w) ==
  /\ Owns(w) /\ ~Fenced(w)
  /\ EndTarget(w, "stale")
  /\ UNCHANGED conf
  /\ Close(w, FALSE)

\* _finish_failure; keep: whether pages already applied make it partial.
Fail(w, keep, touched) ==
  /\ EndTarget(w, IF keep /\ Current(w).pages > 0 THEN "partial" ELSE "failed")
  /\ UNCHANGED conf
  /\ Close(w, touched)

\* _update_run_page: pages of the run and the state they leave it in.
Updated(record, n, errors, more) ==
  [record EXCEPT !.pages = @ + n, !.errors = @ \/ errors,
                 !.state = IF more THEN "running"
                           ELSE IF record.errors \/ errors THEN "partial"
                           ELSE "succeeded"]

More(n) == cursor.pos + n < LastPage

\* Mutated form: the last page leaves its position behind.
MovedPastEnd(n) == [seq |-> cursor.seq + n, pos |-> cursor.pos + n]
\* The cursor's row after n pages.
Moved(n) == [seq |-> cursor.seq + n, pos |-> IF More(n) THEN cursor.pos + n ELSE 0]

Alone(w, record) == run' = [run EXCEPT ![Target(w)] = record] /\ JobDone(w)

\* Mutated forms: no successor; a successor for the page after the first.
NextJobForgotten(w, n, record) == Alone(w, record)
NextJobByOne(w, n, record) ==
  \/ More(n) /\ Delay(Target(w), cursor.seq + 1, 0, record, txn[w].job)
  \/ ~More(n) /\ Alone(w, record)
NextJob(w, n, record) ==
  \/ More(n) /\ Delay(Target(w), cursor.seq + n, 0, record, txn[w].job)
  \/ ~More(n) /\ Alone(w, record)

\* n pages and the job for the next one, in one savepoint.
Advance(w, n, errors, touched) ==
  LET r == Target(w) IN
  /\ Prepared(w)
  /\ Current(w).pages + n <= PageLimit
  /\ cursor' = Moved(n)
  /\ applied' = [applied EXCEPT ![r] = IF @ = cursor.pos THEN @ + n ELSE LastPage + 1]
  /\ UNCHANGED <<conf, disturbances>>
  /\ NextJob(w, n, Updated(run[r], n, errors, More(n)))
  /\ Close(w, touched)

ApplyPages(w, touched) ==
  \E n \in 1..Batch, errors \in BOOLEAN :
    /\ cursor.pos + n <= LastPage
    /\ Advance(w, n, errors, touched)

\* The page limit, found before the provider is called or after it.
Exceeds(w) ==
  /\ Owns(w) /\ Fenced(w)
  /\ \/ Current(w).pages >= PageLimit
     \/ /\ txn[w].cursor.seq = Expected(w)
        /\ \E n \in 1..Batch : /\ txn[w].cursor.pos + n <= LastPage
                               /\ Current(w).pages + n > PageLimit

Attempt(w) == txn[w].retry + 1
AttemptsLeft(w) == Attempt(w) < AttemptCeiling

\* RetryableJobError, or a serialization failure: everything is rolled back
\* and the job runs again; max_retries = 0 never fails it.
Postpone(w) ==
  /\ jobs' = [jobs EXCEPT ![txn[w].job].state = "pending",
                          ![txn[w].job].retry = IF @ < AttemptCeiling THEN @ + 1 ELSE @]
  /\ UNCHANGED <<run, cursor, conf, disturbances, applied>>
  /\ Close(w, FALSE)

Conflict(w) == txn[w] # Idle /\ txn[w].conflict /\ Postpone(w)

\* Mutated form: the ceiling is not consulted.
BackoffForever(w) == Prepared(w) /\ Postpone(w)
Backoff(w) == Prepared(w) /\ AttemptsLeft(w) /\ Postpone(w)

-----------------------------------------------------------------------------
(* Others.                                                                 *)

EndRun(r, state) ==
  /\ run' = [run EXCEPT ![r].state = state]
  /\ UNCHANGED <<cursor, conf, jobs, applied>>
  /\ KeepOpen(FALSE)

CancelRun(r) == run[r].state \in ActiveStates /\ EndRun(r, "cancelled") /\ Disturb

\* Mutated form: only runs that were never queued.
NeverQueued(r) == run[r].job = NoJob
Abandoned(r) ==
  \A j \in Jobs : run[r].job = j => jobs[j].state \notin {"pending", "started"}

\* _recover_stuck_runs: nothing was written for six hours.  That an abandoned
\* run is found in the end is certain, that a live one is found is not.
Watchdog(r) ==
  /\ run[r].state \in ActiveStates
  /\ EndRun(r, "failed")
  /\ IF Abandoned(r) THEN UNCHANGED disturbances ELSE Disturb

\* An administrator or a discovery changes source, connection or profile.
Reconfigure ==
  /\ conf' \in [rev : {conf.rev + 1}, ready : BOOLEAN]
  /\ Disturb
  /\ UNCHANGED <<run, cursor, jobs, applied>>
  /\ KeepOpen(FALSE)

\* Another run of the connection writes its health or cooldown.
TouchConnection ==
  /\ Disturb
  /\ UNCHANGED <<run, cursor, conf, jobs, applied>>
  /\ KeepOpen(TRUE)

Running(j) == \E w \in Workers : txn[w] # Idle /\ txn[w].job = j

Crash(w) ==
  /\ txn[w] # Idle
  /\ txn' = [txn EXCEPT ![w] = Idle]
  /\ Disturb
  /\ UNCHANGED <<run, cursor, conf, jobs, applied>>

ChangeJob(j, state) ==
  /\ jobs' = [jobs EXCEPT ![j].state = state]
  /\ UNCHANGED <<run, cursor, conf, applied>>
  /\ KeepOpen(FALSE)

RunnerReset(j) ==
  /\ jobs[j].state = "started" /\ ~Running(j)
  /\ ChangeJob(j, "pending") /\ UNCHANGED disturbances

\* A runner that restarts while the worker still runs: a duplicate worker.
Duplicate(j) ==
  /\ MayDuplicate /\ jobs[j].state = "started" /\ Running(j)
  /\ ChangeJob(j, "pending") /\ Disturb

\* Cancelled, failed for good, or deleted; nothing in the service asks which.
LoseJob(j) ==
  /\ jobs[j].state = "pending" /\ ~Running(j)
  /\ ChangeJob(j, "gone") /\ Disturb

Planning(p) == (\E r \in Runs : BeginPlan(p, r)) \/ Plan(p) \/ RejectPlan(p)

Others ==
  \/ \E r \in Runs : CancelRun(r) \/ Watchdog(r)
  \/ Reconfigure
  \/ TouchConnection
  \/ \E w \in Workers : Crash(w)
  \/ \E j \in Jobs : RunnerReset(j) \/ Duplicate(j) \/ LoseJob(j)

-----------------------------------------------------------------------------
(* Correctness.                                                            *)

\* The variables hold what the tables can hold.
SyncTypeOK ==
  /\ run \in [Runs -> RunRecord] /\ jobs \in [Jobs -> JobRecord]
  /\ cursor \in [seq : Nat, pos : 0..(LastPage - 1)]
  /\ conf \in [rev : Nat, ready : BOOLEAN]
  /\ applied \in [Runs -> 0..(LastPage + 1)]
  /\ disturbances \in 0..MaxDisturbances

\* A run that succeeded has applied every page of the provider, in order and
\* once: no crash, retry, duplicate worker or successor run makes it skip or
\* repeat one, and its page count says so.
CompleteSweep ==
  \A r \in Runs :
    /\ applied[r] <= LastPage /\ run[r].pages = applied[r]
    /\ run[r].state = "succeeded" => applied[r] = LastPage

\* An active run is carried by a job that is still to run, unless somebody
\* removed that job: no step of the service itself ends the chain of jobs.
ChainUnbroken ==
  \A r \in Active(run) :
    /\ run[r].job # NoJob
    /\ jobs[run[r].job].run = r /\ jobs[run[r].job].state # "done"

\* A registered job always carries the sequence of the cursor, whatever runs
\* of the scope were cancelled or recovered before: the unique index on active
\* runs is what makes rescheduling a mere safety net.
NeverOutdated ==
  /\ \A r \in Active(run) : jobs[run[r].job].seq = cursor.seq
  /\ \A w \in Workers : txn[w] # Idle => ~Outdated(w)

\* The run, its job and the workers agree on the page that comes next.
ChainHolds == ChainUnbroken /\ NeverOutdated

\* A page is applied only under the revisions the run was planned with, while
\* source and connection may be read, although the provider was called without
\* a lock.
AppliedUnderPlan ==
  [][\A r \in Runs : applied'[r] # applied[r] =>
        conf.ready /\ conf.rev = run[r].rev]_syncVars

\* What one scope promises to those who read its results.
Promise == INSTANCE SweepPromise WITH
  phase <- [r \in Runs |-> CASE run[r].state = "unborn" -> "unborn"
                            [] run[r].state \in ActiveStates -> "active"
                            [] OTHER -> "over"],
  progress <- applied

\* The protocol implements the promise: one run at a time, pages forward only,
\* nothing after the end.
ImplementsSweep == Promise!Spec

\* A run that was planned ends.
RunsEnd ==
  \A r \in Runs : run[r].state \in ActiveStates ~> run[r].state \in TerminalStates
=============================================================================
