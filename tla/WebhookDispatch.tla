-------------------------- MODULE WebhookDispatch --------------------------
(***************************************************************************)
(* meta.webhook.dispatch: one (item, consumer) pair of a delivery.  The    *)
(* fan-out created the row and its first job in one transaction; the job   *)
(* checks the routing policy, calls the consumer and settles the row in    *)
(* the transaction that makes the consumer's artifact durable.             *)
(*                                                                         *)
(* allowed stands for the routing policy of the pair: endpoint, App, page  *)
(* and asset active and the consumer subscribed.  Every writer of one of   *)
(* them changes a row the policy check locks (a subscription through its   *)
(* endpoint's revision), so a change spoils the open worker transactions;  *)
(* seen is the policy in a worker's snapshot.                              *)
(*                                                                         *)
(* Two history variables: effects counts committed consumer effects, and   *)
(* failures the consumer calls of a job's current budget that ended in a   *)
(* retryable or an unexpected error.                                       *)
(***************************************************************************)
EXTENDS FencedRow

DispatchStates ==
  Outcomes = {"done", "stale", "unrouted"} /\ Final = {"done"}

VARIABLES allowed, seen, effects, failures

dispatchVars == <<row, jobs, txn, disturbances, allowed, seen, effects, failures>>

DispatchInit ==
  /\ \E j \in Jobs :
       /\ row = [state |-> "pending", attempts |-> 0, job |-> j]
       /\ jobs = [i \in Jobs |-> IF i = j THEN Fresh ELSE Unborn]
  /\ txn = [t \in Workers \cup Clients |-> Idle]
  /\ disturbances = 0 /\ effects = 0
  /\ allowed = TRUE /\ seen = [w \in Workers |-> TRUE]
  /\ failures = [j \in Jobs |-> 0]

DispatchTypeOK ==
  /\ TypeOK
  /\ allowed \in BOOLEAN /\ seen \in [Workers -> BOOLEAN]
  /\ effects \in Nat /\ failures \in [Jobs -> Nat]

\* A job that is created or explicitly retried starts a budget of its own.
History ==
  /\ UNCHANGED <<allowed, effects>>
  /\ failures' = [j \in Jobs |-> IF jobs'[j] = Fresh THEN 0 ELSE failures[j]]

-----------------------------------------------------------------------------
Process(w, j) ==
  /\ Start(w, j)
  /\ seen' = [seen EXCEPT ![w] = allowed]
  /\ History

\* Mutated form: the policy is not checked again under its locks.
HandledUnchecked(w) ==
  /\ Settle(w, "done")
  /\ effects' = effects + 1
  /\ UNCHANGED <<allowed, seen, failures>>

\* The consumer handled the item: its artifact and "done" commit together.
Handled(w) ==
  /\ seen[w] /\ Settle(w, "done")
  /\ effects' = effects + 1
  /\ UNCHANGED <<allowed, seen, failures>>

\* The routing policy was withdrawn.
Withdrawn(w) ==
  /\ ~seen[w] /\ Settle(w, "stale")
  /\ UNCHANGED <<allowed, seen, effects, failures>>

\* No installed consumer claims the item.
Unclaimed(w) ==
  /\ seen[w] /\ Settle(w, "unrouted")
  /\ UNCHANGED <<allowed, seen, effects, failures>>

\* RetryableJobError, or an exception the queue isolation boundary catches.
ConsumerFails(w) ==
  /\ seen[w] /\ (Defer(w) \/ Exhaust(w))
  /\ failures' = [failures EXCEPT ![txn[w].job] = @ + 1]
  /\ UNCHANGED <<allowed, seen, effects>>

JobProcess(w) ==
  \/ \E j \in Jobs : Process(w, j)
  \/ Handled(w) \/ Withdrawn(w) \/ Unclaimed(w) \/ ConsumerFails(w)
  \/ /\ Superseded(w) \/ TransientFailure(w) \/ PermanentFailure(w) \/ Crash(w)
     /\ History /\ UNCHANGED seen

DispatchClient(c) == ClientSteps(c) /\ History /\ UNCHANGED seen

DispatchQueue(j) == QueueSteps(j) /\ History /\ UNCHANGED seen

\* An administrator pauses, archives, unsubscribes, or undoes it.
ChangePolicy ==
  /\ allowed' = ~allowed
  /\ SpoilWorkers /\ Disturb
  /\ UNCHANGED <<row, jobs, seen, effects, failures>>

DispatchNext ==
  \/ \E w \in Workers : JobProcess(w)
  \/ \E c \in Clients : DispatchClient(c)
  \/ \E j \in Jobs : DispatchQueue(j)
  \/ ChangePolicy

DispatchSpec == DispatchInit /\ [][DispatchNext]_dispatchVars

-----------------------------------------------------------------------------
(* Fairness: the runner hands out pending jobs and finds jobs whose worker *)
(* is gone, a worker ends what it started, and the recovery cron runs.     *)

DispatchProgress(w) ==
  \/ Handled(w) \/ Withdrawn(w) \/ Unclaimed(w) \/ ConsumerFails(w)
  \/ /\ Superseded(w) \/ TransientFailure(w) \/ PermanentFailure(w)
     /\ History /\ UNCHANGED seen

DispatchRecovery(c) == RecoverOrphan(c) /\ History /\ UNCHANGED seen
DispatchCronStarts(c) == BeginClient(c, "recover") /\ History /\ UNCHANGED seen
DispatchClientEnds(c) == (RecoverOrphan(c) \/ Rollback(c)) /\ History /\ UNCHANGED seen

DispatchFairness ==
  /\ \A w \in Workers : WF_dispatchVars(DispatchProgress(w))
  /\ \A j \in Jobs : SF_dispatchVars(\E w \in Workers : Process(w, j))
  /\ \A j \in Jobs : WF_dispatchVars(RunnerReset(j) /\ History /\ UNCHANGED seen)
  /\ \A c \in Clients : /\ WF_dispatchVars(DispatchClientEnds(c))
                        /\ SF_dispatchVars(DispatchRecovery(c))
                        /\ SF_dispatchVars(DispatchCronStarts(c))

DispatchFairSpec == DispatchSpec /\ DispatchFairness

-----------------------------------------------------------------------------
(* Properties.                                                             *)

\* _lock_for_processing: "serialize a consumer effect".  Whatever duplicate
\* workers, crashes, lost jobs, requeues and late recoveries do, the consumer's
\* effect is committed at most once, and exactly when the row says so.
EffectOnce ==
  /\ effects \in {0, 1}
  /\ effects = 1 <=> row.state = "done"

\* _current_policy_allows_dispatch: the policy checked under its locks still
\* holds when the consumer's effect commits, and a dispatch goes stale only
\* while it does not.
PolicyHoldsAtCommit ==
  [][ /\ effects' # effects => allowed
      /\ row'.state = "stale" /\ row.state # "stale" => ~allowed ]_dispatchVars

\* What it rests on: a worker that can still commit has seen the policy as it is.
PolicyCurrent == \A w \in Workers : Locked(w) => seen[w] = allowed

\* Every dispatch is settled in the end or left with a visibly failed job.
EventuallySettled ==
  []<>(row.state # "pending" \/ jobs[row.job].state = "failed")

\* tests/test_models.py: "A rolled-back DB transaction does not consume
\* application delivery attempts or falsely classify the consumer as dead":
\* a row is dead only after a whole budget of consumer failures.
DeadOnlyAfterConsumerFailures ==
  row.state = "dead" => failures[row.job] >= AttemptCeiling

\* The protocol implements the once-only effect.
Promise == INSTANCE OnceOnlyEffect
  WITH status <- IF row.state = "pending" THEN "open" ELSE row.state,
       effects <- effects
ImplementsPromise == Promise!Spec
=============================================================================
