----------------------------- MODULE GoogleSync -----------------------------
(***************************************************************************)
(* marketing_center_google: the catalog, performance and observability     *)
(* pages of one Google Ads scope.  A provider call returns up to Batch     *)
(* pages; a quota or a cooldown commits a successor with a delay and       *)
(* counts it, every other transient error rolls back and counts attempts.  *)
(***************************************************************************)
EXTENDS SyncRun

CONSTANT DeferralCeiling  \* _QUOTA_RESCHEDULE_CEILING

ASSUME DeferralBound == DeferralCeiling \in Nat

Deferrals(w) == jobs[txn[w].job].deferrals

\* Every page writes the connection's health.
GoogleApply(w) == ApplyPages(w, TRUE)

DelayAgain(w) ==
  /\ Delay(Target(w), Expected(w), Deferrals(w) + 1, run[Target(w)], txn[w].job)
  /\ UNCHANGED <<cursor, conf, disturbances, applied>>
  /\ Close(w, TRUE)

\* _persist_quota_retry: the cooldown and the delayed successor are committed.
Defer(w) == Prepared(w) /\ Deferrals(w) < DeferralCeiling /\ DelayAgain(w)

DeferralsExhausted(w) ==
  Prepared(w) /\ Deferrals(w) >= DeferralCeiling /\ Fail(w, TRUE, TRUE)

\* _retry_or_finish and _unexpected_failure at the ceiling, and the errors that
\* are never retried.
GoogleFails(w) == Prepared(w) /\ Fail(w, TRUE, FALSE)

GoogleLimitExceeded(w) == Exceeds(w) /\ Fail(w, TRUE, FALSE)

\* _finish_paused: the run is stale and the connection may not be read.
GooglePaused(w) ==
  /\ Prepared(w)
  /\ EndTarget(w, "stale")
  /\ conf' = [rev |-> conf.rev + 1, ready |-> FALSE]
  /\ Close(w, FALSE)

GoogleFinish(w) ==
  \/ Obsolete(w) \/ MarkStale(w) \/ Conflict(w)
  \/ GoogleApply(w) \/ Defer(w) \/ DeferralsExhausted(w) \/ Backoff(w)
  \/ GoogleFails(w) \/ GoogleLimitExceeded(w) \/ GooglePaused(w)

GoogleNext ==
  \/ \E p \in Planners : Planning(p)
  \/ \E w \in Workers : GoogleFinish(w) \/ \E j \in Jobs : StartPage(w, j)
  \/ Others

GoogleSpec == Init /\ [][GoogleNext]_syncVars

\* Workers take jobs and end them, the queue's runner restarts what nobody
\* runs, and the watchdog cron finds what nobody carries.
GoogleFairness ==
  /\ \A w \in Workers : /\ WF_syncVars(\E j \in Jobs : StartPage(w, j))
                         /\ WF_syncVars(GoogleFinish(w))
  /\ \A j \in Jobs : WF_syncVars(RunnerReset(j))
  /\ \A r \in Runs : WF_syncVars(Abandoned(r) /\ Watchdog(r))

GoogleFairSpec == GoogleSpec /\ GoogleFairness
=============================================================================
