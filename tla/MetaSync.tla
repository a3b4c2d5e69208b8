------------------------------ MODULE MetaSync ------------------------------
(***************************************************************************)
(* marketing_center_meta: the catalog and Insights pages of one Meta Ads   *)
(* scope.  One page per provider call; a rate limit is a transient error   *)
(* like any other and rolls the page back.                                 *)
(***************************************************************************)
EXTENDS SyncRun

CONSTANT KeepsPartial  \* Insights keep a partial result, the catalog does not

\* _apply_provider_page, _apply_insights_provider_page.
MetaApply(w) == ApplyPages(w, FALSE)

MetaFails(w) == Prepared(w) /\ Fail(w, KeepsPartial, FALSE)

MetaLimitExceeded(w) == Exceeds(w) /\ Fail(w, KeepsPartial, FALSE)

\* _finish_paused, _finish_insights_paused: the profile's connections pause.
MetaPaused(w) ==
  /\ Prepared(w)
  /\ EndTarget(w, "stale")
  /\ conf' = [rev |-> conf.rev + 1, ready |-> FALSE]
  /\ Close(w, FALSE)

MetaFinish(w) ==
  \/ Obsolete(w) \/ MarkStale(w) \/ Conflict(w)
  \/ MetaApply(w) \/ Backoff(w) \/ MetaFails(w) \/ MetaLimitExceeded(w) \/ MetaPaused(w)

MetaNext ==
  \/ \E p \in Planners : Planning(p)
  \/ \E w \in Workers : MetaFinish(w) \/ \E j \in Jobs : StartPage(w, j)
  \/ Others

MetaSpec == Init /\ [][MetaNext]_syncVars

\* As for Google: workers, the queue's runner and the watchdog go on.
MetaFairness ==
  /\ \A w \in Workers : /\ WF_syncVars(\E j \in Jobs : StartPage(w, j))
                         /\ WF_syncVars(MetaFinish(w))
  /\ \A j \in Jobs : WF_syncVars(RunnerReset(j))
  /\ \A r \in Runs : WF_syncVars(Abandoned(r) /\ Watchdog(r))

MetaFairSpec == MetaSpec /\ MetaFairness
=============================================================================
