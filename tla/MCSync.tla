------------------------------- MODULE MCSync -------------------------------
(* One provider or the other syncs the scope, which is chosen at the start. *)
(* Workers, planners, jobs and runs are interchangeable.                    *)
EXTENDS GoogleSync, TLC

CONSTANT KeepsPartial

VARIABLE provider

Meta == INSTANCE MetaSync WITH Batch <- 1

mcVars == <<syncVars, provider>>

MCInit == Init /\ provider \in {"google", "meta"}

MCNext ==
  /\ UNCHANGED provider
  /\ \/ provider = "google" /\ GoogleNext
     \/ provider = "meta" /\ Meta!MetaNext

MCSpec == MCInit /\ [][MCNext]_mcVars

Finishes(w) ==
  /\ UNCHANGED provider
  /\ \/ provider = "google" /\ GoogleFinish(w)
     \/ provider = "meta" /\ Meta!MetaFinish(w)

\* Fairness of either provider, for the one that was chosen; the actions of
\* SyncRun are the same in both.
MCFairness ==
  /\ \A w \in Workers :
       /\ WF_mcVars(\E j \in Jobs : StartPage(w, j) /\ UNCHANGED provider)
       /\ WF_mcVars(Finishes(w))
  /\ \A j \in Jobs : WF_mcVars(RunnerReset(j) /\ UNCHANGED provider)
  /\ \A r \in Runs : WF_mcVars(Abandoned(r) /\ Watchdog(r) /\ UNCHANGED provider)

MCFairSpec == MCSpec /\ MCFairness

Symmetric ==
  Permutations(Workers) \cup Permutations(Jobs) \cup Permutations(Runs)
  \cup Permutations(Planners)
=============================================================================
