---------------------------- MODULE MCQueueWork ----------------------------
(* What queue jobs make of what came in, one of two that share nothing,    *)
(* chosen at the start: the dispatch of a webhook item, or the response    *)
(* episodes of a conversation.  Jobs of the dispatch and workers are       *)
(* interchangeable.                                                        *)
EXTENDS WebhookDispatch, TLC

CONSTANTS MaxMessages, Horizon, PageSize, MaxHistory, MaxTurns, Kinds

VARIABLES work,
          now, messages, signals, cursor, episodes, turns, pageTxn, pageJobs, lapsed, missed,
          consumed, raced

Chat == INSTANCE ResponseTimeline
  WITH Transactions <- Workers, txn <- pageTxn, jobs <- pageJobs

ASSUME TimelineBounds == Chat!TimelineConstants

MCOutcomes == {"done", "stale", "unrouted"}
MCFinal == {"done"}

ofTimeline ==
  <<now, messages, signals, cursor, episodes, turns, pageTxn, pageJobs, lapsed, missed,
    consumed, raced>>
mcVars == <<work, dispatchVars, ofTimeline>>

\* What is not chosen stays as it is.
MCInit ==
  /\ DispatchInit /\ Chat!Init
  /\ \/ work = "dispatch" /\ messages = {} /\ turns = 0
     \/ work = "timeline"

MCNext ==
  /\ UNCHANGED work
  /\ \/ work = "dispatch" /\ DispatchNext /\ UNCHANGED ofTimeline
     \/ work = "timeline" /\ Chat!Next /\ UNCHANGED dispatchVars

MCSpec == MCInit /\ [][MCNext]_mcVars

Interchangeable == Permutations(Jobs) \cup Permutations(Workers)

\* ResponseTimeline: one signal per message, and pages that add up to one pass
\* over what was consumed.
EpisodesFollowTimeline == Chat!TimelineTypeOK /\ Chat!EpisodesFollowTimeline
\* ResponseTimeline: history has its signals before any is consumed, a clamped
\* signal is left behind by an overlap only, and what is still to be read has
\* a job, but for jobs that ended unread (capture off, or failed for good).
FrontierSound ==
  Chat!SnapshotBarrier /\ Chat!LeftOnlyByRace /\ Chat!NeverStranded
=============================================================================
