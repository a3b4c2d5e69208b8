-------------------------- MODULE WebhookDelivery --------------------------
(***************************************************************************)
(* meta.webhook.delivery: admission of one signed body and its fan-out.    *)
(*                                                                         *)
(* Meta posts the body any number of times, concurrently; the endpoint and *)
(* the content hash identify it.  The first request to commit creates the  *)
(* delivery, its items and its job; the others find it and enqueue it      *)
(* again.  The job routes each item to the consumers subscribed to its     *)
(* page and creates one dispatch per (item, consumer).                     *)
(*                                                                         *)
(* config is what routing reads: whether endpoint and App are active, the  *)
(* items whose asset and page are active, the subscribed consumers.  view  *)
(* is a transaction's snapshot of it.                                      *)
(***************************************************************************)
EXTENDS FencedRow

CONSTANTS Items, Consumers

DeliveryStates ==
  Outcomes = {"dispatched", "stale", "unrouted"} /\ Final = {"dispatched"}

\* What the assumptions of FencedRow and QueueJobs say of an instance.
DeliveryConstants ==
  /\ DeliveryStates
  /\ QueueRetries \in Nat \ {0} /\ AttemptCeiling \in Nat \ {0}
  /\ MaxDisturbances \in Nat /\ Workers \cap Clients = {}
  /\ NoJob \notin Jobs /\ Idle \notin Transaction

VARIABLES config, view, dispatches, accepted

deliveryVars ==
  <<row, jobs, txn, disturbances, config, view, dispatches, accepted>>

Config == [active : BOOLEAN, routed : SUBSET Items, subs : SUBSET Consumers]

Absent == [state |-> "absent", attempts |-> 0, job |-> NoJob]

Init ==
  /\ row = Absent
  /\ jobs = [j \in Jobs |-> Unborn]
  /\ txn = [t \in Workers \cup Clients |-> Idle]
  /\ disturbances = 0
  /\ config \in [active : {TRUE}, routed : {Items}, subs : SUBSET Consumers]
  /\ view = [t \in Workers \cup Clients |-> config]
  /\ dispatches = {} /\ accepted = {}

DeliveryTypeOK ==
  /\ TypeOK
  /\ config \in Config /\ view \in [Workers \cup Clients -> Config]
  /\ dispatches \subseteq Items \X Consumers
  /\ accepted \subseteq Clients

\* Nothing but the ledger row, its jobs and transactions changes.
LedgerOnly == UNCHANGED <<config, view, dispatches, accepted>>

-----------------------------------------------------------------------------
(* POST /meta/webhook/<routing_key>.                                       *)

\* Whether or not the snapshot holds the delivery yet.
ReceivePost(c) ==
  /\ txn[c] = Idle /\ c \notin accepted
  /\ txn' = [txn EXCEPT ![c] = Snapshot("enqueue", NoJob, jobs)]
  /\ view' = [view EXCEPT ![c] = config]
  /\ UNCHANGED <<row, jobs, disturbances, config, dispatches, accepted>>

\* unique(endpoint_id, content_sha256) and the endpoint's revision fence turn
\* a concurrent winner or reconfiguration into a fresh attempt (Rollback).
Admit(c) ==
  /\ Locked(c) /\ txn[c].op = "enqueue" /\ view[c].active
  /\ txn[c].row.state = "absent"
  /\ Enqueue(c, [Absent EXCEPT !.state = "pending"])
  /\ Close(c)
  /\ accepted' = accepted \cup {c}
  /\ UNCHANGED <<disturbances, config, view, dispatches>>

\* The delivery exists: an open one is enqueued again, a settled one is
\* acknowledged as a duplicate and left alone.
Reenqueue(c) ==
  /\ view[c].active /\ EnqueueOpen(c)
  /\ accepted' = accepted \cup {c}
  /\ UNCHANGED <<config, view, dispatches>>

AcknowledgeSettled(c) ==
  /\ Locked(c) /\ txn[c].op = "enqueue" /\ view[c].active
  /\ txn[c].row.state \in Outcomes \cup {"dead"}
  /\ UNCHANGED <<row, jobs, disturbances>>
  /\ Close(c)
  /\ accepted' = accepted \cup {c}
  /\ UNCHANGED <<config, view, dispatches>>

-----------------------------------------------------------------------------
(* The fan-out job.                                                        *)

StartFanout(w, j) ==
  /\ Start(w, j)
  /\ view' = [view EXCEPT ![w] = config]
  /\ UNCHANGED <<config, dispatches, accepted>>

Targets(w) == view[w].routed \X view[w].subs

FanOut(w) ==
  /\ view[w].active
  /\ Settle(w, IF Targets(w) = {} THEN "unrouted" ELSE "dispatched")
  /\ dispatches' = dispatches \cup Targets(w)
  /\ UNCHANGED <<config, view, accepted>>

PausedFanout(w) ==
  /\ ~view[w].active
  /\ Settle(w, "stale")
  /\ LedgerOnly

\* Mutated form: no savepoint, dispatches of a failed fan-out are kept.
FanoutFailsPartly(w) ==
  /\ view[w].active
  /\ Defer(w) \/ Exhaust(w)
  /\ \E D \in SUBSET Targets(w) : dispatches' = dispatches \cup D
  /\ UNCHANGED <<config, view, accepted>>

FanoutFails(w) ==
  /\ view[w].active
  /\ Defer(w) \/ Exhaust(w)
  /\ LedgerOnly

JobFanout(w) ==
  \/ \E j \in Jobs : StartFanout(w, j)
  \/ FanOut(w) \/ PausedFanout(w) \/ FanoutFails(w)
  \/ /\ Superseded(w) \/ TransientFailure(w) \/ PermanentFailure(w) \/ Crash(w)
     /\ LedgerOnly

-----------------------------------------------------------------------------
(* Configuration writes.                                                   *)

Toggle(x, S) == IF x \in S THEN S \ {x} ELSE S \cup {x}

\* Mutated form: the endpoint's revision is not advanced.
ReconfigureUnfenced ==
  /\ \/ config' = [config EXCEPT !.active = ~@]
     \/ \E k \in Consumers : config' = [config EXCEPT !.subs = Toggle(k, @)]
     \/ \E i \in Items : config' = [config EXCEPT !.routed = Toggle(i, @)]
  /\ Disturb
  /\ UNCHANGED <<row, jobs, txn, view, dispatches, accepted>>

\* Endpoint, App, page and subscription writes change the endpoint's row,
\* which requests and workers lock: every open transaction will conflict.
Reconfigure ==
  /\ \/ config' = [config EXCEPT !.active = ~@]
     \/ \E k \in Consumers : config' = [config EXCEPT !.subs = Toggle(k, @)]
     \/ \E i \in Items : config' = [config EXCEPT !.routed = Toggle(i, @)]
  /\ txn' = [t \in Workers \cup Clients |->
               IF txn[t] # Idle /\ txn[t].op \in {"process", "enqueue"}
                 THEN [txn[t] EXCEPT !.conflict = TRUE] ELSE txn[t]]
  /\ Disturb
  /\ UNCHANGED <<row, jobs, view, dispatches, accepted>>

\* An asset write locks the endpoint but does not change it, and the fan-out
\* does not lock the asset: an open fan-out goes on with the routes it saw.
ChangeAsset(i) ==
  /\ config' = [config EXCEPT !.routed = Toggle(i, @)]
  /\ Disturb
  /\ UNCHANGED <<row, jobs, txn, view, dispatches, accepted>>

-----------------------------------------------------------------------------
Post(c) ==
  ReceivePost(c) \/ Admit(c) \/ Reenqueue(c) \/ AcknowledgeSettled(c)

Client(c) == ClientSteps(c) /\ LedgerOnly

Queue(j) == QueueSteps(j) /\ LedgerOnly

Next ==
  \/ \E c \in Clients : Post(c) \/ Client(c)
  \/ \E w \in Workers : JobFanout(w)
  \/ \E j \in Jobs : Queue(j)
  \/ Reconfigure
  \/ \E i \in Items : ChangeAsset(i)

Spec == Init /\ [][Next]_deliveryVars

Progress(w) ==
  \/ FanOut(w) \/ PausedFanout(w) \/ FanoutFails(w)
  \/ /\ Superseded(w) \/ TransientFailure(w) \/ PermanentFailure(w)
     /\ LedgerOnly

Recovery(c) == RecoverOrphan(c) /\ LedgerOnly
CronStarts(c) == BeginClient(c, "recover") /\ LedgerOnly
ClientEnds(c) ==
  \/ Admit(c) \/ Reenqueue(c) \/ AcknowledgeSettled(c)
  \/ (RecoverOrphan(c) \/ Rollback(c)) /\ LedgerOnly

Fairness ==
  /\ \A w \in Workers : WF_deliveryVars(Progress(w))
  /\ \A j \in Jobs : SF_deliveryVars(\E w \in Workers : StartFanout(w, j))
  /\ \A j \in Jobs : WF_deliveryVars(RunnerReset(j) /\ LedgerOnly)
  /\ \A c \in Clients : /\ WF_deliveryVars(ClientEnds(c))
                        /\ SF_deliveryVars(Recovery(c))
                        /\ SF_deliveryVars(CronStarts(c))

FairSpec == Spec /\ Fairness

-----------------------------------------------------------------------------
(* Properties.                                                             *)

\* _fanout_once in its savepoint: the dispatches of a delivery exist exactly
\* when it says "dispatched", and are then never added to: no retry, requeue or
\* duplicate leaves a partial fan-out behind or runs a second one.
FanoutAllOrNothing == dispatches # {} <=> row.state = "dispatched"
FanoutOnce == [][dispatches # {} => dispatches' = dispatches]_deliveryVars

\* _lock_active_policy: fan-out is fenced by the endpoint, so it reaches every
\* consumer subscribed at the moment it commits and no other, and only while
\* endpoint and App are active; a delivery goes stale only while one is paused.
FanoutFollowsSubscriptions ==
  [][ /\ dispatches' # dispatches =>
           config.active /\ \E I \in SUBSET Items : dispatches' = I \X config.subs
      /\ row'.state = "stale" /\ row.state # "stale" => ~config.active ]_deliveryVars

\* A request answered with "accepted" stands for a delivery that a worker
\* settles, or whose failed job an administrator sees.
AcceptedIsSettled ==
  [](accepted # {} => <>( /\ row.state \notin {"absent"}
                          /\ \/ row.state \notin Open
                             \/ row.job \in Jobs /\ jobs[row.job].state = "failed"))
=============================================================================
