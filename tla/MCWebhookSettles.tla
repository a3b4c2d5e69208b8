-------------------------- MODULE MCWebhookSettles --------------------------
(* The webhook's part that goes on by itself, under fairness: a dispatch,  *)
(* a delivery or the subscriptions of an endpoint, chosen at the start.    *)
(* Items and Consumers are the delivery's, Pages to MaxTroubles the        *)
(* subscriptions'.                                                         *)
EXTENDS WebhookDispatch

CONSTANTS Items, Consumers,
          Pages, Objects, Names, PageObject, ReconcileJobs, Reconcilers,
          MaxVersion, MaxTroubles

VARIABLES chosen,
          config, view, dispatches, accepted,
          setup, endpoint, installed, reconcileJobs, reconciling, remote, late, troubles

Delivery == INSTANCE WebhookDelivery
  WITH Outcomes <- {"dispatched", "stale", "unrouted"}, Final <- {"dispatched"}

Subscriptions == INSTANCE WebhookSubscriptions
  WITH Jobs <- ReconcileJobs, jobs <- reconcileJobs, txn <- reconciling,
       config <- setup, MaxDisturbances <- MaxTroubles, disturbances <- troubles

ASSUME DispatchOutcomes == DispatchStates
ASSUME DeliveryOutcomes == Delivery!DeliveryStates
ASSUME SubscriptionBounds == Subscriptions!SubscriptionConstants

MCOutcomes == {"done", "stale", "unrouted"}
MCFinal == {"done"}

ofDispatch == <<allowed, seen, effects, failures>>
ofDelivery == <<config, view, dispatches, accepted>>
ofLedgers == <<row, jobs, txn, disturbances, ofDispatch, ofDelivery>>
ofSubscriptions ==
  <<setup, endpoint, installed, reconcileJobs, reconciling, remote, late, troubles>>
mcVars == <<chosen, ofLedgers, ofSubscriptions>>

Dispatching ==
  DispatchInit /\ config = {} /\ view = {} /\ dispatches = {} /\ accepted = {}

\* What is not chosen stays in one of its initial states.
MCInit ==
  /\ Subscriptions!Init
  /\ \/ chosen = "subscriptions" /\ Dispatching /\ row.job = CHOOSE j \in Jobs : TRUE
     \/ /\ setup.on = {} /\ \A t \in DOMAIN remote : remote[t] = {}
        /\ \/ chosen = "dispatch" /\ Dispatching
           \/ /\ chosen = "delivery" /\ Delivery!Init
              /\ allowed = TRUE /\ seen = {} /\ effects = 0 /\ failures = {}

OnDispatch(A) ==
  chosen = "dispatch" /\ A /\ UNCHANGED <<chosen, ofDelivery, ofSubscriptions>>
OnDelivery(A) ==
  chosen = "delivery" /\ A /\ UNCHANGED <<chosen, ofDispatch, ofSubscriptions>>
OnSubscriptions(A) == chosen = "subscriptions" /\ A /\ UNCHANGED <<chosen, ofLedgers>>

\* A paused endpoint rests.
MCNext ==
  \/ OnDispatch(DispatchNext) \/ OnDelivery(Delivery!Next)
  \/ OnSubscriptions(Subscriptions!Next \/ UNCHANGED ofSubscriptions)

MCSpec == MCInit /\ [][MCNext]_mcVars

\* The fairness of WebhookDispatch, of WebhookDelivery and of
\* WebhookSubscriptions, for the one chosen.
Reconciling == OnSubscriptions(\E w \in Reconcilers : Subscriptions!Reconcile(w))
Beginning ==
  OnSubscriptions(\E w \in Reconcilers, j \in ReconcileJobs : Subscriptions!Begin(w, j))
Resetting == OnSubscriptions(\E j \in ReconcileJobs : Subscriptions!RunnerReset(j))
Enqueueing == OnSubscriptions(Subscriptions!Cron)

MCFairness ==
  /\ \A w \in Workers :
       WF_mcVars(\/ OnDispatch(DispatchProgress(w)) \/ OnDelivery(Delivery!Progress(w))
                 \/ Reconciling)
  /\ \A j \in Jobs :
       /\ SF_mcVars(\/ \E w \in Workers : \/ OnDispatch(Process(w, j))
                                          \/ OnDelivery(Delivery!StartFanout(w, j))
                    \/ Beginning)
       /\ WF_mcVars(\/ OnDispatch(RunnerReset(j) /\ History /\ UNCHANGED seen)
                    \/ OnDelivery(RunnerReset(j) /\ Delivery!LedgerOnly)
                    \/ Resetting)
  /\ \A c \in Clients :
       /\ WF_mcVars(OnDispatch(DispatchClientEnds(c)) \/ OnDelivery(Delivery!ClientEnds(c)))
       /\ SF_mcVars(OnDispatch(DispatchRecovery(c)) \/ OnDelivery(Delivery!Recovery(c)))
       /\ SF_mcVars(OnDispatch(DispatchCronStarts(c)) \/ OnDelivery(Delivery!CronStarts(c))
                    \/ Enqueueing)

MCFairSpec == MCSpec /\ MCFairness

\* WebhookDispatch: every dispatch is settled or left with a failed job.
\* WebhookDelivery: and so is every body that was accepted.
LedgersSettle ==
  /\ chosen = "dispatch" => EventuallySettled
  /\ chosen = "delivery" => Delivery!AcceptedIsSettled

\* WebhookSubscriptions: Meta ends up sending what is wanted.
Converges == chosen = "subscriptions" => Subscriptions!Converges
=============================================================================
