------------------------------ MODULE MCLedgers ------------------------------
(* Two ledgers that share nothing, one of which is chosen at the start:    *)
(* the accounting events (one invoice that may be reposted with another    *)
(* amount, the credit notes that reverse it and a payment), or the         *)
(* delivery of a webhook body.  Transactions, credit notes, and the        *)
(* delivery's jobs, requests and consumers are interchangeable.            *)
EXTENDS AccountLedger, TLC

CONSTANTS invoice,
          Jobs, NoJob, Receivers, QueueRetries, AttemptCeiling,
          MaxDisturbances, Items, Consumers

VARIABLES chosen,
          row, jobs, txn, disturbances, config, view, dispatches, accepted

\* The requests are called like the workers of the accounting ledger.
Delivery == INSTANCE WebhookDelivery
  WITH Workers <- Receivers, Clients <- Workers, MayDuplicate <- FALSE,
       Outcomes <- {"dispatched", "stale", "unrouted"}, Final <- {"dispatched"}

ASSUME DeliveryBounds == Delivery!DeliveryConstants

MCTarget == [c \in Credits |-> invoice]
MCSettles == [p \in Partials |-> invoice]
MCPostings == [m \in Credits \cup {invoice} |-> IF m = invoice THEN 2 ELSE 1]
MCAmounts == [m \in Credits \cup {invoice} |-> IF m = invoice THEN {1, 2} ELSE {1}]

ofDelivery == <<row, jobs, txn, disturbances, config, view, dispatches, accepted>>
mcVars == <<chosen, ledgerVars, ofDelivery>>

\* What is not chosen stays in one of its initial states.
MCInit ==
  /\ Init /\ Delivery!Init
  /\ \/ chosen = "account" /\ config.subs = {}
     \/ /\ chosen = "delivery" /\ \A p \in Partials : alloc[p] = "absent"
        /\ \A m \in Moves : doc[m].state = "draft" /\ doc[m].amount = 1

MCNext ==
  /\ UNCHANGED chosen
  /\ \/ chosen = "account" /\ Next /\ UNCHANGED ofDelivery
     \/ chosen = "delivery" /\ Delivery!Next /\ UNCHANGED ledgerVars

MCSpec == MCInit /\ [][MCNext]_mcVars

Interchangeable ==
  Permutations(Workers) \cup Permutations(Credits)
  \cup Permutations(Jobs) \cup Permutations(Consumers)

\* The type invariant of either ledger.
TypesOK == LedgerTypeOK /\ Delivery!DeliveryTypeOK
\* AccountLedger: allocations come in pairs that balance, and the ledger never
\* refuses a document.
LedgerAddsUp == AllocationsBalance /\ NeverRefused
\* WebhookDelivery: a fan-out is complete or absent.
FanoutAllOrNothing == Delivery!FanoutAllOrNothing
\* WebhookDelivery: it happens once, to the consumers subscribed when it
\* commits, and only a requeue gives a failed delivery a new budget.
FanoutKeepsItsWord ==
  Delivery!FanoutOnce /\ Delivery!FanoutFollowsSubscriptions /\ Delivery!NoSilentBudget
=============================================================================
