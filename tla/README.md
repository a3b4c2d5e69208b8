# Marketing Center: formal models

TLA+ models of the Odoo 16 addons in `src/`, TLC configurations that check them
on small instances, and proofs checked by TLAPS. Every definition is translated
from the Python source; `PROJECT.json` maps it to the lines it stands for. Code
that is not in the repository (PostgreSQL, the OCA `queue_job` addon, the Odoo
request and accounting cores, the Graph API) is modelled from how the addons use
it and is marked external there.

Run a model with `tlc -workers 2 -config X.cfg M` (the pairs are in section 3) and
the proofs with `tlapm M.tla` for each module named `*Proofs`.

## 1. The system

The Marketing Center receives signed webhooks from Meta, synchronises the
catalogs and results of Google Ads and Meta Ads, pulls lead forms, ingests what
the website and the contact center observe, and writes all of it into append-only
ledgers: touchpoints, business events, response episodes. Credit is calculated
from these ledgers.

Everything runs in Odoo transactions at PostgreSQL's REPEATABLE READ: requests,
cron runs and queue jobs. Three mechanisms, used in every addon, decide what may
go wrong.

* **A transaction reads one snapshot.** A row it locks or writes must not have
  been changed since, or PostgreSQL ends it with a serialization error and Odoo
  or the queue runs it again from the start. Whatever is *only read* may be old
  when the transaction commits. Most of the hazards below are of this kind.
* **A ledger row names its job** (`queue_job_uuid`); a job whose uuid the row does
  not carry any more does nothing. Jobs may be lost, cancelled, retried by hand
  or run twice.
* **An advisory lock orders transactions, not what they read.** Those of
  `marketing_center_base/services/serialization.py` are tried, never waited for,
  because a waiter would keep its old snapshot; who finds one taken starts again.
  Others (planners of a sync run, links of leads and orders) are waited for with
  `pg_advisory_xact_lock`, and their holder may decide on a snapshot older than
  what the last holder committed. Either way only a row that both write, or a
  unique index, refuses what came too late.

### Components

State, operations and partners of each component, what is hard about it, and what
makes it correct. The modules in brackets model it; section 7 says why the last rows have
none, and `PROJECT.json` what is left out of each component.

| Component | State | Operations | Talks to | Hard | Correct when |
|---|---|---|---|---|---|
| Webhook delivery ledger (`meta_webhook_base/models/delivery.py`, `controllers/webhook.py`) [WebhookDelivery] | one row per signed body, its items | POST, fan-out job, requeue, orphan recovery | dispatch ledger, subscriptions, queue | repeated concurrent posts, lost jobs, pauses during a fan-out | fan-out all or nothing, once, to those subscribed; an accepted body is not lost |
| Webhook dispatch ledger (same file, `dispatcher.py`) [WebhookDispatch] | one row per (item, consumer) | process job, requeue, recovery, revival of unrouted rows | consumers (lead ads, contact center), policy | duplicate workers, old jobs, policy withdrawn meanwhile | the consumer's effect commits at most once, under a policy that holds |
| Fields subscription (`subscription_service.py`) [WebhookSubscriptions] | remote and local subscription state, revisions | reconcile job, page by page; cron | Graph API, endpoints | a POST whose outcome is unknown, reconfiguration meanwhile | what is recorded is what Meta has, and Meta ends up with what is wanted |
| Sync runs and cursors (`marketing_center_base/models/sync_service.py`) [SyncRun] | runs, cursor, planned revisions | plan, apply a page, end, cancel, watchdog | schedulers, providers | page applied after a reconfiguration, two planners, runs ended while a page is at the provider | one run per scope, each page once, in order, under the planned revisions |
| Google jobs (`marketing_center_google/models/*_sync.py`, `sync_common.py`) [GoogleSync] | deferrals, cooldown of the connection | batches of pages, quota deferral, pause | sync runs, Google API | unlimited deferral, cooldowns | every run ends |
| Meta jobs (`catalog_sync.py`, `insights_sync.py`) [MetaSync] | — | a page per job, retry, pause | sync runs, Graph API | waiting runs that the watchdog ends | every run ends |
| Lead pull and history (`lead_ads.py`, `lead_history.py`) [LeadPull] | route row: sweep, cursor, visited hashes, `last_reconciled_at`; history requests | page job, cron, history request, reconfiguration | Graph API, submissions | restarts after errors, history and incremental sweep on one row | no lead behind the watermark is missing |
| Lead submissions (`lead_ads.py`, `meta_service.py`) [LeadSubmission] | submission row, touchpoint revisions, answers | callback hint, fetch job, pull claim, requeue | dispatch ledger, attribution ledger | three writers on old snapshots, provider edits | one touchpoint, one answer set, no way around a review |
| Meta leads in the CRM (`models/crm/projection.py`, `service.py`, `review.py`) [LeadAdmission] | projections, reviews, technical holds | enqueue, claim, admit, review, retry, skip | submissions, CRM, conversations | two entries of one person at once; enqueuer against an ending job | one demand is one business, an entry one lead |
| Business event ledger (`business_event_service.py`) [AccountLedger] | append-only events, counterevents | ingest, reverse, credit caps | evidence addons | no row to lock | keys unique, credits capped |
| Accounting evidence (`marketing_center_account`) [AccountLedger] | claims on moves and partials | post, unpost, reconcile, unreconcile, backfill | native accounting, event ledger | concurrent credit notes, reset and repost, backfill against removal | the ledger says what the documents say |
| Sale evidence (`marketing_center_sale`) [SaleLedger] | events of orders, their leads | propose, confirm, cancel, assign a lead, backfill | event ledger, lead ledger | two capture policies, switched off and on apart from each other; import beside live events | a confirmation counts once, revenue follows the order, its leads see it |
| Response episodes (`marketing_center_contact_center/models/response_episode.py`) [ResponseTimeline] | signals, cursor (frontier), episodes | live message, delivery, reconciliation by page, continuation | contact center, queue | history while messages arrive, stale frontier, jobs that end unread: capture switched off, a cursor row that two jobs create | episodes are those of one pass over the timeline, nothing left out |
| Contact center in the CRM (`attribution_bridge.py`, `crm/`) [ContactConvergence, LeadAdmission] | conversation links, assertions of their evidence | link, transfer, unlink, convergence jobs by page, admission | CRM links, evidence | jobs of the two sides overlap, native merges between pages | every link meets every evidence |
| Attribution ledger and resolution (`attribution_service.py`, `attribution_resolution_service.py`) [TouchpointLedger] | touchpoint revisions, references, resolutions | ingest, conflict, erase, resolve, catalog upsert, cron | all sources, catalog | old snapshots under a tried lock | the effective revision is the last that was told; a reference is resolved or open |
| Attribution calculation (`attribution_calculation_service.py`) [AttributionCalculation] | models, runs, candidates, credits | register, calculate | ledgers | rounding of the split, order of candidates | credit and amount add up to the last micro |
| CRM links and deduplication (`marketing_center_base/models/crm`) [CrmEvidence, LeadEvents] | assertions, revocations, lead events | assert, revoke, merge, stage change, loss, backfill | touchpoints, native CRM | a merge on an older snapshot than a revocation, or while events are not captured; import beside live events | credit survives merges and only with ground; a transition is one event |
| Native UTM projection (`native_utm.py`, `crm/native_utm.py`) [NativeUtm] | mode of a source, mappings, projection of a lead | job, wake, edit, block, revert | CRM links, resolutions | evidence that changes under a running job | once nothing is queued the lead shows what its evidence says |
| Website ingress (`ingress/`) [WebIngress] | endpoint, admissions, events, click vault | admit, capture, reconfigure, expire, lend | attribution | stale snapshot under the tried lock, bursts, erasure of a value on loan | one body per key, bounded bursts, no click value held unlawfully |
| Website leads (`crm/intent.py`, `native_submission.py`) [WebIntent, NativeForms] | intents and their session window, native submissions | capture, job, reconcile, retry, expire | ingress, CRM | erasure against a running job, repeated posts | erased is final, a submission is one lead |
| Website actions (`action_service.py`, `redirect_grant.py`) [RedirectGrants] | grants of a click | claim, redirect, reconfigure, clean up | ingress | concurrent claims of one click | one token per click, used once, while the action is on |
| Website to WhatsApp journeys (`marketing_center_website_whatsapp`) [WhatsappClicks, WhatsappClaims, WhatsappJourney] | handoffs, aliases, matches, credited businesses | click, match, confirm, reject, transfer, withdraw, erase | contact center, CRM | two clicks of a session; paged workers under two revisions | a reference is kept, claims exclude each other, credit converges |
| Click lookup (`click_lookup.py`) [ClickLookup] | lookups, their runs and jobs | plan, attempt, defer, cancel, erase, retry | Google API, evidence | erasure or another account meanwhile, a job that runs twice | answered once, an active run has its job |
| Automation steps (`marketing_center_automation`) [AutomationSteps] | enrollments, steps | enroll (job, cron), send, stop, fail, retry | contact center, CRM | retry after the message was admitted; workflow switched off and on | a lead enrolls once, one message per step, none after a person |
| Catalog and performance stores | entities, facts | apply a page | sync runs | — | an upsert is seen by TouchpointLedger; the rest is what a page leaves behind |
| Connections, profiles, credential health | revisions, health | probe, pause, rotate | provider clients | lock order | seen by SyncRun as a revision and a flag |
| Lead discovery | form previews | preview, create routes | Graph API, LeadPull | — | not modelled |
| Signature, sanitizer, API clients, OAuth, dashboard, previews, configuration, migrations | — | — | — | — | pure functions, I/O or reads; not modelled |

## 2. The modules

```
QueueJobs   <- FencedRow <- WebhookDispatch  (refines OnceOnlyEffect)
                         <- WebhookDelivery
SyncRun     <- GoogleSync, MetaSync          (both refine SweepPromise)
LeadPull   LeadSubmission   AccountLedger   ResponseTimeline   WebhookSubscriptions

MCQueueWork       = WebhookDispatch | ResponseTimeline         chosen in Init
MCWebhookSettles  = WebhookDispatch | WebhookDelivery | WebhookSubscriptions, fair
MCLedgers         = AccountLedger   | WebhookDelivery
MCSync            = GoogleSync      | MetaSync
MCWebsite         = WebIngress | WebIntent | NativeForms | RedirectGrants
                  | WhatsappClicks | WhatsappClaims | WhatsappJourney
MCCrm             = CrmEvidence | LeadEvents | NativeUtm | ContactConvergence
                  | ClickLookup | SaleLedger | LeadAdmission
                  | AttributionCalculation | TouchpointLedger | AutomationSteps
LeadPull and LeadSubmission are run as they are

Theorems:
WebhookProofs (of WebhookDelivery and WebhookDispatch)
SyncProofs (of GoogleSync and MetaSync)
LeadPullProofs, LeadSubmissionProofs
LedgerProofs (of AccountLedger and WebhookDelivery in MCLedgers)
WebsiteProofs (of the seven parts of MCWebsite)
CrmProofs (of ClickLookup, LeadAdmission, AutomationSteps, ContactConvergence,
           CrmEvidence and AttributionCalculation in MCCrm)
CrmEventProofs (of LeadEvents, SaleLedger, TouchpointLedger and NativeUtm in MCCrm,
                and of the ten together)
```

A composite MC module holds components that share no rows and chooses one of
them in its initial state; the others stay as they are. Where two components meet
in the code, the module of one has what it sees of the other: WhatsappJourney the
conversation links and the CRM assertions, LeadAdmission both kinds of entries,
SaleLedger the leads of an order, AutomationSteps the conversation.

### Common form

A transaction is two steps: the first records the snapshot, the second commits or
rolls back everything the handler writes. A step that writes a row marks every
open transaction that is going to lock that row as `conflict`, and a transaction
with a conflict can only be rolled back or retried. What the handler reads
without a lock stays as the snapshot has it. Where nothing the handler reads can
change before the commit without causing a conflict, the two steps are one.

Definitions headed "Mutated form" are never part of a specification. Each is the
form a definition would take with a plausible bug, and shows that the property
named beside it in `PROJECT.json` notices that bug.

### Webhook: QueueJobs, FencedRow, WebhookDelivery, WebhookDispatch

`FencedRow` is the protocol both ledgers follow (`_lock_for_fanout`,
`_lock_for_processing`, `_enqueue`, `action_requeue`, `_recover_orphaned_jobs`).
`row` is the ledger row, `jobs` the queue, `txn` the open transactions.

* "processing" and a raised attempt count are written by a transaction that goes
  on to settle the row or is rolled back, so neither is ever committed;
  `TypeOK` states this and the proofs use it.
* The queue row of a job is part of its worker's commit. A crash rolls back and
  leaves the job "started"; the runner resets it.
* The grace period of orphan recovery is left out: recovery may come at any time,
  which only adds behaviours.
* `LoseJob` is a cancelled or deleted job that nobody runs. `Duplicate` is a
  runner restarted under a live worker.
* WebhookDispatch: `allowed` is the routing policy. All its writers change a row
  the check locks, so a change spoils open workers. `effects` counts committed
  consumer effects. `OnceOnlyEffect` is the abstract promise.
* WebhookDelivery: `config` is the routing; endpoint, App, page and subscription
  writes raise the endpoint's revision and spoil open transactions, asset writes
  do not (`ChangeAsset`; see the observations in section 6).
* WebhookSubscriptions: `config` is what the consumers want, `remote` what Meta
  has, `late` the requests whose answer was lost and which may still take effect.
  A reconciliation is `Begin` (locks, snapshot) and `Reconcile` (remote writes,
  read-back, record) with every failure in between; it only ever adds fields.

### Sync: SyncRun, GoogleSync, MetaSync, SweepPromise

`run`, `cursor` and `jobs` are the rows, `conf` is source, connection and profile:
every write to one of them raises a binding revision, so one number tells every
change. A page job calls the provider between its snapshot and its commit. Google
applies several pages per job and can defer on quota with a successor that keeps
the deferral count; Meta applies one. A cooldown writes the connection row
without its revision (`touched`). A paused profile takes its connections along
(`ready` FALSE, revision raised). The rescheduling of an outdated page job has no
action, because `NeverOutdated` shows that no state needs it. Left out: what a
page contains, the scheduler's choice of scopes, job identity keys, timing.

### Leads: LeadPull, LeadSubmission

LeadPull: `route` is the route row with its sweep, `page` the page being fetched.
The page job holds the row lock through the provider call, so writers of the
route wait; profile, App, Page and source are only in the snapshot. A lead is the
time of its creation; the provider lists the newest first (external). A sweep is
a chain of at most `MaxPages` jobs, then "partial", then the cron. `late` records
that an incremental sweep outlasted the overlap: the code promises nothing in
that case and neither does `CoveredBehindWatermark`. The new-only mode and the
choice of a history's period are left out.

LeadSubmission: `sub` is the submission row, `lock` its row lock, which a fetch
job holds through the provider call; hints and pull pages work on a snapshot and
are refused if the row has changed. `payload` is what the provider answers now,
split into the answers and the rest. The touchpoint hash excludes the time of
observation, so ingesting the same payload again adds no revision.

### Accounting: AccountLedger

`doc` and `alloc` are native documents and allocations, `ledger` the events keyed
by (kind, document, sequence), `tx` the open transactions with the events their
searches read. A transaction that has to lock a row somebody else has written is
ended by that write; its retry is a new `Begin`. Draft and cancelled are one
state; one company, one currency. The reset of an invoice removes its allocations
in the same transaction, and a native reconciliation writes the invoice row (both
external). `SwitchCapture` turns the capture off and on once; a pause "preserves
existing history" by design, so two invariants hold for ledgers whose capture was
never off (`paused`). Documents may precede the addon.

### Episodes: ResponseTimeline

One conversation. `signals` are the observations, `cursor` is the row with the
frontier, which the first job creates, `episodes` the list, `turns` counts the
changes of the capture policy. With capture off a message comes without a signal
(`missed`) and a job ends without reading (`SkipJob`); a job that loses the
creation of the cursor row or of a signal meets a unique index, which the queue
does not retry, and one may use up `MAX_BRIDGE_RETRIES` at any time (`FailJob`).
`lapsed` records that a job ended unread; the administrator's backfill queues
another one then, and the installation queues the first if capture is on. The lock of the conversation is tried and its
holder commits at once, so a reconciliation is the step that commits; what it
decides on is the snapshot of `StartJob`. It always writes the cursor row, which
refuses a concurrent one. A live transaction only reads the cursor (`Floor`).
Ids come from a sequence: any unused id above those of the snapshot. Left out:
retention of messages and the answered event of a response. A page is the set of the first signals (or
messages) behind the frontier, at most `PageSize` of them; `Pass` folds `Observe`
over a set from its earliest signal to its latest.

### Website: WebIngress, WebIntent, NativeForms, RedirectGrants

* WebIngress: `ingress` is the endpoint row, `captured` the events by key,
  `admissions` those of the rate limit by their time, `hits` the transaction of
  each HTTP worker, `loans` that of each job that holds a click value. A request
  goes through `Admit` (the endpoint FOR SHARE), `Ingest` (the tried lock and the
  key's row) and `Commit`; what it knows is its snapshot, whatever it locks. An
  event that another request has stored meanwhile is met by the unique index
  only.
* WebIntent: the intent row with its queue job, its session window and its
  retention. The row is locked FOR UPDATE by whoever changes it, so a committed
  change ends every other open transaction: `Outdate`. Retention, removal of the
  lead, pauses and cancelled jobs come at any time.
* NativeForms: one submission posted by several requests, the recovery cron and
  the erasure of its event. `replies` remembers which data was answered how.
* RedirectGrants: `Claim`/`Issue` answer a click with a token, `Follow`/`Consume`
  redirect its bearer, `Administer`/`SetUp` switch endpoint, binding and action.

### Website to WhatsApp: WhatsappClicks, WhatsappClaims, WhatsappJourney

The three stages of one journey share the handoff row only. WhatsappClicks makes
it: a request takes the lock of its event, then of its session, both with an old
snapshot, and repeats, reuses or inserts a row. WhatsappClaims finds the click of
a message by reference or by proximity and lets a person review it; the write to
the clicks a writer relies on (`Fence`) is what refuses an outdated one.
WhatsappJourney begins with a claim: match and conversation links carry a
revision, each queues paged jobs under it, and every page is one step because it
locks a row that each of its competitors writes.

### Evidence in the CRM: CrmEvidence, ContactConvergence, NativeUtm, LeadEvents

* CrmEvidence: the append-only assertions (`evidence`) and revocations of leads,
  which merges copy to the surviving lead (`anchored`: the leads whose company
  their first evidence has fixed). Event links (`eventLeads`) are made, and handed on
  by a merge, only while the company captures CRM events (`capturing`); `dropped` are
  the leads whose merge left theirs behind. Revoking and merging are two steps
  each, linking is one.
* ContactConvergence: `bonds` are the links of a conversation to leads, `proofs`
  its projected evidence, `credits` the assertions made. A link and an evidence
  each start a chain of page jobs that pairs it with the other side.
* NativeUtm: one lead, its links and the campaigns they resolve to, the mode of
  the source, the mapping of campaigns. `due` is the job that waits under the
  identity key, `scopes` the reconciliations a change of configuration starts,
  `open` the transactions of evidence that have not committed yet. `raced` records
  the two overlaps the code does not cover (section 6): a wake-up skipped by a
  transaction older than the activation, and a job without news beside an older one.
* LeadEvents: `made` are the transitions of the lead, `events` those reported,
  `cursor` the position of the backfill.

### Orders, calculation, touchpoints: SaleLedger, AttributionCalculation, TouchpointLedger

* SaleLedger: `order` is the order's row, `tracked` what the chatter says about
  it, `saleEvents` the ledger. Each operation locks the order and is one step; a
  transaction that assigns a lead is two, since a reconciliation writes no row it
  locks. The events of the order are reported under one capture policy (`captured`)
  and linked to its leads (`projected`) under another, that of CRM events
  (`leadsCaptured`); `hidden` are the links that were due while only the latter was
  off and that nothing has caught up since.
* AttributionCalculation: a pure split (first, last and linear, with windows and
  weights, in micros) inside the run that stores it. The order of the candidates
  a producer sends and the roundings are explored by the initial states; the
  properties compare the result with the definition of each model.
* TouchpointLedger: `versions` are the revisions of one occurrence with
  conflicts and erasure, `rows` the projected references, `items` the catalog.
  Ingestion, upsert, cron and erasure are two steps each.

### Admission, lookup, automation: LeadAdmission, ClickLookup, AutomationSteps

* LeadAdmission: two Meta submissions and a conversation. `entry` is the
  projection with its job uuid, `views` the snapshot of the job at work,
  `enqueues` an enqueuer that has found a job but not committed, `business` the
  leads made, `guarded` whether the cross-source protection is on. The model has no
  comparison window: the code compares with receipts of a limited time
  (`admission.py`, `_admission_receipts`), here whatever was received counts, so
  that nothing is said of entries farther apart than the window.
* ClickLookup: a lookup with its run and its job, both accounts it might ask,
  and erasure and settlement of the evidence at any time. A job that was lost
  sight of may run twice.
* AutomationSteps: `workflow` is the configuration, `step` the one of each
  enrolled lead, `stepJobs` those with a waiting job. Creation, contact by a
  person, pauses and another phone come at any time.

## 3. The runs

| Run | Module | Bounds | Shows |
|---|---|---|---|
| `QueueWork` | `MCQueueWork` | dispatch: 3 jobs, 2 workers, 1 requester, 3 disturbances, ceilings 2, duplicates; timeline: 2 messages of 2 kinds, any of them history, page of 1, 2 transactions, 2 changes of the capture policy, clock 0..1 | `ClaimIsExclusive`, `EffectOnce`, `PolicyHoldsAtCommit`, refinement of `OnceOnlyEffect`; `EpisodesFollowTimeline`, `FrontierSound` |
| `Webhook_settles` | `MCWebhookSettles` | 3 jobs, 1 worker, 1 requester or cron, 2 disturbances; subscriptions: 1 Page, 1 field, 1 change, 1 failure, 1 reconciler, 2 jobs | `LedgersSettle`, `Converges` |
| `Ledgers` | `MCLedgers` | 1 invoice with 2 postings and 2 amounts, 2 credit notes, 1 allocation, 2 transactions; delivery: 2 requests, 1 worker, 2 jobs, 2 consumers, 1 item, 2 disturbances | `BooksFollowDocuments`, `LedgerAddsUp`, `LinkedCreditFits`; `FanoutAllOrNothing`, `FanoutKeepsItsWord` |
| `Sync_safety` | `MCSync` | 2 runs, 2 workers, 2 planners, 3 jobs, 3 pages, batch 2, 2 disturbances, 1 deferral | `CompleteSweep`, `ChainHolds`, `AppliedUnderPlan`, refinement of `SweepPromise` |
| `Sync_ends` | `MCSync` | 2 runs, 2 workers, 1 planner, 3 jobs, 2 pages, 2 attempts, page limit 1, 1 disturbance | `RunsEnd` |
| `LeadPull` | `LeadPull` | clock 1..4, overlap and lookback 1, page of 1 lead, 2 pages per chunk, 1 history request, 1 disturbance | `NoLeadIsLost`, `HistoryCompletes` |
| `LeadSubmission` | `LeadSubmission` | 2 callbacks, 2 workers, 1 pull page, 3 jobs, 2 attempts, 1 requeue, 1 edit at the provider, 2 disturbances | `OneStory`, `QuarantineHolds`, `LeadSettles` |
| `Website` | `MCWebsite` | ingress: 2 workers, 3 requests, 1 key, 2 bodies, limit 1, clock 0..2, 1 reconfiguration; intent: 2 transactions, 2 jobs, 2 attempts, 1 other visit; forms: 3 posts, 2 bodies; clicks: 3 requests, 4 clicks, 2 handoffs, 3 aliases; claims: 2 writers, 2 clicks, 2 messages; journey: 2 links, 2 businesses, page of 1, 3 writes; grants: 2 bearers, 2 clicks, 2 tokens, lifetime 1, clock 0..2, 2 changes | `IngressKeepsFaith`, `FormsKeepFaith`, `ErasedIsFinal`, `ClicksAndClaims`, `JourneyConverges` |
| `Crm` | `MCCrm` | 2 transactions at a time; evidence: 3 leads, 3 assertions, event capture on and off; events: 4 tracked, pages of 1; UTM: 2 touchpoints, 4 changes; convergence: 2 links, 2 evidences, 2 businesses, pages of 1, 4 changes; lookup: 2 accounts, 1 retry, 1 deferral; sale: 5 tracked, both capture policies; admission: 2 submissions, 1 conversation, 3 outside steps; calculation: 4 clicks, 3 named, 10 micros; touchpoints: 3 contents, 3 revisions, 5 transactions; steps: 2 leads, 3 incidents | `CreditIsKept`, `EventsCountOnce`, `ClassificationSettles`, `LookupKeepsWord`, `AdmissionKeepsWord` |
| `WebhookDispatch_dead`, `LeadPull_cursor`, `LeadSubmission_fence` | as above | smallest that shows it | the findings of section 6 |

Every passing run but the two that only check liveness also checks the type
invariant of each module it holds; these say more than types (no attempt is spent
on an open row, a counterevent has the opposite sign, one signal per message). A
property of a composite is the conjunction of those of the parts it names; the
comment above each one says which.

**Why the bounds are enough.** The protocols compare two actors at a time: a
transaction and the one that overtakes it. Two workers, two requests, two planners
or two transactions show each such race, and a third job is needed only where a
row changes its job twice (requeue after recovery). Ceilings (8 attempts in the
code, 2 or 1 here) need one value below and one at the limit. Three pages with
batches of two give a full batch, a partial one and the last page. Two messages
with pages of one give a full page followed by another one, and an episode that
begins on one page and is answered on the next; two changes of capture switch it
off under a waiting job and on again. Two amounts and two credit notes
let credits fit one posting and exceed another. The website and CRM parts have
one row that everybody wants, two transactions that overlap at it and, where a
page chain or a retry is involved, a third step that comes between them; a page
of one makes two links two pages. Ten micros over three candidates leave a
remainder. Disturbances are counted together
so that two of different kinds meet. Where a bound uses up the occurrences (runs of a
scope, ticks of the clock), the run stops there, and `CHECK_DEADLOCK FALSE` says
so in the cfg.

**Symmetry** is declared in safety runs only, over sets whose members the modules
never tell apart; no liveness run uses it. In `Ledgers`, `Website` and `Crm` the
parts, of which only one moves, share model values, which keeps the group small.

## 4. Fairness

* *Webhook*: weak fairness of a worker's end (a transaction ends), strong fairness
  of the runner handing out each pending job (the worker pool is shared, so the
  start may be disabled now and then), weak fairness of the runner's reset of a
  job nobody runs, strong fairness of the recovery cron, which other requests may hold up. The runner is
  external: that it finds dead jobs is what `queue_job` documents. Duplicates are
  off in this run; they are a failure of the runner and could go on for ever. The
  subscriptions have the same worker and runner, and strong fairness of the cron
  that enqueues reconciliations: nothing else repeats one that failed for good.
* *Sync*: weak fairness of workers, of the runner and of the watchdog cron. A run
  whose job is lost ends only by the watchdog.
* *Leads*: weak fairness of "the cron or a worker does something it can"
  (`Work`) for the pull: one route has one job at a time. `HistoryCompletes`
  excepts a lost job, which the code leaves to the administrator. For
  `LeadSettles`, weak fairness of each worker's fetch and of the end of a fetch job
  that finds its route or its row gone. None of the pull: it lists what was created since
  `last_reconciled_at` minus 15 minutes (`lead_ads.py:590`) and passes over locked
  rows (`:1233`), so that nothing brings it back to an older lead. What the property
  promises of such a lead is that its job shows as failed.

No fairness is assumed of administrators, requests, providers' success or
reconfigurations. The number of disturbances is finite, that is: failures stop
after some time. The website and CRM parts have no liveness run: what has to
happen in the end is stated there as a property of the states in which nothing
is queued or open any more (`JourneyConverges`, `ClassificationSettles`,
`PairsMeet`, `Carried`, `RunIsCarried`), which needs no fairness.

## 5. What is proved

For any sets of workers, requests, jobs, items, consumers, runs and planners and
for any ceilings, page counts and bounds:

| Theorem | Says |
|---|---|
| `DispatchTypes` | type correctness, and that an open row has spent no attempts |
| `DispatchEffectOnce` | the consumer's effect commits at most once, exactly when the row is done |
| `DispatchClaimIsExclusive` | at most one open transaction can still settle the row |
| `DispatchPolicyHolds` | the policy checked still holds when the effect commits; a row goes stale only without it |
| `DispatchImplementsPromise` | every step is a step of `OnceOnlyEffect` or changes nothing of it |
| `DeliveryTypes` | type correctness of the delivery |
| `DeliveryFanoutAllOrNothing` | dispatches exist exactly when the delivery says "dispatched" |
| `DeliveryFanoutOnce` | once there, they are never added to |
| `DeliveryClaimIsExclusive` | at most one open transaction can still settle the delivery |
| `DeliveryNoSilentBudget` | while no runner restarts under a live worker: a failed delivery gets no other job without a requeue, however stale what a retry, a recovery or a late request has read |
| `TimelineEpisodes` | the episodes of a conversation are those of one pass over all that was consumed, in the order of its observation, however pages, jobs and arrivals interleave; a message has one signal |
| `TimelineFrontier` | history has its signals before any is consumed; but for what was confirmed while capture was off; only a transaction that overlapped a reconciliation leaves one behind the frontier; what is still to be read has a job, unless one ended unread and none was queued since |
| `DeliveryFollowsSubscriptions` | the fan-out reaches the consumers subscribed when it commits; a delivery goes stale only while endpoint or App is paused |
| `GoogleTypes`, `MetaTypes` | type correctness of a scope, its runs and jobs |
| `GoogleCompleteSweep`, `MetaCompleteSweep` | a run applies each page once and in order, and one that succeeded has applied them all |
| `GoogleChain`, `MetaChain` | an active run has a registered job that was not done, which carries the cursor's sequence; no worker ever holds an outdated page |
| `GoogleAppliedUnderPlan`, `MetaAppliedUnderPlan` | pages are applied only under the revisions of the plan |
| `GoogleImplementsSweep`, `MetaImplementsSweep` | every step is a step of `SweepPromise` or changes nothing of it |
| `LeadPullTypes` | type correctness of the route, its histories, jobs and the page in hand |
| `LeadPullLosesNothing` | no lead is left behind `last_reconciled_at`, behind a sweep's cursor or in the period of a finished history request |
| `LeadTypes` | type correctness of the submission and its jobs |
| `LeadTellsOneStory` | one touchpoint revision but for requeues, one answer set, and an ingested lead is its last revision |
| `LeadQuarantine` | nothing feeds attribution while a lead is in review |
| `LedgerTypes` | type correctness of the accounting ledger |
| `LedgerFollowsDocuments` | while capture was never off, a document that has moved has exactly the active events its state calls for, of its amount |
| `LedgerAlwaysAddsUp` | allocations and their counterevents come in pairs, and no transaction is refused by the ledger for what it decided on its snapshot |
| `LedgersTyped` | type correctness of both ledgers of `MCLedgers` |
| `LedgerFanoutWhole`, `LedgerFanoutKeepsItsWord` | what the `Ledgers` run checks of the delivery, from the theorems of `WebhookProofs` |
| `LedgerCreditsFit` | a credit is linked only to a posting that bears it together with every credit that stands against the invoice, for any number of credit notes and amounts |
| `WebsiteTypes` | type correctness of the seven Website parts |
| `WebsiteIngressKeepsFaith` | one body per key, a burst exceeds the rate limit by the concurrent transactions only, whatever the rate and the window, and every held click value is lawful |
| `WebsiteFormsKeepFaith` | a submission posted again is one lead of its own data, its click values have one home, and a finished intent owns exactly its projection |
| `WebsiteErasedIsFinal` | an erased intent is never written back |
| `WebsiteClicksAndClaims` | an answered reference stays an alias; a claim leaves nothing open that it competes with; a click has one token, which redirects once, while its action is on |
| `WebsiteJourneyConverges` | once no job waits, exactly the businesses that may be credited are, in whatever order pages and writers came |
| `CrmTypes` | type correctness of the ten CRM parts |
| `CrmCreditIsKept` | an active link meets the evidence it is bound to; a lead has the credit that its evidence and that of the leads merged into it give, and no other, and its event links if no merge on the way fell into a time without capture; an amount is split to the last micro, as its model says, in whatever order its evidence was named |
| `CrmLookupKeepsWord` | a click is answered once, and a lookup that is active has a job that may end it |
| `CrmAdmissionKeepsWord` | one demand is one business, one entry one lead, what was held stays held and no entry is left without a job; a lead is enrolled once, gets one message of a step and none that a person or a deactivation came before |
| `CrmEventsCountOnce` | a transition of a lead is one event, live or imported, and none behind the backfill's cursor is left out; an order's confirmations and cancellations are counted once, its revenue follows them and its leads see what capture reported, but for what they missed while CRM events were not captured; what is told twice in a row of a touchpoint is one revision |
| `CrmProjectionHeals` | what is told twice in a row of a touchpoint is one revision; what its projection lacks, the cron takes up |
| `CrmClassificationSettles` | the above, and: once nothing is left to run, a lead nobody took over has the campaign that its links, mappings and mode give now, for any number of jobs, touchpoints and changes |

`WebhookProofs` proves the steps of `FencedRow` once and then both ledgers from
them, and the episodes, which share a run with the dispatch; `SyncProofs` the steps of `SyncRun` and then both providers. `LedgerProofs`
takes the delivery's theorems from an instance of `WebhookProofs`. The CRM has two
modules of theorems only because the provers' time grows with the size of one.

*Assumptions*: the named assumptions on the constants in `QueueJobs` and `FencedRow`
(names that do not collide, a ceiling of at least one); the theorems about a
dispatch or a delivery assume in addition what its outcomes are, `DispatchStates` or
`DeliveryStates`. TLC evaluates those of the modules in `QueueWork`, `DispatchStates` in
`Webhook_settles` and `DeliveryStates` in `Ledgers`. The theorems about the episodes assume `TimelineBounds`
(a page takes at least one row; evaluated in `QueueWork`).
The theorems about a scope assume `SyncBounds`, `SyncActors` and `DeferralBound`
(evaluated in both sync runs), those about the pull `PullBounds` and `PullNames` (evaluated in `LeadPull`), those about a lead `LeadBounds`, `LeadActors` and
`LeadIdle` (evaluated in `LeadSubmission`), those about the accounting ledger `LedgerDocuments`
(amounts are positive) and, for the delivery beside it, `DeliveryBounds` (both
evaluated in `Ledgers`), those about the CRM
parts `CreditBounds`, `ConvergeBounds` (a page takes at least one link),
`CalcBounds` (no more clicks are named than there are micros to share), `LookupBounds`, `AdmitBounds` (submissions and intakes are different entries),
`EventBounds`, `SaleBounds`, `UtmBounds` (what stands for no campaign is none), `ToldBounds` (a revision names a namespace once) and `StepBounds`
(leads have numbers; all evaluated in `Crm`), and those about the Website `IngressBounds`, `IntentBounds`, `JourneyBounds` (ids of conversation links
are positive, the links finitely many) and `GrantBounds` (evaluated in `Website`).

*Argument, webhook*: `EffectOnce` alone is not inductive, since a worker that commits from
a stale snapshot would handle a dispatch twice. The invariant is

    DispatchInv == Ledger /\ DispatchTypeOK /\ PolicyCurrent /\ EffectOnce
    Ledger == TypeOK /\ SnapshotCurrent /\ OneLiveRun

`SnapshotCurrent`: a transaction without a conflict has read the row as it is now
and its job is recorded as started. `OneLiveRun`: a job runs in at most one such
transaction. `PolicyCurrent`: such a worker has seen the current policy. The lemma
behind every case is `KeptPreserves`: a step leaves open, without conflict, only
transactions whose locks it did not touch. Each action then has a lemma of its
own, `RowStep` says what a step may do to row and effects, and the action
property and the refinement follow from it.

The delivery goes the same way: `DeliveryInv` is `Ledger`, the types,
`FanoutAllOrNothing` and `ConfigSeen` (a worker without a conflict has seen the
endpoint's current state and subscriptions). `NoSilentBudget` needs two facts of
the queue beside it: a job runs in at most one transaction (`RunsOnce`; a runner
that restarts under a live worker is what the property excepts), and what a
transaction without a conflict remembers of a failed job is still so
(`Remembered`). Its asset routing is left out of
`ConfigSeen` on purpose, it would not hold: see the observations in section 6.

*Argument, episodes*: that pages add up to one pass needs the order of the signals
to be linear (`Timely`) and a page to be a first part of it (`PageFacts`): then a
pass over what was consumed, followed by one over the page, is a pass over both
(`PassGoesOn`), and what a pass leaves behind (`Shape`: which episode is pending,
and that only the last one may be) is what the next page starts from. `ViewsTell`
says what the snapshot of a reconciliation is still good for: the signals it has
seen stand, what it has not seen was raced or has another job, and while history
waits it has seen every confirmed message or that message has its signal. `LivesTell`: a
live transaction that no reconciliation overlapped has read the floor there is,
so that its clamped signal is ahead of the frontier. `JobsTell`: a reconciliation under
way is one of the jobs left, and a signal its snapshot lacks has another, unless
a job ended unread. A reconciliation writes its
cursor field by field; the lemmas `JobState` to `JobMore` say so once for each.

*Argument, sync*: that each page is applied once cannot be seen from the pages
alone; it needs that nobody applies one from a stale view. The invariant is

    Inv  == Rows /\ TxnTypeOK /\ SnapshotCurrent /\ Registered
    Rows == SyncTypeOK /\ OneActive /\ Progress /\ CompleteSweep /\ Chain

`OneActive`: at most one run of the scope is active. `Progress`: its pages are the
cursor's position. `SnapshotCurrent`: a page job that owns its run and was not
overtaken has the run, cursor and configuration as they are. `Registered`: a job
that lost its run is not the one an active run names. Every step then either leaves the rows of a scope alone,
plans a run when none is active, advances it by an owner, or ends it.

*Argument, pull*: that no lead is lost is proved together with

    Clocks /\ JobCarries /\ PageHolds /\ Periods /\ InTime

`JobCarries`: the job the route waits for is at the route's cursor. `PageHolds`:
the page that was fetched is cut from all leads the sweep has not passed, so that
what is stored and the next cursor leave no hole between them. `Periods`: a sweep
starts where the last one or the history's period does, and the history will put
back the `last_reconciled_at` there is. `Clocks` and `InTime` say what the clock
makes of it: a new lead is newer than any of these, and an incremental sweep that
has not outlasted the overlap ends at most the overlap after its first page. The
property needs a lower end, `floor`: the lookback of the sweep that first set
`last_reconciled_at`, since what is older was never asked for.

*Argument, leads*: the invariant is

    Inv == LeadTypeOK /\ TxnTypeOK /\ Guarded /\ Spent /\ OneStory

`Guarded`: while a fetch holds the row lock the submission stays pending, and a
lead in quarantine stays in review. `Spent`: a submission that may still be
applied has fewer revisions than its releases allow. The three parts of
`OneStory` are proved together: each applying step needs all of them and `Spent`
before it.

*Argument, accounting*: a transaction decides on the events of an old snapshot and
nothing locks the events. What helps is that whoever adds an event writes the rows
the event is about. The invariant is

    LedgerInv == Good /\ Open /\ (~paused => Faithful)     (and the types of the rest)
    Good      == DocTells /\ AllocTells /\ LedgerTells /\ RoomTells

`Open`: of the events an open transaction looks for (`Sees`), it has all there are
(`Snap`), and its row is as it needs it. `SnapKept` shows that a commit which does
not end it leaves that so; for a credit note these events are those of the invoice
and of every other credit note against it. `LedgerTells`: every event is a posting
of one of the numbers of its document or the exact counterevent of one, and keys
are unique. `RoomTells`: a posted document without an active event may still get
one (the bound on postings). `Faithful`: the books are complete. Each operation then
concludes (`Concludes`) on the whole ledger as it did on its snapshot, which gives
the invariant, the credit caps and that nothing is refused (`Accepted`).
What stands against an invoice is a sum, which the community modules define as a
fold in an arbitrary order. `SumAdd` (an event more adds its amount) and `SumLess`
(a part of the credits is no more than all of them) are proved from the well-foundedness
of < on the numbers of events (`NatSets`), as the library's induction theorems take an operator.

*Argument, CRM*: as on the website, each part has an inductive invariant of its own.

* *Automatic messages*: `FindsAreFresh`: what an open enrollment has found nobody
  has enrolled since, as whoever writes the configuration row ends the others.
  `ReceiptIsMessage`: the message of a step is the one its receipt names, so that a
  second admission finds it. `Hush`: every open job of a silenced lead has read what
  stops it, and so would one that starts now. That a reactivation keeps it needs
  `LeadsAreOrdered`: leads are numbered as they are created, so that the new entry
  point is past all of them.
* *Lookup*: `RunCarried`: the job an active run knows is in the queue, at the run's
  attempt. `AnsweredRests` and `AnswerTells`: a click that was answered has no active
  run any more and keeps its answer until it is erased. `JobsFollow`: no job is ahead
  of the row.
* *Admission*: `ViewsTell`: what a job found when it began still holds when it ends:
  that no admitted entry is alike (while the guard works), which business it is to
  reuse, that the entry is claimed or not. `RowsTell` says which leads, holds and
  businesses belong to which state of an entry, `QueueTells` which jobs may wait for
  it.
* *Lead events*: `EventTells`: an imported event is named after its tracking row, and
  a live one is of a row above the watermark it keeps. The import ends at the first
  watermark, so that the two never tell of one row.
* *Orders*: what was tracked of an order is a path, so between two confirmations
  there is a cancellation (`PathTells`). Every event tells one row of it: an imported
  one is named after its row, a live one is of the row behind its watermark, and a
  cancellation reverses a confirmation that came before it (`EventTold`). `NoneBefore`: no
  confirmation that is still open is older than a cancellation that was told; hence
  at most one is open, and the next cancellation finds it. An import is a
  recursion over the rows before the first live event, and `LoopTells` is its
  invariant: in its midst an open confirmation may be older than a live
  cancellation, but then it is the last one imported (`Lately`). That none is left
  like this at the end is what the first live event shows (`FirstLive`): if the
  order was sold before it, it is a cancellation and has closed that confirmation.
  `LinksTell`: a transaction that gives the order a lead carries every event that was
  reported live, as whoever reports one ends it; what is shown to a lead or missed by
  it stays so (`Shows`).
* *Touchpoint ledger*: `Grew`: a ledger only grows, whatever is erased of it, so that
  the effective revision of an old snapshot is still one that stands. `SnapshotsTell`:
  of the rows a transaction read, those nobody wrote since are as it read them.
  `EffectiveIsWhole`: once one row is of the effective revision, all the rows of that
  revision are, since whoever writes one writes them all or fails. `RowsTold`: a row
  was resolved in a part of the catalog there is. With them, a projection that
  neither stands nor is taken up by the cron is impossible (`ResolvedStays`).
* *Native UTM*: `SettlesLater`: a lead that does not show what would be decided now
  (`Unsettled`) is looked at (`LookedAt`): a job is due, a scope reaches it, a job
  has to run again, or one runs that has seen what there is. A job with an old view
  leaves the lead unsettled when it ends, hence `Followed`: while one runs, somebody
  looks already, unless there is nothing to take (`NothingToTake`). `CurrentJobSettles`: what a
  job decided from the present state is decided again of the state it leaves,
  where a campaign it created is now mapped (`AppliedStays`) and a value it gave back is
  not owned any more (`GivenStays`). The first attempt failed on a hold that ends between
  two jobs; TLC found that overlap only with seven changes, and `Overlooks` now
  names it.
* *Convergence*: every pair of an active link and an evidence bound to its
  conversation is paid, or somebody owes it: a queued or failed job of either, or a
  converter whose cursor has not passed it. A page is the least numbers behind the
  cursor, so that what a page passes over was paid on it.
* *Evidence*: a copy stands at the lead its source was merged into, its source is
  gone, and a revocation of any of them shows at the root. What an open merge read
  is still so, unless a row it locks was written, which dooms it. Credit then
  follows from the chain of merges: of any two leads of a chain one is reached from
  the other. Event links follow the same chain, one merge after the other, until one
  of them dropped those it found (`LedgerTells`).
* *Calculation*: a pure split, yet with sums over sets, ranks in an order and divisions.
  Sums are folds in an arbitrary order; that they add up is the lemma of the
  accounting ledger again. Shares lose less than one micro each (division with
  remainder), so what is left over is less than the number of candidates, whose ranks
  take each place once: hence every micro goes somewhere, and none twice. An
  order in which evidence is named is a permutation, weights and ranks
  move with it, and the outcome does not see it (`OrderIsNothing`).

*Argument, website*: each part has an inductive invariant of its own, and since the
parts not chosen rest, their conjunction is one of the composite.

* *Ingress*: `BurstIsBounded` looks back from the clock and is not inductive, since
  the clock moves the window. `WindowsAreBounded` says it of every start of a window:
  the admissions since then, and the handlers that may still add one, are at most
  the limit and all handlers but one. Admissions are summed by a recursive function
  of the time; what it sums to is proved by an induction over a set of numbers
  (`NatSets`), as the library's induction theorems take an operator.
  `HandlersTellRight`: a handler that saw an event saw the digest it has, and one
  that writes an event is the only one of its key.
* *Forms*: `SeenIsKept`: whoever saw a lead sees its form data still. *Intents*:
  `HandsHold`: a transaction that is not outdated knows jobs and touchpoints that
  exist.
* *Clicks*: `VersionsTell`: a row of the version in a snapshot holds what the
  snapshot shows. *Claims*: `AnalyzedOnce` and `SnapshotsMiss`: of a click it wrote
  to (`Fence`), a writer has missed nothing but that a suggestion was superseded,
  and of an analyzed message no new suggestion. *Grants*: `ViewsHold` (a transaction that need not run
  again has a snapshot like a new one), `InOrder`, `SpentOnce`.
* *Journey*: whatever is not as it should be, is owed. A pair that should be
  supported and is not (or the other way), a review, the credited business, its
  native value: each such discrepancy is backed by a waiting job under the current
  revision whose page has not passed it (`SupportOwed`, `ReviewsOwed`,
  `PointSettled`, `UtmOwed`; `JobsTell` and `NothingBefore`: no job is ahead of its
  authority and nothing is credited before there is something to credit). An empty queue leaves none, which is `JourneyConverges`.

*Model-checked only*: liveness (out of reach of the prover here, as is ENABLED),
with the subscriptions, of which all that is claimed is that they converge.

## 6. Findings and observations

Each finding is a run that ends in a violation of what the repository says of
itself.

1. `WebhookDispatch_dead` (`delivery.py:49`): `max(attempts + 1, job.retry + 1)`
   counts queue retries after database failures as consumer attempts, against
   `tests/test_models.py:517` ("A rolled-back DB transaction does not consume
   application delivery attempts ...").
2. `LeadPull_cursor` (`lead_ads.py:624`): a sweep that restarts after an error
   inherits the hash of the abandoned cursor; its first page with a successor fails
   for good and the route stays queued.
3. `LeadSubmission_fence` (`lead_ads.py:1433`): the route check after the
   provider call reads the snapshot of the one before it and never disagrees.

While modelling, the following came up. The models behave like the code in each
case, and where a property would be broken by it, the property states the
exception.

* *Webhook delivery*: a fan-out creates dispatches for an asset retired before it
  commits (`delivery.py:363`, against the comment at `asset.py:72`); they go
  stale when they are processed.
* *Timeline*: a live transaction that read the cursor before a reconciliation
  moved it takes the free lock afterwards and puts its signal behind the frontier
  (`response_episode.py:1115`). `LeftOnlyByRace`, a part of `FrontierSound`, shows
  that nothing but such an overlap does this. A job that finds capture off
  (`:1779`), or that loses the creation of the cursor row to another one (`:1260`;
  the queue does not retry it), ends without reading: what it was for waits for the
  next signal or a backfill, and messages that came with capture off for none.
* *Touchpoints*: an ingestion whose snapshot is older than an erasure adds an
  unerased revision after it, and an erasure may miss a revision for the same
  reason, against "A revised replay of a retired occurrence must never restore its
  identifiers" in `attribution_service.py`; `crossed` marks these. An earlier
  payload that comes again after a conflict or a correction is one more revision.
  A reference that two entities match stays resolved if the second one was being
  upserted when it was looked up, until the next upsert.
* *Calculation*: two evidences that differ in their weight only make the result
  and the input hash depend on the order in which they are sent; one touchpoint
  under two references is refused with the whole calculation.
* *Lead events*: transitions made while capture is off, after it was on once, are
  never imported, against the comment near `crm/service.py:710`.
* *Native UTM*: a wake-up is skipped by a transaction older than the source's
  activation; a lead whose links went while the source was disabled or simulating
  is not classified again after it is re-enabled, against the comment near
  `crm/native_utm.py:425`; a job that records nothing does not outdate an older
  job, which then records what it saw: fewer links, or a hold that has ended
  (`crm/native_utm.py:306`). After the latter a paused lead keeps "scope_review"
  as its state, and re-enabling the source does not classify it.
* *Convergence*: two overlapping jobs of a pair meet at a unique index, which the
  queue does not retry; one of them fails until an administrator requeues it.
* *Click lookup*: an unexpected failure, spent deferrals or a cancelled run leave
  the lookup waiting with an ended run; only an explicit retry plans again.
* *Orders*: a cancellation made while capture was off cannot be imported once a
  later confirmation was reported live; the order then has two open confirmations
  and can't be cancelled. An import that overlaps the assignment of a lead is not
  seen by this lead before the next event. With sales captured and CRM events not,
  the leads of the order miss what is reported (`sale/service.py:163`,
  `crm/service.py:322`) until a backfill or another look at the event.
* *Merges*: one made while CRM events are not captured leaves the event links
  on the lead it deletes (`crm/service.py:322`, `:516`); nothing restores them.
* *Lead admission*: an enqueuer that adopts a started job whose run ends without
  touching the entry leaves it pending with the uuid of an ended job
  (`projection.py:357`, `:408`); a technical hold and the final "failed" are not
  fenced by the uuid, against the docstring at `projection.py:372`; a failure
  clears the hold, so that a later retry with the protection switched off creates
  without a release.
* *Redirect grants*: of two concurrent first claims the one with the older
  snapshot ends in an error instead of "duplicate"; a claim repeated after its
  token was used gets a new one.
* *Automation*: the second check for a human contact, after the lock, reads the
  snapshot of the first; a message that arrives in between does not stop the job.
  A job already running when the workflow is switched off may still send.

## 7. Not modelled

* Signature checks and sanitizing, the Graph and Google clients, OAuth and
  identities: pure functions and I/O whose outcomes and error classes are inputs
  of the models.
* Connections, profiles and credential health: SyncRun and the lead modules see a
  revision and a flag. The probes record a provider's answer in one row; the order
  in which they lock identities and connections is not checked.
* Lead discovery: a preview and one step that creates routes; LeadPull starts
  where a route exists.
* The contents of pages: parents, entity revisions and performance facts, field
  parsing, identifiers, digests of addresses.
* Dashboards and campaign boards (reads), ad previews (a cache), configuration
  and company access (access rules), views, one-off migrations.
* Within modelled components: the Google resolver, several currencies and
  companies, links between orders and invoices, reviews of an origin, consent
  records, the legacy form's receipts, retention of messages. `PROJECT.json`
  names them per component.

Hazards that no property covers: a history sweep that reaches its limit of 1000
pages ends in an error and is continued by the cron (`lead_ads.py:1313`; the
model's page bounds stay below it); the cron takes up idle, partial and failed
routes only, so that a queued one with a lost job waits for an administrator
(`lead_ads.py:576`; `HistoryCompletes` excepts it); a pending lead whose fetch job
has failed is taken up by itself only as long as a sweep still lists it
(`lead_ads.py:590`), and is requeued by nobody, as `action_requeue` refuses a
pending one (`LeadSettles` excepts it); documents reset while capture
is paused keep their postings (`account_move.py:145`, "preserves existing
history" by design); and the limits of the provider and of the worker pool, which
the models take as failures that may come at any time.
