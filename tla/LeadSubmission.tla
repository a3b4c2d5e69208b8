--------------------------- MODULE LeadSubmission ---------------------------
(***************************************************************************)
(* marketing_center_meta: one Lead Ads submission, reached by callbacks    *)
(* (a dispatch projects a hint and enqueues an authenticated GET), by the  *)
(* job that does that GET, and by the pages of the pull.                   *)
(*                                                                         *)
(* A fetch job locks the submission row from its start to its end (lock),  *)
(* the provider call in between.  A hint and a pull page read the row from *)
(* their snapshot and write it later: PostgreSQL refuses the write if the  *)
(* row has changed (Refused).  Route, profile and App are read by all of   *)
(* them and locked by none (conf).                                         *)
(*                                                                         *)
(* payload is what the provider answers: the answers of the form (fields)  *)
(* and the rest of it; touches are the revisions of the one touchpoint.    *)
(***************************************************************************)
EXTENDS Naturals, Sequences

CONSTANTS Hints,           \* dispatches that carry a hint of this lead
          Workers,         \* queue workers that run fetch jobs
          Pulls,           \* workers that run pull pages
          Jobs, NoJob, Idle, Free,
          AttemptCeiling,  \* _SUBMISSION_ATTEMPT_CEILING
          MaxReleases,     \* bound on action_requeue
          MaxEdits,        \* bound on changes at the provider
          MaxDisturbances  \* bound on errors, crashes, lost jobs, reconfigurations

ASSUME LeadBounds ==
  /\ AttemptCeiling \in Nat \ {0}
  /\ MaxReleases \in Nat /\ MaxEdits \in Nat /\ MaxDisturbances \in Nat
ASSUME LeadActors ==
  /\ NoJob \notin Jobs /\ Hints \cap Pulls = {} /\ Free \notin Workers
  /\ Workers \cap (Hints \cup Pulls) = {}

VARIABLES sub, jobs, touches, payload, conf, lock, txn, settledHints,
          disturbances,
          released,    \* history: how often an administrator has requeued it
          quarantined  \* history: in review and not requeued since

leadVars == <<sub, jobs, touches, payload, conf, lock, txn, settledHints,
              disturbances, released, quarantined>>

Actors == Hints \cup Workers \cup Pulls
Open == {"pending", "blocked", "dead", "stale"}  \* what a pull page may claim
States == {"absent", "ingested", "review"} \cup Open
Payload == [fields : 1..MaxEdits + 1, rest : 1..MaxEdits + 1]
NoPayload == [fields |-> 0, rest |-> 0]
Submission == [state : States, job : Jobs \cup {NoJob}, fields : 0..MaxEdits + 1,
               sha : Payload \cup {NoPayload}]
JobRecord == [state : {"pending", "done", "failed"}, retry : 0..AttemptCeiling, rev : Nat]
Configuration == [rev : Nat, ready : BOOLEAN]

\* What a transaction has read, and the job it runs.
Transaction == [row : Submission, conf : Configuration, payload : Payload,
                jobs : [Jobs -> JobRecord], job : Jobs \cup {NoJob}]

ASSUME LeadIdle == Idle \notin Transaction

Init ==
  /\ sub = [state |-> "absent", job |-> NoJob, fields |-> 0, sha |-> NoPayload]
  /\ jobs = [j \in Jobs |-> [state |-> "done", retry |-> 0, rev |-> 0]]
  /\ touches = <<>> /\ payload = [fields |-> 1, rest |-> 1]
  /\ conf = [rev |-> 1, ready |-> TRUE]
  /\ lock = Free /\ txn = [t \in Actors |-> Idle]
  /\ settledHints = {} /\ disturbances = 0 /\ released = 0 /\ quarantined = FALSE

\* processing is never committed: the transaction that writes it goes on to
\* another state or is rolled back.
LeadTypeOK ==
  /\ sub \in Submission /\ jobs \in [Jobs -> JobRecord]
  /\ touches \in Seq(Payload) /\ payload \in Payload /\ conf \in Configuration
  /\ lock \in Workers \cup {Free} /\ (lock # Free => txn[lock] # Idle)
  /\ settledHints \subseteq Hints /\ released \in 0..MaxReleases

-----------------------------------------------------------------------------
(* Transactions.                                                           *)

Begin(t, more) ==
  /\ txn[t] = Idle
  /\ txn' = [txn EXCEPT ![t] = [row |-> sub, conf |-> conf, payload |-> payload,
                                jobs |-> jobs, job |-> more]]
Close(t) == txn' = [txn EXCEPT ![t] = Idle]

Snap(t) == txn[t].row

\* t can write the row: nobody holds it and it is as t has read it.
Unchanged(t) == lock = Free /\ sub = Snap(t)

\* Otherwise the write waits, or fails with a serialization error, or the
\* insert meets the unique constraint: the transaction starts afresh.
Refused(t) ==
  /\ txn[t] # Idle /\ t \notin Workers /\ sub # Snap(t)
  /\ Close(t)
  /\ UNCHANGED <<sub, jobs, touches, payload, conf, lock, settledHints,
                 disturbances, released, quarantined>>

Disturb == disturbances < MaxDisturbances /\ disturbances' = disturbances + 1

Enters(state) == quarantined' = (quarantined \/ state = "review")

\* A uuid nobody refers to any more; which of them does not matter.
Unused == {j \in Jobs : jobs[j].state # "pending" /\ sub.job # j}
NewUuid == IF Unused = {} THEN {} ELSE {CHOOSE j \in Unused : TRUE}
Pending(rev) == [state |-> "pending", retry |-> 0, rev |-> rev]
Ended(j) == [jobs EXCEPT ![j] = [state |-> "done", retry |-> 0, rev |-> 0]]

-----------------------------------------------------------------------------
(* Applying the authenticated lead.                                        *)

\* Mutated form: any content under a known occurrence is a duplicate.
IngestFirst(p) == touches' = IF touches # <<>> THEN touches ELSE <<p>>
\* _ingest_touchpoint: the same content again is a duplicate.
Ingest(p) ==
  touches' = IF touches # <<>> /\ touches[Len(touches)] = p
               THEN touches ELSE Append(touches, p)

\* Mutated form: stored answers are not compared.
NeverConflicting(row, p) == FALSE
\* _apply_lead, for a lead that matches its route and hint: stored answers are
\* never replaced.
Conflicting(row, p) == row.fields # 0 /\ row.fields # p.fields

Apply(row, p) ==
  IF Conflicting(row, p)
    THEN /\ sub' = [row EXCEPT !.state = "review"]
         /\ Enters("review") /\ UNCHANGED touches
    ELSE /\ sub' = [row EXCEPT !.state = "ingested", !.fields = p.fields, !.sha = p]
         /\ Ingest(p) /\ UNCHANGED quarantined

\* _finish_submission and the like.
Settle(state) ==
  /\ sub' = [sub EXCEPT !.state = state]
  /\ Enters(state) /\ UNCHANGED touches

-----------------------------------------------------------------------------
(* A hint.                                                                 *)

\* _project_lead_hint finds the active route of the Page and form.
ReceiveHint(h) ==
  /\ h \notin settledHints /\ conf.ready /\ Begin(h, NoJob)
  /\ UNCHANGED <<sub, jobs, touches, payload, conf, lock, settledHints,
                 disturbances, released, quarantined>>

HintEnds(h) ==
  /\ Close(h) /\ settledHints' = settledHints \cup {h}
  /\ UNCHANGED <<touches, payload, conf, lock, released>>

\* The jobs of this lead's identity key that h's snapshot shows as active.
ActiveIn(js) == {j \in Jobs : js[j].state = "pending"}

\* _enqueue_fetch on a row h may write.
EnqueueFetch(h, row) ==
  IF ActiveIn(txn[h].jobs) # {}
    THEN /\ \E j \in ActiveIn(txn[h].jobs) : sub' = [row EXCEPT !.job = j]
         /\ UNCHANGED jobs
    ELSE \E j \in NewUuid :
           /\ jobs' = [jobs EXCEPT ![j] = Pending(txn[h].conf.rev)]
           /\ sub' = [row EXCEPT !.job = j]

CreateFromHint(h) ==
  /\ txn[h] # Idle /\ Snap(h).state = "absent" /\ Unchanged(h)
  /\ EnqueueFetch(h, [sub EXCEPT !.state = "pending"])
  /\ HintEnds(h) /\ UNCHANGED <<disturbances, quarantined>>

\* The submission is known: a pending one is enqueued again.
RepeatHint(h) ==
  /\ txn[h] # Idle /\ Snap(h).state = "pending" /\ Unchanged(h)
  /\ EnqueueFetch(h, sub)
  /\ HintEnds(h) /\ UNCHANGED <<disturbances, quarantined>>

\* Nothing is written, so nothing is refused.
LateHint(h) ==
  /\ txn[h] # Idle /\ Snap(h).state \notin {"absent", "pending"}
  /\ HintEnds(h) /\ UNCHANGED <<sub, jobs, disturbances, quarantined>>

\* AmbiguousLeadRoute, WebhookHintConflict: also an ingested lead is put into
\* review.
ConflictingHint(h) ==
  /\ txn[h] # Idle /\ Snap(h).state # "absent" /\ Unchanged(h) /\ Disturb
  /\ Settle("review") /\ Close(h) /\ settledHints' = settledHints \cup {h}
  /\ UNCHANGED <<jobs, payload, conf, lock, released>>

-----------------------------------------------------------------------------
(* The fetch job.                                                          *)

Fits(j) == conf.ready /\ jobs[j].rev = conf.rev

\* Mutated form: the state is not looked at.
BeginsAnyState(j) == sub.job = j
\* _begin_submission: the row's state and registered job.
Begins(j) == sub.state = "pending" /\ sub.job = j

\* Mutated form: "processing" is committed before the provider is asked.
ProcessingCommitted(w, j) ==
  /\ lock = Free /\ jobs[j].state = "pending" /\ Begins(j) /\ Fits(j)
  /\ Begin(w, j) /\ lock' = w /\ sub' = [sub EXCEPT !.state = "processing"]
  /\ UNCHANGED <<jobs, touches, payload, conf, settledHints,
                 disturbances, released, quarantined>>

StartFetch(w, j) ==
  /\ lock = Free /\ jobs[j].state = "pending" /\ Begins(j) /\ Fits(j)
  /\ Begin(w, j) /\ lock' = w
  /\ UNCHANGED <<sub, jobs, touches, payload, conf, settledHints,
                 disturbances, released, quarantined>>

\* Mutated form: a fetch of another route ends without a word.
StaleSilently(j) ==
  /\ lock = Free /\ jobs[j].state = "pending" /\ Begins(j) /\ ~Fits(j)
  /\ jobs' = Ended(j)
  /\ UNCHANGED <<sub, touches, quarantined, payload, conf, lock, txn, settledHints,
                 disturbances, released>>
StaleFetch(j) ==
  /\ lock = Free /\ jobs[j].state = "pending" /\ Begins(j) /\ ~Fits(j)
  /\ Settle("stale") /\ jobs' = Ended(j)
  /\ UNCHANGED <<payload, conf, lock, txn, settledHints, disturbances, released>>

OrphanFetch(j) ==
  /\ lock = Free /\ jobs[j].state = "pending" /\ ~Begins(j)
  /\ jobs' = Ended(j)
  /\ UNCHANGED <<sub, touches, payload, conf, lock, txn, settledHints,
                 disturbances, released, quarantined>>

FetchEnds(w) ==
  /\ lock = w /\ lock' = Free /\ Close(w)
  /\ UNCHANGED <<payload, conf, settledHints, released>>

\* The second look at the route reads the snapshot of the first and agrees.
FetchApplies(w) ==
  /\ FetchEnds(w) /\ Apply(sub, txn[w].payload)
  /\ jobs' = Ended(txn[w].job) /\ UNCHANGED disturbances

\* Rate limit or transient error: everything but queue_job's count is rolled
\* back; the ceiling makes the submission dead.
FetchRetries(w) ==
  /\ FetchEnds(w) /\ jobs[txn[w].job].retry + 1 < AttemptCeiling /\ Disturb
  /\ jobs' = [jobs EXCEPT ![txn[w].job].retry = @ + 1]
  /\ UNCHANGED <<sub, touches, quarantined>>

FetchDies(w) ==
  /\ FetchEnds(w) /\ jobs[txn[w].job].retry + 1 >= AttemptCeiling /\ Disturb
  /\ Settle("dead") /\ jobs' = Ended(txn[w].job)

\* The profile is paused; the answer is invalid or not of this route or ad.
FetchRejected(w) ==
  /\ FetchEnds(w) /\ Disturb
  /\ \E state \in {"blocked", "review"} : Settle(state)
  /\ jobs' = Ended(txn[w].job)

\* An error nobody catches, such as a ValidationError of the projection: the
\* job has failed and the row is still pending.
FetchFails(w) ==
  /\ FetchEnds(w) /\ Disturb
  /\ jobs' = [Ended(txn[w].job) EXCEPT ![txn[w].job].state = "failed"]
  /\ UNCHANGED <<sub, touches, quarantined>>

Crash(w) ==
  /\ FetchEnds(w) /\ Disturb
  /\ UNCHANGED <<sub, jobs, touches, quarantined>>

-----------------------------------------------------------------------------
(* A pull page that lists this lead.                                       *)

StartPull(p) ==
  /\ conf.ready /\ Begin(p, NoJob)
  /\ UNCHANGED <<sub, jobs, touches, payload, conf, lock, settledHints,
                 disturbances, released, quarantined>>

PullEnds(p) ==
  /\ txn[p] # Idle /\ Close(p)
  /\ UNCHANGED <<jobs, payload, conf, lock, settledHints, released>>

\* Mutated form: the pull claims a submission in review too.
ClaimsReview(state) == state \in Open \cup {"review"}
\* _claim_reconcile_submission.
Claims(state) == state \in Open

\* SKIP LOCKED: a fetch job is at it.
PullSkips(p) ==
  /\ PullEnds(p) /\ lock # Free /\ Snap(p).state # "absent"
  /\ UNCHANGED <<sub, touches, disturbances, quarantined>>

PullApplies(p) ==
  /\ PullEnds(p) /\ Unchanged(p) /\ UNCHANGED disturbances
  /\ sub.state = "absent" \/ Claims(sub.state)
  /\ Apply(sub, txn[p].payload)

\* An ingested lead whose payload is another one now; a review is left alone.
PullLooks(p) ==
  /\ PullEnds(p) /\ Unchanged(p) /\ UNCHANGED disturbances
  /\ sub.state # "absent" /\ ~Claims(sub.state)
  /\ IF sub.state = "ingested" /\ sub.sha # txn[p].payload
       THEN Settle("review")
       ELSE UNCHANGED <<sub, touches, quarantined>>

\* The hint of an earlier callback disagrees with this route or lead: also an
\* ingested submission is put into review.
PullConflicts(p) ==
  /\ PullEnds(p) /\ Unchanged(p) /\ Disturb
  /\ sub.state # "absent" /\ Settle("review")

\* _finish_reconcile_projection_error, or an answer that is not of this route.
PullRejected(p) ==
  /\ PullEnds(p) /\ Unchanged(p) /\ Disturb
  /\ sub.state = "absent" \/ Claims(sub.state)
  /\ Settle("review")

-----------------------------------------------------------------------------
(* The surroundings.                                                       *)

\* action_requeue.
Releasable(state) == state \in {"review", "blocked", "dead", "stale"}
Requeue ==
  /\ lock = Free /\ released < MaxReleases /\ released' = released + 1
  /\ Releasable(sub.state) /\ ActiveIn(jobs) = {}
  /\ \E j \in NewUuid :
       /\ jobs' = [jobs EXCEPT ![j] = Pending(conf.rev)]
       /\ sub' = [sub EXCEPT !.state = "pending", !.job = j]
  /\ quarantined' = FALSE
  /\ UNCHANGED <<touches, payload, conf, lock, txn, settledHints, disturbances>>

ProviderEdit ==
  /\ payload.fields + payload.rest <= MaxEdits + 1
  /\ \/ payload' = [payload EXCEPT !.fields = @ + 1]
     \/ payload' = [payload EXCEPT !.rest = @ + 1]
  /\ UNCHANGED <<sub, jobs, touches, conf, lock, txn, settledHints,
                 disturbances, released, quarantined>>

Reconfigure ==
  /\ Disturb
  /\ conf' \in [rev : {conf.rev, conf.rev + 1}, ready : BOOLEAN] \ {conf}
  /\ UNCHANGED <<sub, jobs, touches, payload, lock, txn, settledHints,
                 released, quarantined>>

LoseJob(j) ==
  /\ jobs[j].state = "pending" /\ (lock # Free => txn[lock].job # j) /\ Disturb
  /\ jobs' = [Ended(j) EXCEPT ![j].state = "failed"]
  /\ UNCHANGED <<sub, touches, payload, conf, lock, txn, settledHints,
                 released, quarantined>>

HintWork(h) ==
  ReceiveHint(h) \/ CreateFromHint(h) \/ RepeatHint(h) \/ LateHint(h)
FetchWork(w) == FetchApplies(w) \/ \E j \in Jobs : StartFetch(w, j)
PullWork(p) == StartPull(p) \/ PullSkips(p) \/ PullApplies(p) \/ PullLooks(p)

Next ==
  \/ \E h \in Hints : HintWork(h) \/ ConflictingHint(h)
  \/ \E w \in Workers : \/ FetchWork(w) \/ FetchRetries(w) \/ FetchDies(w)
                        \/ FetchRejected(w) \/ FetchFails(w) \/ Crash(w)
  \/ \E j \in Jobs : StaleFetch(j) \/ OrphanFetch(j) \/ LoseJob(j)
  \/ \E p \in Pulls : PullWork(p) \/ PullConflicts(p) \/ PullRejected(p)
  \/ \E t \in Hints \cup Pulls : Refused(t)
  \/ Requeue \/ ProviderEdit \/ Reconfigure

Spec == Init /\ [][Next]_leadVars

\* The queue runs its fetches.  The pull may come or not: it lists what the
\* provider has created since its last sweep, and passes over locked rows.
FairSpec ==
  /\ Spec
  /\ \A w \in Workers : WF_leadVars(FetchWork(w))
  /\ \A j \in Jobs : WF_leadVars(StaleFetch(j) \/ OrphanFetch(j))

-----------------------------------------------------------------------------
(* What the submission is for.                                             *)

\* A lead in review feeds attribution again only after an administrator has
\* requeued it: neither a late fetch, nor a repeated hint, nor the pull gets
\* past the quarantine.
QuarantineHolds == [][touches' # touches => ~quarantined]_leadVars

\* Webhook and pull converge: apart from what administrators requeue, one
\* touchpoint revision, whoever comes first and whatever the provider changes.
ConvergesOnOne == Len(touches) <= 1 + released

\* The answers a person gave are stored once; every revision of the touchpoint
\* was made from those.
OneAnswerSet == \A i \in DOMAIN touches : touches[i].fields = sub.fields

\* An ingested lead is the provider's payload of the last revision.
IngestedIsLatest ==
  sub.state = "ingested" => touches # <<>> /\ touches[Len(touches)] = sub.sha

\* Submission, answers and touchpoint tell one story.
OneStory == ConvergesOnOne /\ OneAnswerSet /\ IngestedIsLatest

\* A pending lead is never forgotten without a trace: whatever callbacks, pull
\* pages, requeues and reconfigurations do to its row and its jobs, it is
\* settled, or the job it names is there as a failed one (_enqueue_fetch).
LeadSettles ==
  sub.state = "pending" ~> sub.state # "pending" \/ jobs[sub.job].state = "failed"

\* marketing_center_meta/models/lead_ads.py checks the route again after the
\* provider call, for configuration that "changed during retrieval": no lead is
\* to be applied under a configuration that is no longer the current one.
AppliedUnderCurrentRoute ==
  [][\A w \in Workers : FetchApplies(w) => txn[w].conf = conf]_leadVars
=============================================================================
