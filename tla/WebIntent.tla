------------------------------ MODULE WebIntent ------------------------------
(* The durable intent of a Website form in legacy mode: it correlates the   *)
(* native lead with the form event and then watches the session for late    *)
(* evidence, against retention, removal of the lead, pauses and lost jobs.  *)
(* A transaction locks the intent row FOR UPDATE and fails if it changed    *)
(* since its snapshot, so its reads come from the snapshot and its writes   *)
(* take effect at once.                                                     *)
EXTENDS Naturals

CONSTANTS Hands,          \* concurrent transactions
          IntentJobs,     \* queue_job rows of the intent's identity key
          Visits,         \* earlier touchpoints of the session
          MaxAttempts     \* _MAX_ATTEMPTS

VARIABLES intent, intentJobs,
          form,           \* capture_mode, the capture policy, the native lead
          evidence,       \* the ingress event of the form
          visits,         \* what became of each earlier touchpoint
          linked,         \* touchpoints asserted for the lead
          window,         \* "open" until session_reconcile_until, then "closed"
          due,            \* the retention deadline has passed
          hands

intentVars ==
  <<intent, intentJobs, form, evidence, visits, linked, window, due, hands>>

IntentConstants == MaxAttempts \in Nat \ {0}

NoJob == "no job"
Terminal == {"done", "failed", "tombstoned", "expired"}
IntentStates == {"none", "pending", "retry"} \cup Terminal
Reconciling == {"pending", "watching"}
ActiveJob == {"pending", "started"}
Free == [kind |-> "free"]

Intents ==
  [state : IntentStates, attempts : 0..MaxAttempts, job : IntentJobs \cup {NoJob},
   session : BOOLEAN, retention : {"none", "timed", "manual"},
   reconcile : Reconciling \cup {"complete", "failed"}, correlated : BOOLEAN]

NoIntent ==
  [state |-> "none", attempts |-> 0, job |-> NoJob, session |-> FALSE,
   retention |-> "none", reconcile |-> "pending", correlated |-> FALSE]

\* Nothing yet, or a pending intent from before the retention policies.
Init ==
  /\ intent \in {NoIntent, [NoIntent EXCEPT !.state = "pending", !.session = TRUE]}
  /\ intentJobs = [j \in IntentJobs |-> "unborn"]
  /\ form = [mode |-> "legacy", on |-> TRUE, lead |-> TRUE]
  /\ evidence = "none"
  /\ visits = [p \in Visits |-> "unseen"]
  /\ linked = {}
  /\ window = "open" /\ due = FALSE
  /\ hands = [h \in Hands |-> Free]

Exists == intent.state /= "none"
Scenery == <<form, evidence, visits, window, due>>

\* What a transaction reads besides the locked row, as far as its kind of
\* transaction decides on it.
Seen(kind, j) ==
  [kind |-> kind, job |-> j, stale |-> FALSE, form |-> form,
   evidence |-> IF kind = "job" THEN evidence ELSE "none",
   visits |-> IF kind = "enqueue" THEN {} ELSE {p \in Visits : visits[p] = "known"},
   active |-> IF kind \in {"job", "reconcile"} THEN {}
              ELSE {i \in IntentJobs : intentJobs[i] \in ActiveJob}]

\* A new row version: every other open transaction fails on its lock.  A cron
\* that fails leaves nothing behind, a job is rolled back by the queue.
Outdate(g) ==
  IF hands[g].kind /= "job" THEN Free
  ELSE [kind |-> "job", job |-> hands[g].job, stale |-> TRUE]
Written(h) == hands' = [g \in Hands |-> IF g = h THEN Free ELSE Outdate(g)]
Unchanged(h) == hands' = [hands EXCEPT ![h] = Free]

(***************************** pure parts of a row *************************)

\* _session_retention_available: manual, or a deadline not yet reached.
Available == intent.session /\ (intent.retention = "manual" \/ (intent.retention = "timed" /\ ~due))
MustErase == intent.session /\ intent.retention = "timed" /\ due

ErasedValuesOnly == [intent EXCEPT !.session = FALSE]
ErasedForgetful ==
  [intent EXCEPT !.session = FALSE, !.job = NoJob, !.reconcile = "complete", !.state = "expired"]
\* _erase_session_values
Erased ==
  [intent EXCEPT !.session = FALSE, !.job = NoJob, !.reconcile = "complete",
                 !.state = IF @ = "done" THEN "done" ELSE "expired"]

Tombstoned == [intent EXCEPT !.state = "tombstoned", !.job = NoJob, !.reconcile = "complete"]

Attempted == IF intent.attempts < MaxAttempts THEN intent.attempts + 1 ELSE MaxAttempts

\* The policies _process_intent and the session checks insist on.
Allowed(s) == s.form.mode = "legacy" /\ s.form.on

\* A queue job for a row: the active one of its identity key, or a new one.
Enqueued(row, s) ==
  \/ \E j \in s.active : intent' = [row EXCEPT !.job = j] /\ UNCHANGED intentJobs
  \/ /\ s.active = {}
     /\ \E j \in IntentJobs :
          /\ intentJobs[j] = "unborn"
          /\ intentJobs' = [intentJobs EXCEPT ![j] = "pending"]
          /\ intent' = [row EXCEPT !.job = j]

(******************************* one attempt *******************************)

\* _reconcile_session_now: the session has a savepoint of its own and never
\* undoes the correlation.
SessionNow(s) ==
  LET found(r) == [intent EXCEPT !.state = "done", !.attempts = Attempted, !.job = NoJob,
                     !.correlated = TRUE, !.reconcile = r] IN
  \/ /\ linked' = linked \cup s.visits
     /\ intent' = found(IF window = "open" THEN "watching" ELSE "complete")
  \/ /\ UNCHANGED linked
     /\ \E r \in {"failed", "watching"} : intent' = found(r)

\* _attempt_intent after its guards.  The endpoint is locked FOR SHARE, so a
\* policy that changed since the snapshot fails the transaction instead.
Correlates(s) ==
  /\ Allowed(s) /\ s.form = form /\ s.evidence /= "erased"
  /\ evidence' = "done" /\ SessionNow(s)

Refused ==
  /\ intent' = [intent EXCEPT !.state = "failed", !.attempts = Attempted, !.job = NoJob]
  /\ UNCHANGED <<evidence, linked>>

RetryLaterAgain == [intent EXCEPT !.state = "retry", !.attempts = @ + 1, !.job = NoJob]
RetryLater ==
  [intent EXCEPT !.state = IF Attempted = MaxAttempts THEN "failed" ELSE "retry",
                 !.attempts = Attempted, !.job = NoJob]

\* website_form: the request that creates the native lead stores the intent,
\* attempts it once and enqueues a retry.
Capture(h) ==
  /\ intent = NoIntent /\ form.lead /\ evidence /= "erased"
  /\ hands[h] = Free
  /\ LET s == Seen("capture", NoJob)
         fresh(r) == [NoIntent EXCEPT !.state = r, !.session = TRUE, !.attempts = 1] IN
     /\ Allowed(s)
     /\ \E retention \in {"timed", "manual"} :
          \/ /\ evidence' = "done" /\ linked' = s.visits /\ UNCHANGED intentJobs
             /\ intent' = [fresh("done") EXCEPT !.retention = retention, !.correlated = TRUE,
                             !.reconcile = IF window = "open" THEN "watching" ELSE "complete"]
          \/ /\ UNCHANGED <<evidence, linked, intentJobs>>
             /\ intent' = [fresh("failed") EXCEPT !.retention = retention]
          \/ /\ UNCHANGED <<evidence, linked>> /\ MaxAttempts > 1
             /\ Enqueued([fresh("retry") EXCEPT !.retention = retention], s)
  /\ Written(h)
  /\ UNCHANGED <<form, visits, window, due>>

(******************************* the queue job *****************************)

StartJob(h, j) ==
  /\ Exists /\ hands[h] = Free /\ intentJobs[j] = "pending"
  /\ intentJobs' = [intentJobs EXCEPT ![j] = "started"]
  /\ hands' = [hands EXCEPT ![h] = Seen("job", j)]
  /\ UNCHANGED <<intent, linked>> /\ UNCHANGED Scenery

\* The transaction of a job commits and the job is done.
JobEnds(h) ==
  /\ intentJobs' = [intentJobs EXCEPT ![hands[h].job] = "done"]
  /\ Written(h) /\ UNCHANGED <<form, visits, window, due>>

Open(h, kind) == hands[h].kind = kind /\ ~hands[h].stale

\* _job_process: the guards, then one attempt by the job that owns the row.
Owns(h) == intent.job = hands[h].job

ProcessJob(h) ==
  /\ Open(h, "job")
  /\ LET s == hands[h] IN
     \/ MustErase /\ intent' = Erased /\ JobEnds(h) /\ UNCHANGED <<evidence, linked>>
     \/ /\ ~MustErase
        /\ ~Available \/ intent.state \in Terminal \/ ~Owns(h)
        /\ intentJobs' = [intentJobs EXCEPT ![s.job] = "done"]
        /\ Unchanged(h) /\ UNCHANGED <<intent, linked>> /\ UNCHANGED Scenery
     \/ /\ Available /\ intent.state \notin Terminal /\ Owns(h)
        /\ \/ ~form.lead /\ intent' = Tombstoned /\ UNCHANGED <<evidence, linked>>
           \/ form.lead /\ (Correlates(s) \/ Refused)
           \/ form.lead /\ intent' = RetryLater /\ UNCHANGED <<evidence, linked>>
        /\ JobEnds(h)

\* A conflict or a dead worker rolls the job back; the queue runs it again,
\* up to its own limit.
Rollback(h) ==
  /\ hands[h] /= Free
  /\ Unchanged(h)
  /\ \/ hands[h].kind /= "job" /\ UNCHANGED intentJobs
     \/ /\ hands[h].kind = "job" /\ intentJobs[hands[h].job] = "started"
        /\ \E q \in {"pending", "failed"} :
             intentJobs' = [intentJobs EXCEPT ![hands[h].job] = q]
     \/ /\ hands[h].kind = "job" /\ intentJobs[hands[h].job] /= "started"
        /\ UNCHANGED intentJobs
  /\ UNCHANGED <<intent, linked>> /\ UNCHANGED Scenery

\* The runner gives a started job out again while its worker still runs, or
\* somebody cancels it.
DisturbJob(j) ==
  /\ \/ intentJobs[j] = "started" /\ intentJobs' = [intentJobs EXCEPT ![j] = "pending"]
     \/ intentJobs[j] = "pending" /\ intentJobs' = [intentJobs EXCEPT ![j] = "cancelled"]
  /\ UNCHANGED <<intent, linked, hands>> /\ UNCHANGED Scenery

(********************************* the crons *******************************)

Start(h, kind) ==
  /\ Exists /\ hands[h] = Free
  /\ hands' = [hands EXCEPT ![h] = Seen(kind, NoJob)]
  /\ UNCHANGED <<intent, intentJobs, linked>> /\ UNCHANGED Scenery

Commits(h) == Written(h) /\ UNCHANGED <<form, visits, window, due>>
Nothing(h) == Unchanged(h) /\ UNCHANGED <<intent, intentJobs, linked>> /\ UNCHANGED Scenery

JobIsDead == intent.job \in IntentJobs /\ intentJobs[intent.job] \in {"failed", "cancelled"}

\* _cron_enqueue_due: adopt the active job, give up on a terminal one, or
\* enqueue again; _enqueue checks the retention first.
EnqueueDue(h) ==
  /\ Open(h, "enqueue")
  /\ LET s == hands[h] IN
     \/ (intent.state \notin {"pending", "retry"} \/ s.form.mode /= "legacy") /\ Nothing(h)
     \/ /\ intent.state \in {"pending", "retry"} /\ s.form.mode = "legacy"
        /\ UNCHANGED <<evidence, linked>> /\ Commits(h)
        /\ \/ \E j \in s.active : intent' = [intent EXCEPT !.job = j] /\ UNCHANGED intentJobs
           \/ /\ s.active = {} /\ JobIsDead
              /\ intent' = [intent EXCEPT !.state = "failed", !.job = NoJob]
              /\ UNCHANGED intentJobs
           \/ /\ s.active = {} /\ ~JobIsDead
              /\ \/ MustErase /\ intent' = Erased /\ UNCHANGED intentJobs
                 \/ Available /\ Enqueued(intent, s)
                 \/ ~MustErase /\ ~Available /\ UNCHANGED <<intent, intentJobs>>

\* _recover_session_intent: one pass over the session as the transaction sees
\* it, the last one once the window is closed.
Pass(s, wanted) ==
  LET last == IF window = "closed" THEN "complete" ELSE "watching" IN
  \/ (~Available \/ intent.state /= "done" \/ ~wanted) /\ UNCHANGED linked
     /\ intent' = IF MustErase THEN Erased ELSE intent
  \/ /\ Available /\ intent.state = "done" /\ wanted
     /\ \/ ~form.lead /\ intent' = [intent EXCEPT !.reconcile = "complete"] /\ UNCHANGED linked
        \/ /\ form.lead /\ Allowed(s)
           /\ linked' = linked \cup s.visits
           /\ intent' = [intent EXCEPT !.reconcile = last]
        \/ /\ form.lead /\ UNCHANGED linked
           /\ \E r \in {"failed", "watching"} :
                /\ r = "watching" => window = "open"
                /\ intent' = [intent EXCEPT !.reconcile = r]

\* _cron_reconcile_sessions.
Reconcile(h) ==
  /\ Open(h, "reconcile")
  /\ Pass(hands[h], intent.reconcile \in Reconciling /\ hands[h].form.mode = "legacy")
  /\ UNCHANGED <<evidence, intentJobs>> /\ Commits(h)

(***** what needs the locked row only and takes effect in a single step ****)

Locks(h) == Exists /\ hands[h] = Free /\ Commits(h)

\* action_retry_session: a failed reconciliation is run again.
RetrySession(h) ==
  /\ Locks(h) /\ intent.reconcile = "failed"
  /\ Pass(Seen("retry", NoJob), TRUE) /\ UNCHANGED <<evidence, intentJobs>>

\* action_retry: an administrator gives a failed intent a new budget.
RetryIntent(h) ==
  /\ Locks(h) /\ UNCHANGED <<evidence, linked>>
  /\ intent.state = "failed"
  /\ \/ MustErase /\ intent' = Erased /\ UNCHANGED intentJobs
     \/ /\ Available
        /\ Enqueued([intent EXCEPT !.state = "retry", !.attempts = 0, !.job = NoJob],
                    Seen("retry", NoJob))

\* _cron_expire_session_values.
ExpireSession(h) ==
  /\ Locks(h) /\ MustErase /\ intent' = Erased
  /\ UNCHANGED <<evidence, linked, intentJobs>>

\* The event of the form expires and takes the sessions that carry its key
\* with it (_erase_related_private_values).
ExpireEvent(h) ==
  /\ Locks(h) /\ evidence = "done" /\ due /\ intent.retention = "timed"
  /\ evidence' = "erased" /\ intent' = IF intent.session THEN Erased ELSE intent
  /\ UNCHANGED <<linked, intentJobs>>

\* action_apply_retention_policy: intents from before the policies.
ApplyRetention(h) ==
  /\ Locks(h) /\ intent.retention = "none" /\ intent.session
  /\ \E r \in {"timed", "manual"} : intent' = [intent EXCEPT !.retention = r]
  /\ UNCHANGED <<evidence, linked, intentJobs>>

(***************************** what goes on around *************************)

\* Another event of the session is captured, or expires.
VisitArrives(p) ==
  /\ visits[p] \in {"unseen", "known"}
  /\ visits' = [visits EXCEPT ![p] = IF @ = "unseen" THEN "known" ELSE "erased"]
  /\ UNCHANGED <<intent, intentJobs, form, evidence, linked, window, due, hands>>

TimePasses ==
  /\ \/ window = "open" /\ window' = "closed" /\ UNCHANGED due
     \/ window = "closed" /\ ~due /\ due' = TRUE /\ UNCHANGED window
  /\ UNCHANGED <<intent, intentJobs, form, evidence, visits, linked, hands>>

\* Capture is paused for good, or the binding becomes native.
ChangeForm ==
  /\ form.on /\ form.mode = "legacy"
  /\ \E f \in {[form EXCEPT !.on = FALSE], [form EXCEPT !.mode = "native"]} : form' = f
  /\ UNCHANGED <<intent, intentJobs, evidence, visits, linked, window, due, hands>>

\* The native lead is deleted: its reference in the intent becomes null.
DeleteLead ==
  /\ form.lead /\ form' = [form EXCEPT !.lead = FALSE]
  /\ hands' = [g \in Hands |-> Outdate(g)]
  /\ UNCHANGED <<intent, intentJobs, evidence, visits, linked, window, due>>

(***************************************************************************)

Next ==
  \/ \E h \in Hands :
       \/ Capture(h) \/ (\E j \in IntentJobs : StartJob(h, j)) \/ ProcessJob(h) \/ Rollback(h)
       \/ (\E kind \in {"enqueue", "reconcile"} : Start(h, kind)) \/ EnqueueDue(h) \/ Reconcile(h)
       \/ RetrySession(h) \/ RetryIntent(h)
       \/ ExpireSession(h) \/ ExpireEvent(h) \/ ApplyRetention(h)
  \/ \E j \in IntentJobs : DisturbJob(j)
  \/ \E p \in Visits : VisitArrives(p)
  \/ TimePasses \/ ChangeForm \/ DeleteLead

Spec == Init /\ [][Next]_intentVars

(******************************** properties *******************************)

\* The type invariant.
IntentTypeOK ==
  /\ intent \in Intents
  /\ intentJobs \in [IntentJobs -> ActiveJob \cup {"unborn", "failed", "cancelled", "done"}]
  /\ evidence \in {"none", "done", "erased"} /\ linked \subseteq Visits

\* A finished intent owns exactly its projection and a terminal one no job
\* (_check_processing_contract, which would otherwise fail the transaction).
ProjectionIsExact ==
  /\ intent.correlated <=> intent.state = "done"
  /\ intent.state \in Terminal => intent.job = NoJob
  /\ Exists /\ intent.state \notin Terminal => intent.session

\* Once its session values are erased no job, cron, retry or replay with an
\* older snapshot writes the session back, correlates or links again
\* (_session_retention_available).
ErasedIsFinal ==
  [][Exists /\ ~intent.session =>
       /\ ~intent'.session /\ UNCHANGED linked
       /\ intent'.state = intent.state /\ intent'.correlated = intent.correlated]_intentVars
=============================================================================
