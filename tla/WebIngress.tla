----------------------------- MODULE WebIngress -----------------------------
(* Browser events at a web ingress endpoint: admission under a rate limit, *)
(* idempotent capture, the configuration fence, retention, and the vault   *)
(* that lends a retained click value to a provider job.  Transactions are  *)
(* REPEATABLE READ: a row locked after it changed since the snapshot fails *)
(* and the request is run again.                                           *)
EXTENDS Integers, FiniteSets

CONSTANTS Handlers,      \* HTTP workers
          Borrowers,     \* jobs that read a click value
          EventKeys,     \* event_key_hash
          Digests,       \* request_digest
          Purposes,      \* capture_purpose
          Days,          \* retention deadlines offered, 0 = manual
          RateLimit,     \* rate_limit_per_minute
          Window,        \* the minute
          Keep,          \* _RETENTION of admissions
          MaxClock, MaxRequests, MaxRevision

VARIABLES ingress,       \* the endpoint row
          clock,
          admissions,    \* committed admissions by their time
          captured,      \* committed events by key
          hits,          \* the transaction of each HTTP worker
          loans,         \* the transaction of each reading job
          answers,       \* what was answered to which body
          requests

ingressVars == <<ingress, clock, admissions, captured, hits, loans, answers, requests>>

IngressConstants ==
  /\ RateLimit \in Nat \ {0} /\ Window \in Nat \ {0} /\ Keep \in Nat /\ Keep >= Window
  /\ Days \subseteq Nat /\ MaxClock \in Nat /\ MaxRequests \in Nat /\ MaxRevision \in Nat \ {0}
  /\ IsFiniteSet(Handlers) /\ "none" \notin Digests

Times == 0..MaxClock
Never == MaxClock + 1    \* no deadline: retention_manual
NoPolicy == MaxClock + 2 \* neither: an event older than the retention policies

NoEvent == [digest |-> "none", until |-> Never, erased |-> FALSE, purpose |-> "none"]
Events ==
  {NoEvent} \cup [digest : Digests, until : 0..NoPolicy, erased : BOOLEAN, purpose : Purposes]

Deadline(observed) ==
  IF ingress.days = 0 THEN Never
  ELSE IF observed + ingress.days > MaxClock THEN MaxClock ELSE observed + ingress.days

\* What a new event and its touchpoint keep.
Evidence(digest) ==
  [digest |-> digest, until |-> Deadline(clock), erased |-> FALSE, purpose |-> ingress.purpose]

\* Pages hold the configuration revision they were served with.
Served == 1..ingress.revision

Idle == [pc |-> "idle"]
Answered == {"accepted", "duplicate", "conflict"}
Sharing == {"admitted", "written", "known", "lent"}   \* hold the endpoint FOR SHARE

\* SELECT ... FOR SHARE of a row that changed after the snapshot.
Outdated(t) == t.revision /= ingress.revision
Fenced ==
  /\ \A w \in Handlers : hits[w].pc \notin Sharing
  /\ \A b \in Borrowers : loans[b].pc \notin Sharing

Init ==
  /\ ingress \in [revision : {1}, on : {TRUE}, purpose : Purposes, days : Days]
  /\ clock = 0
  /\ admissions = [t \in Times |-> 0]
  /\ \E legacy \in SUBSET EventKeys, d \in Digests, p \in Purposes :
       captured = [k \in EventKeys |->
         IF k \in legacy THEN [digest |-> d, until |-> NoPolicy, erased |-> FALSE, purpose |-> p]
         ELSE NoEvent]
  /\ hits = [w \in Handlers |-> Idle]
  /\ loans = [b \in Borrowers |-> Idle]
  /\ answers = {}
  /\ requests = 0

HandlersOnly(w, t) ==
  /\ hits' = [hits EXCEPT ![w] = t]
  /\ UNCHANGED <<ingress, clock, loans, requests>>

Recorded == UNCHANGED <<admissions, captured, answers>>

(***************************** a browser event *****************************)

\* _endpoint: the first query of a request takes its snapshot.
Begun(k, d, served) ==
  [pc |-> "begun", key |-> k, digest |-> d, served |-> served,
   revision |-> ingress.revision, admissions |-> admissions, event |-> captured[k]]

\* A page served under some revision posts an event; a resent one is a
\* second request with the same body.
Receive(w, k, d, served) ==
  /\ hits[w].pc = "idle" /\ requests < MaxRequests
  /\ hits' = [hits EXCEPT ![w] = Begun(k, d, served)]
  /\ requests' = requests + 1
  /\ UNCHANGED <<ingress, clock, loans>> /\ Recorded

\* A request that failed on a concurrent change runs again.
Again(w) ==
  /\ hits[w].pc = "retried"
  /\ HandlersOnly(w, Begun(hits[w].key, hits[w].digest, hits[w].served)) /\ Recorded

Retry(w) ==
  HandlersOnly(w, [pc |-> "retried", key |-> hits[w].key, digest |-> hits[w].digest,
                   served |-> hits[w].served])

\* Admissions of the last minute that the transaction can see.
Recent(seen) ==
  LET count[t \in 0..MaxClock + 1] ==
        IF t = 0 THEN 0
        ELSE count[t - 1] + (IF t - 1 > clock - Window THEN seen[t - 1] ELSE 0)
  IN count[MaxClock + 1]

UnderOrAtLimit(w) == Recent(hits[w].admissions) <= RateLimit
UnderLimit(w) == Recent(hits[w].admissions) < RateLimit

\* _locked_for_public_key: 404 for an endpoint that is off or was
\* reconfigured since the page was served, then _admit: 429.
Admit(w) ==
  /\ hits[w].pc = "begun"
  /\ \/ Outdated(hits[w]) /\ Retry(w)
     \/ /\ ~Outdated(hits[w])
        /\ ~ingress.on \/ hits[w].served /= ingress.revision \/ ~UnderLimit(w)
        /\ HandlersOnly(w, Idle)
     \/ /\ ~Outdated(hits[w]) /\ ingress.on /\ hits[w].served = ingress.revision
        /\ UnderLimit(w)
        /\ HandlersOnly(w, [pc |-> "admitted", key |-> hits[w].key, digest |-> hits[w].digest,
                            served |-> hits[w].served, event |-> hits[w].event, at |-> clock])
  /\ Recorded

\* The contract refuses the envelope, or its time lies outside the replay
\* window: 400, and the admission stays.
Refuse(w) ==
  /\ hits[w].pc = "admitted"
  /\ HandlersOnly(w, Idle)
  /\ admissions' = [admissions EXCEPT ![hits[w].at] = @ + 1]
  /\ UNCHANGED <<captured, answers>>

\* pg_try_advisory_xact_lock on the event key.
Busy(w) ==
  \E v \in Handlers \ {w} :
    hits[v].pc \in {"written", "known"} /\ hits[v].key = hits[w].key

DispositionByKey(w) == "duplicate"
\* A disposition in the eyes of the transaction.
Disposition(w) == IF hits[w].event.digest = hits[w].digest THEN "duplicate" ELSE "conflict"

\* _ingest_atomic.  An event committed since the snapshot is met by the
\* unique index only: the request ends with an error, nothing is stored.
Ingest(w) ==
  /\ hits[w].pc = "admitted"
  /\ \/ Busy(w) /\ Retry(w)
     \/ /\ ~Busy(w) /\ hits[w].event /= NoEvent
        /\ HandlersOnly(w, [hits[w] EXCEPT !.pc = "known"])
     \/ /\ ~Busy(w) /\ hits[w].event = NoEvent /\ captured[hits[w].key] /= NoEvent
        /\ HandlersOnly(w, Idle)
     \/ /\ ~Busy(w) /\ hits[w].event = NoEvent /\ captured[hits[w].key] = NoEvent
        /\ HandlersOnly(w, [hits[w] EXCEPT !.pc = "written", !.event = Evidence(hits[w].digest)])
  /\ Recorded

\* The request commits, and is answered.
Commit(w) ==
  /\ hits[w].pc \in {"written", "known"}
  /\ admissions' = [admissions EXCEPT ![hits[w].at] = @ + 1]
  /\ \/ /\ hits[w].pc = "written"
        /\ captured' = [captured EXCEPT ![hits[w].key] = hits[w].event]
        /\ answers' = answers \cup {<<hits[w].key, hits[w].digest, "accepted">>}
     \/ /\ hits[w].pc = "known"
        /\ answers' = answers \cup {<<hits[w].key, hits[w].digest, Disposition(w)>>}
        /\ UNCHANGED captured
  /\ HandlersOnly(w, Idle)

\* The worker dies, or its statement times out: the transaction is rolled back.
Abort(w) ==
  /\ hits[w].pc \notin {"idle"}
  /\ HandlersOnly(w, Idle) /\ Recorded

\* _gc_old_admissions.
Collect ==
  /\ \E t \in Times : t < clock - Keep /\ admissions[t] > 0
  /\ admissions' = [t \in Times |-> IF t < clock - Keep THEN 0 ELSE admissions[t]]
  /\ UNCHANGED <<ingress, clock, captured, hits, loans, answers, requests>>

(****************************** administration *****************************)

\* write() of a security field locks the endpoint FOR UPDATE, so it waits
\* for every transaction that fenced the configuration.
Reconfigure(on, p, d) ==
  /\ Fenced /\ ingress.revision < MaxRevision
  /\ ingress' = [revision |-> ingress.revision + 1, on |-> on, purpose |-> p, days |-> d]
  /\ UNCHANGED <<clock, hits, loans, requests>> /\ Recorded

\* A new public key; pages served before are refused from then on.
RotatePublicKey ==
  /\ Fenced /\ ingress.revision < MaxRevision
  /\ ingress' = [ingress EXCEPT !.revision = @ + 1]
  /\ UNCHANGED <<clock, hits, loans, requests>> /\ Recorded

\* action_apply_legacy_retention: events that never got a policy.
ApplyLegacyRetention ==
  /\ \E k \in EventKeys : captured[k].until = NoPolicy
  /\ captured' = [k \in EventKeys |->
       IF captured[k].until = NoPolicy THEN [captured[k] EXCEPT !.until = Deadline(0)]
       ELSE captured[k]]
  /\ UNCHANGED <<ingress, clock, admissions, hits, loans, answers, requests>>

ExpireUnlocked(k) ==
  /\ captured[k] /= NoEvent /\ ~captured[k].erased /\ captured[k].until <= clock
  /\ captured' = [captured EXCEPT ![k].erased = TRUE]
  /\ UNCHANGED <<ingress, clock, admissions, hits, loans, answers, requests>>
\* _cron_expire_retained_values erases the values of an event, of its
\* touchpoint and of its copies, under the event row FOR UPDATE.
Expire(k) ==
  /\ captured[k] /= NoEvent /\ ~captured[k].erased /\ captured[k].until <= clock
  /\ \A b \in Borrowers : ~(loans[b].pc = "lent" /\ loans[b].key = k)
  /\ captured' = [captured EXCEPT ![k].erased = TRUE]
  /\ UNCHANGED <<ingress, clock, admissions, hits, loans, answers, requests>>

Tick ==
  /\ clock < MaxClock /\ clock' = clock + 1
  /\ UNCHANGED <<ingress, hits, loans, requests>> /\ Recorded

(******************************** the vault ********************************)

LoansOnly(b, t) ==
  /\ loans' = [loans EXCEPT ![b] = t]
  /\ UNCHANGED <<ingress, clock, hits, requests>> /\ Recorded

\* A job looks a click value up; that is its snapshot.
AskClick(b, k) ==
  /\ loans[b].pc = "idle" /\ captured[k] /= NoEvent
  /\ LoansOnly(b, [pc |-> "asked", key |-> k, revision |-> ingress.revision,
                   event |-> captured[k]])

\* _google_click_input with its locks: an endpoint or an event that changed
\* since the snapshot fails the job, which is run again; otherwise the value
\* is lent only while the policy, the purpose and the deadline allow it.
LendClick(b) ==
  /\ loans[b].pc = "asked"
  /\ LET e == loans[b].event IN
     \/ /\ Outdated(loans[b]) \/ captured[loans[b].key] /= e
        /\ LoansOnly(b, Idle)
     \/ /\ ~Outdated(loans[b]) /\ captured[loans[b].key] = e
        /\ \/ /\ e.erased \/ ~ingress.on \/ ingress.purpose /= e.purpose
                 \/ e.until <= clock \/ e.until = NoPolicy
              /\ LoansOnly(b, Idle)
           \/ /\ ~e.erased /\ ingress.on /\ ingress.purpose = e.purpose
              /\ e.until > clock /\ e.until /= NoPolicy
              /\ LoansOnly(b, [loans[b] EXCEPT !.pc = "lent"])

\* The provider answered and the job commits, or it failed.
ReturnClick(b) == loans[b].pc = "lent" /\ LoansOnly(b, Idle)

(******************************************************************************)

Next ==
  \/ \E w \in Handlers :
       \/ \E k \in EventKeys, d \in Digests, v \in Served : Receive(w, k, d, v)
       \/ Again(w) \/ Admit(w) \/ Refuse(w) \/ Ingest(w) \/ Commit(w) \/ Abort(w)
  \/ \E on \in BOOLEAN, p \in Purposes, d \in Days : Reconfigure(on, p, d)
  \/ RotatePublicKey \/ ApplyLegacyRetention \/ Collect \/ Tick
  \/ \E k \in EventKeys : Expire(k)
  \/ \E b \in Borrowers :
       (\E k \in EventKeys : AskClick(b, k)) \/ LendClick(b) \/ ReturnClick(b)

Spec == Init /\ [][Next]_ingressVars

(******************************** properties *******************************)

\* The type invariant.
IngressTypeOK ==
  /\ ingress \in [revision : 1..MaxRevision, on : BOOLEAN, purpose : Purposes, days : Days]
  /\ clock \in Times /\ requests \in 0..MaxRequests
  /\ admissions \in [Times -> 0..MaxRequests]
  /\ captured \in [EventKeys -> Events]
  /\ answers \subseteq EventKeys \X Digests \X Answered

\* However requests are repeated, raced, retried or killed, a key stands for
\* one body: it is accepted for one digest, that digest is the stored one,
\* only it is a duplicate, and only another one is a conflict
\* (_ingest_atomic).
AnswersAgree ==
  \A a \in answers :
    /\ captured[a[1]] /= NoEvent
    /\ a[3] \in {"accepted", "duplicate"} <=> a[2] = captured[a[1]].digest

\* Counting without a shared row lets a burst exceed the ceiling by the
\* concurrent transactions only, in every minute (admission.py, class
\* docstring).
BurstIsBounded == Recent(admissions) <= RateLimit + Cardinality(Handlers) - 1

\* While a provider job holds a click value, the endpoint still allows the
\* capture for the purpose it was taken for and the event has not been erased
\* (_google_click_input, lock=True).
HeldClickIsLawful ==
  \A b \in Borrowers : loans[b].pc = "lent" =>
    LET e == captured[loans[b].key] IN
    ~e.erased /\ ingress.on /\ e.purpose = ingress.purpose /\ e.until /= NoPolicy
=============================================================================
