------------------------------ MODULE LeadPull ------------------------------
(***************************************************************************)
(* marketing_center_meta: the pull that repairs missed Lead Ads callbacks. *)
(*                                                                         *)
(* A route (one Page and Instant Form) is swept page by page by jobs that  *)
(* succeed each other; a sweep longer than MaxPages stops as "partial" and *)
(* the cron goes on with it.  When it ends, last_reconciled_at becomes the *)
(* time of the end, and the next sweep asks for leads created since then,  *)
(* less an overlap.  A history request is a sweep of its own over an older *)
(* period, on the same route row, and leaves last_reconciled_at alone.     *)
(*                                                                         *)
(* A lead is the time it was created at; a cursor is the last lead of a    *)
(* page, 0 where a sweep starts.  The page's transaction locks the route   *)
(* row from its start to its end (page # Idle), so writers of the route    *)
(* wait; profile, App, Page and source are only read, from its snapshot.   *)
(***************************************************************************)
EXTENDS Integers, FiniteSets

CONSTANTS Horizon,         \* bound: last value of the clock
          Overlap,         \* _RECONCILE_OVERLAP
          Lookback,        \* reconcile_lookback_hours
          PageSize,        \* leads on a provider page
          MaxPages,        \* _RECONCILE_MAX_PAGES
          SweepPages,      \* _RECONCILE_SWEEP_MAX_PAGES
          AttemptCeiling,  \* _RECONCILE_ATTEMPT_CEILING
          Histories,       \* history requests an administrator may send
          Jobs, NoJob, NoHistory, Idle,
          MaxDisturbances  \* bound on errors, crashes, lost jobs, reconfigurations

ASSUME PullBounds ==
  /\ \A n \in {Horizon, PageSize, MaxPages, SweepPages, AttemptCeiling} : n \in Nat \ {0}
  /\ Overlap \in Nat /\ Lookback \in Nat /\ MaxDisturbances \in Nat
ASSUME PullNames == NoJob \notin Jobs /\ NoHistory \notin Histories

VARIABLES now, leads,
          route, histories, conf, jobs, page, disturbances,
          seen,  \* leads that have a submission
          began, \* history: when the first page of this sweep was fetched
          late   \* history: an incremental sweep has outlasted the overlap
\* and, in the route's record, floor: the start of the lookback of the sweep that
\* first set last_reconciled_at

pullVars ==
  <<now, leads, route, histories, conf, jobs, page, disturbances, seen, began, late>>

Times == 0..Horizon
RouteStates == {"idle", "queued", "partial", "error", "paused"}
JobStates == {"pending", "done", "failed"}

NoJobData == [state |-> "done", retry |-> 0, rev |-> 0, crev |-> 0,
              since |-> 0, after |-> 0, number |-> 0]

Init ==
  /\ now = 1 /\ leads \in SUBSET {1} /\ seen = {} /\ began = 0 /\ late = FALSE
  /\ route = [state |-> "idle", sweeping |-> FALSE, since |-> 0, after |-> 0,
              visited |-> {}, number |-> 0, job |-> NoJob, watermark |-> 0,
              floor |-> 0, on |-> TRUE, rev |-> 1, history |-> NoHistory]
  /\ histories = [h \in Histories |->
                    [state |-> "draft", since |-> 0, at |-> 0, previous |-> 0]]
  /\ conf = [rev |-> 1, ready |-> TRUE]
  /\ jobs = [j \in Jobs |-> NoJobData]
  /\ page = Idle /\ disturbances = 0

\* running is never committed: the page's transaction ends in another state.
PullTypeOK ==
  /\ now \in Times /\ leads \subseteq Times /\ seen \subseteq leads /\ began \in Times /\ late \in BOOLEAN
  /\ route \in [state : RouteStates, sweeping : BOOLEAN, since : Times, after : Times,
                visited : SUBSET Times, number : Nat, job : Jobs \cup {NoJob}, watermark : Times,
                floor : Times, on : BOOLEAN, rev : Nat, history : Histories \cup {NoHistory}]
  /\ histories \in [Histories ->
       [state : {"draft", "done"} \cup (RouteStates \ {"idle"}),
        since : Times, at : Times, previous : Times]]
  /\ conf \in [rev : Nat, ready : BOOLEAN]
  /\ jobs \in [Jobs -> [state : JobStates, retry : 0..AttemptCeiling, rev : Nat,
                        crev : Nat, since : Times, after : Times, number : Nat]]
  /\ page # Idle => page.job \in Jobs /\ jobs[page.job].state = "pending"

-----------------------------------------------------------------------------
(* The route row.                                                          *)

Less(t, d) == IF t > d THEN t - d ELSE 0

\* Mutated form: a history request that starts again forgets its period.
OrdinarySince ==
  IF route.watermark # 0 THEN Less(route.watermark, Overlap) ELSE Less(now, Lookback)

\* _new_reconcile_since.
NewSince ==
  IF route.history # NoHistory THEN histories[route.history].since
  ELSE IF route.watermark # 0 THEN Less(route.watermark, Overlap)
  ELSE Less(now, Lookback)

\* _continue_reconciliation_sweep; sweeping: reconcile_since is set.
Continuing ==
  route.sweeping /\ (route.state = "partial" \/ route.history # NoHistory)

\* _reconcile_cursor_hashes: a sweep that starts anew is given the hash of the
\* cursor the row still holds.
FirstVisited == {route.after}
CursorHashes == IF Continuing THEN route.visited ELSE FirstVisited

\* What a history request is told when the route's state changes.
Told(r) ==
  IF r.history = NoHistory THEN UNCHANGED histories
  ELSE histories' = [histories EXCEPT ![r.history].state = r.state]

\* _runtime_write.
RuntimeWrite(r) == route' = r /\ Told(r)

\* A uuid nobody refers to any more; which of them does not matter.
Unused == {j \in Jobs : jobs[j].state # "pending" /\ route.job # j}
NewUuid == IF Unused = {} THEN {} ELSE {CHOOSE j \in Unused : TRUE}

NewJob(since, after, number) ==
  [state |-> "pending", retry |-> 0, rev |-> route.rev, crev |-> conf.rev,
   since |-> since, after |-> after, number |-> number]

Done(j) == [jobs EXCEPT ![j] = NoJobData]

CurrentJobActive == route.job # NoJob /\ jobs[route.job].state = "pending"

\* _enqueue_reconciliation on a route, under its row lock.
Enqueued(r, since, after, visited, number) ==
  \E j \in NewUuid :
    /\ jobs' = [jobs EXCEPT ![j] = NewJob(since, after, number)]
    /\ RuntimeWrite([r EXCEPT !.state = "queued", !.sweeping = TRUE, !.since = since,
                              !.after = after, !.visited = visited,
                              !.number = number, !.job = j])

Enqueue ==
  /\ page = Idle /\ route.on /\ ~CurrentJobActive
  /\ IF Continuing
       THEN Enqueued(route, route.since, route.after, CursorHashes, route.number)
       ELSE Enqueued(route, NewSince, 0, CursorHashes, 0)
  /\ UNCHANGED <<now, leads, conf, page, disturbances, seen, began, late>>

\* Mutated form: a sweep that ended in an error is nobody's to take up.
CronSkipsErrors == route.state \in {"idle", "partial"} /\ Enqueue
CronEnqueue == route.state \in {"idle", "partial", "error"} /\ Enqueue
ManualEnqueue == route.state \in {"queued", "paused"} /\ Enqueue

-----------------------------------------------------------------------------
(* The page job.                                                           *)

\* _route_is_current, on a snapshot of the route and of what it refers to.
Fits(j, c) == route.on /\ jobs[j].rev = route.rev /\ c.ready /\ jobs[j].crev = c.rev

\* GET <form>/leads: the newest leads first.
Listing(since, after) == {t \in leads : t >= since /\ (after # 0 => t < after)}
Newest(S) == {t \in S : Cardinality({u \in S : u > t}) < PageSize}
Oldest(S) == CHOOSE t \in S : \A u \in S : t <= u

\* Mutated form: "running" is committed before the provider is asked.
RunningCommitted(j) ==
  /\ page = Idle /\ jobs[j].state = "pending" /\ route.job = j /\ Fits(j, conf)
  /\ page' = [job |-> j, found |-> Listing(jobs[j].since, jobs[j].after)]
  /\ route' = [route EXCEPT !.state = "running"]
  /\ UNCHANGED <<now, leads, histories, conf, jobs, disturbances, seen, began, late>>

\* The row lock is taken, the snapshot fits and the provider is asked.
StartPage(j) ==
  /\ page = Idle /\ jobs[j].state = "pending" /\ route.job = j /\ Fits(j, conf)
  /\ page' = [job |-> j,
              found |-> Listing(jobs[j].since, jobs[j].after)]
  /\ began' = IF jobs[j].after = 0 THEN now ELSE began
  /\ UNCHANGED <<now, leads, route, histories, conf, jobs, disturbances, seen, late>>

\* A job the route has forgotten ends without reading anything.
OrphanJob(j) ==
  /\ page = Idle /\ jobs[j].state = "pending" /\ route.job # j
  /\ jobs' = Done(j)
  /\ UNCHANGED <<now, leads, route, histories, conf, page, disturbances, seen, began, late>>

\* _pause_reconcile_revision.  The second check, after the fetch, reads the
\* same snapshot as the first and never pauses a page.
PauseRevision(j) ==
  /\ page = Idle /\ jobs[j].state = "pending" /\ route.job = j /\ ~Fits(j, conf)
  /\ RuntimeWrite([route EXCEPT !.state = "paused", !.job = NoJob])
  /\ jobs' = Done(j)
  /\ UNCHANGED <<now, leads, conf, page, disturbances, seen, began, late>>

Running == page # Idle
Job == jobs[page.job]
Fetched == Newest(page.found)
HasMore == page.found # Fetched
NextAfter == Oldest(Fetched)

\* Mutated form: the last instant of the period is left out.
ProjectedBefore ==
  IF route.history = NoHistory THEN Fetched
  ELSE {t \in Fetched : t >= histories[route.history].since
                         /\ t < histories[route.history].at}

\* _project_reconcile_leads: a history request takes leads of its period only.
Projected ==
  IF route.history = NoHistory THEN Fetched
  ELSE {t \in Fetched : t \in histories[route.history].since..histories[route.history].at}

PageEnds == page' = Idle /\ UNCHANGED <<now, leads, conf, began, late>>

Disturb == disturbances < MaxDisturbances /\ disturbances' = disturbances + 1
Undisturbed == UNCHANGED disturbances

\* _finish_reconcile_error.
EndsInError ==
  /\ RuntimeWrite([route EXCEPT !.state = "error", !.job = NoJob])
  /\ jobs' = Done(page.job)
  /\ PageEnds

\* The provider's next cursor: the end of the page or, when its pages go round,
\* one it has given before.
Given(cursor) ==
  \/ cursor = NextAfter /\ Undisturbed
  \/ cursor \in route.visited \ {0, Job.after} /\ Disturb

CursorRejected(cursor) ==
  cursor \in route.visited \/ Cardinality(route.visited) >= SweepPages

\* _reconcile_cursor_hashes, continuing: the row's own cursor must be there.
HistoryValid == route.after \in route.visited

\* _advance_reconcile_page.
NextPage(cursor) ==
  IF Job.number + 1 < MaxPages
    THEN \E j \in NewUuid :
           /\ jobs' = [Done(page.job) EXCEPT ![j] =
                         [Job EXCEPT !.retry = 0, !.after = cursor, !.number = @ + 1]]
           /\ RuntimeWrite([route EXCEPT
                !.state = "queued", !.after = cursor, !.visited = @ \cup {cursor},
                !.number = Job.number + 1, !.job = j])
    ELSE /\ jobs' = Done(page.job)
         /\ RuntimeWrite([route EXCEPT
              !.state = "partial", !.after = cursor, !.visited = @ \cup {cursor},
              !.number = 0, !.job = NoJob])

Advance ==
  /\ Running /\ HasMore /\ HistoryValid
  /\ \E cursor \in Times : Given(cursor) /\ ~CursorRejected(cursor) /\ NextPage(cursor)
  /\ seen' = seen \cup Projected
  /\ PageEnds

RejectCursor ==
  /\ Running /\ HasMore /\ HistoryValid
  /\ \E cursor \in Times : Given(cursor) /\ CursorRejected(cursor)
  /\ seen' = seen \cup Projected
  /\ EndsInError

\* ValidationError: the page is rolled back and its job has failed for good.
CursorHistoryInvalid ==
  /\ Running /\ HasMore /\ ~HistoryValid
  /\ jobs' = [jobs EXCEPT ![page.job] = [NoJobData EXCEPT !.state = "failed"]]
  /\ PageEnds /\ Undisturbed
  /\ UNCHANGED <<route, histories, seen>>

\* Mutated form: every sweep sets last_reconciled_at.
AlwaysNow(h) == now

\* A history request puts last_reconciled_at back to what it was.
Watermark(h) == IF h = NoHistory THEN now ELSE histories[h].previous
Floor == IF route.history = NoHistory /\ route.watermark = 0 THEN route.since ELSE route.floor

Finish ==
  /\ Running /\ ~HasMore
  /\ seen' = seen \cup Projected
  /\ route' = [route EXCEPT !.state = "idle", !.sweeping = FALSE, !.since = 0,
                            !.after = 0, !.visited = {}, !.number = 0, !.job = NoJob,
                            !.watermark = Watermark(route.history), !.floor = Floor,
                            !.history = NoHistory]
  /\ IF route.history = NoHistory THEN UNCHANGED histories
       ELSE histories' = [histories EXCEPT ![route.history].state = "done"]
  /\ jobs' = Done(page.job)
  /\ PageEnds /\ Undisturbed

\* A rate limit or a transient error: queue_job counts the postponement, the
\* rest of the page is rolled back.
Retry ==
  /\ Running /\ Job.retry + 1 < AttemptCeiling /\ Disturb
  /\ jobs' = [jobs EXCEPT ![page.job].retry = @ + 1]
  /\ PageEnds
  /\ UNCHANGED <<route, histories, seen>>

\* The attempts are used up, the profile is paused, or the payload is invalid.
FetchFails == Running /\ Disturb /\ UNCHANGED seen /\ EndsInError

-----------------------------------------------------------------------------
(* The surroundings.                                                       *)

\* An ordinary sweep has fetched its first page and not ended.
SweepUnderWay ==
  /\ route.history = NoHistory /\ route.state \in {"queued", "partial"}
  /\ Running \/ route.after # 0

\* The clock; a lead may be created at every tick.
Tick ==
  /\ now < Horizon
  /\ now' = now + 1 /\ leads' \in {leads, leads \cup {now + 1}}
  /\ late' = (late \/ (SweepUnderWay /\ now + 1 > began + Overlap))
  /\ UNCHANGED <<route, histories, conf, jobs, page, disturbances, seen, began>>

\* A worker dies, or PostgreSQL refuses the page: all of it is rolled back.
Crash ==
  /\ Running /\ Disturb /\ page' = Idle
  /\ UNCHANGED <<now, leads, route, histories, conf, jobs, seen, began, late>>

\* The job is cancelled, deleted or fails by an error nobody expected.
LoseJob(j) ==
  /\ jobs[j].state = "pending" /\ (Running => page.job # j) /\ Disturb
  /\ jobs' = [jobs EXCEPT ![j] = [NoJobData EXCEPT !.state = "failed"]]
  /\ UNCHANGED <<now, leads, route, histories, conf, page, seen, began, late>>

\* Profile, App, Page, endpoint or source change, which lock no route.
Reconfigure ==
  /\ Disturb
  /\ conf' \in [rev : {conf.rev, conf.rev + 1}, ready : BOOLEAN] \ {conf}
  /\ UNCHANGED <<now, leads, route, histories, jobs, page, seen, began, late>>

\* write of active, reconcile_enabled, the profile or the source: the sweep is
\* forgotten and the history request, still the route's, is paused.
RouteWrite(on) ==
  /\ page = Idle /\ Disturb
  /\ route' = [route EXCEPT !.state = IF on THEN "idle" ELSE "paused", !.on = on,
                            !.rev = @ + 1, !.sweeping = FALSE, !.since = 0,
                            !.after = 0, !.visited = {}, !.number = 0, !.job = NoJob]
  /\ IF route.history = NoHistory THEN UNCHANGED histories
       ELSE histories' = [histories EXCEPT ![route.history].state = "paused"]
  /\ UNCHANGED <<now, leads, conf, jobs, page, seen, began, late>>

\* action_sync: from the start of the history's period, whatever the route was
\* doing before; the enqueueing that follows continues that sweep.
ActionSync(h) ==
  /\ page = Idle /\ histories[h].state = "draft"
  /\ route.history = NoHistory /\ ~CurrentJobActive
  /\ route.state \notin {"queued", "partial"} /\ route.on /\ conf.ready
  /\ \E since \in 0..now, j \in NewUuid :
       /\ histories' = [histories EXCEPT ![h] =
            [state |-> "queued", since |-> since, at |-> now, previous |-> route.watermark]]
       /\ jobs' = [jobs EXCEPT ![j] = NewJob(since, 0, 0)]
       /\ route' = [route EXCEPT !.state = "queued", !.sweeping = TRUE, !.since = since,
                                 !.after = 0, !.visited = {0}, !.number = 0,
                                 !.job = j, !.history = h]
  /\ UNCHANGED <<now, leads, conf, page, disturbances, seen, began, late>>

Work == \/ CronEnqueue
        \/ \E j \in Jobs : StartPage(j) \/ OrphanJob(j) \/ PauseRevision(j)
        \/ Advance \/ RejectCursor \/ CursorHistoryInvalid \/ Finish

Next ==
  \/ Work \/ Retry \/ FetchFails
  \/ ManualEnqueue \/ Crash \/ Tick \/ Reconfigure
  \/ \E j \in Jobs : LoseJob(j)
  \/ \E on \in BOOLEAN : RouteWrite(on)
  \/ \E h \in Histories : ActionSync(h)

Spec == Init /\ [][Next]_pullVars

\* The cron, the workers and the queue go on; a provider call ends.
FairSpec == Spec /\ WF_pullVars(Work)

-----------------------------------------------------------------------------
(* What the pull is for.                                                   *)

\* Leads the next sweep will not ask for are here: whatever crashes, errors,
\* restarts and history requests came between, last_reconciled_at never passes
\* a lead the pull has not stored, as long as no incremental sweep lasts longer
\* than the overlap.  What came before the first lookback is for the history
\* requests.
CoveredBehindWatermark ==
  route.watermark # 0 /\ ~late =>
    \A t \in leads : t \in route.floor..(Less(route.watermark, Overlap) - 1) => t \in seen

\* A history request that says it is done has stored every lead of its period,
\* also when it was paused, restarted or interrupted in between.
HistoryDelivers ==
  \A h \in Histories : histories[h].state = "done" =>
    leads \cap (histories[h].since..histories[h].at) \subseteq seen

\* The page the route waits for is the next one of its sweep: every lead the
\* sweep has passed is stored, for a history request within its period.  Errors,
\* a lost job or a cursor taken up again by the cron leave no hole.
Passed ==
  LET from == IF route.history = NoHistory THEN route.since
              ELSE histories[route.history].since
      upto == IF route.history = NoHistory THEN began ELSE histories[route.history].at
  IN {t \in leads : t >= from /\ t <= upto /\ t >= route.after}
NoHoleInSweep ==
  route.sweeping /\ route.after # 0 => Passed \subseteq seen

\* No lead is lost: not behind the watermark, not behind a cursor, and not in
\* the period of a finished history request.
NoLeadIsLost == CoveredBehindWatermark /\ NoHoleInSweep /\ HistoryDelivers

\* marketing_center_meta/models/lead_ads.py: the stored hashes are those of the
\* cursors "already visited by the current bounded sweep"; a page that does not
\* find its own cursor among them fails for good.
CursorHistoryValid ==
  route.state = "queued" => route.after \in route.visited

\* A history request sent comes to an end, through provider errors, partial
\* sweeps and crashes, unless the route is reconfigured or its job is lost or
\* fails, which only an administrator can see.
JobFailed == route.job # NoJob /\ jobs[route.job].state = "failed"
HistoryCompletes ==
  \A h \in Histories :
    histories[h].state \in {"queued", "partial", "error"}
      ~> histories[h].state \in {"done", "paused"} \/ JobFailed
=============================================================================
