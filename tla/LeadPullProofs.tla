--------------------------- MODULE LeadPullProofs ---------------------------
(***************************************************************************)
(* Theorems about the pull of Lead Ads, for any clock, overlap, lookback,  *)
(* page size and bounds, any number of history requests and of jobs.       *)
(*                                                                         *)
(* That no lead is lost is not inductive: it rests on the page that is     *)
(* being read being what the route still waits for (PageHolds), on the     *)
(* job carrying the route's cursor (JobCarries), on the sweep starting     *)
(* where the last one or the history's period does (Periods), and on what  *)
(* the clock says of all of them (Clocks, InTime).                         *)
(***************************************************************************)
EXTENDS LeadPull, FiniteSetTheorems, WellFoundedInduction, TLAPS

RouteRecord ==
  [state : RouteStates, sweeping : BOOLEAN, since : Times, after : Times,
   visited : SUBSET Times, number : Nat, job : Jobs \cup {NoJob}, watermark : Times,
   floor : Times, on : BOOLEAN, rev : Nat, history : Histories \cup {NoHistory}]
HistoryRecord ==
  [state : {"draft", "done"} \cup (RouteStates \ {"idle"}),
   since : Times, at : Times, previous : Times]
JobRecord ==
  [state : JobStates, retry : 0..AttemptCeiling, rev : Nat, crev : Nat,
   since : Times, after : Times, number : Nat]

\* The job the route waits for is at the route's cursor.
JobCarries ==
  \A j \in Jobs : route.job = j /\ jobs[j].state = "pending" =>
    /\ jobs[j].since = route.since /\ jobs[j].after = route.after
    /\ route.state = "queued" /\ route.sweeping

\* The page that was fetched is, of the leads there are now, what the sweep has
\* not passed: leads that were created meanwhile are newer.
Unread ==
  {t \in leads : /\ t >= route.since
                 /\ IF route.after # 0 THEN t < route.after ELSE t <= began}
PageHolds ==
  Running =>
    /\ route.job = page.job /\ page.found = Unread
    /\ route.history # NoHistory /\ route.after = 0 => histories[route.history].at <= began

Clocks ==
  /\ now >= 1 /\ leads \subseteq 0..now /\ began <= now
  /\ route.after <= now /\ route.watermark <= now
  /\ \A h \in Histories : histories[h].at <= now

\* An ordinary sweep starts where the last one ended, a history request where its
\* period starts; last_reconciled_at is what the request will put back.
Periods ==
  /\ route.sweeping /\ route.history = NoHistory /\ route.watermark # 0 =>
       route.since = Less(route.watermark, Overlap)
  /\ route.history # NoHistory =>
       /\ histories[route.history].state \notin {"draft", "done"}
       /\ histories[route.history].previous = route.watermark
       /\ route.sweeping => route.since = histories[route.history].since

InTime == SweepUnderWay /\ ~late => now <= began + Overlap

Inv ==
  /\ PullTypeOK /\ Clocks /\ JobCarries /\ PageHolds /\ Periods /\ InTime
  /\ CoveredBehindWatermark /\ NoHoleInSweep /\ HistoryDelivers

-----------------------------------------------------------------------------
(* Types and numbers.                                                      *)

LEMMA Bounds ==
  /\ Horizon \in Nat \ {0} /\ PageSize \in Nat \ {0} /\ AttemptCeiling \in Nat \ {0}
  /\ Overlap \in Nat /\ Lookback \in Nat /\ MaxDisturbances \in Nat
  /\ NoJob \notin Jobs /\ NoHistory \notin Histories
<1>1. \A n \in {Horizon, PageSize, MaxPages, SweepPages, AttemptCeiling} : n \in Nat \ {0}
  BY PullBounds
<1>2. /\ Horizon \in {Horizon, PageSize, MaxPages, SweepPages, AttemptCeiling}
      /\ PageSize \in {Horizon, PageSize, MaxPages, SweepPages, AttemptCeiling}
      /\ AttemptCeiling \in {Horizon, PageSize, MaxPages, SweepPages, AttemptCeiling}
  OBVIOUS
<1> QED BY <1>1, <1>2, PullBounds, PullNames

LEMMA TimesAreNat == Times \subseteq Nat /\ 0 \in Times /\ 1 \in Times /\ IsFiniteSet(Times)
<1>1. Times \subseteq Nat /\ 0 \in Times /\ 1 \in Times
  BY Bounds DEF Times
<1>2. IsFiniteSet(Times)
  BY Bounds, FS_Interval DEF Times
<1> QED BY <1>1, <1>2

LEMMA LessFacts ==
  ASSUME NEW t \in Times, NEW d \in Nat
  PROVE  Less(t, d) \in Times /\ Less(t, d) <= t /\ (Less(t, d) # 0 => Less(t, d) + d = t)
BY Bounds, TimesAreNat DEF Less, Times

LEMMA TypeFacts ==
  ASSUME PullTypeOK
  PROVE  /\ now \in Times /\ leads \subseteq Times /\ seen \subseteq leads
         /\ began \in Times /\ late \in BOOLEAN
         /\ route \in RouteRecord /\ histories \in [Histories -> HistoryRecord]
         /\ conf \in [rev : Nat, ready : BOOLEAN] /\ jobs \in [Jobs -> JobRecord]
         /\ Running => page.job \in Jobs /\ jobs[page.job].state = "pending"
BY DEF PullTypeOK, RouteRecord, HistoryRecord, JobRecord, Running

\* A set of numbers that is not empty has a least and, in the past, a last one.
LEMMA LeastExists ==
  ASSUME NEW S \in SUBSET Times, S # {}
  PROVE  \E t \in S : \A u \in S : t <= u
<1>1. S \subseteq Nat
  BY TimesAreNat
<1> DEFINE Below == OpToRel(<, Nat)
<1>2. IsWellFoundedOn(Below, Nat)
  BY NatLessThanWellFounded
<1>a. \A u, t \in S : <<u, t>> \in Below <=> u < t
  BY <1>1 DEF OpToRel
<1> HIDE DEF Below
<1>b. \E t \in S : \A u \in S : ~(<<u, t>> \in Below)
  BY <1>1, <1>2, WFMin
<1>3. PICK t \in S : \A u \in S : ~(<<u, t>> \in Below)
  BY <1>b
<1>4. \A u \in S : ~(u < t)
  BY <1>a, <1>3
<1>5. \A u \in S : t <= u
  BY <1>1, <1>4
<1> QED BY <1>5

LEMMA LastExists ==
  ASSUME NEW S \in SUBSET Times, S # {}
  PROVE  \E t \in S : \A u \in S : u <= t
<1> DEFINE T == {Horizon - t : t \in S}
<1>1. T \in SUBSET Times /\ T # {}
  <2>1. \A t \in Times : Horizon - t \in Times
    BY Bounds DEF Times
  <2> QED BY <2>1
<1>2. PICK m \in T : \A u \in T : m <= u
  BY <1>1, LeastExists
<1>3. PICK t \in S : m = Horizon - t
  BY <1>2
<1>4. \A u \in S : Horizon - t <= Horizon - u
  BY <1>2, <1>3
<1>5. \A u \in S : u <= t
  BY <1>4, Bounds, TimesAreNat
<1> QED BY <1>5

\* A provider page holds the newest leads of what is listed; the next cursor is
\* one of them.
LEMMA PageFacts ==
  ASSUME NEW S \in SUBSET Times
  PROVE  /\ Newest(S) \subseteq S
         /\ \A f \in Newest(S), t \in S : t >= f => t \in Newest(S)
         /\ S # {} => Oldest(Newest(S)) \in Newest(S)
<1>1. IsFiniteSet(S)
  BY TimesAreNat, FS_Subset
<1>2. ASSUME NEW f \in Newest(S), NEW t \in S, t >= f
      PROVE  t \in Newest(S)
  <2> DEFINE later == {u \in S : u > t}
             further == {u \in S : u > f}
  <2>1. later \in SUBSET further /\ further \in SUBSET S
    <3>1. \A u \in S : u \in Nat /\ t \in Nat /\ f \in Nat
      BY <1>2, TimesAreNat DEF Newest
    <3> QED BY <1>2, <3>1
  <2>2. Cardinality(further) < PageSize
    BY <1>2 DEF Newest
  <2> HIDE DEF later, further
  <2>3. IsFiniteSet(further) /\ IsFiniteSet(later)
    BY <1>1, <2>1, FS_Subset
  <2>4. /\ Cardinality(later) <= Cardinality(further)
        /\ Cardinality(later) \in Nat /\ Cardinality(further) \in Nat
    BY <2>1, <2>3, FS_Subset, FS_CardinalityType
  <2>5. Cardinality(later) < PageSize
    BY <2>2, <2>4, Bounds
  <2> QED BY <1>2, <2>5 DEF Newest, later
<1>3. ASSUME S # {} PROVE Oldest(Newest(S)) \in Newest(S)
  <2>1. PICK t \in S : \A u \in S : u <= t
    BY <1>3, LastExists
  <2>2. {u \in S : u > t} = {}
    <3>1. \A u \in S : u \in Nat /\ t \in Nat
      BY TimesAreNat
    <3>2. \A u \in S : ~(u > t)
      BY <2>1, <3>1
    <3> QED BY <3>2
  <2>3. t \in Newest(S)
    <3>1. Cardinality({u \in S : u > t}) = 0
      BY <2>2, FS_EmptySet
    <3> QED BY <3>1, Bounds DEF Newest
  <2>4. Newest(S) \in SUBSET Times /\ Newest(S) # {}
    BY <2>3 DEF Newest
  <2>5. \E o \in Newest(S) : \A u \in Newest(S) : o <= u
    BY <2>4, LeastExists
  <2> QED BY <2>5 DEF Oldest
<1> QED BY <1>2, <1>3 DEF Newest

-----------------------------------------------------------------------------
(* Steps that leave the route and its histories alone.                     *)

LEMMA RowsStay ==
  ASSUME Inv, UNCHANGED <<now, leads, route, histories, seen, began, late>>, PullTypeOK',
         \A j \in Jobs : jobs'[j].state = "pending" =>
           jobs[j].state = "pending" /\ jobs'[j].since = jobs[j].since /\ jobs'[j].after = jobs[j].after,
         page' = Idle \/ page' = page
  PROVE  Inv'
<1>1. Clocks' /\ Periods'
  BY DEF Inv, Clocks, Periods
<1>2. JobCarries'
  BY DEF Inv, JobCarries
<1>3. PageHolds'
  BY DEF Inv, PageHolds, Running, Unread
<1>4. InTime'
  BY DEF Inv, InTime, SweepUnderWay, Running
<1>5. CoveredBehindWatermark' /\ NoHoleInSweep' /\ HistoryDelivers'
  BY DEF Inv, CoveredBehindWatermark, NoHoleInSweep, HistoryDelivers, Passed, Less
<1> QED BY <1>1, <1>2, <1>3, <1>4, <1>5 DEF Inv

LEMMA JobEnds ==
  ASSUME PullTypeOK, NEW j \in Jobs, NEW state \in {"done", "failed"},
         jobs' = [jobs EXCEPT ![j] = [NoJobData EXCEPT !.state = state]]
  PROVE  /\ jobs' \in [Jobs -> JobRecord] /\ jobs'[j].state = state
         /\ \A k \in Jobs \ {j} : jobs'[k] = jobs[k]
<1> DEFINE ended == [NoJobData EXCEPT !.state = state]
<1>1. ended \in JobRecord /\ ended.state = state
  BY TimesAreNat, Bounds DEF NoJobData, JobRecord, JobStates
<1>2. jobs \in [Jobs -> JobRecord]
  BY TypeFacts
<1> HIDE DEF ended
<1>3. jobs' = [jobs EXCEPT ![j] = ended]
  BY DEF ended
<1> QED BY <1>1, <1>2, <1>3

LEMMA DoneFacts ==
  ASSUME PullTypeOK, NEW j \in Jobs, jobs' = Done(j)
  PROVE  /\ jobs' \in [Jobs -> JobRecord] /\ jobs'[j].state = "done"
         /\ \A k \in Jobs \ {j} : jobs'[k] = jobs[k]
<1>1. Done(j) = [jobs EXCEPT ![j] = [NoJobData EXCEPT !.state = "done"]]
  BY DEF Done, NoJobData
<1> QED BY <1>1, JobEnds

LEMMA QuietSteps ==
  ASSUME Inv,
         \/ \E j \in Jobs : OrphanJob(j) \/ LoseJob(j)
         \/ Crash \/ Reconfigure \/ Retry \/ CursorHistoryInvalid
  PROVE  Inv'
<1>1. PullTypeOK
  BY DEF Inv
<1>2. ASSUME NEW j \in Jobs, OrphanJob(j) PROVE Inv'
  <2>1. /\ jobs' \in [Jobs -> JobRecord] /\ jobs'[j].state = "done"
        /\ \A k \in Jobs \ {j} : jobs'[k] = jobs[k]
    BY <1>1, <1>2, DoneFacts DEF OrphanJob
  <2>2. PullTypeOK'
    BY <1>1, <1>2, <2>1 DEF PullTypeOK, JobRecord, OrphanJob
  <2>3. \A k \in Jobs : jobs'[k].state = "pending" => jobs'[k] = jobs[k]
    BY <2>1
  <2> QED BY <1>2, <2>2, <2>3, RowsStay DEF OrphanJob
<1>3. ASSUME NEW j \in Jobs, LoseJob(j) PROVE Inv'
  <2>1. /\ jobs' \in [Jobs -> JobRecord] /\ jobs'[j].state = "failed"
        /\ \A k \in Jobs \ {j} : jobs'[k] = jobs[k]
    BY <1>1, <1>3, JobEnds DEF LoseJob
  <2>2. page # Idle => page.job \in Jobs \ {j}
    BY <1>1, <1>3 DEF PullTypeOK, LoseJob, Running
  <2>3. PullTypeOK'
    BY <1>1, <1>3, <2>1, <2>2 DEF PullTypeOK, JobRecord, LoseJob
  <2>4. \A k \in Jobs : jobs'[k].state = "pending" => jobs'[k] = jobs[k]
    BY <2>1
  <2> QED BY <1>3, <2>3, <2>4, RowsStay DEF LoseJob
<1>4. CASE Crash
  <2>1. PullTypeOK'
    BY <1>1, <1>4 DEF PullTypeOK, Crash
  <2> QED BY <1>4, <2>1, RowsStay DEF Crash
<1>5. CASE Reconfigure
  <2>1. PullTypeOK'
    BY <1>1, <1>5 DEF PullTypeOK, Reconfigure
  <2> QED BY <1>5, <2>1, RowsStay DEF Reconfigure
<1>6. CASE Retry
  <2>1. page.job \in Jobs /\ jobs \in [Jobs -> JobRecord]
    BY <1>1, <1>6, TypeFacts DEF Retry
  <2> DEFINE j == page.job
             again == [jobs[j] EXCEPT !.retry = @ + 1]
  <2>2. /\ again \in JobRecord /\ again.state = jobs[j].state
        /\ again.since = jobs[j].since /\ again.after = jobs[j].after
    BY <1>6, <2>1, Bounds DEF Retry, Job, JobRecord
  <2>3. jobs' = [jobs EXCEPT ![j] = again]
    BY <1>6 DEF Retry
  <2> HIDE DEF again
  <2>4. /\ jobs' \in [Jobs -> JobRecord] /\ jobs'[j] = again
        /\ \A k \in Jobs \ {j} : jobs'[k] = jobs[k]
    BY <2>1, <2>2, <2>3
  <2>5. PullTypeOK'
    BY <1>1, <1>6, <2>4 DEF PullTypeOK, JobRecord, Retry, PageEnds
  <2>6. \A k \in Jobs : jobs'[k].state = jobs[k].state /\ jobs'[k].since = jobs[k].since
                        /\ jobs'[k].after = jobs[k].after
    BY <2>2, <2>4
  <2> QED BY <1>6, <2>5, <2>6, RowsStay DEF Retry, PageEnds
<1>7. CASE CursorHistoryInvalid
  <2>1. page.job \in Jobs
    BY <1>1, <1>7, TypeFacts DEF CursorHistoryInvalid
  <2>2. /\ jobs' \in [Jobs -> JobRecord] /\ jobs'[page.job].state = "failed"
        /\ \A k \in Jobs \ {page.job} : jobs'[k] = jobs[k]
    BY <1>1, <1>7, <2>1, JobEnds DEF CursorHistoryInvalid
  <2>3. PullTypeOK'
    BY <1>1, <1>7, <2>2 DEF PullTypeOK, JobRecord, CursorHistoryInvalid, PageEnds
  <2>4. \A k \in Jobs : jobs'[k].state = "pending" => jobs'[k] = jobs[k]
    BY <2>2
  <2> QED BY <1>7, <2>3, <2>4, RowsStay DEF CursorHistoryInvalid, PageEnds
<1> QED BY <1>2, <1>3, <1>4, <1>5, <1>6, <1>7

\* What is fetched is what the sweep has not passed: for the first page, whatever
\* was created until now.
LEMMA StartPreserves ==
  ASSUME Inv, NEW j \in Jobs, StartPage(j) PROVE Inv'
<1> USE TimesAreNat
<1>1. PullTypeOK /\ route.job = j /\ jobs[j].state = "pending"
  BY DEF Inv, StartPage
<1>2. /\ jobs[j].since = route.since /\ jobs[j].after = route.after
      /\ route.state = "queued" /\ route.sweeping
  BY <1>1 DEF Inv, JobCarries
<1>3. /\ UNCHANGED <<now, leads, route, histories, conf, jobs, disturbances, seen, late>>
      /\ began' = IF route.after = 0 THEN now ELSE began
      /\ page'.job = j /\ page'.found = Listing(route.since, route.after)
  BY <1>2 DEF StartPage
<1>4. /\ leads \subseteq Times /\ now \in Times /\ began \in Times /\ route.after \in Times
  BY <1>1, TypeFacts DEF RouteRecord
<1>5. PullTypeOK'
  BY <1>1, <1>3, <1>4 DEF PullTypeOK, StartPage
<1>6. Clocks' /\ JobCarries' /\ Periods'
  BY <1>3, <1>4 DEF Inv, Clocks, JobCarries, Periods
<1>7. PageHolds'
  <2>1. page'.found = Unread'
    <3>1. \A t \in leads : t <= now
      BY <1>4 DEF Inv, Clocks
    <3>2. Unread' = {t \in leads : /\ t >= route.since
                                   /\ IF route.after # 0 THEN t < route.after ELSE t <= began'}
      BY <1>3 DEF Unread
    <3>3. CASE route.after = 0
      BY <1>3, <3>1, <3>2, <3>3 DEF Listing
    <3>4. CASE route.after # 0
      BY <1>3, <3>2, <3>4 DEF Listing
    <3> QED BY <3>3, <3>4
  <2>2. \A h \in Histories : histories[h].at <= now
    BY DEF Inv, Clocks
  <2>3. route.history # NoHistory => route.history \in Histories
    BY <1>1, TypeFacts DEF RouteRecord
  <2> QED BY <1>1, <1>3, <2>1, <2>2, <2>3 DEF PageHolds
<1>8. InTime'
  <2>1. CASE route.after = 0
    BY <1>3, <1>4, <2>1, Bounds DEF InTime
  <2>2. CASE route.after # 0
    BY <1>2, <1>3, <2>2 DEF Inv, InTime, SweepUnderWay
  <2> QED BY <2>1, <2>2
<1>9. CoveredBehindWatermark' /\ HistoryDelivers'
  BY <1>3 DEF Inv, CoveredBehindWatermark, HistoryDelivers, Less
<1>10. NoHoleInSweep'
  BY <1>3 DEF Inv, NoHoleInSweep, Passed
<1> QED BY <1>5, <1>6, <1>7, <1>8, <1>9, <1>10 DEF Inv

-----------------------------------------------------------------------------
(* Steps of the route.                                                     *)

\* The history request of the route is told its state, and keeps its period.
Follow(state) ==
  /\ histories' \in [Histories -> HistoryRecord]
  /\ \A h \in Histories :
       /\ histories'[h].since = histories[h].since /\ histories'[h].at = histories[h].at
       /\ histories'[h].previous = histories[h].previous
       /\ histories'[h].state = IF h = route.history THEN state ELSE histories[h].state

LEMMA ToldFacts ==
  ASSUME PullTypeOK, NEW r, r.history = route.history, r.state \in RouteStates \ {"idle"}, Told(r)
  PROVE  Follow(r.state)
<1>1. histories \in [Histories -> HistoryRecord] /\ route.history \in Histories \cup {NoHistory}
  BY TypeFacts DEF RouteRecord
<1>2. CASE route.history = NoHistory
  BY <1>1, <1>2, Bounds DEF Told, Follow
<1>3. CASE route.history # NoHistory
  <2> DEFINE h == route.history
             told == [histories[h] EXCEPT !.state = r.state]
  <2>1. h \in Histories /\ histories' = [histories EXCEPT ![h] = told]
    BY <1>1, <1>3 DEF Told
  <2>2. /\ told \in HistoryRecord /\ told.state = r.state /\ told.since = histories[h].since
        /\ told.at = histories[h].at /\ told.previous = histories[h].previous
    BY <1>1, <2>1 DEF HistoryRecord
  <2> HIDE DEF told, h
  <2>3. histories'[h] = told /\ \A k \in Histories \ {h} : histories'[k] = histories[k]
    BY <1>1, <2>1
  <2>4. histories' \in [Histories -> HistoryRecord]
    BY <1>1, <2>1, <2>2
  <2> QED BY <2>2, <2>3, <2>4 DEF Follow, h
<1> QED BY <1>2, <1>3

\* The periods of the histories stay, and those that are done were done before.
LEMMA FollowKeeps ==
  ASSUME Inv, NEW state \in RouteStates \ {"idle"}, Follow(state), UNCHANGED <<now, leads>>,
         seen \subseteq seen'
  PROVE  HistoryDelivers' /\ \A h \in Histories : histories'[h].at <= now'
<1>1. \A h \in Histories : histories'[h].state = "done" => histories[h].state = "done"
  BY DEF Follow, RouteStates
<1> QED BY <1>1 DEF Inv, HistoryDelivers, Clocks, Follow

LEMMA StopPreserves ==
  ASSUME Inv, NEW state \in {"paused", "error"}, NEW j \in Jobs,
         RuntimeWrite([route EXCEPT !.state = state, !.job = NoJob]), jobs' = Done(j),
         page' = Idle, seen \subseteq seen', seen' \subseteq leads,
         UNCHANGED <<now, leads, conf, began, late>>
  PROVE  Inv'
<1> DEFINE new == [route EXCEPT !.state = state, !.job = NoJob]
<1>1. PullTypeOK /\ route \in RouteRecord
  BY TypeFacts DEF Inv
<1>2. /\ new \in RouteRecord /\ new.state = state /\ new.job = NoJob
      /\ new.sweeping = route.sweeping /\ new.since = route.since /\ new.after = route.after
      /\ new.watermark = route.watermark /\ new.floor = route.floor
      /\ new.history = route.history
  BY <1>1 DEF RouteRecord, RouteStates
<1>3. route' = new /\ Told(new)
  BY DEF RuntimeWrite
<1> HIDE DEF new
<1>4. state \in RouteStates \ {"idle"}
  BY DEF RouteStates
<1>5. Follow(state)
  BY <1>1, <1>2, <1>3, <1>4, ToldFacts
<1>6. PullTypeOK'
  <2>1. jobs' \in [Jobs -> JobRecord]
    BY <1>1, DoneFacts
  <2> QED BY <1>1, <1>2, <1>3, <1>5, <2>1
      DEF PullTypeOK, RouteRecord, HistoryRecord, JobRecord, Follow
<1>7. Clocks'
  BY <1>2, <1>3, <1>4, <1>5, FollowKeeps DEF Inv, Clocks
<1>8. JobCarries' /\ PageHolds'
  BY <1>2, <1>3, Bounds DEF JobCarries, PageHolds, Running
<1>9. Periods'
  <2>1. route.history # NoHistory => route.history \in Histories
    BY <1>1 DEF RouteRecord
  <2> QED BY <1>2, <1>3, <1>5, <2>1 DEF Inv, Periods, Follow, Less
<1>10. InTime'
  BY <1>2, <1>3 DEF InTime, SweepUnderWay
<1>11. CoveredBehindWatermark'
  BY <1>2, <1>3 DEF Inv, CoveredBehindWatermark, Less
<1>12. NoHoleInSweep'
  <2>1. route.history # NoHistory => route.history \in Histories
    BY <1>1 DEF RouteRecord
  <2>2. Passed' = Passed
    BY <1>2, <1>3, <1>5, <2>1 DEF Passed, Follow
  <2> QED BY <1>2, <1>3, <2>2 DEF Inv, NoHoleInSweep
<1> QED BY <1>4, <1>5, <1>6, <1>7, <1>8, <1>9, <1>10, <1>11, <1>12, FollowKeeps DEF Inv

LEMMA PagesStored ==
  ASSUME Inv, Running
  PROVE  /\ page.job \in Jobs /\ jobs[page.job].state = "pending" /\ route.job = page.job
         /\ Job.since = route.since /\ Job.after = route.after
         /\ route.state = "queued" /\ route.sweeping
         /\ page.found = Unread /\ page.found \in SUBSET Times
         /\ Fetched \subseteq page.found /\ Projected \subseteq leads
<1>1. PullTypeOK /\ page.job \in Jobs /\ jobs[page.job].state = "pending" /\ leads \subseteq Times
  BY TypeFacts DEF Inv
<1>2. route.job = page.job /\ page.found = Unread
  BY DEF Inv, PageHolds
<1>3. page.found \subseteq leads
  BY <1>2 DEF Unread
<1>4. Fetched \subseteq page.found
  BY DEF Fetched, Newest
<1>5. Projected \subseteq Fetched
  BY DEF Projected
<1> QED BY <1>1, <1>2, <1>3, <1>4, <1>5 DEF Inv, JobCarries, Job

LEMMA StoppingSteps ==
  ASSUME Inv, (\E j \in Jobs : PauseRevision(j)) \/ RejectCursor \/ FetchFails
  PROVE  Inv'
<1>1. ASSUME NEW j \in Jobs, PauseRevision(j) PROVE Inv'
  <2>1. seen \subseteq leads
    BY DEF Inv, PullTypeOK
  <2> QED BY <1>1, <2>1, StopPreserves DEF PauseRevision
<1>2. ASSUME Running, EndsInError, seen \subseteq seen', seen' \subseteq leads PROVE Inv'
  <2>1. page.job \in Jobs
    BY <1>2, PagesStored
  <2> QED BY <1>2, <2>1, StopPreserves DEF EndsInError, PageEnds
<1>3. CASE RejectCursor
  <2>1. seen' = seen \cup Projected /\ Running /\ EndsInError
    BY <1>3 DEF RejectCursor
  <2>2. seen' \subseteq leads
    BY <2>1, PagesStored DEF Inv, PullTypeOK
  <2> QED BY <1>2, <2>1, <2>2
<1>4. CASE FetchFails
  BY <1>2, <1>4 DEF FetchFails, Inv, PullTypeOK
<1> QED BY <1>1, <1>3, <1>4

-----------------------------------------------------------------------------
(* The clock, and the administrator.                                       *)

\* A lead that is created now is newer than whatever was fetched, requested or
\* finished before.
LEMMA TickPreserves ==
  ASSUME Inv, Tick PROVE Inv'
<1> USE TimesAreNat
<1>1. /\ PullTypeOK /\ now \in Nat /\ now' = now + 1 /\ now' \in Times
      /\ leads \subseteq leads' /\ leads' \subseteq leads \cup {now'}
  BY TypeFacts, Bounds DEF Inv, Tick, Times
<1>2. /\ UNCHANGED <<route, histories, conf, jobs, page, disturbances, seen, began>>
      /\ late' = (late \/ (SweepUnderWay /\ now' > began + Overlap))
  BY DEF Tick
<1>3. /\ route \in RouteRecord /\ histories \in [Histories -> HistoryRecord]
      /\ leads \subseteq 0..now /\ began \in Nat /\ began < now'
      /\ route.after \in Nat /\ route.after < now'
      /\ route.watermark \in Nat /\ route.watermark < now'
      /\ \A h \in Histories : histories[h].at \in Nat /\ histories[h].at < now'
  <2>1. \A h \in Histories : histories[h].at \in Nat /\ histories[h].at < now'
    <3> SUFFICES ASSUME NEW h \in Histories
                 PROVE  histories[h].at \in Nat /\ histories[h].at < now'
      OBVIOUS
    <3>1. histories[h] \in HistoryRecord
      BY <1>1, TypeFacts
    <3>2. histories[h].at \in Nat /\ histories[h].at <= now
      BY <3>1 DEF Inv, Clocks, HistoryRecord
    <3> QED BY <1>1, <3>2
  <2>2. route \in RouteRecord /\ route.after \in Nat /\ route.watermark \in Nat /\ began \in Nat
    BY <1>1, TypeFacts DEF RouteRecord
  <2> QED BY <1>1, <2>1, <2>2, TypeFacts DEF Inv, Clocks
<1>4. PullTypeOK'
  <2>1. leads' \subseteq Times /\ seen' \subseteq leads' /\ late' \in BOOLEAN
    BY <1>1, <1>2, TypeFacts
  <2> QED BY <1>1, <1>2, <2>1 DEF PullTypeOK
<1>5. Clocks'
  <2>1. leads' \subseteq 0..now'
    BY <1>1, <1>3
  <2> QED BY <1>1, <1>2, <1>3, <2>1 DEF Inv, Clocks
<1>6. JobCarries' /\ Periods'
  BY <1>2 DEF Inv, JobCarries, Periods, Less
<1>7. PageHolds'
  <2>1. Unread' = Unread
    <3>1. IF route.after # 0 THEN ~(now' < route.after) ELSE ~(now' <= began)
      BY <1>1, <1>3
    <3> QED BY <1>1, <1>2, <3>1 DEF Unread
  <2> QED BY <1>2, <2>1 DEF Inv, PageHolds, Running
<1>8. InTime'
  <2>1. SweepUnderWay' <=> SweepUnderWay
    BY <1>2 DEF SweepUnderWay, Running
  <2> SUFFICES ASSUME SweepUnderWay', ~late' PROVE now' <= began' + Overlap
    BY DEF InTime
  <2>2. ~(now' > began + Overlap)
    BY <1>2, <2>1
  <2> QED BY <1>1, <1>2, <1>3, <2>2, Bounds
<1>9. CoveredBehindWatermark'
  <2> SUFFICES ASSUME route.watermark # 0, ~late, NEW t \in leads',
                      t \in route.floor..(Less(route.watermark, Overlap) - 1)
               PROVE  t \in seen
    BY <1>2 DEF CoveredBehindWatermark, Less
  <2>1. Less(route.watermark, Overlap) <= route.watermark /\ Less(route.watermark, Overlap) \in Nat
    BY <1>1, TypeFacts, Bounds, LessFacts DEF RouteRecord
  <2>2. t \in leads
    BY <1>1, <1>3, <2>1
  <2> QED BY <2>2 DEF Inv, CoveredBehindWatermark
<1>10. HistoryDelivers'
  <2> SUFFICES ASSUME NEW h \in Histories, histories[h].state = "done",
                      NEW t \in leads', t \in histories[h].since..histories[h].at
               PROVE  t \in seen
    BY <1>2 DEF HistoryDelivers
  <2>1. t \in leads
    BY <1>1, <1>3
  <2> QED BY <2>1 DEF Inv, HistoryDelivers
<1>11. NoHoleInSweep'
  <2> SUFFICES ASSUME route.sweeping, route.after # 0, NEW t \in Passed' PROVE t \in seen
    BY <1>2 DEF NoHoleInSweep
  <2>1. route.history # NoHistory => route.history \in Histories
    BY <1>3 DEF RouteRecord
  <2>2. t \in leads
    BY <1>1, <1>2, <1>3, <2>1 DEF Passed
  <2>3. t \in Passed
    BY <1>2, <2>2 DEF Passed
  <2> QED BY <2>3 DEF Inv, NoHoleInSweep
<1> QED BY <1>4, <1>5, <1>6, <1>7, <1>8, <1>9, <1>10, <1>11 DEF Inv

LEMMA RouteWritePreserves ==
  ASSUME Inv, NEW on \in BOOLEAN, RouteWrite(on) PROVE Inv'
<1> USE TimesAreNat
<1> DEFINE new == [route EXCEPT !.state = IF on THEN "idle" ELSE "paused", !.on = on,
                     !.rev = @ + 1, !.sweeping = FALSE, !.since = 0,
                     !.after = 0, !.visited = {}, !.number = 0, !.job = NoJob]
<1>1. PullTypeOK /\ route \in RouteRecord /\ histories \in [Histories -> HistoryRecord]
  BY TypeFacts DEF Inv
<1>2. /\ new \in RouteRecord /\ new.sweeping = FALSE /\ new.after = 0 /\ new.job = NoJob
      /\ new.watermark = route.watermark /\ new.floor = route.floor
      /\ new.history = route.history /\ new.state \in {"idle", "paused"}
  <2> DEFINE state == IF on THEN "idle" ELSE "paused"
  <2>1. state \in {"idle", "paused"} /\ {"idle", "paused"} \subseteq RouteStates
    BY DEF RouteStates
  <2> HIDE DEF state
  <2>2. new = [route EXCEPT !.state = state, !.on = on, !.rev = @ + 1, !.sweeping = FALSE,
                            !.since = 0, !.after = 0, !.visited = {}, !.number = 0, !.job = NoJob]
    BY DEF state
  <2> HIDE DEF new
  <2>3. route.rev + 1 \in Nat /\ {} \in SUBSET Times /\ 0 \in Times /\ state \in RouteStates
    BY <1>1, <2>1 DEF RouteRecord
  <2>4. new \in RouteRecord
    BY <1>1, <2>2, <2>3 DEF RouteRecord
  <2>5. /\ new.sweeping = FALSE /\ new.after = 0 /\ new.job = NoJob /\ new.state = state
        /\ new.watermark = route.watermark /\ new.floor = route.floor
        /\ new.history = route.history
    BY <1>1, <2>2 DEF RouteRecord
  <2> QED BY <2>1, <2>4, <2>5
<1>3. /\ route' = new /\ page = Idle
      /\ UNCHANGED <<now, leads, conf, jobs, page, seen, began, late>>
  BY DEF RouteWrite
<1> HIDE DEF new
<1>4. Follow("paused")
  <2>1. Told([route EXCEPT !.state = "paused"])
    BY <1>1 DEF RouteWrite, Told, RouteRecord
  <2>2. /\ [route EXCEPT !.state = "paused"].state = "paused"
        /\ [route EXCEPT !.state = "paused"].history = route.history
    BY <1>1 DEF RouteRecord
  <2> QED BY <1>1, <2>1, <2>2, ToldFacts DEF RouteStates
<1>5. PullTypeOK'
  BY <1>1, <1>2, <1>3, <1>4 DEF PullTypeOK, RouteRecord, HistoryRecord, JobRecord, Follow
<1>6. HistoryDelivers' /\ \A h \in Histories : histories'[h].at <= now'
  BY <1>3, <1>4, FollowKeeps DEF RouteStates
<1>7. Clocks'
  <2>1. now \in Nat
    BY <1>1, TypeFacts
  <2> QED BY <1>2, <1>3, <1>6, <2>1 DEF Inv, Clocks
<1>8. JobCarries' /\ PageHolds' /\ NoHoleInSweep'
  BY <1>2, <1>3, Bounds DEF JobCarries, PageHolds, Running, NoHoleInSweep
<1>9. Periods'
  <2>1. route.history # NoHistory => route.history \in Histories
    BY <1>1 DEF RouteRecord
  <2> QED BY <1>2, <1>3, <1>4, <2>1 DEF Inv, Periods, Follow
<1>10. InTime' /\ CoveredBehindWatermark'
  BY <1>2, <1>3 DEF Inv, InTime, SweepUnderWay, Running, CoveredBehindWatermark, Less
<1> QED BY <1>5, <1>6, <1>7, <1>8, <1>9, <1>10 DEF Inv

LEMMA UnusedFacts ==
  ASSUME PullTypeOK, NEW j \in NewUuid
  PROVE  j \in Jobs /\ jobs[j].state # "pending" /\ route.job # j
<1>1. Unused # {} /\ j = CHOOSE k \in Unused : TRUE
  BY DEF NewUuid
<1>2. j \in Unused
  BY <1>1
<1> QED BY <1>2 DEF Unused

\* A new job is the only one that starts.
LEMMA NewJobFacts ==
  ASSUME PullTypeOK, NEW j \in Jobs, NEW since \in Times, NEW after \in Times, NEW number \in Nat,
         jobs' = [jobs EXCEPT ![j] = NewJob(since, after, number)]
  PROVE  /\ jobs' \in [Jobs -> JobRecord] /\ jobs'[j].state = "pending"
         /\ jobs'[j].since = since /\ jobs'[j].after = after
         /\ \A k \in Jobs \ {j} : jobs'[k] = jobs[k]
<1> DEFINE new == NewJob(since, after, number)
<1>1. /\ new \in JobRecord /\ new.state = "pending" /\ new.since = since /\ new.after = after
  <2>1. route.rev \in Nat /\ conf.rev \in Nat
    BY TypeFacts DEF RouteRecord
  <2> QED BY <2>1, Bounds DEF NewJob, JobRecord, JobStates
<1>2. jobs \in [Jobs -> JobRecord]
  BY TypeFacts
<1> HIDE DEF new
<1>3. jobs' = [jobs EXCEPT ![j] = new]
  BY DEF new
<1> QED BY <1>1, <1>2, <1>3

LEMMA ActionSyncPreserves ==
  ASSUME Inv, NEW h \in Histories, ActionSync(h) PROVE Inv'
<1> USE TimesAreNat
<1>1. /\ PullTypeOK /\ route \in RouteRecord /\ histories \in [Histories -> HistoryRecord]
      /\ now \in Times
  BY TypeFacts DEF Inv
<1>2. /\ page = Idle /\ route.history = NoHistory
      /\ UNCHANGED <<now, leads, conf, page, disturbances, seen, began, late>>
  BY DEF ActionSync
<1>3. PICK since \in 0..now, j \in NewUuid :
       /\ histories' = [histories EXCEPT ![h] =
            [state |-> "queued", since |-> since, at |-> now, previous |-> route.watermark]]
       /\ jobs' = [jobs EXCEPT ![j] = NewJob(since, 0, 0)]
       /\ route' = [route EXCEPT !.state = "queued", !.sweeping = TRUE, !.since = since,
                                 !.after = 0, !.visited = {0}, !.number = 0,
                                 !.job = j, !.history = h]
  BY DEF ActionSync
<1> DEFINE new == [route EXCEPT !.state = "queued", !.sweeping = TRUE, !.since = since,
                     !.after = 0, !.visited = {0}, !.number = 0, !.job = j, !.history = h]
           request == [state |-> "queued", since |-> since, at |-> now,
                       previous |-> route.watermark]
<1>4. since \in Times /\ j \in Jobs
  BY <1>1, <1>3, UnusedFacts, Bounds DEF Times
<1>5. /\ new \in RouteRecord /\ new.state = "queued" /\ new.sweeping = TRUE
      /\ new.since = since /\ new.after = 0 /\ new.job = j /\ new.history = h
      /\ new.watermark = route.watermark /\ new.floor = route.floor
  BY <1>1, <1>4 DEF RouteRecord, RouteStates
<1>6. /\ request \in HistoryRecord /\ request.state = "queued" /\ request.since = since
      /\ request.at = now /\ request.previous = route.watermark
  <2>1. route.watermark \in Times
    BY <1>1 DEF RouteRecord
  <2> QED BY <1>1, <1>4, <2>1 DEF HistoryRecord, RouteStates
<1>7. route' = new /\ histories' = [histories EXCEPT ![h] = request]
  BY <1>3
<1> HIDE DEF new, request
<1>8. /\ histories' \in [Histories -> HistoryRecord] /\ histories'[h] = request
      /\ \A k \in Histories \ {h} : histories'[k] = histories[k]
  BY <1>1, <1>6, <1>7
<1>9. /\ jobs' \in [Jobs -> JobRecord] /\ jobs'[j].state = "pending"
      /\ jobs'[j].since = since /\ jobs'[j].after = 0
      /\ \A k \in Jobs \ {j} : jobs'[k] = jobs[k]
  BY <1>1, <1>3, <1>4, NewJobFacts
<1>10. PullTypeOK'
  BY <1>1, <1>2, <1>5, <1>7, <1>8, <1>9 DEF PullTypeOK, RouteRecord, HistoryRecord, JobRecord
<1>11. Clocks'
  <2>1. \A k \in Histories : histories'[k].at <= now'
    BY <1>1, <1>2, <1>6, <1>8 DEF Inv, Clocks
  <2> QED BY <1>1, <1>2, <1>5, <1>7, <2>1 DEF Inv, Clocks
<1>12. JobCarries' /\ PageHolds' /\ NoHoleInSweep'
  BY <1>2, <1>5, <1>7, <1>9 DEF JobCarries, PageHolds, Running, NoHoleInSweep
<1>13. Periods' /\ InTime'
  BY <1>2, <1>5, <1>6, <1>7, <1>8, Bounds DEF Periods, InTime, SweepUnderWay
<1>14. CoveredBehindWatermark'
  BY <1>2, <1>5, <1>7 DEF Inv, CoveredBehindWatermark, Less
<1>15. HistoryDelivers'
  <2>1. \A k \in Histories : histories'[k].state = "done" => histories'[k] = histories[k]
    BY <1>6, <1>8
  <2> QED BY <1>2, <1>8, <2>1 DEF Inv, HistoryDelivers
<1> QED BY <1>10, <1>11, <1>12, <1>13, <1>14, <1>15 DEF Inv

-----------------------------------------------------------------------------
(* A sweep is taken up: from its cursor, or from the start of its period.  *)

LEMMA QueuedPreserves ==
  ASSUME Inv, NEW since \in Times, NEW after \in Times, NEW visited \in SUBSET Times,
         NEW number \in Nat, Enqueued(route, since, after, visited, number), page = Idle,
         UNCHANGED <<now, leads, conf, page, disturbances, seen, began, late>>,
         \/ Continuing /\ since = route.since /\ after = route.after
         \/ since = NewSince /\ after = 0
  PROVE  Inv'
<1> USE TimesAreNat
<1>1. /\ PullTypeOK /\ route \in RouteRecord /\ histories \in [Histories -> HistoryRecord]
      /\ now \in Times
  BY TypeFacts DEF Inv
<1>2. PICK j \in NewUuid :
       /\ jobs' = [jobs EXCEPT ![j] = NewJob(since, after, number)]
       /\ RuntimeWrite([route EXCEPT !.state = "queued", !.sweeping = TRUE, !.since = since,
                          !.after = after, !.visited = visited, !.number = number, !.job = j])
  BY DEF Enqueued
<1> DEFINE new == [route EXCEPT !.state = "queued", !.sweeping = TRUE, !.since = since,
                     !.after = after, !.visited = visited, !.number = number, !.job = j]
<1>3. j \in Jobs
  BY <1>1, UnusedFacts
<1>4. /\ new \in RouteRecord /\ new.state = "queued" /\ new.sweeping = TRUE
      /\ new.since = since /\ new.after = after /\ new.job = j /\ new.history = route.history
      /\ new.watermark = route.watermark /\ new.floor = route.floor
  BY <1>1, <1>3 DEF RouteRecord, RouteStates
<1>5. route' = new /\ Told(new)
  BY <1>2 DEF RuntimeWrite
<1> HIDE DEF new
<1>6. Follow("queued")
  BY <1>1, <1>4, <1>5, ToldFacts DEF RouteStates
<1>7. /\ jobs' \in [Jobs -> JobRecord] /\ jobs'[j].state = "pending"
      /\ jobs'[j].since = since /\ jobs'[j].after = after
      /\ \A k \in Jobs \ {j} : jobs'[k] = jobs[k]
  BY <1>1, <1>2, <1>3, NewJobFacts
<1>8. route.history # NoHistory => route.history \in Histories
  BY <1>1 DEF RouteRecord
<1>9. PullTypeOK'
  BY <1>1, <1>4, <1>5, <1>6, <1>7 DEF PullTypeOK, RouteRecord, HistoryRecord, JobRecord, Follow
<1>10. HistoryDelivers' /\ \A h \in Histories : histories'[h].at <= now'
  BY <1>6, FollowKeeps DEF RouteStates
<1>11. Clocks'
  <2>1. after <= now
    BY <1>1 DEF Inv, Clocks
  <2> QED BY <1>4, <1>5, <1>10, <2>1 DEF Inv, Clocks
<1>12. JobCarries' /\ PageHolds'
  BY <1>4, <1>5, <1>7 DEF JobCarries, PageHolds, Running
<1>13. Periods'
  <2>1. route.history = NoHistory /\ route.watermark # 0 => since = Less(route.watermark, Overlap)
    BY DEF Inv, Periods, Continuing, NewSince
  <2>2. route.history # NoHistory => since = histories[route.history].since
    BY DEF Inv, Periods, Continuing, NewSince
  <2> QED BY <1>4, <1>5, <1>6, <1>8, <2>1, <2>2 DEF Inv, Periods, Follow, Less
<1>14. InTime'
  <2> SUFFICES ASSUME SweepUnderWay', ~late' PROVE now' <= began' + Overlap
    BY DEF InTime
  <2>1. after # 0 /\ route.history = NoHistory
    BY <1>4, <1>5 DEF SweepUnderWay, Running
  <2>2. route.state = "partial" /\ route.after # 0
    BY <2>1 DEF Continuing
  <2> QED BY <2>1, <2>2 DEF Inv, InTime, SweepUnderWay
<1>15. CoveredBehindWatermark'
  BY <1>4, <1>5 DEF Inv, CoveredBehindWatermark, Less
<1>16. NoHoleInSweep'
  <2> SUFFICES ASSUME after # 0 PROVE Passed' \subseteq seen
    BY <1>4, <1>5 DEF NoHoleInSweep
  <2>1. Continuing /\ since = route.since /\ after = route.after
    OBVIOUS
  <2>2. Passed' = Passed
    BY <1>4, <1>5, <1>6, <1>8, <2>1 DEF Passed, Follow
  <2> QED BY <2>1, <2>2 DEF Inv, NoHoleInSweep, Continuing
<1> QED BY <1>9, <1>10, <1>11, <1>12, <1>13, <1>14, <1>15, <1>16 DEF Inv

LEMMA EnqueuePreserves ==
  ASSUME Inv, Enqueue PROVE Inv'
<1>1. PullTypeOK /\ route \in RouteRecord /\ histories \in [Histories -> HistoryRecord] /\ now \in Times
  BY TypeFacts DEF Inv
<1>2. /\ route.since \in Times /\ route.after \in Times /\ route.visited \in SUBSET Times
      /\ route.number \in Nat /\ CursorHashes \in SUBSET Times /\ 0 \in Times
  BY <1>1, TimesAreNat DEF RouteRecord, CursorHashes, FirstVisited
<1>3. NewSince \in Times
  <2>1. CASE route.history # NoHistory
    <3>1. histories[route.history] \in HistoryRecord
      BY <1>1, <2>1 DEF RouteRecord
    <3> QED BY <2>1, <3>1 DEF NewSince, HistoryRecord
  <2>2. CASE route.history = NoHistory
    BY <1>1, <2>2, Bounds, LessFacts DEF NewSince, RouteRecord
  <2> QED BY <2>1, <2>2
<1>4. /\ page = Idle
      /\ UNCHANGED <<now, leads, conf, page, disturbances, seen, began, late>>
  BY DEF Enqueue
<1>5. CASE Continuing
  <2>1. Enqueued(route, route.since, route.after, CursorHashes, route.number)
    BY <1>5 DEF Enqueue
  <2> QED BY <1>2, <1>4, <1>5, <2>1, QueuedPreserves
<1>6. CASE ~Continuing
  <2>1. Enqueued(route, NewSince, 0, CursorHashes, 0)
    BY <1>6 DEF Enqueue
  <2> QED BY <1>2, <1>3, <1>4, <2>1, QueuedPreserves
<1> QED BY <1>5, <1>6

-----------------------------------------------------------------------------
(* A page is stored and the sweep goes on, or ends.                        *)

From == IF route.history = NoHistory THEN route.since ELSE histories[route.history].since
Upto == IF route.history = NoHistory THEN began ELSE histories[route.history].at

\* While a page is read, every lead of the period has been stored or is in what
\* the page was taken from.
LEMMA StoredOrListed ==
  ASSUME Inv, Running, NEW t \in leads, t >= From, t <= Upto
  PROVE  /\ t \in seen \/ t \in page.found
         /\ t \in Fetched => t \in Projected
<1> USE TimesAreNat
<1>1. /\ PullTypeOK /\ route \in RouteRecord /\ histories \in [Histories -> HistoryRecord]
      /\ began \in Nat /\ t \in Nat
  BY TypeFacts DEF Inv
<1>2. route.sweeping /\ page.found = Unread
  BY PagesStored
<1>3. route.history # NoHistory =>
        /\ route.history \in Histories /\ route.since = histories[route.history].since
        /\ histories[route.history].at \in Nat /\ histories[route.history].since \in Nat
  <2> SUFFICES ASSUME route.history # NoHistory
               PROVE  /\ route.history \in Histories
                      /\ route.since = histories[route.history].since
                      /\ histories[route.history].at \in Nat
                      /\ histories[route.history].since \in Nat
    OBVIOUS
  <2>1. route.history \in Histories
    BY <1>1 DEF RouteRecord
  <2>2. histories[route.history] \in HistoryRecord
    BY <1>1, <2>1
  <2> QED BY <1>2, <2>1, <2>2 DEF HistoryRecord, Inv, Periods
<1>4. t >= route.since /\ route.after \in Nat
  BY <1>1, <1>3 DEF From, RouteRecord
<1>5. CASE route.after # 0 /\ t >= route.after
  <2>1. t \in Passed
    BY <1>5 DEF Passed, From, Upto
  <2>2. t \in seen
    BY <1>2, <1>5, <2>1 DEF Inv, NoHoleInSweep
  <2>3. t \in Fetched => t \in Projected
    BY <1>1, <1>3 DEF Projected, From, Upto
  <2> QED BY <2>2, <2>3
<1>6. CASE ~(route.after # 0 /\ t >= route.after)
  <2>1. ASSUME route.after # 0 PROVE t \in page.found
    <3>1. t < route.after
      BY <1>1, <1>4, <1>6, <2>1
    <3> QED BY <1>2, <1>4, <2>1, <3>1 DEF Unread
  <2>2. ASSUME route.after = 0 PROVE t \in page.found
    <3>1. t <= began
      <4>1. CASE route.history = NoHistory
        BY <4>1 DEF Upto
      <4>2. CASE route.history # NoHistory
        <5>1. histories[route.history].at <= began
          BY <2>2, <4>2 DEF Inv, PageHolds
        <5>2. t <= histories[route.history].at
          BY <4>2 DEF Upto
        <5> QED BY <1>1, <1>3, <4>2, <5>1, <5>2
      <4> QED BY <4>1, <4>2
    <3> QED BY <1>2, <1>4, <2>2, <3>1 DEF Unread
  <2>3. t \in page.found
    BY <2>1, <2>2
  <2>4. t \in Fetched => t \in Projected
    BY <1>1, <1>3 DEF Projected, From, Upto
  <2> QED BY <2>3, <2>4
<1> QED BY <1>5, <1>6

\* The next cursor is a lead of the page: the provider's pages that go round are
\* rejected.
LEMMA CursorFacts ==
  ASSUME Inv, Running, HasMore, NEW cursor \in Times, Given(cursor), ~CursorRejected(cursor)
  PROVE  /\ cursor \in Fetched /\ cursor \in leads
         /\ \A t \in page.found : t >= cursor => t \in Fetched
<1>1. page.found = Unread /\ page.found \in SUBSET Times /\ Fetched \subseteq page.found
  BY PagesStored
<1>2. cursor = NextAfter
  BY DEF Given, CursorRejected
<1>3. page.found # {}
  <2>1. Fetched \subseteq page.found /\ Fetched # page.found
    BY <1>1 DEF HasMore
  <2> QED BY <2>1
<1>4. cursor \in Fetched
  BY <1>1, <1>2, <1>3, PageFacts DEF NextAfter, Fetched
<1>5. \A t \in page.found : t >= cursor => t \in Fetched
  BY <1>1, <1>4, PageFacts DEF Fetched
<1>6. cursor \in leads
  BY <1>1, <1>4 DEF Unread
<1> QED BY <1>4, <1>5, <1>6

\* What both ways of going on have in common.
LEMMA GoesOn ==
  ASSUME Inv, Running, HasMore, NEW cursor \in Times, Given(cursor), ~CursorRejected(cursor),
         seen' = seen \cup Projected, PageEnds,
         NEW state \in {"queued", "partial"}, Follow(state), route' \in RouteRecord,
         jobs' \in [Jobs -> JobRecord],
         route'.state = state, route'.sweeping = route.sweeping, route'.since = route.since,
         route'.after = cursor, route'.history = route.history,
         route'.watermark = route.watermark, route'.floor = route.floor, JobCarries'
  PROVE  Inv'
<1> USE TimesAreNat
<1>1. /\ PullTypeOK /\ route \in RouteRecord /\ leads \subseteq Nat
      /\ UNCHANGED <<now, leads, conf, began, late>> /\ page' = Idle
  BY TypeFacts DEF Inv, PageEnds
<1>2. route.history # NoHistory => route.history \in Histories
  BY <1>1 DEF RouteRecord
<1>3. seen \subseteq seen' /\ seen' \subseteq leads
  BY <1>1, PagesStored, TypeFacts
<1>4. PullTypeOK'
  BY <1>1, <1>3 DEF PullTypeOK, RouteRecord, HistoryRecord, JobRecord, Follow
<1>5. state \in RouteStates \ {"idle"}
  BY DEF RouteStates
<1>6. HistoryDelivers' /\ \A h \in Histories : histories'[h].at <= now'
  BY <1>1, <1>3, <1>5, FollowKeeps
<1>7. Clocks'
  <2>1. cursor <= now
    BY CursorFacts DEF Inv, Clocks
  <2> QED BY <1>1, <1>6, <2>1 DEF Inv, Clocks
<1>8. PageHolds'
  BY <1>1 DEF PageHolds, Running
<1>9. Periods'
  BY <1>2 DEF Inv, Periods, Follow, Less
<1>10. InTime'
  BY <1>1, PagesStored DEF Inv, InTime, SweepUnderWay
<1>11. CoveredBehindWatermark'
  BY <1>1, <1>3 DEF Inv, CoveredBehindWatermark, Less
<1>12. NoHoleInSweep'
  <2> SUFFICES ASSUME NEW t \in Passed' PROVE t \in seen'
    BY DEF NoHoleInSweep
  <2>1. t \in leads /\ t >= From /\ t <= Upto /\ t >= cursor
    BY <1>1, <1>2 DEF Passed, From, Upto, Follow
  <2>2. t \in page.found => t \in Projected
    BY <2>1, StoredOrListed, CursorFacts
  <2> QED BY <2>1, <2>2, StoredOrListed
<1> QED BY <1>4, <1>6, <1>7, <1>8, <1>9, <1>10, <1>11, <1>12 DEF Inv

LEMMA AdvancePreserves ==
  ASSUME Inv, Advance PROVE Inv'
<1> USE TimesAreNat
<1>1. PICK cursor \in Times : Given(cursor) /\ ~CursorRejected(cursor) /\ NextPage(cursor)
  BY DEF Advance
<1>2. Running /\ HasMore /\ seen' = seen \cup Projected /\ PageEnds
  BY DEF Advance
<1>3. /\ PullTypeOK /\ route \in RouteRecord /\ jobs \in [Jobs -> JobRecord]
      /\ page.job \in Jobs /\ jobs[page.job].state = "pending" /\ route.job = page.job
      /\ Job.since = route.since /\ route.sweeping
  BY <1>2, PagesStored, TypeFacts DEF Inv
<1>4. CASE Job.number + 1 < MaxPages
  <2>1. PICK j \in NewUuid :
           /\ jobs' = [Done(page.job) EXCEPT ![j] =
                         [Job EXCEPT !.retry = 0, !.after = cursor, !.number = @ + 1]]
           /\ RuntimeWrite([route EXCEPT
                !.state = "queued", !.after = cursor, !.visited = @ \cup {cursor},
                !.number = Job.number + 1, !.job = j])
    BY <1>1, <1>4 DEF NextPage
  <2> DEFINE new == [route EXCEPT
                       !.state = "queued", !.after = cursor, !.visited = @ \cup {cursor},
                       !.number = Job.number + 1, !.job = j]
             next == [Job EXCEPT !.retry = 0, !.after = cursor, !.number = @ + 1]
  <2>2. j \in Jobs /\ j # page.job
    BY <1>3, UnusedFacts
  <2>3. Job \in JobRecord
    BY <1>3 DEF Job
  <2>4. /\ next \in JobRecord /\ next.since = route.since /\ next.after = cursor
    <3>1. 0 \in 0..AttemptCeiling /\ Job.number + 1 \in Nat
      BY <2>3, Bounds DEF JobRecord
    <3>2. next = [Job EXCEPT !.retry = 0, !.after = cursor, !.number = Job.number + 1]
      BY <2>3 DEF JobRecord
    <3> QED BY <1>3, <2>3, <3>1, <3>2 DEF JobRecord
  <2>5. /\ new \in RouteRecord /\ new.state = "queued" /\ new.sweeping = route.sweeping
        /\ new.since = route.since /\ new.after = cursor /\ new.job = j
        /\ new.history = route.history /\ new.watermark = route.watermark
        /\ new.floor = route.floor
    <3>1. Job.number + 1 \in Nat /\ route.visited \cup {cursor} \in SUBSET Times
      BY <1>3, <2>3 DEF JobRecord, RouteRecord
    <3> QED BY <1>3, <2>2, <3>1 DEF RouteRecord, RouteStates
  <2>6. route' = new /\ Told(new) /\ jobs' = [Done(page.job) EXCEPT ![j] = next]
    BY <2>1 DEF RuntimeWrite
  <2> HIDE DEF new, next
  <2>7. Follow("queued")
    BY <1>3, <2>5, <2>6, ToldFacts DEF RouteStates
  <2>8. Done(page.job) \in [Jobs -> JobRecord]
    <3>1. NoJobData \in JobRecord
      BY Bounds DEF NoJobData, JobRecord, JobStates
    <3> QED BY <1>3, <3>1 DEF Done
  <2>9. jobs' \in [Jobs -> JobRecord] /\ jobs'[j] = next
    BY <2>2, <2>4, <2>6, <2>8
  <2>10. JobCarries'
    BY <1>3, <2>4, <2>5, <2>6, <2>9 DEF JobCarries
  <2> QED BY <1>1, <1>2, <2>5, <2>6, <2>7, <2>9, <2>10, GoesOn
<1>5. CASE ~(Job.number + 1 < MaxPages)
  <2> DEFINE new == [route EXCEPT !.state = "partial", !.after = cursor,
                       !.visited = @ \cup {cursor}, !.number = 0, !.job = NoJob]
  <2>1. jobs' = Done(page.job) /\ RuntimeWrite(new)
    BY <1>1, <1>5 DEF NextPage
  <2>2. /\ new \in RouteRecord /\ new.state = "partial" /\ new.sweeping = route.sweeping
        /\ new.since = route.since /\ new.after = cursor /\ new.job = NoJob
        /\ new.history = route.history /\ new.watermark = route.watermark
        /\ new.floor = route.floor
    BY <1>3 DEF RouteRecord, RouteStates
  <2>3. route' = new /\ Told(new)
    BY <2>1 DEF RuntimeWrite
  <2> HIDE DEF new
  <2>4. Follow("partial")
    BY <1>3, <2>2, <2>3, ToldFacts DEF RouteStates
  <2>5. jobs' \in [Jobs -> JobRecord]
    BY <1>3, <2>1, DoneFacts
  <2>6. JobCarries'
    BY <2>2, <2>3, Bounds DEF JobCarries
  <2> QED BY <1>1, <1>2, <2>2, <2>3, <2>4, <2>5, <2>6, GoesOn
<1> QED BY <1>4, <1>5

\* The sweep ends: all there was from its start to its first page is stored, and
\* last_reconciled_at is at most the overlap later than that page.
LEMMA FinishPreserves ==
  ASSUME Inv, Finish PROVE Inv'
<1> USE TimesAreNat
<1> DEFINE h == route.history
           new == [route EXCEPT !.state = "idle", !.sweeping = FALSE, !.since = 0,
                     !.after = 0, !.visited = {}, !.number = 0, !.job = NoJob,
                     !.watermark = Watermark(h), !.floor = Floor, !.history = NoHistory]
<1>1. /\ PullTypeOK /\ route \in RouteRecord /\ histories \in [Histories -> HistoryRecord]
      /\ now \in Times /\ now \in Nat /\ began \in Nat /\ leads \subseteq Nat
      /\ seen \subseteq leads
  BY TypeFacts DEF Inv
<1>2. /\ Running /\ seen' = seen \cup Projected /\ route' = new /\ jobs' = Done(page.job)
      /\ page' = Idle /\ UNCHANGED <<now, leads, conf, began, late>>
      /\ Fetched = page.found
  BY DEF Finish, PageEnds, HasMore
<1>3. /\ page.job \in Jobs /\ route.state = "queued" /\ route.sweeping
      /\ Projected \subseteq leads
  BY <1>2, PagesStored
<1>4. h \in Histories \cup {NoHistory} /\ (h # NoHistory => histories[h] \in HistoryRecord)
  BY <1>1 DEF RouteRecord
<1>5. ASSUME NEW t \in leads, t >= From, t <= Upto PROVE t \in seen'
  BY <1>2, <1>5, StoredOrListed
<1>6. h # NoHistory => Watermark(h) = route.watermark /\ Floor = route.floor
  BY DEF Inv, Periods, Watermark, Floor
<1>7. h = NoHistory => Watermark(h) = now
  BY DEF Watermark
<1>8. Watermark(h) \in Times /\ Watermark(h) <= now /\ Floor \in Times
  BY <1>1, <1>6, <1>7 DEF Inv, Clocks, Floor, RouteRecord
<1>9. /\ new \in RouteRecord /\ new.sweeping = FALSE /\ new.after = 0 /\ new.job = NoJob
      /\ new.state = "idle" /\ new.watermark = Watermark(h) /\ new.floor = Floor
      /\ new.history = NoHistory
  BY <1>1, <1>8 DEF RouteRecord, RouteStates
<1> HIDE DEF new
<1>10. /\ histories' \in [Histories -> HistoryRecord]
       /\ \A k \in Histories :
            /\ histories'[k].since = histories[k].since /\ histories'[k].at = histories[k].at
            /\ histories'[k].state = IF k = h THEN "done" ELSE histories[k].state
  <2>1. CASE h = NoHistory
    BY <1>1, <2>1, Bounds DEF Finish
  <2>2. CASE h # NoHistory
    <3> DEFINE done == [histories[h] EXCEPT !.state = "done"]
    <3>1. h \in Histories /\ histories' = [histories EXCEPT ![h] = done]
      BY <1>4, <2>2 DEF Finish
    <3>2. /\ done \in HistoryRecord /\ done.state = "done"
          /\ done.since = histories[h].since /\ done.at = histories[h].at
      BY <1>4, <2>2 DEF HistoryRecord
    <3> HIDE DEF done
    <3>3. histories'[h] = done /\ \A k \in Histories \ {h} : histories'[k] = histories[k]
      BY <1>1, <3>1
    <3> QED BY <1>1, <3>1, <3>2, <3>3
  <2> QED BY <2>1, <2>2
<1>11. PullTypeOK'
  <2>1. jobs' \in [Jobs -> JobRecord]
    BY <1>1, <1>2, <1>3, DoneFacts
  <2>2. seen' \subseteq leads
    BY <1>1, <1>2, <1>3
  <2> HIDE DEF h
  <2> QED BY <1>1, <1>2, <1>9, <1>10, <2>1, <2>2
      DEF PullTypeOK, RouteRecord, HistoryRecord, JobRecord
<1>12. Clocks'
  <2>1. \A k \in Histories : histories'[k].at <= now'
    BY <1>2, <1>10 DEF Inv, Clocks
  <2> QED BY <1>1, <1>2, <1>8, <1>9, <2>1 DEF Inv, Clocks
<1>13. JobCarries' /\ PageHolds' /\ Periods' /\ InTime' /\ NoHoleInSweep'
  BY <1>2, <1>9, Bounds
     DEF JobCarries, PageHolds, Running, Periods, InTime, SweepUnderWay, NoHoleInSweep
<1>14. CoveredBehindWatermark'
  <2>1. CASE h # NoHistory
    BY <1>2, <1>6, <1>9, <2>1 DEF Inv, CoveredBehindWatermark, Less
  <2>2. CASE h = NoHistory
    <3> SUFFICES ASSUME ~late, NEW t \in leads, t \in Floor..(Less(now, Overlap) - 1)
                 PROVE  t \in seen'
      BY <1>2, <1>7, <1>9, <2>2 DEF CoveredBehindWatermark, Less
    <3>1. now <= began + Overlap
      BY <1>2, <1>3, <2>2 DEF Inv, InTime, SweepUnderWay
    <3>2. /\ Less(now, Overlap) \in Nat
          /\ Less(now, Overlap) # 0 => Less(now, Overlap) + Overlap = now
      BY <1>1, Bounds, LessFacts
    <3>3. t \in Nat /\ Floor \in Nat /\ t >= Floor /\ t < Less(now, Overlap)
      BY <1>1, <1>8, <3>2
    <3>4. t <= began
      BY <1>1, <3>1, <3>2, <3>3, Bounds
    <3>5. CASE t >= route.since
      BY <1>5, <2>2, <3>4, <3>5 DEF From, Upto
    <3>6. CASE ~(t >= route.since)
      <4>1. route.since \in Nat
        BY <1>1 DEF RouteRecord
      <4>2. route.watermark # 0 /\ Floor = route.floor
        BY <2>2, <3>3, <3>6 DEF Floor
      <4>3. route.since = Less(route.watermark, Overlap)
        BY <1>3, <2>2, <4>2 DEF Inv, Periods
      <4>4. t \in route.floor..(Less(route.watermark, Overlap) - 1)
        BY <3>3, <3>6, <4>1, <4>2, <4>3
      <4>5. t \in seen
        BY <4>2, <4>4 DEF Inv, CoveredBehindWatermark
      <4> QED BY <1>2, <4>5
    <3> QED BY <3>5, <3>6
  <2> QED BY <2>1, <2>2
<1>15. HistoryDelivers'
  <2> SUFFICES ASSUME NEW k \in Histories, histories'[k].state = "done",
                      NEW t \in leads, t \in histories[k].since..histories[k].at
               PROVE  t \in seen'
    BY <1>2, <1>10 DEF HistoryDelivers
  <2>1. CASE k = h
    <3>1. h # NoHistory /\ histories[k].since \in Nat /\ histories[k].at \in Nat
      BY <1>1, <2>1, Bounds DEF HistoryRecord
    <3>2. t >= histories[h].since /\ t <= histories[h].at
      BY <2>1, <3>1
    <3> QED BY <1>5, <3>1, <3>2 DEF From, Upto
  <2>2. CASE k # h
    BY <1>2, <1>10, <2>2 DEF Inv, HistoryDelivers
  <2> QED BY <2>1, <2>2
<1> QED BY <1>11, <1>12, <1>13, <1>14, <1>15 DEF Inv

-----------------------------------------------------------------------------
(* The theorems.                                                           *)

LEMMA InitInv == Init => Inv
<1> SUFFICES ASSUME Init PROVE Inv
  OBVIOUS
<1> USE TimesAreNat, Bounds
<1>1. /\ now = 1 /\ leads \subseteq {1} /\ seen = {} /\ began = 0 /\ late = FALSE
      /\ page = Idle /\ jobs = [j \in Jobs |-> NoJobData] /\ conf = [rev |-> 1, ready |-> TRUE]
  BY DEF Init
<1>2. /\ route \in RouteRecord /\ route.sweeping = FALSE /\ route.after = 0
      /\ route.job = NoJob /\ route.watermark = 0 /\ route.history = NoHistory
      /\ route.state = "idle"
  BY DEF Init, RouteRecord, RouteStates
<1>3. histories \in [Histories -> HistoryRecord]
      /\ \A h \in Histories : histories[h].state = "draft" /\ histories[h].at = 0
  BY DEF Init, HistoryRecord
<1>4. jobs \in [Jobs -> JobRecord]
  <2>1. NoJobData \in JobRecord
    BY DEF NoJobData, JobRecord, JobStates
  <2> QED BY <1>1, <2>1
<1>5. PullTypeOK
  BY <1>1, <1>2, <1>3, <1>4 DEF PullTypeOK, RouteRecord, HistoryRecord, JobRecord
<1>6. Clocks /\ JobCarries /\ PageHolds /\ Periods /\ InTime
  BY <1>1, <1>2, <1>3
     DEF Clocks, JobCarries, PageHolds, Running, Periods, InTime, SweepUnderWay
<1>7. CoveredBehindWatermark /\ NoHoleInSweep /\ HistoryDelivers
  BY <1>2, <1>3 DEF CoveredBehindWatermark, NoHoleInSweep, HistoryDelivers
<1> QED BY <1>5, <1>6, <1>7 DEF Inv

LEMMA NextPreserves == Inv /\ [Next]_pullVars => Inv'
<1> SUFFICES ASSUME Inv, [Next]_pullVars PROVE Inv'
  OBVIOUS
<1>1. CASE Work
  BY <1>1, EnqueuePreserves, StartPreserves, QuietSteps, StoppingSteps, AdvancePreserves,
     FinishPreserves DEF Work, CronEnqueue
<1>2. CASE Retry \/ Crash \/ Reconfigure \/ \E j \in Jobs : LoseJob(j)
  BY <1>2, QuietSteps
<1>3. CASE FetchFails
  BY <1>3, StoppingSteps
<1>4. CASE ManualEnqueue
  BY <1>4, EnqueuePreserves DEF ManualEnqueue
<1>5. CASE Tick
  BY <1>5, TickPreserves
<1>6. CASE \E on \in BOOLEAN : RouteWrite(on)
  BY <1>6, RouteWritePreserves
<1>7. CASE \E h \in Histories : ActionSync(h)
  BY <1>7, ActionSyncPreserves
<1>8. CASE UNCHANGED pullVars
  BY <1>8 DEF pullVars, Inv, PullTypeOK, Clocks, JobCarries, PageHolds, Running, Unread,
     Periods, InTime, SweepUnderWay, CoveredBehindWatermark, NoHoleInSweep, Passed,
     HistoryDelivers, Less
<1> QED BY <1>1, <1>2, <1>3, <1>4, <1>5, <1>6, <1>7, <1>8 DEF Next

LEMMA InvHolds == Spec => []Inv
BY InitInv, NextPreserves, PTL DEF Spec

\* The route row, its histories, the jobs and the page in hand stay what the code
\* takes them for: above all, the job whose page is being read has not ended.
THEOREM LeadPullTypes == Spec => []PullTypeOK
<1>1. Inv => PullTypeOK
  BY DEF Inv
<1> QED BY <1>1, InvHolds, PTL

\* _advance_reconcile_page, _finish_reconcile_error, the cron, the route's writes
\* and action_sync: no lead is left behind last_reconciled_at, behind the cursor
\* of a sweep, or in the period of a history request that says it is done,
\* whatever errors, crashes, lost jobs, pauses and requests come in between.
THEOREM LeadPullLosesNothing == Spec => []NoLeadIsLost
<1>1. Inv => NoLeadIsLost
  BY DEF Inv, NoLeadIsLost
<1> QED BY <1>1, InvHolds, PTL

=============================================================================
