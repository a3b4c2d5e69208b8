------------------------ MODULE LeadSubmissionProofs ------------------------
(***************************************************************************)
(* Theorems about one submission, for any number of callbacks, workers,    *)
(* pull pages, jobs, releases, edits and disturbances.                     *)
(*                                                                         *)
(* QuarantineHolds and OneStory are not inductive: they rest on what the   *)
(* row lock keeps (a row that is being fetched is pending) and on how many *)
(* revisions a row that may still be applied can have (Spent).             *)
(***************************************************************************)
EXTENDS LeadSubmission, TLAPS

TxnTypeOK == txn \in [Actors -> Transaction \cup {Idle}]

\* A row that is being fetched stays pending, and a row nobody has released
\* stays in review.
Guarded ==
  /\ lock # Free => sub.state = "pending"
  /\ quarantined => sub.state = "review"

\* A row that may be applied has one revision less than its releases allow.
Spent == sub.state \in {"absent"} \cup Open => Len(touches) <= released

Inv == LeadTypeOK /\ TxnTypeOK /\ Guarded /\ Spent /\ OneStory

-----------------------------------------------------------------------------
(* What a step may do to the submission.                                   *)

Untouched == UNCHANGED <<sub, touches, released, quarantined>>

Enqueued ==
  /\ lock = Free /\ sub.state \in {"absent", "pending"}
  /\ \E j \in Jobs : sub' = [sub EXCEPT !.state = "pending", !.job = j]
  /\ UNCHANGED <<touches, released, quarantined>>

Settled ==
  /\ \E state \in {"review", "stale", "dead", "blocked"} :
       Settle(state) /\ (state # "review" => sub.state = "pending")
  /\ lock' = Free /\ UNCHANGED released

Applied ==
  /\ sub.state \in {"absent"} \cup Open /\ lock' = Free
  /\ \E p \in Payload : Apply(sub, p)
  /\ UNCHANGED released

Released ==
  /\ lock = Free /\ sub.state \in {"review", "blocked", "dead", "stale"}
  /\ \E j \in Jobs : sub' = [sub EXCEPT !.state = "pending", !.job = j]
  /\ quarantined' = FALSE /\ released' = released + 1 /\ released' \in 0..MaxReleases
  /\ UNCHANGED touches

RowStep == Untouched \/ Enqueued \/ Settled \/ Applied \/ Released

LockStep ==
  \/ UNCHANGED lock
  \/ lock' = Free
  \/ lock = Free /\ sub.state = "pending" /\ UNCHANGED sub

-----------------------------------------------------------------------------
LEMMA InitInv == Init => Inv
<1> SUFFICES ASSUME Init PROVE Inv
  OBVIOUS
<1> USE LeadBounds, LeadActors
<1>1. LeadTypeOK
  <2>1. 1 \in 1..MaxEdits + 1 /\ 0 \in 0..MaxEdits + 1 /\ 0 \in 0..AttemptCeiling
    OBVIOUS
  <2>2. touches \in Seq(Payload)
    BY DEF Init
  <2> QED
    BY <2>1, <2>2
    DEF Init, LeadTypeOK, Submission, States, Open, JobRecord, Configuration, Payload,
        NoPayload
<1>2. TxnTypeOK
  BY DEF Init, TxnTypeOK
<1>3. Guarded /\ Spent
  BY DEF Init, Guarded, Spent, Open
<1>4. OneStory
  BY DEF Init, OneStory, ConvergesOnOne, OneAnswerSet, IngestedIsLatest
<1> QED
  BY <1>1, <1>2, <1>3, <1>4 DEF Inv

-----------------------------------------------------------------------------
(* The row, by the kind of step.                                           *)

\* An ingestion keeps the revisions or adds one, and ends with the payload.
LEMMA IngestFacts ==
  ASSUME touches \in Seq(Payload), NEW p \in Payload, Ingest(p)
  PROVE  /\ touches' \in Seq(Payload) /\ touches' # <<>> /\ touches'[Len(touches')] = p
         /\ Len(touches') <= Len(touches) + 1
         /\ \A i \in DOMAIN touches' : touches'[i] = p
              \/ (i \in DOMAIN touches /\ touches'[i] = touches[i])
<1>1. CASE touches # <<>> /\ touches[Len(touches)] = p
  BY <1>1 DEF Ingest
<1>2. CASE ~(touches # <<>> /\ touches[Len(touches)] = p)
  <2>1. touches' = Append(touches, p)
    BY <1>2 DEF Ingest
  <2> QED
    BY <2>1
<1> QED
  BY <1>1, <1>2

\* Applying a lead keeps the story, whatever the row held before.
LEMMA AppliedKeeps ==
  ASSUME Inv, Applied
  PROVE  /\ sub' \in Submission /\ touches' \in Seq(Payload)
         /\ (quarantined' => sub'.state = "review")
         /\ Spent' /\ OneStory' /\ ~quarantined
<1> PICK p \in Payload : Apply(sub, p)
  BY DEF Applied
<1>1. sub \in Submission /\ touches \in Seq(Payload) /\ Len(touches) <= released
  BY DEF Inv, LeadTypeOK, Applied, Spent
<1>2. ~quarantined /\ released' = released /\ released \in Nat
  BY DEF Inv, Guarded, Applied, Open, LeadTypeOK
<1>3. p.fields \in 1..MaxEdits + 1 /\ p.fields # 0
  BY LeadBounds DEF Payload
<1>4. CASE Conflicting(sub, p)
  <2>1. /\ sub' = [sub EXCEPT !.state = "review"] /\ UNCHANGED touches
        /\ sub'.state = "review" /\ sub'.fields = sub.fields /\ sub' \in Submission
    BY <1>1, <1>4 DEF Apply, Submission, States
  <2> QED
    BY <1>1, <1>2, <2>1
    DEF Spent, Open, OneStory, ConvergesOnOne, OneAnswerSet, IngestedIsLatest, Inv
<1>5. CASE ~Conflicting(sub, p)
  <2>1. /\ sub' = [sub EXCEPT !.state = "ingested", !.fields = p.fields, !.sha = p]
        /\ Ingest(p) /\ UNCHANGED quarantined
    BY <1>5 DEF Apply
  <2>2. /\ sub'.state = "ingested" /\ sub'.fields = p.fields /\ sub'.sha = p
        /\ sub' \in Submission
    <3>1. sub'.state = "ingested" /\ sub'.fields = p.fields /\ sub'.sha = p
      BY <1>1, <2>1 DEF Submission
    <3>2. "ingested" \in States /\ p.fields \in 0..MaxEdits + 1
      BY <1>3, LeadBounds DEF States
    <3> QED
      BY <1>1, <2>1, <3>1, <3>2 DEF Submission
  <2>3. /\ touches' \in Seq(Payload) /\ touches' # <<>> /\ touches'[Len(touches')] = p
        /\ Len(touches') <= Len(touches) + 1
        /\ \A i \in DOMAIN touches' : touches'[i] = p
              \/ (i \in DOMAIN touches /\ touches'[i] = touches[i])
    BY <1>1, <2>1, IngestFacts
  <2>4. ConvergesOnOne'
    BY <1>1, <1>2, <2>3 DEF ConvergesOnOne
  <2>5. OneAnswerSet'
    <3>1. \A i \in DOMAIN touches :
            touches[i].fields = sub.fields /\ touches[i].fields # 0
      <4> TAKE i \in DOMAIN touches
      <4>1. touches[i] \in Payload
        BY <1>1
      <4>2. touches[i].fields # 0
        BY <4>1, LeadBounds DEF Payload
      <4> QED
        BY <4>2 DEF Inv, OneStory, OneAnswerSet
    <3>2. \A i \in DOMAIN touches : touches[i].fields = p.fields
      BY <3>1, <1>5 DEF Conflicting
    <3> QED
      BY <2>2, <2>3, <3>2 DEF OneAnswerSet
  <2>6. IngestedIsLatest'
    BY <2>2, <2>3 DEF IngestedIsLatest
  <2> QED
    BY <1>2, <2>1, <2>2, <2>3, <2>4, <2>5, <2>6 DEF Spent, Open, OneStory
<1> QED
  BY <1>4, <1>5

LEMMA RowStepKeeps ==
  ASSUME Inv, RowStep, LockStep
  PROVE  /\ sub' \in Submission /\ touches' \in Seq(Payload)
         /\ released' \in 0..MaxReleases
         /\ Guarded' /\ Spent' /\ OneStory'
<1> USE DEF Inv, LeadTypeOK, Guarded, Spent, OneStory, ConvergesOnOne, OneAnswerSet,
            IngestedIsLatest
<1>1. CASE Untouched
  BY <1>1 DEF Untouched, LockStep
<1>2. CASE Enqueued
  <2>1. PICK j \in Jobs : sub' = [sub EXCEPT !.state = "pending", !.job = j]
    BY <1>2 DEF Enqueued
  <2>2. /\ sub' \in Submission /\ sub'.state = "pending" /\ sub'.fields = sub.fields
    BY <2>1 DEF Submission, States, Open
  <2> QED
    BY <1>2, <2>2 DEF Enqueued, LockStep, Open
<1>3. CASE Settled
  <2>1. PICK state \in {"review", "stale", "dead", "blocked"} :
          /\ Settle(state) /\ (state # "review" => sub.state = "pending")
    BY <1>3 DEF Settled
  <2>2. /\ sub' \in Submission /\ sub'.state = state /\ sub'.fields = sub.fields
    BY <2>1 DEF Settle, Submission, States, Open
  <2> QED
    BY <1>3, <2>1, <2>2 DEF Settled, Settle, Enters, Open
<1>4. CASE Applied
  BY <1>4, AppliedKeeps DEF Applied
<1>5. CASE Released
  <2>1. PICK j \in Jobs : sub' = [sub EXCEPT !.state = "pending", !.job = j]
    BY <1>5 DEF Released
  <2>2. /\ sub' \in Submission /\ sub'.state = "pending" /\ sub'.fields = sub.fields
    BY <2>1 DEF Submission, States, Open
  <2> QED
    BY <1>5, <2>2 DEF Released, LockStep, Open
<1> QED
  BY <1>1, <1>2, <1>3, <1>4, <1>5 DEF RowStep

-----------------------------------------------------------------------------
(* The actions, by their actor.                                            *)

\* The types of what a step may write besides the row.
Frame ==
  /\ jobs' \in [Jobs -> JobRecord] /\ payload' \in Payload /\ conf' \in Configuration
  /\ TxnTypeOK' /\ settledHints' \subseteq Hints
  /\ lock' \in Workers \cup {Free} /\ (lock' # Free => txn'[lock'] # Idle)

LEMMA CloseFrame ==
  ASSUME Inv, NEW t \in Actors, Close(t),
         lock' = Free \/ (lock' = lock /\ t \notin Workers)
  PROVE  /\ TxnTypeOK' /\ lock' \in Workers \cup {Free}
         /\ (lock' # Free => txn'[lock'] # Idle)
BY LeadActors DEF Inv, TxnTypeOK, LeadTypeOK, Close, Actors

\* What a transaction begins with is never taken for none at all.
LEMMA BeginFrame ==
  ASSUME Inv, NEW t \in Actors, NEW j \in Jobs \cup {NoJob}, Begin(t, j),
         lock' = lock \/ (lock' = t /\ t \in Workers)
  PROVE  /\ TxnTypeOK' /\ lock' \in Workers \cup {Free}
         /\ (lock' # Free => txn'[lock'] # Idle)
<1> DEFINE read == [row |-> sub, conf |-> conf, payload |-> payload,
                   jobs |-> jobs, job |-> j]
<1>1. read \in Transaction /\ read # Idle
  BY LeadIdle DEF Inv, LeadTypeOK, Transaction
<1>2. txn' = [txn EXCEPT ![t] = read]
  BY DEF Begin
<1> QED
  BY <1>1, <1>2 DEF Inv, TxnTypeOK, LeadTypeOK, Actors

LEMMA JobTypes ==
  ASSUME Inv, NEW j
  PROVE  /\ Ended(j) \in [Jobs -> JobRecord]
         /\ [Ended(j) EXCEPT ![j].state = "failed"] \in [Jobs -> JobRecord]
         /\ \A rev \in Nat : [jobs EXCEPT ![j] = Pending(rev)] \in [Jobs -> JobRecord]
<1>1. 0 \in 0..AttemptCeiling
  BY LeadBounds
<1>2. Ended(j) \in [Jobs -> JobRecord]
  BY <1>1 DEF Inv, LeadTypeOK, Ended, JobRecord
<1>3. \A rev \in Nat : [jobs EXCEPT ![j] = Pending(rev)] \in [Jobs -> JobRecord]
  BY <1>1 DEF Inv, LeadTypeOK, Pending, JobRecord
<1>4. \A i \in Jobs : [Ended(j)[i] EXCEPT !.state = "failed"] \in JobRecord
  BY <1>2 DEF JobRecord
<1> QED
  BY <1>2, <1>3, <1>4

LEMMA EnqueueFacts ==
  ASSUME Inv, NEW h \in Hints, txn[h] # Idle,
         NEW row \in Submission, EnqueueFetch(h, row)
  PROVE  /\ jobs' \in [Jobs -> JobRecord]
         /\ \E j \in Jobs : sub' = [row EXCEPT !.job = j]
<1>1. txn[h].conf.rev \in Nat
  BY DEF Inv, TxnTypeOK, Actors, Transaction, Configuration
<1>2. CASE ActiveIn(txn[h].jobs) # {}
  BY <1>2 DEF EnqueueFetch, ActiveIn, Inv, LeadTypeOK
<1>3. CASE ActiveIn(txn[h].jobs) = {}
  <2>1. PICK j \in NewUuid : /\ jobs' = [jobs EXCEPT ![j] = Pending(txn[h].conf.rev)]
                             /\ sub' = [row EXCEPT !.job = j]
    BY <1>3 DEF EnqueueFetch
  <2>2. j \in Jobs
    BY DEF NewUuid, Unused
  <2> QED
    BY <1>1, <2>1, <2>2, JobTypes
<1> QED
  BY <1>2, <1>3

LEMMA HintStep ==
  ASSUME Inv, NEW h \in Hints, HintWork(h) \/ ConflictingHint(h)
  PROVE  Frame /\ RowStep /\ LockStep
<1>1. h \in Actors /\ h \notin Workers
  BY LeadActors DEF Actors
<1>2. CASE ReceiveHint(h)
  <2>1. Begin(h, NoJob) /\ UNCHANGED <<lock, jobs, payload, conf, settledHints>>
    BY <1>2 DEF ReceiveHint
  <2> QED
    BY <1>1, <1>2, <2>1, BeginFrame
    DEF ReceiveHint, Frame, RowStep, Untouched, LockStep, Inv, LeadTypeOK
<1>3. CASE CreateFromHint(h) \/ RepeatHint(h)
  <2>1. /\ HintEnds(h) /\ UNCHANGED quarantined /\ lock = Free
        /\ sub.state \in {"absent", "pending"} /\ txn[h] # Idle
    BY <1>3 DEF CreateFromHint, RepeatHint, Unchanged
  <2>2. [sub EXCEPT !.state = "pending"] \in Submission /\ sub \in Submission
    BY DEF Inv, LeadTypeOK, Submission, States, Open
  <2>3. /\ jobs' \in [Jobs -> JobRecord]
        /\ \E j \in Jobs : sub' = [sub EXCEPT !.state = "pending", !.job = j]
    <3>1. CASE CreateFromHint(h)
      BY <2>1, <2>2, <3>1, EnqueueFacts DEF CreateFromHint
    <3>2. CASE RepeatHint(h)
      <4>1. /\ jobs' \in [Jobs -> JobRecord] /\ sub.state = "pending"
            /\ \E j \in Jobs : sub' = [sub EXCEPT !.job = j]
        BY <2>1, <2>2, <3>2, EnqueueFacts DEF RepeatHint, Unchanged
      <4>2. \A j \in Jobs :
              [sub EXCEPT !.job = j] = [sub EXCEPT !.state = "pending", !.job = j]
        BY <2>2, <4>1 DEF Submission
      <4> QED
        BY <4>1, <4>2
    <3> QED
      BY <1>3, <3>1, <3>2
  <2>4. Close(h) /\ UNCHANGED <<lock, payload, conf, touches, released>>
        /\ settledHints' = settledHints \cup {h}
    BY <2>1 DEF HintEnds
  <2> QED
    BY <1>1, <2>1, <2>3, <2>4, CloseFrame
    DEF Frame, RowStep, Enqueued, LockStep, Inv, LeadTypeOK
<1>4. CASE LateHint(h)
  <2>1. Close(h) /\ UNCHANGED <<lock, payload, conf, jobs>> /\ Untouched
        /\ settledHints' = settledHints \cup {h}
    BY <1>4 DEF LateHint, HintEnds, Untouched
  <2> QED
    BY <1>1, <2>1, CloseFrame DEF Frame, RowStep, LockStep, Inv, LeadTypeOK
<1>5. CASE ConflictingHint(h)
  <2>1. Close(h) /\ UNCHANGED <<lock, payload, conf, jobs, released>>
        /\ settledHints' = settledHints \cup {h} /\ Settle("review") /\ lock = Free
    BY <1>5 DEF ConflictingHint, Unchanged
  <2> QED
    BY <1>1, <2>1, CloseFrame DEF Frame, RowStep, Settled, LockStep, Inv, LeadTypeOK
<1> QED
  BY <1>2, <1>3, <1>4, <1>5 DEF HintWork

LEMMA FetchStep ==
  ASSUME Inv, NEW w \in Workers,
         \/ FetchWork(w) \/ FetchRetries(w) \/ FetchDies(w)
         \/ FetchRejected(w) \/ FetchFails(w) \/ Crash(w)
  PROVE  Frame /\ RowStep /\ LockStep
<1>1. w \in Actors /\ w # Free
  BY LeadActors DEF Actors
<1>2. CASE \E j \in Jobs : StartFetch(w, j)
  <2>1. PICK j \in Jobs : StartFetch(w, j)
    BY <1>2
  <2>2. /\ Begin(w, j) /\ lock' = w /\ lock = Free /\ sub.state = "pending"
        /\ Untouched /\ UNCHANGED <<jobs, payload, conf, settledHints>>
    BY <2>1 DEF StartFetch, Begins, Untouched
  <2> QED
    BY <1>1, <2>2, BeginFrame DEF Frame, RowStep, Untouched, LockStep, Inv, LeadTypeOK
<1>3. ASSUME FetchEnds(w)
      PROVE  /\ lock = w /\ lock' = Free /\ sub.state = "pending"
             /\ TxnTypeOK' /\ LockStep
             /\ UNCHANGED <<payload, conf, settledHints, released>>
             /\ txn[w].payload \in Payload
  <2>1. lock = w /\ lock' = Free /\ Close(w)
        /\ UNCHANGED <<payload, conf, settledHints, released>>
    BY <1>3 DEF FetchEnds
  <2>2. txn[w] \in Transaction /\ sub.state = "pending"
    BY <1>1, <2>1 DEF Inv, LeadTypeOK, TxnTypeOK, Guarded
  <2> QED
    BY <1>1, <2>1, <2>2, CloseFrame DEF Transaction, LockStep
<1>4. CASE FetchApplies(w)
  <2>1. FetchEnds(w) /\ Apply(sub, txn[w].payload) /\ jobs' = Ended(txn[w].job)
    BY <1>4 DEF FetchApplies
  <2> QED
    BY <1>3, <2>1, JobTypes DEF Frame, RowStep, Applied, Open, Inv, LeadTypeOK
<1>5. CASE FetchRetries(w)
  <2>1. /\ FetchEnds(w) /\ UNCHANGED <<sub, touches, quarantined>>
        /\ jobs[txn[w].job].retry + 1 < AttemptCeiling
        /\ jobs' = [jobs EXCEPT ![txn[w].job].retry = @ + 1]
    BY <1>5 DEF FetchRetries
  <2>2. jobs' \in [Jobs -> JobRecord]
    <3>1. CASE txn[w].job \in Jobs
      <4>1. jobs[txn[w].job].retry + 1 \in 0..AttemptCeiling
        BY <2>1, <3>1, LeadBounds DEF Inv, LeadTypeOK, JobRecord
      <4> QED
        BY <2>1, <3>1, <4>1 DEF Inv, LeadTypeOK, JobRecord
    <3>2. CASE txn[w].job \notin Jobs
      BY <2>1, <3>2 DEF Inv, LeadTypeOK
    <3> QED
      BY <3>1, <3>2
  <2> QED
    BY <1>3, <2>1, <2>2 DEF Frame, RowStep, Untouched, Inv, LeadTypeOK
<1>6. CASE FetchDies(w) \/ FetchRejected(w)
  <2>1. /\ FetchEnds(w) /\ jobs' = Ended(txn[w].job)
        /\ \E state \in {"dead", "blocked", "review"} : Settle(state)
    BY <1>6 DEF FetchDies, FetchRejected
  <2> QED
    BY <1>3, <2>1, JobTypes DEF Frame, RowStep, Settled, Inv, LeadTypeOK
<1>7. CASE FetchFails(w) \/ Crash(w)
  <2>1. /\ FetchEnds(w) /\ UNCHANGED <<sub, touches, quarantined>>
        /\ \/ jobs' = [Ended(txn[w].job) EXCEPT ![txn[w].job].state = "failed"]
           \/ UNCHANGED jobs
    BY <1>7 DEF FetchFails, Crash
  <2> QED
    BY <1>3, <2>1, JobTypes DEF Frame, RowStep, Untouched, Inv, LeadTypeOK
<1> QED
  BY <1>2, <1>4, <1>5, <1>6, <1>7 DEF FetchWork

LEMMA PullStep ==
  ASSUME Inv, NEW p \in Pulls, PullWork(p) \/ PullConflicts(p) \/ PullRejected(p)
  PROVE  Frame /\ RowStep /\ LockStep
<1>1. p \in Actors /\ p \notin Workers
  BY LeadActors DEF Actors
<1>2. CASE StartPull(p)
  <2>1. /\ Begin(p, NoJob) /\ Untouched
        /\ UNCHANGED <<lock, jobs, payload, conf, settledHints>>
    BY <1>2 DEF StartPull, Untouched
  <2> QED
    BY <1>1, <2>1, BeginFrame DEF Frame, RowStep, LockStep, Inv, LeadTypeOK
<1>3. ASSUME PullEnds(p)
      PROVE  /\ Frame /\ LockStep /\ UNCHANGED <<lock, released>>
             /\ txn[p].payload \in Payload
  <2>1. /\ Close(p) /\ txn[p] # Idle
        /\ UNCHANGED <<lock, jobs, payload, conf, settledHints, released>>
    BY <1>3 DEF PullEnds
  <2>2. txn[p].payload \in Payload
    BY <1>1, <2>1 DEF Inv, TxnTypeOK, Transaction
  <2> QED
    BY <1>1, <2>1, <2>2, CloseFrame DEF Frame, LockStep, Inv, LeadTypeOK
<1>4. CASE PullSkips(p)
  BY <1>3, <1>4 DEF PullSkips, RowStep, Untouched
<1>5. CASE PullApplies(p)
  BY <1>3, <1>5 DEF PullApplies, Unchanged, Claims, RowStep, Applied
<1>6. CASE PullLooks(p)
  <2>1. /\ PullEnds(p) /\ lock = Free
        /\ Settle("review") \/ UNCHANGED <<sub, touches, quarantined>>
    BY <1>6 DEF PullLooks, Unchanged
  <2> QED
    BY <1>3, <2>1 DEF RowStep, Settled, Untouched
<1>7. CASE PullConflicts(p) \/ PullRejected(p)
  <2>1. PullEnds(p) /\ lock = Free /\ Settle("review")
    BY <1>7 DEF PullConflicts, PullRejected, Unchanged
  <2> QED
    BY <1>3, <2>1 DEF RowStep, Settled
<1> QED
  BY <1>2, <1>4, <1>5, <1>6, <1>7 DEF PullWork

LEMMA OtherStep ==
  ASSUME Inv,
         \/ \E j \in Jobs : StaleFetch(j) \/ OrphanFetch(j) \/ LoseJob(j)
         \/ \E t \in Hints \cup Pulls : Refused(t)
         \/ Requeue \/ ProviderEdit \/ Reconfigure
  PROVE  Frame /\ RowStep /\ LockStep
<1> USE DEF Inv, LeadTypeOK
<1>1. UNCHANGED <<lock, txn>> =>
        /\ TxnTypeOK' /\ LockStep /\ lock' \in Workers \cup {Free}
        /\ (lock' # Free => txn'[lock'] # Idle)
  BY DEF TxnTypeOK, LockStep
<1>2. ASSUME NEW j \in Jobs, StaleFetch(j)
      PROVE  Frame /\ RowStep /\ LockStep
  <2>1. /\ lock = Free /\ sub.state = "pending" /\ Settle("stale") /\ jobs' = Ended(j)
        /\ UNCHANGED <<payload, conf, lock, txn, settledHints, released>>
    BY <1>2 DEF StaleFetch, Begins
  <2> QED
    BY <1>1, <2>1, JobTypes DEF Frame, RowStep, Settled
<1>3. ASSUME NEW j \in Jobs, OrphanFetch(j) \/ LoseJob(j)
      PROVE  Frame /\ RowStep /\ LockStep
  <2>1. /\ Untouched /\ UNCHANGED <<payload, conf, lock, txn, settledHints>>
        /\ jobs' = Ended(j) \/ jobs' = [Ended(j) EXCEPT ![j].state = "failed"]
    BY <1>3 DEF OrphanFetch, LoseJob, Untouched
  <2>2. /\ Ended(j) \in [Jobs -> JobRecord]
        /\ [Ended(j) EXCEPT ![j].state = "failed"] \in [Jobs -> JobRecord]
    BY JobTypes
  <2>3. jobs' \in [Jobs -> JobRecord]
    BY <2>1, <2>2
  <2> QED
    BY <1>1, <2>1, <2>3 DEF Frame, RowStep
<1>4. ASSUME NEW t \in Hints \cup Pulls, Refused(t)
      PROVE  Frame /\ RowStep /\ LockStep
  <2>1. /\ Close(t) /\ Untouched /\ t \in Actors /\ t \notin Workers
        /\ UNCHANGED <<jobs, payload, conf, lock, settledHints>>
    BY <1>4, LeadActors DEF Refused, Untouched, Actors
  <2> QED
    BY <2>1, CloseFrame DEF Frame, RowStep, LockStep
<1>5. CASE Requeue
  <2>1. /\ lock = Free /\ Releasable(sub.state) /\ released < MaxReleases
        /\ released' = released + 1 /\ quarantined' = FALSE
        /\ UNCHANGED <<touches, payload, conf, lock, txn, settledHints>>
    BY <1>5 DEF Requeue
  <2>2. PICK j \in NewUuid : /\ jobs' = [jobs EXCEPT ![j] = Pending(conf.rev)]
                             /\ sub' = [sub EXCEPT !.state = "pending", !.job = j]
    BY <1>5 DEF Requeue
  <2>3. j \in Jobs /\ conf.rev \in Nat /\ released' \in 0..MaxReleases
    BY <2>1, LeadBounds DEF NewUuid, Unused, Configuration
  <2> QED
    BY <1>1, <2>1, <2>2, <2>3, JobTypes DEF Frame, RowStep, Released, Releasable
<1>6. CASE ProviderEdit
  <2>1. payload' \in Payload
    BY <1>6, LeadBounds DEF ProviderEdit, Payload
  <2> QED
    BY <1>1, <1>6, <2>1 DEF ProviderEdit, Frame, RowStep, Untouched
<1>7. CASE Reconfigure
  <2>1. conf' \in Configuration
    BY <1>7 DEF Reconfigure, Configuration
  <2> QED
    BY <1>1, <1>7, <2>1 DEF Reconfigure, Frame, RowStep, Untouched
<1> QED
  BY <1>2, <1>3, <1>4, <1>5, <1>6, <1>7

-----------------------------------------------------------------------------
LEMMA StepFacts ==
  ASSUME Inv, Next
  PROVE  Frame /\ RowStep /\ LockStep
<1>1. CASE \E h \in Hints : HintWork(h) \/ ConflictingHint(h)
  BY <1>1, HintStep
<1>2. CASE \E w \in Workers : \/ FetchWork(w) \/ FetchRetries(w) \/ FetchDies(w)
                              \/ FetchRejected(w) \/ FetchFails(w) \/ Crash(w)
  BY <1>2, FetchStep
<1>3. CASE \E p \in Pulls : PullWork(p) \/ PullConflicts(p) \/ PullRejected(p)
  BY <1>3, PullStep
<1> QED
  BY <1>1, <1>2, <1>3, OtherStep DEF Next

LEMMA StepInv == Inv /\ [Next]_leadVars => Inv'
<1> SUFFICES ASSUME Inv, [Next]_leadVars PROVE Inv'
  OBVIOUS
<1>1. CASE Next
  BY <1>1, StepFacts, RowStepKeeps DEF Inv, LeadTypeOK, Frame
<1>2. CASE UNCHANGED leadVars
  BY <1>2
  DEF leadVars, Inv, LeadTypeOK, TxnTypeOK, Guarded, Spent, OneStory, ConvergesOnOne,
      OneAnswerSet, IngestedIsLatest
<1> QED
  BY <1>1, <1>2

LEMMA Invariance == Spec => []Inv
BY InitInv, StepInv, PTL DEF Spec

\* Submission, jobs, configuration and touchpoint hold what the tables can hold,
\* and whoever holds the row lock is a worker with an open transaction.
THEOREM LeadTypes == Spec => []LeadTypeOK
BY Invariance, PTL DEF Inv

\* Webhook, fetch job and pull tell one story: one revision apart from what
\* administrators released, one answer set, and an ingested lead is the payload
\* of its last revision (_claim_reconcile_submission, _apply_lead).
THEOREM LeadTellsOneStory == Spec => []OneStory
BY Invariance, PTL DEF Inv

\* No handler gets past a review: the touchpoint grows only when an administrator
\* has requeued the submission (action_requeue).
THEOREM LeadQuarantine == Spec => QuarantineHolds
<1>1. Inv /\ [Next]_leadVars => [touches' # touches => ~quarantined]_leadVars
  <2> SUFFICES ASSUME Inv, Next, touches' # touches PROVE ~quarantined
    BY DEF leadVars
  <2>1. Applied
    BY StepFacts DEF RowStep, Untouched, Enqueued, Settled, Settle, Released
  <2> QED
    BY <2>1, AppliedKeeps
<1> QED
  BY <1>1, Invariance, PTL DEF Spec, QuarantineHolds
=============================================================================
