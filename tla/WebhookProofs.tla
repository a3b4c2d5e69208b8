--------------------------- MODULE WebhookProofs ---------------------------
(***************************************************************************)
(* Theorems about one delivery and its fan-out, and about one dispatch,    *)
(* for any number of workers, requests, jobs, retries, items, consumers    *)
(* and disturbances; at the end, about the response episodes that          *)
(* MCQueueWork has next to the dispatch.  A delivery and a dispatch are    *)
(* rows of FencedRow with outcomes of their own.                           *)
(*                                                                         *)
(* The row protocol keeps Ledger under every step.  The argument is one    *)
(* lemma: a transaction that closes leaves behind only transactions whose  *)
(* locks it did not touch, whatever it wrote, so that what they read is    *)
(* still true.                                                             *)
(*                                                                         *)
(* That dispatches exist only under a "dispatched" row is inductive only   *)
(* with Ledger (a worker that settles the row has read it as it is, still  *)
(* pending), and the fan-out reaches the current subscribers only because  *)
(* a transaction that can still commit has seen them (ConfigSeen).         *)
(* That a failed delivery gets no job by itself needs the queue: its job   *)
(* runs once at a time (RunsOnce), and what an open transaction remembers  *)
(* of a failed job is still so (Remembered).                               *)
(*                                                                         *)
(* EffectOnce alone is not inductive: a worker that committed from a stale *)
(* snapshot would handle a dispatch twice.  The invariant adds Ledger (a   *)
(* transaction that can still commit has read the current row, and no job  *)
(* runs in two of them) and the same for the routing policy.               *)
(***************************************************************************)
EXTENDS WebhookDelivery, MCQueueWork, Sequences, TLAPS, FiniteSetTheorems, WellFoundedInduction

Actors == Workers \cup Clients

Ledger == TypeOK /\ SnapshotCurrent /\ OneLiveRun

\* A spoiled transaction is the old one, or the old one with a conflict.
LEMMA SpoiledType ==
  ASSUME TypeOK, NEW u \in Actors
  PROVE  /\ Spoiled(u) \in Transaction \cup {Idle}
         /\ Spoiled(u) = Idle <=> txn[u] = Idle
         /\ txn[u] # Idle => /\ Spoiled(u).op = txn[u].op
                             /\ Spoiled(u).job = txn[u].job
                             /\ ~Spoiled(u).conflict =>
                                  Spoiled(u) = txn[u] /\ ~Overtaken(u)
<1>1. txn[u] \in Transaction \cup {Idle}
  BY DEF TypeOK, Actors
<1>2. CASE txn[u] # Idle /\ Overtaken(u)
  <2>1. [txn[u] EXCEPT !.conflict = TRUE] \in Transaction
    BY <1>1, <1>2 DEF Transaction
  <2> QED
    BY <1>1, <1>2, <2>1, IdleAssumption DEF Spoiled, Transaction
<1>3. CASE ~(txn[u] # Idle /\ Overtaken(u))
  BY <1>1, <1>3 DEF Spoiled
<1> QED
  BY <1>2, <1>3

\* What a step may do to an open transaction it does not begin.
Kept(u) == \/ txn'[u] = Idle
           \/ txn'[u] = Spoiled(u)
           \/ txn[u] # Idle /\ txn'[u] = [txn[u] EXCEPT !.conflict = TRUE]

LEMMA KeptType ==
  ASSUME TypeOK, NEW u \in Actors, Kept(u)
  PROVE  /\ txn'[u] \in Transaction \cup {Idle}
         /\ txn'[u] # Idle => /\ txn[u] # Idle
                              /\ txn'[u].op = txn[u].op
                              /\ txn'[u].job = txn[u].job
         /\ Locked(u)' => txn'[u] = txn[u] /\ ~Overtaken(u)
<1>1. CASE txn'[u] = Spoiled(u)
  BY <1>1, SpoiledType DEF Locked
<1>2. CASE txn[u] # Idle /\ txn'[u] = [txn[u] EXCEPT !.conflict = TRUE]
  BY <1>2 DEF TypeOK, Transaction, Actors, Locked
<1> QED
  BY <1>1, <1>2 DEF Kept, Locked

\* The values a step writes have their types.
Typed == /\ row' \in Row
         /\ row'.state \in Open => row'.state = "pending" /\ row'.attempts = 0
         /\ jobs' \in [Jobs -> JobRecord]
         /\ disturbances' \in 0..MaxDisturbances

\* Whatever a step writes, transactions that survive it unspoiled have read
\* nothing it changed.
LEMMA KeptPreserves ==
  ASSUME Ledger, Typed, txn' \in [Actors -> Transaction \cup {Idle}],
         NEW S \in SUBSET Actors, \A u \in S : Kept(u)
  PROVE  /\ \A u \in S : Locked(u)' =>
              /\ Locked(u) /\ txn'[u] = txn[u] /\ txn'[u].row = row'
              /\ u \in Workers => jobs'[txn'[u].job] = jobs[txn[u].job]
                                  /\ jobs'[txn'[u].job].state = "started"
         /\ S = Actors => Ledger'
<1>1. ASSUME NEW u \in S, Locked(u)'
      PROVE  /\ Locked(u) /\ txn'[u] = txn[u]
             /\ row' = row /\ txn'[u].row = row'
             /\ u \in Workers => jobs'[txn'[u].job] = jobs[txn[u].job]
                                 /\ jobs'[txn'[u].job].state = "started"
  <2>1. u \in Actors /\ Kept(u)
    OBVIOUS
  <2>2. txn'[u] = txn[u] /\ ~Overtaken(u) /\ Locked(u)
    BY <1>1, <2>1, KeptType DEF Ledger, Locked
  <2>3. txn[u].row = row /\ (u \in Workers => jobs[txn[u].job].state = "started")
    BY <2>1, <2>2 DEF Ledger, SnapshotCurrent, Actors
  <2>4. u \in Workers => txn[u].job # NoJob
    BY <2>2, NoJobAssumption DEF Ledger, TypeOK, Locked
  <2> QED
    BY <2>2, <2>3, <2>4 DEF Overtaken
<1>2. ASSUME S = Actors
      PROVE  Ledger'
  <2>1. TypeOK'
    BY <1>2, KeptType DEF Ledger, Typed, TypeOK, Actors
  <2>2. SnapshotCurrent'
    BY <1>1, <1>2 DEF SnapshotCurrent, Actors
  <2>3. OneLiveRun'
    BY <1>1, <1>2 DEF Ledger, OneLiveRun, Actors
  <2> QED
    BY <2>1, <2>2, <2>3 DEF Ledger
<1> QED
  BY <1>1, <1>2

LEMMA ClosePreserves ==
  ASSUME Ledger, NEW t \in Actors, Close(t), Typed
  PROVE  Ledger'
<1>1. \A u \in Actors : Kept(u)
  BY DEF Close, Kept, Actors
<1>2. txn' \in [Actors -> Transaction \cup {Idle}]
  BY SpoiledType DEF Ledger, Close, Actors
<1> QED
  BY <1>1, <1>2, KeptPreserves

LEMMA KeepOpenPreserves ==
  ASSUME Ledger, KeepOpen, Typed
  PROVE  Ledger'
<1>1. \A u \in Actors : Kept(u)
  BY DEF KeepOpen, Kept, Actors
<1>2. txn' \in [Actors -> Transaction \cup {Idle}]
  BY SpoiledType DEF Ledger, KeepOpen, Actors
<1> QED
  BY <1>1, <1>2, KeptPreserves

\* Ending a transaction without a trace, or spoiling the workers'.
LEMMA NothingWrittenPreserves ==
  ASSUME Ledger, UNCHANGED <<row, jobs>>, disturbances' \in 0..MaxDisturbances,
         \/ \E t \in Actors : txn' = [txn EXCEPT ![t] = Idle]
         \/ SpoilWorkers
         \/ UNCHANGED txn
  PROVE  Ledger'
<1>1. \A u \in Actors : ~Overtaken(u) /\ Spoiled(u) = txn[u]
  BY DEF Overtaken, Spoiled
<1>2. \A u \in Actors : Kept(u)
  BY <1>1 DEF SpoilWorkers, Kept, Ledger, TypeOK, Actors
<1>3. \A u \in Actors : txn'[u] \in Transaction \cup {Idle}
  BY <1>2, KeptType DEF Ledger
<1>4. txn' \in [Actors -> Transaction \cup {Idle}]
  BY <1>3 DEF SpoilWorkers, Ledger, TypeOK, Actors
<1>5. Typed
  BY DEF Typed, Ledger, TypeOK
<1> QED
  BY <1>2, <1>4, <1>5, KeptPreserves

LEMMA StartPreserves ==
  ASSUME Ledger, NEW w \in Workers, NEW j \in Jobs, Start(w, j)
  PROVE  Ledger'
<1>1. jobs' \in [Jobs -> JobRecord] /\ jobs'[j].state = "started"
  BY DEF Start, Ledger, TypeOK, JobRecord, JobStates, ActiveJobStates
<1>2. Typed
  BY <1>1 DEF Typed, Start, Ledger, TypeOK
<1>3. txn'[w] = Snapshot("process", j, jobs')
  BY DEF Start
<1>4. /\ txn'[w] \in Transaction /\ txn'[w].job = j /\ txn'[w].row = row'
      /\ txn'[w].op = "process"
  <2>1. jobs'[j].retry \in 0..QueueRetries
    BY <1>1 DEF JobRecord
  <2>2. Snapshot("process", j, jobs') \in Transaction
    BY <2>1, NoJobAssumption, QueueRetriesAssumption
    DEF Snapshot, Transaction, Ops, InState, Ledger, TypeOK
  <2> QED
    BY <1>3, <2>2 DEF Snapshot, Start
<1>5. \A u \in Actors \ {w} : Kept(u)
  BY DEF Start, Kept, Actors
<1>6. txn' \in [Actors -> Transaction \cup {Idle}]
  BY <1>4, SpoiledType DEF Start, Ledger, Actors
<1>7. \A u \in Actors \ {w} : Locked(u)' =>
        /\ Locked(u) /\ txn'[u] = txn[u] /\ txn'[u].row = row'
        /\ u \in Workers => jobs'[txn'[u].job] = jobs[txn[u].job]
                            /\ jobs'[txn'[u].job].state = "started"
  BY <1>2, <1>5, <1>6, KeptPreserves
<1>8. TypeOK'
  <2>1. \A u \in Actors \ {w} : txn'[u] # Idle =>
          txn[u] # Idle /\ txn'[u].op = txn[u].op /\ txn'[u].job = txn[u].job
    BY <1>5, KeptType DEF Ledger
  <2>2. w \notin Clients
    BY ActorsAssumption
  <2> QED
    BY <1>2, <1>4, <1>6, <2>1, <2>2 DEF Ledger, Typed, TypeOK, Actors
<1>9. SnapshotCurrent'
  BY <1>1, <1>4, <1>7 DEF SnapshotCurrent, Actors
<1>10. OneLiveRun'
  <2>1. \A u \in Workers \ {w} : Locked(u)' => txn'[u].job # j
    <3>1. jobs[j].state = "pending"
      BY DEF Start
    <3> QED
      BY <1>1, <1>7, <3>1 DEF Actors
  <2> QED
    BY <1>4, <1>7, <2>1 DEF OneLiveRun, Ledger, Actors
<1> QED
  BY <1>8, <1>9, <1>10 DEF Ledger

-----------------------------------------------------------------------------
(* Each step of the protocol.                                              *)

LEMMA PostponedType ==
  ASSUME NEW r \in 0..QueueRetries
  PROVE  Postponed(r) \in JobRecord /\ PostponedOutside(r) \in JobRecord
BY QueueRetriesAssumption
DEF Postponed, PostponedOutside, JobRecord, JobStates, ActiveJobStates

\* A worker that still holds its claim sees the row as it is, never attempted.
LEMMA ClaimedFacts ==
  ASSUME Ledger, NEW w \in Workers, Claimed(w)
  PROVE  /\ txn[w].row = row /\ row.state = "pending"
         /\ txn[w].job = row.job /\ txn[w].job \in Jobs
         /\ txn[w].retry \in 0..QueueRetries
         /\ Attempt(w) \in 1..(QueueRetries + 1)
<1>1. Locked(w) /\ w \in Actors /\ txn[w] \in Transaction
  BY DEF Claimed, Locked, Ledger, TypeOK, Actors
<1>2. txn[w].row = row
  BY <1>1 DEF Ledger, SnapshotCurrent, Actors
<1>3. row.state = "pending" /\ row.attempts = 0 /\ txn[w].job = row.job
  BY <1>2 DEF Claimed, Ledger, TypeOK
<1>4. txn[w].retry \in 0..QueueRetries /\ txn[w].job \in Jobs
  BY <1>1 DEF Transaction, Locked, Ledger, TypeOK
<1>5. Attempt(w) \in 1..(QueueRetries + 1)
  BY <1>2, <1>3, <1>4, QueueRetriesAssumption DEF Attempt, Max2
<1> QED
  BY <1>2, <1>3, <1>4, <1>5

LEMMA SettlePreserves ==
  ASSUME Ledger, NEW w \in Workers, NEW outcome \in Outcomes \cup {"dead"},
         Settle(w, outcome)
  PROVE  /\ Ledger'
         /\ row.state = "pending" /\ row'.state = outcome /\ row'.job = row.job
<1>1. /\ txn[w].row = row /\ row.state = "pending" /\ txn[w].job \in Jobs
      /\ Attempt(w) \in 0..(QueueRetries + 1)
  BY ClaimedFacts, QueueRetriesAssumption DEF Settle
<1>2. /\ row' \in Row /\ row'.state = outcome /\ row'.job = row.job
      /\ row'.state \notin Open
  BY <1>1, OutcomesAssumption DEF Settle, Row, RowStates, Open, Ledger, TypeOK
<1>3. jobs' \in [Jobs -> JobRecord]
  BY <1>1 DEF Settle, JobEnds, Completed, Ledger, TypeOK, JobRecord, JobStates
<1>4. Typed /\ Close(w)
  BY <1>2, <1>3 DEF Typed, Settle, JobEnds, Ledger, TypeOK
<1> QED
  BY <1>1, <1>2, <1>4, ClosePreserves DEF Actors

\* A worker's step that leaves the row alone: the job's new record is typed.
LEMMA JobEndsPreserves ==
  ASSUME Ledger, NEW w \in Workers, NEW r \in JobRecord,
         JobEnds(w, txn[w].job, r), UNCHANGED row
  PROVE  Ledger'
<1>1. jobs' \in [Jobs -> JobRecord]
  BY DEF JobEnds, Ledger, TypeOK
<1>2. Typed /\ Close(w)
  BY <1>1 DEF Typed, JobEnds, Ledger, TypeOK
<1> QED
  BY <1>2, ClosePreserves DEF Actors

LEMMA FailurePreserves ==
  ASSUME Ledger, NEW w \in Workers,
         Superseded(w) \/ Defer(w) \/ TransientFailure(w) \/ PermanentFailure(w)
  PROVE  Ledger' /\ UNCHANGED row
<1>1. txn[w] # Idle /\ txn[w] \in Transaction /\ txn[w].job \in Jobs
  BY DEF Superseded, Defer, TransientFailure, PermanentFailure, Claimed, Locked,
         Ledger, TypeOK
<1>2. txn[w].retry \in 0..QueueRetries /\ jobs[txn[w].job] \in JobRecord
  BY <1>1 DEF Transaction, Ledger, TypeOK
<1>3. CASE Superseded(w)
  <2>1. Completed(txn[w].job) \in JobRecord
    BY <1>2 DEF Completed, JobRecord, JobStates
  <2> QED
    BY <1>3, <2>1, JobEndsPreserves DEF Superseded
<1>4. CASE Defer(w)
  BY <1>2, <1>4, PostponedType, JobEndsPreserves DEF Defer
<1>5. CASE TransientFailure(w)
  BY <1>2, <1>5, PostponedType, JobEndsPreserves DEF TransientFailure
<1>6. CASE PermanentFailure(w)
  <2>1. [state |-> "failed", retry |-> Postponed(txn[w].retry).retry] \in JobRecord
    BY <1>2, PostponedType DEF JobRecord, JobStates
  <2> QED
    BY <1>6, <2>1, JobEndsPreserves DEF PermanentFailure
<1> QED
  BY <1>3, <1>4, <1>5, <1>6

LEMMA CrashPreserves ==
  ASSUME Ledger, NEW w \in Workers, Crash(w)
  PROVE  Ledger' /\ UNCHANGED row
<1>1. w \in Actors /\ txn' = [txn EXCEPT ![w] = Idle] /\ UNCHANGED <<row, jobs>>
  BY DEF Crash, Actors
<1>2. disturbances' \in 0..MaxDisturbances
  BY BoundAssumption DEF Crash, Disturb, Ledger, TypeOK
<1> QED
  BY <1>1, <1>2, NothingWrittenPreserves

-----------------------------------------------------------------------------
LEMMA BeginClientPreserves ==
  ASSUME Ledger, NEW c \in Clients, NEW op \in Ops \ {"process"},
         txn[c] = Idle, txn' = [txn EXCEPT ![c] = Snapshot(op, NoJob, jobs)],
         UNCHANGED <<row, jobs, disturbances>>
  PROVE  Ledger' /\ UNCHANGED row
<1> DEFINE t == Snapshot(op, NoJob, jobs)
<1>1. t \in Transaction /\ t.op # "process" /\ t.job = NoJob /\ t.row = row
  BY QueueRetriesAssumption DEF Snapshot, Transaction, InState, Ledger, TypeOK
<1>2. c \notin Workers
  BY ActorsAssumption
<1>3. TypeOK'
  BY <1>1, <1>2 DEF Ledger, TypeOK
<1>4. \A u \in Actors : u # c => txn'[u] = txn[u]
  BY DEF Ledger, TypeOK, Actors
<1>5. txn'[c] = t
  BY DEF Ledger, TypeOK
<1>6. SnapshotCurrent'
  BY <1>1, <1>2, <1>4, <1>5 DEF Ledger, SnapshotCurrent, Locked, Actors
<1>7. OneLiveRun'
  BY <1>2, <1>4 DEF Ledger, OneLiveRun, Locked, Actors
<1> QED
  BY <1>3, <1>6, <1>7 DEF Ledger

\* Enqueueing writes a pending row that names no job, its own job, an adopted
\* or a new one.
LEMMA EnqueueType ==
  ASSUME Ledger, NEW c \in Clients, txn[c] # Idle,
         NEW r \in Row, r.state = "pending", r.attempts = 0, Enqueue(c, r)
  PROVE  /\ row' \in Row /\ row'.state = "pending" /\ row'.attempts = 0
         /\ jobs' \in [Jobs -> JobRecord]
<1>1. txn[c].active \subseteq Jobs
  BY DEF Ledger, TypeOK, Transaction
<1>2. CASE \E j \in txn[c].active : row' = [r EXCEPT !.job = j] /\ UNCHANGED jobs
  BY <1>1, <1>2 DEF Row, Ledger, TypeOK
<1>3. CASE row' = r /\ UNCHANGED jobs
  BY <1>3 DEF Ledger, TypeOK
<1>4. CASE \E j \in InState(jobs, {"unborn"}) :
             jobs' = [jobs EXCEPT ![j] = Fresh] /\ row' = [r EXCEPT !.job = j]
  <2>1. Fresh \in JobRecord
    BY QueueRetriesAssumption DEF Fresh, JobRecord, JobStates, ActiveJobStates
  <2>2. PICK j \in Jobs : jobs' = [jobs EXCEPT ![j] = Fresh]
                          /\ row' = [r EXCEPT !.job = j]
    BY <1>4 DEF InState
  <2> QED
    BY <2>1, <2>2 DEF Row, Ledger, TypeOK
<1> QED
  BY <1>2, <1>3, <1>4 DEF Enqueue

LEMMA EnqueuePreserves ==
  ASSUME Ledger, NEW c \in Clients, txn[c] # Idle,
         NEW r \in Row, r.state = "pending", r.attempts = 0, Enqueue(c, r),
         Close(c), disturbances' \in 0..MaxDisturbances
  PROVE  Ledger' /\ row'.state = "pending"
<1>1. Typed /\ row'.state = "pending"
  BY EnqueueType DEF Typed
<1> QED
  BY <1>1, ClosePreserves DEF Actors

LEMMA ReopenedType == Reopened \in Row
BY QueueRetriesAssumption DEF Reopened, Row, RowStates, Open

\* The row a request has locked is the row as it is now.
LEMMA LockedRow ==
  ASSUME Ledger, NEW u \in Actors, Locked(u)
  PROVE  txn[u].row = row /\ txn[u] # Idle
BY DEF Ledger, SnapshotCurrent, Locked, Actors

LEMMA EnqueueOpenPreserves ==
  ASSUME Ledger, NEW c \in Clients, EnqueueOpen(c)
  PROVE  Ledger' /\ row.state = "pending" /\ row'.state = "pending"
<1>1. txn[c].row = row /\ txn[c] # Idle
  BY LockedRow DEF EnqueueOpen, Actors
<1>2. row \in Row /\ row.state = "pending" /\ row.attempts = 0
  BY <1>1 DEF EnqueueOpen, Ledger, TypeOK
<1>3. disturbances' \in 0..MaxDisturbances
  BY DEF EnqueueOpen, Ledger, TypeOK
<1> QED
  BY <1>1, <1>2, <1>3, EnqueuePreserves DEF EnqueueOpen

LEMMA RequeuePreserves ==
  ASSUME Ledger, NEW c \in Clients, ActionRequeue(c) \/ ReviveUnrouted(c)
  PROVE  /\ Ledger' /\ row'.state = "pending"
         /\ row.state \in RowStates \ (Final \cup {"absent"})
<1>1. txn[c].row = row /\ txn[c] # Idle
  BY LockedRow DEF ActionRequeue, ReviveUnrouted, Actors
<1>2. row.state \in RowStates \ (Final \cup {"absent"})
  BY <1>1, OutcomesAssumption
  DEF ActionRequeue, ReviveUnrouted, Ledger, TypeOK, Row
<1>3. disturbances' \in 0..MaxDisturbances
  BY BoundAssumption DEF ActionRequeue, ReviveUnrouted, Disturb, Ledger, TypeOK
<1>4. Enqueue(c, Reopened) /\ Close(c)
  BY DEF ActionRequeue, ReviveUnrouted
<1>5. Reopened.state = "pending" /\ Reopened.attempts = 0
  BY DEF Reopened
<1> QED
  BY <1>1, <1>2, <1>3, <1>4, <1>5, ReopenedType, EnqueuePreserves

LEMMA RecoverPreserves ==
  ASSUME Ledger, NEW c \in Clients, RecoverOrphan(c)
  PROVE  Ledger' /\ row.state = "pending" /\ row'.state = "pending"
<1> DEFINE r == [row EXCEPT !.state = "pending", !.job = NoJob]
<1>1. txn[c].row = row /\ txn[c] # Idle
  BY LockedRow DEF RecoverOrphan, Actors
<1>2. row \in Row /\ row.state = "pending" /\ row.attempts = 0
  BY <1>1 DEF RecoverOrphan, Ledger, TypeOK
<1>3. r \in Row /\ r.state = "pending" /\ r.attempts = 0
  BY <1>2 DEF Row
<1>4. disturbances' \in 0..MaxDisturbances
  BY DEF RecoverOrphan, Ledger, TypeOK
<1>5. Enqueue(c, r) /\ Close(c)
  BY <1>1 DEF RecoverOrphan
<1> HIDE DEF r
<1> QED
  BY <1>1, <1>2, <1>3, <1>4, <1>5, EnqueuePreserves

\* Requests, administrator actions and cron runs: the row is left alone, or
\* an open or reopenable row becomes pending.
LEMMA ClientPreserves ==
  ASSUME Ledger, NEW c \in Clients, ClientSteps(c)
  PROVE  /\ Ledger'
         /\ \/ UNCHANGED row
            \/ /\ row.state \in RowStates \ (Final \cup {"absent"})
               /\ row'.state = "pending"
<1>1. CASE \E op \in {"requeue", "recover", "revive"} : BeginClient(c, op)
  BY <1>1, BeginClientPreserves DEF BeginClient, Ops
<1>2. CASE ActionRequeue(c) \/ ReviveUnrouted(c)
  BY <1>2, RequeuePreserves
<1>3. CASE RecoverOrphan(c)
  BY <1>3, RecoverPreserves, OutcomesAssumption DEF RowStates, Open
<1>4. CASE Rollback(c)
  BY <1>4, NothingWrittenPreserves DEF Rollback, Ledger, TypeOK, Actors
<1> QED
  BY <1>1, <1>2, <1>3, <1>4 DEF ClientSteps

LEMMA QueuePreserves ==
  ASSUME Ledger, NEW j \in Jobs, QueueSteps(j)
  PROVE  Ledger' /\ UNCHANGED row
<1>1. PICK r \in JobRecord : ChangeJob(j, r)
  <2>1. Fresh \in JobRecord /\ jobs[j] \in JobRecord
    BY QueueRetriesAssumption
    DEF Fresh, JobRecord, JobStates, ActiveJobStates, Ledger, TypeOK
  <2>2. \A s \in JobStates : [jobs[j] EXCEPT !.state = s] \in JobRecord
    BY <2>1 DEF JobRecord
  <2>3. "pending" \in JobStates /\ "gone" \in JobStates
    BY DEF JobStates, ActiveJobStates
  <2> QED
    BY <2>1, <2>2, <2>3
    DEF QueueSteps, RunnerReset, Duplicate, RetryFailedJob, LoseJob
<1>2. disturbances' \in 0..MaxDisturbances
  BY BoundAssumption
  DEF QueueSteps, RunnerReset, Duplicate, RetryFailedJob, LoseJob, Disturb,
      Ledger, TypeOK
<1>3. Typed /\ KeepOpen /\ UNCHANGED row
  BY <1>1, <1>2 DEF ChangeJob, Typed, Ledger, TypeOK
<1> QED
  BY <1>3, KeepOpenPreserves

\* Only Start opens a worker's transaction.
LEMMA LocksOnlyByStart ==
  ASSUME Ledger, NEW u \in Workers, Locked(u)',
         \/ \E t \in Actors : Close(t) \/ txn' = [txn EXCEPT ![t] = Idle]
         \/ KeepOpen
         \/ \E c \in Clients, op \in Ops : BeginClient(c, op)
         \/ UNCHANGED txn
  PROVE  Locked(u)
<1>1. u \in Actors /\ u \notin Clients
  BY ActorsAssumption DEF Actors
<1>2. txn'[u] = Idle \/ txn'[u] = Spoiled(u) \/ txn'[u] = txn[u]
  BY <1>1 DEF Close, KeepOpen, BeginClient, Ledger, TypeOK, Actors
<1> QED
  BY <1>1, <1>2, SpoiledType DEF Locked, Ledger

\* Two workers that can still settle the row run one job, and are the same.
LEMMA LedgerClaimIsExclusive ==
  ASSUME Ledger
  PROVE  ClaimIsExclusive
<1> SUFFICES ASSUME NEW v \in Workers, NEW w \in Workers, Claimed(v), Claimed(w)
             PROVE  v = w
  BY DEF ClaimIsExclusive
<1>1. txn[v].job = row.job /\ txn[w].job = row.job
  BY ClaimedFacts
<1> QED
  BY <1>1 DEF Ledger, OneLiveRun, Claimed

------------------------------------------------------------------------------
(* The delivery.                                                           *)

\* The endpoint and the subscriptions a live worker has read are current.
ConfigSeen ==
  \A w \in Workers : Locked(w) => /\ view[w].active = config.active
                                  /\ view[w].subs = config.subs

DeliveryInv == Ledger /\ DeliveryTypeOK /\ ConfigSeen /\ FanoutAllOrNothing

\* What a step may do to the row and the dispatches.
FanoutStep ==
  \/ UNCHANGED <<row.state, dispatches>>
  \/ /\ row.state = "pending" /\ row'.state = "dispatched" /\ config.active
     /\ \E I \in SUBSET Items :
          /\ I \X config.subs # {}
          /\ dispatches' = dispatches \cup (I \X config.subs)
  \/ /\ row.state = "pending" /\ row'.state \in {"stale", "unrouted", "dead"}
     /\ UNCHANGED dispatches /\ (row'.state = "stale" => ~config.active)
  \/ /\ row.state \in RowStates \ {"dispatched"} /\ row'.state = "pending"
     /\ UNCHANGED dispatches

LEMMA AbsentRow ==
  /\ Absent \in Row /\ Absent.state = "absent"
  /\ [Absent EXCEPT !.state = "pending"] \in Row
  /\ [Absent EXCEPT !.state = "pending"].state = "pending"
  /\ [Absent EXCEPT !.state = "pending"].attempts = 0
BY QueueRetriesAssumption DEF Absent, Row, RowStates, Open

LEMMA DeliveryInitInv == Init => DeliveryInv
<1> SUFFICES ASSUME Init PROVE DeliveryInv
  OBVIOUS
<1>1. TypeOK
  BY AbsentRow, QueueRetriesAssumption, BoundAssumption
  DEF Init, TypeOK, Open, JobRecord, JobStates, ActiveJobStates, Unborn
<1>2. \A u \in Actors : ~Locked(u)
  BY DEF Init, Locked, Actors
<1>3. Ledger /\ ConfigSeen
  BY <1>1, <1>2 DEF Ledger, SnapshotCurrent, OneLiveRun, ConfigSeen, Actors
<1>4. config \in Config
  BY DEF Init, Config
<1>5. DeliveryTypeOK
  BY <1>1, <1>4 DEF Init, DeliveryTypeOK
<1>6. FanoutAllOrNothing
  BY AbsentRow DEF Init, FanoutAllOrNothing
<1> QED
  BY <1>3, <1>5, <1>6 DEF DeliveryInv

-----------------------------------------------------------------------------
\* A step that leaves configuration, views and dispatches alone, and opens no
\* worker's transaction.
LEMMA DeliveryQuietInv ==
  ASSUME DeliveryInv, LedgerOnly, Ledger',
         \A u \in Workers : Locked(u)' => Locked(u)
  PROVE  DeliveryTypeOK' /\ ConfigSeen' /\ UNCHANGED dispatches
BY DEF DeliveryInv, LedgerOnly, DeliveryTypeOK, ConfigSeen, Ledger

\* The same for a request, which may take its snapshot or be accepted.
LEMMA RequestInv ==
  ASSUME DeliveryInv, NEW c \in Clients, UNCHANGED <<config, dispatches>>, Ledger',
         view' = view \/ view' = [view EXCEPT ![c] = config],
         accepted' \subseteq accepted \cup {c},
         \A u \in Workers : Locked(u)' => Locked(u)
  PROVE  DeliveryTypeOK' /\ ConfigSeen' /\ UNCHANGED dispatches
<1>1. \A u \in Workers : view'[u] = view[u]
  BY ActorsAssumption DEF DeliveryInv, DeliveryTypeOK
<1> QED
  BY <1>1 DEF DeliveryInv, DeliveryTypeOK, ConfigSeen, Ledger

LEMMA PostInv ==
  ASSUME DeliveryInv, NEW c \in Clients, Post(c)
  PROVE  Ledger' /\ DeliveryTypeOK' /\ ConfigSeen' /\ FanoutStep
<1>1. CASE ReceivePost(c)
  <2>1. Ledger' /\ UNCHANGED row
    BY <1>1, BeginClientPreserves DEF ReceivePost, DeliveryInv, Ops
  <2>2. \A u \in Workers : Locked(u)' => Locked(u)
    <3>1. \A u \in Workers : txn'[u] = txn[u]
      BY <1>1, ActorsAssumption DEF ReceivePost, DeliveryInv, Ledger, TypeOK
    <3> QED
      BY <3>1 DEF Locked
  <2> QED
    BY <1>1, <2>1, <2>2, RequestInv DEF ReceivePost, FanoutStep
<1>2. CASE Admit(c) \/ Reenqueue(c) \/ AcknowledgeSettled(c)
  <2>1. Close(c) /\ Locked(c) /\ c \in Actors
    BY <1>2 DEF Admit, Reenqueue, EnqueueOpen, AcknowledgeSettled, Actors
  <2>2. txn[c].row = row /\ txn[c] # Idle
    BY <2>1, LockedRow DEF DeliveryInv
  <2>3. /\ Ledger'
        /\ \/ UNCHANGED row
           \/ row.state \in {"absent", "pending"} /\ row'.state = "pending"
    <3>1. CASE Admit(c)
      <4>1. disturbances' \in 0..MaxDisturbances
        BY <3>1 DEF Admit, DeliveryInv, Ledger, TypeOK
      <4> QED
        BY <2>2, <3>1, <4>1, AbsentRow, EnqueuePreserves DEF Admit, DeliveryInv
    <3>2. CASE Reenqueue(c)
      BY <3>2, EnqueueOpenPreserves DEF Reenqueue, DeliveryInv
    <3>3. CASE AcknowledgeSettled(c)
      BY <2>1, <3>3, ClosePreserves
      DEF AcknowledgeSettled, Typed, DeliveryInv, Ledger, TypeOK
    <3> QED
      BY <1>2, <3>1, <3>2, <3>3
  <2>4. \A u \in Workers : Locked(u)' => Locked(u)
    BY <2>1, LocksOnlyByStart DEF DeliveryInv
  <2>5. DeliveryTypeOK' /\ ConfigSeen' /\ UNCHANGED dispatches
    BY <1>2, <2>3, <2>4, RequestInv DEF Admit, Reenqueue, AcknowledgeSettled
  <2> QED
    BY <2>3, <2>5 DEF FanoutStep, RowStates, Open
<1> QED
  BY <1>1, <1>2 DEF Post

LEMMA DeliveryClientInv ==
  ASSUME DeliveryStates, DeliveryInv, NEW c \in Clients, Client(c)
  PROVE  Ledger' /\ DeliveryTypeOK' /\ ConfigSeen' /\ FanoutStep
<1>1. Ledger' /\ (\/ UNCHANGED row
                  \/ /\ row.state \in RowStates \ {"dispatched"}
                     /\ row'.state = "pending")
  BY ClientPreserves DEF Client, DeliveryInv, DeliveryStates
<1>2. \/ \E t \in Actors : Close(t) \/ txn' = [txn EXCEPT ![t] = Idle]
      \/ \E d \in Clients, op \in Ops : BeginClient(d, op)
  BY DEF Client, ClientSteps, ActionRequeue, RecoverOrphan, ReviveUnrouted,
         Rollback, Actors, Ops
<1>3. \A u \in Workers : Locked(u)' => Locked(u)
  BY <1>2, LocksOnlyByStart DEF DeliveryInv
<1> QED
  BY <1>1, <1>3, DeliveryQuietInv DEF Client, FanoutStep

-----------------------------------------------------------------------------
LEMMA StartFanoutInv ==
  ASSUME DeliveryInv, NEW w \in Workers, NEW j \in Jobs, StartFanout(w, j)
  PROVE  Ledger' /\ DeliveryTypeOK' /\ ConfigSeen' /\ FanoutStep
<1>1. Ledger' /\ UNCHANGED row
  BY StartPreserves DEF StartFanout, DeliveryInv, Start
<1>2. /\ view' = [view EXCEPT ![w] = config]
      /\ view' \in [Workers \cup Clients -> Config] /\ view'[w] = config
  BY DEF StartFanout, DeliveryInv, DeliveryTypeOK
<1>3. \A u \in Workers \ {w} : Locked(u)' => Locked(u)
  <2> SUFFICES ASSUME NEW u \in Workers \ {w}, Locked(u)'
               PROVE  Locked(u)
    OBVIOUS
  <2>1. txn'[u] = Spoiled(u) /\ u \in Actors
    BY DEF StartFanout, Start, Actors
  <2> QED
    BY <2>1, SpoiledType DEF Locked, DeliveryInv, Ledger
<1>4. ConfigSeen'
  BY <1>2, <1>3 DEF StartFanout, ConfigSeen, DeliveryInv, DeliveryTypeOK
<1> QED
  BY <1>1, <1>2, <1>4
  DEF StartFanout, DeliveryTypeOK, Ledger, DeliveryInv, FanoutStep

\* A worker that settles the row commits what it has seen, which is current.
LEMMA DeliveryOutcomeInv ==
  ASSUME DeliveryStates, DeliveryInv, NEW w \in Workers,
         FanOut(w) \/ PausedFanout(w) \/ FanoutFails(w)
  PROVE  Ledger' /\ DeliveryTypeOK' /\ ConfigSeen' /\ FanoutStep
<1>1. Claimed(w) /\ Close(w) /\ w \in Actors
  BY DEF FanOut, PausedFanout, FanoutFails, Settle, Defer, Exhaust, JobEnds, Actors
<1>2. /\ view[w].active = config.active /\ view[w].subs = config.subs
      /\ view[w].routed \subseteq Items /\ config.subs \subseteq Consumers
  BY <1>1 DEF DeliveryInv, ConfigSeen, Claimed, DeliveryTypeOK, Config
<1>3. Targets(w) = view[w].routed \X config.subs
  BY <1>2 DEF Targets
<1>4. \A u \in Workers : Locked(u)' => Locked(u)
  BY <1>1, LocksOnlyByStart DEF DeliveryInv
<1>5. CASE FanOut(w)
  <2> DEFINE o == IF Targets(w) = {} THEN "unrouted" ELSE "dispatched"
  <2>1. o \in Outcomes
    BY DEF DeliveryStates
  <2>2. Settle(w, o)
    BY <1>5 DEF FanOut
  <2>3. Ledger' /\ row.state = "pending" /\ row'.state = o
    BY <2>1, <2>2, SettlePreserves DEF DeliveryInv
  <2>4. /\ dispatches' = dispatches \cup Targets(w) /\ config.active
        /\ UNCHANGED <<config, view, accepted>>
    BY <1>2, <1>5 DEF FanOut
  <2>5. DeliveryTypeOK' /\ ConfigSeen'
    BY <1>2, <1>3, <1>4, <2>3, <2>4 DEF DeliveryInv, DeliveryTypeOK, ConfigSeen, Ledger
  <2>6. FanoutStep
    <3>1. CASE Targets(w) = {}
      BY <2>3, <2>4, <3>1 DEF FanoutStep
    <3>2. CASE Targets(w) # {}
      BY <1>2, <1>3, <2>3, <2>4, <3>2 DEF FanoutStep
    <3> QED
      BY <3>1, <3>2
  <2> QED
    BY <2>3, <2>5, <2>6
<1>6. CASE PausedFanout(w) \/ FanoutFails(w)
  <2>1. Ledger' /\ (\/ UNCHANGED row
                    \/ /\ row.state = "pending" /\ row'.state \in {"stale", "dead"}
                       /\ row'.state = "stale" => ~config.active)
    <3>1. CASE PausedFanout(w)
      BY <1>2, <3>1, SettlePreserves DEF PausedFanout, DeliveryStates, DeliveryInv
    <3>2. CASE FanoutFails(w) /\ Defer(w)
      BY <3>2, FailurePreserves DEF DeliveryInv
    <3>3. CASE FanoutFails(w) /\ Exhaust(w)
      BY <3>3, SettlePreserves DEF Exhaust, DeliveryInv
    <3> QED
      BY <1>6, <3>1, <3>2, <3>3 DEF FanoutFails
  <2>2. DeliveryTypeOK' /\ ConfigSeen' /\ UNCHANGED dispatches
    BY <1>4, <1>6, <2>1, DeliveryQuietInv DEF PausedFanout, FanoutFails
  <2> QED
    BY <2>1, <2>2 DEF FanoutStep
<1> QED
  BY <1>5, <1>6

LEMMA JobFanoutInv ==
  ASSUME DeliveryStates, DeliveryInv, NEW w \in Workers, JobFanout(w)
  PROVE  Ledger' /\ DeliveryTypeOK' /\ ConfigSeen' /\ FanoutStep
<1>1. CASE \E j \in Jobs : StartFanout(w, j)
  BY <1>1, StartFanoutInv
<1>2. CASE FanOut(w) \/ PausedFanout(w) \/ FanoutFails(w)
  BY <1>2, DeliveryOutcomeInv
<1>3. CASE /\ Superseded(w) \/ TransientFailure(w) \/ PermanentFailure(w) \/ Crash(w)
           /\ LedgerOnly
  <2>1. Ledger' /\ UNCHANGED row
    BY <1>3, FailurePreserves, CrashPreserves DEF DeliveryInv
  <2>2. \E t \in Actors : Close(t) \/ txn' = [txn EXCEPT ![t] = Idle]
    BY <1>3 DEF Superseded, TransientFailure, PermanentFailure, Crash, JobEnds, Actors
  <2>3. \A u \in Workers : Locked(u)' => Locked(u)
    BY <2>2, LocksOnlyByStart DEF DeliveryInv
  <2> QED
    BY <1>3, <2>1, <2>3, DeliveryQuietInv DEF FanoutStep
<1> QED
  BY <1>1, <1>2, <1>3 DEF JobFanout

-----------------------------------------------------------------------------
LEMMA DeliveryQueueInv ==
  ASSUME DeliveryInv, NEW j \in Jobs, Queue(j)
  PROVE  Ledger' /\ DeliveryTypeOK' /\ ConfigSeen' /\ FanoutStep
<1>1. Ledger' /\ UNCHANGED row
  BY QueuePreserves DEF Queue, DeliveryInv
<1>2. KeepOpen
  BY DEF Queue, QueueSteps, RunnerReset, Duplicate, RetryFailedJob, LoseJob, ChangeJob
<1>3. \A u \in Workers : Locked(u)' => Locked(u)
  BY <1>2, LocksOnlyByStart DEF DeliveryInv
<1> QED
  BY <1>1, <1>3, DeliveryQuietInv DEF Queue, FanoutStep

\* Every reconfiguration keeps the configuration's type.
LEMMA ToggleType ==
  ASSUME NEW S, NEW T \in SUBSET S, NEW x \in S
  PROVE  Toggle(x, T) \in SUBSET S
BY DEF Toggle

\* Reconfigure spoils the workers' transactions and those of some requests:
\* what it spoils is a transaction with a conflict, as before.
LEMMA ReconfigureInv ==
  ASSUME DeliveryInv, Reconfigure
  PROVE  Ledger' /\ DeliveryTypeOK' /\ ConfigSeen' /\ FanoutStep
<1>1. /\ UNCHANGED <<row, jobs, view, dispatches, accepted>>
      /\ disturbances' \in 0..MaxDisturbances
  BY BoundAssumption DEF Reconfigure, Disturb, DeliveryInv, Ledger, TypeOK
<1>2. config' \in Config
  <2>1. config \in Config
    BY DEF DeliveryInv, DeliveryTypeOK
  <2>2. CASE config' = [config EXCEPT !.active = ~@]
    BY <2>1, <2>2 DEF Config
  <2>3. CASE \E k \in Consumers : config' = [config EXCEPT !.subs = Toggle(k, @)]
    BY <2>1, <2>3, ToggleType DEF Config
  <2>4. CASE \E i \in Items : config' = [config EXCEPT !.routed = Toggle(i, @)]
    BY <2>1, <2>4, ToggleType DEF Config
  <2> QED
    BY <2>2, <2>3, <2>4 DEF Reconfigure
<1>3. \A u \in Actors : Overtaken(u) = FALSE /\ Spoiled(u) = txn[u]
  BY <1>1 DEF Overtaken, Spoiled
<1>4. \A u \in Actors : Kept(u)
  BY <1>3 DEF Reconfigure, Kept, Actors
<1>5. \A u \in Actors : txn'[u] \in Transaction \cup {Idle}
  BY <1>4, KeptType DEF DeliveryInv, Ledger
<1>6. txn' \in [Actors -> Transaction \cup {Idle}]
  BY <1>5 DEF Reconfigure, Actors
<1>7. Typed
  BY <1>1 DEF Typed, DeliveryInv, Ledger, TypeOK
<1>8. Ledger'
  BY <1>4, <1>6, <1>7, KeptPreserves DEF DeliveryInv
<1>9. \A u \in Workers : ~Locked(u)'
  BY DEF Reconfigure, Locked, DeliveryInv, Ledger, TypeOK, Transaction
<1> QED
  BY <1>1, <1>2, <1>8, <1>9
  DEF DeliveryInv, DeliveryTypeOK, Ledger, ConfigSeen, FanoutStep

LEMMA ChangeAssetInv ==
  ASSUME DeliveryInv, NEW i \in Items, ChangeAsset(i)
  PROVE  Ledger' /\ DeliveryTypeOK' /\ ConfigSeen' /\ FanoutStep
<1>1. disturbances' \in 0..MaxDisturbances
      /\ UNCHANGED <<row, jobs, txn, view, dispatches, accepted>>
  BY BoundAssumption DEF ChangeAsset, Disturb, DeliveryInv, Ledger, TypeOK
<1>2. Ledger'
  BY <1>1, NothingWrittenPreserves DEF DeliveryInv
<1>3. /\ config' \in Config
      /\ config'.active = config.active /\ config'.subs = config.subs
  BY ToggleType DEF ChangeAsset, DeliveryInv, DeliveryTypeOK, Config
<1>4. ConfigSeen'
  BY <1>1, <1>3 DEF DeliveryInv, ConfigSeen, Locked
<1> QED
  BY <1>1, <1>2, <1>3, <1>4 DEF DeliveryInv, DeliveryTypeOK, Ledger, FanoutStep

LEMMA DeliveryStutterInv ==
  ASSUME DeliveryInv, UNCHANGED deliveryVars
  PROVE  DeliveryInv' /\ FanoutStep
BY DEF DeliveryInv, deliveryVars, Ledger, TypeOK, SnapshotCurrent, OneLiveRun, Locked,
       DeliveryTypeOK, ConfigSeen, FanoutAllOrNothing, FanoutStep

LEMMA DeliveryStepInv ==
  ASSUME DeliveryStates, DeliveryInv, [Next]_deliveryVars
  PROVE  DeliveryInv' /\ FanoutStep
<1>1. CASE Next
  <2>1. Ledger' /\ DeliveryTypeOK' /\ ConfigSeen' /\ FanoutStep
    BY <1>1, PostInv, DeliveryClientInv, JobFanoutInv, DeliveryQueueInv, ReconfigureInv,
       ChangeAssetInv DEF Next
  <2>2. FanoutAllOrNothing'
    BY <2>1 DEF FanoutStep, DeliveryInv, FanoutAllOrNothing
  <2> QED
    BY <2>1, <2>2 DEF DeliveryInv
<1>2. CASE UNCHANGED deliveryVars
  BY <1>2, DeliveryStutterInv
<1> QED
  BY <1>1, <1>2

-----------------------------------------------------------------------------
\* Every reachable state satisfies the invariant.
THEOREM DeliveryInvariant == ASSUME DeliveryStates PROVE Spec => []DeliveryInv
<1>1. DeliveryInv /\ [Next]_deliveryVars => DeliveryInv'
  BY DeliveryStepInv
<1> QED
  BY DeliveryInitInv, <1>1, PTL DEF Spec

\* All variables keep their types, and open rows were never attempted.
THEOREM DeliveryTypes == ASSUME DeliveryStates PROVE Spec => []DeliveryTypeOK
BY DeliveryInvariant, PTL DEF DeliveryInv

\* _fanout_once: the dispatches of a delivery exist exactly when it says
\* "dispatched".
THEOREM DeliveryFanoutAllOrNothing ==
  ASSUME DeliveryStates PROVE Spec => []FanoutAllOrNothing
BY DeliveryInvariant, PTL DEF DeliveryInv

\* _lock_for_fanout: of all workers with an open transaction, at most one can
\* still settle the delivery.
THEOREM DeliveryClaimIsExclusive ==
  ASSUME DeliveryStates PROVE Spec => []ClaimIsExclusive
<1>1. DeliveryInv => ClaimIsExclusive
  BY LedgerClaimIsExclusive DEF DeliveryInv
<1> QED
  BY DeliveryInvariant, <1>1, PTL

\* _fanout_once: no retry, requeue or duplicate adds to a fan-out.
THEOREM DeliveryFanoutOnce == ASSUME DeliveryStates PROVE Spec => FanoutOnce
<1>1. DeliveryInv /\ [Next]_deliveryVars =>
        [dispatches # {} => dispatches' = dispatches]_deliveryVars
  BY DeliveryStepInv DEF DeliveryInv, FanoutAllOrNothing, FanoutStep
<1> QED
  BY DeliveryInvariant, <1>1, PTL DEF Spec, FanoutOnce

\* _lock_active_policy: the fan-out reaches the consumers subscribed when it
\* commits, and no delivery goes stale while endpoint and App are active.
THEOREM DeliveryFollowsSubscriptions ==
  ASSUME DeliveryStates PROVE Spec => FanoutFollowsSubscriptions
<1>1. DeliveryInv /\ [Next]_deliveryVars =>
        [ /\ dispatches' # dispatches =>
               config.active /\ \E I \in SUBSET Items : dispatches' = I \X config.subs
          /\ row'.state = "stale" /\ row.state # "stale" => ~config.active ]_deliveryVars
  <2> SUFFICES ASSUME DeliveryInv, [Next]_deliveryVars
               PROVE  /\ dispatches' # dispatches =>
                           /\ config.active
                           /\ \E I \in SUBSET Items : dispatches' = I \X config.subs
                      /\ row'.state = "stale" /\ row.state # "stale" => ~config.active
    OBVIOUS
  <2>1. FanoutStep
    BY DeliveryStepInv
  <2>2. row.state = "pending" => dispatches = {}
    BY DEF DeliveryInv, FanoutAllOrNothing
  <2> QED
    BY <2>1, <2>2 DEF FanoutStep
<1> QED
  BY DeliveryInvariant, <1>1, PTL DEF Spec, FanoutFollowsSubscriptions

-----------------------------------------------------------------------------
\* --- No silent budget.  As long as no runner restarts under a live worker, a
\* job runs once, and a settled job stays settled.
RunsOnce ==
  /\ \A w \in Workers : txn[w] # Idle => jobs[txn[w].job].state = "started"
  /\ \A v, w \in Workers :
       txn[v] # Idle /\ txn[w] # Idle /\ txn[v].job = txn[w].job => v = w

\* What a request that can still commit has read of the jobs may be stale, but
\* a job of the row that it took for neither active nor failed is settled.
Remembered ==
  /\ row.job \in Jobs => jobs[row.job].state # "unborn"
  /\ \A c \in Clients : Locked(c) =>
       /\ \A j \in txn[c].active : jobs[j].state # "unborn"
       /\ row.job \in Jobs /\ row.job \notin txn[c].active /\ row.job \notin txn[c].failed =>
            jobs[row.job].state \in {"done", "gone"}

\* What a step may do to the jobs, and which step may start another one.
JobsAge ==
  \A j \in Jobs : /\ jobs[j].state # "unborn" => jobs'[j].state # "unborn"
                  /\ jobs[j].state \in {"done", "gone"} => jobs'[j].state \in {"done", "gone"}

Silent ==
  row.state = "pending" /\ row.job # NoJob /\ jobs[row.job].state = "failed" =>
    \A j \in Jobs : jobs[j].state = "unborn" /\ jobs'[j].state # "unborn" =>
      \E c \in Clients : txn[c] # Idle /\ txn[c].op = "requeue" /\ txn'[c] = Idle

NoneBorn == \A j \in Jobs : jobs[j].state = "unborn" => jobs'[j].state = "unborn"

LEMMA RememberedKept ==
  ASSUME Ledger, Remembered, JobsAge,
         row'.job \in Jobs => jobs'[row'.job].state # "unborn",
         \A c \in Clients : Locked(c)' =>
           \/ Locked(c) /\ txn'[c] = txn[c] /\ row' = row
           \/ UNCHANGED <<row, jobs>> /\ \E op \in Ops : txn'[c] = Snapshot(op, NoJob, jobs)
  PROVE  Remembered'
<1> SUFFICES ASSUME NEW c \in Clients, Locked(c)'
             PROVE  /\ \A j \in txn'[c].active : jobs'[j].state # "unborn"
                    /\ row'.job \in Jobs /\ row'.job \notin txn'[c].active
                         /\ row'.job \notin txn'[c].failed =>
                            jobs'[row'.job].state \in {"done", "gone"}
  BY DEF Remembered
<1>1. CASE Locked(c) /\ txn'[c] = txn[c] /\ row' = row
  <2>1. txn[c].active \subseteq Jobs
    BY <1>1 DEF Locked, Ledger, TypeOK, Transaction
  <2> QED
    BY <1>1, <2>1 DEF Remembered, JobsAge
<1>2. CASE UNCHANGED <<row, jobs>> /\ \E op \in Ops : txn'[c] = Snapshot(op, NoJob, jobs)
  <2>1. /\ txn'[c].active = InState(jobs, ActiveJobStates)
        /\ txn'[c].failed = InState(jobs, {"failed"})
    BY <1>2 DEF Snapshot
  <2>2. \A j \in Jobs : jobs[j].state \in JobStates
    BY DEF Ledger, TypeOK, JobRecord
  <2> QED
    BY <1>2, <2>1, <2>2 DEF Remembered, InState, ActiveJobStates, JobStates
<1> QED
  BY <1>1, <1>2

\* The transactions that are not this step's own have read what it left.
LEMMA ClosedRemembers ==
  ASSUME Ledger, NEW t \in Actors, Close(t) \/ KeepOpen, NEW c \in Clients, Locked(c)'
  PROVE  Locked(c) /\ txn'[c] = txn[c] /\ row' = row
<1>1. c \in Actors /\ Kept(c)
  BY DEF Actors, Close, KeepOpen, Kept
<1>2. txn'[c] = txn[c] /\ ~Overtaken(c)
  BY <1>1, KeptType DEF Ledger
<1> QED
  BY <1>2 DEF Overtaken, Locked

LEMMA ClosedRuns ==
  ASSUME Ledger, NEW t \in Actors, Close(t) \/ KeepOpen, NEW w \in Workers, txn'[w] # Idle
  PROVE  /\ txn[w] # Idle /\ txn'[w].job = txn[w].job
         /\ Close(t) => w # t
<1>1. w \in Actors /\ Kept(w)
  BY DEF Actors, Close, KeepOpen, Kept
<1>2. txn[w] # Idle /\ txn'[w].job = txn[w].job
  BY <1>1, KeptType DEF Ledger
<1> QED
  BY <1>1, <1>2 DEF Close, Actors

\* A worker that ends its job leaves those of the others alone.
LEMMA JobEndsSilently ==
  ASSUME Ledger, RunsOnce, Remembered, NEW w \in Workers, txn[w] # Idle,
         NEW r \in JobRecord, r.state # "unborn", JobEnds(w, txn[w].job, r),
         row'.job = row.job
  PROVE  RunsOnce' /\ Remembered' /\ NoneBorn
<1>1. w \in Actors /\ Close(w) /\ txn[w].job \in Jobs /\ jobs[txn[w].job].state = "started"
  BY DEF Actors, JobEnds, Ledger, TypeOK, RunsOnce
<1>2. \A j \in Jobs : jobs'[j] = IF j = txn[w].job THEN r ELSE jobs[j]
  BY <1>1 DEF JobEnds, Ledger, TypeOK
<1>3. JobsAge /\ NoneBorn
  BY <1>1, <1>2 DEF JobsAge, NoneBorn
<1>4. RunsOnce'
  <2>1. \A v \in Workers : txn'[v] # Idle =>
          txn[v] # Idle /\ txn'[v].job = txn[v].job /\ v # w /\ txn[v].job \in Jobs
    BY <1>1, ClosedRuns DEF Ledger, TypeOK
  <2> QED
    BY <1>2, <2>1 DEF RunsOnce
<1>5. row'.job \in Jobs => jobs'[row'.job].state # "unborn"
  BY <1>3 DEF JobsAge, Remembered
<1>6. Remembered'
  BY <1>1, <1>3, <1>5, ClosedRemembers, RememberedKept
<1> QED
  BY <1>3, <1>4, <1>6

LEMMA WorkerEndsSilently ==
  ASSUME Ledger, RunsOnce, Remembered, NEW w \in Workers,
         \/ \E outcome \in Outcomes \cup {"dead"} : Settle(w, outcome)
         \/ Superseded(w) \/ Defer(w) \/ TransientFailure(w) \/ PermanentFailure(w)
  PROVE  RunsOnce' /\ Remembered' /\ NoneBorn
<1>1. txn[w] # Idle /\ txn[w] \in Transaction /\ txn[w].job \in Jobs
  BY DEF Settle, Superseded, Defer, TransientFailure, PermanentFailure, Claimed, Locked,
         Ledger, TypeOK
<1>2. txn[w].retry \in 0..QueueRetries /\ jobs[txn[w].job] \in JobRecord
  BY <1>1 DEF Transaction, Ledger, TypeOK
<1>3. /\ Completed(txn[w].job) \in JobRecord /\ Completed(txn[w].job).state # "unborn"
      /\ Postponed(txn[w].retry) \in JobRecord /\ Postponed(txn[w].retry).state # "unborn"
      /\ PostponedOutside(txn[w].retry) \in JobRecord
      /\ PostponedOutside(txn[w].retry).state # "unborn"
      /\ [state |-> "failed", retry |-> Postponed(txn[w].retry).retry] \in JobRecord
  <2>1. /\ Completed(txn[w].job) \in JobRecord /\ Completed(txn[w].job).state # "unborn"
    BY <1>2 DEF Completed, JobRecord, JobStates
  <2>2. /\ Postponed(txn[w].retry) \in JobRecord
        /\ PostponedOutside(txn[w].retry) \in JobRecord
    BY <1>2, PostponedType
  <2>3. Postponed(txn[w].retry).state # "unborn" /\ PostponedOutside(txn[w].retry).state # "unborn"
    BY DEF Postponed, PostponedOutside
  <2>4. [state |-> "failed", retry |-> Postponed(txn[w].retry).retry] \in JobRecord
    BY <2>2 DEF JobRecord, JobStates
  <2> QED BY <2>1, <2>2, <2>3, <2>4
<1>4. row'.job = row.job
  <2>1. CASE \E outcome \in Outcomes \cup {"dead"} : Settle(w, outcome)
    BY <2>1, SettlePreserves
  <2>2. CASE ~\E outcome \in Outcomes \cup {"dead"} : Settle(w, outcome)
    BY <2>2 DEF Superseded, Defer, TransientFailure, PermanentFailure
  <2> QED BY <2>1, <2>2
<1>5. PICK r \in JobRecord : r.state # "unborn" /\ JobEnds(w, txn[w].job, r)
  <2>1. CASE (\E outcome \in Outcomes \cup {"dead"} : Settle(w, outcome)) \/ Superseded(w)
    BY <1>3, <2>1 DEF Settle, Superseded
  <2>2. CASE Defer(w) \/ TransientFailure(w)
    BY <1>3, <2>2 DEF Defer, TransientFailure
  <2>3. CASE PermanentFailure(w)
    BY <1>3, <2>3 DEF PermanentFailure
  <2> QED BY <2>1, <2>2, <2>3
<1> QED
  BY <1>1, <1>4, <1>5, JobEndsSilently

LEMMA StartSilently ==
  ASSUME Ledger, RunsOnce, Remembered, NEW w \in Workers, NEW j \in Jobs, Start(w, j)
  PROVE  RunsOnce' /\ Remembered' /\ NoneBorn
<1>1. /\ jobs[j].state = "pending" /\ row' = row
      /\ \A i \in Jobs : jobs'[i] = IF i = j THEN [jobs[j] EXCEPT !.state = "started"] ELSE jobs[i]
  BY DEF Start, Ledger, TypeOK
<1>2. jobs'[j].state = "started"
  BY <1>1 DEF Ledger, TypeOK, JobRecord
<1>3. JobsAge /\ NoneBorn
  BY <1>1, <1>2 DEF JobsAge, NoneBorn
<1>4. \A u \in Actors : u # w => txn'[u] = Spoiled(u)
  BY DEF Start, Actors
<1>5. txn'[w].job = j
  BY DEF Start, Snapshot
<1>6. RunsOnce'
  <2>1. ASSUME NEW v \in Workers, v # w, txn'[v] # Idle
        PROVE  /\ txn[v] # Idle /\ txn'[v].job = txn[v].job /\ txn[v].job \in Jobs /\ txn[v].job # j
    <3>1. txn[v] # Idle /\ txn'[v].job = txn[v].job /\ txn[v].job \in Jobs
      BY <1>4, <2>1, SpoiledType DEF Actors, Ledger, TypeOK
    <3> QED BY <1>1, <3>1 DEF RunsOnce
  <2> QED
    BY <1>1, <1>2, <1>5, <2>1 DEF RunsOnce
<1>7. ASSUME NEW c \in Clients, Locked(c)' PROVE Locked(c) /\ txn'[c] = txn[c]
  <2>1. c \in Actors /\ c # w
    BY ActorsAssumption DEF Actors
  <2>2. txn'[c] = Spoiled(c)
    BY <1>4, <2>1
  <2> QED BY <1>7, <2>1, <2>2, SpoiledType DEF Locked, Ledger
<1>8. Remembered'
  <2>1. row'.job \in Jobs => jobs'[row'.job].state # "unborn"
    BY <1>1, <1>3 DEF JobsAge, Remembered
  <2> QED BY <1>1, <1>3, <1>7, <2>1, RememberedKept
<1> QED
  BY <1>3, <1>6, <1>8

\* Steps that leave row and jobs alone.
LEMMA QuietSilently ==
  ASSUME Ledger, RunsOnce, Remembered, UNCHANGED <<row, jobs>>,
         \A w \in Workers : txn'[w] # Idle => txn[w] # Idle /\ txn'[w].job = txn[w].job,
         \A c \in Clients : Locked(c)' =>
           \/ Locked(c) /\ txn'[c] = txn[c]
           \/ \E op \in Ops : txn'[c] = Snapshot(op, NoJob, jobs)
  PROVE  RunsOnce' /\ Remembered' /\ NoneBorn
<1>1. JobsAge /\ NoneBorn
  BY DEF JobsAge, NoneBorn
<1>2. RunsOnce'
  BY DEF RunsOnce
<1>3. row'.job \in Jobs => jobs'[row'.job].state # "unborn"
  BY DEF Remembered
<1>4. Remembered'
  BY <1>1, <1>3, RememberedKept
<1> QED
  BY <1>1, <1>2, <1>4

\* The queue's own steps, without duplicates.
LEMMA QueueSilently ==
  ASSUME Ledger, RunsOnce, Remembered, ~MayDuplicate, NEW j \in Jobs, QueueSteps(j)
  PROVE  RunsOnce' /\ Remembered' /\ NoneBorn
<1>1. PICK r : /\ ChangeJob(j, r) /\ r.state \notin {"unborn"} 
               /\ jobs[j].state \notin {"unborn", "done", "gone"}
               /\ \A w \in Workers : txn[w] # Idle => txn[w].job # j
  <2>1. CASE RunnerReset(j)
    BY <2>1 DEF RunnerReset, Running, Ledger, TypeOK, JobRecord
  <2>2. CASE RetryFailedJob(j)
    BY <2>2 DEF RetryFailedJob, Fresh, RunsOnce
  <2>3. CASE LoseJob(j)
    BY <2>3 DEF LoseJob, Running, Ledger, TypeOK, JobRecord
  <2> QED
    BY <2>1, <2>2, <2>3 DEF QueueSteps, Duplicate
<1>2. /\ KeepOpen /\ row' = row
      /\ \A i \in Jobs : jobs'[i] = IF i = j THEN r ELSE jobs[i]
  BY <1>1 DEF ChangeJob, Ledger, TypeOK
<1>3. JobsAge /\ NoneBorn
  BY <1>1, <1>2 DEF JobsAge, NoneBorn
<1>4. \A w \in Workers : txn'[w] # Idle =>
        txn[w] # Idle /\ txn'[w].job = txn[w].job /\ txn[w].job \in Jobs
  <2> TAKE w \in Workers
  <2>1. w \in Actors
    BY DEF Actors
  <2> QED BY <1>2, <2>1, ClosedRuns DEF Ledger, TypeOK
<1>5. RunsOnce'
  BY <1>1, <1>2, <1>4 DEF RunsOnce
<1>6. \A c \in Clients : Locked(c)' => Locked(c) /\ txn'[c] = txn[c] /\ row' = row
  <2> TAKE c \in Clients
  <2>1. c \in Actors
    BY DEF Actors
  <2> QED BY <1>2, <2>1, ClosedRemembers
<1>7. row'.job \in Jobs => jobs'[row'.job].state # "unborn"
  BY <1>2, <1>3 DEF JobsAge, Remembered
<1>8. Remembered'
  BY <1>3, <1>6, <1>7, RememberedKept
<1> QED
  BY <1>3, <1>5, <1>8

\* A request that enqueues: from r, the row as it wrote it.
LEMMA EnqueueSilently ==
  ASSUME Ledger, RunsOnce, Remembered, NEW c \in Clients, Locked(c), NEW r \in Row,
         r.job = NoJob \/ r.job = row.job, Enqueue(c, r), Close(c)
  PROVE  /\ RunsOnce' /\ Remembered'
         /\ \/ NoneBorn
            \/ txn[c].active = {} /\ r.job \notin txn[c].failed
<1>1. c \in Actors /\ txn[c] \in Transaction /\ txn[c].active \subseteq Jobs
  BY DEF Actors, Locked, Ledger, TypeOK, Transaction
<1>2. CASE UNCHANGED jobs
  <2>1. JobsAge /\ NoneBorn
    BY <1>2 DEF JobsAge, NoneBorn
  <2>2. row'.job \in Jobs => jobs'[row'.job].state # "unborn"
    <3>1. CASE \E j \in txn[c].active : row' = [r EXCEPT !.job = j]
      BY <1>1, <1>2, <3>1 DEF Remembered, Row
    <3>2. CASE row' = r
      BY <1>2, <3>2, NoJobAssumption DEF Remembered
    <3>3. CASE \E j \in InState(jobs, {"unborn"}) : jobs' = [jobs EXCEPT ![j] = Fresh]
      <4>1. PICK j \in Jobs : jobs[j].state = "unborn" /\ jobs' = [jobs EXCEPT ![j] = Fresh]
        BY <3>3 DEF InState
      <4>2. jobs'[j] = Fresh
        BY <4>1 DEF Ledger, TypeOK
      <4> QED BY <1>2, <4>1, <4>2 DEF Fresh
    <3> QED BY <3>1, <3>2, <3>3 DEF Enqueue
  <2>3. Remembered'
    BY <1>1, <2>1, <2>2, ClosedRemembers, RememberedKept
  <2>4. RunsOnce'
    BY <1>1, <1>2, ClosedRuns DEF RunsOnce
  <2> QED BY <2>1, <2>3, <2>4
<1>3. CASE /\ txn[c].active = {} /\ r.job \notin txn[c].failed
           /\ \E j \in InState(jobs, {"unborn"}) :
                jobs' = [jobs EXCEPT ![j] = Fresh] /\ row' = [r EXCEPT !.job = j]
  <2>1. PICK j \in Jobs : /\ jobs[j].state = "unborn" /\ jobs' = [jobs EXCEPT ![j] = Fresh]
                          /\ row' = [r EXCEPT !.job = j]
    BY <1>3 DEF InState
  <2>2. row'.job = j /\ \A i \in Jobs : jobs'[i] = IF i = j THEN Fresh ELSE jobs[i]
    BY <2>1 DEF Ledger, TypeOK, Row
  <2>3. JobsAge /\ (row'.job \in Jobs => jobs'[row'.job].state # "unborn")
    BY <2>1, <2>2 DEF JobsAge, Fresh
  <2>4. Remembered'
    BY <1>1, <2>3, ClosedRemembers, RememberedKept
  <2>5. \A w \in Workers : txn'[w] # Idle =>
          txn[w] # Idle /\ txn'[w].job = txn[w].job /\ txn[w].job \in Jobs /\ txn[w].job # j
    <3> TAKE w \in Workers
    <3> HAVE txn'[w] # Idle
    <3>1. txn[w] # Idle /\ txn'[w].job = txn[w].job
      BY <1>1, ClosedRuns
    <3>2. txn[w].job \in Jobs /\ jobs[txn[w].job].state = "started"
      BY <3>1 DEF RunsOnce, Ledger, TypeOK
    <3> QED BY <2>1, <3>1, <3>2
  <2>6. RunsOnce'
    BY <2>2, <2>5 DEF RunsOnce
  <2> QED BY <1>3, <2>4, <2>6
<1> QED
  BY <1>2, <1>3 DEF Enqueue

\* While the row's job is failed, a request that holds the row knows it.
LEMMA FailedIsKnown ==
  ASSUME Ledger, Remembered, NEW c \in Clients, Locked(c), row.job # NoJob,
         jobs[row.job].state = "failed", txn[c].active = {}
  PROVE  row.job \in txn[c].failed
<1>1. row.job \in Jobs
  BY DEF Ledger, TypeOK, Row
<1> QED
  BY <1>1 DEF Remembered

LEMMA ClientSilently ==
  ASSUME Ledger, RunsOnce, Remembered, NEW c \in Clients, ClientSteps(c) \/ EnqueueOpen(c)
  PROVE  RunsOnce' /\ Remembered' /\ Silent
<1>1. c \in Actors /\ c \notin Workers
  BY ActorsAssumption DEF Actors
<1>2. ASSUME NEW op \in Ops, BeginClient(c, op)
      PROVE  RunsOnce' /\ Remembered' /\ NoneBorn
  <2>1. \A u \in Actors : txn'[u] = IF u = c THEN Snapshot(op, NoJob, jobs) ELSE txn[u]
    BY <1>1, <1>2 DEF BeginClient, Ledger, TypeOK, Actors
  <2> QED
    BY <1>1, <1>2, <2>1, QuietSilently DEF BeginClient, Actors, Locked
<1>3. CASE \E op \in {"requeue", "recover", "revive"} : BeginClient(c, op)
  BY <1>2, <1>3 DEF Ops, NoneBorn, Silent
<1>4. CASE Rollback(c)
  <2>1. \A u \in Actors : txn'[u] = IF u = c THEN Idle ELSE txn[u]
    BY <1>1, <1>4 DEF Rollback, Ledger, TypeOK, Actors
  <2>2. RunsOnce' /\ Remembered' /\ NoneBorn
    BY <1>1, <1>4, <2>1, QuietSilently DEF Rollback, Actors, Locked
  <2> QED BY <2>2 DEF NoneBorn, Silent
<1>5. CASE ActionRequeue(c)
  <2>1. RunsOnce' /\ Remembered'
    BY <1>5, ReopenedType, EnqueueSilently DEF ActionRequeue, Reopened
  <2>2. txn[c] # Idle /\ txn[c].op = "requeue" /\ txn'[c] = Idle
    BY <1>1, <1>5 DEF ActionRequeue, Locked, Close, Actors
  <2> QED BY <2>1, <2>2 DEF Silent
<1>6. CASE ReviveUnrouted(c)
  <2>1. RunsOnce' /\ Remembered'
    BY <1>6, ReopenedType, EnqueueSilently DEF ReviveUnrouted, Reopened
  <2>2. row.state = "unrouted"
    BY <1>1, <1>6, LockedRow DEF ReviveUnrouted
  <2> QED BY <2>1, <2>2 DEF Silent
<1>7. CASE RecoverOrphan(c)
  <2> DEFINE r == [row EXCEPT !.state = "pending", !.job = NoJob]
  <2>1. txn[c].row = row
    BY <1>1, <1>7, LockedRow DEF RecoverOrphan
  <2>2. /\ Locked(c) /\ Enqueue(c, r) /\ Close(c)
        /\ txn[c].active = {} /\ row.job \notin txn[c].failed
    BY <1>7, <2>1 DEF RecoverOrphan
  <2>3. r \in Row /\ r.job = NoJob
    BY DEF Row, RowStates, Open, Ledger, TypeOK
  <2> HIDE DEF r
  <2>4. RunsOnce' /\ Remembered'
    BY <2>2, <2>3, EnqueueSilently
  <2> QED BY <2>2, <2>4, FailedIsKnown DEF Silent
<1>8. CASE EnqueueOpen(c)
  <2>1. txn[c].row = row /\ row \in Row
    BY <1>1, <1>8, LockedRow DEF EnqueueOpen, Ledger, TypeOK
  <2>2. RunsOnce' /\ Remembered' /\ (NoneBorn \/ (txn[c].active = {} /\ row.job \notin txn[c].failed))
    BY <1>8, <2>1, EnqueueSilently DEF EnqueueOpen
  <2>3. Locked(c)
    BY <1>8 DEF EnqueueOpen
  <2> QED BY <2>2, <2>3, FailedIsKnown DEF Silent, NoneBorn
<1> QED
  BY <1>3, <1>4, <1>5, <1>6, <1>7, <1>8 DEF ClientSteps

SilentInv == DeliveryInv /\ RunsOnce /\ Remembered

LEMMA PostSilently ==
  ASSUME SilentInv, NEW c \in Clients, Post(c)
  PROVE  RunsOnce' /\ Remembered' /\ Silent
<1>1. c \in Actors /\ c \notin Workers /\ Ledger /\ RunsOnce /\ Remembered
  BY ActorsAssumption DEF Actors, SilentInv, DeliveryInv
<1>2. CASE ReceivePost(c)
  <2>1. \A u \in Actors : txn'[u] = IF u = c THEN Snapshot("enqueue", NoJob, jobs) ELSE txn[u]
    BY <1>1, <1>2 DEF ReceivePost, Ledger, TypeOK, Actors
  <2>2. "enqueue" \in Ops
    BY DEF Ops
  <2>3. RunsOnce' /\ Remembered' /\ NoneBorn
    BY <1>1, <1>2, <2>1, <2>2, QuietSilently DEF ReceivePost, Actors, Locked
  <2> QED BY <2>3 DEF NoneBorn, Silent
<1>3. CASE Admit(c)
  <2> DEFINE r == [Absent EXCEPT !.state = "pending"]
  <2>1. Locked(c) /\ Enqueue(c, r) /\ Close(c) /\ row.state = "absent"
    BY <1>1, <1>3, LockedRow DEF Admit
  <2>2. r \in Row /\ r.job = NoJob
    BY AbsentRow DEF Absent
  <2> HIDE DEF r
  <2>3. RunsOnce' /\ Remembered'
    BY <1>1, <2>1, <2>2, EnqueueSilently
  <2> QED BY <2>1, <2>3 DEF Silent
<1>4. CASE Reenqueue(c)
  BY <1>1, <1>4, ClientSilently DEF Reenqueue
<1>5. CASE AcknowledgeSettled(c)
  <2>1. UNCHANGED <<row, jobs>> /\ Close(c)
    BY <1>5 DEF AcknowledgeSettled
  <2>2. \A w \in Workers : txn'[w] # Idle => txn[w] # Idle /\ txn'[w].job = txn[w].job
    BY <1>1, <2>1, ClosedRuns
  <2>3. \A k \in Clients : Locked(k)' => Locked(k) /\ txn'[k] = txn[k]
    BY <1>1, <2>1, ClosedRemembers
  <2>4. RunsOnce' /\ Remembered' /\ NoneBorn
    BY <1>1, <2>1, <2>2, <2>3, QuietSilently
  <2> QED BY <2>4 DEF NoneBorn, Silent
<1> QED
  BY <1>2, <1>3, <1>4, <1>5 DEF Post

LEMMA FanoutSilently ==
  ASSUME DeliveryStates, SilentInv, NEW w \in Workers, JobFanout(w)
  PROVE  RunsOnce' /\ Remembered' /\ NoneBorn
<1>1. w \in Actors /\ w \notin Clients /\ Ledger /\ RunsOnce /\ Remembered
  BY ActorsAssumption DEF Actors, SilentInv, DeliveryInv
<1>2. CASE \E j \in Jobs : StartFanout(w, j)
  BY <1>1, <1>2, StartSilently DEF StartFanout
<1>3. CASE Crash(w)
  <2>1. \A u \in Actors : txn'[u] = IF u = w THEN Idle ELSE txn[u]
    BY <1>1, <1>3 DEF Crash, Ledger, TypeOK, Actors
  <2> QED
    BY <1>1, <1>3, <2>1, QuietSilently DEF Crash, Actors, Locked
<1>4. CASE FanOut(w) \/ PausedFanout(w) \/ FanoutFails(w)
           \/ Superseded(w) \/ TransientFailure(w) \/ PermanentFailure(w)
  <2>1. (\E outcome \in Outcomes \cup {"dead"} : Settle(w, outcome)) \/ Defer(w)
          \/ Superseded(w) \/ TransientFailure(w) \/ PermanentFailure(w)
    BY <1>4 DEF FanOut, PausedFanout, FanoutFails, Exhaust, DeliveryStates
  <2> QED BY <1>1, <2>1, WorkerEndsSilently
<1> QED
  BY <1>2, <1>3, <1>4 DEF JobFanout

LEMMA SilentInit == Init => SilentInv
<1>1. Init => RunsOnce /\ Remembered
  BY NoJobAssumption DEF Init, RunsOnce, Remembered, Absent, Locked
<1> QED
  BY <1>1, DeliveryInitInv DEF SilentInv

LEMMA SilentStep ==
  ASSUME DeliveryStates, ~MayDuplicate, SilentInv, [Next]_deliveryVars
  PROVE  SilentInv' /\ Silent
<1>1. DeliveryInv' /\ Ledger /\ RunsOnce /\ Remembered
  BY DeliveryStepInv DEF SilentInv, DeliveryInv
<1>2. CASE \E c \in Clients : Post(c) \/ Client(c)
  BY <1>1, <1>2, PostSilently, ClientSilently DEF SilentInv, Client
<1>3. CASE \E w \in Workers : JobFanout(w)
  BY <1>1, <1>3, FanoutSilently DEF SilentInv, NoneBorn, Silent
<1>4. CASE \E j \in Jobs : Queue(j)
  BY <1>1, <1>4, QueueSilently DEF SilentInv, Queue, NoneBorn, Silent
<1>5. CASE Reconfigure \/ (\E i \in Items : ChangeAsset(i)) \/ UNCHANGED deliveryVars
  <2>1. UNCHANGED <<row, jobs>>
    BY <1>5 DEF Reconfigure, ChangeAsset, deliveryVars
  <2>2. \A u \in Actors : txn'[u] = txn[u] \/ (txn[u] # Idle /\ txn'[u] = [txn[u] EXCEPT !.conflict = TRUE])
    BY <1>5 DEF Reconfigure, ChangeAsset, deliveryVars, Actors
  <2>3. \A u \in Actors : Kept(u) \/ txn'[u] = txn[u]
    BY <2>2 DEF Kept
  <2>4. \A w \in Workers : txn'[w] # Idle => txn[w] # Idle /\ txn'[w].job = txn[w].job
    BY <1>1, <2>3, KeptType DEF Ledger, Actors
  <2>5. \A c \in Clients : Locked(c)' => Locked(c) /\ txn'[c] = txn[c]
    BY <1>1, <2>3, KeptType DEF Ledger, Actors, Locked
  <2>6. RunsOnce' /\ Remembered' /\ NoneBorn
    BY <1>1, <2>1, <2>4, <2>5, QuietSilently
  <2> QED BY <1>1, <2>6 DEF SilentInv, NoneBorn, Silent
<1> QED
  BY <1>2, <1>3, <1>4, <1>5 DEF Next

\* _has_failed_job: while the job of an unsettled delivery is failed, neither a
\* retry nor a recovery nor a late request gives it another; only an
\* administrator's requeue does.
THEOREM DeliveryNoSilentBudget ==
  ASSUME DeliveryStates, ~MayDuplicate PROVE Spec => NoSilentBudget
<1>1. SilentInv /\ [Next]_deliveryVars => SilentInv'
  BY SilentStep
<1>2. SilentInv /\ [Next]_deliveryVars =>
        [ (row.state = "pending" /\ row.job # NoJob /\ jobs[row.job].state = "failed")
            => \A j \in Jobs : (jobs[j].state = "unborn" /\ jobs'[j].state # "unborn")
                 => \E c \in Clients : txn[c] # Idle /\ txn[c].op = "requeue" /\ txn'[c] = Idle ]_vars
  BY SilentStep DEF Silent
<1> QED
  BY SilentInit, <1>1, <1>2, PTL DEF Spec, NoSilentBudget

------------------------------------------------------------------------------
(* The dispatch.                                                           *)

DispatchInv == Ledger /\ DispatchTypeOK /\ PolicyCurrent /\ EffectOnce

\* What a step may do to the row and the effects.
RowStep ==
  \/ UNCHANGED <<row, effects>>
  \/ row.state = "pending" /\ row'.state = "done" /\ effects' = effects + 1
     /\ allowed
  \/ row.state = "pending" /\ row'.state \in {"stale", "unrouted", "dead"}
     /\ UNCHANGED effects /\ (row'.state = "stale" => ~allowed)
  \/ row.state \in RowStates \ {"done", "absent"} /\ row'.state = "pending"
     /\ UNCHANGED effects

LEMMA DispatchInitInv == DispatchInit => DispatchInv
<1> SUFFICES ASSUME DispatchInit PROVE DispatchInv
  OBVIOUS
<1>1. PICK j \in Jobs :
        /\ row = [state |-> "pending", attempts |-> 0, job |-> j]
        /\ jobs = [i \in Jobs |-> IF i = j THEN Fresh ELSE Unborn]
  BY DEF DispatchInit
<1>2. TypeOK
  BY <1>1, QueueRetriesAssumption, BoundAssumption
  DEF DispatchInit, TypeOK, Row, RowStates, Open, JobRecord, JobStates, ActiveJobStates,
      Fresh, Unborn
<1>3. \A u \in Workers \cup Clients : ~Locked(u)
  BY DEF DispatchInit, Locked
<1>4. Ledger
  BY <1>2, <1>3 DEF Ledger, SnapshotCurrent, OneLiveRun
<1>5. DispatchTypeOK
  BY <1>2 DEF DispatchInit, DispatchTypeOK
<1>6. PolicyCurrent
  BY <1>3 DEF PolicyCurrent
<1>7. EffectOnce
  BY <1>1 DEF DispatchInit, EffectOnce
<1> QED
  BY <1>4, <1>5, <1>6, <1>7 DEF DispatchInv

-----------------------------------------------------------------------------
LEMMA HistoryType ==
  ASSUME DispatchInv, History
  PROVE  failures' \in [Jobs -> Nat] /\ UNCHANGED <<allowed, effects>>
BY DEF History, DispatchInv, DispatchTypeOK

LEMMA ProcessInv ==
  ASSUME DispatchInv, NEW w \in Workers, NEW j \in Jobs, Process(w, j)
  PROVE  Ledger' /\ DispatchTypeOK' /\ PolicyCurrent' /\ UNCHANGED <<row, effects>>
<1>1. Ledger' /\ UNCHANGED row
  BY StartPreserves DEF Process, DispatchInv, Start
<1>2. failures' \in [Jobs -> Nat] /\ UNCHANGED <<allowed, effects>>
  BY HistoryType DEF Process
<1>3. seen' = [seen EXCEPT ![w] = allowed] /\ seen' \in [Workers -> BOOLEAN]
  BY DEF Process, DispatchInv, DispatchTypeOK
<1>4. \A u \in Workers \ {w} : Locked(u)' => Locked(u)
  <2> SUFFICES ASSUME NEW u \in Workers \ {w}, Locked(u)'
               PROVE  Locked(u)
    OBVIOUS
  <2>1. txn'[u] = Spoiled(u) /\ u \in Actors
    BY DEF Process, Start, Actors
  <2> QED
    BY <2>1, SpoiledType DEF Locked, DispatchInv, Ledger
<1>5. PolicyCurrent'
  BY <1>2, <1>3, <1>4 DEF PolicyCurrent, DispatchInv, DispatchTypeOK
<1> QED
  BY <1>1, <1>2, <1>3, <1>5 DEF DispatchTypeOK, Ledger, DispatchInv

\* A claimed worker commits its outcome under the policy it has seen.
LEMMA DispatchOutcomeInv ==
  ASSUME DispatchStates, DispatchInv, NEW w \in Workers,
         Handled(w) \/ Withdrawn(w) \/ Unclaimed(w) \/ ConsumerFails(w)
  PROVE  Ledger' /\ DispatchTypeOK' /\ PolicyCurrent' /\ RowStep
<1>1. Claimed(w) /\ Close(w) /\ w \in Actors
  BY DEF Handled, Withdrawn, Unclaimed, ConsumerFails, Settle, Defer, Exhaust,
         JobEnds, Actors
<1>2. seen[w] = allowed /\ txn[w].job \in Jobs
  BY <1>1, ClaimedFacts DEF DispatchInv, PolicyCurrent, Claimed
<1>3. UNCHANGED <<allowed, seen>>
  BY DEF Handled, Withdrawn, Unclaimed, ConsumerFails
<1>4. failures' \in [Jobs -> Nat] /\ effects' \in Nat
  BY <1>2 DEF Handled, Withdrawn, Unclaimed, ConsumerFails, DispatchInv, DispatchTypeOK
<1>5. PolicyCurrent'
  <2>1. \A u \in Workers : Locked(u)' => Locked(u)
    BY <1>1, LocksOnlyByStart DEF DispatchInv
  <2> QED
    BY <1>3, <2>1 DEF PolicyCurrent, DispatchInv
<1>6. Ledger' /\ RowStep
  <2>1. CASE Handled(w)
    BY <1>2, <2>1, SettlePreserves DEF DispatchStates, Handled, RowStep, DispatchInv
  <2>2. CASE Withdrawn(w)
    BY <1>2, <2>2, SettlePreserves DEF DispatchStates, Withdrawn, RowStep, DispatchInv
  <2>3. CASE Unclaimed(w)
    BY <1>2, <2>3, SettlePreserves DEF DispatchStates, Unclaimed, RowStep, DispatchInv
  <2>4. CASE ConsumerFails(w) /\ Defer(w)
    BY <2>4, FailurePreserves DEF ConsumerFails, RowStep, DispatchInv
  <2>5. CASE ConsumerFails(w) /\ Exhaust(w)
    BY <2>5, SettlePreserves DEF ConsumerFails, Exhaust, RowStep, DispatchInv
  <2> QED
    BY <2>1, <2>2, <2>3, <2>4, <2>5 DEF ConsumerFails
<1> QED
  BY <1>3, <1>4, <1>5, <1>6 DEF DispatchTypeOK, Ledger, DispatchInv

\* The other steps leave effects and policy alone.
LEMMA DispatchQuietInv ==
  ASSUME DispatchInv, History, UNCHANGED seen, Ledger',
         \A u \in Workers : Locked(u)' => Locked(u)
  PROVE  DispatchTypeOK' /\ PolicyCurrent' /\ UNCHANGED effects
<1>1. failures' \in [Jobs -> Nat] /\ UNCHANGED <<allowed, effects>>
  BY HistoryType
<1> QED
  BY <1>1 DEF DispatchInv, DispatchTypeOK, Ledger, PolicyCurrent

LEMMA JobProcessInv ==
  ASSUME DispatchStates, DispatchInv, NEW w \in Workers, JobProcess(w)
  PROVE  Ledger' /\ DispatchTypeOK' /\ PolicyCurrent' /\ RowStep
<1>1. CASE \E j \in Jobs : Process(w, j)
  BY <1>1, ProcessInv DEF RowStep
<1>2. CASE Handled(w) \/ Withdrawn(w) \/ Unclaimed(w) \/ ConsumerFails(w)
  BY <1>2, DispatchOutcomeInv
<1>3. CASE /\ Superseded(w) \/ TransientFailure(w) \/ PermanentFailure(w) \/ Crash(w)
           /\ History /\ UNCHANGED seen
  <2>1. Ledger' /\ UNCHANGED row
    BY <1>3, FailurePreserves, CrashPreserves DEF DispatchInv
  <2>2. \E t \in Actors : Close(t) \/ txn' = [txn EXCEPT ![t] = Idle]
    BY <1>3 DEF Superseded, TransientFailure, PermanentFailure, Crash, JobEnds, Actors
  <2>3. \A u \in Workers : Locked(u)' => Locked(u)
    BY <2>2, LocksOnlyByStart DEF DispatchInv
  <2> QED
    BY <1>3, <2>1, <2>3, DispatchQuietInv DEF RowStep
<1> QED
  BY <1>1, <1>2, <1>3 DEF JobProcess

LEMMA DispatchClientInv ==
  ASSUME DispatchStates, DispatchInv, NEW c \in Clients, DispatchClient(c)
  PROVE  Ledger' /\ DispatchTypeOK' /\ PolicyCurrent' /\ RowStep
<1>1. Ledger' /\ (\/ UNCHANGED row
                  \/ /\ row.state \in RowStates \ {"done", "absent"}
                     /\ row'.state = "pending")
  BY ClientPreserves DEF DispatchStates, DispatchClient, DispatchInv
<1>2. \/ \E t \in Actors : Close(t) \/ txn' = [txn EXCEPT ![t] = Idle]
      \/ \E d \in Clients, op \in Ops : BeginClient(d, op)
  BY DEF DispatchClient, ClientSteps, ActionRequeue, RecoverOrphan, ReviveUnrouted,
         Rollback, Actors, Ops
<1>3. \A u \in Workers : Locked(u)' => Locked(u)
  BY <1>2, LocksOnlyByStart DEF DispatchInv
<1> QED
  BY <1>1, <1>3, DispatchQuietInv DEF DispatchClient, RowStep

LEMMA DispatchQueueInv ==
  ASSUME DispatchInv, NEW j \in Jobs, DispatchQueue(j)
  PROVE  Ledger' /\ DispatchTypeOK' /\ PolicyCurrent' /\ RowStep
<1>1. Ledger' /\ UNCHANGED row
  BY QueuePreserves DEF DispatchQueue, DispatchInv
<1>2. KeepOpen
  BY DEF DispatchQueue, QueueSteps, RunnerReset, Duplicate, RetryFailedJob, LoseJob, ChangeJob
<1>3. \A u \in Workers : Locked(u)' => Locked(u)
  BY <1>2, LocksOnlyByStart DEF DispatchInv
<1> QED
  BY <1>1, <1>3, DispatchQuietInv DEF DispatchQueue, RowStep

LEMMA ChangePolicyInv ==
  ASSUME DispatchInv, ChangePolicy
  PROVE  Ledger' /\ DispatchTypeOK' /\ PolicyCurrent' /\ RowStep
<1>1. disturbances' \in 0..MaxDisturbances /\ SpoilWorkers /\ UNCHANGED <<row, jobs>>
  BY BoundAssumption DEF ChangePolicy, Disturb, DispatchInv, Ledger, TypeOK
<1>2. Ledger'
  BY <1>1, NothingWrittenPreserves DEF DispatchInv
<1>3. \A u \in Workers : ~Locked(u)'
  BY <1>1 DEF SpoilWorkers, Locked, DispatchInv, Ledger, TypeOK, Transaction
<1> QED
  BY <1>2, <1>3
  DEF ChangePolicy, DispatchInv, DispatchTypeOK, Ledger, PolicyCurrent, RowStep

LEMMA DispatchStutterInv ==
  ASSUME DispatchInv, UNCHANGED dispatchVars
  PROVE  DispatchInv' /\ RowStep
BY DEF DispatchInv, dispatchVars, Ledger, TypeOK, SnapshotCurrent, OneLiveRun, Locked,
       DispatchTypeOK, PolicyCurrent, EffectOnce, RowStep

LEMMA DispatchStepInv ==
  ASSUME DispatchStates, DispatchInv, [DispatchNext]_dispatchVars
  PROVE  DispatchInv' /\ RowStep
<1>1. CASE DispatchNext
  <2>1. Ledger' /\ DispatchTypeOK' /\ PolicyCurrent' /\ RowStep
    BY <1>1, JobProcessInv, DispatchClientInv, DispatchQueueInv, ChangePolicyInv DEF DispatchNext
  <2>2. EffectOnce'
    BY <2>1 DEF DispatchStates, RowStep, DispatchInv, EffectOnce, RowStates, Open
  <2> QED
    BY <2>1, <2>2 DEF DispatchInv
<1>2. CASE UNCHANGED dispatchVars
  BY <1>2, DispatchStutterInv
<1> QED
  BY <1>1, <1>2

-----------------------------------------------------------------------------
\* Every reachable state satisfies the invariant.
THEOREM DispatchInvariant == ASSUME DispatchStates PROVE DispatchSpec => []DispatchInv
<1>1. DispatchInv /\ [DispatchNext]_dispatchVars => DispatchInv'
  BY DispatchStepInv
<1> QED
  BY DispatchInitInv, <1>1, PTL DEF DispatchSpec

\* All variables keep their types, and open rows were never attempted.
THEOREM DispatchTypes == ASSUME DispatchStates PROVE DispatchSpec => []DispatchTypeOK
BY DispatchInvariant, PTL DEF DispatchInv

\* _lock_for_processing: the consumer's effect is committed at most once, and
\* exactly when the row says "done".
THEOREM DispatchEffectOnce == ASSUME DispatchStates PROVE DispatchSpec => []EffectOnce
BY DispatchInvariant, PTL DEF DispatchInv

\* _lock_for_processing: of all workers with an open transaction, at most one
\* can still settle the row.
THEOREM DispatchClaimIsExclusive == ASSUME DispatchStates PROVE DispatchSpec => []ClaimIsExclusive
<1>1. DispatchInv => ClaimIsExclusive
  BY LedgerClaimIsExclusive DEF DispatchInv
<1> QED
  BY DispatchInvariant, <1>1, PTL

\* _current_policy_allows_dispatch: the policy a worker checked still holds
\* when the effect commits, and a dispatch goes stale only while it does not.
THEOREM DispatchPolicyHolds == ASSUME DispatchStates PROVE DispatchSpec => PolicyHoldsAtCommit
<1>1. DispatchInv /\ [DispatchNext]_dispatchVars =>
        [ /\ effects' # effects => allowed
          /\ row'.state = "stale" /\ row.state # "stale" => ~allowed ]_dispatchVars
  <2> SUFFICES ASSUME DispatchInv, [DispatchNext]_dispatchVars
               PROVE  /\ effects' # effects => allowed
                      /\ row'.state = "stale" /\ row.state # "stale" => ~allowed
    OBVIOUS
  <2>1. RowStep
    BY DispatchStepInv
  <2> QED
    BY <2>1 DEF RowStep
<1> QED
  BY DispatchInvariant, <1>1, PTL DEF DispatchSpec, PolicyHoldsAtCommit

\* The jobs, retries, duplicates and requeues implement the once-only effect.
THEOREM DispatchImplementsPromise == ASSUME DispatchStates PROVE DispatchSpec => ImplementsPromise
<1>1. DispatchInit => Promise!Init
  BY DEF DispatchInit, Promise!Init
<1>2. DispatchInv /\ [DispatchNext]_dispatchVars =>
        [Promise!Next]_<<IF row.state = "pending" THEN "open" ELSE row.state, effects>>
  <2> SUFFICES ASSUME DispatchInv, [DispatchNext]_dispatchVars
               PROVE  [Promise!Next]_<<IF row.state = "pending" THEN "open" ELSE row.state, effects>>
    OBVIOUS
  <2>1. RowStep
    BY DispatchStepInv
  <2>2. row.state \in RowStates /\ row.state # "processing" /\ effects \in Nat
    BY DEF DispatchInv, Ledger, TypeOK, Row, Open, DispatchTypeOK
  <2>3. CASE row.state = "absent"
    BY <2>1, <2>3 DEF RowStep
  <2> QED
    BY <2>1, <2>2, <2>3
    DEF DispatchStates, RowStep, RowStates, Open, Promise!Next, Promise!Deliver, Promise!Refuse,
        Promise!Reopen, Promise!Refusals
<1> QED
  BY DispatchInvariant, <1>1, <1>2, PTL DEF DispatchSpec, ImplementsPromise, Promise!Spec

------------------------------------------------------------------------------
(* The response episodes of a conversation, next to the dispatch: for any  *)
(* number of messages and transactions, any horizon, page size, history    *)
(* and kinds of messages.                                                  *)
(*                                                                         *)
(* That the episodes are those of one pass over what was consumed needs    *)
(* the order of that pass (a page is the first part of what is left, and   *)
(* passes over two such parts add up to one over both), and that what a    *)
(* reconciliation has read is still there when it commits (ViewsTell).     *)
(* That no signal is left behind needs, of a live transaction that no      *)
(* reconciliation overlapped, that it has read the frontier there is       *)
(* (LivesTell).  That no work is stranded needs that every job that runs   *)
(* is one of those left, and that what it has not read has another         *)
(* (JobsTell).                                                             *)

\* Sets of numbers have their least, and where they end their greatest, element.
LEMMA LeastNumber ==
  ASSUME NEW S \in SUBSET Nat, S # {} PROVE \E m \in S : \A k \in S : m <= k
<1> DEFINE R == OpToRel(<, Nat)
<1>1. IsWellFoundedOn(R, Nat)
  BY NatLessThanWellFounded DEF R
<1> HIDE DEF R
<1>2. PICK m \in S : \A k \in S : <<k, m>> \notin R
  BY <1>1, WFMin
<1>3. \A k \in S : ~(k < m)
  BY <1>2 DEF OpToRel, R
<1>4. \A k \in S : m <= k
  BY <1>3
<1> QED BY <1>4

LEMMA GreatestNumber ==
  ASSUME NEW S \in SUBSET Nat, S # {}, NEW b \in Nat, \A k \in S : k <= b
  PROVE  \E m \in S : \A k \in S : m >= k
<1> DEFINE T == {b - k : k \in S}
<1>1. T \in SUBSET Nat /\ T # {}
  <2>1. \A k \in S : b - k \in Nat
    OBVIOUS
  <2> QED BY <2>1
<1>2. PICK t \in T : \A u \in T : t <= u
  <2> HIDE DEF T
  <2> QED BY <1>1, LeastNumber
<1>3. PICK m \in S : t = b - m
  OBVIOUS
<1>4. \A k \in S : b - m <= b - k
  BY <1>2, <1>3
<1>5. \A k \in S : m >= k
  <2> TAKE k \in S
  <2>1. b - m <= b - k
    BY <1>4
  <2>2. m \in Nat /\ k \in Nat
    OBVIOUS
  <2> HIDE DEF T
  <2> QED BY <2>1, <2>2
<1> QED BY <1>5

\* Induction on a set of numbers, from the well-foundedness of <: the theorem of
\* NaturalsInduction would need an operator as a parameter.
LEMMA NatSets ==
  ASSUME NEW S, 0 \in S, \A n \in Nat : n \in S => n + 1 \in S
  PROVE  Nat \subseteq S
<1> SUFFICES ASSUME NEW n \in Nat \ S PROVE FALSE
  OBVIOUS
<1>1. PICK m \in Nat \ S : \A k \in Nat \ S : m <= k
  BY LeastNumber
<1>2. m # 0 /\ m - 1 \in Nat /\ (m - 1) + 1 = m
  BY <1>1
<1>3. m - 1 \notin S
  BY <1>1, <1>2
<1> QED BY <1>1, <1>2, <1>3

LEMMA TimelineSizes ==
  \A S : Chat!Cardinality(S) = Cardinality(S) /\ Chat!IsFiniteSet(S) = IsFiniteSet(S)
BY DEF Chat!IsFiniteSet, Chat!Cardinality, IsFiniteSet, Cardinality

\* --- Linear orders of finite sets, and their first pages.
Linear(R, S) ==
  /\ \A a \in S : <<a, a>> \notin R
  /\ \A a, b, c \in S : <<a, b>> \in R /\ <<b, c>> \in R => <<a, c>> \in R
  /\ \A a, b \in S : a = b \/ <<a, b>> \in R \/ <<b, a>> \in R
Least(R, T, m) == m \in T /\ \A o \in T \ {m} : <<m, o>> \in R
Greatest(R, T, m) == m \in T /\ \A o \in T \ {m} : <<o, m>> \in R

LEMMA Extremes ==
  ASSUME NEW S, Chat!IsFiniteSet(S), S # {}, NEW R, Linear(R, S)
  PROVE  (\E m \in S : Least(R, S, m)) /\ (\E m \in S : Greatest(R, S, m))
<1> DEFINE Has(T) == (\E m \in T : Least(R, T, m)) /\ (\E m \in T : Greatest(R, T, m))
           N == {n \in Nat : \A T \in SUBSET S : T # {} /\ Chat!Cardinality(T) <= n => Has(T)}
<1>0. \A T \in SUBSET S : Chat!IsFiniteSet(T) /\ Chat!Cardinality(T) \in Nat
  BY FS_Subset, FS_CardinalityType, TimelineSizes
<1>1. 0 \in N
  <2>1. ASSUME NEW T \in SUBSET S, T # {}, Chat!Cardinality(T) <= 0 PROVE FALSE
    <3>1. Chat!Cardinality(T) = 0
      BY <1>0, <2>1
    <3> QED BY <1>0, <2>1, <3>1, FS_EmptySet, TimelineSizes
  <2> QED BY <2>1
<1>2. ASSUME NEW n \in Nat, n \in N PROVE n + 1 \in N
  <2> SUFFICES ASSUME NEW T \in SUBSET S, T # {}, Chat!Cardinality(T) <= n + 1 PROVE Has(T)
    OBVIOUS
  <2>1. PICK x \in T : TRUE
    OBVIOUS
  <2> DEFINE r == T \ {x}
  <2>2. CASE r = {}
    <3>1. Least(R, T, x) /\ Greatest(R, T, x)
      BY <2>1, <2>2 DEF Least, Greatest
    <3> QED BY <2>1, <3>1
  <2>3. CASE r # {}
    <3>1. Chat!Cardinality(r) = Chat!Cardinality(T) - 1 /\ r \in SUBSET S
      BY <1>0, <2>1, FS_RemoveElement, TimelineSizes
    <3>2. Chat!Cardinality(r) <= n
      BY <1>0, <3>1
    <3>3. Has(r)
      <4> HIDE DEF r, Has
      <4> QED BY <1>2, <2>3, <3>1, <3>2
    <3>4. PICK l \in r : Least(R, r, l)
      BY <3>3
    <3>5. PICK g \in r : Greatest(R, r, g)
      BY <3>3
    <3>6. \E m \in T : Least(R, T, m)
      <4>1. CASE <<x, l>> \in R
        <5>1. Least(R, T, x)
          BY <2>1, <3>4, <4>1 DEF Least, Linear
        <5> QED BY <2>1, <5>1
      <4>2. CASE <<l, x>> \in R
        <5>1. Least(R, T, l)
          BY <2>1, <3>4, <4>2 DEF Least, Linear
        <5> QED BY <3>4, <5>1
      <4> QED BY <2>1, <3>4, <4>1, <4>2 DEF Linear
    <3>7. \E m \in T : Greatest(R, T, m)
      <4>1. CASE <<g, x>> \in R
        <5>1. Greatest(R, T, x)
          BY <2>1, <3>5, <4>1 DEF Greatest, Linear
        <5> QED BY <2>1, <5>1
      <4>2. CASE <<x, g>> \in R
        <5>1. Greatest(R, T, g)
          BY <2>1, <3>5, <4>2 DEF Greatest, Linear
        <5> QED BY <3>5, <5>1
      <4> QED BY <2>1, <3>5, <4>1, <4>2 DEF Linear
    <3> QED BY <3>6, <3>7
  <2> QED BY <2>2, <2>3
<1>3. Nat \subseteq N
  <2> HIDE DEF N
  <2> QED BY <1>1, <1>2, NatSets
<1>4. Chat!Cardinality(S) \in N /\ Chat!Cardinality(S) <= Chat!Cardinality(S) /\ S \in SUBSET S
  BY <1>0, <1>3
<1> QED BY <1>4

Below(R, S, a) == {b \in S : <<b, a>> \in R}

\* A page is closed downwards, and one that is not full is all there is.
LEMMA PageFacts ==
  ASSUME NEW S, Chat!IsFiniteSet(S), NEW R, Linear(R, S),
         NEW P, P = {a \in S : Chat!Cardinality(Below(R, S, a)) < PageSize}
  PROVE  /\ P \subseteq S /\ Chat!IsFiniteSet(P)
         /\ \A a \in P : \A b \in S : <<b, a>> \in R => b \in P
         /\ ~Chat!Full(P) => P = S
<1>0. PageSize \in Nat /\ PageSize >= 1
  BY TimelineBounds DEF Chat!TimelineConstants
<1>1. \A a \in S : Chat!IsFiniteSet(Below(R, S, a)) /\ Chat!Cardinality(Below(R, S, a)) \in Nat
  <2>1. \A a \in S : Below(R, S, a) \in SUBSET S
    BY DEF Below
  <2> QED BY <2>1, FS_Subset, FS_CardinalityType, TimelineSizes
<1>2. P \subseteq S /\ Chat!IsFiniteSet(P) /\ Chat!Cardinality(P) \in Nat
  BY FS_Subset, FS_CardinalityType, TimelineSizes
<1>3. ASSUME NEW a \in P, NEW b \in S, <<b, a>> \in R PROVE b \in P
  <2>1. Below(R, S, b) \subseteq Below(R, S, a)
    BY <1>2, <1>3 DEF Linear, Below
  <2>2. Chat!Cardinality(Below(R, S, b)) <= Chat!Cardinality(Below(R, S, a))
    BY <1>1, <1>2, <2>1, FS_Subset, TimelineSizes
  <2>3. Chat!Cardinality(Below(R, S, a)) < PageSize
    OBVIOUS
  <2>4. Chat!Cardinality(Below(R, S, b)) < PageSize
    <3>1. PICK k, l \in Nat : k = Chat!Cardinality(Below(R, S, b))
            /\ l = Chat!Cardinality(Below(R, S, a))
      BY <1>1, <1>2
    <3> QED BY <1>0, <2>2, <2>3, <3>1
  <2> QED BY <2>4
<1>4. ASSUME P # S PROVE Chat!Full(P)
  <2> DEFINE Q == S \ P
  <2>1. Chat!IsFiniteSet(Q) /\ Q # {} /\ Linear(R, Q) /\ Q \subseteq S
    BY <1>2, <1>4, FS_Subset, TimelineSizes DEF Linear
  <2>2. PICK a \in Q : Least(R, Q, a)
    <3> HIDE DEF Q
    <3> QED BY <2>1, Extremes
  <2>3. Below(R, S, a) \subseteq P
    <3> SUFFICES ASSUME NEW b \in S, <<b, a>> \in R, b \notin P PROVE FALSE
      BY DEF Below
    <3>1. b # a /\ <<a, b>> \in R
      BY <2>2 DEF Least, Linear
    <3> QED BY <3>1 DEF Linear, Below
  <2>4. ~(Chat!Cardinality(Below(R, S, a)) < PageSize)
    BY <2>2
  <2>5. Chat!Cardinality(Below(R, S, a)) <= Chat!Cardinality(P)
    BY <1>2, <2>3, FS_Subset, TimelineSizes
  <2>6. Chat!Cardinality(P) >= PageSize
    <3>1. PICK k, l \in Nat : k = Chat!Cardinality(P) /\ l = Chat!Cardinality(Below(R, S, a))
      BY <1>1, <1>2, <2>2
    <3> QED BY <1>0, <2>4, <2>5, <3>1
  <2>7. P # {}
    <3>1. Chat!Cardinality(P) # 0
      BY <1>0, <1>2, <2>6
    <3> QED BY <3>1, FS_EmptySet, TimelineSizes
  <2>8. Linear(R, P)
    BY <1>2 DEF Linear
  <2>9. PICK z \in P : Greatest(R, P, z)
    BY <1>2, <2>7, <2>8, Extremes
  <2>10. P \ {z} \subseteq Below(R, S, z)
    BY <1>2, <2>9 DEF Greatest, Below
  <2>11. Chat!Cardinality(P \ {z}) = Chat!Cardinality(P) - 1
    BY <1>2, <2>9, FS_RemoveElement, TimelineSizes
  <2>12. Chat!Cardinality(P \ {z}) <= Chat!Cardinality(Below(R, S, z))
    BY <1>1, <1>2, <2>9, <2>10, FS_Subset, TimelineSizes
  <2>13. Chat!Cardinality(Below(R, S, z)) < PageSize
    BY <2>9
  <2>14. Chat!Cardinality(P) - 1 < PageSize
    <3>1. PICK k, l \in Nat : k = Chat!Cardinality(P) /\ l = Chat!Cardinality(Below(R, S, z))
      BY <1>1, <1>2, <2>9
    <3> QED BY <1>0, <2>11, <2>12, <2>13, <3>1
  <2>15. Chat!Cardinality(P) = PageSize
    BY <1>0, <1>2, <2>6, <2>14
  <2> QED BY <2>15 DEF Chat!Full
<1> QED BY <1>2, <1>3, <1>4

\* --- Signals in the order of their observation: one for each message.
Msgs == [id : Nat, kind : {"inbound", "device", "agent"}, at : Nat, delivered : BOOLEAN]
Sigs == [msg : Msgs, observed : Nat]
Distinct(S) == S \subseteq Sigs /\ \A a, b \in S : a.msg.id = b.msg.id => a = b
Timely(S) == {p \in S \X S : Chat!Earlier(p[1], p[2])}

LEMMA BeforeOrders ==
  /\ \A a \in Nat \X Nat : ~Chat!Before(a, a)
  /\ \A a, b, c \in Nat \X Nat : Chat!Before(a, b) /\ Chat!Before(b, c) => Chat!Before(a, c)
  /\ \A a, b \in Nat \X Nat : a = b \/ Chat!Before(a, b) \/ Chat!Before(b, a)
  /\ \A a, b \in Nat \X Nat : ~(Chat!Before(a, b) /\ Chat!Before(b, a))
BY DEF Chat!Before

LEMMA OrderType == \A s \in Sigs : Chat!Order(s) \in Nat \X Nat /\ Chat!Order(s)[2] = s.msg.id
BY DEF Chat!Order, Sigs, Msgs

LEMMA TimelyIsLinear ==
  ASSUME NEW S, Distinct(S) PROVE Linear(Timely(S), S)
<1>1. \A s \in S : Chat!Order(s) \in Nat \X Nat
  BY OrderType DEF Distinct
<1>2. \A a, b \in S : <<a, b>> \in Timely(S) <=> Chat!Before(Chat!Order(a), Chat!Order(b))
  BY DEF Timely, Chat!Earlier
<1>3. \A a, b \in S : Chat!Order(a) = Chat!Order(b) => a = b
  BY DEF Chat!Order, Distinct
<1>4. \A a \in S : <<a, a>> \notin Timely(S)
  BY <1>1, <1>2, BeforeOrders
<1>5. \A a, b, c \in S : <<a, b>> \in Timely(S) /\ <<b, c>> \in Timely(S) => <<a, c>> \in Timely(S)
  <2> TAKE a, b, c \in S
  <2> HAVE <<a, b>> \in Timely(S) /\ <<b, c>> \in Timely(S)
  <2>1. Chat!Before(Chat!Order(a), Chat!Order(b)) /\ Chat!Before(Chat!Order(b), Chat!Order(c))
    BY <1>2
  <2>2. Chat!Before(Chat!Order(a), Chat!Order(c))
    BY <1>1, <2>1, BeforeOrders
  <2> QED BY <1>2, <2>2
<1>6. \A a, b \in S : a = b \/ <<a, b>> \in Timely(S) \/ <<b, a>> \in Timely(S)
  <2> TAKE a, b \in S
  <2>1. Chat!Order(a) = Chat!Order(b) \/ Chat!Before(Chat!Order(a), Chat!Order(b))
          \/ Chat!Before(Chat!Order(b), Chat!Order(a))
    BY <1>1, BeforeOrders
  <2> QED BY <1>2, <1>3, <2>1
<1> QED BY <1>4, <1>5, <1>6 DEF Linear

LEMMA LatestIs ==
  ASSUME NEW S, Chat!IsFiniteSet(S), S # {}, Distinct(S)
  PROVE  Chat!Latest(S) \in S /\ \A o \in S \ {Chat!Latest(S)} : Chat!Earlier(o, Chat!Latest(S))
<1>1. PICK m \in S : Greatest(Timely(S), S, m)
  BY TimelyIsLinear, Extremes
<1>2. \A o \in S \ {m} : Chat!Earlier(o, m)
  BY <1>1 DEF Greatest, Timely
<1> QED BY <1>2 DEF Chat!Latest

LEMMA LatestOnly ==
  ASSUME NEW S, Distinct(S), NEW m \in S, \A o \in S \ {m} : Chat!Earlier(o, m)
  PROVE  Chat!Latest(S) = m
<1>1. Chat!Latest(S) \in S /\ \A o \in S \ {Chat!Latest(S)} : Chat!Earlier(o, Chat!Latest(S))
  BY DEF Chat!Latest
<1>2. ASSUME Chat!Latest(S) # m PROVE FALSE
  <2>1. Chat!Earlier(m, Chat!Latest(S)) /\ Chat!Earlier(Chat!Latest(S), m)
    BY <1>1, <1>2
  <2>2. Chat!Order(m) \in Nat \X Nat /\ Chat!Order(Chat!Latest(S)) \in Nat \X Nat
    BY <1>1, OrderType DEF Distinct
  <2> QED BY <2>1, <2>2, BeforeOrders DEF Chat!Earlier
<1> QED BY <1>2

LEMMA PartDistinct ==
  ASSUME NEW S, Distinct(S), Chat!IsFiniteSet(S), NEW T \in SUBSET S
  PROVE  Distinct(T) /\ Chat!IsFiniteSet(T) /\ Chat!Cardinality(T) \in Nat
BY FS_Subset, FS_CardinalityType, TimelineSizes DEF Distinct

\* --- A pass is a fold, that is, a function recursive in the subsets; it exists
\* since there is one for the subsets of at most n signals, for every n.
Taken(e, f, s) == IF s = {} THEN e ELSE Chat!Observe(f[s \ {Chat!Latest(s)}], Chat!Latest(s))
PassBy(e, f, S) == f = [s \in SUBSET S |-> Taken(e, f, s)]
AtMost(S, n) == {s \in SUBSET S : Chat!Cardinality(s) <= n}
PassAtMost(e, f, S, n) == f = [s \in AtMost(S, n) |-> Taken(e, f, s)]

LEMMA PassIs == ASSUME NEW e, NEW S PROVE Chat!Pass(e, S) = (CHOOSE f : PassBy(e, f, S))[S]
BY DEF Chat!Pass, Chat!MapThenFoldSet, PassBy, Taken

LEMMA LessOne ==
  ASSUME NEW S, Chat!IsFiniteSet(S), Distinct(S), NEW s \in SUBSET S, s # {}
  PROVE  /\ Chat!Latest(s) \in s /\ s \ {Chat!Latest(s)} \in SUBSET S
         /\ Chat!Cardinality(s) \in Nat
              /\ Chat!Cardinality(s \ {Chat!Latest(s)}) = Chat!Cardinality(s) - 1
<1>1. Distinct(s) /\ Chat!IsFiniteSet(s) /\ Chat!Cardinality(s) \in Nat
  BY PartDistinct
<1>2. Chat!Latest(s) \in s
  BY <1>1, LatestIs
<1> QED BY <1>1, <1>2, FS_RemoveElement, TimelineSizes

LEMMA PassesExist ==
  ASSUME NEW e, NEW S, Chat!IsFiniteSet(S), Distinct(S) PROVE \E f : PassBy(e, f, S)
<1> DEFINE N == {n \in Nat : \E f : PassAtMost(e, f, S, n)}
<1>0. \A s \in SUBSET S : Chat!IsFiniteSet(s) /\ Chat!Cardinality(s) \in Nat
  BY FS_Subset, FS_CardinalityType, TimelineSizes
<1>1. 0 \in N
  <2> DEFINE f == [s \in AtMost(S, 0) |-> e]
  <2>1. \A s \in AtMost(S, 0) : s = {}
    <3> TAKE s \in AtMost(S, 0)
    <3>1. Chat!IsFiniteSet(s) /\ Chat!Cardinality(s) \in Nat /\ Chat!Cardinality(s) <= 0
      BY <1>0 DEF AtMost
    <3>2. Chat!Cardinality(s) = 0
      BY <3>1
    <3> QED BY <3>1, <3>2, FS_EmptySet, TimelineSizes
  <2>2. f = [s \in AtMost(S, 0) |-> Taken(e, f, s)]
    <3> HIDE DEF f
    <3>1. \A s \in AtMost(S, 0) : Taken(e, f, s) = e
      BY <2>1 DEF Taken
    <3> QED BY <3>1 DEF f
  <2>3. PassAtMost(e, f, S, 0)
    BY <2>2 DEF PassAtMost
  <2> QED BY <2>3
<1>2. ASSUME NEW n \in Nat, n \in N PROVE n + 1 \in N
  <2>1. PICK f : PassAtMost(e, f, S, n)
    BY <1>2
  <2> DEFINE g == [s \in AtMost(S, n + 1) |-> Taken(e, f, s)]
  <2>2. ASSUME NEW s \in AtMost(S, n + 1) PROVE Taken(e, f, s) = Taken(e, g, s)
    <3>1. CASE s = {}
      BY <3>1 DEF Taken
    <3>2. CASE s # {}
      <4> DEFINE r == s \ {Chat!Latest(s)}
      <4>1. s \in SUBSET S /\ Chat!Cardinality(s) <= n + 1
        BY DEF AtMost
      <4>2. Chat!Cardinality(s) \in Nat /\ Chat!Cardinality(r) = Chat!Cardinality(s) - 1
              /\ r \in SUBSET S
        BY <3>2, <4>1, LessOne
      <4>3. Chat!Cardinality(r) <= n /\ Chat!Cardinality(r) <= n + 1
        BY <4>1, <4>2
      <4>4. r \in AtMost(S, n) /\ r \in AtMost(S, n + 1)
        BY <4>2, <4>3 DEF AtMost
      <4>5. f[r] = Taken(e, f, r)
        <5> HIDE DEF r
        <5> QED BY <2>1, <4>4 DEF PassAtMost
      <4>6. g[r] = Taken(e, f, r)
        <5> HIDE DEF r
        <5> QED BY <4>4
      <4> HIDE DEF g
      <4> QED BY <3>2, <4>5, <4>6 DEF Taken
    <3> QED BY <3>1, <3>2
  <2>3. g = [s \in AtMost(S, n + 1) |-> Taken(e, g, s)]
    <3> HIDE DEF g
    <3> QED BY <2>2 DEF g
  <2>4. PassAtMost(e, g, S, n + 1)
    BY <2>3 DEF PassAtMost
  <2> QED BY <2>4
<1>3. Nat \subseteq N
  <2> HIDE DEF N
  <2> QED BY <1>1, <1>2, NatSets
<1>4. Chat!Cardinality(S) \in N
  BY <1>3, FS_CardinalityType, TimelineSizes
<1>5. AtMost(S, Chat!Cardinality(S)) = SUBSET S
  <2>1. \A s \in SUBSET S : Chat!Cardinality(s) <= Chat!Cardinality(S)
    BY FS_Subset, TimelineSizes
  <2> QED BY <2>1 DEF AtMost
<1> QED BY <1>4, <1>5 DEF PassBy, PassAtMost

LEMMA PassesAgree ==
  ASSUME NEW e, NEW S, Chat!IsFiniteSet(S), Distinct(S), NEW T \in SUBSET S,
         NEW f, PassBy(e, f, S), NEW g, PassBy(e, g, T)
  PROVE  \A s \in SUBSET T : f[s] = g[s]
<1> DEFINE N == {n \in Nat : \A s \in SUBSET T : Chat!Cardinality(s) <= n => f[s] = g[s]}
<1>0. \A s \in SUBSET T : Chat!IsFiniteSet(s) /\ Chat!Cardinality(s) \in Nat
  BY FS_Subset, FS_CardinalityType, TimelineSizes
<1>1. \A s \in SUBSET T : f[s] = Taken(e, f, s) /\ g[s] = Taken(e, g, s)
  BY DEF PassBy
<1>2. 0 \in N
  <2>1. \A s \in SUBSET T : Chat!Cardinality(s) <= 0 => s = {}
    <3> TAKE s \in SUBSET T
    <3> HAVE Chat!Cardinality(s) <= 0
    <3>1. Chat!Cardinality(s) = 0
      BY <1>0
    <3> QED BY <1>0, <3>1, FS_EmptySet, TimelineSizes
  <2>2. \A s \in SUBSET T : s = {} => f[s] = e /\ g[s] = e
    BY <1>1 DEF Taken
  <2> QED BY <2>1, <2>2
<1>3. ASSUME NEW n \in Nat, n \in N PROVE n + 1 \in N
  <2> SUFFICES ASSUME NEW s \in SUBSET T, Chat!Cardinality(s) <= n + 1 PROVE f[s] = g[s]
    OBVIOUS
  <2>1. CASE s = {}
    BY <1>1, <2>1 DEF Taken
  <2>2. CASE s # {}
    <3> DEFINE r == s \ {Chat!Latest(s)}
    <3>1. Chat!Cardinality(s) \in Nat /\ Chat!Cardinality(r) = Chat!Cardinality(s) - 1
            /\ r \in SUBSET T
      BY <2>2, LessOne
    <3>2. Chat!Cardinality(r) <= n
      BY <3>1
    <3>3. f[r] = g[r]
      <4> HIDE DEF r
      <4> QED BY <1>3, <3>1, <3>2
    <3> QED BY <1>1, <2>2, <3>3 DEF Taken
  <2> QED BY <2>1, <2>2
<1>4. Nat \subseteq N
  <2> HIDE DEF N
  <2> QED BY <1>2, <1>3, NatSets
<1> TAKE s \in SUBSET T
<1>5. Chat!Cardinality(s) \in N
  BY <1>0, <1>4
<1>6. Chat!Cardinality(s) <= Chat!Cardinality(s)
  BY <1>0
<1> QED BY <1>5, <1>6

\* A pass ends with the latest signal.
LEMMA PassTaken ==
  ASSUME NEW e, NEW S, Chat!IsFiniteSet(S), Distinct(S)
  PROVE  Chat!Pass(e, S) =
           IF S = {} THEN e ELSE Chat!Observe(Chat!Pass(e, S \ {Chat!Latest(S)}), Chat!Latest(S))
<1> DEFINE T == S \ {Chat!Latest(S)}
           f == CHOOSE h : PassBy(e, h, S)
           g == CHOOSE h : PassBy(e, h, T)
<1>1. Chat!IsFiniteSet(T) /\ Distinct(T) /\ T \in SUBSET S
  BY PartDistinct
<1>2. PassBy(e, f, S)
  BY PassesExist
<1>3. PassBy(e, g, T)
  <2> HIDE DEF T
  <2> QED BY <1>1, PassesExist
<1>4. Chat!Pass(e, S) = f[S] /\ Chat!Pass(e, T) = g[T]
  BY PassIs
<1> HIDE DEF f, g
<1>5. f[T] = g[T]
  <2> HIDE DEF T
  <2> QED BY <1>1, <1>2, <1>3, PassesAgree
<1>6. f[S] = Taken(e, f, S)
  BY <1>2 DEF PassBy
<1> QED BY <1>4, <1>5, <1>6 DEF Taken

\* What comes later is passed later.
LEMMA PassGoesOn ==
  ASSUME NEW e, NEW P, NEW Q, Chat!IsFiniteSet(P), Chat!IsFiniteSet(Q), Distinct(P \cup Q),
         \A p \in P : \A q \in Q : Chat!Earlier(p, q)
  PROVE  Chat!Pass(e, P \cup Q) = Chat!Pass(Chat!Pass(e, P), Q)
<1> DEFINE d == Chat!Pass(e, P)
           N == {n \in Nat : \A T \in SUBSET Q : Chat!Cardinality(T) <= n =>
                                Chat!Pass(e, P \cup T) = Chat!Pass(d, T)}
<1>0. \A T \in SUBSET Q : /\ Chat!IsFiniteSet(T) /\ Chat!Cardinality(T) \in Nat /\ Distinct(T)
                          /\ Chat!IsFiniteSet(P \cup T) /\ Distinct(P \cup T)
  BY FS_Subset, FS_CardinalityType, FS_Union, TimelineSizes DEF Distinct
<1>1. Chat!Pass(e, P \cup {}) = Chat!Pass(d, {})
  <2>1. P \cup {} = P /\ {} \in SUBSET Q
    OBVIOUS
  <2>2. Chat!Pass(d, {}) = d
    BY <1>0, <2>1, PassTaken
  <2> QED BY <2>1, <2>2
<1>2. 0 \in N
  <2> SUFFICES ASSUME NEW T \in SUBSET Q, Chat!Cardinality(T) <= 0
        PROVE Chat!Pass(e, P \cup T) = Chat!Pass(d, T)
    OBVIOUS
  <2>0. Chat!IsFiniteSet(T) /\ Chat!Cardinality(T) \in Nat
    BY <1>0
  <2>1. Chat!Cardinality(T) = 0
    BY <2>0
  <2>2. T = {}
    BY <2>0, <2>1, FS_EmptySet, TimelineSizes
  <2> HIDE DEF d
  <2> QED BY <1>1, <2>2
<1>3. ASSUME NEW n \in Nat, n \in N PROVE n + 1 \in N
  <2> SUFFICES ASSUME NEW T \in SUBSET Q, Chat!Cardinality(T) <= n + 1
               PROVE  Chat!Pass(e, P \cup T) = Chat!Pass(d, T)
    OBVIOUS
  <2>0. /\ Chat!IsFiniteSet(T) /\ Chat!Cardinality(T) \in Nat /\ Distinct(T)
        /\ Chat!IsFiniteSet(P \cup T) /\ Distinct(P \cup T)
    BY <1>0
  <2>1. CASE T = {}
    <3> HIDE DEF d
    <3> QED BY <1>1, <2>1
  <2>2. CASE T # {}
    <3>1. PICK z \in T : z = Chat!Latest(T) /\ \A o \in T \ {z} : Chat!Earlier(o, z)
      BY <2>0, <2>2, LatestIs
    <3> DEFINE r == T \ {z}
    <3>2. Chat!Cardinality(r) = Chat!Cardinality(T) - 1 /\ r \in SUBSET Q
      BY <2>0, <3>1, FS_RemoveElement, TimelineSizes
    <3>3. Chat!Cardinality(r) <= n
      BY <2>0, <3>2
    <3>4. z \in P \cup T /\ \A o \in (P \cup T) \ {z} : Chat!Earlier(o, z)
      <4>1. z \in Q /\ \A p \in P : Chat!Earlier(p, z)
        BY <3>1
      <4> QED BY <3>1, <4>1
    <3>5. Chat!Latest(P \cup T) = z
      <4> DEFINE U == P \cup T
      <4>1. Chat!IsFiniteSet(U) /\ Distinct(U) /\ z \in U /\ \A o \in U \ {z} : Chat!Earlier(o, z)
        BY <2>0, <3>4
      <4> HIDE DEF U
      <4>2. Chat!Latest(U) = z
        BY <4>1, LatestOnly
      <4> QED BY <4>2 DEF U
    <3>6. z \notin P
      <4>1. z \in Sigs /\ ~Chat!Earlier(z, z)
        BY <2>0, <3>1, OrderType, BeforeOrders DEF Distinct, Chat!Earlier
      <4> QED BY <3>1, <4>1
    <3>7. (P \cup T) \ {z} = P \cup r
      BY <3>6
    <3>8. Chat!Pass(e, P \cup r) = Chat!Pass(d, r)
      <4> HIDE DEF r, d
      <4> QED BY <1>3, <3>2, <3>3
    <3>9. Chat!Pass(e, P \cup T) = Chat!Observe(Chat!Pass(e, P \cup r), z)
      BY <2>0, <3>4, <3>5, <3>7, PassTaken
    <3>10. Chat!Pass(d, T) = Chat!Observe(Chat!Pass(d, r), z)
      <4> HIDE DEF d
      <4> QED BY <2>0, <2>2, <3>1, PassTaken
    <3> QED BY <3>8, <3>9, <3>10
  <2> QED BY <2>1, <2>2
<1>4. Nat \subseteq N
  <2> HIDE DEF N
  <2> QED BY <1>2, <1>3, NatSets
<1>5. Chat!Cardinality(Q) \in N /\ Chat!Cardinality(Q) <= Chat!Cardinality(Q) /\ Q \in SUBSET Q
  BY <1>0, <1>4
<1> QED BY <1>5

\* --- The shape of a pass: the last episode is the pending one, if there is one.
Eps == [start : Nat, at : Nat, response : Nat]
MessageIds(S) == {s.msg.id : s \in S}
Fits(S, L, q) ==
  /\ L \in Seq(Eps) /\ q \in Nat
  /\ \A i \in 1..Len(L) : L[i].start \in MessageIds(S)
  /\ \A i \in 1..Len(L) : (L[i].response = 0) <=> (L[i].start = q)
  /\ \A i, j \in 1..Len(L) : L[i].start = L[j].start => i = j
  /\ q # 0 => Len(L) >= 1 /\ L[Len(L)].start = q
Shape(S, e) == e = [list |-> e.list, pending |-> e.pending] /\ Fits(S, e.list, e.pending)

LEMMA ShapeBy ==
  ASSUME NEW S, NEW L, NEW q, Fits(S, L, q) PROVE Shape(S, [list |-> L, pending |-> q])
BY DEF Shape

LEMMA ObserveShape ==
  ASSUME NEW S, S \subseteq Sigs, \A s \in S : s.msg.id # 0,
         NEW z \in Sigs, z.msg.id # 0, z.msg.id \notin MessageIds(S),
         NEW e, Shape(S, e)
  PROVE  Shape(S \cup {z}, Chat!Observe(e, z))
<1>0. PICK L, q : L = e.list /\ q = e.pending
  OBVIOUS
<1>n. PICK n \in Nat : n = Len(L)
  BY <1>0 DEF Shape, Fits
<1> DEFINE x == [start |-> z.msg.id, at |-> z.msg.at, response |-> 0]
           opened == z.msg.kind = "inbound" /\ q = 0
           answered == z.msg.kind # "inbound" /\ q # 0 /\ z.msg.id > q /\ z.msg.at >= L[n].at
<1>s. /\ e = [list |-> L, pending |-> q] /\ L \in Seq(Eps) /\ q \in Nat
      /\ \A i \in 1..n : L[i].start \in MessageIds(S)
      /\ \A i \in 1..n : (L[i].response = 0) <=> (L[i].start = q)
      /\ \A i, j \in 1..n : L[i].start = L[j].start => i = j
      /\ q # 0 => n >= 1 /\ L[n].start = q
  BY <1>0, <1>n DEF Shape, Fits
<1>1. L \in Seq(Eps) /\ n \in Nat /\ q \in Nat /\ z.msg.id \in Nat /\ z.msg.at \in Nat
  BY <1>s DEF Sigs, Msgs
<1>2. \A i \in 1..n : L[i] \in Eps /\ L[i].start \in Nat /\ L[i].start # 0
  <2>1. \A k \in MessageIds(S) : k \in Nat /\ k # 0
    BY DEF MessageIds, Sigs, Msgs
  <2>2. \A i \in 1..n : L[i] \in Eps
    BY <1>1, <1>n
  <2> QED BY <1>s, <2>1, <2>2
<1>3. MessageIds(S) \subseteq MessageIds(S \cup {z}) /\ z.msg.id \in MessageIds(S \cup {z})
  BY DEF MessageIds
<1>4. CASE opened
  <2> DEFINE M == Append(L, x)
  <2>1. Chat!Observe(e, z) = [list |-> M, pending |-> z.msg.id]
    BY <1>4, <1>0 DEF Chat!Observe
  <2>2. x \in Eps /\ x.start = z.msg.id /\ x.response = 0
    BY <1>1 DEF Eps
  <2> HIDE DEF x
  <2>3. M \in Seq(Eps) /\ Len(M) = n + 1 /\ M[n + 1] = x /\ \A i \in 1..n : M[i] = L[i]
    BY <1>1, <1>n, <2>2
  <2>4. \A i \in 1..(n + 1) : i \in 1..n \/ i = n + 1
    BY <1>1
  <2> HIDE DEF M
  <2>5. \A i \in 1..(n + 1) : M[i].start \in MessageIds(S \cup {z})
    BY <1>3, <1>s, <2>2, <2>3, <2>4
  <2>6. \A i \in 1..(n + 1) : (M[i].response = 0) <=> (M[i].start = z.msg.id)
    <3>1. \A i \in 1..n : L[i].response # 0 /\ L[i].start # z.msg.id
      BY <1>2, <1>4, <1>s
    <3> QED BY <2>2, <2>3, <2>4, <3>1
  <2>7. \A i, j \in 1..(n + 1) : M[i].start = M[j].start => i = j
    <3>1. \A i \in 1..n : L[i].start # z.msg.id
      BY <1>s
    <3>2. \A i, j \in 1..n : L[i].start = L[j].start => i = j
      BY <1>s
    <3> QED BY <2>2, <2>3, <2>4, <3>1, <3>2
  <2>8. n + 1 >= 1 /\ M[n + 1].start = z.msg.id
    BY <1>1, <2>2, <2>3
  <2>9. Fits(S \cup {z}, M, z.msg.id)
    BY <1>1, <2>3, <2>5, <2>6, <2>7, <2>8 DEF Fits
  <2> QED BY <2>1, <2>9, ShapeBy
<1>5. CASE answered
  <2> DEFINE M == [L EXCEPT ![n].response = z.msg.id]
  <2>1. Chat!Observe(e, z) = [list |-> M, pending |-> 0]
    BY <1>5, <1>0, <1>n DEF Chat!Observe
  <2>2. n \in 1..n /\ L[n].start = q
    BY <1>1, <1>5, <1>s
  <2>3. M \in Seq(Eps) /\ Len(M) = n /\ \A i \in 1..n : i # n => M[i] = L[i]
    <3>1. [L[n] EXCEPT !.response = z.msg.id] \in Eps
      BY <1>1, <1>2, <2>2 DEF Eps
    <3>2. M = [L EXCEPT ![n] = [L[n] EXCEPT !.response = z.msg.id]]
      OBVIOUS
    <3> QED BY <1>1, <1>n, <2>2, <3>1, <3>2
  <2>4. M[n].start = L[n].start /\ M[n].response = z.msg.id
    <3>1. M[n] = [L[n] EXCEPT !.response = z.msg.id]
      BY <1>1, <1>n, <2>2
    <3>2. L[n] \in Eps
      BY <1>2, <2>2
    <3> HIDE DEF M
    <3> QED BY <3>1, <3>2 DEF Eps
  <2> HIDE DEF M
  <2>5. \A i \in 1..n : M[i].start = L[i].start
    BY <2>3, <2>4
  <2>6. \A i \in 1..n : M[i].response # 0
    <3> TAKE i \in 1..n
    <3>1. CASE i = n
      BY <2>4, <3>1
    <3>2. CASE i # n
      <4>1. L[i].start # q
        BY <1>s, <2>2, <3>2
      <4>2. L[i].response # 0
        BY <1>s, <4>1
      <4> QED BY <2>3, <3>2, <4>2
    <3> QED BY <3>1, <3>2
  <2>7. \A i \in 1..n : M[i].start # 0 /\ M[i].start \in MessageIds(S \cup {z})
    BY <1>2, <1>3, <1>s, <2>5
  <2>8. \A i, j \in 1..n : M[i].start = M[j].start => i = j
    BY <1>s, <2>5
  <2>9. Fits(S \cup {z}, M, 0)
    BY <2>3, <2>6, <2>7, <2>8 DEF Fits
  <2> QED BY <2>1, <2>9, ShapeBy
<1>6. CASE ~opened /\ ~answered
  <2>1. Chat!Observe(e, z) = e
    BY <1>6, <1>0, <1>n DEF Chat!Observe
  <2>2. Fits(S \cup {z}, L, q)
    BY <1>3, <1>n, <1>s DEF Fits
  <2> QED BY <1>s, <2>1, <2>2, ShapeBy
<1> QED BY <1>4, <1>5, <1>6

LEMMA PassShape ==
  ASSUME NEW S, Chat!IsFiniteSet(S), Distinct(S), \A s \in S : s.msg.id # 0
  PROVE  Shape(S, Chat!Pass(Chat!Unread, S))
<1> DEFINE N == {n \in Nat : \A T \in SUBSET S : Chat!Cardinality(T) <= n
      => Shape(T, Chat!Pass(Chat!Unread, T))}
<1>0. \A T \in SUBSET S : Chat!IsFiniteSet(T) /\ Chat!Cardinality(T) \in Nat /\ Distinct(T)
  BY FS_Subset, FS_CardinalityType, TimelineSizes DEF Distinct
<1>1. Shape({}, Chat!Pass(Chat!Unread, {}))
  <2>1. {} \in SUBSET S
    OBVIOUS
  <2>2. Chat!Pass(Chat!Unread, {}) = Chat!Unread
    BY <1>0, <2>1, PassTaken
  <2>3. <<>> \in Seq(Eps) /\ Len(<<>>) = 0
    OBVIOUS
  <2>4. Fits({}, <<>>, 0)
    BY <2>3 DEF Fits
  <2> QED BY <2>2, <2>4, ShapeBy DEF Chat!Unread
<1>2. 0 \in N
  <2> SUFFICES ASSUME NEW T \in SUBSET S, Chat!Cardinality(T) <= 0
        PROVE Shape(T, Chat!Pass(Chat!Unread, T))
    OBVIOUS
  <2>0. Chat!IsFiniteSet(T) /\ Chat!Cardinality(T) \in Nat
    BY <1>0
  <2>1. Chat!Cardinality(T) = 0
    BY <2>0
  <2>2. T = {}
    BY <2>0, <2>1, FS_EmptySet, TimelineSizes
  <2> QED BY <1>1, <2>2
<1>3. ASSUME NEW n \in Nat, n \in N PROVE n + 1 \in N
  <2> SUFFICES ASSUME NEW T \in SUBSET S, Chat!Cardinality(T) <= n + 1
               PROVE  Shape(T, Chat!Pass(Chat!Unread, T))
    OBVIOUS
  <2>1. CASE T = {}
    BY <1>1, <2>1
  <2>2. CASE T # {}
    <3>1. PICK z \in T : z = Chat!Latest(T)
      BY <1>0, <2>2, LatestIs
    <3> DEFINE r == T \ {z}
    <3>2. Chat!Cardinality(r) = Chat!Cardinality(T) - 1 /\ r \in SUBSET S
      BY <1>0, <3>1, FS_RemoveElement, TimelineSizes
    <3>3. Chat!Cardinality(r) <= n
      BY <1>0, <3>2
    <3>4. Shape(r, Chat!Pass(Chat!Unread, r))
      <4> HIDE DEF r
      <4> QED BY <1>3, <3>2, <3>3
    <3>5. z \in Sigs /\ z.msg.id # 0 /\ r \subseteq Sigs /\ z.msg.id \notin MessageIds(r)
      BY <1>0, <3>1 DEF Distinct, MessageIds
    <3>6. \A s \in r : s.msg.id # 0
      OBVIOUS
    <3>7. Shape(r \cup {z}, Chat!Observe(Chat!Pass(Chat!Unread, r), z))
      <4> HIDE DEF r
      <4> QED BY <3>4, <3>5, <3>6, ObserveShape
    <3>8. r \cup {z} = T
      BY <3>1
    <3>9. Chat!Pass(Chat!Unread, T) = Chat!Observe(Chat!Pass(Chat!Unread, r), z)
      BY <1>0, <2>2, <3>1, PassTaken
    <3> QED BY <3>7, <3>8, <3>9
  <2> QED BY <2>1, <2>2
<1>4. Nat \subseteq N
  <2> HIDE DEF N
  <2> QED BY <1>2, <1>3, NatSets
<1>5. Chat!Cardinality(S) \in N /\ Chat!Cardinality(S) <= Chat!Cardinality(S) /\ S \in SUBSET S
  BY <1>0, <1>4
<1> QED BY <1>5

\* --- What rows, open transactions and jobs tell of each other.
Cursors == [state : {"absent", "materializing", "processing", "done"}, cutoff : Nat,
            after : Nat, last : Nat \X Nat, pending : Nat]
Ahead(s) == Chat!Before(cursor.last, Chat!Order(s))
Signaled(m, S) == \E s \in S : s.msg.id = m.id
HistoryWaits(c) == c.state \in {"absent", "materializing"}

CursorFits(c) ==
  /\ c \in Cursors /\ c.after <= c.cutoff /\ c.cutoff \in {0} \cup Chat!Ids
  /\ HistoryWaits(c) => c.last = Chat!Start
  /\ c.state = "absent" => c.after = 0
\* A confirmed message has a signal, or it is history that is still to get one,
\* or capture was off when it was confirmed.
Signed(c, S) ==
  \A m \in messages :
    Chat!Confirmed(m) => \/ Signaled(m, S) \/ c.state = "absent"
                         \/ c.state = "materializing" /\ m.id > c.after /\ m.id <= c.cutoff
                         \/ m.id \in missed

OneEach(M) == \A m, o \in M : m.id = o.id => m = o
MessagesTell ==
  /\ Chat!IsFiniteSet(messages) /\ messages \subseteq Msgs /\ OneEach(messages)
  /\ \A m \in messages : m.id \in Chat!Ids
SignalsTell ==
  /\ Chat!IsFiniteSet(signals) /\ Distinct(signals)
  /\ \A s \in signals : s.msg \in messages /\ Chat!Confirmed(s.msg)
ConsumedTell ==
  /\ consumed \subseteq MessageIds(signals)
  /\ \A s \in signals : s.msg.id \in consumed => ~Ahead(s)

Live(t) == pageTxn[t] # Idle /\ pageTxn[t].op = "live"
\* A live transaction that no job overtook knows the frontier; the message it
\* confirms is one that nobody else does, and no one has confirmed otherwise.
LiveTells(t) ==
  /\ pageTxn[t] = [op |-> "live", msg |-> pageTxn[t].msg, known |-> pageTxn[t].known,
       on |-> pageTxn[t].on,
                   floor |-> pageTxn[t].floor, raced |-> pageTxn[t].raced]
  /\ pageTxn[t].msg \in Msgs /\ pageTxn[t].floor \in Nat \X Nat
  /\ pageTxn[t].msg.id # 0 =>
       \E m \in messages : m.id = pageTxn[t].msg.id /\ (~Chat!Confirmed(m) \/ m = pageTxn[t].msg)
  /\ pageTxn[t].on /\ ~pageTxn[t].raced /\ Chat!Confirmed(pageTxn[t].msg)
       => pageTxn[t].floor = Chat!Floor
LivesTell ==
  /\ pageTxn = [t \in Workers |-> pageTxn[t]]
  /\ \A t \in Workers : Live(t) => LiveTells(t)
  /\ \A t, u \in Workers :
       Live(t) /\ Live(u) /\ t # u /\ pageTxn[t].msg.id # 0 => pageTxn[t].msg.id # pageTxn[u].msg.id

\* What a job has read is still there, what it has not read overlapped it: all
\* but the jobs whose cursor will be refused.
Viewing(t) == Chat!Reconciling(t) /\ ~Chat!Doomed(t)
SeesSignals(t) ==
  /\ pageTxn[t].signals \subseteq {s \in signals : Ahead(s)}
  /\ \A s \in signals : Ahead(s) => s \in pageTxn[t].signals \/ s.msg.id \in raced
SeesMessages(t) ==
  /\ Chat!IsFiniteSet(pageTxn[t].messages) /\ pageTxn[t].messages \subseteq Msgs
       /\ OneEach(pageTxn[t].messages)
  /\ \A m \in pageTxn[t].messages : m.id \in Chat!Ids /\ (Chat!Confirmed(m) => m \in messages)
  /\ HistoryWaits(cursor) =>
       \A m \in messages :
         Chat!Confirmed(m) => m \in pageTxn[t].messages \/ Signaled(m, signals) \/ m.id \in missed
ViewsTell == \A t \in Workers : Viewing(t) => SeesSignals(t) /\ SeesMessages(t)

\* A job that runs is one of those left, and what it has not read has another.
Unseen(t) == \E s \in signals : Ahead(s) /\ s \notin pageTxn[t].signals
JobsTell ==
  /\ lapsed \in BOOLEAN /\ pageJobs \in Nat
  /\ Chat!IsFiniteSet(Chat!Running) /\ Chat!Cardinality(Chat!Running) <= pageJobs
  /\ \A t \in Workers : Viewing(t) /\ Unseen(t) => pageJobs >= 2 \/ lapsed

TimelineInv ==
  /\ now \in 0..Horizon
  /\ MessagesTell /\ SignalsTell /\ CursorFits(cursor) /\ Signed(cursor, signals)
  /\ ConsumedTell /\ Chat!EpisodesFollowTimeline /\ Chat!LeftOnlyByRace /\ Chat!NeverStranded
  /\ LivesTell /\ ViewsTell /\ JobsTell

LEMMA ValuesAreFinite ==
  ASSUME NEW S, Chat!IsFiniteSet(S), NEW T, NEW f \in [S -> T], \A y \in T : \E x \in S : f[x] = y
  PROVE  Chat!IsFiniteSet(T)
<1>1. f \in Surjection(S, T)
  BY DEF Surjection
<1> QED BY <1>1, FS_Surjection, TimelineSizes

LEMMA IdsAreNumbers == Chat!Ids \subseteq Nat /\ \A i \in Chat!Ids : i # 0 /\ i <= MaxMessages
BY TimelineBounds DEF Chat!Ids, Chat!TimelineConstants

LEMMA StartIsFirst ==
  /\ Chat!Start \in Nat \X Nat
  /\ \A s \in Sigs : s.msg.id # 0 => Chat!Before(Chat!Start, Chat!Order(s))
BY OrderType DEF Chat!Start, Chat!Before, Sigs, Msgs

LEMMA MaxIs ==
  ASSUME NEW S \in SUBSET Chat!Ids, S # {} PROVE Chat!Max(S) \in S /\ \A k \in S : k <= Chat!Max(S)
<1>1. S \in SUBSET Nat /\ MaxMessages \in Nat /\ \A k \in S : k <= MaxMessages
  BY IdsAreNumbers, TimelineBounds DEF Chat!TimelineConstants
<1>2. PICK m \in S : \A k \in S : m >= k
  BY <1>1, GreatestNumber
<1>3. Chat!Max(S) \in S /\ \A k \in S : Chat!Max(S) >= k
  BY <1>2 DEF Chat!Max
<1> QED BY <1>1, <1>3

LEMMA SignalsHaveIds ==
  ASSUME MessagesTell, SignalsTell
  PROVE  \A s \in signals : s \in Sigs /\ s.msg.id \in Chat!Ids /\ s.msg.id # 0 /\ s.msg.id \in Nat
BY IdsAreNumbers DEF MessagesTell, SignalsTell, Distinct

\* --- What holds at the start.
LEMMA TimelineInit == Chat!Init => TimelineInv
<1> SUFFICES ASSUME Chat!Init PROVE TimelineInv
  OBVIOUS
<1>0. MaxHistory \in 0..MaxMessages /\ MaxMessages \in Nat /\ Horizon \in Nat
      /\ Kinds \subseteq {"inbound", "device", "agent"}
  BY TimelineBounds DEF Chat!TimelineConstants
<1>1. PICK n \in 0..MaxHistory : \E kind \in [1..n -> Kinds] :
        messages = {Chat!Message(id, kind[id], 0) : id \in 1..n}
  BY DEF Chat!Init
<1>2. PICK kind \in [1..n -> Kinds] : messages = {Chat!Message(id, kind[id], 0) : id \in 1..n}
  BY <1>1
<1>n. n \in Nat /\ n <= MaxMessages
  BY <1>0
<1>3. MessagesTell
  <2>1. Chat!IsFiniteSet(1..n)
    <3>1. 1 \in Int /\ n \in Int
      BY <1>n
    <3> QED BY <3>1, FS_Interval, TimelineSizes
  <2>2. Chat!IsFiniteSet(messages)
    <3> DEFINE f == [id \in 1..n |-> Chat!Message(id, kind[id], 0)]
    <3>1. f \in [1..n -> messages] /\ \A m \in messages : \E id \in 1..n : f[id] = m
      BY <1>2
    <3> HIDE DEF f
    <3> QED BY <2>1, <3>1, ValuesAreFinite
  <2>3. \A id \in 1..n : id \in Nat /\ id \in Chat!Ids
          /\ kind[id] \in {"inbound", "device", "agent"}
    <3>1. \A id \in 1..n : kind[id] \in Kinds
      OBVIOUS
    <3>2. \A id \in 1..n : id \in Nat /\ 1 <= id /\ id <= n
      BY <1>n
    <3>3. \A id \in 1..n : id \in Chat!Ids
      BY <1>0, <1>n, <3>2 DEF Chat!Ids
    <3> QED BY <1>0, <3>1, <3>2, <3>3
  <2>4. \A m \in messages : \E id \in 1..n : m = Chat!Message(id, kind[id], 0)
    BY <1>2
  <2>5. \A id \in 1..n : Chat!Message(id, kind[id], 0) \in Msgs
          /\ Chat!Message(id, kind[id], 0).id = id
    BY <2>3 DEF Chat!Message, Msgs
  <2>6. messages \subseteq Msgs /\ \A m \in messages : m.id \in Chat!Ids
    BY <2>3, <2>4, <2>5
  <2>7. OneEach(messages)
    BY <2>4, <2>5 DEF OneEach
  <2> QED BY <2>2, <2>6, <2>7 DEF MessagesTell
<1>4. signals = {} /\ episodes = <<>> /\ consumed = {} /\ raced = {} /\ now = 0
      /\ lapsed = ~Chat!Capturing /\ pageJobs = (IF Chat!Capturing THEN 1 ELSE 0)
      /\ cursor = [state |-> "absent", cutoff |-> 0, after |-> 0, last |-> Chat!Start,
           pending |-> 0]
      /\ pageTxn = [t \in Workers |-> Idle]
  BY DEF Chat!Init
<1>5. SignalsTell
  BY <1>4, FS_EmptySet, TimelineSizes DEF SignalsTell, Distinct
<1>6. CursorFits(cursor) /\ Signed(cursor, signals)
  BY <1>4, StartIsFirst DEF CursorFits, Cursors, Signed
<1>7. ConsumedTell
  BY <1>4 DEF ConsumedTell
<1>8. Chat!EpisodesFollowTimeline
  <2>1. {s \in signals : s.msg.id \in consumed} = {}
    BY <1>4
  <2>2. Chat!Pass(Chat!Unread, {}) = Chat!Unread
    BY PassTaken, FS_EmptySet, TimelineSizes DEF Distinct
  <2> QED BY <1>4, <2>1, <2>2 DEF Chat!EpisodesFollowTimeline, Chat!Unread
<1>9. Chat!LeftOnlyByRace /\ Chat!NeverStranded
  <2>1. pageJobs > 0 \/ lapsed
    <3>1. CASE Chat!Capturing
      <4>1. pageJobs = 1
        BY <1>4, <3>1
      <4> QED BY <4>1
    <3>2. CASE ~Chat!Capturing
      <4>1. lapsed
        BY <1>4, <3>2
      <4> QED BY <4>1
    <3> QED BY <3>1, <3>2
  <2> QED BY <1>4, <2>1 DEF Chat!LeftOnlyByRace, Chat!NeverStranded
<1>10. LivesTell
  BY <1>4 DEF LivesTell, Live
<1>11. ViewsTell /\ JobsTell
  <2>1. \A u \in Workers : ~Chat!Reconciling(u)
    BY <1>4 DEF Chat!Reconciling
  <2>2. Chat!Running = {} /\ Chat!IsFiniteSet(Chat!Running) /\ Chat!Cardinality(Chat!Running) = 0
    BY <2>1, FS_EmptySet, TimelineSizes DEF Chat!Running
  <2>3. pageJobs \in Nat /\ lapsed \in BOOLEAN
    BY <1>4
  <2> QED BY <2>1, <2>2, <2>3 DEF ViewsTell, JobsTell, Viewing
<1> QED BY <1>0, <1>3, <1>4, <1>5, <1>6, <1>7, <1>8, <1>9, <1>10, <1>11 DEF TimelineInv

\* --- Steps that leave the rows as they are.
Resting == UNCHANGED <<messages, signals, cursor, episodes, missed, consumed, raced>>

LEMMA RowsStay ==
  ASSUME TimelineInv, Resting, now' \in 0..Horizon, Chat!NeverStranded', LivesTell', ViewsTell',
    JobsTell'
  PROVE  TimelineInv'
<1>1. /\ MessagesTell' /\ SignalsTell' /\ CursorFits(cursor)' /\ Signed(cursor, signals)'
      /\ ConsumedTell' /\ Chat!EpisodesFollowTimeline' /\ Chat!LeftOnlyByRace'
  BY DEF TimelineInv, Resting, MessagesTell, SignalsTell, CursorFits, Signed, HistoryWaits,
         Signaled,
         ConsumedTell, Chat!EpisodesFollowTimeline, Chat!LeftOnlyByRace, Ahead, Chat!Left
<1> QED BY <1>1 DEF TimelineInv

\* Work that is left has its job as long as the jobs stay.
LEMMA WorkStays ==
  ASSUME TimelineInv, Resting, pageJobs' = pageJobs, lapsed' = lapsed
  PROVE  Chat!NeverStranded'
BY DEF TimelineInv, Chat!NeverStranded, Resting

\* A transaction that is as it was tells what it told.
LEMMA LiveStays ==
  ASSUME TimelineInv, Resting, NEW t \in Workers, pageTxn'[t] = pageTxn[t]
  PROVE  /\ Live(t)' = Live(t) /\ Chat!Reconciling(t)' = Chat!Reconciling(t)
           /\ Viewing(t)' = Viewing(t)
         /\ Unseen(t)' = Unseen(t)
         /\ Live(t) => LiveTells(t)'
         /\ Viewing(t) => SeesSignals(t)' /\ SeesMessages(t)'
<1>1. /\ Live(t)' = Live(t) /\ Chat!Reconciling(t)' = Chat!Reconciling(t)
  BY DEF Live, Chat!Reconciling
<1>2. ASSUME Live(t) PROVE LiveTells(t)'
  <2>1. LiveTells(t)
    BY <1>2 DEF TimelineInv, LivesTell
  <2> QED BY <2>1 DEF LiveTells, Resting, Chat!Floor
<1>3. ASSUME Viewing(t) PROVE SeesSignals(t)' /\ SeesMessages(t)'
  <2>1. SeesSignals(t) /\ SeesMessages(t)
    BY <1>3 DEF TimelineInv, ViewsTell
  <2>2. SeesSignals(t)'
    BY <2>1 DEF SeesSignals, Resting, Ahead
  <2>3. SeesMessages(t)'
    BY <2>1 DEF SeesMessages, Resting, HistoryWaits, Signaled
  <2> QED BY <2>2, <2>3
<1>4. Viewing(t)' = Viewing(t)
  BY <1>1 DEF Viewing, Chat!Doomed, Chat!Reconciling, Resting
<1>5. Unseen(t)' = Unseen(t)
  BY DEF Unseen, Resting, Ahead
<1> QED BY <1>1, <1>2, <1>3, <1>4, <1>5

\* One transaction begins or ends, and the rows rest.
LEMMA OneBegins ==
  ASSUME TimelineInv, Resting, now' = now, NEW t \in Workers,
    NEW x, pageTxn' = [pageTxn EXCEPT ![t] = x],
         Live(t)' => LiveTells(t)',
         Live(t)' => \A u \in Workers : u # t /\ Live(u) /\ (pageTxn[u].msg.id # 0
           \/ x.msg.id # 0) =>
                                               pageTxn[u].msg.id # x.msg.id,
         Viewing(t)' => SeesSignals(t)' /\ SeesMessages(t)', Chat!NeverStranded', JobsTell'
  PROVE  TimelineInv'
<1>0. pageTxn = [u \in Workers |-> pageTxn[u]]
  BY DEF TimelineInv, LivesTell
<1>1. pageTxn' = [u \in Workers |-> IF u = t THEN x ELSE pageTxn[u]]
  BY <1>0
<1>2. pageTxn'[t] = x /\ \A u \in Workers : u # t => pageTxn'[u] = pageTxn[u]
  BY <1>1
<1>3. LivesTell'
  <2>1. (pageTxn = [u \in Workers |-> pageTxn[u]])'
    BY <1>1
  <2>2. ASSUME NEW u \in Workers, Live(u)' PROVE LiveTells(u)'
    <3>1. CASE u = t
      BY <2>2, <3>1
    <3>2. CASE u # t
      BY <1>2, <2>2, <3>2, LiveStays
    <3> QED BY <3>1, <3>2
  <2>3. ASSUME NEW u \in Workers, NEW w \in Workers, Live(u)', Live(w)', u # w,
               pageTxn'[u].msg.id # 0
        PROVE  pageTxn'[u].msg.id # pageTxn'[w].msg.id
    <3>1. CASE u # t /\ w # t
      <4>1. Live(u) /\ Live(w) /\ pageTxn'[u] = pageTxn[u] /\ pageTxn'[w] = pageTxn[w]
        BY <1>2, <2>3, <3>1, LiveStays
      <4> QED BY <2>3, <4>1 DEF TimelineInv, LivesTell
    <3>2. CASE u = t
      <4>1. Live(w) /\ pageTxn'[w] = pageTxn[w]
        BY <1>2, <2>3, <3>2, LiveStays
      <4> QED BY <1>2, <2>3, <3>2, <4>1
    <3>3. CASE w = t
      <4>1. Live(u) /\ pageTxn'[u] = pageTxn[u]
        BY <1>2, <2>3, <3>3, LiveStays
      <4> QED BY <1>2, <2>3, <3>3, <4>1
    <3> QED BY <3>1, <3>2, <3>3
  <2> QED BY <2>1, <2>2, <2>3 DEF LivesTell
<1>4. ViewsTell'
  <2>1. ASSUME NEW u \in Workers, Viewing(u)' PROVE SeesSignals(u)' /\ SeesMessages(u)'
    <3>1. CASE u = t
      BY <2>1, <3>1
    <3>2. CASE u # t
      BY <1>2, <2>1, <3>2, LiveStays
    <3> QED BY <3>1, <3>2
  <2> QED BY <2>1 DEF ViewsTell
<1>5. now' \in 0..Horizon
  BY DEF TimelineInv
<1> QED BY <1>3, <1>4, <1>5, RowsStay

\* The jobs that run are at most those that ran and the one that begins.
LEMMA OneRuns ==
  ASSUME TimelineInv, Resting, NEW t \in Workers, NEW x, pageTxn' = [pageTxn EXCEPT ![t] = x]
  PROVE  /\ \A u \in Workers : u # t => Viewing(u)' = Viewing(u) /\ Unseen(u)' = Unseen(u)
         /\ Chat!IsFiniteSet(Chat!Running') /\ Chat!Cardinality(Chat!Running) \in Nat
              /\ Chat!Cardinality(Chat!Running') \in Nat
         /\ Chat!Cardinality(Chat!Running') <= Chat!Cardinality(Chat!Running) + 1
         /\ ~Chat!Reconciling(t)'
              => Chat!Cardinality(Chat!Running') <= Chat!Cardinality(Chat!Running)
         /\ Chat!Reconciling(t) /\ ~Chat!Reconciling(t)'
              => Chat!Cardinality(Chat!Running') = Chat!Cardinality(Chat!Running) - 1
<1>1. \A u \in Workers : u # t => pageTxn'[u] = pageTxn[u]
  BY DEF TimelineInv, LivesTell
<1>2. \A u \in Workers : u # t => Viewing(u)' = Viewing(u) /\ Unseen(u)' = Unseen(u)
  BY <1>1, LiveStays
<1>r. \A u \in Workers : u # t => Chat!Reconciling(u)' = Chat!Reconciling(u)
  BY <1>1, LiveStays
<1>3. Chat!IsFiniteSet(Chat!Running) /\ Chat!Cardinality(Chat!Running) \in Nat
  BY FS_CardinalityType, TimelineSizes DEF TimelineInv, JobsTell
<1>4. Chat!IsFiniteSet(Chat!Running \cup {t})
        /\ Chat!Cardinality(Chat!Running \cup {t}) <= Chat!Cardinality(Chat!Running) + 1
      /\ Chat!Cardinality(Chat!Running \cup {t}) \in Nat
  <2>1. /\ Chat!IsFiniteSet(Chat!Running \cup {t})
        /\ Chat!Cardinality(Chat!Running \cup {t})
             = IF t \in Chat!Running THEN Chat!Cardinality(Chat!Running)
                                          ELSE Chat!Cardinality(Chat!Running) + 1
    BY <1>3, FS_AddElement, TimelineSizes
  <2> QED BY <1>3, <2>1
<1>5. Chat!Running' \subseteq Chat!Running \cup {t}
  BY <1>r DEF Chat!Running
<1>6. Chat!IsFiniteSet(Chat!Running') /\ Chat!Cardinality(Chat!Running') \in Nat
      /\ Chat!Cardinality(Chat!Running') <= Chat!Cardinality(Chat!Running \cup {t})
  BY <1>4, <1>5, FS_Subset, FS_CardinalityType, TimelineSizes
<1>7. Chat!Cardinality(Chat!Running') <= Chat!Cardinality(Chat!Running) + 1
  BY <1>3, <1>4, <1>6
<1>8. ASSUME ~Chat!Reconciling(t)'
        PROVE Chat!Cardinality(Chat!Running') <= Chat!Cardinality(Chat!Running)
  <2>1. Chat!Running' \subseteq Chat!Running
    BY <1>r, <1>8 DEF Chat!Running
  <2> QED BY <1>3, <2>1, FS_Subset, TimelineSizes
<1>9. ASSUME Chat!Reconciling(t), ~Chat!Reconciling(t)'
        PROVE Chat!Cardinality(Chat!Running') = Chat!Cardinality(Chat!Running) - 1
  <2>1. Chat!Running' = Chat!Running \ {t} /\ t \in Chat!Running
    BY <1>r, <1>9 DEF Chat!Running
  <2> QED BY <1>3, <2>1, FS_RemoveElement, TimelineSizes
<1> QED BY <1>2, <1>3, <1>6, <1>7, <1>8, <1>9

\* Jobs that stay, while no other job begins.
LEMMA JobsStay ==
  ASSUME TimelineInv, Resting, NEW t \in Workers, NEW x, pageTxn' = [pageTxn EXCEPT ![t] = x],
         ~Chat!Reconciling(t)', pageJobs' = pageJobs, lapsed' = lapsed
  PROVE  JobsTell'
<1>1. JobsTell /\ ~Viewing(t)'
  BY DEF TimelineInv, Viewing
<1>2. /\ \A u \in Workers : u # t => Viewing(u)' = Viewing(u) /\ Unseen(u)' = Unseen(u)
      /\ Chat!IsFiniteSet(Chat!Running') /\ Chat!Cardinality(Chat!Running) \in Nat
           /\ Chat!Cardinality(Chat!Running') \in Nat
      /\ Chat!Cardinality(Chat!Running') <= Chat!Cardinality(Chat!Running)
  BY OneRuns
<1>3. Chat!IsFiniteSet(Chat!Running)' /\ Chat!Cardinality(Chat!Running)' <= pageJobs'
  BY <1>1, <1>2 DEF JobsTell
<1> QED BY <1>1, <1>2, <1>3 DEF JobsTell

LEMMA AfterReceive ==
  ASSUME TimelineInv, NEW t \in Workers, NEW kind \in Kinds, Chat!Receive(t, kind)
  PROVE  TimelineInv'
<1> DEFINE x == [op |-> "live", known |-> Chat!Known, on |-> Chat!Capturing, raced |-> FALSE,
                 msg |-> Chat!Message(0, kind, IF kind = "agent" THEN 0 ELSE now),
                 floor |-> IF kind = "agent" \/ ~Chat!Capturing THEN Chat!Start ELSE Chat!Floor]
<1>1. pageTxn' = [pageTxn EXCEPT ![t] = x] /\ Resting /\ now' = now /\ pageJobs' = pageJobs
        /\ lapsed' = lapsed
  BY DEF Chat!Receive, Chat!RowsRest, Resting
<1>2. pageTxn'[t] = x /\ x.op = "live" /\ x.raced = FALSE /\ (x.on <=> Chat!Capturing)
      /\ x = [op |-> "live", msg |-> x.msg, known |-> x.known, on |-> x.on, floor |-> x.floor,
              raced |-> x.raced]
      /\ x.msg = Chat!Message(0, kind, IF kind = "agent" THEN 0 ELSE now)
      /\ x.floor = IF kind = "agent" \/ ~Chat!Capturing THEN Chat!Start ELSE Chat!Floor
  BY <1>1 DEF TimelineInv, LivesTell
<1> HIDE DEF x
<1>3. x.msg \in Msgs /\ x.msg.id = 0 /\ x.msg.kind = kind /\ x.msg.delivered = FALSE
  BY <1>2, TimelineBounds DEF Chat!Message, Msgs, TimelineInv, Chat!TimelineConstants
<1>4. Chat!Floor \in Nat \X Nat /\ Chat!Floor' = Chat!Floor
  BY <1>1, StartIsFirst DEF Chat!Floor, TimelineInv, CursorFits, Cursors, Resting
<1>5. LiveTells(t)'
  BY <1>2, <1>3, <1>4, StartIsFirst DEF LiveTells, Chat!Confirmed
<1>6. ~Chat!Reconciling(t)' /\ ~Viewing(t)'
  BY <1>2 DEF Chat!Reconciling, Viewing
<1>7. \A u \in Workers : u # t /\ Live(u) /\ (pageTxn[u].msg.id # 0 \/ x.msg.id # 0)
        => pageTxn[u].msg.id # x.msg.id
  BY <1>3
<1>8. JobsTell' /\ Chat!NeverStranded'
  BY <1>1, <1>6, JobsStay, WorkStays
<1> QED BY <1>1, <1>5, <1>6, <1>7, <1>8, OneBegins

LEMMA AfterReceiveDelivery ==
  ASSUME TimelineInv, NEW t \in Workers, NEW m \in messages, Chat!ReceiveDelivery(t, m)
  PROVE  TimelineInv'
<1> DEFINE x == [op |-> "live",
                 msg |-> IF m.delivered THEN m ELSE [m EXCEPT !.at = now, !.delivered = TRUE],
                 known |-> 0, on |-> Chat!Capturing, raced |-> FALSE,
                 floor |-> IF Chat!Capturing THEN Chat!Floor ELSE Chat!Start]
<1>1. pageTxn' = [pageTxn EXCEPT ![t] = x] /\ Resting /\ now' = now /\ pageJobs' = pageJobs
        /\ lapsed' = lapsed
      /\ m.kind = "agent" /\ \A u \in Workers : Live(u) => pageTxn[u].msg.id # m.id
  BY DEF Chat!ReceiveDelivery, Chat!RowsRest, Resting, Live
<1>2. pageTxn'[t] = x /\ x.op = "live" /\ x.raced = FALSE /\ (x.on <=> Chat!Capturing)
      /\ x.floor = (IF Chat!Capturing THEN Chat!Floor ELSE Chat!Start)
      /\ x = [op |-> "live", msg |-> x.msg, known |-> x.known, on |-> x.on, floor |-> x.floor,
              raced |-> x.raced]
      /\ x.msg = IF m.delivered THEN m ELSE [m EXCEPT !.at = now, !.delivered = TRUE]
  BY <1>1 DEF TimelineInv, LivesTell
<1> HIDE DEF x
<1>3. m \in Msgs /\ now \in Nat
  BY TimelineBounds DEF TimelineInv, MessagesTell, Chat!TimelineConstants
<1>4. x.msg \in Msgs /\ x.msg.id = m.id
  BY <1>2, <1>3 DEF Msgs
<1>5. Chat!Floor \in Nat \X Nat /\ Chat!Floor' = Chat!Floor
  BY <1>1, StartIsFirst DEF Chat!Floor, TimelineInv, CursorFits, Cursors, Resting
<1>6. m \in messages' /\ (~Chat!Confirmed(m) \/ m = x.msg)
  BY <1>1, <1>2 DEF Resting, Chat!Confirmed
<1>7. LiveTells(t)'
  BY <1>2, <1>4, <1>5, <1>6, StartIsFirst DEF LiveTells
<1>8. ~Chat!Reconciling(t)' /\ ~Viewing(t)'
  BY <1>2 DEF Chat!Reconciling, Viewing
<1>9. \A u \in Workers : u # t /\ Live(u) /\ (pageTxn[u].msg.id # 0 \/ x.msg.id # 0)
        => pageTxn[u].msg.id # x.msg.id
  BY <1>1, <1>4
<1>10. JobsTell' /\ Chat!NeverStranded'
  BY <1>1, <1>8, JobsStay, WorkStays
<1> QED BY <1>1, <1>7, <1>8, <1>9, <1>10, OneBegins

LEMMA AfterStartJob ==
  ASSUME TimelineInv, NEW t \in Workers, Chat!StartJob(t)
  PROVE  TimelineInv'
<1> DEFINE x == [op |-> "reconcile", first |-> cursor.state = "absent",
                 messages |-> IF cursor.state \in {"absent", "materializing"} THEN messages ELSE {},
                 signals |-> {s \in signals : Chat!Before(cursor.last, Chat!Order(s))}]
<1>1. pageTxn' = [pageTxn EXCEPT ![t] = x] /\ Resting /\ now' = now /\ pageJobs' = pageJobs
        /\ lapsed' = lapsed
      /\ pageJobs > Chat!Cardinality(Chat!Running)
  BY DEF Chat!StartJob, Chat!RowsRest, Resting
<1>2. pageTxn'[t] = x /\ x.op = "reconcile" /\ x.signals = {s \in signals : Ahead(s)}
      /\ x.messages = IF HistoryWaits(cursor) THEN messages ELSE {}
  BY <1>1 DEF TimelineInv, LivesTell, Ahead, HistoryWaits
<1> HIDE DEF x
<1>3. JobsTell'
  <2>1. JobsTell
    BY DEF TimelineInv
  <2>2. /\ \A u \in Workers : u # t => Viewing(u)' = Viewing(u) /\ Unseen(u)' = Unseen(u)
        /\ Chat!IsFiniteSet(Chat!Running') /\ Chat!Cardinality(Chat!Running) \in Nat
             /\ Chat!Cardinality(Chat!Running') \in Nat
        /\ Chat!Cardinality(Chat!Running') <= Chat!Cardinality(Chat!Running) + 1
    BY <1>1, OneRuns
  <2>3. Chat!IsFiniteSet(Chat!Running)' /\ Chat!Cardinality(Chat!Running)' <= pageJobs'
    BY <1>1, <2>1, <2>2 DEF JobsTell
  <2>4. ~Unseen(t)'
    BY <1>1, <1>2 DEF Unseen, Resting, Ahead
  <2> QED BY <1>1, <2>1, <2>2, <2>3, <2>4 DEF JobsTell
<1>4. SeesSignals(t)'
  BY <1>1, <1>2 DEF SeesSignals, Resting, Ahead
<1>5. SeesMessages(t)'
  <2>1. MessagesTell /\ SignalsTell /\ CursorFits(cursor)
    BY DEF TimelineInv
  <2>2. CASE HistoryWaits(cursor)
    <3>1. x.messages = messages
      BY <1>2, <2>2
    <3> QED BY <1>1, <1>2, <2>1, <3>1 DEF SeesMessages, Resting, MessagesTell, HistoryWaits
  <2>3. CASE ~HistoryWaits(cursor)
    <3>1. x.messages = {}
      BY <1>2, <2>3
    <3> QED BY <1>1, <1>2, <2>3, <3>1, FS_EmptySet, TimelineSizes
               DEF SeesMessages, Resting, OneEach, HistoryWaits
  <2> QED BY <2>2, <2>3
<1>6. ~Live(t)' /\ Chat!NeverStranded'
  BY <1>1, <1>2, WorkStays DEF Live
<1> QED BY <1>1, <1>3, <1>4, <1>5, <1>6, OneBegins

LEMMA AfterAbort ==
  ASSUME TimelineInv, NEW t \in Workers, Chat!Abort(t)
  PROVE  TimelineInv'
<1>1. pageTxn' = [pageTxn EXCEPT ![t] = Idle] /\ Resting /\ now' = now /\ pageJobs' = pageJobs
        /\ lapsed' = lapsed
  BY DEF Chat!Abort, Chat!RowsRest, Resting
<1>2. pageTxn'[t] = Idle
  BY <1>1 DEF TimelineInv, LivesTell
<1>3. ~Live(t)' /\ ~Chat!Reconciling(t)' /\ ~Viewing(t)'
  BY <1>2 DEF Live, Chat!Reconciling, Viewing
<1>4. JobsTell' /\ Chat!NeverStranded'
  BY <1>1, <1>3, JobsStay, WorkStays
<1> QED BY <1>1, <1>3, <1>4, OneBegins

\* A job ends unread: what it leaves is known to be left.
LEMMA AfterFailJob ==
  ASSUME TimelineInv, NEW t \in Workers, Chat!FailJob(t)
  PROVE  TimelineInv'
<1>1. pageTxn' = [pageTxn EXCEPT ![t] = Idle] /\ Resting /\ now' = now /\ pageJobs' = pageJobs - 1
      /\ lapsed' = TRUE /\ Chat!Reconciling(t)
  BY DEF Chat!FailJob, Resting
<1>2. pageTxn'[t] = Idle
  BY <1>1 DEF TimelineInv, LivesTell
<1>3. ~Live(t)' /\ ~Chat!Reconciling(t)' /\ ~Viewing(t)'
  BY <1>2 DEF Live, Chat!Reconciling, Viewing
<1>4. JobsTell'
  <2>1. JobsTell
    BY DEF TimelineInv
  <2>2. /\ Chat!IsFiniteSet(Chat!Running') /\ Chat!Cardinality(Chat!Running) \in Nat
             /\ Chat!Cardinality(Chat!Running') \in Nat
        /\ Chat!Cardinality(Chat!Running') = Chat!Cardinality(Chat!Running) - 1
    BY <1>1, <1>3, OneRuns
  <2>3. Chat!IsFiniteSet(Chat!Running)' /\ Chat!Cardinality(Chat!Running)' <= pageJobs'
          /\ pageJobs' \in Nat
    BY <1>1, <2>1, <2>2 DEF JobsTell
  <2> QED BY <1>1, <2>3 DEF JobsTell
<1>5. Chat!NeverStranded'
  BY <1>1 DEF Chat!NeverStranded
<1> QED BY <1>1, <1>3, <1>4, <1>5, OneBegins

\* The transactions are as they were.
LEMMA NoneBegins ==
  ASSUME TimelineInv, Resting, pageTxn' = pageTxn, now' \in 0..Horizon, Chat!NeverStranded',
         lapsed' \in BOOLEAN, pageJobs' \in Nat, Chat!Cardinality(Chat!Running) <= pageJobs',
         \A t \in Workers : Viewing(t) /\ Unseen(t) => pageJobs' >= 2 \/ lapsed'
  PROVE  TimelineInv'
<1>1. LivesTell'
  <2>1. \A t \in Workers : Live(t)' = Live(t) /\ (Live(t) => LiveTells(t)')
    BY LiveStays
  <2> QED BY <2>1 DEF LivesTell, TimelineInv
<1>2. \A t \in Workers :
        /\ Viewing(t)' = Viewing(t) /\ Unseen(t)' = Unseen(t)
        /\ Viewing(t) => SeesSignals(t)' /\ SeesMessages(t)'
  BY LiveStays
<1>3. ViewsTell'
  BY <1>2 DEF ViewsTell
<1>4. JobsTell'
  <2>1. Chat!Running' = Chat!Running
    BY DEF Chat!Running, Chat!Reconciling
  <2> QED BY <1>2, <2>1 DEF JobsTell, TimelineInv
<1> QED BY <1>1, <1>3, <1>4, RowsStay

LEMMA AfterTick ==
  ASSUME TimelineInv, Chat!Tick PROVE TimelineInv'
<1>1. Resting /\ pageTxn' = pageTxn /\ now < Horizon /\ now' = now + 1 /\ pageJobs' = pageJobs
        /\ lapsed' = lapsed
  BY DEF Chat!Tick, Resting
<1>2. now' \in 0..Horizon
  BY <1>1, TimelineBounds DEF TimelineInv, Chat!TimelineConstants
<1> QED BY <1>1, <1>2, WorkStays, NoneBegins DEF TimelineInv, JobsTell

LEMMA AfterSwitch ==
  ASSUME TimelineInv, Chat!SwitchCapture PROVE TimelineInv'
<1>1. Resting /\ pageTxn' = pageTxn /\ now' = now /\ pageJobs' = pageJobs /\ lapsed' = lapsed
  BY DEF Chat!SwitchCapture, Resting
<1> QED BY <1>1, WorkStays, NoneBegins DEF TimelineInv, JobsTell

LEMMA AfterSkipJob ==
  ASSUME TimelineInv, Chat!SkipJob PROVE TimelineInv'
<1>1. Resting /\ pageTxn' = pageTxn /\ now' = now /\ pageJobs' = pageJobs - 1 /\ lapsed' = TRUE
      /\ pageJobs > Chat!Cardinality(Chat!Running)
  BY DEF Chat!SkipJob, Resting
<1>2. Chat!Cardinality(Chat!Running) \in Nat /\ pageJobs \in Nat /\ now \in 0..Horizon
  BY FS_CardinalityType, TimelineSizes DEF TimelineInv, JobsTell
<1>3. Chat!NeverStranded'
  BY <1>1 DEF Chat!NeverStranded
<1>4. pageJobs' \in Nat /\ Chat!Cardinality(Chat!Running) <= pageJobs'
  BY <1>1, <1>2
<1> QED BY <1>1, <1>2, <1>3, <1>4, NoneBegins

LEMMA AfterBackfill ==
  ASSUME TimelineInv, Chat!Backfill PROVE TimelineInv'
<1>1. Resting /\ pageTxn' = pageTxn /\ now' = now /\ pageJobs' = pageJobs + 1 /\ lapsed' = FALSE
      /\ pageJobs = Chat!Cardinality(Chat!Running)
  BY DEF Chat!Backfill, Resting
<1>2. Chat!IsFiniteSet(Chat!Running) /\ pageJobs \in Nat /\ now \in 0..Horizon
  BY DEF TimelineInv, JobsTell
<1>3. Chat!NeverStranded'
  <2>1. pageJobs' > 0
    BY <1>1, <1>2
  <2> QED BY <2>1 DEF Chat!NeverStranded
<1>4. pageJobs' \in Nat /\ Chat!Cardinality(Chat!Running) <= pageJobs'
  BY <1>1, <1>2
<1>5. ASSUME NEW t \in Workers, Viewing(t) PROVE pageJobs' >= 2
  <2>1. t \in Chat!Running
    BY <1>5 DEF Viewing, Chat!Running
  <2>2. Chat!Cardinality(Chat!Running) # 0
    BY <1>2, <2>1, FS_EmptySet, TimelineSizes
  <2> QED BY <1>1, <1>2, <2>2
<1> QED BY <1>1, <1>2, <1>3, <1>4, <1>5, NoneBegins

\* --- A live transaction ends.
LEMMA ClampedIsAhead ==
  ASSUME NEW m \in Msgs, m.id # 0, NEW floor \in Nat \X Nat
  PROVE  /\ Chat!Clamped(m, floor) \in Nat
         /\ floor # Chat!Start => Chat!Before(floor, <<Chat!Clamped(m, floor), m.id>>)
         /\ floor = Chat!Start => Chat!Before(floor, <<Chat!Clamped(m, floor), m.id>>)
<1>1. m.at \in Nat /\ m.id \in Nat /\ floor[1] \in Nat /\ floor[2] \in Nat
  BY DEF Msgs
<1>2. CASE floor # Chat!Start /\ ~Chat!Before(floor, <<m.at, m.id>>)
  <2>1. Chat!Clamped(m, floor) = floor[1] + 1
    BY <1>2 DEF Chat!Clamped
  <2> QED BY <1>1, <1>2, <2>1 DEF Chat!Before
<1>3. CASE ~(floor # Chat!Start /\ ~Chat!Before(floor, <<m.at, m.id>>))
  <2>1. Chat!Clamped(m, floor) = m.at
    BY <1>3 DEF Chat!Clamped
  <2>2. floor = Chat!Start => Chat!Before(floor, <<m.at, m.id>>)
    BY <1>1 DEF Chat!Before, Chat!Start
  <2> QED BY <1>1, <1>3, <2>1, <2>2
<1> QED BY <1>2, <1>3

LEMMA AfterRecord ==
  ASSUME TimelineInv, NEW t \in Workers, Chat!Record(t)
  PROVE  TimelineInv'
<1> DEFINE x == pageTxn[t]
<1>0. /\ MessagesTell /\ SignalsTell /\ CursorFits(cursor) /\ Signed(cursor, signals)
      /\ ConsumedTell /\ Chat!EpisodesFollowTimeline /\ Chat!LeftOnlyByRace /\ Chat!NeverStranded
      /\ LivesTell /\ ViewsTell /\ JobsTell /\ now \in 0..Horizon
  BY DEF TimelineInv
<1>1. Live(t) /\ LiveTells(t)
  BY <1>0 DEF Chat!Record, Live, LivesTell
<1>2. PICK id \in (IF x.msg.id # 0 THEN {x.msg.id}
                   ELSE {i \in Chat!Ids : (\A m \in messages : m.id # i) /\ i > x.known}) :
        LET m == [x.msg EXCEPT !.id = id]
            news == IF x.on /\ Chat!Confirmed(m) THEN {Chat!Signal(m, Chat!Clamped(m,
              x.floor))} ELSE {}
        IN  /\ \A s \in signals : news # {} => s.msg.id # id
            /\ messages' = {o \in messages : o.id # id} \cup {m}
            /\ signals' = signals \cup news
            /\ pageJobs' = pageJobs + Chat!Cardinality(news) /\ lapsed' = (lapsed /\ news = {})
            /\ missed' = IF Chat!Confirmed(m) /\ ~x.on THEN missed \cup {id} ELSE missed
            /\ raced' = IF x.raced \/ \E u \in Workers : Chat!Reconciling(u)
                          THEN raced \cup {o.msg.id : o \in news} ELSE raced
  BY DEF Chat!Record
<1> DEFINE m == [x.msg EXCEPT !.id = id]
           new == Chat!Signal(m, Chat!Clamped(m, x.floor))
           news == IF x.on /\ Chat!Confirmed(m) THEN {new} ELSE {}
<1>3. /\ \A s \in signals : news # {} => s.msg.id # id
      /\ messages' = {o \in messages : o.id # id} \cup {m}
      /\ signals' = signals \cup news
      /\ pageJobs' = pageJobs + Chat!Cardinality(news) /\ lapsed' = (lapsed /\ news = {})
      /\ missed' = IF Chat!Confirmed(m) /\ ~x.on THEN missed \cup {id} ELSE missed
      /\ raced' = IF x.raced \/ \E u \in Workers : Chat!Reconciling(u)
                    THEN raced \cup {o.msg.id : o \in news} ELSE raced
  BY <1>2
<1>4. pageTxn' = [pageTxn EXCEPT ![t] = Idle] /\ UNCHANGED <<now, cursor, episodes, consumed>>
  BY DEF Chat!Record
<1>5. /\ id \in Chat!Ids /\ id # 0 /\ id \in Nat
      /\ \A o \in messages : o.id = id => x.msg.id = id /\ (~Chat!Confirmed(o) \/ o = x.msg)
      /\ x.msg.id \in {0, id}
  <2>1. CASE x.msg.id # 0
    <3>1. id = x.msg.id
      BY <1>2, <2>1
    <3>2. PICK o \in messages : o.id = x.msg.id /\ (~Chat!Confirmed(o) \/ o = x.msg)
      BY <1>1, <2>1 DEF LiveTells
    <3> QED BY <1>0, <3>1, <3>2, IdsAreNumbers DEF MessagesTell, OneEach
  <2>2. CASE x.msg.id = 0
    BY <1>2, <2>2, IdsAreNumbers
  <2> QED BY <2>1, <2>2
<1>6. /\ m \in Msgs /\ m.id = id /\ Chat!Confirmed(m) = Chat!Confirmed(x.msg)
      /\ x.floor \in Nat \X Nat /\ (x.msg.id = id => m = x.msg)
  BY <1>1, <1>5 DEF LiveTells, Msgs, Chat!Confirmed
<1> HIDE DEF m
<1>7. /\ new \in Sigs /\ new.msg = m /\ new.msg.id = id /\ Chat!Before(x.floor, Chat!Order(new))
  BY <1>5, <1>6, ClampedIsAhead DEF Chat!Signal, Sigs, Chat!Order
<1> HIDE DEF new
<1>8. /\ x.on /\ Chat!Confirmed(m) => news = {new} /\ Chat!Cardinality(news) = 1
      /\ ~(x.on /\ Chat!Confirmed(m)) => news = {} /\ Chat!Cardinality(news) = 0
      /\ \A s \in news : s = new /\ x.on /\ Chat!Confirmed(m)
  BY FS_Singleton, FS_EmptySet, TimelineSizes
<1> HIDE DEF news
<1>9. \A o \in messages : Chat!Confirmed(o) => o \in messages'
  <2> SUFFICES ASSUME NEW o \in messages, Chat!Confirmed(o), o.id = id PROVE o = m
    BY <1>3
  <2> QED BY <1>5, <1>6
<1>z. \A s \in signals : s \in Sigs /\ s.msg \in messages' /\ Chat!Confirmed(s.msg)
                         /\ (news # {} => s.msg.id # id)
  BY <1>0, <1>3, <1>9 DEF SignalsTell, Distinct
<1>10. MessagesTell'
  <2>1. Chat!IsFiniteSet({o \in messages : o.id # id})
    BY <1>0, FS_Subset, TimelineSizes DEF MessagesTell
  <2>2. Chat!IsFiniteSet(messages')
    BY <1>3, <2>1, FS_AddElement, TimelineSizes
  <2> QED BY <1>0, <1>3, <1>5, <1>6, <2>2 DEF MessagesTell, OneEach
<1>11. SignalsTell'
  <2>1. Chat!IsFiniteSet(signals')
    <3>1. CASE x.on /\ Chat!Confirmed(m)
      BY <1>0, <1>3, <1>8, <3>1, FS_AddElement, TimelineSizes DEF SignalsTell
    <3>2. CASE ~(x.on /\ Chat!Confirmed(m))
      BY <1>0, <1>3, <1>8, <3>2 DEF SignalsTell
    <3> QED BY <3>1, <3>2
  <2>2. Distinct(signals')
    BY <1>0, <1>3, <1>7, <1>8, <1>z DEF SignalsTell, Distinct
  <2>3. ASSUME NEW s \in signals' PROVE s.msg \in messages' /\ Chat!Confirmed(s.msg)
    <3>1. CASE s \in signals
      BY <1>z, <3>1
    <3>2. CASE s \in news
      <4>1. s = new /\ Chat!Confirmed(m)
        BY <1>8, <3>2
      <4> QED BY <1>3, <1>7, <4>1
    <3> QED BY <1>3, <3>1, <3>2
  <2> QED BY <2>1, <2>2, <2>3 DEF SignalsTell
<1>12. CursorFits(cursor)'
  BY <1>0, <1>4 DEF CursorFits, HistoryWaits
<1>13. Signed(cursor, signals)'
  <2> SUFFICES ASSUME NEW o \in messages', Chat!Confirmed(o)
               PROVE  \/ Signaled(o, signals') \/ cursor.state = "absent"
                      \/ cursor.state = "materializing" /\ o.id > cursor.after
                           /\ o.id <= cursor.cutoff
                      \/ o.id \in missed'
    BY <1>4 DEF Signed, Signaled
  <2>1. CASE o \in messages
    BY <1>0, <1>3, <2>1 DEF Signed, Signaled
  <2>2. CASE o = m /\ x.on
    <3>1. new \in signals' /\ new.msg.id = o.id
      BY <1>3, <1>6, <1>7, <1>8, <2>2
    <3> QED BY <3>1 DEF Signaled
  <2>3. CASE o = m /\ ~x.on
    BY <1>3, <1>6, <2>3
  <2> QED BY <1>3, <2>1, <2>2, <2>3
<1>14. news # {} => id \notin consumed
  BY <1>0, <1>3 DEF ConsumedTell, MessageIds
<1>15. ConsumedTell'
  BY <1>0, <1>3, <1>4, <1>7, <1>8, <1>14 DEF ConsumedTell, MessageIds, Ahead
<1>16. Chat!EpisodesFollowTimeline'
  <2>1. {s \in signals' : s.msg.id \in consumed} = {s \in signals : s.msg.id \in consumed}
    BY <1>3, <1>7, <1>8, <1>14
  <2> QED BY <1>0, <1>4, <2>1 DEF Chat!EpisodesFollowTimeline
<1>17. raced \subseteq raced' /\ (x.raced \/ (\E u \in Workers : Chat!Reconciling(u)) =>
                                     \A s \in news : s.msg.id \in raced')
  BY <1>3
<1>18. Chat!LeftOnlyByRace'
  <2> SUFFICES ASSUME NEW s \in signals', ~Chat!Before(cursor.last, Chat!Order(s)),
        s.msg.id \notin consumed
               PROVE  s.msg.id \in raced'
    BY <1>4 DEF Chat!LeftOnlyByRace, Chat!Left
  <2>1. CASE s \in signals
    BY <1>0, <1>17, <2>1 DEF Chat!LeftOnlyByRace, Chat!Left
  <2>2. CASE s \in news
    <3>1. s = new /\ Chat!Confirmed(m) /\ x.on
      BY <1>8, <2>2
    <3>2. CASE x.raced
      BY <1>17, <2>2, <3>2
    <3>3. CASE ~x.raced
      <4>1. x.floor = Chat!Floor
        BY <1>1, <1>6, <3>1, <3>3 DEF LiveTells
      <4>2. Chat!Floor = cursor.last
        BY <1>0 DEF Chat!Floor, CursorFits, Cursors, HistoryWaits
      <4> QED BY <1>7, <3>1, <4>1, <4>2
    <3> QED BY <3>2, <3>3
  <2> QED BY <1>3, <2>1, <2>2
<1>19. /\ pageJobs \in Nat /\ pageJobs' \in Nat /\ pageJobs' >= pageJobs /\ (news # {}
            => pageJobs' = pageJobs + 1)
       /\ lapsed' \in BOOLEAN /\ (news = {} => lapsed' = lapsed)
  <2>1. pageJobs \in Nat /\ lapsed \in BOOLEAN
    BY <1>0 DEF JobsTell
  <2>2. news = {} \/ news # {}
    OBVIOUS
  <2>3. news # {} => Chat!Cardinality(news) = 1
    BY <1>8
  <2>4. news = {} => Chat!Cardinality(news) = 0
    BY <1>8
  <2> QED BY <1>3, <2>1, <2>2, <2>3, <2>4
<1>20. Chat!NeverStranded'
  <2> SUFFICES ASSUME \/ cursor.state \in {"absent", "materializing"}
                      \/ \E s \in signals' : Chat!Before(cursor.last, Chat!Order(s))
               PROVE  pageJobs' > 0 \/ lapsed'
    BY <1>4 DEF Chat!NeverStranded
  <2>1. CASE news = {}
    BY <1>0, <1>3, <1>19, <2>1 DEF Chat!NeverStranded
  <2>2. CASE news # {}
    BY <1>0, <1>19, <2>2
  <2> QED BY <2>1, <2>2
<1>21. pageTxn' = [u \in Workers |-> IF u = t THEN Idle ELSE pageTxn[u]]
  BY <1>0, <1>4 DEF LivesTell
<1>22. \A u \in Workers : Live(u)' \/ Chat!Reconciling(u)' => u # t /\ pageTxn'[u] = pageTxn[u]
  BY <1>21 DEF Live, Chat!Reconciling
<1>23. LivesTell'
  <2>1. (pageTxn = [u \in Workers |-> pageTxn[u]])'
    BY <1>21
  <2>2. ASSUME NEW u \in Workers, Live(u)' PROVE LiveTells(u)'
    <3>1. u # t /\ pageTxn'[u] = pageTxn[u] /\ Live(u)
      BY <1>22, <2>2 DEF Live
    <3>2. LiveTells(u)
      BY <1>0, <3>1 DEF LivesTell
    <3>3. ASSUME pageTxn[u].msg.id # 0
          PROVE  \E o \in messages' : o.id = pageTxn[u].msg.id /\ (~Chat!Confirmed(o)
                   \/ o = pageTxn[u].msg)
      <4>1. PICK o \in messages : o.id = pageTxn[u].msg.id /\ (~Chat!Confirmed(o)
              \/ o = pageTxn[u].msg)
        BY <3>2, <3>3 DEF LiveTells
      <4>2. o.id # id
        <5>1. CASE x.msg.id = id
          BY <1>0, <1>1, <3>1, <3>3, <4>1, <5>1 DEF LivesTell
        <5>2. CASE x.msg.id # id
          BY <1>5, <5>2
        <5> QED BY <5>1, <5>2
      <4> QED BY <1>3, <4>1, <4>2
    <3>4. Chat!Floor' = Chat!Floor
      BY <1>4 DEF Chat!Floor
    <3> QED BY <3>1, <3>2, <3>3, <3>4 DEF LiveTells
  <2>3. ASSUME NEW u \in Workers, NEW w \in Workers, Live(u)', Live(w)', u # w,
               pageTxn'[u].msg.id # 0
        PROVE  pageTxn'[u].msg.id # pageTxn'[w].msg.id
    <3>1. pageTxn'[u] = pageTxn[u] /\ Live(u) /\ pageTxn'[w] = pageTxn[w] /\ Live(w)
      BY <1>22, <2>3 DEF Live
    <3> QED BY <1>0, <2>3, <3>1 DEF LivesTell
  <2> QED BY <2>1, <2>2, <2>3 DEF LivesTell
<1>w. \A u \in Workers : Viewing(u)'
        => pageTxn'[u] = pageTxn[u] /\ Viewing(u) /\ Chat!Reconciling(u)
  BY <1>4, <1>22 DEF Viewing, Chat!Doomed, Chat!Reconciling
<1>24. ViewsTell'
  <2> SUFFICES ASSUME NEW u \in Workers, Viewing(u)' PROVE SeesSignals(u)' /\ SeesMessages(u)'
    BY DEF ViewsTell
  <2>1. pageTxn'[u] = pageTxn[u] /\ Chat!Reconciling(u) /\ Viewing(u)
    BY <1>w
  <2>2. SeesSignals(u) /\ SeesMessages(u)
    BY <1>0, <2>1 DEF ViewsTell
  <2>3. \A s \in news : s.msg.id \in raced'
    BY <1>17, <2>1
  <2>4. SeesSignals(u)'
    <3>1. pageTxn[u].signals \subseteq {s \in signals' : Chat!Before(cursor.last, Chat!Order(s))}
      BY <1>3, <2>2 DEF SeesSignals, Ahead
    <3>2. \A s \in signals' : Chat!Before(cursor.last, Chat!Order(s))
            => s \in pageTxn[u].signals \/ s.msg.id \in raced'
      BY <1>3, <1>17, <2>2, <2>3 DEF SeesSignals, Ahead
    <3> QED BY <1>4, <2>1, <3>1, <3>2 DEF SeesSignals, Ahead
  <2>5. SeesMessages(u)'
    <3>1. \A o \in pageTxn[u].messages : o.id \in Chat!Ids /\ (Chat!Confirmed(o) => o \in messages')
      BY <1>9, <2>2 DEF SeesMessages
    <3>2. ASSUME HistoryWaits(cursor), NEW o \in messages', Chat!Confirmed(o)
          PROVE  o \in pageTxn[u].messages \/ Signaled(o, signals') \/ o.id \in missed'
      <4>1. CASE o \in messages
        BY <1>3, <2>2, <3>2, <4>1 DEF SeesMessages, Signaled
      <4>2. CASE o = m /\ x.on
        <5>1. new \in signals' /\ new.msg.id = o.id
          BY <1>3, <1>6, <1>7, <1>8, <3>2, <4>2
        <5> QED BY <5>1 DEF Signaled
      <4>3. CASE o = m /\ ~x.on
        BY <1>3, <1>6, <3>2, <4>3
      <4> QED BY <1>3, <4>1, <4>2, <4>3
    <3> QED BY <1>4, <2>1, <2>2, <3>1, <3>2 DEF SeesMessages, HistoryWaits
  <2> QED BY <2>4, <2>5
<1>25. JobsTell'
  <2>1. Chat!IsFiniteSet(Chat!Running') /\ Chat!Cardinality(Chat!Running') <= pageJobs'
    <3>1. Chat!Running' \subseteq Chat!Running
      BY <1>22 DEF Chat!Reconciling, Chat!Running
    <3>2. Chat!IsFiniteSet(Chat!Running) /\ Chat!Cardinality(Chat!Running) <= pageJobs
      BY <1>0 DEF JobsTell
    <3>3. /\ Chat!IsFiniteSet(Chat!Running')
               /\ Chat!Cardinality(Chat!Running') <= Chat!Cardinality(Chat!Running)
          /\ Chat!Cardinality(Chat!Running') \in Nat /\ Chat!Cardinality(Chat!Running) \in Nat
      BY <3>1, <3>2, FS_Subset, FS_CardinalityType, TimelineSizes
    <3> QED BY <1>19, <3>2, <3>3
  <2>2. ASSUME NEW u \in Workers, Viewing(u)', Unseen(u)' PROVE pageJobs' >= 2 \/ lapsed'
    <3>1. pageTxn'[u] = pageTxn[u] /\ Viewing(u) /\ u \in Chat!Running
      BY <1>w, <2>2 DEF Chat!Running
    <3>2. CASE news = {}
      <4>1. Unseen(u)
        BY <1>3, <1>4, <2>2, <3>1, <3>2 DEF Unseen, Ahead
      <4> QED BY <1>0, <1>3, <1>19, <3>1, <3>2, <4>1 DEF JobsTell
    <3>3. CASE news # {}
      <4>1. PICK k \in Nat : k = Chat!Cardinality(Chat!Running)
        BY <1>0, FS_CardinalityType, TimelineSizes DEF JobsTell
      <4>2. k # 0 /\ k <= pageJobs
        BY <1>0, <3>1, <4>1, FS_EmptySet, TimelineSizes DEF JobsTell
      <4> QED BY <1>19, <3>3, <4>2
    <3> QED BY <3>2, <3>3
  <2> QED BY <1>19, <2>1, <2>2 DEF JobsTell
<1>26. now' \in 0..Horizon
  BY <1>0, <1>4
<1> QED BY <1>10, <1>11, <1>12, <1>13, <1>15, <1>16, <1>18, <1>20, <1>23, <1>24, <1>25, <1>26
        DEF TimelineInv

\* --- The steps of a job, as functions of its cursor, signals and messages.
Job(c, g, e, p, b) == [cursor |-> c, signals |-> g, episodes |-> e, page |-> p, more |-> b]
Opened(c, V) ==
  IF c.state # "absent" THEN c
  ELSE [c EXCEPT !.state = IF V = {} THEN "done" ELSE "materializing",
                 !.cutoff = IF V = {} THEN 0 ELSE Chat!Max({m.id : m \in V})]
Rest(c, V) == {m \in V : m.id > c.after /\ m.id <= c.cutoff}
OldPage(c, V) == {a \in Rest(c, V) : Chat!Cardinality({b \in Rest(c, V) : b.id < a.id}) < PageSize}
Given(c, V, g) == {m \in OldPage(c, V) : Chat!Confirmed(m) /\ \A o \in g : o.msg.id # m.id}
WithGiven(c, V, g) == g \cup {Chat!Signal(m, m.at) : m \in Given(c, V, g)}
TopId(S) == Chat!Max({m.id : m \in S})
Moved(c, V) ==
  [c EXCEPT !.after = IF OldPage(c, V) = {} THEN @ ELSE TopId(OldPage(c, V)),
            !.state = IF Chat!Full(OldPage(c, V)) THEN @ ELSE "processing"]
Beyond(c, g) == {o \in g : Chat!Before(c.last, Chat!Order(o))}
NextPage(c, g) ==
  {a \in Beyond(c, g) : Chat!Cardinality({b \in Beyond(c, g) : Chat!Earlier(b, a)}) < PageSize}
Passed(c, g, e) == Chat!Pass([list |-> e, pending |-> c.pending], NextPage(c, g))
Advanced(c, g, e) ==
  [c EXCEPT !.pending = Passed(c, g, e).pending,
            !.last = IF NextPage(c, g) = {} THEN @ ELSE Chat!Order(Chat!Latest(NextPage(c, g))),
            !.state = IF Chat!Full(NextPage(c, g)) THEN @ ELSE "done"]
\* The fields of the cursor and of the job, written one by one.
CursorRow(state, cutoff, after, last, pending) ==
  [state |-> state, cutoff |-> cutoff, after |-> after, last |-> last, pending |-> pending]

LEMMA RowIs ==
  ASSUME NEW c \in Cursors
  PROVE  c = CursorRow(c.state, c.cutoff, c.after, c.last, c.pending)
BY DEF CursorRow, Cursors

\* What a job writes, one field at a time.
SetState(j, x) == [j EXCEPT !.cursor.state = x]
SetAfter(j, x) == [j EXCEPT !.cursor.after = x]
SetLast(j, x) == [j EXCEPT !.cursor.last = x]
SetPending(j, x) == [j EXCEPT !.cursor.pending = x]
SetSignals(j, x) == [j EXCEPT !.signals = x]
SetEpisodes(j, x) == [j EXCEPT !.episodes = x]
SetPage(j, x) == [j EXCEPT !.page = x]
SetMore(j, x) == [j EXCEPT !.more = x]

LEMMA JobState ==
  ASSUME NEW c1, NEW c2, NEW c3, NEW c4, NEW c5, NEW g, NEW e, NEW p, NEW b, NEW x
  PROVE  SetState(Job(CursorRow(c1, c2, c3, c4, c5), g, e, p, b), x)
           = Job(CursorRow(x, c2, c3, c4, c5), g, e, p, b)
<1>1. [Job(CursorRow(c1, c2, c3, c4, c5), g, e, p, b) EXCEPT !.cursor.state = x]
        = Job([CursorRow(c1, c2, c3, c4, c5) EXCEPT !.state = x], g, e, p, b)
  BY DEF Job
<1>2. [CursorRow(c1, c2, c3, c4, c5) EXCEPT !.state = x] = CursorRow(x, c2, c3, c4, c5)
  BY DEF CursorRow
<1> QED BY <1>1, <1>2 DEF SetState

LEMMA JobAfter ==
  ASSUME NEW c1, NEW c2, NEW c3, NEW c4, NEW c5, NEW g, NEW e, NEW p, NEW b, NEW x
  PROVE  SetAfter(Job(CursorRow(c1, c2, c3, c4, c5), g, e, p, b), x)
           = Job(CursorRow(c1, c2, x, c4, c5), g, e, p, b)
<1>1. [Job(CursorRow(c1, c2, c3, c4, c5), g, e, p, b) EXCEPT !.cursor.after = x]
        = Job([CursorRow(c1, c2, c3, c4, c5) EXCEPT !.after = x], g, e, p, b)
  BY DEF Job
<1>2. [CursorRow(c1, c2, c3, c4, c5) EXCEPT !.after = x] = CursorRow(c1, c2, x, c4, c5)
  BY DEF CursorRow
<1> QED BY <1>1, <1>2 DEF SetAfter

LEMMA JobLast ==
  ASSUME NEW c1, NEW c2, NEW c3, NEW c4, NEW c5, NEW g, NEW e, NEW p, NEW b, NEW x
  PROVE  SetLast(Job(CursorRow(c1, c2, c3, c4, c5), g, e, p, b), x)
           = Job(CursorRow(c1, c2, c3, x, c5), g, e, p, b)
<1>1. [Job(CursorRow(c1, c2, c3, c4, c5), g, e, p, b) EXCEPT !.cursor.last = x]
        = Job([CursorRow(c1, c2, c3, c4, c5) EXCEPT !.last = x], g, e, p, b)
  BY DEF Job
<1>2. [CursorRow(c1, c2, c3, c4, c5) EXCEPT !.last = x] = CursorRow(c1, c2, c3, x, c5)
  BY DEF CursorRow
<1> QED BY <1>1, <1>2 DEF SetLast

LEMMA JobPending ==
  ASSUME NEW c1, NEW c2, NEW c3, NEW c4, NEW c5, NEW g, NEW e, NEW p, NEW b, NEW x
  PROVE  SetPending(Job(CursorRow(c1, c2, c3, c4, c5), g, e, p, b), x)
           = Job(CursorRow(c1, c2, c3, c4, x), g, e, p, b)
<1>1. [Job(CursorRow(c1, c2, c3, c4, c5), g, e, p, b) EXCEPT !.cursor.pending = x]
        = Job([CursorRow(c1, c2, c3, c4, c5) EXCEPT !.pending = x], g, e, p, b)
  BY DEF Job
<1>2. [CursorRow(c1, c2, c3, c4, c5) EXCEPT !.pending = x] = CursorRow(c1, c2, c3, c4, x)
  BY DEF CursorRow
<1> QED BY <1>1, <1>2 DEF SetPending

LEMMA JobSignals ==
  ASSUME NEW c, NEW g, NEW e, NEW p, NEW b, NEW x
  PROVE  SetSignals(Job(c, g, e, p, b), x) = Job(c, x, e, p, b)
BY DEF Job, SetSignals

LEMMA JobEpisodes ==
  ASSUME NEW c, NEW g, NEW e, NEW p, NEW b, NEW x
  PROVE  SetEpisodes(Job(c, g, e, p, b), x) = Job(c, g, x, p, b)
BY DEF Job, SetEpisodes

LEMMA JobPage ==
  ASSUME NEW c, NEW g, NEW e, NEW p, NEW b, NEW x
  PROVE  SetPage(Job(c, g, e, p, b), x) = Job(c, g, e, x, b)
BY DEF Job, SetPage

LEMMA JobMore ==
  ASSUME NEW c, NEW g, NEW e, NEW p, NEW b, NEW x
  PROVE  SetMore(Job(c, g, e, p, b), x) = Job(c, g, e, p, x)
BY DEF Job, SetMore

LEMMA MovedFields ==
  ASSUME NEW c1, NEW c2, NEW c3, NEW c4, NEW c5, NEW V, NEW c, c = CursorRow(c1, c2, c3, c4, c5)
  PROVE  Moved(c, V) = CursorRow(IF Chat!Full(OldPage(c, V)) THEN c1 ELSE "processing", c2,
                                 IF OldPage(c, V) = {} THEN c3 ELSE TopId(OldPage(c, V)),
                                 c4, c5)
<1>1. PICK after : after = IF OldPage(c, V) = {} THEN c3 ELSE TopId(OldPage(c, V))
  OBVIOUS
<1>2. PICK state : state = IF Chat!Full(OldPage(c, V)) THEN c1 ELSE "processing"
  OBVIOUS
<1>3. PICK d : d = [c EXCEPT !.after = after]
  OBVIOUS
<1>4. [CursorRow(c1, c2, c3, c4, c5) EXCEPT !.after = after] = CursorRow(c1, c2, after, c4, c5)
  BY DEF CursorRow
<1>5. d = CursorRow(c1, c2, after, c4, c5)
  BY <1>3, <1>4
<1>6. c.after = c3 /\ d.state = c1 /\ c.state = c1
  BY <1>5 DEF CursorRow
<1>7. Moved(c, V) = [d EXCEPT !.state = state]
  BY <1>1, <1>2, <1>3, <1>6 DEF Moved
<1>8. [CursorRow(c1, c2, after, c4, c5) EXCEPT !.state = state]
        = CursorRow(state, c2, after, c4, c5)
  BY DEF CursorRow
<1>9. Moved(c, V) = CursorRow(state, c2, after, c4, c5)
  BY <1>5, <1>7, <1>8
<1> QED BY <1>1, <1>2, <1>9

LEMMA AdvancedFields ==
  ASSUME NEW c1, NEW c2, NEW c3, NEW c4, NEW c5, NEW g, NEW e,
    NEW c, c = CursorRow(c1, c2, c3, c4, c5)
  PROVE  Advanced(c, g, e) = CursorRow(IF Chat!Full(NextPage(c, g)) THEN c1 ELSE "done", c2, c3,
                                       IF NextPage(c, g) = {} THEN c4 ELSE Chat!Order(Chat!Latest(NextPage(c, g))),
                                       Passed(c, g, e).pending)
<1>1. PICK last : last = IF NextPage(c, g) = {} THEN c4 ELSE Chat!Order(Chat!Latest(NextPage(c, g)))
  OBVIOUS
<1>2. PICK state : state = IF Chat!Full(NextPage(c, g)) THEN c1 ELSE "done"
  OBVIOUS
<1>3. PICK pending : pending = Passed(c, g, e).pending
  OBVIOUS
<1>4. PICK d : d = [c EXCEPT !.pending = pending]
  OBVIOUS
<1>5. PICK f : f = [d EXCEPT !.last = last]
  OBVIOUS
<1>6. [CursorRow(c1, c2, c3, c4, c5) EXCEPT !.pending = pending]
        = CursorRow(c1, c2, c3, c4, pending)
  BY DEF CursorRow
<1>7. [CursorRow(c1, c2, c3, c4, pending) EXCEPT !.last = last]
        = CursorRow(c1, c2, c3, last, pending)
  BY DEF CursorRow
<1>8. d = CursorRow(c1, c2, c3, c4, pending)
  BY <1>4, <1>6
<1>9. f = CursorRow(c1, c2, c3, last, pending)
  BY <1>5, <1>7, <1>8
<1>10. d.last = c4 /\ c.last = c4 /\ c.state = c1 /\ d.state = c1 /\ f.state = c1
  BY <1>8, <1>9 DEF CursorRow
<1>11. Advanced(c, g, e) = [f EXCEPT !.state = state]
  BY <1>1, <1>2, <1>3, <1>4, <1>5, <1>10 DEF Advanced
<1>12. [CursorRow(c1, c2, c3, last, pending) EXCEPT !.state = state]
         = CursorRow(state, c2, c3, last, pending)
  BY DEF CursorRow
<1>13. Advanced(c, g, e) = CursorRow(state, c2, c3, last, pending)
  BY <1>9, <1>11, <1>12
<1> QED BY <1>1, <1>2, <1>3, <1>13

LEMMA PagesAre ==
  ASSUME NEW c, NEW V, NEW g
  PROVE  /\ Chat!FirstPage({m \in V : m.id > c.after
           /\ m.id <= c.cutoff}, LAMBDA a, b : a.id < b.id)
              = OldPage(c, V)
         /\ Chat!FirstPage({o \in g : Chat!Before(c.last, Chat!Order(o))}, Chat!Earlier)
              = NextPage(c, g)
BY DEF Chat!FirstPage, OldPage, Rest, NextPage, Beyond

LEMMA InitializeIs ==
  ASSUME NEW c \in Cursors, NEW g, NEW e, NEW p, NEW b, NEW V
  PROVE  Chat!Initialize(Job(c, g, e, p, b), V) = Job(Opened(c, V), g, e, p, b)
BY DEF Chat!Initialize, Job, Opened, Cursors

Materialized(c, g, e, p, V) ==
  IF c.state # "materializing" THEN Job(c, g, e, p, FALSE)
  ELSE Job(Moved(c, V), WithGiven(c, V, g), e, p, Chat!Full(OldPage(c, V)))

LEMMA MaterializeIs ==
  ASSUME NEW c \in Cursors, NEW g, NEW e, NEW p, NEW b, NEW V
  PROVE  Chat!Materialize(Job(c, g, e, p, b), V) = Materialized(c, g, e, p, V)
<1>1. PICK j : j = Job(c, g, e, p, b)
  OBVIOUS
<1>2. j.cursor = c /\ j.signals = g
  BY <1>1 DEF Job
<1>3. CASE c.state # "materializing"
  <2>1. Chat!Materialize(j, V) = [j EXCEPT !.more = FALSE]
    BY <1>2, <1>3 DEF Chat!Materialize
  <2> QED BY <1>1, <1>3, <2>1 DEF Job, Materialized
<1>4. CASE c.state = "materializing"
  <2>1. PICK P : P = OldPage(c, V)
    OBVIOUS
  <2>2. PICK c1, c2, c3, c4, c5 : c = CursorRow(c1, c2, c3, c4, c5) /\ c1 = c.state /\ c3 = c.after
    BY RowIs
  <2>3. PICK h : h = WithGiven(c, V, g)
    OBVIOUS
  <2>4. PICK after : after = IF P = {} THEN c3 ELSE TopId(P)
    OBVIOUS
  <2>5. PICK state : state = IF Chat!Full(P) THEN c1 ELSE "processing"
    OBVIOUS
  <2>6. PICK j2 : j2 = SetSignals(j, h)
    OBVIOUS
  <2>7. PICK j3 : j3 = SetAfter(j2, after)
    OBVIOUS
  <2>8. PICK j4 : j4 = SetState(j3, state)
    OBVIOUS
  <2>9. /\ j2 = Job(CursorRow(c1, c2, c3, c4, c5), h, e, p, b)
        /\ j3 = Job(CursorRow(c1, c2, after, c4, c5), h, e, p, b)
        /\ SetMore(j4, Chat!Full(P))
             = Job(CursorRow(state, c2, after, c4, c5), h, e, p, Chat!Full(P))
    BY <1>1, <2>2, <2>6, <2>7, <2>8, JobSignals, JobAfter, JobState, JobMore
  <2>10. /\ j2.cursor.after = c3 /\ j3.cursor.state = c1
         /\ j.cursor.after = c3 /\ j.cursor.state = c1
    BY <1>1, <2>2, <2>9 DEF Job, CursorRow
  <2>11. Chat!Materialize(j, V) = SetMore(j4, Chat!Full(P))
    <3>1. Chat!FirstPage({m \in V : m.id > c.after
            /\ m.id <= c.cutoff}, LAMBDA x, y : x.id < y.id) = P
      BY <2>1, PagesAre
    <3>2. h = g \cup {Chat!Signal(m, m.at) : m \in {o \in P : Chat!Confirmed(o)
            /\ \A s \in g : s.msg.id # o.id}}
      BY <2>1, <2>3 DEF WithGiven, Given
    <3> QED BY <1>2, <1>4, <2>4, <2>5, <2>6, <2>7, <2>8, <2>10, <3>1, <3>2
            DEF Chat!Materialize, TopId, SetSignals, SetAfter, SetState, SetMore
  <2>12. Moved(c, V) = CursorRow(state, c2, after, c4, c5)
    <3>1. c = CursorRow(c1, c2, c3, c4, c5)
      BY <2>2
    <3>2. Moved(c, V) = CursorRow(IF Chat!Full(OldPage(c, V)) THEN c1 ELSE "processing", c2,
                                  IF OldPage(c, V) = {} THEN c3 ELSE TopId(OldPage(c, V)),
                                  c4, c5)
      BY <3>1, MovedFields
    <3> QED BY <2>1, <2>4, <2>5, <3>2
  <2> QED BY <1>1, <1>4, <2>1, <2>3, <2>9, <2>11, <2>12 DEF Materialized
<1> QED BY <1>3, <1>4

LEMMA ProcessIs ==
  ASSUME NEW c \in Cursors, NEW g, NEW e, NEW p, NEW b
  PROVE  Chat!Process(Job(c, g, e, p, b))
           = Job(Advanced(c, g, e), g, Passed(c, g, e).list, NextPage(c, g),
             Chat!Full(NextPage(c, g)))
<1>1. PICK j : j = Job(c, g, e, p, b)
  OBVIOUS
<1>2. j.cursor = c /\ j.signals = g /\ j.episodes = e
  BY <1>1 DEF Job
<1>3. PICK P : P = NextPage(c, g)
  OBVIOUS
<1>4. PICK q : q = Passed(c, g, e)
  OBVIOUS
<1>5. PICK c1, c2, c3, c4, c5 : c = CursorRow(c1, c2, c3, c4, c5) /\ c1 = c.state /\ c4 = c.last
  BY RowIs
<1>6. PICK last : last = IF P = {} THEN c4 ELSE Chat!Order(Chat!Latest(P))
  OBVIOUS
<1>7. PICK state : state = IF Chat!Full(P) THEN c1 ELSE "done"
  OBVIOUS
<1>8. PICK j2 : j2 = SetEpisodes(j, q.list)
  OBVIOUS
<1>9. PICK j3 : j3 = SetPending(j2, q.pending)
  OBVIOUS
<1>10. PICK j4 : j4 = SetLast(j3, last)
  OBVIOUS
<1>11. PICK j5 : j5 = SetState(j4, state)
  OBVIOUS
<1>12. PICK j6 : j6 = SetPage(j5, P)
  OBVIOUS
<1>13. /\ j3 = Job(CursorRow(c1, c2, c3, c4, q.pending), g, q.list, p, b)
       /\ j4 = Job(CursorRow(c1, c2, c3, last, q.pending), g, q.list, p, b)
       /\ SetMore(j6, Chat!Full(P))
            = Job(CursorRow(state, c2, c3, last, q.pending), g, q.list, P, Chat!Full(P))
  BY <1>1, <1>5, <1>8, <1>9, <1>10, <1>11, <1>12, JobEpisodes, JobPending, JobLast, JobState,
     JobPage, JobMore
<1>14. j3.cursor.last = c4 /\ j4.cursor.state = c1 /\ j.cursor.last = c4 /\ j.cursor.state = c1
  BY <1>1, <1>5, <1>13 DEF Job, CursorRow
<1>15. Chat!Process(j) = SetMore(j6, Chat!Full(P))
  <2>1. Chat!FirstPage({o \in g : Chat!Before(c.last, Chat!Order(o))}, Chat!Earlier) = P
    BY <1>3, PagesAre
  <2>2. q = Chat!Pass([list |-> e, pending |-> c.pending], P)
    BY <1>3, <1>4 DEF Passed
  <2> QED BY <1>2, <1>6, <1>7, <1>8, <1>9, <1>10, <1>11, <1>12, <1>14, <2>1, <2>2
          DEF Chat!Process, SetEpisodes, SetPending, SetLast, SetState, SetPage, SetMore
<1>16. Advanced(c, g, e) = CursorRow(state, c2, c3, last, q.pending)
  <2>1. c = CursorRow(c1, c2, c3, c4, c5)
    BY <1>5
  <2>2. Advanced(c, g, e) = CursorRow(IF Chat!Full(NextPage(c, g)) THEN c1 ELSE "done", c2, c3,
                                      IF NextPage(c, g) = {} THEN c4 ELSE Chat!Order(Chat!Latest(NextPage(c, g))),
                                      Passed(c, g, e).pending)
    BY <2>1, AdvancedFields
  <2> QED BY <1>3, <1>4, <1>6, <1>7, <2>2
<1> QED BY <1>1, <1>3, <1>4, <1>13, <1>15, <1>16

\* What holds of a job between its steps.
Ready(t, c, g) ==
  /\ CursorFits(c) /\ c.last = cursor.last /\ c.pending = cursor.pending
  /\ Chat!IsFiniteSet(g) /\ pageTxn[t].signals \subseteq g /\ Distinct(signals \cup g)
  /\ \A o \in g : o.msg \in messages /\ Chat!Confirmed(o.msg) /\ Ahead(o)
  /\ \A o \in g : o \in signals \/ o.msg.id \notin MessageIds(signals)
  /\ Signed(c, signals \cup g)

LEMMA OpenedIs ==
  ASSUME TimelineInv, NEW t \in Workers, Viewing(t),
         NEW c, c = Opened(cursor, pageTxn[t].messages)
  PROVE  /\ Ready(t, c, pageTxn[t].signals) /\ c.state # "absent"
         /\ c.state = "materializing" =>
              \A m \in messages : Chat!Confirmed(m) =>
                Signaled(m, signals) \/ m \in Rest(c, pageTxn[t].messages) \/ m.id \in missed
<1> DEFINE V == pageTxn[t].messages
           g == pageTxn[t].signals
<1>0. /\ MessagesTell /\ SignalsTell /\ CursorFits(cursor) /\ Signed(cursor, signals)
      /\ SeesSignals(t) /\ SeesMessages(t)
  BY DEF TimelineInv, ViewsTell
<1>1. \A m \in V : m.id \in Chat!Ids /\ m.id \in Nat /\ m.id # 0
  BY <1>0, IdsAreNumbers DEF SeesMessages
<1>2. CursorFits(c) /\ c.last = cursor.last /\ c.pending = cursor.pending /\ c.state # "absent"
  <2>1. CASE cursor.state # "absent"
    BY <1>0, <2>1 DEF Opened
  <2>2. CASE cursor.state = "absent" /\ V = {}
    <3>1. c = [cursor EXCEPT !.state = "done", !.cutoff = 0]
      BY <2>2 DEF Opened
    <3>2. c \in Cursors /\ c.state = "done" /\ c.after = cursor.after /\ c.cutoff = 0
          /\ c.last = cursor.last /\ c.pending = cursor.pending
      <4>1. cursor \in Cursors
        BY <1>0 DEF CursorFits
      <4>2. PICK k \in Nat : k = 0
        OBVIOUS
      <4>3. PICK d : d = [cursor EXCEPT !.state = "done"]
        OBVIOUS
      <4>4. d \in Cursors /\ d.state = "done" /\ d.after = cursor.after
            /\ d.last = cursor.last /\ d.pending = cursor.pending
        BY <4>1, <4>3 DEF Cursors
      <4>5. c = [d EXCEPT !.cutoff = k]
        BY <3>1, <4>2, <4>3
      <4>6. c \in Cursors /\ c.state = d.state /\ c.after = d.after /\ c.cutoff = k
            /\ c.last = d.last /\ c.pending = d.pending
        BY <4>4, <4>5 DEF Cursors
      <4> QED BY <4>2, <4>4, <4>6
    <3> QED BY <1>0, <2>2, <3>2 DEF CursorFits, HistoryWaits
  <2>3. CASE cursor.state = "absent" /\ V # {}
    <3> DEFINE top == Chat!Max({m.id : m \in V})
    <3>1. top \in Chat!Ids /\ top \in Nat
      <4>1. {m.id : m \in V} \in SUBSET Chat!Ids /\ {m.id : m \in V} # {}
        BY <1>1, <2>3
      <4> QED BY <4>1, MaxIs, IdsAreNumbers
    <3>2. c = [cursor EXCEPT !.state = "materializing", !.cutoff = top]
      BY <2>3 DEF Opened
    <3> HIDE DEF top
    <3>3. c \in Cursors /\ c.state = "materializing" /\ c.after = cursor.after /\ c.cutoff = top
          /\ c.last = cursor.last /\ c.pending = cursor.pending
      BY <1>0, <3>1, <3>2 DEF CursorFits, Cursors
    <3> QED BY <1>0, <2>3, <3>1, <3>3 DEF CursorFits, HistoryWaits
  <2> QED BY <2>1, <2>2, <2>3
<1>3. ASSUME NEW m \in messages, Chat!Confirmed(m)
      PROVE  Signaled(m, signals) \/ (c.state = "materializing" /\ m \in Rest(c, V))
               \/ m.id \in missed
  <2>1. CASE Signaled(m, signals) \/ m.id \in missed
    BY <2>1
  <2>2. CASE ~Signaled(m, signals) /\ m.id \notin missed /\ cursor.state # "absent"
    <3>1. c = cursor
      BY <2>2 DEF Opened
    <3>2. cursor.state = "materializing" /\ m.id > cursor.after /\ m.id <= cursor.cutoff
      BY <1>0, <1>3, <2>2 DEF Signed
    <3>3. m \in V
      BY <1>0, <1>3, <2>2, <3>2 DEF SeesMessages, HistoryWaits
    <3> QED BY <3>1, <3>2, <3>3 DEF Rest
  <2>3. CASE ~Signaled(m, signals) /\ m.id \notin missed /\ cursor.state = "absent"
    <3>1. m \in V
      BY <1>0, <1>3, <2>3 DEF SeesMessages, HistoryWaits
    <3> DEFINE top == Chat!Max({o.id : o \in V})
    <3>2. {o.id : o \in V} \in SUBSET Chat!Ids /\ m.id \in {o.id : o \in V}
      BY <1>1, <3>1
    <3>3. m.id <= top
      BY <3>2, MaxIs
    <3>4. c = [cursor EXCEPT !.state = "materializing", !.cutoff = top]
      BY <2>3, <3>1 DEF Opened
    <3> HIDE DEF top
    <3>5. c.state = "materializing" /\ c.after = 0 /\ c.cutoff = top
      BY <1>0, <2>3, <3>4 DEF CursorFits, Cursors
    <3> QED BY <1>1, <3>1, <3>3, <3>5 DEF Rest
  <2> QED BY <2>1, <2>2, <2>3
<1>4. Signed(c, signals \cup g)
  BY <1>3 DEF Signed, Signaled, Rest
<1>5. g \subseteq signals /\ \A o \in g : Ahead(o)
  BY <1>0 DEF SeesSignals
<1>6. Chat!IsFiniteSet(g) /\ Distinct(signals \cup g)
  BY <1>0, <1>5, FS_Subset, TimelineSizes DEF SignalsTell, Distinct
<1> QED BY <1>0, <1>2, <1>3, <1>4, <1>5, <1>6 DEF Ready, SignalsTell

\* The order of messages.
ById(S) == {p \in S \X S : p[1].id < p[2].id}

LEMMA MovedIs ==
  ASSUME TimelineInv, NEW t \in Workers, Viewing(t),
         NEW c, NEW V, V = pageTxn[t].messages, NEW g, g = pageTxn[t].signals,
         Ready(t, c, g), c.state = "materializing",
         \A o \in WithGiven(c, V, g) \ g : o.msg.id \notin MessageIds(signals),
         \A m \in messages :
           Chat!Confirmed(m) => Signaled(m, signals) \/ m \in Rest(c, V) \/ m.id \in missed
  PROVE  /\ Ready(t, Moved(c, V), WithGiven(c, V, g))
         /\ Moved(c, V).state = IF Chat!Full(OldPage(c, V)) THEN "materializing" ELSE "processing"
<1> DEFINE P == OldPage(c, V)
           d == Moved(c, V)
           h == WithGiven(c, V, g)
<1>0. MessagesTell /\ SignalsTell /\ SeesMessages(t) /\ CursorFits(c) /\ c.last = Chat!Start
      /\ c.last = cursor.last /\ c.pending = cursor.pending
  BY DEF TimelineInv, ViewsTell, Ready, CursorFits, HistoryWaits
<1>1. \A m \in V : m \in Msgs /\ m.id \in Chat!Ids /\ m.id \in Nat /\ m.id # 0
  BY <1>0, IdsAreNumbers DEF SeesMessages
<1>2. Rest(c, V) \subseteq V /\ Chat!IsFiniteSet(Rest(c, V)) /\ OneEach(Rest(c, V))
  BY <1>0, FS_Subset, TimelineSizes DEF SeesMessages, Rest, OneEach
<1>3. Linear(ById(Rest(c, V)), Rest(c, V))
  <2>1. \A a, b \in Rest(c, V) : a.id \in Nat /\ b.id \in Nat /\ (a.id = b.id => a = b)
    BY <1>1, <1>2 DEF OneEach
  <2> QED BY <2>1 DEF Linear, ById
<1>4. P = {a \in Rest(c, V) : Chat!Cardinality(Below(ById(Rest(c, V)), Rest(c, V), a)) < PageSize}
  <2>1. \A a \in Rest(c, V) : Below(ById(Rest(c, V)), Rest(c, V), a)
                                = {b \in Rest(c, V) : b.id < a.id}
    BY DEF ById, Below
  <2> QED BY <2>1 DEF OldPage
<1> HIDE DEF P
<1>5. /\ P \subseteq Rest(c, V) /\ Chat!IsFiniteSet(P)
      /\ \A a \in P : \A b \in Rest(c, V) : <<b, a>> \in ById(Rest(c, V)) => b \in P
      /\ ~Chat!Full(P) => P = Rest(c, V)
  BY <1>2, <1>3, <1>4, PageFacts
<1>6. \A m \in P : m \in V /\ m.id > c.after /\ m.id <= c.cutoff
  BY <1>5 DEF Rest
<1> DEFINE top == IF P = {} THEN c.after ELSE Chat!Max({m.id : m \in P})
<1>7. /\ top \in Nat /\ top <= c.cutoff
      /\ P # {} => \E z \in P : z.id = top
  <2>1. CASE P = {}
    BY <1>0, <2>1 DEF CursorFits, Cursors
  <2>2. CASE P # {}
    <3>1. {m.id : m \in P} \in SUBSET Chat!Ids /\ {m.id : m \in P} # {}
      BY <1>1, <1>6, <2>2
    <3>2. Chat!Max({m.id : m \in P}) \in {m.id : m \in P}
      BY <3>1, MaxIs
    <3>3. PICK z \in P : z.id = Chat!Max({m.id : m \in P})
      BY <3>2
    <3> QED BY <1>1, <1>6, <2>2, <3>3
  <2> QED BY <2>1, <2>2
<1>8. d = [c EXCEPT !.after = top, !.state = IF Chat!Full(P) THEN "materializing" ELSE "processing"]
  BY DEF Moved, TopId, P
<1> HIDE DEF top, d
<1>9. /\ d \in Cursors /\ d.after = top /\ d.cutoff = c.cutoff /\ d.last = c.last
           /\ d.pending = c.pending
      /\ d.state = IF Chat!Full(P) THEN "materializing" ELSE "processing"
  BY <1>0, <1>7, <1>8 DEF CursorFits, Cursors
<1>10. CursorFits(d) /\ d.last = cursor.last /\ d.pending = cursor.pending
  BY <1>0, <1>7, <1>9 DEF CursorFits, HistoryWaits
<1>o. \A o \in h \ g : o.msg.id \notin MessageIds(signals)
  OBVIOUS
<1>11. h = g \cup {Chat!Signal(m, m.at) : m \in {o \in P : Chat!Confirmed(o)
         /\ \A s \in g : s.msg.id # o.id}}
  BY DEF WithGiven, Given, P
<1> HIDE DEF h
<1> DEFINE new == {o \in P : Chat!Confirmed(o) /\ \A s \in g : s.msg.id # o.id}
<1>12. \A o \in h : o \in g \/ \E m \in new : o = Chat!Signal(m, m.at)
  BY <1>11
<1>13. \A m \in new : /\ m \in messages /\ Chat!Confirmed(m) /\ m \in V
         /\ m.id \notin MessageIds(signals)
                      /\ Chat!Signal(m, m.at) \in h /\ Chat!Signal(m, m.at) \in Sigs
                           /\ Chat!Signal(m, m.at).msg = m
  <2> TAKE m \in new
  <2>1. m \in V /\ Chat!Confirmed(m) /\ m \in P
    BY <1>6
  <2>2. m \in messages
    BY <1>0, <2>1 DEF SeesMessages
  <2>3. Chat!Signal(m, m.at) \in Sigs /\ Chat!Signal(m, m.at).msg = m /\ Chat!Signal(m, m.at) \in h
    BY <1>1, <1>11, <2>1 DEF Chat!Signal, Sigs, Msgs
  <2>4. Chat!Signal(m, m.at) \notin g
    BY <2>3
  <2>5. m.id \notin MessageIds(signals)
    BY <1>o, <2>3, <2>4
  <2> QED BY <2>1, <2>2, <2>3, <2>5
<1>14. Chat!IsFiniteSet(h)
  <2>1. Chat!IsFiniteSet(new) /\ Chat!IsFiniteSet(g)
    BY <1>5, FS_Subset, TimelineSizes DEF Ready
  <2> HIDE DEF new
  <2>2. Chat!IsFiniteSet({Chat!Signal(m, m.at) : m \in new})
    <3> DEFINE T == {Chat!Signal(m, m.at) : m \in new}
               w == [m \in new |-> Chat!Signal(m, m.at)]
    <3>1. w \in [new -> T] /\ \A y \in T : \E m \in new : w[m] = y
      OBVIOUS
    <3> HIDE DEF w, T
    <3>2. Chat!IsFiniteSet(T)
      BY <2>1, <3>1, ValuesAreFinite
    <3> QED BY <3>2 DEF T
  <2>3. h = g \cup {Chat!Signal(m, m.at) : m \in new}
    BY <1>11 DEF new
  <2> QED BY <2>1, <2>2, <2>3, FS_Union, TimelineSizes
<1> HIDE DEF new
<1>15. Distinct(signals \cup h)
  <2>1. \A o \in signals \cup h : o \in signals \cup g \/ \E m \in new : o = Chat!Signal(m, m.at)
    BY <1>12
  <2>2. signals \cup h \subseteq Sigs
    BY <1>13, <2>1 DEF Ready, Distinct
  <2>3. ASSUME NEW a \in signals \cup h, NEW b \in signals \cup h, a.msg.id = b.msg.id PROVE a = b
    <3>1. CASE a \in signals \cup g /\ b \in signals \cup g
      BY <2>3, <3>1 DEF Ready, Distinct
    <3>2. ASSUME NEW m \in new, NEW o \in signals \cup g PROVE o.msg.id # m.id
      <4>1. CASE o \in signals
        BY <1>13, <4>1 DEF MessageIds
      <4>2. CASE o \in g
        BY <4>2 DEF new
      <4> QED BY <4>1, <4>2
    <3>3. ASSUME NEW m \in new, a = Chat!Signal(m, m.at), b \in signals \cup g PROVE FALSE
      BY <1>13, <2>3, <3>2, <3>3
    <3>4. ASSUME NEW m \in new, b = Chat!Signal(m, m.at), a \in signals \cup g PROVE FALSE
      BY <1>13, <2>3, <3>2, <3>4
    <3>5. ASSUME NEW m \in new,
            NEW o \in new, a = Chat!Signal(m, m.at), b = Chat!Signal(o, o.at) PROVE a = b
      <4>1. m.id = o.id /\ m \in V /\ o \in V
        BY <1>13, <2>3, <3>5
      <4>2. m = o
        BY <1>0, <4>1 DEF SeesMessages, OneEach
      <4> QED BY <3>5, <4>2
    <3> QED BY <2>1, <3>1, <3>3, <3>4, <3>5
  <2> QED BY <2>2, <2>3 DEF Distinct
<1>16. \A o \in h : o.msg \in messages /\ Chat!Confirmed(o.msg) /\ Ahead(o)
  <2> TAKE o \in h
  <2>1. CASE o \in g
    BY <2>1 DEF Ready
  <2>2. ASSUME NEW m \in new, o = Chat!Signal(m, m.at)
          PROVE o.msg \in messages /\ Chat!Confirmed(o.msg) /\ Ahead(o)
    <3>1. o.msg = m /\ o \in Sigs /\ m \in messages /\ Chat!Confirmed(m) /\ m.id # 0
      BY <1>1, <1>13, <2>2
    <3> QED BY <1>0, <3>1, StartIsFirst DEF Ahead
  <2> QED BY <1>12, <2>1, <2>2
<1>17. \A o \in h : o \in signals \/ o.msg.id \notin MessageIds(signals)
  BY <1>12, <1>13 DEF Ready
<1>18. Signed(d, signals \cup h)
  <2> SUFFICES ASSUME NEW m \in messages, Chat!Confirmed(m)
               PROVE  \/ Signaled(m, signals \cup h)
                      \/ d.state = "materializing" /\ m.id > d.after /\ m.id <= d.cutoff
                      \/ m.id \in missed
    BY DEF Signed
  <2>1. CASE Signaled(m, signals) \/ m.id \in missed
    BY <2>1 DEF Signaled
  <2>2. CASE m \in P
    <3>1. CASE \E s \in g : s.msg.id = m.id
      BY <1>11, <3>1 DEF Signaled
    <3>2. CASE ~\E s \in g : s.msg.id = m.id
      <4>1. m \in new
        BY <2>2, <3>2 DEF new
      <4> QED BY <1>13, <4>1 DEF Signaled
    <3> QED BY <3>1, <3>2
  <2>3. CASE m \in Rest(c, V) /\ m \notin P
    <3>1. Chat!Full(P) /\ m.id > c.after /\ m.id <= c.cutoff /\ m.id \in Nat
      BY <1>1, <1>2, <1>5, <2>3 DEF Rest
    <3>2. m.id > top
      <4>1. CASE P = {}
        BY <3>1, <4>1 DEF top
      <4>2. CASE P # {}
        <5>1. PICK z \in P : z.id = top
          BY <1>7, <4>2
        <5>2. z \in Rest(c, V) /\ z.id \in Nat
          BY <1>1, <1>5, <1>6
        <5>3. ~(m.id < z.id)
          BY <1>5, <2>3, <5>2 DEF ById
        <5>4. m.id # z.id
          BY <1>2, <2>3, <5>2 DEF OneEach
        <5> QED BY <3>1, <5>1, <5>2, <5>3, <5>4
      <4> QED BY <4>1, <4>2
    <3> QED BY <1>9, <3>1, <3>2
  <2> QED BY <2>1, <2>2, <2>3
<1>19. pageTxn[t].signals \subseteq h
  BY <1>11
<1>20. Ready(t, d, h)
  BY <1>10, <1>14, <1>15, <1>16, <1>17, <1>18, <1>19 DEF Ready
<1> QED BY <1>9, <1>20 DEF d, h, P

\* --- What a job has done when it comes to the timeline, if it does.
LEMMA ComesToTheTimeline ==
  ASSUME TimelineInv, NEW t \in Workers, Viewing(t), ~Chat!Twice(t)
  PROVE  \E c, g : /\ Ready(t, c, g) /\ c.state # "absent"
                   /\ \/ c.state = "materializing" /\ Chat!Reconciled(t)
                        = Job(c, g, episodes, {}, TRUE)
                      \/ c.state # "materializing"
                         /\ Chat!Reconciled(t) = Chat!Process(Job(c, g, episodes, {}, FALSE))
<1>v. PICK V, f, k, e : V = pageTxn[t].messages /\ f = pageTxn[t].signals /\ k = cursor
        /\ e = episodes
  OBVIOUS
<1>1. PICK c : c = Opened(k, V)
  OBVIOUS
<1>2. Ready(t, c, f) /\ c.state # "absent"
      /\ (c.state = "materializing" =>
            \A m \in messages :
              Chat!Confirmed(m) => Signaled(m, signals) \/ m \in Rest(c, V) \/ m.id \in missed)
  BY <1>1, <1>v, OpenedIs
<1>3. k \in Cursors /\ c \in Cursors
  BY <1>2, <1>v DEF TimelineInv, Ready, CursorFits
<1>p. PICK p, no : p = {} /\ no = FALSE
  OBVIOUS
<1>4. Chat!Initialize(Job(k, f, e, p, no), V) = Job(c, f, e, p, no)
  BY <1>1, <1>3, InitializeIs
<1>h. PICK history : history = Chat!Materialize(Job(c, f, e, p, no), V)
  OBVIOUS
<1>5. Chat!Reconciled(t) = IF history.more THEN history ELSE Chat!Process(history)
  <2>1. Job(k, f, e, p, no) = [cursor |-> cursor, signals |-> pageTxn[t].signals,
          episodes |-> episodes,
                               page |-> {}, more |-> FALSE]
    BY <1>v, <1>p DEF Job
  <2>2. PICK s : s = Job(k, f, e, p, no)
    OBVIOUS
  <2>3. history = Chat!Materialize(Chat!Initialize(s, pageTxn[t].messages), pageTxn[t].messages)
    BY <1>4, <1>h, <1>v, <2>2
  <2> QED BY <2>1, <2>2, <2>3 DEF Chat!Reconciled
<1>6. history = IF c.state # "materializing" THEN Job(c, f, episodes, {}, FALSE)
                ELSE Job(Moved(c, V), WithGiven(c, V, f), episodes, {}, Chat!Full(OldPage(c, V)))
  <2>1. Chat!Materialize(Job(c, f, e, p, no), V) = Materialized(c, f, e, p, V)
    BY <1>3, MaterializeIs
  <2> QED BY <1>h, <1>p, <1>v, <2>1 DEF Materialized
<1>7. CASE c.state # "materializing"
  <2>1. history = Job(c, f, episodes, {}, FALSE) /\ history.more = FALSE
    BY <1>6, <1>7 DEF Job
  <2> QED BY <1>2, <1>5, <1>7, <2>1
<1>8. CASE c.state = "materializing"
  <2>1. PICK d, h : d = Moved(c, V) /\ h = WithGiven(c, V, f)
    OBVIOUS
  <2>3. history = Job(d, h, episodes, {}, Chat!Full(OldPage(c, V)))
          /\ history.more = Chat!Full(OldPage(c, V))
    BY <1>6, <1>8, <2>1 DEF Job
  <2>s. Chat!Reconciled(t).signals = h
    <3>1. history.signals = h
      BY <2>3 DEF Job
    <3>2. d.state = d.state /\ Chat!Process(history).signals = history.signals
      BY DEF Chat!Process
    <3> QED BY <1>5, <3>1, <3>2
  <2>n. \A o \in WithGiven(c, V, f) \ f : o.msg.id \notin MessageIds(signals)
    BY <1>v, <2>1, <2>s DEF Chat!Twice, MessageIds
  <2>2. Ready(t, d, h) /\ d.state
          = IF Chat!Full(OldPage(c, V)) THEN "materializing" ELSE "processing"
    BY <1>2, <1>8, <1>v, <2>1, <2>n, MovedIs
  <2>4. Chat!Full(OldPage(c, V)) \in BOOLEAN
    BY DEF Chat!Full
  <2>5. CASE Chat!Full(OldPage(c, V))
    <3>1. history = Job(d, h, episodes, {}, TRUE) /\ history.more = TRUE
      BY <2>3, <2>4, <2>5
    <3> QED BY <1>5, <2>2, <2>5, <3>1
  <2>6. CASE ~Chat!Full(OldPage(c, V))
    <3>1. history = Job(d, h, episodes, {}, FALSE) /\ history.more = FALSE
      BY <2>3, <2>4, <2>6
    <3> QED BY <1>5, <2>2, <2>6, <3>1
  <2> QED BY <2>5, <2>6
<1> QED BY <1>7, <1>8

Txn(o, a, k, n, f, r) ==
  [op |-> o, msg |-> a, known |-> k, on |-> n, floor |-> f, raced |-> r]
OvertakenBy(x, r) == [x EXCEPT !.raced = r]

LEMMA OvertakenIs ==
  ASSUME NEW o, NEW a, NEW k, NEW n, NEW f, NEW r, NEW x
  PROVE  OvertakenBy(Txn(o, a, k, n, f, r), x) = Txn(o, a, k, n, f, x)
BY DEF OvertakenBy, Txn

\* What becomes of an open transaction when a reconciliation commits.
Ended(u, t) ==
  CASE Chat!Reconciling(u) -> IF u # t /\ pageTxn[u].first THEN Chat!Refused ELSE Idle
    [] pageTxn[u] # Idle /\ pageTxn[u].op = "live" -> OvertakenBy(pageTxn[u], TRUE)
    [] OTHER -> pageTxn[u]

\* The transactions and the messages, whatever the job did with the timeline.
LEMMA ReconciliationEnds ==
  ASSUME TimelineInv, NEW t \in Workers, Chat!Reconcile(t), NEW c, NEW g, Ready(t, c, g),
         signals' = signals \cup g, CursorFits(cursor)', Signed(cursor, signals)', ConsumedTell',
         Chat!EpisodesFollowTimeline', Chat!LeftOnlyByRace', Chat!NeverStranded',
           cursor'.state # "absent",
         pageJobs' \in Nat, pageJobs' >= pageJobs - 1, lapsed' \in BOOLEAN
  PROVE  TimelineInv'
<1>0. MessagesTell /\ SignalsTell /\ LivesTell /\ ViewsTell /\ JobsTell /\ now \in 0..Horizon
  BY DEF TimelineInv
<1>1. pageTxn' = [u \in Workers |-> Ended(u, t)]
      /\ messages' = messages /\ now' = now /\ missed' = missed /\ Chat!Reconciling(t)
  BY DEF Chat!Reconcile, Ended, OvertakenBy
<1>2. MessagesTell' /\ now' \in 0..Horizon
  BY <1>0, <1>1 DEF MessagesTell
<1>3. SignalsTell'
  <2>1. Chat!IsFiniteSet(signals')
    BY <1>0, FS_Union, TimelineSizes DEF Ready, SignalsTell
  <2> QED BY <1>0, <1>1, <2>1 DEF SignalsTell, Ready
<1>e. \A u \in Workers :
        /\ Chat!Reconciling(u) => pageTxn'[u] = Idle \/ (u # t /\ pageTxn'[u] = Chat!Refused)
        /\ Chat!Reconciling(u) /\ u = t => pageTxn'[u] = Idle
        /\ ~Chat!Reconciling(u) /\ Live(u) => pageTxn'[u] = OvertakenBy(pageTxn[u], TRUE)
        /\ ~Chat!Reconciling(u) /\ ~Live(u) => pageTxn'[u] = pageTxn[u]
  <2> TAKE u \in Workers
  <2>1. pageTxn'[u] = Ended(u, t)
    BY <1>1
  <2>2. CASE Chat!Reconciling(u)
    <3>1. pageTxn[u].op # "live"
      BY <2>2 DEF Chat!Reconciling
    <3>2. Ended(u, t) = IF u # t /\ pageTxn[u].first THEN Chat!Refused ELSE Idle
      BY <2>2, <3>1 DEF Ended
    <3> QED BY <2>1, <2>2, <3>2
  <2>3. CASE ~Chat!Reconciling(u) /\ Live(u)
    <3>1. Ended(u, t) = OvertakenBy(pageTxn[u], TRUE)
      BY <2>3 DEF Ended, Live
    <3> QED BY <2>1, <2>3, <3>1
  <2>4. CASE ~Chat!Reconciling(u) /\ ~Live(u)
    <3>1. Ended(u, t) = pageTxn[u]
      BY <2>4 DEF Ended, Live
    <3> QED BY <2>1, <2>4, <3>1
  <2> QED BY <2>2, <2>3, <2>4
<1>4. \A u \in Workers : Chat!Reconciling(u)'
        => u # t /\ Chat!Reconciling(u) /\ pageTxn'[u] = Chat!Refused
  <2> TAKE u \in Workers
  <2>1. CASE Chat!Reconciling(u)
    BY <1>e, <2>1 DEF Chat!Reconciling
  <2>2. CASE ~Chat!Reconciling(u) /\ Live(u)
    <3>1. pageTxn'[u] = OvertakenBy(pageTxn[u], TRUE) /\ LiveTells(u) /\ pageTxn[u].op = "live"
      BY <1>0, <1>e, <2>2 DEF Live, LivesTell
    <3>2. pageTxn'[u].op = "live"
      BY <3>1 DEF LiveTells, OvertakenBy
    <3> QED BY <3>2 DEF Chat!Reconciling
  <2>3. CASE ~Chat!Reconciling(u) /\ ~Live(u)
    <3>1. pageTxn'[u] = pageTxn[u]
      BY <1>e, <2>3
    <3> QED BY <2>3, <3>1 DEF Chat!Reconciling
  <2> QED BY <2>1, <2>2, <2>3
<1>5. ASSUME NEW u \in Workers, Live(u)'
      PROVE  /\ Live(u) /\ LiveTells(u) /\ pageTxn'[u].raced = TRUE
             /\ pageTxn'[u] = [op |-> "live", msg |-> pageTxn[u].msg, known |-> pageTxn[u].known,
                               on |-> pageTxn[u].on, floor |-> pageTxn[u].floor, raced |-> TRUE]
  <2>1. ~Chat!Reconciling(u)
    <3>1. Chat!Refused.op = "reconcile"
      BY DEF Chat!Refused
    <3> QED BY <1>5, <1>e, <3>1 DEF Live
  <2>2. Live(u)
    <3>1. ~Live(u) => pageTxn'[u] = pageTxn[u]
      BY <1>e, <2>1
    <3> QED BY <1>5, <3>1 DEF Live
  <2>3. LiveTells(u)
    BY <1>0, <2>2 DEF LivesTell
  <2>6. PICK yes : yes = TRUE
    OBVIOUS
  <2>4. pageTxn'[u] = OvertakenBy(pageTxn[u], yes)
    BY <1>e, <2>1, <2>2, <2>6
  <2>5. PICK o, a, k, n, f, r : pageTxn[u] = Txn(o, a, k, n, f, r) /\ o = "live"
    BY <2>3 DEF LiveTells, Txn
  <2>7. pageTxn'[u] = Txn(o, a, k, n, f, yes)
    BY <2>4, <2>5, OvertakenIs
  <2>8. /\ pageTxn[u].msg = a /\ pageTxn[u].known = k /\ pageTxn[u].on = n /\ pageTxn[u].floor = f
        /\ pageTxn'[u].raced = TRUE
    BY <2>5, <2>6, <2>7 DEF Txn
  <2>9. pageTxn'[u] = [op |-> "live", msg |-> a, known |-> k, on |-> n, floor |-> f, raced |-> TRUE]
    BY <2>5, <2>6, <2>7 DEF Txn
  <2> QED BY <2>2, <2>3, <2>8, <2>9
<1>6. LivesTell'
  <2>1. (pageTxn = [u \in Workers |-> pageTxn[u]])'
    BY <1>1
  <2>2. ASSUME NEW u \in Workers, Live(u)' PROVE LiveTells(u)'
    <3>1. /\ Live(u) /\ LiveTells(u) /\ pageTxn'[u].raced = TRUE
          /\ pageTxn'[u] = [op |-> "live", msg |-> pageTxn[u].msg, known |-> pageTxn[u].known,
                            on |-> pageTxn[u].on, floor |-> pageTxn[u].floor, raced |-> TRUE]
      BY <1>5, <2>2
    <3>2. /\ pageTxn'[u].msg = pageTxn[u].msg /\ pageTxn'[u].known = pageTxn[u].known
          /\ pageTxn'[u].on = pageTxn[u].on /\ pageTxn'[u].floor = pageTxn[u].floor
      BY <3>1
    <3>3. pageTxn'[u] = [op |-> "live", msg |-> pageTxn'[u].msg, known |-> pageTxn'[u].known,
                         on |-> pageTxn'[u].on, floor |-> pageTxn'[u].floor,
                           raced |-> pageTxn'[u].raced]
      BY <3>1, <3>2
    <3>4. pageTxn'[u].msg \in Msgs /\ pageTxn'[u].floor \in Nat \X Nat
          /\ (pageTxn'[u].msg.id # 0 =>
                \E m \in messages' : m.id = pageTxn'[u].msg.id /\ (~Chat!Confirmed(m)
                  \/ m = pageTxn'[u].msg))
      BY <1>1, <3>1, <3>2 DEF LiveTells
    <3> QED BY <3>1, <3>3, <3>4 DEF LiveTells
  <2>3. ASSUME NEW u \in Workers, NEW w \in Workers, Live(u)', Live(w)', u # w,
               pageTxn'[u].msg.id # 0
        PROVE  pageTxn'[u].msg.id # pageTxn'[w].msg.id
    <3>1. /\ Live(u) /\ pageTxn'[u]
               = [op |-> "live", msg |-> pageTxn[u].msg, known |-> pageTxn[u].known,
                                    on |-> pageTxn[u].on, floor |-> pageTxn[u].floor,
                                      raced |-> TRUE]
      BY <1>5, <2>3
    <3>2. /\ Live(w) /\ pageTxn'[w]
               = [op |-> "live", msg |-> pageTxn[w].msg, known |-> pageTxn[w].known,
                                    on |-> pageTxn[w].on, floor |-> pageTxn[w].floor,
                                      raced |-> TRUE]
      BY <1>5, <2>3
    <3>3. pageTxn'[u].msg = pageTxn[u].msg /\ pageTxn'[w].msg = pageTxn[w].msg
      BY <3>1, <3>2
    <3> QED BY <1>0, <2>3, <3>1, <3>2, <3>3 DEF LivesTell
  <2> QED BY <2>1, <2>2, <2>3 DEF LivesTell
<1>7. \A u \in Workers : ~Viewing(u)'
  <2>1. \A u \in Workers : Chat!Reconciling(u)' => Chat!Doomed(u)'
    BY <1>4 DEF Chat!Doomed, Chat!Refused
  <2> QED BY <2>1 DEF Viewing
<1>8. ViewsTell'
  BY <1>7 DEF ViewsTell
<1>9. JobsTell'
  <2>1. Chat!Running' \subseteq Chat!Running \ {t} /\ t \in Chat!Running
    BY <1>1, <1>4 DEF Chat!Running
  <2>2. PICK n \in Nat : n = Chat!Cardinality(Chat!Running) /\ n <= pageJobs
    BY <1>0, FS_CardinalityType, TimelineSizes DEF JobsTell
  <2>3. Chat!IsFiniteSet(Chat!Running \ {t}) /\ Chat!Cardinality(Chat!Running \ {t}) = n - 1
    BY <1>0, <2>1, <2>2, FS_RemoveElement, TimelineSizes DEF JobsTell
  <2>4. Chat!IsFiniteSet(Chat!Running') /\ Chat!Cardinality(Chat!Running') <= n - 1
          /\ Chat!Cardinality(Chat!Running') \in Nat
    BY <2>1, <2>3, FS_Subset, FS_CardinalityType, TimelineSizes
  <2>5. pageJobs \in Nat
    BY <1>0 DEF JobsTell
  <2>6. Chat!IsFiniteSet(Chat!Running)' /\ Chat!Cardinality(Chat!Running)' <= pageJobs'
    BY <2>2, <2>4, <2>5
  <2> QED BY <1>7, <2>6 DEF JobsTell
<1> QED BY <1>2, <1>3, <1>6, <1>8, <1>9 DEF TimelineInv

LEMMA AJobRuns ==
  ASSUME TimelineInv, NEW t \in Workers, Chat!Reconciling(t) PROVE pageJobs \in Nat /\ pageJobs >= 1
<1>1. JobsTell /\ t \in Chat!Running
  BY DEF TimelineInv, Chat!Running
<1>2. PICK n \in Nat : n = Chat!Cardinality(Chat!Running) /\ n <= pageJobs
  BY <1>1, FS_CardinalityType, TimelineSizes DEF JobsTell
<1>3. n # 0
  BY <1>1, <1>2, FS_EmptySet, TimelineSizes DEF JobsTell
<1> QED BY <1>1, <1>2, <1>3 DEF JobsTell

\* A job that stops at a full page of history.
LEMMA AfterHistory ==
  ASSUME TimelineInv, NEW t \in Workers, Chat!Reconcile(t), NEW c, NEW g, Ready(t, c, g),
         c.state = "materializing", Chat!Reconciled(t) = Job(c, g, episodes, {}, TRUE)
  PROVE  TimelineInv'
<1>0. /\ SignalsTell /\ ConsumedTell /\ Chat!EpisodesFollowTimeline /\ Chat!LeftOnlyByRace
           /\ ViewsTell
      /\ pageJobs \in Nat /\ pageJobs >= 1 /\ lapsed \in BOOLEAN
  BY AJobRuns DEF TimelineInv, JobsTell, Chat!Reconcile
<1>1. PICK s : s = Chat!Reconciled(t)
  OBVIOUS
<1>2. /\ cursor' = s.cursor /\ episodes' = s.episodes /\ signals' = signals \cup s.signals
      /\ consumed' = consumed \cup {o.msg.id : o \in s.page} /\ raced' = raced \ consumed'
      /\ pageJobs' = pageJobs - 1 + Chat!Continuation(s) /\ messages' = messages /\ missed' = missed
      /\ lapsed' = (lapsed /\ Chat!Continuation(s) = 0)
  BY <1>1 DEF Chat!Reconcile
<1>3. s.cursor = c /\ s.signals = g /\ s.episodes = episodes /\ s.page = {} /\ s.more = TRUE
  BY <1>1 DEF Job
<1>4. /\ cursor' = c /\ episodes' = episodes /\ signals' = signals \cup g /\ consumed' = consumed
      /\ raced' = raced \ consumed /\ messages' = messages
  BY <1>2, <1>3
<1>5. pageJobs' = pageJobs - 1 + 1
  BY <1>2, <1>3 DEF Chat!Continuation
<1>6. pageJobs' \in Nat /\ pageJobs' > 0 /\ pageJobs' >= pageJobs - 1
  BY <1>0, <1>5
<1>l. lapsed' \in BOOLEAN
  BY <1>0, <1>2
<1>7. c.last = cursor.last /\ c.pending = cursor.pending /\ CursorFits(cursor)'
  BY <1>4 DEF Ready, CursorFits, HistoryWaits
<1>8. Signed(cursor, signals)'
  BY <1>2, <1>4 DEF Ready, Signed, Signaled
<1>9. \A o \in signals' : o \in signals
        \/ (o \in g /\ Ahead(o) /\ o.msg.id \notin MessageIds(signals))
  BY <1>4 DEF Ready
<1>10. ConsumedTell'
  <2>1. \A o \in signals' : o.msg.id \in consumed => o \in signals
    BY <1>0, <1>9 DEF ConsumedTell
  <2>2. MessageIds(signals) \subseteq MessageIds(signals')
    BY <1>4 DEF MessageIds
  <2> QED BY <1>0, <1>4, <1>7, <2>1, <2>2 DEF ConsumedTell, Ahead
<1>11. Chat!EpisodesFollowTimeline'
  <2>1. {o \in signals' : o.msg.id \in consumed'} = {o \in signals : o.msg.id \in consumed}
    <3>1. \A o \in signals' : o.msg.id \in consumed => o \in signals
      BY <1>0, <1>9 DEF ConsumedTell
    <3> QED BY <1>4, <3>1
  <2>2. cursor'.pending = cursor.pending /\ episodes' = episodes
    BY <1>4, <1>7
  <2> QED BY <1>0, <2>1, <2>2 DEF Chat!EpisodesFollowTimeline
<1>12. Chat!LeftOnlyByRace'
  <2> SUFFICES ASSUME NEW o \in signals', ~Chat!Before(cursor.last, Chat!Order(o)),
        o.msg.id \notin consumed
               PROVE  o.msg.id \in raced \ consumed
    BY <1>4, <1>7 DEF Chat!LeftOnlyByRace, Chat!Left
  <2>1. o \in signals
    BY <1>9 DEF Ahead
  <2> QED BY <1>0, <2>1 DEF Chat!LeftOnlyByRace, Chat!Left
<1>13. Chat!NeverStranded'
  BY <1>6 DEF Chat!NeverStranded
<1>14. cursor'.state # "absent"
  BY <1>4
<1> QED BY <1>4, <1>6, <1>7, <1>8, <1>10, <1>11, <1>12, <1>13, <1>14, <1>l, ReconciliationEnds

LEMMA FrontierMoves ==
  ASSUME NEW a \in Nat \X Nat, NEW b \in Nat \X Nat, NEW x \in Nat \X Nat
  PROVE  /\ ~Chat!Before(a, x) /\ Chat!Before(a, b) => Chat!Before(x, b) /\ ~Chat!Before(b, x)
         /\ Chat!Before(a, b) /\ Chat!Before(b, x) => Chat!Before(a, x)
         /\ Chat!Before(x, b) => ~Chat!Before(b, x)
         /\ ~Chat!Before(b, x) => x = b \/ Chat!Before(x, b)
         /\ ~Chat!Before(b, b)
<1>1. a[1] \in Nat /\ a[2] \in Nat /\ b[1] \in Nat /\ b[2] \in Nat /\ x[1] \in Nat /\ x[2] \in Nat
  OBVIOUS
<1>2. (x[1] = b[1] /\ x[2] = b[2]) => x = b
  OBVIOUS
<1> QED BY <1>1, <1>2 DEF Chat!Before

\* The page of the timeline that is read, and where it leaves the frontier.
LEMMA PageIs ==
  ASSUME TimelineInv, NEW t \in Workers, NEW c, NEW g, Ready(t, c, g),
         NEW P, P = NextPage(c, g),
         NEW last, last = IF P = {} THEN c.last ELSE Chat!Order(Chat!Latest(P))
  PROVE  /\ P \subseteq g /\ Chat!IsFiniteSet(P) /\ (~Chat!Full(P) => P = g) /\ last \in Nat \X Nat
         /\ \A o \in g \ P : Chat!Before(last, Chat!Order(o))
         /\ \A o \in P : ~Chat!Before(last, Chat!Order(o))
         /\ last = cursor.last \/ Chat!Before(cursor.last, last)
<1>0. /\ Chat!IsFiniteSet(g) /\ Distinct(g) /\ CursorFits(c) /\ c.last = cursor.last
      /\ \A o \in g : Chat!Before(cursor.last, Chat!Order(o)) /\ Chat!Order(o) \in Nat \X Nat
  BY OrderType DEF Ready, Distinct, Ahead
<1>1. Beyond(c, g) = g
  BY <1>0 DEF Beyond
<1>2. P = {a \in g : Chat!Cardinality(Below(Timely(g), g, a)) < PageSize}
  <2>1. \A a \in g : Below(Timely(g), g, a) = {b \in g : Chat!Earlier(b, a)}
    BY DEF Timely, Below
  <2> QED BY <1>1, <2>1 DEF NextPage
<1>3. Linear(Timely(g), g)
  BY <1>0, TimelyIsLinear
<1>4. /\ P \subseteq g /\ Chat!IsFiniteSet(P) /\ (~Chat!Full(P) => P = g)
      /\ \A a \in P : \A b \in g : <<b, a>> \in Timely(g) => b \in P
  BY <1>0, <1>2, <1>3, PageFacts
<1>5. c.last \in Nat \X Nat
  BY <1>0 DEF CursorFits, Cursors
<1>6. CASE P = {}
  BY <1>0, <1>4, <1>5, <1>6
<1>7. CASE P # {}
  <2>1. Distinct(P)
    BY <1>0, <1>4 DEF Distinct
  <2>2. PICK z \in P : z = Chat!Latest(P) /\ \A o \in P \ {z} : Chat!Earlier(o, z)
    BY <1>4, <1>7, <2>1, LatestIs
  <2>3. last = Chat!Order(z) /\ z \in g /\ last \in Nat \X Nat /\ Chat!Before(cursor.last, last)
    BY <1>0, <1>4, <1>7, <2>2
  <2>4. ASSUME NEW o \in P PROVE ~Chat!Before(last, Chat!Order(o))
    <3>1. o = z \/ Chat!Before(Chat!Order(o), last)
      BY <2>2, <2>3 DEF Chat!Earlier
    <3> QED BY <1>0, <1>4, <2>3, <3>1, FrontierMoves
  <2>5. ASSUME NEW o \in g \ P PROVE Chat!Before(last, Chat!Order(o))
    <3>1. ~Chat!Before(Chat!Order(o), last)
      BY <1>4, <2>2, <2>3 DEF Timely, Chat!Earlier
    <3>2. Chat!Order(o) # last
      <4>1. o.msg.id # z.msg.id
        BY <1>0, <2>3 DEF Distinct
      <4> QED BY <2>3, <4>1 DEF Chat!Order
    <3> QED BY <1>0, <2>3, <3>1, <3>2, FrontierMoves
  <2> QED BY <1>4, <2>3, <2>4, <2>5
<1> QED BY <1>6, <1>7

\* A job that reads a page of the timeline.
LEMMA AfterTimeline ==
  ASSUME TimelineInv, NEW t \in Workers, Chat!Reconcile(t), NEW c, NEW g, Ready(t, c, g),
         c.state \notin {"absent", "materializing"},
         Chat!Reconciled(t) = Chat!Process(Job(c, g, episodes, {}, FALSE))
  PROVE  TimelineInv'
<1>0. /\ MessagesTell /\ SignalsTell /\ ConsumedTell /\ Chat!EpisodesFollowTimeline
           /\ Chat!LeftOnlyByRace
      /\ SeesSignals(t) /\ CursorFits(cursor) /\ pageJobs \in Nat /\ pageJobs >= 1 /\ JobsTell
           /\ Viewing(t)
  BY AJobRuns DEF TimelineInv, ViewsTell, Viewing, Chat!Reconcile
<1>1. c \in Cursors /\ CursorFits(c) /\ c.last = cursor.last /\ c.pending = cursor.pending
  BY DEF Ready, CursorFits
<1>2. PICK P : P = NextPage(c, g)
  OBVIOUS
<1>3. PICK last : last = IF P = {} THEN c.last ELSE Chat!Order(Chat!Latest(P))
  OBVIOUS
<1>4. PICK e : e = Passed(c, g, episodes)
  OBVIOUS
<1>5. PICK d : d = Advanced(c, g, episodes)
  OBVIOUS
<1>6. d = [c EXCEPT !.pending = e.pending, !.last = last, !.state
        = IF Chat!Full(P) THEN @ ELSE "done"]
  BY <1>1, <1>2, <1>3, <1>4, <1>5 DEF Advanced
<1>7. PICK s : s = Chat!Reconciled(t)
  OBVIOUS
<1>8. s = Job(d, g, e.list, P, Chat!Full(P))
  BY <1>1, <1>2, <1>4, <1>5, <1>7, ProcessIs
<1>9. /\ cursor' = s.cursor /\ episodes' = s.episodes /\ signals' = signals \cup s.signals
      /\ consumed' = consumed \cup {o.msg.id : o \in s.page} /\ raced' = raced \ consumed'
      /\ pageJobs' = pageJobs - 1 + Chat!Continuation(s) /\ messages' = messages /\ missed' = missed
      /\ lapsed' = (lapsed /\ Chat!Continuation(s) = 0)
  BY <1>7 DEF Chat!Reconcile
<1>10. s.cursor = d /\ s.signals = g /\ s.episodes = e.list /\ s.page = P /\ s.more = Chat!Full(P)
  BY <1>8 DEF Job
<1>11. /\ cursor' = d /\ episodes' = e.list /\ signals' = signals \cup g
       /\ consumed' = consumed \cup MessageIds(P) /\ raced' = raced \ consumed'
       /\ messages' = messages
  BY <1>9, <1>10 DEF MessageIds
<1>12. /\ pageJobs' = pageJobs - 1 + (IF Chat!Full(P) THEN 1 ELSE 0)
       /\ lapsed \in BOOLEAN /\ lapsed' \in BOOLEAN /\ (~Chat!Full(P) => lapsed' = lapsed)
  BY <1>0, <1>9, <1>10 DEF Chat!Continuation, JobsTell
<1>13. /\ P \subseteq g /\ Chat!IsFiniteSet(P) /\ (~Chat!Full(P) => P = g) /\ last \in Nat \X Nat
       /\ \A o \in g \ P : Chat!Before(last, Chat!Order(o))
       /\ \A o \in P : ~Chat!Before(last, Chat!Order(o))
       /\ last = cursor.last \/ Chat!Before(cursor.last, last)
  BY <1>2, <1>3, PageIs
<1>14. /\ Distinct(signals \cup g) /\ \A o \in g : Chat!Before(cursor.last, Chat!Order(o))
       /\ \A o \in signals \cup g : Chat!Order(o) \in Nat \X Nat /\ o \in Sigs
       /\ cursor.last \in Nat \X Nat
  BY <1>0, OrderType DEF Ready, Distinct, Ahead, CursorFits, Cursors
<1> DEFINE Old == {o \in signals : o.msg.id \in consumed}
<1>15. \A o \in Old : ~Chat!Before(cursor.last, Chat!Order(o)) /\ o \in signals
  BY <1>0 DEF ConsumedTell, Ahead
<1>16. {o \in signals' : o.msg.id \in consumed'} = Old \cup P
  <2>1. ASSUME NEW o \in signals \cup g, o.msg.id \in consumed PROVE o \in Old
    <3>1. PICK i \in signals : i.msg.id = o.msg.id
      BY <1>0, <2>1 DEF ConsumedTell, MessageIds
    <3>2. i = o
      BY <1>14, <2>1, <3>1 DEF Distinct
    <3> QED BY <2>1, <3>1, <3>2
  <2>2. ASSUME NEW o \in signals \cup g, o.msg.id \in MessageIds(P) PROVE o \in P
    <3>1. PICK i \in P : i.msg.id = o.msg.id
      BY <2>2 DEF MessageIds
    <3>2. i = o
      BY <1>13, <1>14, <2>2, <3>1 DEF Distinct
    <3> QED BY <3>1, <3>2
  <2>3. \A o \in P : o.msg.id \in MessageIds(P) /\ o \in signals \cup g
    BY <1>13 DEF MessageIds
  <2> QED BY <1>11, <2>1, <2>2, <2>3
<1>17. Chat!IsFiniteSet(Old) /\ Chat!IsFiniteSet(Old \cup P) /\ Distinct(Old \cup P)
  <2>1. Chat!IsFiniteSet(Old)
    BY <1>0, FS_Subset, TimelineSizes DEF SignalsTell
  <2>2. Old \cup P \subseteq signals \cup g
    BY <1>13
  <2> QED BY <1>13, <1>14, <2>1, <2>2, FS_Union, TimelineSizes DEF Distinct
<1>18. \A p \in Old : \A q \in P : Chat!Earlier(p, q)
  <2> TAKE p \in Old
  <2> TAKE q \in P
  <2>1. ~Chat!Before(cursor.last, Chat!Order(p)) /\ Chat!Before(cursor.last, Chat!Order(q))
        /\ Chat!Order(p) \in Nat \X Nat /\ Chat!Order(q) \in Nat \X Nat
    BY <1>13, <1>14, <1>15
  <2>2. Chat!Before(Chat!Order(p), Chat!Order(q))
    BY <1>14, <2>1, FrontierMoves
  <2> QED BY <2>2 DEF Chat!Earlier
<1>19. Chat!Pass(Chat!Unread, Old) = [list |-> episodes, pending |-> cursor.pending]
  BY <1>0 DEF Chat!EpisodesFollowTimeline
<1> HIDE DEF Old
<1>20. Chat!Pass(Chat!Unread, Old \cup P) = e
  <2>1. Chat!Pass(Chat!Unread, Old \cup P) = Chat!Pass(Chat!Pass(Chat!Unread, Old), P)
    BY <1>13, <1>17, <1>18, PassGoesOn
  <2>2. e = Chat!Pass([list |-> episodes, pending |-> cursor.pending], P)
    BY <1>1, <1>2, <1>4 DEF Passed
  <2> QED BY <1>19, <2>1, <2>2
<1>21. Shape(Old \cup P, e)
  <2>1. \A o \in Old \cup P : o.msg.id # 0
    <3>1. \A o \in signals \cup g : o.msg \in messages
      BY <1>0 DEF Ready, SignalsTell
    <3>2. Old \cup P \subseteq signals \cup g
      BY <1>13, <1>15
    <3> QED BY <1>0, <3>1, <3>2, IdsAreNumbers DEF MessagesTell
  <2> QED BY <1>17, <1>20, <2>1, PassShape
<1>22. e.pending \in Nat /\ e = [list |-> e.list, pending |-> e.pending]
  BY <1>21 DEF Shape, Fits
<1>23. /\ d \in Cursors /\ d.after = c.after /\ d.cutoff = c.cutoff /\ d.last = last
       /\ d.pending = e.pending /\ d.state \notin {"absent", "materializing"}
  BY <1>1, <1>6, <1>13, <1>22 DEF Cursors
<1>24. CursorFits(cursor)'
  BY <1>1, <1>11, <1>23 DEF CursorFits, HistoryWaits
<1>25. Signed(cursor, signals)'
  <2>1. \A m \in messages : Chat!Confirmed(m) => Signaled(m, signals \cup g) \/ m.id \in missed
    BY DEF Ready, Signed
  <2> QED BY <1>9, <1>11, <2>1 DEF Signed, Signaled
<1>26. Chat!EpisodesFollowTimeline'
  BY <1>11, <1>16, <1>20, <1>22, <1>23 DEF Chat!EpisodesFollowTimeline
<1>27. ConsumedTell'
  <2>1. consumed' \subseteq MessageIds(signals')
    BY <1>0, <1>11, <1>13 DEF ConsumedTell, MessageIds
  <2>2. ASSUME NEW o \in signals', o.msg.id \in consumed' PROVE ~Chat!Before(last, Chat!Order(o))
    <3>1. o \in Old \/ o \in P
      BY <1>16, <2>2
    <3>2. CASE o \in Old
      <4>1. ~Chat!Before(cursor.last, Chat!Order(o)) /\ Chat!Order(o) \in Nat \X Nat
        BY <1>14, <1>15, <3>2
      <4> QED BY <1>13, <1>14, <4>1, FrontierMoves
    <3> QED BY <1>13, <3>1, <3>2
  <2> QED BY <1>11, <1>23, <2>1, <2>2 DEF ConsumedTell, Ahead
<1>28. Chat!LeftOnlyByRace'
  <2> SUFFICES ASSUME NEW o \in signals', ~Chat!Before(last, Chat!Order(o)),
        o.msg.id \notin consumed'
               PROVE  o.msg.id \in raced
    BY <1>11, <1>23 DEF Chat!LeftOnlyByRace, Chat!Left
  <2>1. o \notin P
    BY <1>11 DEF MessageIds
  <2>2. o \in signals /\ o \notin g
    BY <1>11, <1>13, <2>1
  <2>3. CASE Chat!Before(cursor.last, Chat!Order(o))
    <3>1. o \notin pageTxn[t].signals
      BY <2>2 DEF Ready
    <3> QED BY <1>0, <2>2, <2>3, <3>1 DEF SeesSignals, Ahead
  <2>4. CASE ~Chat!Before(cursor.last, Chat!Order(o))
    BY <1>0, <1>11, <2>2, <2>4 DEF Chat!LeftOnlyByRace, Chat!Left
  <2> QED BY <2>3, <2>4
<1>29. pageJobs' \in Nat /\ pageJobs' >= pageJobs - 1
  BY <1>0, <1>12
<1>30. Chat!NeverStranded'
  <2> SUFFICES ASSUME NEW o \in signals', Chat!Before(last, Chat!Order(o))
        PROVE pageJobs' > 0 \/ lapsed'
    BY <1>11, <1>23 DEF Chat!NeverStranded
  <2>1. CASE Chat!Full(P)
    BY <1>0, <1>12, <2>1
  <2>2. CASE ~Chat!Full(P)
    <3>1. o \notin P /\ P = g
      BY <1>13, <2>2
    <3>2. o \in signals /\ o \notin pageTxn[t].signals
      BY <1>11, <3>1 DEF Ready
    <3>3. Chat!Before(cursor.last, Chat!Order(o))
      BY <1>11, <1>13, <1>14, FrontierMoves
    <3>4. pageJobs >= 2 \/ lapsed
      BY <1>0, <3>2, <3>3 DEF JobsTell, Unseen, Ahead
    <3> QED BY <1>0, <1>12, <2>2, <3>4
  <2> QED BY <2>1, <2>2
<1>31. cursor'.state # "absent"
  BY <1>11, <1>23
<1> QED BY <1>11, <1>12, <1>24, <1>25, <1>26, <1>27, <1>28, <1>29, <1>30, <1>31, ReconciliationEnds

LEMMA AfterReconcile ==
  ASSUME TimelineInv, NEW t \in Workers, Chat!Reconcile(t)
  PROVE  TimelineInv'
<1>1. Viewing(t) /\ ~Chat!Twice(t)
  BY DEF Chat!Reconcile, Viewing
<1>2. PICK c, g : /\ Ready(t, c, g) /\ c.state # "absent"
                  /\ \/ c.state = "materializing" /\ Chat!Reconciled(t)
                       = Job(c, g, episodes, {}, TRUE)
                     \/ c.state # "materializing"
                        /\ Chat!Reconciled(t) = Chat!Process(Job(c, g, episodes, {}, FALSE))
  BY <1>1, ComesToTheTimeline
<1>3. CASE c.state = "materializing"
  BY <1>2, <1>3, AfterHistory
<1>4. CASE c.state # "materializing"
  BY <1>2, <1>4, AfterTimeline
<1> QED BY <1>3, <1>4

\* --- Every step keeps the invariant, and it gives what is promised.
LEMMA TimelineStep == TimelineInv /\ [Chat!Next]_Chat!timelineVars => TimelineInv'
<1> SUFFICES ASSUME TimelineInv, [Chat!Next]_Chat!timelineVars PROVE TimelineInv'
  OBVIOUS
<1>1. ASSUME NEW t \in Workers, NEW kind \in Kinds, Chat!Receive(t, kind) PROVE TimelineInv'
  BY <1>1, AfterReceive
<1>2. ASSUME NEW t \in Workers, NEW m \in messages, Chat!ReceiveDelivery(t, m) PROVE TimelineInv'
  BY <1>2, AfterReceiveDelivery
<1>3. ASSUME NEW t \in Workers, Chat!Record(t) PROVE TimelineInv'
  BY <1>3, AfterRecord
<1>4. ASSUME NEW t \in Workers, Chat!StartJob(t) PROVE TimelineInv'
  BY <1>4, AfterStartJob
<1>5. ASSUME NEW t \in Workers, Chat!Reconcile(t) PROVE TimelineInv'
  BY <1>5, AfterReconcile
<1>6. ASSUME NEW t \in Workers, Chat!Abort(t) PROVE TimelineInv'
  BY <1>6, AfterAbort
<1>7. ASSUME NEW t \in Workers, Chat!FailJob(t) PROVE TimelineInv'
  BY <1>7, AfterFailJob
<1>8. CASE Chat!SkipJob
  BY <1>8, AfterSkipJob
<1>9. CASE Chat!Backfill
  BY <1>9, AfterBackfill
<1>10. CASE Chat!SwitchCapture
  BY <1>10, AfterSwitch
<1>11. CASE Chat!Tick
  BY <1>11, AfterTick
<1>12. CASE UNCHANGED Chat!timelineVars
  <2>1. Resting /\ pageTxn' = pageTxn /\ now' = now /\ pageJobs' = pageJobs /\ lapsed' = lapsed
    BY <1>12 DEF Chat!timelineVars, Resting
  <2> QED BY <2>1, WorkStays, NoneBegins DEF TimelineInv, JobsTell
<1> QED BY <1>1, <1>2, <1>3, <1>4, <1>5, <1>6, <1>7, <1>8, <1>9, <1>10, <1>11, <1>12 DEF Chat!Next

LEMMA TimelineGives ==
  TimelineInv => Chat!TimelineTypeOK /\ Chat!EpisodesFollowTimeline /\ Chat!SnapshotBarrier
                 /\ Chat!LeftOnlyByRace /\ Chat!NeverStranded
<1> SUFFICES ASSUME TimelineInv
             PROVE  Chat!TimelineTypeOK /\ Chat!SnapshotBarrier
  BY DEF TimelineInv
<1>0. /\ MessagesTell /\ SignalsTell /\ CursorFits(cursor) /\ Signed(cursor, signals)
      /\ ConsumedTell /\ Chat!EpisodesFollowTimeline /\ Chat!LeftOnlyByRace /\ now \in 0..Horizon
  BY DEF TimelineInv
<1> DEFINE Old == {s \in signals : s.msg.id \in consumed}
<1>1. Chat!Pass(Chat!Unread, Old) = [list |-> episodes, pending |-> cursor.pending]
  BY <1>0 DEF Chat!EpisodesFollowTimeline
<1>2. Chat!IsFiniteSet(Old) /\ Distinct(Old) /\ \A s \in Old : s.msg.id # 0
  BY <1>0, FS_Subset, TimelineSizes, SignalsHaveIds DEF SignalsTell, Distinct
<1>3. \A n \in 1..Len(episodes) : (episodes[n].response = 0) <=> (episodes[n].start
        = cursor.pending)
  <2> HIDE DEF Old
  <2>1. Shape(Old, [list |-> episodes, pending |-> cursor.pending])
    BY <1>1, <1>2, PassShape
  <2> QED BY <2>1 DEF Shape, Fits
<1>4. \A s, o \in signals : s.msg.id = o.msg.id => s = o
  BY <1>0 DEF SignalsTell, Distinct
<1>5. \A s \in signals : \E m \in messages : m.id = s.msg.id /\ Chat!Confirmed(m)
  BY <1>0 DEF SignalsTell
<1>6. /\ cursor.state \in {"absent", "materializing", "processing", "done"}
      /\ cursor.after <= cursor.cutoff /\ cursor.cutoff \in {0} \cup Chat!Ids
  BY <1>0 DEF CursorFits, Cursors
<1>7. consumed \subseteq {s.msg.id : s \in signals}
  BY <1>0 DEF ConsumedTell, MessageIds
<1>8. Chat!TimelineTypeOK
  BY <1>0, <1>3, <1>4, <1>5, <1>6, <1>7 DEF Chat!TimelineTypeOK
<1>9. Chat!SnapshotBarrier
  <2> SUFFICES ASSUME cursor.last # Chat!Start,
        NEW m \in messages, Chat!Confirmed(m), m.id \notin missed
               PROVE  \E s \in signals : s.msg.id = m.id /\ (m.id \in raced \/ ~Chat!Left(s))
    BY DEF Chat!SnapshotBarrier
  <2>1. ~HistoryWaits(cursor)
    BY <1>0 DEF CursorFits
  <2>2. PICK s \in signals : s.msg.id = m.id
    BY <1>0, <2>1 DEF Signed, Signaled, HistoryWaits
  <2>3. Chat!Left(s) => m.id \in raced
    BY <1>0, <2>2 DEF Chat!LeftOnlyByRace
  <2> QED BY <2>2, <2>3
<1> QED BY <1>8, <1>9

LEMMA TimelineInvariant == MCSpec => []TimelineInv
<1>1. MCInit => TimelineInv
  BY TimelineInit DEF MCInit
<1>2. TimelineInv /\ [MCNext]_mcVars => TimelineInv'
  <2>1. [MCNext]_mcVars => [Chat!Next]_(Chat!timelineVars)
    BY DEF MCNext, mcVars, ofTimeline, Chat!timelineVars
  <2> QED BY <2>1, TimelineStep
<1> QED BY <1>1, <1>2, PTL DEF MCSpec

\* _process_timeline_page: however pages, jobs and arrivals interleave, the
\* episodes are those of one pass over everything consumed, and a message has
\* one signal.
THEOREM TimelineEpisodes == MCSpec => []EpisodesFollowTimeline
<1>1. TimelineInv => EpisodesFollowTimeline
  BY TimelineGives DEF EpisodesFollowTimeline
<1> QED BY <1>1, TimelineInvariant, PTL

\* _reconcile_channel: history has its signals before any is consumed, but what
\* was confirmed with capture off; a signal is left behind by an overlap only;
\* and what is still to be read has a job, but for one that ended unread, with
\* capture off or in failure.
THEOREM TimelineFrontier == MCSpec => []FrontierSound
<1>1. TimelineInv => FrontierSound
  BY TimelineGives DEF FrontierSound
<1> QED BY <1>1, TimelineInvariant, PTL

=============================================================================
