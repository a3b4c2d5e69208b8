---------------------------- MODULE SyncProofs -----------------------------
(***************************************************************************)
(* Theorems about a synchronised scope of Google Ads or Meta Ads, for any  *)
(* number of runs, workers, planners, jobs, pages, batches, attempts and   *)
(* deferrals: the invariant, the steps both providers are built from, then *)
(* each provider.                                                          *)
(*                                                                         *)
(* None of the properties is inductive alone.  A page is safe because its  *)
(* snapshot is current (SnapshotCurrent); that it is applied once and in   *)
(* order rests on one run being active, on its progress being the cursor's *)
(* and on its registered job being the one that goes on (Chain), which no  *)
(* worker that has lost the run can end (Registered).                      *)
(***************************************************************************)
EXTENDS GoogleSync, MetaSync, TLAPS

TxnTypeOK ==
  /\ DOMAIN txn = Workers \cup Planners
  /\ \A w \in Workers :
       txn[w] # Idle => txn[w].job \in Jobs /\ txn[w].conflict \in BOOLEAN
  /\ \A p \in Planners :
       txn[p] # Idle => /\ txn[p].job = NoJob /\ txn[p].conflict \in BOOLEAN
                        /\ ~txn[p].conflict => txn[p].run \in Runs

\* Who still owns the run has read run, cursor and configuration as they are.
SnapshotCurrent ==
  \A w \in Workers : Owns(w) =>
    txn[w].run = run[Target(w)] /\ txn[w].cursor = cursor /\ txn[w].conf = conf

\* Who has lost the run does not hold the job that carries one on.
Registered ==
  \A w \in Workers : Holds(w) /\ ~Owns(w) =>
    \A r \in Active(run) : run[r].job # txn[w].job

OneActive == \A r, s \in Active(run) : r = s

Progress ==
  \A r \in Runs :
    /\ run[r].state = "unborn" => applied[r] = 0 /\ run[r].pages = 0
    /\ r \in Active(run) => applied[r] = cursor.pos

Chain ==
  \A r \in Active(run) :
    /\ run[r].job \in Jobs /\ jobs[run[r].job].run = r
    /\ jobs[run[r].job].state # "done" /\ jobs[run[r].job].seq = cursor.seq

\* What the tables say, and what the open transactions know of them.
Rows == SyncTypeOK /\ OneActive /\ Progress /\ CompleteSweep /\ Chain
Inv == Rows /\ TxnTypeOK /\ SnapshotCurrent /\ Registered

-----------------------------------------------------------------------------
LEMMA InitInv == Init => Inv
<1> SUFFICES ASSUME Init PROVE Inv
  OBVIOUS
<1> USE SyncBounds, SyncActors
<1>1. 0 \in 0..AttemptCeiling /\ 0 \in 0..(LastPage - 1) /\ 0 \in 0..(LastPage + 1)
  OBVIOUS
<1>2. SyncTypeOK
  <2>1. PICK r \in Runs : jobs = [j \in Jobs |-> [state |-> "done", retry |-> 0, run |-> r,
                                                seq |-> 0, deferrals |-> 0]]
    BY DEF Init
  <2> QED
    BY <1>1, <2>1 DEF Init, SyncTypeOK, RunRecord, JobRecord
<1>3. Active(run) = {}
  BY DEF Init, Active, ActiveStates
<1>4. \A r \in Runs : run[r].state = "unborn" /\ run[r].pages = 0 /\ applied[r] = 0
  BY DEF Init
<1>5. Rows
  BY <1>2, <1>3, <1>4 DEF Rows, OneActive, Progress, CompleteSweep, Chain
<1>6. TxnTypeOK /\ SnapshotCurrent /\ Registered
  BY DEF Init, TxnTypeOK, SnapshotCurrent, Registered, Owns, Holds
<1> QED
  BY <1>5, <1>6 DEF Inv

\* The invariant says what the runs check.
LEMMA InvImplies == Inv => SyncTypeOK /\ CompleteSweep /\ ChainHolds
<1> SUFFICES ASSUME Inv PROVE SyncTypeOK /\ CompleteSweep /\ ChainHolds
  OBVIOUS
<1>1. SyncTypeOK /\ CompleteSweep
  BY DEF Inv, Rows
<1>2. ChainUnbroken
  BY SyncActors DEF Inv, Rows, Chain, ChainUnbroken
<1>3. ASSUME NEW w \in Workers, Owns(w) PROVE txn[w].cursor.seq = Expected(w)
  <2>1. /\ txn[w].run = run[Target(w)] /\ txn[w].cursor = cursor /\ txn[w].job \in Jobs
    BY <1>3 DEF Inv, SnapshotCurrent, TxnTypeOK, Owns, Holds
  <2>2. Target(w) \in Active(run) /\ run[Target(w)].job = txn[w].job
    BY <1>1, <1>3, <2>1 DEF Owns, Current, Active, Target, SyncTypeOK, JobRecord
  <2> QED
    BY <2>1, <2>2 DEF Inv, Rows, Chain, Expected
<1>4. NeverOutdated
  BY <1>3 DEF Inv, Rows, Chain, NeverOutdated, Outdated
<1> QED
  BY <1>1, <1>2, <1>4 DEF ChainHolds

-----------------------------------------------------------------------------
(* What a step leaves of the open transactions.                            *)

Kept(u) ==
  Holds(u)' =>
    /\ txn'[u] = txn[u] /\ jobs'[txn[u].job] = jobs[txn[u].job]
    /\ Owns(u) => /\ UNCHANGED <<cursor, conf>>
                  /\ run'[Target(u)] = run[Target(u)]

LEMMA SpoiledKept ==
  ASSUME TxnTypeOK, NEW u \in Workers, NEW touched, txn'[u] = Spoiled(u, touched)
  PROVE  Kept(u)
<1> SUFFICES ASSUME Holds(u)'
             PROVE  /\ txn'[u] = txn[u] /\ jobs'[txn[u].job] = jobs[txn[u].job]
                    /\ Owns(u) => /\ UNCHANGED <<cursor, conf>>
                                  /\ run'[Target(u)] = run[Target(u)]
  BY DEF Kept
<1>1. ~(Holds(u) /\ Overtaken(u, touched))
  BY DEF Spoiled, Holds
<1>2. txn'[u] = txn[u] /\ Holds(u)
  BY <1>1 DEF Spoiled, Holds
<1>3. txn[u].job # NoJob
  BY <1>2, SyncActors DEF TxnTypeOK, Holds
<1> QED
  BY <1>1, <1>2, <1>3 DEF Overtaken, LocksMoved, RunMoved, FencesMoved

LEMMA UnchangedKept ==
  ASSUME NEW u, txn'[u] = txn[u] \/ txn'[u] = Idle, UNCHANGED <<run, cursor, conf, jobs>>
  PROVE  Kept(u)
BY DEF Kept, Holds

LEMMA KeptCurrent ==
  ASSUME Inv, NEW u \in Workers, Kept(u)
  PROVE  Owns(u)' => /\ Owns(u) /\ txn'[u].run = run'[Target(u)'] /\ txn'[u].cursor = cursor'
                     /\ txn'[u].conf = conf'
BY DEF Inv, SnapshotCurrent, Kept, Owns, Current, Target, Holds

\* Runs are carried on by the job they had or by one nobody had.
Successors ==
  \A r \in Active(run)' :
    \/ r \in Active(run) /\ run'[r].job = run[r].job
    \/ run'[r].job \in FreeJobs

LEMMA KeptRegistered ==
  ASSUME Inv, NEW u \in Workers, Kept(u), Successors
  PROVE  Holds(u)' /\ ~Owns(u)' => \A r \in Active(run)' : run'[r].job # txn'[u].job
<1> SUFFICES ASSUME Holds(u)', ~Owns(u)', NEW r \in Active(run)' PROVE run'[r].job # txn'[u].job
  OBVIOUS
<1>1. txn'[u] = txn[u] /\ Holds(u) /\ ~Owns(u)
  BY DEF Kept, Holds, Owns, Current
<1>2. CASE r \in Active(run) /\ run'[r].job = run[r].job
  BY <1>1, <1>2 DEF Inv, Registered
<1>3. CASE run'[r].job \in FreeJobs
  BY <1>1, <1>3 DEF FreeJobs, Holds
<1> QED
  BY <1>2, <1>3 DEF Successors

\* The types of the transactions.
LEMMA TxnTypes ==
  ASSUME TxnTypeOK, DOMAIN txn' = Workers \cup Planners,
         \A u \in Workers \cup Planners :
           \/ txn'[u] \in {txn[u], Idle}
           \/ txn[u] # Idle /\ txn'[u] = [job |-> txn[u].job, conflict |-> TRUE]
  PROVE  TxnTypeOK'
<1>1. ASSUME NEW w \in Workers, txn'[w] # Idle
      PROVE  txn'[w].job \in Jobs /\ txn'[w].conflict \in BOOLEAN
  <2>1. CASE txn'[w] = txn[w]
    BY <1>1, <2>1 DEF TxnTypeOK
  <2>2. CASE txn[w] # Idle /\ txn'[w] = [job |-> txn[w].job, conflict |-> TRUE]
    BY <2>2 DEF TxnTypeOK
  <2> QED
    BY <1>1, <2>1, <2>2
<1>2. ASSUME NEW p \in Planners, txn'[p] # Idle
      PROVE  /\ txn'[p].job = NoJob /\ txn'[p].conflict \in BOOLEAN
             /\ ~txn'[p].conflict => txn'[p].run \in Runs
  <2>1. CASE txn'[p] = txn[p]
    BY <1>2, <2>1 DEF TxnTypeOK
  <2>2. CASE txn[p] # Idle /\ txn'[p] = [job |-> txn[p].job, conflict |-> TRUE]
    BY <2>2 DEF TxnTypeOK
  <2> QED
    BY <1>2, <2>1, <2>2
<1> QED
  BY <1>1, <1>2 DEF TxnTypeOK

LEMMA SpoiledTypes ==
  ASSUME NEW u, NEW touched
  PROVE  \/ Spoiled(u, touched) = txn[u]
         \/ txn[u] # Idle /\ Spoiled(u, touched) = [job |-> txn[u].job, conflict |-> TRUE]
BY DEF Spoiled, Holds

\* A step that closes a transaction, or none, and spoils the others.
LEMMA ClosedTxn ==
  ASSUME Inv, NEW t, NEW touched, Close(t, touched) \/ KeepOpen(touched), Successors
  PROVE  TxnTypeOK' /\ SnapshotCurrent' /\ Registered'
<1>1. /\ DOMAIN txn' = Workers \cup Planners
      /\ \A u \in Workers \cup Planners : txn'[u] = Idle \/ txn'[u] = Spoiled(u, touched)
  BY DEF Close, KeepOpen
<1>2. TxnTypeOK'
  BY <1>1, SpoiledTypes, TxnTypes DEF Inv
<1>3. ASSUME NEW u \in Workers PROVE Kept(u)
  <2>1. CASE txn'[u] = Idle
    BY <2>1 DEF Kept, Holds
  <2>2. CASE txn'[u] = Spoiled(u, touched)
    BY <2>2, SpoiledKept DEF Inv
  <2> QED
    BY <1>1, <2>1, <2>2
<1>4. SnapshotCurrent'
  BY <1>3, KeptCurrent DEF SnapshotCurrent
<1>5. Registered'
  BY <1>3, KeptRegistered DEF Registered
<1> QED
  BY <1>2, <1>4, <1>5

-----------------------------------------------------------------------------
(* What a step does to the runs.                                           *)

OthersKept(r) == \A s \in Runs \ {r} : run'[s].state = run[s].state

StatesKept == UNCHANGED applied /\ \A r \in Runs : run'[r].state = run[r].state

PlannedRun(r) ==
  /\ run[r].state = "unborn" /\ Active(run) = {}
  /\ run'[r].state \in ActiveStates /\ OthersKept(r) /\ UNCHANGED applied

EndedRun(r) ==
  /\ r \in Active(run)
  /\ run'[r].state \in TerminalStates /\ OthersKept(r) /\ UNCHANGED applied

PagedRun(r) ==
  /\ r \in Active(run) /\ conf.ready /\ conf.rev = run[r].rev /\ OthersKept(r)
  /\ \E n \in 1..Batch :
       /\ applied[r] + n <= LastPage
       /\ applied' = [applied EXCEPT ![r] = @ + n]
       /\ run'[r].state \in IF applied[r] + n = LastPage THEN TerminalStates ELSE ActiveStates

RunStep == StatesKept \/ \E r \in Runs : PlannedRun(r) \/ EndedRun(r) \/ PagedRun(r)

\* The types of what needs no argument.
Frame ==
  /\ conf' \in [rev : Nat, ready : BOOLEAN] /\ disturbances' \in 0..MaxDisturbances
  /\ jobs' \in [Jobs -> JobRecord]

\* Jobs move on, and the registered ones keep their page.
LEMMA JobsMove ==
  ASSUME Inv, Frame, UNCHANGED <<run, cursor, applied>>,
         \A i \in Jobs :
           \/ /\ jobs'[i].run = jobs[i].run /\ jobs'[i].seq = jobs[i].seq
              /\ jobs'[i].state # "done" \/ jobs[i].state = "done"
           \/ \A r \in Active(run) : run[r].job # i
  PROVE  Rows' /\ Successors /\ StatesKept
<1> USE DEF Inv, Rows, Frame
<1>1. Active(run)' = Active(run)
  BY DEF Active
<1>2. SyncTypeOK'
  BY DEF SyncTypeOK
<1>3. OneActive' /\ Progress' /\ CompleteSweep' /\ Successors /\ StatesKept
  BY <1>1 DEF OneActive, Progress, CompleteSweep, Successors, StatesKept
<1>4. Chain'
  BY <1>1 DEF Chain
<1> QED
  BY <1>2, <1>3, <1>4

\* The active run ends: there is none left.
LEMMA RunEnds ==
  ASSUME Inv, Frame, UNCHANGED <<cursor, applied>>, NEW r \in Active(run),
         NEW state \in TerminalStates \ {"succeeded"},
         run' = [run EXCEPT ![r].state = state]
  PROVE  Rows' /\ Successors /\ EndedRun(r)
<1> USE DEF Inv, Rows, Frame
<1>1. r \in Runs /\ run \in [Runs -> RunRecord]
  BY DEF Active, SyncTypeOK
<1>2. /\ run'[r] = [run[r] EXCEPT !.state = state]
      /\ \A s \in Runs \ {r} : run'[s] = run[s]
  BY <1>1
<1>3. run'[r] \in RunRecord /\ run'[r].state = state /\ run'[r].pages = run[r].pages
  BY <1>1, <1>2 DEF RunRecord, TerminalStates
<1>4. Active(run)' = {}
  <2>1. \A s \in Runs \ {r} : run[s].state \notin ActiveStates
    BY DEF OneActive, Active
  <2> QED
    BY <1>2, <1>3, <2>1 DEF Active, ActiveStates, TerminalStates
<1>5. SyncTypeOK'
  BY <1>1, <1>2, <1>3 DEF SyncTypeOK
<1>6. Progress' /\ CompleteSweep'
  BY <1>2, <1>3, <1>4 DEF Progress, CompleteSweep, TerminalStates
<1> QED
  BY <1>2, <1>3, <1>4, <1>5, <1>6
  DEF OneActive, Chain, Successors, EndedRun, OthersKept

\* A new job is the registered one of its run, and the model forgets the old one.
LEMMA DelayFacts ==
  ASSUME Inv, NEW r \in Runs, NEW seq \in Nat, NEW deferrals \in Nat,
         NEW record \in RunRecord, NEW own, Delay(r, seq, deferrals, record, own)
  PROVE  /\ jobs' \in [Jobs -> JobRecord] /\ run' \in [Runs -> RunRecord]
         /\ run'[r].job \in FreeJobs /\ run'[r].state = record.state
         /\ run'[r].pages = record.pages /\ run'[r].rev = record.rev
         /\ jobs'[run'[r].job].run = r /\ jobs'[run'[r].job].seq = seq
         /\ jobs'[run'[r].job].state = "pending"
         /\ \A s \in Runs \ {r} : run'[s] = run[s]
<1>1. PICK j \in FreeJobs :
        /\ jobs' = [i \in Jobs |->
                      IF i = j THEN [state |-> "pending", retry |-> 0, run |-> r,
                                     seq |-> seq, deferrals |-> deferrals]
                      ELSE IF i = own THEN Done(jobs[i])
                      ELSE jobs[i]]
        /\ run' = [run EXCEPT ![r] = [record EXCEPT !.job = j]]
  BY DEF Delay
<1>2. j \in Jobs /\ 0 \in 0..AttemptCeiling
  BY SyncBounds DEF FreeJobs
<1>3. jobs \in [Jobs -> JobRecord] /\ run \in [Runs -> RunRecord]
  BY DEF Inv, Rows, SyncTypeOK
<1>4. \A i \in Jobs : Done(jobs[i]) \in JobRecord
  BY <1>2, <1>3 DEF Done, JobRecord
<1>5. [state |-> "pending", retry |-> 0, run |-> r, seq |-> seq,
       deferrals |-> deferrals] \in JobRecord
  BY <1>2 DEF JobRecord
<1>6. run'[r] = [record EXCEPT !.job = j] /\ jobs'[j].run = r /\ jobs'[j].seq = seq
      /\ jobs'[j].state = "pending"
  BY <1>1, <1>2, <1>3
<1>7. /\ run'[r] \in RunRecord /\ run'[r].job = j /\ run'[r].state = record.state
      /\ run'[r].pages = record.pages /\ run'[r].rev = record.rev
  BY <1>2, <1>6 DEF RunRecord
<1> QED
  BY <1>1, <1>2, <1>3, <1>4, <1>5, <1>6, <1>7

\* The only active run goes on with a new job, at the page the cursor is at.
LEMMA RunGoesOn ==
  ASSUME Inv, Frame, NEW r \in Runs, \A s \in Active(run) : s = r,
         SyncTypeOK', \A s \in Runs \ {r} : run'[s] = run[s] /\ applied'[s] = applied[s],
         run'[r].state \in ActiveStates, run'[r].pages = applied'[r],
         applied'[r] = cursor'.pos, run'[r].job \in FreeJobs,
         jobs'[run'[r].job].run = r, jobs'[run'[r].job].seq = cursor'.seq,
         jobs'[run'[r].job].state # "done"
  PROVE  Rows' /\ Successors
<1>1. Active(run)' = {r}
  BY DEF Active
<1>2. run'[r].job \in Jobs /\ run'[r].state # "unborn" /\ run'[r].state # "succeeded"
  BY DEF FreeJobs, ActiveStates
<1>3. OneActive' /\ Chain' /\ Successors
  BY <1>1, <1>2 DEF OneActive, Chain, Successors
<1>4. Progress'
  BY <1>1, <1>2 DEF Progress, Inv, Rows
<1>5. applied'[r] <= LastPage
  BY SyncBounds DEF SyncTypeOK
<1>6. CompleteSweep'
  BY <1>2, <1>5 DEF CompleteSweep, Inv, Rows
<1> QED
  BY <1>3, <1>4, <1>6 DEF Rows

LEMMA PlanStep ==
  ASSUME Inv, NEW p \in Planners, Plan(p)
  PROVE  Rows' /\ Successors /\ \E r \in Runs : PlannedRun(r)
<1> DEFINE r == txn[p].run
           record == [run[r] EXCEPT !.state = "queued", !.rev = conf.rev]
<1>1. /\ r \in Runs /\ run[r].state = "unborn" /\ Active(run) = {} /\ cursor' = Restarted
      /\ Delay(r, Restarted.seq, 0, record, NoJob)
      /\ UNCHANGED <<conf, disturbances, applied>>
  BY DEF Plan, Begin, Holds, Unclaimed, Inv, TxnTypeOK
<1>2. /\ run \in [Runs -> RunRecord] /\ cursor \in [seq : Nat, pos : 0..(LastPage - 1)]
      /\ conf \in [rev : Nat, ready : BOOLEAN] /\ applied \in [Runs -> 0..(LastPage + 1)]
      /\ disturbances \in 0..MaxDisturbances
  BY DEF Inv, Rows, SyncTypeOK
<1>3. /\ Restarted \in [seq : Nat, pos : 0..(LastPage - 1)] /\ Restarted.pos = 0
      /\ Restarted.seq \in Nat
  BY <1>2, SyncBounds DEF Restarted
<1>4. record \in RunRecord /\ record.state = "queued" /\ record.pages = run[r].pages
  BY <1>1, <1>2 DEF RunRecord, ActiveStates
<1> HIDE DEF record
<1>5. /\ jobs' \in [Jobs -> JobRecord] /\ run' \in [Runs -> RunRecord]
      /\ run'[r].job \in FreeJobs /\ run'[r].state = record.state
      /\ run'[r].pages = record.pages /\ jobs'[run'[r].job].run = r
      /\ jobs'[run'[r].job].seq = Restarted.seq /\ jobs'[run'[r].job].state = "pending"
      /\ \A s \in Runs \ {r} : run'[s] = run[s]
  BY <1>1, <1>3, <1>4, DelayFacts
<1>6. /\ run'[r].job \in FreeJobs /\ run'[r].state = "queued"
      /\ run'[r].pages = run[r].pages /\ jobs'[run'[r].job].run = r
      /\ jobs'[run'[r].job].seq = cursor'.seq /\ jobs'[run'[r].job].state # "done"
  BY <1>1, <1>4, <1>5
<1>7. Frame /\ SyncTypeOK'
  BY <1>1, <1>2, <1>3, <1>5 DEF Frame, SyncTypeOK
<1>8. run[r].pages = applied'[r] /\ applied'[r] = cursor'.pos
  BY <1>1, <1>3 DEF Inv, Rows, Progress
<1>9. Rows' /\ Successors
  BY <1>1, <1>5, <1>6, <1>7, <1>8, RunGoesOn DEF ActiveStates
<1> QED
  BY <1>1, <1>5, <1>6, <1>9 DEF PlannedRun, OthersKept, ActiveStates

\* A worker that owns its run reads it, the cursor and the configuration as they
\* are, and its run is the active one.
LEMMA OwnerFacts ==
  ASSUME Inv, NEW w \in Workers, Owns(w)
  PROVE  /\ Target(w) \in Active(run) /\ \A r \in Active(run) : r = Target(w)
         /\ run[Target(w)].job = txn[w].job /\ txn[w].job \in Jobs
         /\ txn[w].run = run[Target(w)] /\ txn[w].cursor = cursor /\ txn[w].conf = conf
<1>1. /\ txn[w].run = run[Target(w)] /\ txn[w].cursor = cursor /\ txn[w].conf = conf
      /\ txn[w].job \in Jobs
  BY DEF Inv, SnapshotCurrent, TxnTypeOK, Owns, Holds
<1>2. Target(w) \in Runs
  BY <1>1 DEF Target, Inv, Rows, SyncTypeOK, JobRecord
<1>3. Target(w) \in Active(run) /\ run[Target(w)].job = txn[w].job
  BY <1>1, <1>2 DEF Owns, Current, Active
<1> QED
  BY <1>1, <1>3 DEF Inv, Rows, OneActive

LEMMA DoneFacts ==
  ASSUME Inv, NEW w \in Workers, JobDone(w)
  PROVE  /\ jobs' \in [Jobs -> JobRecord]
         /\ \A i \in Jobs \ {txn[w].job} : jobs'[i] = jobs[i]
<1>1. jobs \in [Jobs -> JobRecord] /\ 0 \in 0..AttemptCeiling
  BY SyncBounds DEF Inv, Rows, SyncTypeOK
<1>2. \A i \in Jobs : Done(jobs[i]) \in JobRecord
  BY <1>1 DEF Done, JobRecord
<1> QED
  BY <1>1, <1>2 DEF JobDone

LEMMA ApplyStep ==
  ASSUME Inv, NEW w \in Workers, NEW touched, ApplyPages(w, touched)
  PROVE  Rows' /\ Successors /\ PagedRun(Target(w))
<1> DEFINE r == Target(w)
<1>1. PICK n \in 1..Batch, errors \in BOOLEAN :
        cursor.pos + n <= LastPage /\ Advance(w, n, errors, touched)
  BY DEF ApplyPages
<1> DEFINE record == Updated(run[r], n, errors, More(n))
<1>2. /\ Owns(w) /\ Fenced(w) /\ cursor' = Moved(n) /\ NextJob(w, n, record)
      /\ applied' = [applied EXCEPT ![r] = IF @ = cursor.pos THEN @ + n ELSE LastPage + 1]
      /\ UNCHANGED <<conf, disturbances>>
  BY <1>1 DEF Advance, Prepared
<1>3. /\ r \in Active(run) /\ \A s \in Active(run) : s = r
      /\ conf.ready /\ conf.rev = run[r].rev /\ r \in Runs
      /\ run[r].state \in ActiveStates
  BY <1>2, OwnerFacts DEF Fenced, Current, Active
<1>4. /\ run \in [Runs -> RunRecord] /\ cursor \in [seq : Nat, pos : 0..(LastPage - 1)]
      /\ conf \in [rev : Nat, ready : BOOLEAN] /\ applied \in [Runs -> 0..(LastPage + 1)]
      /\ disturbances \in 0..MaxDisturbances /\ n \in Nat \ {0}
      /\ jobs \in [Jobs -> JobRecord]
  BY SyncBounds DEF Inv, Rows, SyncTypeOK
<1>5. applied[r] = cursor.pos /\ run[r].pages = applied[r]
  BY <1>3 DEF Inv, Rows, Progress, CompleteSweep
<1>6. applied' = [applied EXCEPT ![r] = @ + n] /\ applied'[r] = cursor.pos + n
  BY <1>2, <1>3, <1>4, <1>5
<1>7. applied' \in [Runs -> 0..(LastPage + 1)]
  <2>1. cursor.pos + n \in 0..(LastPage + 1)
    BY <1>1, <1>4, SyncBounds
  <2> QED
    BY <1>3, <1>4, <1>5, <1>6, <2>1
<1>8. /\ Moved(n) \in [seq : Nat, pos : 0..(LastPage - 1)] /\ Moved(n).seq = cursor.seq + n
      /\ Moved(n).seq \in Nat
      /\ More(n) => Moved(n).pos = cursor.pos + n
  BY <1>4, SyncBounds DEF Moved, More
<1>9. /\ record \in RunRecord /\ record.pages = cursor.pos + n
      /\ More(n) => record.state = "running"
      /\ ~More(n) => record.state \in {"partial", "succeeded"}
  <2>1. run[r] \in RunRecord /\ run[r].pages + n \in Nat /\ run[r].pages = cursor.pos
    BY <1>3, <1>4, <1>5 DEF RunRecord
  <2> QED
    BY <2>1 DEF Updated, RunRecord, ActiveStates, TerminalStates
<1> HIDE DEF record
<1>10. OthersKept(r) /\ \A s \in Runs \ {r} : run'[s] = run[s] /\ applied'[s] = applied[s]
  <2>1. \A s \in Runs \ {r} : run'[s] = run[s]
    <3>1. CASE More(n)
      BY <1>2, <1>3, <1>4, <1>8, <1>9, <3>1, DelayFacts DEF NextJob
    <3>2. CASE ~More(n)
      BY <1>2, <1>4, <3>2 DEF NextJob, Alone
    <3> QED
      BY <3>1, <3>2
  <2> QED
    BY <1>4, <1>6, <2>1 DEF OthersKept
<1>11. CASE More(n)
  <2>1. Delay(r, cursor.seq + n, 0, record, txn[w].job)
    BY <1>2, <1>11 DEF NextJob
  <2>2. /\ jobs' \in [Jobs -> JobRecord] /\ run' \in [Runs -> RunRecord]
        /\ run'[r].job \in FreeJobs /\ run'[r].state = record.state
        /\ run'[r].pages = record.pages /\ jobs'[run'[r].job].run = r
        /\ jobs'[run'[r].job].seq = cursor.seq + n
        /\ jobs'[run'[r].job].state = "pending"
    BY <1>3, <1>8, <1>9, <2>1, DelayFacts
  <2>3. /\ run'[r].job \in FreeJobs /\ run'[r].state = "running"
        /\ run'[r].pages = applied'[r] /\ jobs'[run'[r].job].run = r
        /\ jobs'[run'[r].job].seq = cursor'.seq /\ jobs'[run'[r].job].state # "done"
        /\ applied'[r] = cursor'.pos
    BY <1>2, <1>6, <1>8, <1>9, <1>11, <2>2
  <2>4. Frame /\ SyncTypeOK'
    BY <1>2, <1>4, <1>7, <1>8, <2>2 DEF Frame, SyncTypeOK
  <2>5. Rows' /\ Successors
    BY <1>3, <1>10, <2>3, <2>4, RunGoesOn DEF ActiveStates
  <2>6. applied[r] + n <= LastPage /\ applied[r] + n # LastPage
    BY <1>4, <1>5, <1>11, SyncBounds DEF More
  <2> QED
    BY <1>3, <1>6, <1>10, <2>3, <2>5, <2>6 DEF PagedRun, ActiveStates
<1>12. CASE ~More(n)
  <2>1. run' = [run EXCEPT ![r] = record] /\ JobDone(w)
    BY <1>2, <1>12 DEF NextJob, Alone
  <2>2. run' \in [Runs -> RunRecord] /\ run'[r] = record
    BY <1>3, <1>4, <1>9, <2>1
  <2>3. jobs' \in [Jobs -> JobRecord]
    BY <2>1, DoneFacts
  <2>4. applied[r] + n = LastPage /\ applied'[r] = LastPage
    BY <1>1, <1>4, <1>5, <1>6, <1>12, SyncBounds DEF More
  <2>5. Active(run)' = {}
    BY <1>3, <1>9, <1>10, <1>12, <2>2 DEF Active, ActiveStates
  <2>6. SyncTypeOK'
    BY <1>2, <1>4, <1>7, <1>8, <2>2, <2>3 DEF SyncTypeOK
  <2>7. CompleteSweep'
    BY <1>5, <1>6, <1>9, <1>10, <2>2, <2>4, SyncBounds DEF CompleteSweep, Inv, Rows
  <2>8. Progress'
    BY <1>9, <1>10, <1>12, <2>2, <2>5 DEF Progress, Inv, Rows
  <2>9. Rows' /\ Successors
    BY <2>5, <2>6, <2>7, <2>8 DEF Rows, OneActive, Chain, Successors
  <2>10. run'[r].state \in TerminalStates
    BY <1>9, <1>12, <2>2 DEF TerminalStates
  <2>11. /\ applied[r] + n <= LastPage
         /\ run'[r].state \in IF applied[r] + n = LastPage THEN TerminalStates ELSE ActiveStates
    BY <2>4, <2>10, SyncBounds
  <2> QED
    BY <1>3, <1>6, <1>10, <2>9, <2>11 DEF PagedRun
<1> QED
  BY <1>11, <1>12

-----------------------------------------------------------------------------
(* The steps, by what they are built from.                                 *)

\* Every type but the jobs' stays when nothing is written there.
LEMMA FrameFacts ==
  ASSUME Inv
  PROVE  /\ conf \in [rev : Nat, ready : BOOLEAN] /\ disturbances \in 0..MaxDisturbances
         /\ jobs \in [Jobs -> JobRecord] /\ run \in [Runs -> RunRecord]
         /\ Disturb => disturbances' \in 0..MaxDisturbances
BY SyncBounds DEF Inv, Rows, SyncTypeOK, Disturb

\* An owner ends its run.
LEMMA EndTargetStep ==
  ASSUME Inv, NEW w \in Workers, NEW touched, NEW state \in TerminalStates \ {"succeeded"},
         Owns(w), EndTarget(w, state), conf' \in [rev : Nat, ready : BOOLEAN],
         Close(w, touched)
  PROVE  Inv' /\ RunStep
<1>1. /\ run' = [run EXCEPT ![Target(w)].state = state] /\ JobDone(w)
      /\ UNCHANGED <<cursor, disturbances, applied>>
  BY DEF EndTarget
<1>2. Target(w) \in Active(run)
  BY OwnerFacts
<1>3. Frame
  BY <1>1, DoneFacts, FrameFacts DEF Frame
<1>4. Rows' /\ Successors /\ EndedRun(Target(w))
  BY <1>1, <1>2, <1>3, RunEnds
<1>5. TxnTypeOK' /\ SnapshotCurrent' /\ Registered'
  BY <1>4, ClosedTxn
<1> QED
  BY <1>2, <1>4, <1>5 DEF Inv, RunStep, Active

\* A worker without its run ends its job.
LEMMA ObsoleteStep ==
  ASSUME Inv, NEW w \in Workers, Obsolete(w)
  PROVE  Inv' /\ RunStep
<1>1. /\ Holds(w) /\ ~Owns(w) /\ JobDone(w) /\ Close(w, FALSE)
      /\ UNCHANGED <<run, cursor, conf, disturbances, applied>>
  BY DEF Obsolete
<1>2. Frame
  BY <1>1, DoneFacts, FrameFacts DEF Frame
<1>3. \A r \in Active(run) : run[r].job # txn[w].job
  BY <1>1 DEF Inv, Registered
<1>4. ASSUME NEW i \in Jobs
      PROVE  \/ /\ jobs'[i].run = jobs[i].run /\ jobs'[i].seq = jobs[i].seq
                /\ jobs'[i].state # "done" \/ jobs[i].state = "done"
             \/ \A r \in Active(run) : run[r].job # i
  <2>1. CASE i = txn[w].job
    BY <1>3, <2>1
  <2>2. CASE i # txn[w].job
    <3>1. jobs'[i] = jobs[i]
      BY <1>1, <2>2, DoneFacts
    <3> QED
      BY <3>1
  <2> QED
    BY <2>1, <2>2
<1>5. Rows' /\ Successors /\ StatesKept
  BY <1>1, <1>2, <1>4, JobsMove
<1> QED
  BY <1>1, <1>5, ClosedTxn DEF Inv, RunStep

\* A job is moved by the queue, by whoever holds it or by nobody.
JobMoved(j) ==
  /\ UNCHANGED <<run, cursor, conf, applied>> /\ disturbances' \in 0..MaxDisturbances
  /\ jobs' \in [Jobs -> JobRecord]
  /\ \A i \in Jobs :
       jobs'[i] = jobs[i]
       \/ /\ jobs'[i].run = jobs[i].run /\ jobs'[i].seq = jobs[i].seq
          /\ jobs'[i].state # "done"

LEMMA JobMovedRows ==
  ASSUME Inv, NEW j, JobMoved(j)
  PROVE  Rows' /\ Successors /\ StatesKept
<1>1. Frame
  BY FrameFacts DEF JobMoved, Frame
<1> QED
  BY <1>1, JobsMove DEF JobMoved

LEMMA StateMoved ==
  ASSUME Inv, NEW j \in Jobs, NEW state \in {"pending", "started", "gone"},
         jobs' = [jobs EXCEPT ![j].state = state], disturbances' \in 0..MaxDisturbances,
         UNCHANGED <<run, cursor, conf, applied>>
  PROVE  JobMoved(j)
<1>1. jobs \in [Jobs -> JobRecord]
  BY FrameFacts
<1>2. /\ [jobs[j] EXCEPT !.state = state] \in JobRecord
      /\ [jobs[j] EXCEPT !.state = state].run = jobs[j].run
      /\ [jobs[j] EXCEPT !.state = state].seq = jobs[j].seq
      /\ [jobs[j] EXCEPT !.state = state].state = state
  BY <1>1 DEF JobRecord
<1>3. /\ jobs'[j] = [jobs[j] EXCEPT !.state = state]
      /\ \A i \in Jobs \ {j} : jobs'[i] = jobs[i]
  BY <1>1
<1>4. jobs' \in [Jobs -> JobRecord]
  BY <1>1, <1>2
<1> QED
  BY <1>2, <1>3, <1>4 DEF JobMoved

LEMMA PostponeStep ==
  ASSUME Inv, NEW w \in Workers, txn[w] # Idle, Postpone(w)
  PROVE  Inv' /\ RunStep
<1> DEFINE j == txn[w].job
           job == [jobs[j] EXCEPT !.state = "pending",
                                  !.retry = IF @ < AttemptCeiling THEN @ + 1 ELSE @]
<1>1. j \in Jobs /\ jobs \in [Jobs -> JobRecord] /\ disturbances \in 0..MaxDisturbances
  BY FrameFacts DEF Inv, TxnTypeOK
<1>2. /\ jobs' = [jobs EXCEPT ![j] = job] /\ Close(w, FALSE)
      /\ UNCHANGED <<run, cursor, conf, disturbances, applied>>
  BY <1>1 DEF Postpone
<1>3. /\ job \in JobRecord /\ job.run = jobs[j].run /\ job.seq = jobs[j].seq
      /\ job.state = "pending"
  <2>1. jobs[j] \in JobRecord /\ jobs[j].retry \in 0..AttemptCeiling
    BY <1>1 DEF JobRecord
  <2>2. \A n \in 0..AttemptCeiling : (IF n < AttemptCeiling THEN n + 1 ELSE n) \in 0..AttemptCeiling
    BY SyncBounds
  <2>3. job = [jobs[j] EXCEPT !.state = "pending",
                              !.retry = IF jobs[j].retry < AttemptCeiling
                                        THEN jobs[j].retry + 1 ELSE jobs[j].retry]
    BY <2>1 DEF JobRecord
  <2> HIDE DEF job
  <2> QED
    BY <2>1, <2>2, <2>3 DEF JobRecord
<1>4. JobMoved(j)
  BY <1>1, <1>2, <1>3 DEF JobMoved
<1>5. Rows' /\ Successors /\ StatesKept
  BY <1>4, JobMovedRows
<1> QED
  BY <1>2, <1>5, ClosedTxn DEF Inv, RunStep

LEMMA StartStep ==
  ASSUME Inv, NEW w \in Workers, NEW j \in Jobs, StartPage(w, j)
  PROVE  Inv' /\ RunStep
<1>1. /\ jobs' = [jobs EXCEPT ![j].state = "started"]
      /\ UNCHANGED <<run, cursor, conf, disturbances, applied>>
      /\ txn' = [u \in Workers \cup Planners |->
                   IF u = w THEN Snapshot(j, jobs') ELSE Spoiled(u, FALSE)]
  BY DEF StartPage
<1>2. jobs \in [Jobs -> JobRecord] /\ disturbances \in 0..MaxDisturbances
  BY FrameFacts
<1>3. Rows' /\ Successors /\ StatesKept
  BY <1>1, <1>2, StateMoved, JobMovedRows
<1>4. /\ txn'[w].job = j /\ txn'[w].conflict = FALSE /\ txn'[w].run = run'[jobs'[j].run]
      /\ txn'[w].cursor = cursor' /\ txn'[w].conf = conf'
  BY <1>1 DEF Snapshot
<1>5. \A u \in (Workers \cup Planners) \ {w} : txn'[u] = Spoiled(u, FALSE)
  BY <1>1
<1>6. TxnTypeOK'
  <2>1. ASSUME NEW u \in Workers, txn'[u] # Idle
        PROVE  txn'[u].job \in Jobs /\ txn'[u].conflict \in BOOLEAN
    <3>1. CASE u = w
      BY <1>4, <3>1
    <3>2. CASE u # w
      <4>1. txn'[u] = Spoiled(u, FALSE)
        BY <1>5, <3>2
      <4>2. CASE txn'[u] = txn[u]
        BY <2>1, <4>2 DEF Inv, TxnTypeOK
      <4>3. CASE txn[u] # Idle /\ txn'[u] = [job |-> txn[u].job, conflict |-> TRUE]
        BY <4>3 DEF Inv, TxnTypeOK
      <4> QED
        BY <4>1, <4>2, <4>3, SpoiledTypes
    <3> QED
      BY <3>1, <3>2
  <2>2. ASSUME NEW p \in Planners, txn'[p] # Idle
        PROVE  /\ txn'[p].job = NoJob /\ txn'[p].conflict \in BOOLEAN
               /\ ~txn'[p].conflict => txn'[p].run \in Runs
    <3>1. txn'[p] = Spoiled(p, FALSE)
      BY <1>5, SyncActors
    <3>2. CASE txn'[p] = txn[p]
      BY <2>2, <3>2 DEF Inv, TxnTypeOK
    <3>3. CASE txn[p] # Idle /\ txn'[p] = [job |-> txn[p].job, conflict |-> TRUE]
      BY <3>3 DEF Inv, TxnTypeOK
    <3> QED
      BY <3>1, <3>2, <3>3, SpoiledTypes
  <2>3. DOMAIN txn' = Workers \cup Planners
    BY <1>1
  <2> QED
    BY <2>1, <2>2, <2>3 DEF TxnTypeOK
<1>7. ASSUME NEW u \in Workers \ {w} PROVE Kept(u)
  BY <1>5, SpoiledKept DEF Inv
<1>8. SnapshotCurrent'
  <2>1. ASSUME NEW u \in Workers, Owns(u)'
        PROVE  txn'[u].run = run'[Target(u)'] /\ txn'[u].cursor = cursor' /\ txn'[u].conf = conf'
    <3>1. CASE u = w
      BY <1>4, <3>1 DEF Target
    <3>2. CASE u # w
      BY <1>7, <2>1, <3>2, KeptCurrent
    <3> QED
      BY <3>1, <3>2
  <2> QED
    BY <2>1 DEF SnapshotCurrent
<1>9. Registered'
  <2>1. ASSUME NEW u \in Workers, Holds(u)', ~Owns(u)', NEW r \in Active(run)'
        PROVE  run'[r].job # txn'[u].job
    <3>1. CASE u = w
      <4>1. SUFFICES ASSUME run'[r].job = j PROVE FALSE
        BY <1>4, <3>1
      <4>2. jobs'[j].run = r
        BY <1>3, <4>1 DEF Rows, Chain
      <4> QED
        BY <1>4, <2>1, <3>1, <4>1, <4>2 DEF Owns, Current, Active
    <3>2. CASE u # w
      BY <1>3, <1>7, <2>1, <3>2, KeptRegistered
    <3> QED
      BY <3>1, <3>2
  <2> QED
    BY <2>1 DEF Registered
<1> QED
  BY <1>3, <1>6, <1>8, <1>9 DEF Inv, RunStep

\* A transaction begins or is given up; the tables stay as they are.
LEMMA TxnOnly ==
  ASSUME Inv, NEW t \in Workers \cup Planners, UNCHANGED <<run, cursor, conf, jobs, applied>>,
         disturbances' \in 0..MaxDisturbances,
         \/ txn' = [txn EXCEPT ![t] = Idle]
         \/ /\ t \in Planners
            /\ \E r \in Runs : txn' = [txn EXCEPT ![t] = [job |-> NoJob, run |-> r,
                                                          conflict |-> FALSE]]
  PROVE  Inv' /\ RunStep
<1>1. DOMAIN txn' = Workers \cup Planners /\ DOMAIN txn = Workers \cup Planners
  BY DEF Inv, TxnTypeOK
<1>2. \A u \in (Workers \cup Planners) \ {t} : txn'[u] = txn[u]
  BY <1>1
<1>3. \A u \in Workers : txn'[u] = txn[u] \/ txn'[u] = Idle
  BY <1>1, <1>2, SyncActors
<1>4. Rows' /\ Successors /\ StatesKept
  <2>1. Frame
    BY FrameFacts DEF Frame
  <2>2. jobs' = jobs
    OBVIOUS
  <2>3. \A i \in Jobs : /\ jobs'[i].run = jobs[i].run /\ jobs'[i].seq = jobs[i].seq
                        /\ jobs'[i].state # "done" \/ jobs[i].state = "done"
    BY <2>2
  <2> QED
    BY <2>1, <2>3, JobsMove
<1>5. \A u \in Workers : Kept(u)
  BY <1>3, UnchangedKept
<1>6. TxnTypeOK'
  <2>1. CASE txn' = [txn EXCEPT ![t] = Idle]
    <3>1. \A u \in Workers \cup Planners : txn'[u] \in {txn[u], Idle}
      BY <1>1, <1>2, <2>1
    <3> QED
      BY <1>1, <3>1, TxnTypes DEF Inv
  <2>2. ASSUME t \in Planners, NEW r \in Runs,
               txn' = [txn EXCEPT ![t] = [job |-> NoJob, run |-> r, conflict |-> FALSE]]
        PROVE  TxnTypeOK'
    <3>1. txn'[t].job = NoJob /\ txn'[t].conflict = FALSE /\ txn'[t].run = r
      BY <1>1, <2>2
    <3>2. \A w \in Workers : txn'[w] = txn[w]
      BY <1>2, <2>2, SyncActors
    <3> QED
      BY <1>1, <1>2, <2>2, <3>1, <3>2 DEF Inv, TxnTypeOK
  <2> QED
    BY <2>1, <2>2
<1>7. SnapshotCurrent'
  BY <1>5, KeptCurrent DEF SnapshotCurrent
<1>8. Registered'
  BY <1>4, <1>5, KeptRegistered DEF Registered
<1> QED
  BY <1>4, <1>6, <1>7, <1>8 DEF Inv, RunStep

LEMMA PlanningStep ==
  ASSUME Inv, NEW p \in Planners, Planning(p)
  PROVE  Inv' /\ RunStep
<1>1. CASE \E r \in Runs : BeginPlan(p, r)
  <2>1. PICK r \in Runs : BeginPlan(p, r)
    BY <1>1
  <2> QED
    BY <2>1, TxnOnly, FrameFacts DEF BeginPlan
<1>2. CASE Plan(p)
  <2>1. Rows' /\ Successors /\ \E r \in Runs : PlannedRun(r)
    BY <1>2, PlanStep
  <2>2. Close(p, FALSE)
    BY <1>2 DEF Plan, Begin
  <2> QED
    BY <2>1, <2>2, ClosedTxn DEF Inv, RunStep
<1>3. CASE RejectPlan(p)
  BY <1>3, TxnOnly, FrameFacts DEF RejectPlan
<1> QED
  BY <1>1, <1>2, <1>3 DEF Planning

LEMMA ApplyPagesStep ==
  ASSUME Inv, NEW w \in Workers, NEW touched, ApplyPages(w, touched)
  PROVE  Inv' /\ RunStep
<1>1. Rows' /\ Successors /\ PagedRun(Target(w))
  BY ApplyStep
<1>2. Close(w, touched)
  BY DEF ApplyPages, Advance
<1> QED
  BY <1>1, <1>2, ClosedTxn DEF Inv, RunStep, PagedRun, Active

LEMMA EndRunStep ==
  ASSUME Inv, NEW r \in Runs, CancelRun(r) \/ Watchdog(r)
  PROVE  Inv' /\ RunStep
<1>1. /\ r \in Active(run) /\ UNCHANGED <<cursor, conf, jobs, applied>> /\ KeepOpen(FALSE)
      /\ \E state \in {"cancelled", "failed"} : run' = [run EXCEPT ![r].state = state]
      /\ disturbances' \in 0..MaxDisturbances
  BY FrameFacts DEF CancelRun, Watchdog, EndRun, Active
<1>2. Frame
  BY <1>1, FrameFacts DEF Frame
<1>3. Rows' /\ Successors /\ EndedRun(r)
  BY <1>1, <1>2, RunEnds DEF TerminalStates
<1> QED
  BY <1>1, <1>3, ClosedTxn DEF Inv, RunStep

LEMMA ReconfigureStep ==
  ASSUME Inv, Reconfigure \/ TouchConnection
  PROVE  Inv' /\ RunStep
<1>1. /\ UNCHANGED <<run, cursor, jobs, applied>>
      /\ KeepOpen(FALSE) \/ KeepOpen(TRUE)
      /\ conf' \in [rev : Nat, ready : BOOLEAN] /\ disturbances' \in 0..MaxDisturbances
  <2>1. conf.rev + 1 \in Nat
    BY FrameFacts
  <2> QED
    BY <2>1, FrameFacts DEF Reconfigure, TouchConnection
<1>2. Frame
  BY <1>1, FrameFacts DEF Frame
<1>3. jobs' = jobs
  BY <1>1
<1>4. \A i \in Jobs : /\ jobs'[i].run = jobs[i].run /\ jobs'[i].seq = jobs[i].seq
                      /\ jobs'[i].state # "done" \/ jobs[i].state = "done"
  BY <1>3
<1>5. Rows' /\ Successors /\ StatesKept
  BY <1>1, <1>2, <1>4, JobsMove
<1>6. TxnTypeOK' /\ SnapshotCurrent' /\ Registered'
  BY <1>1, <1>5, ClosedTxn
<1> QED
  BY <1>5, <1>6 DEF Inv, RunStep

LEMMA ChangeJobStep ==
  ASSUME Inv, NEW j \in Jobs, RunnerReset(j) \/ Duplicate(j) \/ LoseJob(j)
  PROVE  Inv' /\ RunStep
<1>1. /\ \E state \in {"pending", "gone"} : jobs' = [jobs EXCEPT ![j].state = state]
      /\ UNCHANGED <<run, cursor, conf, applied>> /\ KeepOpen(FALSE)
      /\ disturbances' \in 0..MaxDisturbances
  BY FrameFacts DEF RunnerReset, Duplicate, LoseJob, ChangeJob
<1>2. Rows' /\ Successors /\ StatesKept
  BY <1>1, StateMoved, JobMovedRows
<1> QED
  BY <1>1, <1>2, ClosedTxn DEF Inv, RunStep

LEMMA OthersStep ==
  ASSUME Inv, Others
  PROVE  Inv' /\ RunStep
<1>1. CASE \E w \in Workers : Crash(w)
  <2>1. PICK w \in Workers : Crash(w)
    BY <1>1
  <2> QED
    BY <2>1, TxnOnly, FrameFacts DEF Crash
<1> QED
  BY <1>1, EndRunStep, ReconfigureStep, ChangeJobStep DEF Others

LEMMA UnchangedStep ==
  ASSUME Inv, UNCHANGED syncVars
  PROVE  Inv' /\ RunStep
<1>1. Rows'
  BY DEF syncVars, Inv, Rows, SyncTypeOK, OneActive, Progress, CompleteSweep, Chain, Active
<1>2. TxnTypeOK' /\ SnapshotCurrent' /\ Registered'
  BY DEF syncVars, Inv, TxnTypeOK, SnapshotCurrent, Registered, Owns, Holds, Current, Target,
         Active
<1> QED
  BY <1>1, <1>2 DEF Inv, RunStep, StatesKept, syncVars

-----------------------------------------------------------------------------
(* What every such step keeps.                                             *)

\* A page is applied under the revisions of its plan.
LEMMA PagesUnderPlan ==
  ASSUME RunStep
  PROVE  \A r \in Runs : applied'[r] # applied[r] => conf.ready /\ conf.rev = run[r].rev
<1> SUFFICES ASSUME NEW r \in Runs, applied'[r] # applied[r]
             PROVE  conf.ready /\ conf.rev = run[r].rev
  OBVIOUS
<1>1. PICK s \in Runs : PagedRun(s)
  BY DEF RunStep, StatesKept, PlannedRun, EndedRun
<1>2. r = s
  BY <1>1 DEF PagedRun
<1> QED
  BY <1>1, <1>2 DEF PagedRun

\* And the run does one step of what is promised, or none.
Phase(runs) ==
  [r \in Runs |-> CASE runs[r].state = "unborn" -> "unborn"
                    [] runs[r].state \in ActiveStates -> "active"
                    [] OTHER -> "over"]

LEMMA StepImplements ==
  ASSUME Inv, RunStep
  PROVE  [Promise!Next]_(Promise!vars)
<1> DEFINE phase == Phase(run)
           phaseNext == Phase(run')
<1>1. \A s \in Runs : run'[s].state = run[s].state => phaseNext[s] = phase[s]
  BY DEF Phase
<1>2. CASE StatesKept
  <2>1. phaseNext = phase /\ applied' = applied
    BY <1>2 DEF StatesKept, Phase
  <2> QED
    BY <2>1 DEF Promise!vars, Phase
<1>3. ASSUME NEW r \in Runs, PlannedRun(r) PROVE Promise!Begin(r)
  <2>1. \A s \in Runs : phase[s] # "active"
    BY <1>3 DEF PlannedRun, Active, Phase
  <2>2. phase[r] = "unborn" /\ phaseNext[r] = "active"
    BY <1>3 DEF PlannedRun, Phase, ActiveStates
  <2>3. phaseNext = [phase EXCEPT ![r] = "active"]
    BY <1>1, <1>3, <2>2 DEF PlannedRun, OthersKept, Phase
  <2> QED
    BY <1>3, <2>1, <2>2, <2>3 DEF Promise!Begin, Phase, PlannedRun
<1>4. ASSUME NEW r \in Runs, EndedRun(r) PROVE Promise!End(r)
  <2>1. phase[r] = "active" /\ phaseNext[r] = "over"
    BY <1>4 DEF EndedRun, Phase, ActiveStates, TerminalStates, Active
  <2>2. phaseNext = [phase EXCEPT ![r] = "over"]
    BY <1>1, <1>4, <2>1 DEF EndedRun, OthersKept, Phase
  <2> QED
    BY <1>4, <2>1, <2>2 DEF Promise!End, Phase, EndedRun
<1>5. ASSUME NEW r \in Runs, PagedRun(r) PROVE Promise!Read(r)
  <2>1. PICK n \in 1..Batch :
          /\ applied[r] + n <= LastPage
          /\ applied' = [applied EXCEPT ![r] = @ + n]
          /\ run'[r].state \in IF applied[r] + n = LastPage THEN TerminalStates ELSE ActiveStates
    BY <1>5 DEF PagedRun
  <2>2. phase[r] = "active"
    BY <1>5 DEF PagedRun, Phase, ActiveStates, Active
  <2>3. phaseNext = IF applied[r] + n = LastPage THEN [phase EXCEPT ![r] = "over"] ELSE phase
    <3>1. CASE applied[r] + n = LastPage
      <4>1. phaseNext[r] = "over"
        BY <2>1, <3>1 DEF Phase, TerminalStates, ActiveStates
      <4> QED
        BY <1>1, <1>5, <3>1, <4>1 DEF PagedRun, OthersKept, Phase
    <3>2. CASE applied[r] + n # LastPage
      <4>1. phaseNext[r] = "active"
        BY <2>1, <3>2 DEF Phase, ActiveStates
      <4> QED
        BY <1>1, <1>5, <2>2, <3>2, <4>1 DEF PagedRun, OthersKept, Phase
    <3> QED
      BY <3>1, <3>2
  <2> QED
    BY <2>1, <2>2, <2>3 DEF Promise!Read, Phase
<1> QED
  BY <1>2, <1>3, <1>4, <1>5 DEF RunStep, Promise!Next

LEMMA InitImplements == Init => Promise!Init
<1> SUFFICES ASSUME Init PROVE Promise!Init
  OBVIOUS
<1>1. \A r \in Runs : run[r].state = "unborn"
  BY DEF Init
<1>2. applied = [r \in Runs |-> 0]
  BY DEF Init
<1>3. Phase(run) = [r \in Runs |-> "unborn"]
  <2>1. \A r \in Runs : Phase(run)[r] = "unborn"
    BY <1>1 DEF Phase, ActiveStates
  <2>2. Phase(run) = [r \in Runs |-> Phase(run)[r]]
    BY DEF Phase
  <2> QED
    BY <2>1, <2>2
<1> QED
  BY <1>2, <1>3 DEF Promise!Init, Phase
\* A run that fails keeps a partial result or none.
LEMMA FailStep ==
  ASSUME Inv, NEW w \in Workers, NEW keep, NEW touched, Owns(w), Fail(w, keep, touched)
  PROVE  Inv' /\ RunStep
<1> USE FrameFacts DEF TerminalStates
<1>1. /\ EndTarget(w, IF keep /\ Current(w).pages > 0 THEN "partial" ELSE "failed")
      /\ UNCHANGED conf /\ Close(w, touched)
  BY DEF Fail
<1>2. CASE keep /\ Current(w).pages > 0
  BY <1>1, <1>2, EndTargetStep
<1>3. CASE ~(keep /\ Current(w).pages > 0)
  BY <1>1, <1>3, EndTargetStep
<1> QED
  BY <1>2, <1>3

-----------------------------------------------------------------------------
(* Google.  What it adds to the steps above is the deferral, which hands   *)
(* the run to a delayed successor, and the pause of the connection.        *)

\* A deferral changes the run's job and nothing else of it.
LEMMA DelayAgainStep ==
  ASSUME Inv, NEW w \in Workers, Owns(w), DelayAgain(w)
  PROVE  Inv' /\ RunStep
<1> DEFINE r == Target(w)
<1>1. /\ Delay(r, Expected(w), Deferrals(w) + 1, run[r], txn[w].job) /\ Close(w, TRUE)
      /\ UNCHANGED <<cursor, conf, disturbances, applied>>
  BY DEF DelayAgain
<1>2. /\ r \in Active(run) /\ \A s \in Active(run) : s = r
      /\ run[r].job = txn[w].job /\ txn[w].job \in Jobs
  BY OwnerFacts
<1>3. jobs \in [Jobs -> JobRecord] /\ run \in [Runs -> RunRecord] /\ r \in Runs
  BY <1>2, FrameFacts DEF Active
<1>4. /\ Expected(w) = cursor.seq /\ Expected(w) \in Nat /\ Deferrals(w) + 1 \in Nat
      /\ run[r] \in RunRecord
  BY <1>2, <1>3 DEF Expected, Deferrals, JobRecord, Inv, Rows, Chain
<1>5. /\ jobs' \in [Jobs -> JobRecord] /\ run' \in [Runs -> RunRecord]
      /\ run'[r].job \in FreeJobs /\ run'[r].state = run[r].state
      /\ run'[r].pages = run[r].pages
      /\ jobs'[run'[r].job].run = r /\ jobs'[run'[r].job].seq = cursor.seq
      /\ jobs'[run'[r].job].state = "pending"
      /\ \A s \in Runs \ {r} : run'[s] = run[s]
  BY <1>1, <1>3, <1>4, DelayFacts
<1>6. Frame /\ SyncTypeOK'
  BY <1>1, <1>5, FrameFacts DEF Frame, SyncTypeOK, Inv, Rows
<1>7. run[r].state \in ActiveStates /\ run[r].pages = applied[r] /\ applied[r] = cursor.pos
  BY <1>2, <1>3 DEF Inv, Rows, Progress, CompleteSweep, Active
<1>8. Rows' /\ Successors
  BY <1>1, <1>2, <1>3, <1>5, <1>6, <1>7, RunGoesOn
<1>9. StatesKept
  BY <1>1, <1>5 DEF StatesKept
<1> QED
  BY <1>1, <1>8, <1>9, ClosedTxn DEF Inv, RunStep

LEMMA GoogleFinishStep ==
  ASSUME Inv, NEW w \in Workers, GoogleFinish(w)
  PROVE  Inv' /\ RunStep
<1> USE FrameFacts DEF TerminalStates
<1>1. CASE Obsolete(w)
  BY <1>1, ObsoleteStep
<1>2. CASE MarkStale(w)
  BY <1>2, EndTargetStep DEF MarkStale
<1>3. CASE Conflict(w)
  BY <1>3, PostponeStep DEF Conflict
<1>4. CASE GoogleApply(w)
  BY <1>4, ApplyPagesStep DEF GoogleApply
<1>5. CASE Backoff(w)
  BY <1>5, PostponeStep DEF Backoff, Prepared, Owns, Holds
<1>7. CASE GoogleFails(w)
  BY <1>7, FailStep DEF GoogleFails, Prepared
<1>8. CASE GoogleLimitExceeded(w)
  BY <1>8, FailStep DEF GoogleLimitExceeded, Exceeds
<1>9. CASE GooglePaused(w)
  <2>1. conf' \in [rev : Nat, ready : BOOLEAN]
    BY <1>9 DEF GooglePaused
  <2> QED
    BY <1>9, <2>1, EndTargetStep DEF GooglePaused, Prepared
<1>10. CASE Defer(w)
  BY <1>10, DelayAgainStep DEF Defer, Prepared
<1>11. CASE DeferralsExhausted(w)
  BY <1>11, FailStep DEF DeferralsExhausted, Prepared
<1> QED
  BY <1>1, <1>2, <1>3, <1>4, <1>5, <1>7, <1>8, <1>9, <1>10, <1>11 DEF GoogleFinish

LEMMA GoogleStepFacts == Inv /\ [GoogleNext]_syncVars => Inv' /\ RunStep
<1> SUFFICES ASSUME Inv, [GoogleNext]_syncVars PROVE Inv' /\ RunStep
  OBVIOUS
<1>1. CASE GoogleNext
  BY <1>1, PlanningStep, GoogleFinishStep, StartStep, OthersStep DEF GoogleNext
<1>2. CASE UNCHANGED syncVars
  BY <1>2, UnchangedStep
<1> QED
  BY <1>1, <1>2

LEMMA GoogleInvariance == GoogleSpec => []Inv
BY InitInv, GoogleStepFacts, PTL DEF GoogleSpec

\* Run, cursor, configuration and jobs hold what the tables can hold.
THEOREM GoogleTypes == GoogleSpec => []SyncTypeOK
BY GoogleInvariance, InvImplies, PTL

\* A run that succeeded has applied every page once and in order, whatever jobs
\* crash, are retried, duplicated or lost (_update_run_page).
THEOREM GoogleCompleteSweep == GoogleSpec => []CompleteSweep
BY GoogleInvariance, InvImplies, PTL

\* The run, its registered job and the cursor agree on the next page: no page
\* job is ever found outdated (_reschedule_current_cursor).
THEOREM GoogleChain == GoogleSpec => []ChainHolds
BY GoogleInvariance, InvImplies, PTL

\* A page is applied only under the revisions its run was planned with
\* (_validate_fencing).
THEOREM GoogleAppliedUnderPlan == GoogleSpec => AppliedUnderPlan
<1>1. Inv /\ [GoogleNext]_syncVars =>
        [\A r \in Runs : applied'[r] # applied[r] =>
           conf.ready /\ conf.rev = run[r].rev]_syncVars
  BY GoogleStepFacts, PagesUnderPlan
<1> QED
  BY <1>1, GoogleInvariance, PTL DEF GoogleSpec, AppliedUnderPlan

\* The jobs of the scope implement the sweep that is promised: one run at a
\* time, pages forward only, nothing after the end.
THEOREM GoogleImplementsSweep == GoogleSpec => ImplementsSweep
<1>1. Init => Promise!Init
  BY InitImplements
<1>2. Inv /\ [GoogleNext]_syncVars => [Promise!Next]_(Promise!vars)
  BY GoogleStepFacts, StepImplements
<1> QED
  BY <1>1, <1>2, GoogleInvariance, PTL DEF GoogleSpec, ImplementsSweep, Promise!Spec

-----------------------------------------------------------------------------
(* Meta: every step is one of those above.                                 *)

LEMMA MetaFinishStep ==
  ASSUME Inv, NEW w \in Workers, MetaFinish(w)
  PROVE  Inv' /\ RunStep
<1> USE FrameFacts DEF TerminalStates
<1>1. CASE Obsolete(w)
  BY <1>1, ObsoleteStep
<1>2. CASE MarkStale(w)
  BY <1>2, EndTargetStep DEF MarkStale
<1>3. CASE Conflict(w)
  BY <1>3, PostponeStep DEF Conflict
<1>4. CASE MetaApply(w)
  BY <1>4, ApplyPagesStep DEF MetaApply
<1>5. CASE Backoff(w)
  BY <1>5, PostponeStep DEF Backoff, Prepared, Owns, Holds
<1>7. CASE MetaFails(w)
  BY <1>7, FailStep DEF MetaFails, Prepared
<1>8. CASE MetaLimitExceeded(w)
  BY <1>8, FailStep DEF MetaLimitExceeded, Exceeds
<1>9. CASE MetaPaused(w)
  <2>1. conf' \in [rev : Nat, ready : BOOLEAN]
    BY <1>9 DEF MetaPaused
  <2> QED
    BY <1>9, <2>1, EndTargetStep DEF MetaPaused, Prepared
<1> QED
  BY <1>1, <1>2, <1>3, <1>4, <1>5, <1>7, <1>8, <1>9 DEF MetaFinish

LEMMA MetaStepFacts == Inv /\ [MetaNext]_syncVars => Inv' /\ RunStep
<1> SUFFICES ASSUME Inv, [MetaNext]_syncVars PROVE Inv' /\ RunStep
  OBVIOUS
<1>1. CASE MetaNext
  BY <1>1, PlanningStep, MetaFinishStep, StartStep, OthersStep DEF MetaNext
<1>2. CASE UNCHANGED syncVars
  BY <1>2, UnchangedStep
<1> QED
  BY <1>1, <1>2

LEMMA MetaInvariance == MetaSpec => []Inv
BY InitInv, MetaStepFacts, PTL DEF MetaSpec

\* Run, cursor, configuration and jobs hold what the tables can hold.
THEOREM MetaTypes == MetaSpec => []SyncTypeOK
BY MetaInvariance, InvImplies, PTL

\* A run that succeeded has applied every page once and in order, whatever jobs
\* crash, are retried, duplicated or lost (_update_run_page).
THEOREM MetaCompleteSweep == MetaSpec => []CompleteSweep
BY MetaInvariance, InvImplies, PTL

\* The run, its registered job and the cursor agree on the next page: no page
\* job is ever found outdated (_reschedule_current_cursor).
THEOREM MetaChain == MetaSpec => []ChainHolds
BY MetaInvariance, InvImplies, PTL

\* A page is applied only under the revisions its run was planned with
\* (_validate_fencing).
THEOREM MetaAppliedUnderPlan == MetaSpec => AppliedUnderPlan
<1>1. Inv /\ [MetaNext]_syncVars =>
        [\A r \in Runs : applied'[r] # applied[r] =>
           conf.ready /\ conf.rev = run[r].rev]_syncVars
  BY MetaStepFacts, PagesUnderPlan
<1> QED
  BY <1>1, MetaInvariance, PTL DEF MetaSpec, AppliedUnderPlan

\* The jobs of the scope implement the sweep that is promised: one run at a
\* time, pages forward only, nothing after the end.
THEOREM MetaImplementsSweep == MetaSpec => ImplementsSweep
<1>1. Init => Promise!Init
  BY InitImplements
<1>2. Inv /\ [MetaNext]_syncVars => [Promise!Next]_(Promise!vars)
  BY MetaStepFacts, StepImplements
<1> QED
  BY <1>1, <1>2, MetaInvariance, PTL DEF MetaSpec, ImplementsSweep, Promise!Spec
=============================================================================
