-------------------------- MODULE ResponseTimeline --------------------------
(***************************************************************************)
(* marketing_center_contact_center, one conversation: how its messages     *)
(* become signals and its signals response episodes.                       *)
(*                                                                         *)
(* The transaction of a live message writes the message and its signal; a  *)
(* message of an agent gets its signal when its delivery is confirmed.     *)
(* Jobs, one per signal, first give the history its signals (state         *)
(* "materializing"), then read the timeline of signals in pages behind a   *)
(* frontier that only moves forward; the cursor row, which the first job   *)
(* creates, holds the frontier.  All of it only while the company captures *)
(* business events: with capture off, messages come without signals and    *)
(* jobs end without reading.                                               *)
(*                                                                         *)
(* Every transaction reads one snapshot (REPEATABLE READ), taken before it *)
(* can try the advisory lock of the conversation.  The lock is never       *)
(* waited for, so what happens under it is one step, the one that commits; *)
(* a transaction that finds it taken is rolled back and starts again.      *)
(***************************************************************************)
EXTENDS Integers, Sequences, FiniteSets, FiniteSetsExt, Folds

CONSTANTS MaxMessages,   \* bound on the ids of messages
          Horizon,       \* bound on the clock, in the seconds the code compares
          PageSize,      \* _RESPONSE_PAGE_SIZE
          MaxHistory,    \* bound on the messages that precede the addon
          MaxTurns,      \* bound on the changes of the capture policy
          Kinds,         \* the kinds of messages that come: "inbound", "device", "agent"
          Transactions,  \* requests and queue workers that run at a time
          Idle

TimelineConstants ==
  /\ MaxMessages \in Nat /\ Horizon \in Nat /\ MaxHistory \in 0..MaxMessages /\ MaxTurns \in Nat
  /\ PageSize \in Nat \ {0} /\ Kinds \subseteq {"inbound", "device", "agent"}

VARIABLES now, messages, signals, cursor, episodes, txn,
          turns,         \* the turns of the capture policy: on after an odd number
          jobs,          \* how many jobs are left: each reconciles the conversation
          lapsed,        \* history: a job ended unread and none was queued since
          missed,        \* history: messages confirmed with capture off
          consumed,      \* history: messages whose signal was processed
          raced          \* history: unconsumed signals that overlapped a reconciliation

timelineVars ==
  <<now, messages, signals, cursor, episodes, turns, jobs, lapsed, missed, txn,
    consumed, raced>>

Capturing == turns % 2 = 1         \* marketing_business_events_enabled
\* Nothing but an open transaction changes.
RowsRest == UNCHANGED <<now, messages, signals, cursor, episodes, turns, jobs, lapsed, missed,
                        consumed, raced>>

Ids == 1..MaxMessages
Start == <<0, 0>>                  \* before every signal

\* A message from the agent's own device counts as a response at once, one of
\* an agent in Odoo when it is delivered.
Confirmed(m) == m.kind # "agent" \/ m.delivered
\* occurred_at and the time of the row are both at, the start of the
\* transaction that brings the message, or its confirmation.
Message(id, kind, at) ==
  [id |-> id, kind |-> kind, at |-> at, delivered |-> FALSE]

Order(s) == <<s.observed, s.msg.id>>
Before(a, b) == a[1] < b[1] \/ (a[1] = b[1] /\ a[2] < b[2])
Signal(m, observed) == [msg |-> m, observed |-> observed]

Init ==
  /\ now = 0
  /\ \E n \in 0..MaxHistory : \E kind \in [1..n -> Kinds] :
       messages = {Message(id, kind[id], 0) : id \in 1..n}
  /\ signals = {} /\ episodes = <<>>
  /\ cursor = [state |-> "absent", cutoff |-> 0, after |-> 0,
               last |-> Start, pending |-> 0]
  \* The hook of the installation queues the backfill of who captures.
  /\ turns \in {0, 1} /\ lapsed = ~Capturing /\ missed = {}
  /\ jobs = IF Capturing THEN 1 ELSE 0
  /\ txn = [t \in Transactions |-> Idle]
  /\ consumed = {} /\ raced = {}

-----------------------------------------------------------------------------
(* Live messages and deliveries.                                           *)

Known == Max({m.id : m \in messages} \cup {0})

\* What a live transaction reads of the cursor when it records its signal.
Floor == IF cursor.state \in {"processing", "done"} THEN cursor.last ELSE Start

Receive(t, kind) ==
  /\ txn[t] = Idle
  /\ txn' = [txn EXCEPT ![t] = [op |-> "live", known |-> Known, on |-> Capturing, raced |-> FALSE,
                                msg |-> Message(0, kind, IF kind = "agent" THEN 0 ELSE now),
                                floor |-> IF kind = "agent" \/ ~Capturing THEN Start ELSE Floor]]
  /\ RowsRest

\* A confirmed delivery of an agent's message: the first one, or a later one
\* of a message that has no signal.
ReceiveDelivery(t, m) ==
  /\ txn[t] = Idle /\ m.kind = "agent"
  /\ m.delivered => Capturing /\ \A s \in signals : s.msg.id # m.id
  /\ \A u \in Transactions : txn[u] # Idle /\ txn[u].op = "live" => txn[u].msg.id # m.id
  /\ txn' = [txn EXCEPT ![t] = [op |-> "live",
                                msg |-> IF m.delivered THEN m
                                        ELSE [m EXCEPT !.at = now, !.delivered = TRUE],
                                known |-> 0, on |-> Capturing, raced |-> FALSE,
                                floor |-> IF Capturing THEN Floor ELSE Start]]
  /\ RowsRest

\* Mutated form: the observation is never moved.
Unclamped(m, floor) == m.at
\* _create_signal_rows: never at or behind the frontier of the snapshot.
Clamped(m, floor) ==
  IF floor # Start /\ ~Before(floor, <<m.at, m.id>>) THEN floor[1] + 1 ELSE m.at

Reconciling(u) == txn[u] # Idle /\ txn[u].op = "reconcile"

\* The transaction ends: an id of the sequence, the message, its signal and job.
\* A message has one signal: a transaction that did not see it is rolled back.
Record(t) ==
  /\ txn[t] # Idle /\ txn[t].op = "live"
  /\ \E id \in IF txn[t].msg.id # 0 THEN {txn[t].msg.id}
               ELSE {i \in Ids : /\ \A m \in messages : m.id # i
                                 /\ i > txn[t].known} :
       LET m == [txn[t].msg EXCEPT !.id = id]
           news == IF txn[t].on /\ Confirmed(m) THEN {Signal(m, Clamped(m, txn[t].floor))} ELSE {}
       IN  /\ \A s \in signals : news # {} => s.msg.id # id
           /\ messages' = {o \in messages : o.id # id} \cup {m}
           /\ signals' = signals \cup news
           /\ jobs' = jobs + Cardinality(news) /\ lapsed' = (lapsed /\ news = {})
           /\ missed' = IF Confirmed(m) /\ ~txn[t].on THEN missed \cup {id} ELSE missed
           /\ raced' = IF txn[t].raced \/ \E u \in Transactions : Reconciling(u)
                         THEN raced \cup {o.msg.id : o \in news} ELSE raced
  /\ txn' = [txn EXCEPT ![t] = Idle]
  /\ UNCHANGED <<now, cursor, episodes, turns, consumed>>

-----------------------------------------------------------------------------
(* Reconciliation of the conversation, a page at a time.                   *)

Running == {u \in Transactions : Reconciling(u)}

\* Of its snapshot a job keeps what it will look at.
StartJob(t) ==
  /\ txn[t] = Idle /\ Capturing /\ jobs > Cardinality(Running)
  /\ txn' = [txn EXCEPT ![t] =
       [op |-> "reconcile", first |-> cursor.state = "absent",
        messages |-> IF cursor.state \in {"absent", "materializing"} THEN messages ELSE {},
        signals |-> {s \in signals : Before(cursor.last, Order(s))}]]
  /\ RowsRest

\* A job that finds capture off is done, and has read nothing.
SkipJob ==
  /\ ~Capturing /\ jobs > Cardinality(Running)
  /\ jobs' = jobs - 1 /\ lapsed' = TRUE
  /\ UNCHANGED <<now, messages, signals, cursor, episodes, turns, missed, txn, consumed, raced>>

\* The first ones of S, at most a page.
FirstPage(S, Less(_, _)) == {a \in S : Cardinality({b \in S : Less(b, a)}) < PageSize}
Full(page) == Cardinality(page) = PageSize

\* s is what the job has done so far: cursor, signals it sees, episodes.  The row
\* of the cursor is created and initialized in one transaction.
Initialize(s, visible) ==
  IF s.cursor.state # "absent" THEN s
  ELSE [s EXCEPT !.cursor.state = IF visible = {} THEN "done" ELSE "materializing",
                 !.cursor.cutoff = IF visible = {} THEN 0
                                   ELSE Max({m.id : m \in visible})]

\* _materialize_backfill_page: history keeps its own time.
Materialize(s, visible) ==
  IF s.cursor.state # "materializing" THEN [s EXCEPT !.more = FALSE]
  ELSE LET page == FirstPage({m \in visible : m.id > s.cursor.after /\ m.id <= s.cursor.cutoff},
                             LAMBDA a, b : a.id < b.id)
           new == {m \in page : Confirmed(m) /\ \A o \in s.signals : o.msg.id # m.id}
       IN  [s EXCEPT !.signals = @ \cup {Signal(m, m.at) : m \in new},
                     !.cursor.after = IF page = {} THEN @ ELSE Max({m.id : m \in page}),
                     !.cursor.state = IF Full(page) THEN @ ELSE "processing",
                     !.more = Full(page)]

\* Mutated form: the answered episode stays pending.
ObserveTwice(e, s) ==
  LET n == Len(e.list)
  IN  CASE s.msg.kind = "inbound" /\ e.pending = 0 ->
             [list |-> Append(e.list, [start |-> s.msg.id, at |-> s.msg.at, response |-> 0]),
              pending |-> s.msg.id]
        [] s.msg.kind # "inbound" /\ e.pending # 0 /\ s.msg.id > e.pending ->
             [e EXCEPT !.list[n].response = s.msg.id]
        [] OTHER -> e
\* One signal of the timeline: e is the list of episodes and the pending one.
Observe(e, s) ==
  LET n == Len(e.list)
  IN  CASE s.msg.kind = "inbound" /\ e.pending = 0 ->
             [list |-> Append(e.list, [start |-> s.msg.id, at |-> s.msg.at, response |-> 0]),
              pending |-> s.msg.id]
        [] s.msg.kind # "inbound" /\ e.pending # 0 /\ s.msg.id > e.pending
           /\ s.msg.at >= e.list[n].at ->
             [list |-> [e.list EXCEPT ![n].response = s.msg.id], pending |-> 0]
        [] OTHER -> e

Earlier(a, b) == Before(Order(a), Order(b))
Latest(S) == CHOOSE s \in S : \A o \in S \ {s} : Earlier(o, s)
\* The signals of S, one after the other.
Pass(e, S) == MapThenFoldSet(LAMBDA s, f : Observe(f, s), e, LAMBDA s : s, Latest, S)
Unread == [list |-> <<>>, pending |-> 0]

\* Mutated form: a page starts without the pending episode of the one before.
ProcessForgetful(s) ==
  LET page == FirstPage({o \in s.signals : Before(s.cursor.last, Order(o))}, Earlier)
      e == Pass([list |-> s.episodes, pending |-> 0], page)
  IN  [s EXCEPT !.episodes = e.list, !.cursor.pending = e.pending,
                !.cursor.last = IF page = {} THEN @ ELSE Order(Latest(page)),
                !.cursor.state = IF Full(page) THEN @ ELSE "done",
                !.page = page, !.more = Full(page)]
\* _process_timeline_page
Process(s) ==
  LET page == FirstPage({o \in s.signals : Before(s.cursor.last, Order(o))}, Earlier)
      e == Pass([list |-> s.episodes, pending |-> s.cursor.pending], page)
  IN  [s EXCEPT !.episodes = e.list, !.cursor.pending = e.pending,
                !.cursor.last = IF page = {} THEN @ ELSE Order(Latest(page)),
                !.cursor.state = IF Full(page) THEN @ ELSE "done",
                !.page = page, !.more = Full(page)]

\* Mutated form: a full page of history does not keep the timeline waiting.
ReconciledAtOnce(t) ==
  Process(Materialize(Initialize([cursor |-> cursor, signals |-> txn[t].signals,
                                  episodes |-> episodes, page |-> {}, more |-> FALSE],
                                 txn[t].messages), txn[t].messages))
\* _reconcile_channel
Reconciled(t) ==
  LET s == [cursor |-> cursor, signals |-> txn[t].signals, episodes |-> episodes,
            page |-> {}, more |-> FALSE]
      history == Materialize(Initialize(s, txn[t].messages), txn[t].messages)
  IN  IF history.more THEN history ELSE Process(history)

\* Mutated form: the next page is left to the next signal.
NoContinuation(s) == 0
\* _enqueue_marketing_response_episode_continuation: its key names the page it
\* continues from, so it is never taken for the job that asks for it.
Continuation(s) == IF s.more THEN 1 ELSE 0

\* Its snapshot has no cursor, and there is one by now: its row will be refused.
Refused == [op |-> "reconcile", first |-> TRUE, messages |-> {}, signals |-> {}]
Doomed(t) == Reconciling(t) /\ txn[t].first /\ cursor.state # "absent"
\* A message it gives a signal has one by now: its row will be refused.
Twice(t) ==
  \E o \in Reconciled(t).signals \ txn[t].signals, s \in signals : o.msg.id = s.msg.id

\* The cursor row is always written: of the other reconciliations under way,
\* those that have read it start again, and those that have not will fail.
Reconcile(t) ==
  /\ Reconciling(t) /\ ~Doomed(t) /\ ~Twice(t)
  /\ LET s == Reconciled(t)
     IN  /\ cursor' = s.cursor /\ episodes' = s.episodes
         /\ signals' = signals \cup s.signals
         /\ consumed' = consumed \cup {o.msg.id : o \in s.page}
         /\ raced' = raced \ consumed'
         /\ jobs' = jobs - 1 + Continuation(s) /\ lapsed' = (lapsed /\ Continuation(s) = 0)
  /\ txn' = [u \in Transactions |->
               CASE Reconciling(u) -> IF u # t /\ txn[u].first THEN Refused ELSE Idle
                 [] txn[u] # Idle /\ txn[u].op = "live" -> [txn[u] EXCEPT !.raced = TRUE]
                 [] OTHER -> txn[u]]
  /\ UNCHANGED <<now, messages, turns, missed>>

\* A row it creates is refused, or its retries (MAX_BRIDGE_RETRIES) are used up:
\* the job has failed for good.
FailJob(t) ==
  /\ Reconciling(t)
  /\ txn' = [txn EXCEPT ![t] = Idle] /\ jobs' = jobs - 1 /\ lapsed' = TRUE
  /\ UNCHANGED <<now, messages, signals, cursor, episodes, turns, missed, consumed, raced>>

\* An administrator queues the conversation again; a job that waits is left to
\* do it (its identity key).  Bound: only what a job left unread.
Backfill ==
  /\ lapsed /\ Capturing /\ jobs = Cardinality(Running)
  /\ jobs' = jobs + 1 /\ lapsed' = FALSE
  /\ UNCHANGED <<now, messages, signals, cursor, episodes, turns, missed, txn, consumed, raced>>

\* The company turns its capture off, or on: history is not touched, and no
\* job is queued.
SwitchCapture ==
  /\ turns < MaxTurns /\ turns' = turns + 1
  /\ UNCHANGED <<now, messages, signals, cursor, episodes, jobs, lapsed, missed, txn,
                 consumed, raced>>

-----------------------------------------------------------------------------
\* The advisory lock is taken, the worker crashes, the request fails: the job
\* stays, the provider may send a message again.
Abort(t) ==
  /\ txn[t] # Idle /\ txn' = [txn EXCEPT ![t] = Idle]
  /\ RowsRest

Tick ==
  /\ now < Horizon /\ now' = now + 1
  /\ UNCHANGED txn
  /\ UNCHANGED <<messages, signals, cursor, episodes, turns, jobs, lapsed, missed, consumed,
                 raced>>

Next ==
  \/ \E t \in Transactions :
       \/ \E kind \in Kinds : Receive(t, kind)
       \/ \E m \in messages : ReceiveDelivery(t, m)
       \/ Record(t)
       \/ StartJob(t) \/ Reconcile(t) \/ FailJob(t) \/ Abort(t)
  \/ SkipJob \/ Backfill \/ SwitchCapture \/ Tick

Spec == Init /\ [][Next]_timelineVars

-----------------------------------------------------------------------------
(* Properties.                                                             *)

\* One signal per message; the frontier and the pending episode fit the list.
TimelineTypeOK ==
  /\ now \in 0..Horizon
  /\ \A s, o \in signals : s.msg.id = o.msg.id => s = o
  /\ \A s \in signals : \E m \in messages : m.id = s.msg.id /\ Confirmed(m)
  /\ cursor.state \in {"absent", "materializing", "processing", "done"}
  /\ cursor.after <= cursor.cutoff /\ cursor.cutoff \in {0} \cup Ids
  /\ \A n \in 1..Len(episodes) : (episodes[n].response = 0) = (episodes[n].start = cursor.pending)
  /\ consumed \subseteq {s.msg.id : s \in signals}

Left(s) == ~Before(cursor.last, Order(s)) /\ s.msg.id \notin consumed

\* However pages, jobs and arrivals interleave, the episodes are those of one
\* pass over everything consumed, in the order it was observed
\* (_process_timeline_page).
EpisodesFollowTimeline ==
  Pass(Unread, {s \in signals : s.msg.id \in consumed})
    = [list |-> episodes, pending |-> cursor.pending]

\* No signal is consumed before the messages of the snapshot have theirs, and
\* the frontier passes over none of these (_reconcile_channel): all but those
\* that were confirmed while capture was off.
SnapshotBarrier ==
  cursor.last # Start =>
    \A m \in messages :
      m.id <= cursor.cutoff /\ Confirmed(m) /\ m.id \notin missed =>
        \E s \in signals : s.msg.id = m.id /\ (m.id \in raced \/ ~Left(s))

\* Only a transaction that overlapped a reconciliation can leave its signal
\* behind the frontier: a clamped one never does.
LeftOnlyByRace == \A s \in signals : Left(s) => s.msg.id \in raced

\* Whatever is still to be read has a job that will read it: history that is
\* not materialized yet and every signal beyond the frontier
\* (_job_sync_marketing_response_episodes).  Only a job that ended unread, with
\* capture off or in failure, leaves it behind, until another one is queued.
NeverStranded ==
  (cursor.state \in {"absent", "materializing"} \/ \E s \in signals : Before(cursor.last, Order(s)))
    => jobs > 0 \/ lapsed
=============================================================================
