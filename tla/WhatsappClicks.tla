--------------------------- MODULE WhatsappClicks ---------------------------
(* A click on a Website WhatsApp button becomes a handoff row with a short  *)
(* reference: requests of one session, page and action, repeated and        *)
(* concurrent, under two advisory locks that do not renew a transaction's   *)
(* REPEATABLE READ snapshot.                                                *)
EXTENDS Naturals

CONSTANTS Clickers,     \* transactions of the public controller
          ClickEvents,  \* event ids the browser drew
          Handoffs,     \* rows (each with its own drawn reference)
          MaxAliases,   \* events one row can hold (the 3900 characters)
          MaxClicks     \* requests in a behaviour

VARIABLES clicks,       \* Handoffs -> the row
          clickers, eventLock, sessionLock, requested,
          clickAnswers       \* <<event, handoff>> replied to the browser

clickVars == <<clicks, clickers, eventLock, sessionLock, requested, clickAnswers>>

NoRow == [event |-> "none", refs |-> {}, recent |-> FALSE, writes |-> 0]
Nobody == "nobody"
Idle == [at |-> "idle"]

Init ==
  /\ clicks = [h \in Handoffs |-> NoRow]
  /\ clickers = [c \in Clickers |-> Idle]
  /\ eventLock = [e \in ClickEvents |-> Nobody] /\ sessionLock = Nobody
  /\ requested = 0 /\ clickAnswers = {}

Step(c, t) == clickers' = [clickers EXCEPT ![c] = t]

\* The request: policy, origin and action are checked with the snapshot of
\* the first statement.
Click(c, e) ==
  /\ clickers[c] = Idle /\ requested < MaxClicks
  /\ Step(c, [at |-> "claim", event |-> e, seen |-> clicks])
  /\ requested' = requested + 1
  /\ UNCHANGED <<clicks, eventLock, sessionLock, clickAnswers>>

\* _existing_click: the event fence.
LockEvent(c) ==
  /\ clickers[c].at = "claim" /\ eventLock[clickers[c].event] = Nobody
  /\ eventLock' = [eventLock EXCEPT ![clickers[c].event] = c]
  /\ Step(c, [clickers[c] EXCEPT !.at = "event"])
  /\ UNCHANGED <<clicks, sessionLock, requested, clickAnswers>>

\* The row that already answers this event, by event_id or by an alias.
Existing(seen, e) == {h \in Handoffs : e \in seen[h].refs}

\* _record_click: the session fence, when the event is new to the snapshot.
LockSession(c) ==
  /\ clickers[c].at = "event" /\ sessionLock = Nobody
  /\ Existing(clickers[c].seen, clickers[c].event) = {}
  /\ sessionLock' = c
  /\ Step(c, [clickers[c] EXCEPT !.at = "session"])
  /\ UNCHANGED <<clicks, eventLock, requested, clickAnswers>>

\* The transaction ends: its locks go, with an answer or without.
Ends(c) ==
  /\ eventLock' = [e \in ClickEvents |-> IF eventLock[e] = c THEN Nobody ELSE eventLock[e]]
  /\ sessionLock' = IF sessionLock = c THEN Nobody ELSE sessionLock
  /\ requested' = requested
Answer(c, h) == Step(c, Idle) /\ Ends(c) /\ clickAnswers' = clickAnswers \cup {<<clickers[c].event, h>>}

Repeat(c) ==
  /\ clickers[c].at = "event"
  /\ \E h \in Existing(clickers[c].seen, clickers[c].event) : Answer(c, h)
  /\ UNCHANGED clicks

\* The rows of the last minute the snapshot shows, with room for an alias.
Recent(c) ==
  {h \in Handoffs : clickers[c].seen[h].recent /\ Existing(clickers[c].seen, clickers[c].event) = {}}
Room(c, h) == \E n \in 1..MaxAliases : clickers[c].seen[h].writes < n

\* PostgreSQL refuses to update a row that changed since the snapshot.
SameEvent(c, h) == clickers[c].seen[h].event = clicks[h].event
Unchanged(c, h) == clickers[c].seen[h].writes = clicks[h].writes

\* A rapid second activation reuses the reference: its event is an alias.
Reuse(c) ==
  /\ clickers[c].at = "session"
  /\ \E h \in Recent(c) :
       /\ Room(c, h) /\ Unchanged(c, h)
       /\ clicks' = [clicks EXCEPT ![h] =
            [clicks[h] EXCEPT !.refs = clickers[c].seen[h].refs \cup {clickers[c].event}, !.writes = @ + 1]]
       /\ Answer(c, h)
\* A new row with a reference nobody has: a reference that collides is drawn
\* again within the savepoint; unique(website_id, event_id) looks beyond the
\* snapshot.
Insert(c) ==
  /\ clickers[c].at = "session"
  /\ \A h \in Recent(c) : ~Room(c, h)
  /\ \A h \in Handoffs : clicks[h].event /= clickers[c].event
  /\ \E h \in Handoffs :
       /\ clicks[h] = NoRow
       /\ clicks' = [clicks EXCEPT ![h] =
            [event |-> clickers[c].event, refs |-> {clickers[c].event}, recent |-> TRUE, writes |-> 1]]
       /\ Answer(c, h)

\* A row that changed since the snapshot: run again from a fresh one.
Rerun(c) ==
  /\ clickers[c].at = "session"
  /\ \E h \in Recent(c) : Room(c, h) /\ ~Unchanged(c, h)
  /\ Step(c, [clickers[c] EXCEPT !.at = "claim", !.seen = clicks])
  /\ Ends(c) /\ UNCHANGED <<clicks, clickAnswers>>

\* The request fails: the event is taken, no reference is free, or the
\* connection is lost.  The browser keeps the plain link.
Fail(c) ==
  /\ clickers[c] /= Idle
  /\ Step(c, Idle) /\ Ends(c) /\ UNCHANGED <<clicks, clickAnswers>>

\* A minute passes.
Ages(h) ==
  /\ clicks[h].recent
  /\ clicks' = [clicks EXCEPT ![h].recent = FALSE]
  /\ UNCHANGED <<clickers, eventLock, sessionLock, requested, clickAnswers>>

Next ==
  \/ \E c \in Clickers :
       \/ (\E e \in ClickEvents : Click(c, e))
       \/ LockEvent(c) \/ LockSession(c) \/ Repeat(c) \/ Reuse(c) \/ Insert(c)
       \/ Rerun(c) \/ Fail(c)
  \/ \E h \in Handoffs : Ages(h)

Spec == Init /\ [][Next]_clickVars

\* The type invariant.
ClicksTypeOK ==
  /\ \A h \in Handoffs :
       /\ clicks[h].event \in ClickEvents \cup {"none"} /\ clicks[h].refs \subseteq ClickEvents
       /\ clicks[h].recent \in BOOLEAN /\ clicks[h].writes \in Nat
  /\ eventLock \in [ClickEvents -> Clickers \cup {Nobody}] /\ sessionLock \in Clickers \cup {Nobody}
  /\ clickAnswers \subseteq ClickEvents \X Handoffs

\* An event that was answered with a reference stays an alias of that
\* reference: no concurrent activation that appends its own event to the row
\* loses it (_record_click), so that the browser's retry finds it again.
AliasesAreKept == \A a \in clickAnswers : a[1] \in clicks[a[2]].refs

\* What the comments of _existing_click and event_refs say: the event fence
\* covers the insertion and retries are preserved, so that one event names one
\* reference.  The fence does not renew the snapshot of a transaction that
\* waited for it.
EventNamesOneClick == \A a, b \in clickAnswers : a[1] = b[1] => a[2] = b[2]
==============================================================================
