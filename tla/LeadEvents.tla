------------------------------ MODULE LeadEvents ------------------------------
(* The business events of one CRM lead: a stage change or a loss is reported *)
(* as it is written, when the company captures events, and what the chatter  *)
(* had tracked before capture began is imported by a paged backfill.  Every  *)
(* transaction locks the lead row, and all but a backfill page write it, so  *)
(* each takes effect in one step.                                            *)
EXTENDS Integers, FiniteSets, FiniteSetsExt

CONSTANTS PageSize, MaxTracking, MaxPages

VARIABLES captures, top, made, sequence, events, cursor, pages
vars == <<captures, top, made, sequence, events, cursor, pages>>

NoMark == -1
Kinds == {"stage", "lost"}
EventConstants == PageSize \in Nat \ {0} /\ MaxTracking \in Nat /\ MaxPages \in Nat

\* A transition is known by its tracking row; an event by its occurrence, which
\* is that row, or the lead's own sequence when the row is not yet written.
Event(kind, ref, id, mark) == [kind |-> kind, ref |-> ref, of |-> id, mark |-> mark]
Live(n) == <<"sequence", n>>
Chatter(id) == <<"tracking", id>>
Recorded(kind, ref) == \E e \in events : e.kind = kind /\ e.ref = ref
Ingest(new) == {e \in new : ~Recorded(e.kind, e.ref)}

\* A lead created while the company captures reports its creation with the
\* watermark zero: nothing precedes it.
Created(mark) == Event("created", Live(0), 0, mark)
Init ==
  /\ captures \in BOOLEAN
  /\ top = 0
  /\ made = {}
  /\ sequence = IF captures THEN 1 ELSE 0
  /\ events = IF captures THEN {Created(0)} ELSE {}
  /\ cursor = 0
  /\ pages = 0

\* The chatter writes its rows at the end of the transaction, numbered after
\* every row of any record; when the transaction has flushed them before the
\* events are ingested, the events name them.
Write ==
  \E kinds \in (SUBSET Kinds) \ {{}}, flushed \in BOOLEAN :
    LET ids == [k \in kinds |-> IF k = "lost" /\ "stage" \in kinds THEN top + 2 ELSE top + 1]
        ref(k) == IF flushed THEN Chatter(ids[k]) ELSE Live(sequence + 1)
    IN  /\ top + Cardinality(kinds) <= MaxTracking
        /\ top' = top + Cardinality(kinds)
        /\ made' = made \cup {[kind |-> k, id |-> ids[k]] : k \in kinds}
        /\ IF captures
           THEN /\ sequence' = sequence + 1
                /\ events' = events \cup Ingest({Event(k, ref(k), ids[k], top) : k \in kinds})
           ELSE UNCHANGED <<sequence, events>>
        /\ UNCHANGED <<captures, cursor, pages>>

\* Other records are tracked in the same table.
OtherTracked ==
  /\ top < MaxTracking
  /\ top' = top + 1
  /\ UNCHANGED <<captures, made, sequence, events, cursor, pages>>

Switch ==
  /\ captures' = ~captures
  /\ UNCHANGED <<top, made, sequence, events, cursor, pages>>

\* Only what precedes the first capture is history: the later rows describe
\* what capture has reported.
Marks == {e.mark : e \in events} \ {NoMark}
Historical == IF Marks = {} THEN made ELSE {m \in made : m.id <= Min(Marks)}
Page ==
  LET rest == {m \in Historical : m.id > cursor}
  IN  {m \in rest : Cardinality({n \in rest : n.id <= m.id}) <= PageSize}

\* A page reports the creation when nothing has, then the tracked transitions
\* after the cursor; the next page begins where it ends.
Backfill ==
  /\ captures /\ pages < MaxPages
  /\ events' = events \cup Ingest({Created(NoMark)}
                 \cup {Event(m.kind, Chatter(m.id), m.id, NoMark) : m \in Page})
  /\ cursor' = IF Page = {} THEN cursor ELSE Max({m.id : m \in Page})
  /\ pages' = pages + 1
  /\ UNCHANGED <<captures, top, made, sequence>>

\* An operator asks for the history again.
Restart ==
  /\ cursor > 0
  /\ cursor' = 0
  /\ UNCHANGED <<captures, top, made, sequence, events, pages>>

Next == Write \/ OtherTracked \/ Switch \/ Backfill \/ Restart

Spec == Init /\ [][Next]_vars

EventsTypeOK ==
  /\ captures \in BOOLEAN
  /\ top \in 0..MaxTracking /\ cursor \in 0..MaxTracking /\ pages \in 0..MaxPages
  /\ made \subseteq [kind : Kinds, id : 1..MaxTracking]
  /\ \A e \in events : e.kind \in Kinds \cup {"created"} /\ e.of \in 0..MaxTracking

\* However capture, its interruptions and the backfill are interleaved, no
\* transition of the lead is reported by two events, and none behind the
\* cursor of the backfill is left out.
ReportedOnce ==
  /\ \A e, f \in events : e.kind = f.kind /\ e.of = f.of => e = f
  /\ \A m \in made : m.id <= cursor => \E e \in events : e.kind = m.kind /\ e.of = m.id
==============================================================================
