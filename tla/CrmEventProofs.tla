--------------------------- MODULE CrmEventProofs ---------------------------
(* Proofs about what is told of a lead (MCCrm), for every value of the        *)
(* constants: the business events of leads and of sales orders, the revisions *)
(* of touchpoints with their projection, and its native campaign.  Each part  *)
(* has an inductive invariant of its own, proved of its Init and its Next;    *)
(* the last section composes them with those of CrmProofs, since a part that  *)
(* is not chosen does not move.                                               *)
EXTENDS CrmProofs

\* The instances have their own names for the sizes of sets.
LEMMA EventSizes ==
  \A S : /\ Events!Cardinality(S) = Cardinality(S) /\ Events!IsFiniteSet(S) = IsFiniteSet(S)
         /\ Told!Cardinality(S) = Cardinality(S) /\ Told!IsFiniteSet(S) = IsFiniteSet(S)
         /\ Sale!Cardinality(S) = Cardinality(S) /\ Sale!IsFiniteSet(S) = IsFiniteSet(S)
         /\ Utm!Cardinality(S) = Cardinality(S) /\ Utm!IsFiniteSet(S) = IsFiniteSet(S)
<1>1. \A S : Events!Cardinality(S) = Cardinality(S) /\ Events!IsFiniteSet(S) = IsFiniteSet(S)
  BY DEF Events!IsFiniteSet, Events!Cardinality, IsFiniteSet, Cardinality
<1>2. \A S : Told!Cardinality(S) = Cardinality(S) /\ Told!IsFiniteSet(S) = IsFiniteSet(S)
  BY DEF Told!IsFiniteSet, Told!Cardinality, IsFiniteSet, Cardinality
<1>3. \A S : Sale!Cardinality(S) = Cardinality(S) /\ Sale!IsFiniteSet(S) = IsFiniteSet(S)
  BY DEF Sale!IsFiniteSet, Sale!Cardinality, IsFiniteSet, Cardinality
<1>4. \A S : Utm!Cardinality(S) = Cardinality(S) /\ Utm!IsFiniteSet(S) = IsFiniteSet(S)
  BY DEF Utm!IsFiniteSet, Utm!Cardinality, IsFiniteSet, Cardinality
<1> QED BY <1>1, <1>2, <1>3, <1>4


------------------------------------------------------------------------------
\* LeadEvents: a transition is one event, live or imported.
\* What has been tracked is numbered, and the cursor stays behind it.
EventsTypes ==
  /\ captures \in BOOLEAN
  /\ top \in 0..MaxTracking /\ pages \in 0..MaxPages /\ cursor \in 0..top
  /\ Events!IsFiniteSet(made) /\ made \subseteq [kind : Events!Kinds, id : 1..top]

\* An imported event names the row it is of; a live one is of a row that came
\* after the watermark it keeps.
EventTells(e) ==
  /\ e \in [kind : Events!Kinds \cup {"created"}, ref : {e.ref}, of : 0..top, mark : {Events!NoMark} \cup (0..top)]
  /\ e.kind = "created" => e.ref = Events!Live(0) /\ e.of = 0
  /\ e.kind # "created" /\ e.mark = Events!NoMark => e.ref = Events!Chatter(e.of)
  /\ e.kind # "created" /\ e.mark # Events!NoMark => e.mark < e.of
  /\ \A id \in Nat : e.ref = Events!Chatter(id) => e.of = id
EventsTell == \A e \in events : EventTells(e)
EventsInv == EventsTypes /\ EventsTell /\ Events!ReportedOnce

LEMMA EventNumbers == PageSize \in Nat \ {0} /\ MaxTracking \in Nat /\ MaxPages \in Nat
BY EventBounds DEF Events!EventConstants

LEMMA EventFields ==
  ASSUME NEW kind, NEW ref, NEW id, NEW mark
  PROVE  LET e == Events!Event(kind, ref, id, mark) IN
         e.kind = kind /\ e.ref = ref /\ e.of = id /\ e.mark = mark
           /\ e \in [kind : {kind}, ref : {ref}, of : {id}, mark : {mark}]
BY DEF Events!Event

LEMMA RefFacts ==
  /\ \A i, n \in Nat : Events!Chatter(i) # Events!Live(n)
  /\ \A i, n \in Nat : Events!Chatter(i) = Events!Chatter(n) => i = n
BY DEF Events!Chatter, Events!Live

\* An event that is what it should be still is when more rows are tracked.
LEMMA TellsLonger ==
  ASSUME NEW e, EventTells(e), top \in Nat, top' \in Nat, top <= top' PROVE EventTells(e)'
<1>1. 0..top \subseteq 0..top'
  OBVIOUS
<1> QED BY <1>1 DEF EventTells

LEMMA CreatedTells ==
  ASSUME NEW mark \in {Events!NoMark, 0}, top \in Nat
  PROVE  EventTells(Events!Created(mark)) /\ Events!Created(mark).kind = "created" /\ Events!Created(mark).ref = Events!Live(0)
         /\ Events!Created(mark).of = 0
<1> DEFINE e == Events!Created(mark)
<1>1. e.kind = "created" /\ e.ref = Events!Live(0) /\ e.of = 0 /\ e.mark = mark
      /\ e \in [kind : {"created"}, ref : {Events!Live(0)}, of : {0}, mark : {mark}]
  BY EventFields DEF Events!Created
<1>2. mark \in {Events!NoMark} \cup (0..top)
  BY DEF Events!NoMark
<1>3. "created" \in Events!Kinds \cup {"created"} /\ 0 \in 0..top
  OBVIOUS
<1> HIDE DEF e
<1>4. e \in [kind : Events!Kinds \cup {"created"}, ref : {e.ref}, of : 0..top, mark : {Events!NoMark} \cup (0..top)]
  BY <1>1, <1>2, <1>3
<1>5. \A id \in Nat : Events!Chatter(id) # Events!Live(0)
  BY RefFacts
<1>6. EventTells(e)
  BY <1>1, <1>4, <1>5 DEF EventTells
<1> QED BY <1>1, <1>6 DEF e

LEMMA EventsInitInv == Events!Init => EventsInv
<1> SUFFICES ASSUME Events!Init PROVE EventsInv
  OBVIOUS
<1>1. EventsTypes
  BY EventNumbers, FS_EmptySet, EventSizes DEF Events!Init, EventsTypes
<1>2. \A e \in events : e = Events!Created(0)
  BY DEF Events!Init
<1>3. top \in Nat /\ 0 \in {Events!NoMark, 0}
  BY DEF Events!Init
<1>4. EventsTell
  BY <1>2, <1>3, CreatedTells DEF EventsTell
<1>5. Events!ReportedOnce
  BY <1>2 DEF Events!ReportedOnce, Events!Init
<1> QED BY <1>1, <1>4, <1>5 DEF EventsInv

\* Events that are in order and of transitions that nothing has reported.
LEMMA IngestKeeps ==
  ASSUME EventsInv, NEW new, events' = events \cup Events!Ingest(new), top \in Nat, top' \in Nat, top <= top',
         \A e \in new : EventTells(e)',
         \A e, f \in new : e.kind = f.kind /\ e.of = f.of => e = f,
         \A e \in new, f \in events : e.kind = f.kind /\ e.of = f.of => e.ref = f.ref
  PROVE  /\ EventsTell' /\ events \subseteq events'
         /\ \A e, f \in events' : e.kind = f.kind /\ e.of = f.of => e = f
         /\ \A e \in new : \E f \in events' : f.kind = e.kind /\ f.ref = e.ref
<1>1. \A e \in events' : e \in events \/ (e \in new /\ ~Events!Recorded(e.kind, e.ref))
  BY DEF Events!Ingest
<1>2. EventsTell'
  BY <1>1, TellsLonger DEF EventsInv, EventsTell
<1>3. \A e, f \in events' : e.kind = f.kind /\ e.of = f.of => e = f
  <2> SUFFICES ASSUME NEW e \in events', NEW f \in events', e.kind = f.kind, e.of = f.of PROVE e = f
    OBVIOUS
  <2>1. CASE e \in events /\ f \in events
    BY <2>1 DEF EventsInv, Events!ReportedOnce
  <2>2. CASE e \in new /\ f \in new
    BY <2>2
  <2>3. CASE e \in events /\ f \in new /\ ~Events!Recorded(f.kind, f.ref)
    BY <2>3 DEF Events!Recorded
  <2>4. CASE f \in events /\ e \in new /\ ~Events!Recorded(e.kind, e.ref)
    BY <2>4 DEF Events!Recorded
  <2> QED BY <1>1, <2>1, <2>2, <2>3, <2>4
<1>4. \A e \in new : \E f \in events' : f.kind = e.kind /\ f.ref = e.ref
  BY DEF Events!Ingest, Events!Recorded
<1> QED BY <1>2, <1>3, <1>4

\* The transitions of one write, and the rows that will track them.
LEMMA WrittenRows ==
  ASSUME NEW kinds \in (SUBSET Events!Kinds) \ {{}}, top \in Nat,
         NEW ids, ids = [k \in kinds |-> IF k = "lost" /\ "stage" \in kinds THEN top + 2 ELSE top + 1]
  PROVE  /\ Events!Cardinality(kinds) \in Nat
         /\ \A k \in kinds : ids[k] \in Nat /\ top < ids[k] /\ ids[k] <= top + Events!Cardinality(kinds)
         /\ Events!IsFiniteSet({[kind |-> k, id |-> ids[k]] : k \in kinds})
<1>1. ASSUME NEW k, kinds = {k}
      PROVE  /\ Events!Cardinality(kinds) = 1 /\ ids[k] = top + 1
             /\ Events!IsFiniteSet({[kind |-> j, id |-> ids[j]] : j \in kinds})
  <2>1. {[kind |-> j, id |-> ids[j]] : j \in kinds} = {[kind |-> k, id |-> ids[k]]}
    BY <1>1
  <2>2. ~(k = "lost" /\ "stage" \in kinds)
    BY <1>1
  <2>3. \A x : Events!IsFiniteSet({x}) /\ Events!Cardinality({x}) = 1
    BY FS_Singleton, EventSizes
  <2>4. ids[k] = top + 1
    BY <1>1, <2>2
  <2> QED BY <1>1, <2>1, <2>3, <2>4
<1>2. CASE \E k : kinds = {k}
  <2>1. PICK k : kinds = {k}
    BY <1>2
  <2>2. Events!Cardinality(kinds) = 1 /\ ids[k] = top + 1 /\ Events!IsFiniteSet({[kind |-> j, id |-> ids[j]] : j \in kinds})
    BY <1>1, <2>1
  <2>3. \A j \in kinds : ids[j] = top + 1
    BY <2>1, <2>2
  <2> QED BY <2>2, <2>3
<1>3. CASE kinds = {"stage"} \cup {"lost"}
  <2>1. Events!Cardinality(kinds) = 2
    <3>1. Events!IsFiniteSet({"stage"}) /\ Events!Cardinality({"stage"}) = 1
      BY FS_Singleton, EventSizes
    <3>2. "lost" \notin {"stage"}
      OBVIOUS
    <3>3. Events!Cardinality({"stage"} \cup {"lost"}) = Events!Cardinality({"stage"}) + 1
      BY <3>1, <3>2, FS_AddElement, EventSizes
    <3> QED BY <1>3, <3>1, <3>3
  <2>2. ids["stage"] = top + 1 /\ ids["lost"] = top + 2
    BY <1>3
  <2> DEFINE told == {[kind |-> k, id |-> ids[k]] : k \in kinds}
             first == [kind |-> "stage", id |-> ids["stage"]]
             second == [kind |-> "lost", id |-> ids["lost"]]
  <2>3. told = {first} \cup {second}
    BY <1>3
  <2>4. \A x, y : Events!IsFiniteSet({x} \cup {y})
    BY FS_Singleton, FS_AddElement, EventSizes
  <2>5. \A k \in kinds : ids[k] = top + 1 \/ ids[k] = top + 2
    BY <1>3, <2>2
  <2>6. \A k \in kinds : ids[k] \in Nat /\ top < ids[k] /\ ids[k] <= top + Events!Cardinality(kinds)
    BY <2>1, <2>5
  <2>7. Events!IsFiniteSet(told)
    <3> HIDE DEF told, first, second
    <3> QED BY <2>3, <2>4
  <2> QED BY <2>1, <2>6, <2>7
<1>4. kinds = {"stage"} \/ kinds = {"lost"} \/ kinds = {"stage"} \cup {"lost"}
  BY DEF Events!Kinds
<1> QED BY <1>2, <1>3, <1>4

LEMMA WriteKeepsEvents == ASSUME EventsInv, Events!Write PROVE EventsInv'
<1>1. PICK kinds \in (SUBSET Events!Kinds) \ {{}}, flushed \in BOOLEAN :
        LET ids == [k \in kinds |-> IF k = "lost" /\ "stage" \in kinds THEN top + 2 ELSE top + 1]
            ref(k) == IF flushed THEN Events!Chatter(ids[k]) ELSE Events!Live(sequence + 1)
        IN  /\ top + Events!Cardinality(kinds) <= MaxTracking
            /\ top' = top + Events!Cardinality(kinds)
            /\ made' = made \cup {[kind |-> k, id |-> ids[k]] : k \in kinds}
            /\ IF captures
               THEN /\ sequence' = sequence + 1
                    /\ events' = events \cup Events!Ingest({Events!Event(k, ref(k), ids[k], top) : k \in kinds})
               ELSE UNCHANGED <<sequence, events>>
            /\ UNCHANGED <<captures, cursor, pages>>
  BY DEF Events!Write
<1> DEFINE ids == [k \in kinds |-> IF k = "lost" /\ "stage" \in kinds THEN top + 2 ELSE top + 1]
           ref(k) == IF flushed THEN Events!Chatter(ids[k]) ELSE Events!Live(sequence + 1)
           told == {[kind |-> k, id |-> ids[k]] : k \in kinds}
           new == {Events!Event(k, ref(k), ids[k], top) : k \in kinds}
<1>2. /\ top + Events!Cardinality(kinds) <= MaxTracking /\ top' = top + Events!Cardinality(kinds)
      /\ made' = made \cup told /\ UNCHANGED <<captures, cursor, pages>>
      /\ events' = events \cup Events!Ingest(new) \/ events' = events
  BY <1>1
<1>3. top \in Nat /\ cursor \in 0..top /\ MaxTracking \in Nat
  BY EventNumbers DEF EventsInv, EventsTypes
<1>4. /\ Events!Cardinality(kinds) \in Nat /\ Events!IsFiniteSet(told)
      /\ \A k \in kinds : ids[k] \in Nat /\ top < ids[k] /\ ids[k] <= top + Events!Cardinality(kinds)
  BY <1>3, WrittenRows
<1>5. \A m \in told : m.kind \in kinds /\ m.id = ids[m.kind] /\ m \in [kind : kinds, id : {ids[m.kind]}]
  OBVIOUS
<1> HIDE DEF ids, told
<1>6. top' \in 0..MaxTracking /\ top <= top' /\ top' \in Nat
  BY <1>2, <1>3, <1>4
<1>7. EventsTypes'
  <2>1. Events!IsFiniteSet(made')
    BY <1>2, <1>4, FS_Union, EventSizes DEF EventsInv, EventsTypes
  <2>2. \A m \in told : m \in [kind : Events!Kinds, id : 1..top']
    <3> TAKE m \in told
    <3>1. m.kind \in Events!Kinds /\ ids[m.kind] \in 1..top'
      BY <1>2, <1>3, <1>4, <1>5
    <3> QED BY <1>5, <3>1
  <2>3. 1..top \subseteq 1..top' /\ cursor' \in 0..top'
    BY <1>2, <1>3, <1>6
  <2>4. made' \subseteq [kind : Events!Kinds, id : 1..top']
    BY <1>2, <2>2, <2>3 DEF EventsInv, EventsTypes
  <2> QED BY <1>2, <1>6, <2>1, <2>3, <2>4 DEF EventsInv, EventsTypes
<1>8. ASSUME NEW e \in new
      PROVE  \E k \in kinds : /\ EventTells(e)' /\ e.kind = k /\ e.of = ids[k] /\ top < e.of
                              /\ e = Events!Event(k, ref(k), ids[k], top)
  <2>0. PICK k \in kinds : e = Events!Event(k, ref(k), ids[k], top)
    OBVIOUS
  <2> DEFINE r == ref(k)
  <2>1. e.kind = k /\ e.ref = r /\ e.of = ids[k] /\ e.mark = top
        /\ e \in [kind : {k}, ref : {r}, of : {ids[k]}, mark : {top}]
    BY <2>0, EventFields
  <2>2. r = Events!Chatter(ids[k]) \/ r = Events!Live(sequence + 1)
    OBVIOUS
  <2> HIDE DEF r
  <2>3. k \in Events!Kinds /\ k # "created" /\ ids[k] \in 0..top' /\ top \in 0..top' /\ top # Events!NoMark /\ top < ids[k]
    BY <1>2, <1>3, <1>4, <1>6 DEF Events!Kinds, Events!NoMark
  <2>4. e \in [kind : Events!Kinds \cup {"created"}, ref : {e.ref}, of : 0..top', mark : {Events!NoMark} \cup (0..top')]
    BY <2>1, <2>3
  <2>5. \A id \in Nat : e.ref = Events!Chatter(id) => e.of = id
    BY <1>4, <2>1, <2>2 DEF Events!Chatter, Events!Live
  <2>6. EventTells(e)'
    <3> HIDE DEF new
    <3> QED BY <2>1, <2>3, <2>4, <2>5 DEF EventTells
  <2> QED BY <2>0, <2>1, <2>3, <2>6
<1> HIDE DEF new
<1>9. \A e \in events : e.of <= top /\ e.of \in Nat
  BY <1>3 DEF EventsInv, EventsTell, EventTells
<1>10. /\ EventsTell' /\ events \subseteq events'
       /\ \A e, f \in events' : e.kind = f.kind /\ e.of = f.of => e = f
  <2>1. CASE events' = events
    BY <1>3, <1>6, <2>1, TellsLonger DEF EventsInv, EventsTell, Events!ReportedOnce
  <2>2. CASE events' = events \cup Events!Ingest(new)
    <3>1. \A e, f \in new : e.kind = f.kind /\ e.of = f.of => e = f
      BY <1>8
    <3>2. \A e \in new, f \in events : e.of # f.of
      <4> TAKE e \in new, f \in events
      <4>1. top < e.of /\ e.of = ids[e.kind] /\ e.kind \in kinds
        BY <1>8
      <4>2. f.of <= top /\ f.of \in Nat /\ ids[e.kind] \in Nat
        BY <1>4, <1>9, <4>1
      <4> QED BY <1>3, <4>1, <4>2
    <3>3. \A e \in new : EventTells(e)'
      BY <1>8
    <3> QED BY <1>3, <1>6, <2>2, <3>1, <3>2, <3>3, IngestKeeps
  <2> QED BY <1>2, <2>1, <2>2
<1>11. \A m \in made' : m.id <= cursor' => \E e \in events' : e.kind = m.kind /\ e.of = m.id
  <2> SUFFICES ASSUME NEW m \in made', m.id <= cursor'
               PROVE  \E e \in events' : e.kind = m.kind /\ e.of = m.id
    OBVIOUS
  <2>1. m \notin told
    <3> SUFFICES ASSUME m \in told PROVE FALSE
      OBVIOUS
    <3>1. m.id \in Nat /\ top < m.id
      BY <1>4, <1>5
    <3> QED BY <1>2, <1>3, <3>1
  <2> QED BY <1>2, <1>10, <2>1 DEF EventsInv, Events!ReportedOnce
<1> QED BY <1>7, <1>10, <1>11 DEF EventsInv, Events!ReportedOnce

\* A page holds every transition up to its last, and nothing that a live event
\* may have reported.
LEMMA EventPageFacts ==
  ASSUME EventsInv
  PROVE  /\ Events!Page \subseteq made /\ \A m \in Events!Page : \A e \in events : e.mark # Events!NoMark => m.id <= e.mark
         /\ Events!Page # {} => \E p \in Events!Page :
              /\ Events!Max({m.id : m \in Events!Page}) = p.id
              /\ \A m \in made : cursor < m.id /\ m.id <= p.id => m \in Events!Page
<1> DEFINE rest == {m \in Events!Historical : m.id > cursor}
<1>1. /\ top \in Nat /\ cursor \in Nat /\ Events!IsFiniteSet(made)
      /\ \A m \in made : m.id \in 1..top
      /\ \A e \in events : e.mark \in {Events!NoMark} \cup (0..top)
  BY EventNumbers DEF EventsInv, EventsTypes, EventsTell, EventTells
<1>2. Events!Marks \in SUBSET Nat /\ \A e \in events : e.mark # Events!NoMark => e.mark \in Events!Marks
  BY <1>1 DEF Events!Marks
<1>3. Events!Marks # {} => Events!Min(Events!Marks) \in Events!Marks /\ \A n \in Events!Marks : Events!Min(Events!Marks) <= n
  BY <1>2, LeastNumber DEF Events!Min
<1>4. Events!Historical \subseteq made /\ \A m \in Events!Historical, n \in Events!Marks : m.id <= n
  <2>1. CASE Events!Marks = {}
    BY <2>1 DEF Events!Historical
  <2>2. CASE Events!Marks # {}
    <3>1. Events!Historical = {m \in made : m.id <= Events!Min(Events!Marks)}
      BY <2>2 DEF Events!Historical
    <3>2. ASSUME NEW m \in Events!Historical, NEW n \in Events!Marks PROVE m.id <= n
      <4>1. m.id <= Events!Min(Events!Marks) /\ m \in made
        BY <3>1
      <4>2. Events!Min(Events!Marks) <= n /\ Events!Min(Events!Marks) \in Nat /\ n \in Nat
        BY <1>2, <1>3, <2>2
      <4>3. m.id \in Nat
        BY <1>1, <4>1
      <4> QED BY <4>1, <4>2, <4>3
    <3> QED BY <3>1, <3>2
  <2> QED BY <2>1, <2>2
<1>5. ASSUME NEW m \in made, NEW p \in Events!Historical, m.id <= p.id PROVE m \in Events!Historical
  <2>1. CASE Events!Marks = {}
    BY <2>1 DEF Events!Historical
  <2>2. CASE Events!Marks # {}
    <3>0. Events!Min(Events!Marks) \in Nat
      BY <1>2, <1>3, <2>2
    <3>1. p.id <= Events!Min(Events!Marks) /\ p \in made
      BY <2>2 DEF Events!Historical
    <3>2. m.id \in Nat /\ p.id \in Nat
      BY <1>1, <3>1
    <3>3. m.id <= Events!Min(Events!Marks)
      BY <1>5, <3>0, <3>1, <3>2
    <3> QED BY <2>2, <3>3 DEF Events!Historical
  <2> QED BY <2>1, <2>2
<1>6. Events!Page \subseteq rest /\ rest \subseteq made /\ Events!IsFiniteSet(rest)
  <2>1. rest \subseteq made
    BY <1>4
  <2> QED BY <1>1, <2>1, FS_Subset, EventSizes DEF Events!Page
<1>7. ASSUME NEW m \in rest, NEW p \in Events!Page, m.id <= p.id PROVE m \in Events!Page
  <2> DEFINE upTo(k) == {n \in rest : n.id <= k.id}
  <2>1. Events!IsFiniteSet(upTo(p)) /\ Events!Cardinality(upTo(p)) <= PageSize
    BY <1>6, FS_Subset, EventSizes DEF Events!Page
  <2>2. upTo(m) \in SUBSET upTo(p)
    <3> SUFFICES ASSUME NEW n \in rest, n.id <= m.id PROVE n.id <= p.id
      OBVIOUS
    <3>1. n.id \in Nat /\ m.id \in Nat /\ p.id \in Nat
      BY <1>1, <1>6
    <3> QED BY <1>7, <3>1
  <2>3. Events!IsFiniteSet(upTo(m)) /\ Events!Cardinality(upTo(m)) <= Events!Cardinality(upTo(p))
    BY <2>1, <2>2, FS_Subset, EventSizes
  <2>4. Events!Cardinality(upTo(m)) \in Nat /\ Events!Cardinality(upTo(p)) \in Nat
    BY <2>1, <2>3, FS_CardinalityType, EventSizes
  <2>5. Events!Cardinality(upTo(m)) <= PageSize
    BY <2>1, <2>3, <2>4, EventNumbers
  <2> QED BY <2>5 DEF Events!Page
<1>8. ASSUME Events!Page # {}
      PROVE  \E p \in Events!Page : /\ Events!Max({m.id : m \in Events!Page}) = p.id
                                    /\ \A m \in made : cursor < m.id /\ m.id <= p.id => m \in Events!Page
  <2> DEFINE found == {m.id : m \in Events!Page}
  <2>1. found \in SUBSET Nat /\ found # {} /\ \A k \in found : k <= top
    BY <1>1, <1>6, <1>8
  <2>2. Events!Max(found) \in found
    <3> HIDE DEF found
    <3> QED BY <1>1, <2>1, GreatestNumber DEF Events!Max
  <2>3. PICK p \in Events!Page : Events!Max(found) = p.id
    BY <2>2
  <2>4. p \in Events!Historical
    BY <1>6
  <2>5. ASSUME NEW m \in made, cursor < m.id, m.id <= p.id PROVE m \in Events!Page
    <3>1. m \in Events!Historical
      BY <1>5, <2>4, <2>5
    <3>2. m \in rest
      BY <1>1, <2>5, <3>1
    <3> QED BY <1>7, <2>5, <3>2
  <2> QED BY <2>3, <2>5
<1>9. \A m \in Events!Page : \A e \in events : e.mark # Events!NoMark => m.id <= e.mark
  BY <1>2, <1>4, <1>6
<1> QED BY <1>6, <1>8, <1>9

LEMMA BackfillKeepsEvents == ASSUME EventsInv, Events!Backfill PROVE EventsInv'
<1> DEFINE old == {Events!Event(m.kind, Events!Chatter(m.id), m.id, Events!NoMark) : m \in Events!Page}
           new == {Events!Created(Events!NoMark)} \cup old
<1>1. /\ events' = events \cup Events!Ingest(new) /\ pages' = pages + 1 /\ pages < MaxPages
      /\ cursor' = IF Events!Page = {} THEN cursor ELSE Events!Max({m.id : m \in Events!Page})
      /\ UNCHANGED <<captures, top, made, sequence>>
  BY DEF Events!Backfill
<1>2. /\ top \in Nat /\ cursor \in 0..top /\ pages \in 0..MaxPages
      /\ \A m \in made : m.id \in 1..top /\ m.kind \in Events!Kinds
  BY EventNumbers DEF EventsInv, EventsTypes
<1>3. \A e \in old : \E m \in Events!Page : e = Events!Event(m.kind, Events!Chatter(m.id), m.id, Events!NoMark)
  OBVIOUS
<1>4. \A m \in Events!Page : Events!Event(m.kind, Events!Chatter(m.id), m.id, Events!NoMark) \in new
  OBVIOUS
<1> HIDE DEF old
<1>5. ASSUME NEW e \in old
      PROVE  \E m \in Events!Page : /\ e.kind = m.kind /\ e.ref = Events!Chatter(m.id) /\ e.of = m.id /\ e.mark = Events!NoMark
                                    /\ e = Events!Event(m.kind, Events!Chatter(m.id), m.id, Events!NoMark) /\ EventTells(e)
  <2>1. PICK m \in Events!Page : e = Events!Event(m.kind, Events!Chatter(m.id), m.id, Events!NoMark)
    BY <1>3
  <2>2. e.kind = m.kind /\ e.ref = Events!Chatter(m.id) /\ e.of = m.id /\ e.mark = Events!NoMark
        /\ e \in [kind : {m.kind}, ref : {Events!Chatter(m.id)}, of : {m.id}, mark : {Events!NoMark}]
    BY <2>1, EventFields
  <2>3. m.kind \in Events!Kinds /\ m.kind # "created" /\ m.id \in Nat /\ m.id \in 0..top
    BY <1>2, EventPageFacts DEF Events!Kinds
  <2>4. e \in [kind : Events!Kinds \cup {"created"}, ref : {e.ref}, of : 0..top, mark : {Events!NoMark} \cup (0..top)]
    BY <2>2, <2>3
  <2>5. EventTells(e)
    BY <2>2, <2>3, <2>4, RefFacts DEF EventTells
  <2> QED BY <2>1, <2>2, <2>5
<1>6. /\ EventTells(Events!Created(Events!NoMark)) /\ Events!Created(Events!NoMark).kind = "created" /\ Events!Created(Events!NoMark).ref = Events!Live(0)
      /\ Events!Created(Events!NoMark).of = 0
  BY <1>2, CreatedTells
<1>7. \A e \in new : EventTells(e)'
  <2>1. \A e \in new : EventTells(e)
    BY <1>5, <1>6
  <2> HIDE DEF new
  <2> QED BY <1>1, <1>2, <2>1, TellsLonger
<1>8. \A e \in old : e.kind # "created"
  BY <1>2, <1>5, EventPageFacts DEF Events!Kinds
<1>9. \A e, f \in new : e.kind = f.kind /\ e.of = f.of => e = f
  BY <1>5, <1>6, <1>8
<1>10. ASSUME NEW e \in new, NEW f \in events, e.kind = f.kind, e.of = f.of PROVE e.ref = f.ref
  <2>0. EventTells(f)
    BY DEF EventsInv, EventsTell
  <2>1. CASE e = Events!Created(Events!NoMark)
    BY <1>6, <1>10, <2>0, <2>1 DEF EventTells
  <2>2. CASE e \in old
    <3>1. PICK m \in Events!Page : e.kind = m.kind /\ e.ref = Events!Chatter(m.id) /\ e.of = m.id
      BY <1>5, <2>2
    <3>2. f.kind # "created" /\ m.id \in Nat
      BY <1>2, <1>8, <1>10, <2>2, <3>1, EventPageFacts
    <3>3. f.mark # Events!NoMark => m.id <= f.mark /\ f.mark < m.id /\ f.mark \in Nat
      BY <1>10, <2>0, <3>1, <3>2, EventPageFacts DEF EventTells
    <3>4. f.mark = Events!NoMark
      BY <3>2, <3>3
    <3> QED BY <1>10, <2>0, <3>1, <3>2, <3>4 DEF EventTells
  <2> QED BY <2>1, <2>2
<1> HIDE DEF new
<1>11. /\ EventsTell' /\ events \subseteq events'
       /\ \A e, f \in events' : e.kind = f.kind /\ e.of = f.of => e = f
       /\ \A e \in new : \E f \in events' : f.kind = e.kind /\ f.ref = e.ref
  <2>1. top' \in Nat /\ top <= top'
    BY <1>1, <1>2
  <2> QED BY <1>1, <1>2, <1>7, <1>9, <1>10, <2>1, IngestKeeps
<1>12. ASSUME NEW m \in Events!Page PROVE \E e \in events' : e.kind = m.kind /\ e.of = m.id
  <2> DEFINE e == Events!Event(m.kind, Events!Chatter(m.id), m.id, Events!NoMark)
  <2>1. e \in new /\ e.kind = m.kind /\ e.ref = Events!Chatter(m.id)
    BY <1>4, EventFields
  <2> HIDE DEF e
  <2>2. PICK f \in events' : f.kind = e.kind /\ f.ref = e.ref
    BY <1>11, <2>1
  <2>3. f.of = m.id
    <3>1. m.id \in Nat /\ EventTells(f)'
      BY <1>2, <1>11, EventPageFacts DEF EventsTell
    <3> QED BY <2>1, <2>2, <3>1 DEF EventTells
  <2> QED BY <2>1, <2>2, <2>3
<1>13. cursor' \in 0..top /\ \A m \in made : m.id <= cursor' => m.id <= cursor \/ m \in Events!Page
  <2>1. CASE Events!Page = {}
    BY <1>1, <1>2, <2>1
  <2>2. CASE Events!Page # {}
    <3>1. PICK p \in Events!Page : /\ Events!Max({m.id : m \in Events!Page}) = p.id
                                   /\ \A m \in made : cursor < m.id /\ m.id <= p.id => m \in Events!Page
      BY <2>2, EventPageFacts
    <3>2. cursor' = p.id /\ p.id \in 0..top
      BY <1>1, <1>2, <2>2, <3>1, EventPageFacts
    <3> QED BY <1>2, <3>1, <3>2
  <2> QED BY <2>1, <2>2
<1>14. EventsTypes'
  BY <1>1, <1>2, <1>13, EventNumbers DEF EventsInv, EventsTypes
<1>15. \A m \in made' : m.id <= cursor' => \E e \in events' : e.kind = m.kind /\ e.of = m.id
  BY <1>1, <1>11, <1>12, <1>13 DEF EventsInv, Events!ReportedOnce
<1> QED BY <1>11, <1>14, <1>15 DEF EventsInv, Events!ReportedOnce

LEMMA EventsNextInv == EventsInv /\ [Events!Next]_Events!vars => EventsInv'
<1> SUFFICES ASSUME EventsInv, [Events!Next]_Events!vars PROVE EventsInv'
  OBVIOUS
<1>1. CASE Events!Write \/ Events!Backfill
  BY <1>1, WriteKeepsEvents, BackfillKeepsEvents
<1>2. ASSUME Events!OtherTracked \/ Events!Switch \/ Events!Restart \/ UNCHANGED Events!vars PROVE EventsInv'
  <2>0. top \in Nat /\ top <= MaxTracking /\ MaxTracking \in Nat /\ cursor \in 0..top
    BY EventNumbers DEF EventsInv, EventsTypes
  <2>a. UNCHANGED <<made, events, pages>> /\ captures' \in BOOLEAN
    BY <1>2 DEF EventsInv, EventsTypes, Events!OtherTracked, Events!Switch, Events!Restart, Events!vars
  <2>b. (top' = top \/ (top' = top + 1 /\ top < MaxTracking)) /\ (cursor' = cursor \/ cursor' = 0)
    BY <1>2 DEF Events!OtherTracked, Events!Switch, Events!Restart, Events!vars
  <2>1. /\ UNCHANGED <<made, events, pages>> /\ captures' \in BOOLEAN
        /\ top' \in 0..MaxTracking /\ top <= top' /\ top \in Nat /\ top' \in Nat
        /\ cursor' \in 0..top' /\ cursor' <= cursor /\ cursor \in Nat /\ cursor' \in Nat
    BY <2>0, <2>a, <2>b
  <2>2. 1..top \subseteq 1..top'
    BY <2>1
  <2>3. EventsTypes'
    BY <2>1, <2>2 DEF EventsInv, EventsTypes
  <2>4. EventsTell'
    BY <2>1, TellsLonger DEF EventsInv, EventsTell
  <2>5. \A m \in made : m.id \in Nat
    BY <2>1 DEF EventsInv, EventsTypes
  <2>6. Events!ReportedOnce'
    <3>1. \A m \in made : m.id <= cursor' => m.id <= cursor
      BY <2>1, <2>5
    <3> QED BY <2>1, <3>1 DEF EventsInv, Events!ReportedOnce
  <2> QED BY <2>3, <2>4, <2>6 DEF EventsInv
<1> QED BY <1>1, <1>2 DEF Events!Next

LEMMA EventsGive == EventsInv => Events!EventsTypeOK /\ Events!ReportedOnce
<1> SUFFICES ASSUME EventsInv PROVE Events!EventsTypeOK
  BY DEF EventsInv
<1>1. top \in Nat /\ top <= MaxTracking /\ MaxTracking \in Nat /\ cursor \in 0..top
  BY EventNumbers DEF EventsInv, EventsTypes
<1>2. 0..top \subseteq 0..MaxTracking /\ 1..top \subseteq 1..MaxTracking
  BY <1>1
<1>3. \A e \in events : e.kind \in Events!Kinds \cup {"created"} /\ e.of \in 0..MaxTracking
  BY <1>2 DEF EventsInv, EventsTell, EventTells
<1> QED BY <1>1, <1>2, <1>3 DEF EventsInv, EventsTypes, Events!EventsTypeOK

------------------------------------------------------------------------------
\* TouchpointLedger: what was told is one revision, and what is projected heals.
RevisionRow ==
  [content : Contents, erased : BOOLEAN, disposition : {"accepted", "revised", "enriched", "conflict"}]
ToldTypes ==
  /\ versions \in Seq(RevisionRow) /\ items \subseteq Items /\ crossed \in BOOLEAN
  /\ rows = [ns \in Told!Namespaces |-> rows[ns]]

\* A ledger that has grown tells what it told, whatever was erased of it.
Grew(seen, told) ==
  /\ Len(seen) <= Len(told)
  /\ \A n \in 1..Len(seen) :
       told[n].content = seen[n].content /\ told[n].disposition = seen[n].disposition

\* A row is of a standing revision and one of its references, and was resolved
\* in a catalog that has not lost anything.
Names(seen, n) == AssetsOf[seen[n].content]
RowTold(ns) ==
  /\ rows[ns].of \in Told!Standing(versions)
  /\ \E r \in Names(versions, rows[ns].of), catalog \in SUBSET items :
       /\ r.ns = ns
       /\ rows[ns] = Told!Row(rows[ns].of, r, Told!Resolve(r, Names(versions, rows[ns].of), catalog))
RowsTold == \A ns \in Told!Namespaces : rows[ns] # Told!NoRow => RowTold(ns)

\* Whoever writes the effective revision writes all of its rows.
EffectiveIsWhole ==
  LET n == Told!Effective(versions)
  IN  (\E ns \in Told!Namespaces : rows[ns].of = n) /\ n # 0 => \A r \in Names(versions, n) : rows[r.ns].of = n

\* What a transaction has seen of the ledger and of the catalog is still there,
\* and so are the rows that nobody wrote since.
ToldJobs == {"ingest", "upsert", "cron", "erase"}
Snapshot(x, told, found, table) ==
  /\ x.job \in ToldJobs /\ (x.job = "ingest" => x.content \in Contents) /\ (x.job = "upsert" => x.item \in Items)
  /\ {"seen", "table", "catalog"} \subseteq DOMAIN x
  /\ x.seen \in Seq(RevisionRow) /\ Grew(x.seen, told) /\ x.catalog \subseteq found
  /\ \A ns \in Told!Present(x.table) :
       /\ x.table[ns].of \in 1..Len(x.seen)
       /\ ns \notin x.stale => table[ns] = x.table[ns]
SnapshotsTell == \A w \in Resolvers : resolvers[w] = Told!Idle \/ Snapshot(resolvers[w], versions, items, rows)

ToldInv ==
  /\ ToldTypes /\ RowsTold /\ EffectiveIsWhole /\ Told!RevisionsAreTold
  /\ resolvers = [w \in Resolvers |-> resolvers[w]] /\ SnapshotsTell

LEMMA LedgerNumbers ==
  /\ Connected \subseteq Nat \ {Told!NoAccount} /\ Told!IsFiniteSet(Connected) /\ Told!IsFiniteSet(Items)
  /\ \A c \in Contents :
       /\ KindOf[c] \in {"observation", "enrichment", "correction", "conflict"}
       /\ \A r, s \in AssetsOf[c] : r.ns = s.ns => r = s
BY ToldBounds DEF Told!LedgerConstants

LEMMA NoRowIs == Told!NoRow.of = 0
BY DEF Told!NoRow

LEMMA RowIs ==
  ASSUME NEW n \in Nat \ {0}, NEW r, NEW v
  PROVE  Told!Row(n, r, v).of = n /\ Told!Row(n, r, v).ref = r /\ Told!Row(n, r, v).verdict = v /\ Told!Row(n, r, v) # Told!NoRow
BY NoRowIs DEF Told!Row

LEMMA NamespaceOf == ASSUME NEW c \in Contents, NEW r \in AssetsOf[c] PROVE r.ns \in Told!Namespaces
BY DEF Told!Namespaces

\* --- The effective revision is the last one that stands.
LEMMA EffectiveIs ==
  ASSUME NEW seen \in Seq(RevisionRow)
  PROVE  /\ Told!Standing(seen) = {n \in 1..Len(seen) : seen[n].disposition # "conflict"}
         /\ Told!Standing(seen) = {} => Told!Effective(seen) = 0
         /\ Told!Standing(seen) # {} => Told!Effective(seen) \in Told!Standing(seen)
         /\ \A n \in Told!Standing(seen) : n <= Told!Effective(seen)
         /\ Told!Effective(seen) \in 0..Len(seen)
<1> DEFINE S == Told!Standing(seen)
<1>1. S = {n \in 1..Len(seen) : seen[n].disposition # "conflict"} /\ Len(seen) \in Nat
  BY DEF Told!Standing
<1>2. S \in SUBSET Nat /\ \A n \in S : n <= Len(seen)
  BY <1>1
<1>3. Told!Effective(seen) = IF S = {} THEN 0 ELSE Told!Max(S)
  BY DEF Told!Effective
<1> HIDE DEF S
<1>4. S # {} => Told!Max(S) \in S /\ \A n \in S : Told!Max(S) >= n
  BY <1>1, <1>2, GreatestNumber DEF Told!Max
<1>5. \A n \in S : n <= Told!Effective(seen)
  <2> TAKE n \in S
  <2>1. Told!Max(S) \in Nat /\ n \in Nat /\ Told!Max(S) >= n
    BY <1>2, <1>4
  <2> QED BY <1>3, <2>1
<1>6. Told!Effective(seen) \in 0..Len(seen)
  BY <1>1, <1>2, <1>3, <1>4
<1> QED BY <1>1, <1>3, <1>4, <1>5, <1>6 DEF S

LEMMA GrewStands ==
  ASSUME NEW seen \in Seq(RevisionRow), NEW told \in Seq(RevisionRow), Grew(seen, told)
  PROVE  /\ Told!Standing(seen) \subseteq Told!Standing(told)
         /\ \A n \in Told!Standing(told) : n <= Len(seen) => n \in Told!Standing(seen)
         /\ \A n \in Told!Standing(seen) : Names(told, n) = Names(seen, n)
<1>1. /\ Told!Standing(seen) = {n \in 1..Len(seen) : seen[n].disposition # "conflict"}
      /\ Told!Standing(told) = {n \in 1..Len(told) : told[n].disposition # "conflict"}
      /\ Len(seen) \in Nat /\ Len(told) \in Nat
  BY EffectiveIs
<1> QED BY <1>1 DEF Grew, Names

LEMMA GrewOn ==
  ASSUME NEW a \in Seq(RevisionRow), NEW b \in Seq(RevisionRow), NEW c \in Seq(RevisionRow), Grew(a, b), Grew(b, c)
  PROVE  Grew(a, c)
<1>1. Len(a) \in Nat /\ Len(b) \in Nat /\ Len(c) \in Nat
  OBVIOUS
<1> QED BY <1>1 DEF Grew

\* --- The projection of a ledger.
LEMMA ProjectionIs ==
  ASSUME NEW seen \in Seq(RevisionRow), NEW catalog, NEW ns \in Told!Namespaces
  PROVE  LET n == Told!Effective(seen)
             row == Told!Projection(seen, catalog)[ns] IN
         /\ row # Told!NoRow =>
              /\ n \in Told!Standing(seen) /\ row.of = n
              /\ \E r \in Names(seen, n) : r.ns = ns /\ row = Told!Row(n, r, Told!Resolve(r, Names(seen, n), catalog))
         /\ \A r \in Names(seen, n) : n # 0 /\ r.ns = ns =>
              row.of = n /\ row = Told!Row(n, r, Told!Resolve(r, Names(seen, n), catalog))
<1> DEFINE n == Told!Effective(seen)
           refs == IF n = 0 THEN {} ELSE AssetsOf[seen[n].content]
           row == Told!Projection(seen, catalog)[ns]
<1>1. row = IF \E r \in refs : r.ns = ns
            THEN LET r == CHOOSE r \in refs : r.ns = ns IN Told!Row(n, r, Told!Resolve(r, refs, catalog))
            ELSE Told!NoRow
  BY DEF Told!Projection
<1>2. n # 0 => n \in Told!Standing(seen) /\ n \in 1..Len(seen) /\ seen[n].content \in Contents
  <2>1. n # 0 => n \in Told!Standing(seen) /\ n \in 1..Len(seen)
    BY EffectiveIs
  <2>2. \A k \in 1..Len(seen) : seen[k] \in RevisionRow
    OBVIOUS
  <2> QED BY <2>1, <2>2 DEF RevisionRow
<1>3. n # 0 => refs = Names(seen, n) /\ \A r, s \in refs : r.ns = s.ns => r = s
  BY <1>2, LedgerNumbers DEF Names
<1>4. n = 0 => row = Told!NoRow
  BY <1>1
<1>5. n \in Nat
  BY EffectiveIs
<1> HIDE DEF n, refs, row
<1>6. ASSUME NEW r \in refs, r.ns = ns, n # 0
      PROVE  row = Told!Row(n, r, Told!Resolve(r, refs, catalog)) /\ row.of = n
  <2>1. r = CHOOSE s \in refs : s.ns = ns
    BY <1>3, <1>6
  <2>2. row = Told!Row(n, r, Told!Resolve(r, refs, catalog))
    BY <1>1, <1>6, <2>1
  <2> QED BY <1>5, <1>6, <2>2, RowIs
<1>7. row # Told!NoRow => n # 0 /\ \E r \in refs : r.ns = ns
  BY <1>1, <1>4
<1>8. row # Told!NoRow => /\ n \in Told!Standing(seen) /\ row.of = n
                          /\ \E r \in Names(seen, n) : r.ns = ns /\ row = Told!Row(n, r, Told!Resolve(r, Names(seen, n), catalog))
  BY <1>2, <1>3, <1>6, <1>7
<1>9. \A r \in Names(seen, n) : n # 0 /\ r.ns = ns =>
        row.of = n /\ row = Told!Row(n, r, Told!Resolve(r, Names(seen, n), catalog))
  BY <1>3, <1>6
<1> QED BY <1>8, <1>9 DEF n, row

\* --- What was resolved once is resolved so, or to something it still matches.
LEMMA ResolvedStays ==
  ASSUME NEW r, NEW refs, NEW catalog \in SUBSET items, items \subseteq Items,
         Told!Resolve(r, refs, catalog).state \notin {"unresolved", "ambiguous"}
  PROVE  \/ Told!Resolve(r, refs, catalog) = Told!Resolve(r, refs, items)
         \/ /\ Told!Resolve(r, refs, catalog).state = "resolved"
            /\ Told!Resolve(r, refs, catalog).item \in Told!Matches(r, refs, items)
<1>1. CASE r.type = "form"
  BY <1>1 DEF Told!Resolve
<1>2. CASE r.type # "form" /\ Told!Cardinality(Told!Hints(refs)) > 1
  <2>1. Told!Resolve(r, refs, catalog) = Told!Verdict("ambiguous", Told!NoAccount, Told!NoItem)
    BY <1>2 DEF Told!Resolve
  <2> QED BY <2>1 DEF Told!Verdict
<1>3. CASE r.type # "form" /\ ~(Told!Cardinality(Told!Hints(refs)) > 1) /\ r.is = "source"
  <2>1. Told!Resolve(r, refs, catalog) = Told!ResolvedSource(r) /\ Told!Resolve(r, refs, items) = Told!ResolvedSource(r)
    BY <1>3 DEF Told!Resolve
  <2> QED BY <2>1
<1>4. CASE r.type # "form" /\ ~(Told!Cardinality(Told!Hints(refs)) > 1) /\ r.is # "source"
  <2> DEFINE found == Told!Matches(r, refs, catalog)
             owners == Told!Owners(refs)
             item == CHOOSE e \in found : TRUE
             owner == CHOOSE a \in owners : TRUE
  <2>1. Told!Resolve(r, refs, catalog) = Told!ResolvedItem(r, refs, catalog)
    BY <1>4 DEF Told!Resolve
  <2>2. found \subseteq Items /\ found \subseteq Told!Matches(r, refs, items) /\ owners \subseteq Connected
    BY DEF Told!Matches, Told!AnyItem, Told!TypedItem, Told!Owners
  <2>3. Told!ResolvedItem(r, refs, catalog) =
          CASE Told!Cardinality(found) = 1 ->
                 Told!Verdict("resolved", item.account, item)
            [] Told!Cardinality(found) > 1 -> Told!Verdict("ambiguous", Told!NoAccount, Told!NoItem)
            [] found = {} /\ Told!Cardinality(owners) = 1 -> Told!Verdict("unresolved", owner, Told!NoItem)
            [] found = {} /\ Told!Cardinality(owners) > 1 -> Told!Verdict("ambiguous", Told!NoAccount, Told!NoItem)
            [] owners = {} -> Told!Verdict("unresolved", Told!NoAccount, Told!NoItem)
    BY DEF Told!ResolvedItem
  <2>0. (found # {} => item \in found) /\ (owners = {} => found = {})
    <3>1. owners = {} => found = {}
      BY DEF Told!Matches, Told!AnyItem, Told!TypedItem
    <3> QED BY <3>1
  <2> HIDE DEF found, owners, item, owner
  <2>4. Told!IsFiniteSet(found) /\ Told!IsFiniteSet(owners)
    BY <2>2, LedgerNumbers, FS_Subset, EventSizes
  <2>5. /\ Told!Cardinality(found) \in Nat /\ (Told!Cardinality(found) = 0 <=> found = {})
        /\ Told!Cardinality(owners) \in Nat /\ (Told!Cardinality(owners) = 0 <=> owners = {})
    BY <2>4, FS_CardinalityType, FS_EmptySet, EventSizes
  <2>6. CASE Told!Cardinality(found) = 1
    <3>1. item \in found
      BY <2>0, <2>5, <2>6
    <3>2. Told!ResolvedItem(r, refs, catalog) = Told!Verdict("resolved", item.account, item)
      BY <2>0, <2>3, <2>5, <2>6
    <3> QED BY <2>1, <2>2, <3>1, <3>2 DEF Told!Verdict
  <2>7. CASE Told!Cardinality(found) # 1
    <3>1. Told!ResolvedItem(r, refs, catalog).state \in {"ambiguous", "unresolved"}
      <4>1. CASE Told!Cardinality(found) > 1
        BY <2>3, <2>5, <4>1 DEF Told!Verdict
      <4>2. CASE found = {} /\ Told!Cardinality(owners) = 1
        BY <2>3, <2>5, <4>2 DEF Told!Verdict
      <4>3. CASE found = {} /\ Told!Cardinality(owners) > 1
        BY <2>3, <2>5, <4>3 DEF Told!Verdict
      <4>4. CASE found = {} /\ owners = {}
        BY <2>3, <2>5, <4>4 DEF Told!Verdict
      <4> QED BY <2>5, <2>7, <4>1, <4>2, <4>3, <4>4
    <3> QED BY <2>1, <3>1
  <2> QED BY <2>6, <2>7
<1> QED BY <1>1, <1>2, <1>3, <1>4
\* --- Steps.
LEMMA ToldInitInv == Told!Init => ToldInv
<1> SUFFICES ASSUME Told!Init PROVE ToldInv
  OBVIOUS
<1>1. versions = <<>> /\ items = {} /\ crossed = FALSE /\ rows = [ns \in Told!Namespaces |-> Told!NoRow]
      /\ resolvers = [w \in Resolvers |-> Told!Idle]
  BY DEF Told!Init
<1>2. ToldTypes
  <2>1. <<>> \in Seq(RevisionRow)
    OBVIOUS
  <2>2. rows = [ns \in Told!Namespaces |-> rows[ns]]
    BY <1>1
  <2> QED BY <1>1, <2>1, <2>2 DEF ToldTypes
<1>6. RowsTold
  BY <1>1 DEF RowsTold
<1>3. EffectiveIsWhole
  BY <1>1, NoRowIs DEF EffectiveIsWhole
<1>4. Told!RevisionsAreTold
  BY <1>1 DEF Told!RevisionsAreTold, Told!Retired
<1>5. SnapshotsTell /\ resolvers = [w \in Resolvers |-> resolvers[w]]
  BY <1>1 DEF SnapshotsTell
<1> QED BY <1>2, <1>3, <1>4, <1>5, <1>6 DEF ToldInv

LEMMA SnapshotOf ==
  ASSUME ToldInv, NEW w \in Resolvers, resolvers[w] # Told!Idle
  PROVE  Snapshot(resolvers[w], versions, items, rows)
BY DEF ToldInv, SnapshotsTell

LEMMA BusyOf == ASSUME NEW x, x.job # "idle" PROVE x # Told!Idle
BY DEF Told!Idle

\* Others still see what they have seen: the ledger and the catalog grow, and
\* whoever has a row that was written has it marked.
LEMMA OthersSee ==
  ASSUME ToldInv, NEW x, Snapshot(x, versions, items, rows), versions' \in Seq(RevisionRow), Grew(versions, versions'),
         items \subseteq items', NEW y,
         DOMAIN y = DOMAIN x, y.job = x.job, y.content = x.content, y.item = x.item, y.seen = x.seen, y.table = x.table,
         y.catalog = x.catalog, x.stale \subseteq y.stale,
         \A ns \in Told!Present(x.table) : ns \notin y.stale => rows'[ns] = rows[ns]
  PROVE  Snapshot(y, versions', items', rows')
<1>1. Grew(x.seen, versions')
  BY GrewOn DEF Snapshot, ToldInv, ToldTypes
<1> QED BY <1>1 DEF Snapshot, Told!Present

\* The transaction that ends, and the others.
LEMMA EndKeepsTold ==
  ASSUME ToldInv, NEW w \in Resolvers, NEW written, Told!Ends(w, written),
         versions' \in Seq(RevisionRow), Grew(versions, versions'), items \subseteq items',
         \A v \in Resolvers \ {w} : resolvers[v] # Told!Idle =>
           \A ns \in Told!Present(resolvers[v].table) :
             ns \notin resolvers[v].stale \cup written => rows'[ns] = rows[ns]
  PROVE  SnapshotsTell' /\ resolvers' = [v \in Resolvers |-> resolvers'[v]]
<1>1. resolvers' = [v \in Resolvers |->
         CASE v = w -> Told!Idle
           [] v /= w /\ resolvers[v] = Told!Idle -> Told!Idle
           [] OTHER -> [resolvers[v] EXCEPT !.stale = @ \cup written]]
  BY DEF Told!Ends
<1>2. ASSUME NEW v \in Resolvers
      PROVE  resolvers'[v] = Told!Idle \/ Snapshot(resolvers'[v], versions', items', rows')
  <2>1. CASE v = w \/ resolvers[v] = Told!Idle
    BY <1>1, <2>1
  <2>2. CASE v # w /\ resolvers[v] # Told!Idle
    <3> DEFINE x == resolvers[v]
               y == [x EXCEPT !.stale = x.stale \cup written]
    <3>1. resolvers'[v] = y
      BY <1>1, <2>2
    <3>2. Snapshot(x, versions, items, rows)
      BY <2>2, SnapshotOf
    <3>4. /\ DOMAIN y = DOMAIN x /\ y.job = x.job /\ y.content = x.content /\ y.item = x.item /\ y.seen = x.seen /\ y.table = x.table
          /\ y.catalog = x.catalog
      OBVIOUS
    <3>5. x.stale \subseteq y.stale
      OBVIOUS
    <3>6. \A ns \in Told!Present(x.table) : ns \notin y.stale => rows'[ns] = rows[ns]
      BY <2>2
    <3> HIDE DEF x, y
    <3> QED BY <3>1, <3>2, <3>4, <3>5, <3>6, OthersSee
  <2> QED BY <2>1, <2>2
<1>3. resolvers' = [v \in Resolvers |-> resolvers'[v]]
  BY <1>1
<1> QED BY <1>2, <1>3 DEF SnapshotsTell

LEMMA RowStays ==
  ASSUME ToldTypes, NEW ns \in Told!Namespaces, RowTold(ns), rows'[ns] = rows[ns],
         versions' \in Seq(RevisionRow), Grew(versions, versions'), items \subseteq items'
  PROVE  RowTold(ns)'
<1> DEFINE n == rows[ns].of
<1>1. n \in Told!Standing(versions) /\ n \in Told!Standing(versions') /\ Names(versions', n) = Names(versions, n)
  BY GrewStands DEF RowTold, ToldTypes
<1>2. PICK r \in Names(versions, n), catalog \in SUBSET items :
        r.ns = ns /\ rows[ns] = Told!Row(n, r, Told!Resolve(r, Names(versions, n), catalog))
  BY DEF RowTold
<1>3. /\ r \in Names(versions', n) /\ catalog \in SUBSET items'
      /\ rows[ns] = Told!Row(n, r, Told!Resolve(r, Names(versions', n), catalog))
  BY <1>1, <1>2
<1>4. rows'[ns].of = n
  OBVIOUS
<1> HIDE DEF n
<1> QED BY <1>1, <1>2, <1>3, <1>4 DEF RowTold

\* A projection that is written, in whatever order the snapshots are.
LEMMA ProjectKeeps ==
  ASSUME ToldInv, NEW w \in Resolvers, resolvers[w] # Told!Idle,
         NEW seen \in Seq(RevisionRow), NEW catalog, Told!Project(w, seen, catalog),
         versions' \in Seq(RevisionRow), Grew(versions, versions'),
         items \subseteq items', items' \subseteq Items, crossed' \in BOOLEAN,
         Grew(resolvers[w].seen, seen), Grew(seen, versions'), catalog \subseteq items',
         \/ Told!Effective(versions') = Told!Effective(versions)
         \/ Len(versions) < Told!Effective(versions') /\ Told!Effective(versions') <= Len(seen)
  PROVE  /\ ToldTypes' /\ RowsTold' /\ EffectiveIsWhole' /\ SnapshotsTell'
         /\ resolvers' = [v \in Resolvers |-> resolvers'[v]]
<1> DEFINE new == Told!Effective(versions')
           e == Told!Effective(seen)
           target == Told!Projection(seen, catalog)
           known == Told!Present(resolvers[w].table)
<1>1. /\ versions \in Seq(RevisionRow) /\ ToldTypes /\ RowsTold /\ EffectiveIsWhole
      /\ Len(versions) \in Nat /\ Len(seen) \in Nat /\ Len(resolvers[w].seen) \in Nat
      /\ Snapshot(resolvers[w], versions, items, rows) /\ resolvers[w].seen \in Seq(RevisionRow)
  <2>1. Snapshot(resolvers[w], versions, items, rows)
    BY SnapshotOf
  <2>2. ToldTypes /\ RowsTold /\ EffectiveIsWhole /\ versions \in Seq(RevisionRow)
    BY DEF ToldInv, ToldTypes
  <2>3. resolvers[w].seen \in Seq(RevisionRow)
    BY <2>1 DEF Snapshot
  <2>4. \A told \in Seq(RevisionRow) : Len(told) \in Nat
    OBVIOUS
  <2> QED BY <2>1, <2>2, <2>3, <2>4
<1>2. /\ Told!Standing(versions) \subseteq Told!Standing(versions')
      /\ \A n \in Told!Standing(versions) : Names(versions', n) = Names(versions, n) /\ n \in 1..Len(versions)
      /\ Told!Standing(seen) \subseteq Told!Standing(versions')
      /\ \A n \in Told!Standing(versions') : n <= Len(seen) => n \in Told!Standing(seen)
      /\ \A n \in Told!Standing(seen) : Names(versions', n) = Names(seen, n)
  BY <1>1, GrewStands, EffectiveIs
<1>3. /\ new \in Nat /\ e \in Nat /\ (new # 0 => new \in Told!Standing(versions')) /\ (e # 0 => e \in Told!Standing(seen))
      /\ \A n \in Told!Standing(versions') : n <= new
      /\ \A n \in Told!Standing(seen) : n <= e
  BY EffectiveIs
<1>4. \A ns \in Told!Namespaces : rows[ns].of # 0 => rows[ns] # Told!NoRow /\ rows[ns].of \in Told!Standing(versions)
  BY <1>1, NoRowIs DEF RowsTold, RowTold
<1>5. new # 0 /\ (\E ns \in Told!Namespaces : rows[ns].of = new) =>
        /\ new = Told!Effective(versions) /\ Names(versions', new) = Names(versions, new)
        /\ \A r \in Names(versions, new) : rows[r.ns].of = new
  <2> SUFFICES ASSUME new # 0, NEW ns \in Told!Namespaces, rows[ns].of = new
               PROVE  /\ new = Told!Effective(versions) /\ Names(versions', new) = Names(versions, new)
                      /\ \A r \in Names(versions, new) : rows[r.ns].of = new
    OBVIOUS
  <2>1. new \in Told!Standing(versions) /\ new <= Len(versions)
    BY <1>2, <1>4
  <2>2. new = Told!Effective(versions)
    BY <1>1, <1>3, <2>1
  <2> QED BY <1>1, <1>2, <2>1, <2>2 DEF EffectiveIsWhole
<1>6. \A n \in Told!Standing(versions') : \A r \in Names(versions', n) : r.ns \in Told!Namespaces
  <2>1. \A n \in Told!Standing(versions') : n \in 1..Len(versions')
    BY EffectiveIs
  <2>2. \A n \in 1..Len(versions') : versions'[n].content \in Contents
    <3>1. \A n \in 1..Len(versions') : versions'[n] \in RevisionRow
      OBVIOUS
    <3> QED BY <3>1 DEF RevisionRow
  <2> QED BY <2>1, <2>2, NamespaceOf DEF Names
<1>7. CASE rows' = rows /\ Told!Ends(w, {})
  <2>1. ToldTypes'
    BY <1>1, <1>7 DEF ToldTypes
  <2>2. RowsTold'
    BY <1>1, <1>7, RowStays DEF RowsTold
  <2>3. EffectiveIsWhole'
    BY <1>5, <1>7 DEF EffectiveIsWhole
  <2>4. SnapshotsTell' /\ resolvers' = [v \in Resolvers |-> resolvers'[v]]
    BY <1>7, EndKeepsTold
  <2> QED BY <2>1, <2>2, <2>3, <2>4
<1>8. CASE /\ ~Told!Outdated(w) /\ ~Told!Taken(w, target) /\ Told!Ends(w, known)
           /\ rows' = [ns \in Told!Namespaces |-> IF ns \in known \cup Told!Present(target) THEN target[ns] ELSE rows[ns]]
  <2>1. \A ns \in known : ns \in Told!Namespaces /\ rows[ns] = resolvers[w].table[ns]
                          /\ rows[ns].of \in 1..Len(resolvers[w].seen)
    BY <1>1, <1>8 DEF Told!Outdated, Snapshot, Told!Present
  <2>2. \A ns \in Told!Present(target) : ns \in Told!Namespaces /\ target[ns] # Told!NoRow
                                         /\ (rows[ns] # Told!NoRow => ns \in known)
    BY <1>8 DEF Told!Taken, Told!Present
  <2>3. \A ns \in Told!Namespaces :
          \/ ns \in known \cup Told!Present(target) /\ rows'[ns] = target[ns]
          \/ ns \notin known \cup Told!Present(target) /\ rows'[ns] = rows[ns]
    BY <1>8
  <2>4. \A ns \in Told!Namespaces : target[ns] # Told!NoRow =>
          /\ e \in Told!Standing(seen) /\ target[ns].of = e
          /\ \E r \in Names(seen, e) : r.ns = ns /\ target[ns] = Told!Row(e, r, Told!Resolve(r, Names(seen, e), catalog))
    BY ProjectionIs
  <2>5. \A ns \in Told!Namespaces : \A r \in Names(seen, e) : e # 0 /\ r.ns = ns => target[ns].of = e
    BY ProjectionIs
  <2>6. rows' = [ns \in Told!Namespaces |-> rows'[ns]]
    BY <1>8
  <2> HIDE DEF target, known, e, new
  <2>7. RowsTold'
    <3> SUFFICES ASSUME NEW ns \in Told!Namespaces, rows'[ns] # Told!NoRow PROVE RowTold(ns)'
      BY DEF RowsTold
    <3>1. CASE rows'[ns] = rows[ns]
      <4>1. RowTold(ns)
        BY <1>1, <3>1 DEF RowsTold
      <4> QED BY <1>1, <3>1, <4>1, RowStays
    <3>2. CASE rows'[ns] = target[ns]
      <4>1. e \in Told!Standing(seen) /\ rows'[ns].of = e /\ e \in Told!Standing(versions') /\ Names(versions', e) = Names(seen, e)
        BY <1>2, <2>4, <3>2
      <4>2. PICK r \in Names(seen, e) : r.ns = ns /\ rows'[ns] = Told!Row(e, r, Told!Resolve(r, Names(seen, e), catalog))
        BY <2>4, <3>2
      <4>3. r \in Names(versions', e) /\ rows'[ns] = Told!Row(e, r, Told!Resolve(r, Names(versions', e), catalog))
        BY <4>1, <4>2
      <4> QED BY <4>1, <4>2, <4>3 DEF RowTold
    <3> QED BY <2>3, <3>1, <3>2
  <2>8. EffectiveIsWhole'
    <3> SUFFICES ASSUME new # 0, NEW ns \in Told!Namespaces, rows'[ns].of = new,
                        NEW r \in Names(versions', new)
                 PROVE  rows'[r.ns].of = new
      BY DEF EffectiveIsWhole, new
    <3>1. new \in Told!Standing(versions') /\ r.ns \in Told!Namespaces
      BY <1>3, <1>6
    <3>2. CASE e = new
      <4>1. e \in Told!Standing(seen) /\ r \in Names(seen, e)
        BY <1>2, <1>3, <3>2
      <4>2. target[r.ns].of = e
        BY <2>5, <3>1, <3>2, <4>1
      <4>3. r.ns \in Told!Present(target)
        BY <3>1, <3>2, <4>2, NoRowIs DEF Told!Present
      <4> QED BY <2>3, <3>1, <3>2, <4>2, <4>3
    <3>3. CASE e # new
      <4>1. ~(new <= Len(seen))
        <5> SUFFICES ASSUME new <= Len(seen) PROVE FALSE
          OBVIOUS
        <5>1. new \in Told!Standing(seen) /\ new <= e /\ e # 0
          BY <1>2, <1>3, <3>1
        <5>2. e <= new
          BY <1>2, <1>3, <5>1
        <5> QED BY <1>3, <3>3, <5>1, <5>2
      <4>2. \A i \in Told!Namespaces : rows[i].of = new => rows'[i] = rows[i]
        <5> SUFFICES ASSUME NEW i \in Told!Namespaces, rows[i].of = new PROVE i \notin known \cup Told!Present(target)
          BY <2>3
        <5>1. i \notin known
          <6>1. Len(resolvers[w].seen) <= Len(seen)
            BY DEF Grew
          <6>2. i \in known => new \in 1..Len(resolvers[w].seen)
            BY <2>1
          <6> QED BY <1>1, <1>3, <4>1, <6>1, <6>2
        <5>2. rows[i] # Told!NoRow
          BY NoRowIs
        <5> QED BY <2>2, <5>1, <5>2
      <4>3. rows'[ns] # target[ns]
        <5>1. target[ns] = Told!NoRow \/ target[ns].of = e
          BY <2>4
        <5> QED BY <3>3, <5>1, NoRowIs
      <4>4. rows[ns].of = new
        BY <2>3, <4>3
      <4>5. rows[r.ns].of = new
        BY <1>5, <4>4 DEF new
      <4> QED BY <3>1, <4>2, <4>5
    <3> QED BY <3>2, <3>3
  <2>9. SnapshotsTell' /\ resolvers' = [v \in Resolvers |-> resolvers'[v]]
    <3>1. ASSUME NEW v \in Resolvers \ {w}, resolvers[v] # Told!Idle, NEW ns \in Told!Present(resolvers[v].table),
                 ns \notin resolvers[v].stale \cup known
          PROVE  rows'[ns] = rows[ns]
      <4>1. ns \in Told!Namespaces /\ rows[ns] = resolvers[v].table[ns] /\ rows[ns] # Told!NoRow
        BY <3>1, SnapshotOf DEF Snapshot, Told!Present
      <4>2. ns \notin Told!Present(target)
        BY <2>2, <3>1, <4>1
      <4> QED BY <2>3, <3>1, <4>1, <4>2
    <3>2. Told!Ends(w, known)
      BY <1>8
    <3> QED BY <3>1, <3>2, EndKeepsTold
  <2> QED BY <1>1, <2>6, <2>7, <2>8, <2>9 DEF ToldTypes
<1> QED BY <1>7, <1>8 DEF Told!Project

LEMMA SameLedger ==
  ASSUME ToldInv, UNCHANGED <<versions, crossed>>
  PROVE  /\ versions' \in Seq(RevisionRow) /\ Grew(versions, versions') /\ crossed' \in BOOLEAN
         /\ Told!Effective(versions') = Told!Effective(versions) /\ Told!RevisionsAreTold'
<1>1. versions \in Seq(RevisionRow) /\ crossed \in BOOLEAN /\ Told!RevisionsAreTold
  BY DEF ToldInv, ToldTypes
<1>2. Len(versions) \in Nat
  BY <1>1
<1>3. Told!RevisionsAreTold'
  BY <1>1 DEF Told!RevisionsAreTold
<1> QED BY <1>1, <1>2, <1>3 DEF Grew

LEMMA NothingTold ==
  ASSUME ToldInv, UNCHANGED <<versions, rows, items, crossed>>
  PROVE  ToldTypes' /\ RowsTold' /\ EffectiveIsWhole' /\ Told!RevisionsAreTold'
<1>1. ToldTypes'
  BY DEF ToldInv, ToldTypes
<1>2. RowsTold'
  <2> SUFFICES ASSUME NEW ns \in Told!Namespaces, rows[ns] # Told!NoRow PROVE RowTold(ns)'
    BY DEF RowsTold
  <2>1. RowTold(ns)
    BY DEF ToldInv, RowsTold
  <2>2. Names(versions, rows[ns].of)' = Names(versions, rows[ns].of)
    BY DEF Names
  <2> QED BY <2>1, <2>2 DEF RowTold
<1>3. EffectiveIsWhole'
  <2>1. \A n : Names(versions, n)' = Names(versions, n)
    BY DEF Names
  <2> QED BY <2>1 DEF ToldInv, EffectiveIsWhole
<1>4. Told!RevisionsAreTold'
  BY DEF ToldInv, Told!RevisionsAreTold
<1> QED BY <1>1, <1>2, <1>3, <1>4

LEMMA StartKeepsTold ==
  ASSUME ToldInv, NEW w \in Resolvers, NEW job \in ToldJobs, NEW content, NEW item,
         job = "ingest" => content \in Contents, job = "upsert" => item \in Items,
         Told!Start(w, job, content, item)
  PROVE  ToldInv'
<1> DEFINE x == [job |-> job, content |-> content, item |-> item,
                 seen |-> versions, table |-> rows, catalog |-> items, stale |-> {}]
<1>1. resolvers' = [resolvers EXCEPT ![w] = x] /\ UNCHANGED <<versions, rows, items, crossed>>
  BY DEF Told!Start
<1>2. Grew(versions, versions) /\ versions \in Seq(RevisionRow)
  <2>1. versions \in Seq(RevisionRow)
    BY DEF ToldInv, ToldTypes
  <2>2. Len(versions) \in Nat
    BY <2>1
  <2> QED BY <2>1, <2>2 DEF Grew
<1>3. /\ x.job = job /\ x.content = content /\ x.item = item /\ x.seen = versions /\ x.table = rows
      /\ x.catalog = items /\ {"seen", "table", "catalog"} \subseteq DOMAIN x
  OBVIOUS
<1> HIDE DEF x
<1>4. \A ns \in Told!Present(rows) : rows[ns].of \in 1..Len(versions)
  BY <1>2, EffectiveIs DEF Told!Present, ToldInv, RowsTold, RowTold
<1>5. Snapshot(x, versions, items, rows)
  BY <1>2, <1>3, <1>4 DEF Snapshot
<1>6. \A v \in Resolvers : resolvers'[v] = x \/ resolvers'[v] = resolvers[v]
  BY <1>1 DEF ToldInv
<1>7. SnapshotsTell'
  BY <1>1, <1>5, <1>6 DEF SnapshotsTell, ToldInv
<1>8. resolvers' = [v \in Resolvers |-> resolvers'[v]]
  BY <1>1 DEF ToldInv
<1>9. ToldTypes' /\ RowsTold' /\ EffectiveIsWhole' /\ Told!RevisionsAreTold'
  BY <1>1, NothingTold
<1> QED BY <1>7, <1>8, <1>9 DEF ToldInv

LEMMA BeginKeepsTold ==
  ASSUME ToldInv, NEW w \in Resolvers, Told!BeginIngest(w) \/ Told!BeginUpsert(w) \/ Told!BeginCron(w) \/ Told!BeginErase(w)
  PROVE  ToldInv'
<1>1. CASE Told!BeginIngest(w)
  <2>1. PICK c \in Contents : Told!Start(w, "ingest", c, Told!NoItem)
    BY <1>1 DEF Told!BeginIngest
  <2> QED BY <2>1, StartKeepsTold DEF ToldJobs
<1>2. CASE Told!BeginUpsert(w)
  <2>1. PICK e \in Items : Told!Start(w, "upsert", "none", e)
    BY <1>2 DEF Told!BeginUpsert
  <2> QED BY <2>1, StartKeepsTold DEF ToldJobs
<1>3. CASE Told!BeginCron(w)
  BY <1>3, StartKeepsTold DEF Told!BeginCron, ToldJobs
<1>4. CASE Told!BeginErase(w)
  BY <1>4, StartKeepsTold DEF Told!BeginErase, ToldJobs
<1> QED BY <1>1, <1>2, <1>3, <1>4

LEMMA UpsertKeepsTold == ASSUME ToldInv, NEW w \in Resolvers, Told!Upsert(w) \/ Told!Backfill(w) PROVE ToldInv'
<1> DEFINE x == resolvers[w]
<1>1. x # Told!Idle /\ UNCHANGED <<versions, crossed>>
  BY BusyOf DEF Told!Upsert, Told!Backfill
<1>2. /\ x.seen \in Seq(RevisionRow) /\ Grew(x.seen, versions) /\ x.catalog \subseteq items
      /\ (x.job = "upsert" => x.item \in Items) /\ items \subseteq Items
  BY <1>1, SnapshotOf DEF Snapshot, ToldInv, ToldTypes
<1>3. /\ versions' \in Seq(RevisionRow) /\ Grew(versions, versions') /\ crossed' \in BOOLEAN
      /\ Told!Effective(versions') = Told!Effective(versions) /\ Told!RevisionsAreTold'
  BY <1>1, SameLedger
<1>4. Grew(x.seen, x.seen) /\ Grew(x.seen, versions')
  <2>1. Len(x.seen) \in Nat
    BY <1>2
  <2> QED BY <1>1, <1>2, <2>1 DEF Grew
<1>5. /\ items \subseteq items' /\ items' \subseteq Items
      /\ \/ rows' = rows /\ Told!Ends(w, {})
         \/ \E catalog \in SUBSET items' : Told!Project(w, x.seen, catalog)
  <2>1. CASE Told!Upsert(w)
    BY <1>2, <2>1 DEF Told!Upsert
  <2>2. CASE Told!Backfill(w)
    BY <1>2, <2>2 DEF Told!Backfill
  <2> QED BY <2>1, <2>2
<1> HIDE DEF x
<1>6. PICK catalog \in SUBSET items' : Told!Project(w, x.seen, catalog)
  <2>1. CASE rows' = rows /\ Told!Ends(w, {})
    BY <2>1 DEF Told!Project
  <2> QED BY <1>5, <2>1
<1>7. /\ ToldTypes' /\ RowsTold' /\ EffectiveIsWhole' /\ SnapshotsTell'
      /\ resolvers' = [v \in Resolvers |-> resolvers'[v]]
  BY <1>1, <1>2, <1>3, <1>4, <1>5, <1>6, ProjectKeeps DEF x
<1> QED BY <1>3, <1>7 DEF ToldInv

\* A revision is added to what was seen, or nothing is.
LEMMA AppendGrows ==
  ASSUME NEW told \in Seq(RevisionRow), NEW row \in RevisionRow
  PROVE  /\ Append(told, row) \in Seq(RevisionRow) /\ Len(Append(told, row)) = Len(told) + 1
         /\ Grew(told, Append(told, row)) /\ Grew(told, told)
         /\ \A n \in 1..Len(told) : Append(told, row)[n] = told[n]
         /\ Append(told, row)[Len(told) + 1] = row
<1>1. Append(told, row) \in Seq(RevisionRow) /\ Len(Append(told, row)) = Len(told) + 1 /\ Len(told) \in Nat
  OBVIOUS
<1>2. \A n \in 1..Len(told) : Append(told, row)[n] = told[n]
  OBVIOUS
<1>3. Append(told, row)[Len(told) + 1] = row
  OBVIOUS
<1> QED BY <1>1, <1>2, <1>3 DEF Grew

LEMMA RevisionIs ==
  ASSUME NEW c \in Contents, NEW seen
  PROVE  Told!Revision(c, seen) \in RevisionRow /\ Told!Revision(c, seen).content = c /\ Told!Revision(c, seen).erased = FALSE
<1>1. Told!Disposition(c, seen) \in {"accepted", "revised", "enriched", "conflict"}
  BY DEF Told!Disposition
<1> QED BY <1>1 DEF Told!Revision, RevisionRow

LEMMA RetiredIs ==
  ASSUME NEW seen \in Seq(RevisionRow)
  PROVE  /\ Told!Retired(seen) <=> \E n \in 1..Len(seen) : seen[n].erased
         /\ \A c : Told!Repeats(c, seen) <=> (Len(seen) # 0 /\ (Told!Retired(seen) \/ seen[Len(seen)].content = c))
         /\ Len(seen) \in Nat
<1>1. DOMAIN seen = 1..Len(seen) /\ Len(seen) \in Nat /\ (seen = <<>> <=> Len(seen) = 0)
  OBVIOUS
<1>2. Told!Last(seen) = seen[Len(seen)]
  BY DEF Told!Last
<1> QED BY <1>1, <1>2 DEF Told!Retired, Told!Repeats

LEMMA IngestKeepsTold == ASSUME ToldInv, NEW w \in Resolvers, Told!Ingest(w) PROVE ToldInv'
<1> DEFINE x == resolvers[w]
           repeats == Told!Repeats(x.content, x.seen)
           told == Told!Revision(x.content, x.seen)
<1>1. x.job = "ingest" /\ x # Told!Idle /\ UNCHANGED items
  BY BusyOf DEF Told!Ingest
<1>2. /\ x.seen \in Seq(RevisionRow) /\ Grew(x.seen, versions) /\ x.catalog \subseteq items
      /\ x.content \in Contents /\ items \subseteq Items
      /\ versions \in Seq(RevisionRow) /\ crossed \in BOOLEAN
  BY <1>1, SnapshotOf DEF Snapshot, ToldInv, ToldTypes
<1>3. \/ Told!Ends(w, {}) /\ UNCHANGED <<versions, rows, crossed>>
      \/ Told!Project(w, x.seen, x.catalog) /\ UNCHANGED <<versions, crossed>>
      \/ /\ ~repeats /\ Len(versions) = Len(x.seen) /\ versions' = Append(versions, told)
         /\ crossed' = (crossed \/ (Told!Retired(versions) /\ ~Told!Retired(x.seen)))
         /\ Told!Project(w, Append(x.seen, told), x.catalog)
  BY DEF Told!Ingest
<1>4. /\ told \in RevisionRow /\ told.content = x.content /\ told.erased = FALSE
  BY <1>2, RevisionIs
<1>5. /\ Len(x.seen) \in Nat /\ Len(versions) \in Nat /\ Grew(x.seen, x.seen)
      /\ (repeats <=> (Len(x.seen) # 0 /\ (Told!Retired(x.seen) \/ x.seen[Len(x.seen)].content = x.content)))
      /\ (Told!Retired(x.seen) <=> \E n \in 1..Len(x.seen) : x.seen[n].erased)
      /\ (Told!Retired(versions) <=> \E n \in 1..Len(versions) : versions[n].erased)
  <2>1. /\ Len(x.seen) \in Nat /\ Len(versions) \in Nat
        /\ (repeats <=> (Len(x.seen) # 0 /\ (Told!Retired(x.seen) \/ x.seen[Len(x.seen)].content = x.content)))
        /\ (Told!Retired(x.seen) <=> \E n \in 1..Len(x.seen) : x.seen[n].erased)
        /\ (Told!Retired(versions) <=> \E n \in 1..Len(versions) : versions[n].erased)
    BY <1>2, RetiredIs
  <2>2. Grew(x.seen, x.seen)
    BY <2>1 DEF Grew
  <2> QED BY <2>1, <2>2
<1> HIDE DEF x, repeats, told
<1>6. CASE UNCHANGED <<versions, crossed>>
  <2>1. /\ versions' \in Seq(RevisionRow) /\ Grew(versions, versions') /\ crossed' \in BOOLEAN
        /\ Told!Effective(versions') = Told!Effective(versions) /\ Told!RevisionsAreTold' /\ versions' = versions
    BY <1>6, SameLedger
  <2>2. PICK catalog \in SUBSET items : Told!Project(w, x.seen, catalog)
    <3>1. CASE Told!Ends(w, {}) /\ UNCHANGED rows
      BY <3>1 DEF Told!Project
    <3>2. CASE Told!Project(w, x.seen, x.catalog)
      BY <1>2, <3>2
    <3>3. ~(versions' = Append(versions, told))
      <4>1. Len(Append(versions, told)) = Len(versions) + 1
        BY <1>2, <1>4, AppendGrows
      <4> QED BY <1>5, <2>1, <4>1
    <3> QED BY <1>3, <3>1, <3>2, <3>3
  <2>3. /\ ToldTypes' /\ RowsTold' /\ EffectiveIsWhole' /\ SnapshotsTell'
        /\ resolvers' = [v \in Resolvers |-> resolvers'[v]]
    BY <1>1, <1>2, <1>5, <2>1, <2>2, ProjectKeeps DEF x
  <2> QED BY <2>1, <2>3 DEF ToldInv
<1>7. CASE /\ ~repeats /\ Len(versions) = Len(x.seen) /\ versions' = Append(versions, told)
           /\ crossed' = (crossed \/ (Told!Retired(versions) /\ ~Told!Retired(x.seen)))
           /\ Told!Project(w, Append(x.seen, told), x.catalog)
  <2> DEFINE view == Append(x.seen, told)
  <2>1. /\ versions' \in Seq(RevisionRow) /\ Len(versions') = Len(versions) + 1 /\ Grew(versions, versions')
        /\ (\A n \in 1..Len(versions) : versions'[n] = versions[n]) /\ versions'[Len(versions) + 1] = told
    BY <1>2, <1>4, <1>7, AppendGrows
  <2>2. /\ view \in Seq(RevisionRow) /\ Len(view) = Len(x.seen) + 1 /\ Grew(x.seen, view)
        /\ (\A n \in 1..Len(x.seen) : view[n] = x.seen[n]) /\ view[Len(x.seen) + 1] = told
    BY <1>2, <1>4, AppendGrows
  <2> HIDE DEF view
  <2>3. Grew(view, versions')
    <3>1. \A n \in 1..Len(x.seen) :
            /\ versions[n].content = x.seen[n].content /\ versions[n].disposition = x.seen[n].disposition
      BY <1>2 DEF Grew
    <3>2. ASSUME NEW n \in 1..Len(view)
          PROVE  versions'[n].content = view[n].content /\ versions'[n].disposition = view[n].disposition
      <4>1. n \in 1..Len(x.seen) \/ n = Len(x.seen) + 1
        BY <1>5, <2>2
      <4> QED BY <1>7, <2>1, <2>2, <3>1, <4>1
    <3> QED BY <1>5, <1>7, <2>1, <2>2, <3>2 DEF Grew
  <2>4. \/ Told!Effective(versions') = Told!Effective(versions)
        \/ Len(versions) < Told!Effective(versions') /\ Told!Effective(versions') <= Len(view)
    <3>1. /\ \A n \in Told!Standing(versions') : n <= Told!Effective(versions') /\ n \in 1..Len(versions')
          /\ \A n \in Told!Standing(versions) : n <= Told!Effective(versions)
          /\ Told!Effective(versions') \in 0..Len(versions') /\ Told!Effective(versions) \in 0..Len(versions)
          /\ (Told!Effective(versions') # 0 => Told!Effective(versions') \in Told!Standing(versions'))
          /\ (Told!Effective(versions) # 0 => Told!Effective(versions) \in Told!Standing(versions))
      BY <1>2, <2>1, EffectiveIs
    <3>2. /\ Told!Standing(versions) \subseteq Told!Standing(versions')
          /\ \A n \in Told!Standing(versions') : n <= Len(versions) => n \in Told!Standing(versions)
      BY <1>2, <2>1, GrewStands
    <3> DEFINE new == Told!Effective(versions')
               old == Told!Effective(versions)
    <3>3. new \in Nat /\ old \in Nat /\ new <= Len(versions')
      BY <1>5, <2>1, <3>1
    <3>4. CASE new <= Len(versions)
      <4>1. new # 0 => new <= old
        BY <3>1, <3>2, <3>4
      <4>2. old # 0 => old <= new
        BY <3>1, <3>2
      <4> QED BY <3>3, <4>1, <4>2
    <3>5. CASE ~(new <= Len(versions))
      BY <1>5, <1>7, <2>1, <2>2, <3>3, <3>5
    <3> QED BY <3>4, <3>5
  <2>5. crossed' \in BOOLEAN
    BY <1>2, <1>7 DEF Told!Retired
  <2>6. Told!RevisionsAreTold'
    <3>1. ASSUME NEW n \in 1..(Len(versions') - 1) PROVE versions'[n].content # versions'[n + 1].content
      <4>1. n \in 1..Len(versions)
        BY <1>5, <2>1
      <4>2. CASE n < Len(versions)
        <5>1. n \in 1..(Len(versions) - 1) /\ n + 1 \in 1..Len(versions)
          BY <1>5, <4>1, <4>2
        <5>2. versions[n].content # versions[n + 1].content
          BY <5>1 DEF ToldInv, Told!RevisionsAreTold
        <5> QED BY <2>1, <4>1, <5>1, <5>2
      <4>3. CASE n = Len(versions)
        <5>1. x.seen[n].content # x.content /\ n \in 1..Len(x.seen)
          BY <1>5, <1>7, <4>1, <4>3
        <5>2. versions[n].content = x.seen[n].content
          BY <1>2, <5>1 DEF Grew
        <5> QED BY <1>4, <2>1, <4>1, <4>3, <5>1, <5>2
      <4> QED BY <1>5, <4>1, <4>2, <4>3
    <3>2. Told!Retired(versions') /\ ~crossed' => \A n \in DOMAIN versions' : versions'[n].erased
      <4> SUFFICES ASSUME Told!Retired(versions'), ~crossed' PROVE FALSE
        OBVIOUS
      <4>1. PICK n \in 1..Len(versions') : versions'[n].erased
        BY <2>1, RetiredIs
      <4>2. n \in 1..Len(versions)
        BY <1>4, <1>5, <2>1, <4>1
      <4>3. Told!Retired(versions)
        BY <1>5, <2>1, <4>1, <4>2
      <4>4. Told!Retired(x.seen)
        BY <1>7, <4>3
      <4> QED BY <1>5, <1>7, <4>4
    <3> QED BY <3>1, <3>2 DEF Told!RevisionsAreTold, Told!Retired
  <2>7. /\ ToldTypes' /\ RowsTold' /\ EffectiveIsWhole' /\ SnapshotsTell'
        /\ resolvers' = [v \in Resolvers |-> resolvers'[v]]
    <3>1. Told!Project(w, view, x.catalog) /\ Grew(resolvers[w].seen, view) /\ resolvers[w] # Told!Idle
      BY <1>1, <1>7, <2>2 DEF x, view
    <3>2. items \subseteq items' /\ items' \subseteq Items /\ x.catalog \subseteq items'
      BY <1>1, <1>2
    <3> QED BY <2>1, <2>2, <2>3, <2>4, <2>5, <3>1, <3>2, ProjectKeeps
  <2> QED BY <2>6, <2>7 DEF ToldInv
<1> QED BY <1>3, <1>6, <1>7

\* An erasure changes neither what was told nor what stands.
LEMMA EraseKeepsTold == ASSUME ToldInv, NEW w \in Resolvers, Told!Erase(w) PROVE ToldInv'
<1> DEFINE seen == resolvers[w].seen
<1>1. /\ resolvers[w].job = "erase" /\ resolvers[w] # Told!Idle /\ UNCHANGED <<rows, items>> /\ Told!Ends(w, {})
      /\ versions' = [n \in DOMAIN versions |->
                       IF n \in DOMAIN seen THEN [versions[n] EXCEPT !.erased = TRUE] ELSE versions[n]]
      /\ crossed' = (crossed \/ Len(versions) > Len(seen))
  BY BusyOf DEF Told!Erase
<1>2. /\ seen \in Seq(RevisionRow) /\ Grew(seen, versions) /\ items \subseteq Items
      /\ versions \in Seq(RevisionRow) /\ crossed \in BOOLEAN
  BY <1>1, SnapshotOf DEF Snapshot, ToldInv, ToldTypes
<1>3. /\ Len(seen) \in Nat /\ Len(versions) \in Nat
      /\ DOMAIN versions = 1..Len(versions) /\ DOMAIN seen = 1..Len(seen)
  BY <1>2
<1> HIDE DEF seen
<1>4. ASSUME NEW n \in 1..Len(versions)
      PROVE  /\ versions'[n] \in RevisionRow /\ versions'[n].content = versions[n].content
             /\ versions'[n].disposition = versions[n].disposition
             /\ (n \in 1..Len(seen) => versions'[n].erased)
  <2>1. versions[n] \in RevisionRow
    BY <1>2
  <2>2. versions'[n] = IF n \in 1..Len(seen) THEN [versions[n] EXCEPT !.erased = TRUE] ELSE versions[n]
    BY <1>1, <1>3
  <2> QED BY <2>1, <2>2 DEF RevisionRow
<1>5. versions' \in Seq(RevisionRow) /\ Len(versions') = Len(versions)
  <2>1. versions' = [n \in 1..Len(versions) |-> versions'[n]]
    BY <1>1, <1>3
  <2>2. versions' \in [1..Len(versions) -> RevisionRow]
    BY <1>4, <2>1
  <2> QED BY <1>3, <2>2
<1>6. Grew(versions, versions')
  BY <1>3, <1>4, <1>5 DEF Grew
<1>7. Told!Standing(versions') = Told!Standing(versions) /\ Told!Effective(versions') = Told!Effective(versions)
  <2>0. \A n \in 1..Len(versions) : versions'[n].disposition = versions[n].disposition
    BY <1>4
  <2>1. Told!Standing(versions') = Told!Standing(versions)
    <3>1. Told!Standing(versions) = {n \in 1..Len(versions) : versions[n].disposition # "conflict"}
      BY <1>2, EffectiveIs
    <3>2. Told!Standing(versions') = {n \in 1..Len(versions) : versions'[n].disposition # "conflict"}
      BY <1>5, EffectiveIs
    <3> QED BY <2>0, <3>1, <3>2
  <2> QED BY <2>1 DEF Told!Effective
<1>8. ToldTypes' /\ crossed' \in BOOLEAN
  <2>1. crossed' \in BOOLEAN
    BY <1>1, <1>2, <1>3
  <2> QED BY <1>1, <1>5, <2>1 DEF ToldTypes, ToldInv
<1>9. SnapshotsTell' /\ resolvers' = [v \in Resolvers |-> resolvers'[v]]
  BY <1>1, <1>5, <1>6, EndKeepsTold
<1>10. RowsTold'
  BY <1>1, <1>5, <1>6, RowStays DEF RowsTold, ToldInv
<1>11. EffectiveIsWhole'
  <2>1. Told!Effective(versions) # 0 => Told!Effective(versions) \in Told!Standing(versions)
    BY <1>2, EffectiveIs
  <2>2. \A n \in Told!Standing(versions) : Names(versions', n) = Names(versions, n)
    BY <1>2, <1>5, <1>6, GrewStands
  <2> QED BY <1>1, <1>7, <2>1, <2>2 DEF EffectiveIsWhole, ToldInv
<1>12. Told!RevisionsAreTold'
  <2>1. \A n \in 1..(Len(versions') - 1) : versions'[n].content # versions'[n + 1].content
    <3> TAKE n \in 1..(Len(versions') - 1)
    <3>1. n \in 1..(Len(versions) - 1) /\ n \in 1..Len(versions) /\ n + 1 \in 1..Len(versions)
      BY <1>3, <1>5
    <3> QED BY <1>4, <3>1 DEF Told!RevisionsAreTold, ToldInv
  <2>2. ~crossed' => \A n \in DOMAIN versions' : versions'[n].erased
    <3>1. ~crossed' => Len(seen) = Len(versions)
      <4> SUFFICES ASSUME ~crossed' PROVE Len(seen) = Len(versions)
        OBVIOUS
      <4>1. ~(Len(versions) > Len(seen))
        BY <1>1
      <4>2. Len(seen) <= Len(versions)
        BY <1>2 DEF Grew
      <4>3. Len(seen) \in Nat /\ Len(versions) \in Nat
        BY <1>3
      <4> QED BY <4>1, <4>2, <4>3
    <3>2. DOMAIN versions' = 1..Len(versions)
      BY <1>1, <1>3
    <3> QED BY <1>4, <3>1, <3>2
  <2> QED BY <2>1, <2>2 DEF Told!RevisionsAreTold, Told!Retired
<1> QED BY <1>8, <1>9, <1>10, <1>11, <1>12 DEF ToldInv

LEMMA RetryKeepsTold == ASSUME ToldInv, NEW w \in Resolvers, Told!Retry(w) PROVE ToldInv'
<1> DEFINE x == resolvers[w]
           y == [x EXCEPT !.seen = versions, !.table = rows, !.catalog = items, !.stale = {}]
           z == IF x.job = "cron" THEN Told!Idle ELSE y
<1>1. x # Told!Idle /\ resolvers' = [resolvers EXCEPT ![w] = z] /\ UNCHANGED <<versions, rows, items, crossed>>
  BY DEF Told!Retry
<1>2. Snapshot(x, versions, items, rows)
  BY <1>1, SnapshotOf
<1>3. /\ y.job = x.job /\ y.content = x.content /\ y.item = x.item
  OBVIOUS
<1>4. y.seen = versions /\ y.table = rows /\ y.catalog = items /\ DOMAIN y = DOMAIN x
  <2> DEFINE a == [x EXCEPT !.seen = versions]
             b == [a EXCEPT !.table = rows]
             c == [b EXCEPT !.catalog = items]
  <2>1. {"seen", "table", "catalog"} \subseteq DOMAIN x
    BY <1>2 DEF Snapshot
  <2>2. a.seen = versions /\ DOMAIN a = DOMAIN x
    BY <2>1
  <2>3. b.seen = versions /\ b.table = rows /\ DOMAIN b = DOMAIN x
    BY <2>1, <2>2
  <2>4. c.seen = versions /\ c.table = rows /\ c.catalog = items /\ DOMAIN c = DOMAIN x
    BY <2>1, <2>3
  <2>5. y = [c EXCEPT !.stale = {}]
    OBVIOUS
  <2> QED BY <2>4, <2>5
<1> HIDE DEF y, z
<1>5. Grew(versions, versions) /\ versions \in Seq(RevisionRow)
  <2>1. versions \in Seq(RevisionRow)
    BY DEF ToldInv, ToldTypes
  <2>2. Len(versions) \in Nat
    BY <2>1
  <2> QED BY <2>1, <2>2 DEF Grew
<1>6. \A ns \in Told!Present(rows) : rows[ns].of \in 1..Len(versions)
  BY <1>5, EffectiveIs DEF Told!Present, ToldInv, RowsTold, RowTold
<1>7. Snapshot(y, versions, items, rows)
  BY <1>2, <1>3, <1>4, <1>5, <1>6 DEF Snapshot
<1>8. \A v \in Resolvers : resolvers'[v] = Told!Idle \/ resolvers'[v] = y \/ resolvers'[v] = resolvers[v]
  BY <1>1 DEF ToldInv, z
<1>9. SnapshotsTell'
  BY <1>1, <1>7, <1>8 DEF SnapshotsTell, ToldInv
<1>10. resolvers' = [v \in Resolvers |-> resolvers'[v]]
  BY <1>1 DEF ToldInv
<1>11. ToldTypes' /\ RowsTold' /\ EffectiveIsWhole' /\ Told!RevisionsAreTold'
  BY <1>1, NothingTold
<1> QED BY <1>9, <1>10, <1>11 DEF ToldInv

LEMMA ToldNextInv == ToldInv /\ [Told!Next]_Told!vars => ToldInv'
<1>1. ASSUME ToldInv, Told!Next PROVE ToldInv'
  BY <1>1, BeginKeepsTold, IngestKeepsTold, UpsertKeepsTold, EraseKeepsTold, RetryKeepsTold DEF Told!Next
<1>2. ASSUME ToldInv, UNCHANGED Told!vars PROVE ToldInv'
  <2>1. UNCHANGED <<versions, rows, items, resolvers, crossed>>
    BY <1>2 DEF Told!vars
  <2>2. ToldTypes' /\ RowsTold' /\ EffectiveIsWhole' /\ Told!RevisionsAreTold'
    BY <1>2, <2>1, NothingTold
  <2>3. SnapshotsTell' /\ resolvers' = [v \in Resolvers |-> resolvers'[v]]
    BY <1>2, <2>1 DEF ToldInv, SnapshotsTell
  <2> QED BY <2>2, <2>3 DEF ToldInv
<1> QED BY <1>1, <1>2

\* --- What the properties say.
LEMMA ToldGive == ToldInv => Told!LedgerTypeOK /\ Told!RevisionsAreTold /\ Told!ProjectionHeals
<1> SUFFICES ASSUME ToldInv PROVE Told!LedgerTypeOK /\ Told!ProjectionHeals
  BY DEF ToldInv
<1>1. /\ versions \in Seq(RevisionRow) /\ items \subseteq Items /\ crossed \in BOOLEAN
      /\ RowsTold /\ EffectiveIsWhole /\ DOMAIN versions = 1..Len(versions)
  <2>1. versions \in Seq(RevisionRow)
    BY DEF ToldInv, ToldTypes
  <2> QED BY <2>1 DEF ToldInv, ToldTypes
<1>2. /\ Told!Standing(versions) = {n \in 1..Len(versions) : versions[n].disposition # "conflict"}
      /\ (Told!Effective(versions) # 0 => Told!Effective(versions) \in Told!Standing(versions))
      /\ \A n \in Told!Standing(versions) : n <= Told!Effective(versions)
      /\ Told!Effective(versions) \in Nat
  BY <1>1, EffectiveIs
<1>3. Told!LedgerTypeOK
  <2>1. ASSUME NEW ns \in Told!Present(rows)
        PROVE  /\ rows[ns].of \in DOMAIN versions /\ versions[rows[ns].of].disposition # "conflict"
               /\ rows[ns].ref \in AssetsOf[versions[rows[ns].of].content] /\ rows[ns].ref.ns = ns
    <3>1. RowTold(ns)
      BY <1>1 DEF Told!Present, RowsTold
    <3>2. rows[ns].of \in 1..Len(versions) /\ versions[rows[ns].of].disposition # "conflict"
      BY <1>2, <3>1 DEF RowTold
    <3>3. PICK r \in Names(versions, rows[ns].of), catalog \in SUBSET items :
            r.ns = ns /\ rows[ns] = Told!Row(rows[ns].of, r, Told!Resolve(r, Names(versions, rows[ns].of), catalog))
      BY <3>1 DEF RowTold
    <3>4. rows[ns].ref = r
      <4> DEFINE n == rows[ns].of
                 v == Told!Resolve(r, Names(versions, n), catalog)
      <4>1. rows[ns] = Told!Row(n, r, v)
        BY <3>3
      <4> HIDE DEF n, v
      <4> QED BY <4>1 DEF Told!Row
    <3> QED BY <1>1, <3>2, <3>3, <3>4 DEF Names
  <2> QED BY <1>1, <2>1 DEF Told!LedgerTypeOK, RevisionRow
<1>4. ASSUME ~Told!Takes(versions, rows), NEW ns \in Told!Namespaces PROVE Told!Stands(ns)
  <2> DEFINE n == Told!Effective(versions)
             now == Told!Projection(versions, items)[ns]
  <2>1. /\ now # Told!NoRow =>
             /\ n \in Told!Standing(versions) /\ now.of = n
             /\ \E r \in Names(versions, n) : r.ns = ns /\ now = Told!Row(n, r, Told!Resolve(r, Names(versions, n), items))
        /\ \A r \in Names(versions, n) : n # 0 /\ r.ns = ns =>
             now.of = n /\ now = Told!Row(n, r, Told!Resolve(r, Names(versions, n), items))
    BY <1>1, ProjectionIs
  <2> HIDE DEF n, now
  <2>2. rows[ns] # Told!NoRow => n # 0 /\ RowTold(ns)
    <3> SUFFICES ASSUME rows[ns] # Told!NoRow PROVE n # 0 /\ RowTold(ns)
      OBVIOUS
    <3>1. RowTold(ns)
      BY <1>1 DEF RowsTold
    <3>2. rows[ns].of \in Told!Standing(versions) /\ rows[ns].of \in 1..Len(versions)
      BY <1>2, <3>1 DEF RowTold
    <3>3. rows[ns].of <= n /\ n \in Nat /\ rows[ns].of \in Nat /\ rows[ns].of >= 1
      BY <1>2, <3>2 DEF n
    <3> QED BY <3>1, <3>3
  <2>3. CASE rows[ns] = Told!NoRow
    <3>1. ASSUME now # Told!NoRow PROVE FALSE
      <4>1. n \in Told!Standing(versions) /\ n \in 1..Len(versions) /\ n # 0
        BY <1>2, <2>1, <3>1
      <4>2. PICK r \in Names(versions, n) : r.ns = ns
        BY <2>1, <3>1
      <4>3. \E i \in Told!Namespaces : rows[i].of = n
        BY <1>4, <4>1, <4>2 DEF Told!Takes, Names, n
      <4>4. rows[ns].of = n
        BY <1>1, <4>1, <4>2, <4>3 DEF EffectiveIsWhole, n
      <4> QED BY <2>3, <4>1, <4>4, NoRowIs
    <3> QED BY <2>3, <3>1 DEF Told!Stands, now
  <2>4. CASE rows[ns] # Told!NoRow
    <3>1. /\ n # 0 /\ RowTold(ns) /\ rows[ns].of = n /\ ns \in Told!Present(rows)
          /\ rows[ns].verdict.state \notin {"unresolved", "ambiguous"}
      BY <1>4, <2>2, <2>4 DEF Told!Takes, Told!Present, n
    <3>2. n \in 1..Len(versions) /\ versions[n] \in RevisionRow
      BY <1>1, <1>2, <3>1 DEF n
    <3>3. PICK r \in Names(versions, n), catalog \in SUBSET items :
            r.ns = ns /\ rows[ns] = Told!Row(n, r, Told!Resolve(r, Names(versions, n), catalog))
      BY <3>1 DEF RowTold
    <3> DEFINE refs == Names(versions, n)
               v == Told!Resolve(r, refs, catalog)
               u == Told!Resolve(r, refs, items)
    <3>4. now = Told!Row(n, r, u) /\ rows[ns] = Told!Row(n, r, v)
      BY <2>1, <3>1, <3>3
    <3>5. v.state \notin {"unresolved", "ambiguous"} =>
            v = u \/ (v.state = "resolved" /\ v.item \in Told!Matches(r, refs, items))
      BY <1>1, ResolvedStays
    <3>6. refs = AssetsOf[versions[n].content]
      BY DEF Names
    <3> HIDE DEF refs, v, u
    <3>7. /\ now.of = n /\ now.ref = r /\ now.verdict = u /\ now # Told!NoRow
          /\ rows[ns].of = n /\ rows[ns].ref = r /\ rows[ns].verdict = v /\ rows[ns] # Told!NoRow
      BY <3>2, <3>4, RowIs
    <3>8. v = u \/ (v.state = "resolved" /\ v.item \in Told!Matches(r, refs, items))
      BY <3>1, <3>5, <3>7
    <3>9. CASE v = u
      BY <3>4, <3>9 DEF Told!Stands, now
    <3>10. CASE v.state = "resolved" /\ v.item \in Told!Matches(r, refs, items)
      BY <3>6, <3>7, <3>10 DEF Told!Stands, now
    <3> QED BY <3>8, <3>9, <3>10
  <2> QED BY <2>3, <2>4
<1> QED BY <1>3, <1>4 DEF Told!ProjectionHeals

------------------------------------------------------------------------------
\* SaleLedger: an order's events are its rows, live or imported, and its revenue follows.
\* --- The path of the order, row by row of T, and what the events E make of it.
\* Everything has its rows and its events as arguments, so that the same facts
\* serve a step and the rows of an import.
SoldAt(T, i) == T[i].from # "sale" /\ T[i].to = "sale"
LostAt(T, i) == T[i].from = "sale" /\ T[i].to = "cancel"
SaleAt(T, n) == \E k \in 1..n : SoldAt(T, k) /\ \A j \in (k + 1)..n : ~LostAt(T, j)
SaleRow == [from : Sale!OrderStates, to : Sale!OrderStates]
PathTells(T) ==
  /\ T \in Seq(SaleRow)
  /\ \A i \in 1..Len(T) : (SoldAt(T, i) => ~SaleAt(T, i - 1)) /\ (LostAt(T, i) => SaleAt(T, i - 1))
Past(T, E) == {i \in 1..Len(T) : \A e \in E : e.mark # Sale!NoMark => i <= e.mark}

\* A confirmation is of its row, a reversal of one that came after what it
\* reverses; what is imported is named after its row, and what is live follows
\* its watermark.
MarkTells(e, T, q) == e.mark \in {Sale!NoMark} \cup (0..Len(T)) /\ (e.mark # Sale!NoMark => \E n \in 1..q : e.ref = Sale!Live(n))
ProposalTells(e, T) ==
  /\ e = Sale!SaleEvent("proposal", e.ref, Sale!NoRow, e.mark, e.reverses)
  /\ e.mark # Sale!NoMark => ~SaleAt(T, e.mark)
ConfirmTells(e, T) ==
  /\ e = Sale!SaleEvent("confirmed", e.ref, e.of, e.mark, Sale!Unreversed)
  /\ e.of \in 1..Len(T) /\ SoldAt(T, e.of)
  /\ e.mark = Sale!NoMark => e.ref = Sale!Chatter(e.of)
  /\ e.mark # Sale!NoMark => e.of = e.mark + 1
Closely(c, x, T) == \A j \in (c.of + 1)..(x.of - 1) : ~LostAt(T, j)
CancelTells(x, E, T) ==
  /\ x = Sale!SaleEvent("cancelled", x.ref, x.of, x.mark, x.reverses)
  /\ x.of \in 1..Len(T) /\ LostAt(T, x.of)
  /\ \E c \in E : /\ c.kind = "confirmed" /\ c.ref = x.reverses /\ c.of < x.of
                  /\ x.ref = Sale!Chatter(x.of) => Closely(c, x, T)
  /\ \A n : x.ref = Sale!Chatter(n) => x.of = n
  /\ x.mark = Sale!NoMark => x.ref = Sale!Chatter(x.of) \/ x.of \notin Past(T, E)
  /\ x.mark # Sale!NoMark => x.of = x.mark + 1
EventTold(e, E, T, q) ==
  MarkTells(e, T, q) /\ (ProposalTells(e, T) \/ ConfirmTells(e, T) \/ CancelTells(e, E, T))
CountedOnce(E) ==
  /\ \A e, f \in E : e.kind = f.kind /\ e.of = f.of => e = f
  /\ \A e, f \in E : e.kind = "cancelled" /\ f.kind = "cancelled" /\ e.reverses = f.reverses => e = f
  /\ \A e, f \in E : e.mark # Sale!NoMark /\ f.mark # Sale!NoMark /\ e.ref = f.ref => e = f
SaleTells(E, T, q) == Sale!IsFiniteSet(E) /\ (\A e \in E : EventTold(e, E, T, q)) /\ CountedOnce(E)

\* No confirmation that is open is older than a cancellation that was told, and
\* whoever imported one has told what was cancelled before it.
NoneBefore(E) == \A c \in Sale!OpenOf(E), x \in E : x.kind = "cancelled" => x.of < c.of
PastIsTold(E, T) ==
  \A c \in Sale!OpenOf(E) : c.mark = Sale!NoMark =>
    \A j \in Past(T, E) : j < c.of /\ LostAt(T, j) => Sale!Has(E, "cancelled", Sale!Chatter(j))
HistoryTold(E, T) == \A j \in Past(T, E) : LostAt(T, j) => \E x \in E : x.kind = "cancelled" /\ x.of = j

SequenceTells == saleSequence \in Nat /\ saleSequence <= Len(tracked) + IF Sale!Proposed(saleEvents) THEN 1 ELSE 0
LinksTell ==
  /\ orderLeads \subseteq OrderLeads
  /\ linking = {} \/ \E o \in linking : linking = {o} /\ o.lead \in OrderLeads
  /\ \A o \in linking : \A e \in saleEvents : e.mark # Sale!NoMark => <<e.ref, o.lead>> \in o.pairs
SaleTypes ==
  /\ captured \in BOOLEAN /\ leadsCaptured \in BOOLEAN /\ synced \in BOOLEAN /\ order \in Sale!OrderStates
  /\ PathTells(tracked) /\ Len(tracked) <= MaxTracked /\ (order = "sale" <=> SaleAt(tracked, Len(tracked)))
RevenueTold ==
  synced => HistoryTold(saleEvents, tracked) /\ (order = "sale" => Sale!OpenOf(saleEvents) # {})
SaleInv ==
  /\ SaleTypes /\ SequenceTells
  /\ SaleTells(saleEvents, tracked, saleSequence) /\ NoneBefore(saleEvents) /\ PastIsTold(saleEvents, tracked)
  /\ RevenueTold /\ LinksTell /\ Sale!LeadsSeeTheOrder

\* A change, whatever it looks at beside what it emits.
OrderChanged(to, told, F) == \E kind : Sale!Change(to, told, F, kind)

\* What is shown to somebody is seen or missed, and stays so.
LEMMA Shows ==
  ASSUME NEW pairs, NEW shown, Sale!Show(pairs, shown)
  PROVE  projected \cup hidden \cup pairs \subseteq projected' \cup hidden'
<1>1. CASE shown
  BY <1>1 DEF Sale!Show
<1>2. CASE ~shown
  BY <1>2 DEF Sale!Show
<1> QED BY <1>1, <1>2

LEMMA SaleNumbers == MaxTracked \in Nat
BY SaleBounds DEF Sale!SaleConstants

LEMMA SaleFields ==
  ASSUME NEW kind, NEW ref, NEW of, NEW mark, NEW reverses
  PROVE  LET e == Sale!SaleEvent(kind, ref, of, mark, reverses) IN
         e.kind = kind /\ e.ref = ref /\ e.of = of /\ e.mark = mark /\ e.reverses = reverses
BY DEF Sale!SaleEvent

LEMMA SaleRefs ==
  /\ \A m, n : Sale!Live(m) # Sale!Chatter(n) /\ Sale!Live(m) # Sale!Stamp(n) /\ Sale!Chatter(m) # Sale!Stamp(n)
  /\ \A m, n : (Sale!Live(m) = Sale!Live(n) => m = n) /\ (Sale!Chatter(m) = Sale!Chatter(n) => m = n)
BY DEF Sale!Live, Sale!Chatter, Sale!Stamp

LEMMA TrackedRows ==
  ASSUME tracked \in Seq(SaleRow)
  PROVE  Sale!Rows = 1..Len(tracked) /\ Sale!Top = Len(tracked) /\ Len(tracked) \in Nat
<1>1. Sale!Rows = 1..Len(tracked) /\ Len(tracked) \in Nat
  BY DEF Sale!Rows
<1>2. Sale!Cardinality(1..Len(tracked)) = Len(tracked)
  <2>1. Sale!Cardinality(1..Len(tracked)) = IF 1 > Len(tracked) THEN 0 ELSE (Len(tracked) - 1) + 1
    BY <1>1, FS_Interval, EventSizes
  <2> QED BY <1>1, <2>1
<1> QED BY <1>1, <1>2 DEF Sale!Top

\* --- Sizes.
LEMMA Ones ==
  ASSUME NEW S, Sale!IsFiniteSet(S)
  PROVE  (Sale!Cardinality(S) > 1 <=> \E a, b \in S : a # b) /\ Sale!Cardinality(S) \in Nat
<1>1. Sale!Cardinality(S) \in Nat
  BY FS_CardinalityType, EventSizes
<1>2. CASE S = {}
  BY <1>2, FS_EmptySet, EventSizes
<1>3. CASE S # {}
  <2>1. PICK a \in S : TRUE
    BY <1>3
  <2> DEFINE R == S \ {a}
  <2>2. Sale!IsFiniteSet(R) /\ Sale!Cardinality(R) = Sale!Cardinality(S) - 1
    BY <2>1, FS_RemoveElement, EventSizes
  <2>3. Sale!Cardinality(R) \in Nat /\ (Sale!Cardinality(R) = 0 <=> R = {})
    BY <2>2, FS_CardinalityType, FS_EmptySet, EventSizes
  <2>4. R = {} <=> ~\E b, c \in S : b # c
    BY <2>1
  <2> HIDE DEF R
  <2> QED BY <1>1, <2>2, <2>3, <2>4
<1> QED BY <1>2, <1>3

\* --- The path.
LEMMA PathFacts ==
  ASSUME NEW T, PathTells(T)
  PROVE  /\ Len(T) \in Nat
         /\ \A i : ~(SoldAt(T, i) /\ LostAt(T, i))
         /\ \A c, k \in 1..Len(T) : SoldAt(T, c) /\ SoldAt(T, k) /\ c < k =>
              \E j \in 1..Len(T) : c < j /\ j < k /\ LostAt(T, j)
         /\ \A j \in 1..Len(T) : LostAt(T, j) =>
              \E k \in 1..Len(T) : /\ k < j /\ SoldAt(T, k)
                                   /\ \A i \in 1..Len(T) : k < i /\ i < j => ~LostAt(T, i)
<1>1. Len(T) \in Nat
  BY DEF PathTells
<1>2. \A i : ~(SoldAt(T, i) /\ LostAt(T, i))
  BY DEF SoldAt, LostAt
<1>3. ASSUME NEW c \in 1..Len(T), NEW k \in 1..Len(T), SoldAt(T, c), SoldAt(T, k), c < k
      PROVE  \E j \in 1..Len(T) : c < j /\ j < k /\ LostAt(T, j)
  <2>1. ~SaleAt(T, k - 1) /\ c \in 1..(k - 1)
    BY <1>1, <1>3 DEF PathTells
  <2>2. PICK j \in (c + 1)..(k - 1) : LostAt(T, j)
    BY <1>3, <2>1 DEF SaleAt
  <2>3. j \in 1..Len(T) /\ c < j /\ j < k
    BY <1>1, <2>2
  <2> QED BY <2>2, <2>3
<1>4. ASSUME NEW j \in 1..Len(T), LostAt(T, j)
      PROVE  \E k \in 1..Len(T) : /\ k < j /\ SoldAt(T, k)
                                  /\ \A i \in 1..Len(T) : k < i /\ i < j => ~LostAt(T, i)
  <2>1. SaleAt(T, j - 1)
    BY <1>4 DEF PathTells
  <2>2. PICK k \in 1..(j - 1) : SoldAt(T, k) /\ \A i \in (k + 1)..(j - 1) : ~LostAt(T, i)
    BY <2>1 DEF SaleAt
  <2>3. k \in 1..Len(T) /\ k < j
    BY <1>1, <2>2
  <2>4. \A i \in 1..Len(T) : k < i /\ i < j => i \in (k + 1)..(j - 1)
    BY <1>1, <2>2
  <2> QED BY <2>2, <2>3, <2>4
<1> QED BY <1>1, <1>2, <1>3, <1>4

\* Two confirmations with no cancellation behind them, up to one row, are one.
LEMMA SameSale ==
  ASSUME NEW T, PathTells(T), NEW n \in Nat, NEW c \in 1..Len(T), NEW k \in 1..Len(T),
         SoldAt(T, c), SoldAt(T, k), c <= n, k <= n,
         \A j \in 1..Len(T) : c < j /\ j <= n => ~LostAt(T, j),
         \A j \in 1..Len(T) : k < j /\ j <= n => ~LostAt(T, j)
  PROVE  c = k
<1>1. Len(T) \in Nat
  BY PathFacts
<1>2. ~(c < k)
  <2> SUFFICES ASSUME c < k PROVE FALSE
    OBVIOUS
  <2>1. PICK j \in 1..Len(T) : c < j /\ j < k /\ LostAt(T, j)
    BY PathFacts
  <2> QED BY <1>1, <2>1
<1>3. ~(k < c)
  <2> SUFFICES ASSUME k < c PROVE FALSE
    OBVIOUS
  <2>1. PICK j \in 1..Len(T) : k < j /\ j < c /\ LostAt(T, j)
    BY PathFacts
  <2> QED BY <1>1, <2>1
<1> QED BY <1>1, <1>2, <1>3

LEMMA SaleBehind ==
  ASSUME NEW T, PathTells(T), NEW n \in 0..Len(T)
  PROVE  SaleAt(T, n) <=> \E k \in 1..Len(T) : /\ k <= n /\ SoldAt(T, k)
                                               /\ \A j \in 1..Len(T) : k < j /\ j <= n => ~LostAt(T, j)
<1>1. Len(T) \in Nat
  BY PathFacts
<1>2. ASSUME SaleAt(T, n)
      PROVE  \E k \in 1..Len(T) : /\ k <= n /\ SoldAt(T, k)
                                  /\ \A j \in 1..Len(T) : k < j /\ j <= n => ~LostAt(T, j)
  <2>1. PICK k \in 1..n : SoldAt(T, k) /\ \A j \in (k + 1)..n : ~LostAt(T, j)
    BY <1>2 DEF SaleAt
  <2>2. k \in 1..Len(T) /\ k <= n
    BY <1>1, <2>1
  <2>3. \A j \in 1..Len(T) : k < j /\ j <= n => j \in (k + 1)..n
    BY <1>1, <2>1
  <2> QED BY <2>1, <2>2, <2>3
<1>3. ASSUME NEW k \in 1..Len(T), k <= n, SoldAt(T, k),
             \A j \in 1..Len(T) : k < j /\ j <= n => ~LostAt(T, j)
      PROVE  SaleAt(T, n)
  <2>1. k \in 1..n
    BY <1>1, <1>3
  <2>2. \A j \in (k + 1)..n : j \in 1..Len(T) /\ k < j /\ j <= n
    BY <1>1, <1>3
  <2> QED BY <1>3, <2>1, <2>2 DEF SaleAt
<1> QED BY <1>2, <1>3

LEMMA PastFacts ==
  ASSUME NEW T, PathTells(T), NEW E
  PROVE  /\ Past(T, E) \subseteq 1..Len(T)
         /\ \A i \in Past(T, E), j \in 1..Len(T) : j < i => j \in Past(T, E) \/ \E e \in E : e.mark \notin Int
         /\ \A F : E \subseteq F => Past(T, F) \subseteq Past(T, E)
<1>1. Len(T) \in Nat
  BY PathFacts
<1>2. ASSUME NEW i \in Past(T, E), NEW j \in 1..Len(T), j < i, \A e \in E : e.mark \in Int
      PROVE  j \in Past(T, E)
  <2>1. \A e \in E : e.mark # Sale!NoMark => j <= e.mark
    <3> TAKE e \in E
    <3>1. e.mark # Sale!NoMark => i <= e.mark
      BY DEF Past
    <3>2. e.mark \in Int /\ i \in Int /\ j \in Int
      BY <1>1, <1>2 DEF Past
    <3> QED BY <1>2, <3>1, <3>2
  <2> QED BY <2>1 DEF Past
<1> QED BY <1>1, <1>2 DEF Past

LEMMA MarksAreNumbers ==
  ASSUME NEW E, NEW T, NEW q, PathTells(T), \A e \in E : EventTold(e, E, T, q)
  PROVE  \A e \in E : e.mark \in Int /\ (e.mark # Sale!NoMark => e.mark \in 0..Len(T))
BY PathFacts DEF EventTold, MarkTells, Sale!NoMark

\* What the three forms of an event say of its fields.
LEMMA EventKinds ==
  ASSUME NEW E, NEW T, NEW q, PathTells(T), \A e \in E : EventTold(e, E, T, q), NEW e \in E
  PROVE  /\ e.kind \in {"proposal", "confirmed", "cancelled"}
         /\ e.kind = "proposal" => ProposalTells(e, T) /\ e.of = Sale!NoRow
         /\ e.kind = "confirmed" => ConfirmTells(e, T) /\ e.of \in 1..Len(T) /\ SoldAt(T, e.of)
         /\ e.kind = "cancelled" => CancelTells(e, E, T) /\ e.of \in 1..Len(T) /\ LostAt(T, e.of)
         /\ MarkTells(e, T, q)
<1>1. MarkTells(e, T, q) /\ (ProposalTells(e, T) \/ ConfirmTells(e, T) \/ CancelTells(e, E, T))
  BY DEF EventTold
<1>2. ProposalTells(e, T) => e.kind = "proposal" /\ e.of = Sale!NoRow
  BY SaleFields DEF ProposalTells
<1>3. ConfirmTells(e, T) => e.kind = "confirmed" /\ e.of \in 1..Len(T) /\ SoldAt(T, e.of)
  BY SaleFields DEF ConfirmTells
<1>4. CancelTells(e, E, T) => e.kind = "cancelled" /\ e.of \in 1..Len(T) /\ LostAt(T, e.of)
  BY SaleFields DEF CancelTells
<1> QED BY <1>1, <1>2, <1>3, <1>4

\* What was told stays so when something is added.
LEMMA ToldStays ==
  ASSUME NEW T, PathTells(T), NEW q, NEW E, NEW F, E \subseteq F, NEW e \in E, EventTold(e, E, T, q)
  PROVE  EventTold(e, F, T, q)
<1>1. Past(T, F) \subseteq Past(T, E)
  BY PastFacts
<1>2. CancelTells(e, E, T) => CancelTells(e, F, T)
  BY <1>1 DEF CancelTells
<1> QED BY <1>2 DEF EventTold

\* A reference names one confirmation.
LEMMA OneByRef ==
  ASSUME NEW T, PathTells(T), NEW q, NEW E, SaleTells(E, T, q), NEW c \in E, NEW k \in E,
         c.kind = "confirmed", k.kind = "confirmed", c.ref = k.ref
  PROVE  c = k
<1>1. /\ ConfirmTells(c, T) /\ ConfirmTells(k, T) /\ MarkTells(c, T, q) /\ MarkTells(k, T, q)
  BY EventKinds DEF SaleTells
<1>2. CountedOnce(E)
  BY DEF SaleTells
<1>3. CASE c.mark # Sale!NoMark /\ k.mark # Sale!NoMark
  BY <1>2, <1>3 DEF CountedOnce
<1>4. CASE c.mark = Sale!NoMark /\ k.mark = Sale!NoMark
  <2>1. c.of = k.of
    BY <1>1, <1>4, SaleRefs DEF ConfirmTells
  <2> QED BY <1>2, <2>1 DEF CountedOnce
<1>5. ~(c.mark = Sale!NoMark /\ k.mark # Sale!NoMark) /\ ~(c.mark # Sale!NoMark /\ k.mark = Sale!NoMark)
  BY <1>1, SaleRefs DEF ConfirmTells, MarkTells
<1> QED BY <1>3, <1>4, <1>5

LEMMA OpenIs ==
  ASSUME NEW E, NEW c
  PROVE  c \in Sale!OpenOf(E) <=> (/\ c \in E /\ c.kind = "confirmed"
                                   /\ \A x \in E : x.kind = "cancelled" => x.reverses # c.ref)
BY DEF Sale!OpenOf

LEMMA AddProposal ==
  ASSUME NEW T, PathTells(T), NEW q, NEW E, SaleTells(E, T, q), NEW e,
         MarkTells(e, T, q), ProposalTells(e, T), ~Sale!Proposed(E),
         e.mark # Sale!NoMark => \A f \in E : f.mark # Sale!NoMark => f.ref # e.ref
  PROVE  SaleTells(E \cup {e}, T, q) /\ Sale!OpenOf(E \cup {e}) = Sale!OpenOf(E)
<1>1. e.kind = "proposal"
  BY SaleFields DEF ProposalTells
<1>2. \A f \in E : f.kind # "proposal"
  BY DEF Sale!Proposed
<1>3. ASSUME NEW f \in E \cup {e} PROVE EventTold(f, E \cup {e}, T, q)
  <2>1. CASE f \in E
    <3>1. EventTold(f, E, T, q) /\ E \subseteq E \cup {e}
      BY <2>1 DEF SaleTells
    <3> QED BY <2>1, <3>1, ToldStays
  <2>2. CASE f = e
    BY <2>2 DEF EventTold
  <2> QED BY <2>1, <2>2
<1>4. CountedOnce(E \cup {e})
  BY <1>1, <1>2 DEF CountedOnce, SaleTells
<1>5. Sale!IsFiniteSet(E \cup {e})
  BY FS_AddElement, EventSizes DEF SaleTells
<1>6. Sale!OpenOf(E \cup {e}) = Sale!OpenOf(E)
  BY <1>1 DEF Sale!OpenOf
<1> QED BY <1>3, <1>4, <1>5, <1>6 DEF SaleTells

LEMMA AddConfirm ==
  ASSUME NEW T, PathTells(T), NEW q, NEW E, SaleTells(E, T, q), NEW c,
         MarkTells(c, T, q), ConfirmTells(c, T),
         \A f \in E : f.kind = "confirmed" /\ f.of = c.of => f = c,
         c.mark # Sale!NoMark => \A f \in E : f.mark # Sale!NoMark => f.ref # c.ref
  PROVE  /\ SaleTells(E \cup {c}, T, q)
         /\ Sale!OpenOf(E) \subseteq Sale!OpenOf(E \cup {c}) /\ Sale!OpenOf(E \cup {c}) \subseteq Sale!OpenOf(E) \cup {c}
         /\ c \notin E => c \in Sale!OpenOf(E \cup {c})
<1>1. c.kind = "confirmed"
  BY SaleFields DEF ConfirmTells
<1>2. ASSUME NEW f \in E \cup {c} PROVE EventTold(f, E \cup {c}, T, q)
  <2>1. CASE f \in E
    <3>1. EventTold(f, E, T, q) /\ E \subseteq E \cup {c}
      BY <2>1 DEF SaleTells
    <3> QED BY <2>1, <3>1, ToldStays
  <2>2. CASE f = c
    BY <2>2 DEF EventTold
  <2> QED BY <2>1, <2>2
<1>3. CountedOnce(E \cup {c})
  BY <1>1 DEF CountedOnce, SaleTells
<1>4. Sale!IsFiniteSet(E \cup {c})
  BY FS_AddElement, EventSizes DEF SaleTells
<1>5. SaleTells(E \cup {c}, T, q)
  BY <1>2, <1>3, <1>4 DEF SaleTells
<1>6. Sale!OpenOf(E) \subseteq Sale!OpenOf(E \cup {c}) /\ Sale!OpenOf(E \cup {c}) \subseteq Sale!OpenOf(E) \cup {c}
  BY <1>1 DEF Sale!OpenOf
<1>7. ASSUME c \notin E, c \notin Sale!OpenOf(E \cup {c}) PROVE FALSE
  <2>1. PICK x \in E \cup {c} : x.kind = "cancelled" /\ x.reverses = c.ref
    BY <1>1, <1>7, OpenIs
  <2>2. x \in E /\ CancelTells(x, E, T)
    BY <1>1, <2>1, EventKinds DEF SaleTells
  <2>3. PICK k \in E : k.kind = "confirmed" /\ k.ref = x.reverses
    BY <2>2 DEF CancelTells
  <2>4. k = c
    BY <1>1, <1>5, <2>1, <2>3, OneByRef
  <2> QED BY <1>7, <2>3, <2>4
<1> QED BY <1>5, <1>6, <1>7

\* What a reversal x of the open confirmation c has to fit.
CancelFits(x, c, E, T, q) ==
  /\ MarkTells(x, T, q) /\ x = Sale!SaleEvent("cancelled", x.ref, x.of, x.mark, c.ref)
  /\ x.of \in 1..Len(T) /\ LostAt(T, x.of) /\ c.of < x.of /\ (x.ref = Sale!Chatter(x.of) => Closely(c, x, T))
  /\ \A n : x.ref = Sale!Chatter(n) => x.of = n
  /\ x.mark = Sale!NoMark => x.ref = Sale!Chatter(x.of) \/ x.of \notin Past(T, E)
  /\ x.mark # Sale!NoMark => x.of = x.mark + 1
  /\ \A f \in E : f.kind = "cancelled" => f.of # x.of
  /\ x.mark # Sale!NoMark => \A f \in E : f.mark # Sale!NoMark => f.ref # x.ref

LEMMA AddCancel ==
  ASSUME NEW T, PathTells(T), NEW q, NEW E, SaleTells(E, T, q), NEW c \in Sale!OpenOf(E), NEW x, CancelFits(x, c, E, T, q)
  PROVE  SaleTells(E \cup {x}, T, q) /\ Sale!OpenOf(E \cup {x}) = Sale!OpenOf(E) \ {c}
<1> USE DEF CancelFits
<1>1. x.kind = "cancelled" /\ x.reverses = c.ref
  BY SaleFields
<1>2. c \in E /\ c.kind = "confirmed" /\ \A f \in E : f.kind = "cancelled" => f.reverses # c.ref
  BY OpenIs
<1>3. Past(T, E \cup {x}) \subseteq Past(T, E)
  BY PastFacts
<1>4. CancelTells(x, E \cup {x}, T)
  BY <1>1, <1>2, <1>3 DEF CancelTells
<1>5. ASSUME NEW f \in E \cup {x} PROVE EventTold(f, E \cup {x}, T, q)
  <2>1. CASE f \in E
    <3>1. EventTold(f, E, T, q) /\ E \subseteq E \cup {x}
      BY <2>1 DEF SaleTells
    <3> QED BY <2>1, <3>1, ToldStays
  <2>2. CASE f = x
    BY <1>4, <2>2 DEF EventTold
  <2> QED BY <2>1, <2>2
<1>6. CountedOnce(E \cup {x})
  <2>1. CountedOnce(E)
    BY DEF SaleTells
  <2> QED BY <1>1, <1>2, <2>1 DEF CountedOnce
<1>7. Sale!IsFiniteSet(E \cup {x})
  BY FS_AddElement, EventSizes DEF SaleTells
<1>8. ASSUME NEW k PROVE k \in Sale!OpenOf(E \cup {x}) <=> k \in Sale!OpenOf(E) \ {c}
  <2>1. k \in Sale!OpenOf(E \cup {x}) => k \in Sale!OpenOf(E) /\ k # c
    BY <1>1 DEF Sale!OpenOf
  <2>2. k \in Sale!OpenOf(E) /\ k # c => k.ref # c.ref
    <3>1. k \in Sale!OpenOf(E) => k \in E /\ k.kind = "confirmed"
      BY OpenIs
    <3> QED BY <1>2, <3>1, OneByRef
  <2>3. k \in Sale!OpenOf(E) /\ k # c => k \in Sale!OpenOf(E \cup {x})
    BY <1>1, <2>2 DEF Sale!OpenOf
  <2> QED BY <2>1, <2>3
<1> QED BY <1>5, <1>6, <1>7, <1>8 DEF SaleTells

\* --- The confirmation that a reversal needs.
LEMMA LastConfirmationIs ==
  ASSUME PathTells(tracked), NEW before \in 1..(Len(tracked) + 1), SaleAt(tracked, before - 1)
  PROVE  LET k == Sale!LastConfirmation(before) IN
         /\ k \in 1..Len(tracked) /\ k < before /\ SoldAt(tracked, k)
         /\ \A j \in 1..Len(tracked) : k < j /\ j < before => ~LostAt(tracked, j)
<1> DEFINE S == {i \in Sale!Rows : i < before /\ Sale!Confirms(i)} \cup {Sale!NoRow}
           k == Sale!LastConfirmation(before)
<1>1. Sale!Rows = 1..Len(tracked) /\ Len(tracked) \in Nat
  BY TrackedRows DEF PathTells
<1>2. \A i : Sale!Confirms(i) <=> SoldAt(tracked, i)
  BY DEF Sale!Confirms, SoldAt
<1>3. S \in SUBSET Nat /\ \A i \in S : i <= Len(tracked)
  BY <1>1 DEF Sale!NoRow
<1>4. PICK c \in 1..Len(tracked) :
        /\ c <= before - 1 /\ SoldAt(tracked, c)
        /\ \A j \in 1..Len(tracked) : c < j /\ j <= before - 1 => ~LostAt(tracked, j)
  <2>1. before - 1 \in 0..Len(tracked)
    BY <1>1
  <2> QED BY <2>1, SaleBehind
<1>5. c \in S
  BY <1>1, <1>2, <1>4
<1>6. k = Sale!Max(S)
  BY DEF Sale!LastConfirmation
<1> HIDE DEF S, k
<1>7. k \in S /\ \A i \in S : k >= i
  BY <1>1, <1>3, <1>5, <1>6, GreatestNumber DEF Sale!Max
<1>8. k >= c /\ k \in Nat /\ k # Sale!NoRow
  BY <1>3, <1>4, <1>5, <1>7 DEF Sale!NoRow
<1>9. k \in 1..Len(tracked) /\ k < before /\ SoldAt(tracked, k)
  BY <1>1, <1>2, <1>7, <1>8 DEF S
<1>10. \A j \in 1..Len(tracked) : k < j /\ j < before => ~LostAt(tracked, j)
  BY <1>1, <1>4, <1>8
<1> QED BY <1>9, <1>10 DEF k

LEMMA EnsureIs ==
  ASSUME NEW E, Sale!IsFiniteSet(E), PathTells(tracked), NEW before \in 1..(Len(tracked) + 1),
         SaleAt(tracked, before - 1), NEW h \in BOOLEAN, ~Sale!Ambiguous(E, h)
  PROVE  LET unclosed == Sale!OpenConfirmation(E, h)
             k == Sale!LastConfirmation(before)
             c == Sale!SaleEvent("confirmed", Sale!Chatter(k), k, Sale!NoMark, Sale!Unreversed) IN
         \/ \E o \in unclosed : unclosed = {o} /\ Sale!EnsureConfirmation(E, before, h) = {o}
         \/ unclosed = {} /\ Sale!EnsureConfirmation(E, before, h) = {c}
<1> DEFINE unclosed == Sale!OpenConfirmation(E, h)
<1>1. Sale!IsFiniteSet(unclosed)
  <2>1. unclosed \subseteq E
    BY DEF Sale!OpenConfirmation, Sale!OpenOf
  <2> QED BY <2>1, FS_Subset, EventSizes
<1>2. \A a, b \in unclosed : a = b
  BY <1>1, Ones DEF Sale!Ambiguous
<1>3. CASE unclosed # {}
  <2>1. PICK o \in unclosed : TRUE
    BY <1>3
  <2>2. unclosed = {o}
    BY <1>2, <2>1
  <2>3. Sale!EnsureConfirmation(E, before, h) = unclosed
    BY <1>3 DEF Sale!EnsureConfirmation
  <2> QED BY <2>1, <2>2, <2>3
<1>4. CASE unclosed = {}
  BY <1>4 DEF Sale!EnsureConfirmation
<1> QED BY <1>3, <1>4

\* The confirmation c that a reversal finds, or that is imported for it.
Ensured(c, E, q, before, h) ==
  /\ Sale!EnsureConfirmation(E, before, h) = {c}
  /\ SaleTells(E \cup {c}, tracked, q) /\ c.kind = "confirmed"
  /\ \/ c \in E /\ Sale!OpenConfirmation(E, h) = {c}
     \/ /\ Sale!OpenConfirmation(E, h) = {} /\ c.mark = Sale!NoMark
        /\ c.of \in 1..Len(tracked) /\ c.of < before /\ SoldAt(tracked, c.of)
        /\ \A j \in 1..Len(tracked) : c.of < j /\ j < before => ~LostAt(tracked, j)
  /\ Sale!OpenOf(E) \subseteq Sale!OpenOf(E \cup {c}) /\ Sale!OpenOf(E \cup {c}) \subseteq Sale!OpenOf(E) \cup {c}
  /\ (\A x \in E : x.kind = "cancelled" => x.reverses # c.ref) => c \in Sale!OpenOf(E \cup {c})

LEMMA EnsureAdds ==
  ASSUME NEW E, NEW q, SaleTells(E, tracked, q), PathTells(tracked), NEW before \in 1..(Len(tracked) + 1),
         SaleAt(tracked, before - 1), NEW h \in BOOLEAN, ~Sale!Ambiguous(E, h),
         \A f \in E : Sale!OpenConfirmation(E, h) = {} /\ f.kind = "confirmed" /\ f.mark # Sale!NoMark =>
           f.of # Sale!LastConfirmation(before)
  PROVE  \E c : Ensured(c, E, q, before, h)
<1> USE DEF Ensured
<1> DEFINE unclosed == Sale!OpenConfirmation(E, h)
           k == Sale!LastConfirmation(before)
           n == Sale!SaleEvent("confirmed", Sale!Chatter(k), k, Sale!NoMark, Sale!Unreversed)
<1>1. \/ \E o \in unclosed : unclosed = {o} /\ Sale!EnsureConfirmation(E, before, h) = {o}
      \/ unclosed = {} /\ Sale!EnsureConfirmation(E, before, h) = {n}
  BY EnsureIs DEF SaleTells
<1>2. ASSUME NEW o \in unclosed, unclosed = {o}, Sale!EnsureConfirmation(E, before, h) = {o}
      PROVE  \E c : /\ Sale!EnsureConfirmation(E, before, h) = {c} /\ c \in E /\ unclosed = {c}
                    /\ c.kind = "confirmed" /\ E \cup {c} = E /\ c \in Sale!OpenOf(E)
  <2>1. o \in Sale!OpenOf(E)
    BY <1>2 DEF Sale!OpenConfirmation
  <2>2. o \in E /\ o.kind = "confirmed" /\ E \cup {o} = E
    BY <2>1, OpenIs
  <2> QED BY <1>2, <2>1, <2>2
<1>3. ASSUME unclosed = {}, Sale!EnsureConfirmation(E, before, h) = {n}
      PROVE  /\ SaleTells(E \cup {n}, tracked, q) /\ n.kind = "confirmed" /\ n.mark = Sale!NoMark
             /\ n.of \in 1..Len(tracked) /\ n.of < before /\ SoldAt(tracked, n.of)
             /\ \A j \in 1..Len(tracked) : n.of < j /\ j < before => ~LostAt(tracked, j)
             /\ Sale!OpenOf(E) \subseteq Sale!OpenOf(E \cup {n}) /\ Sale!OpenOf(E \cup {n}) \subseteq Sale!OpenOf(E) \cup {n}
             /\ (\A x \in E : x.kind = "cancelled" => x.reverses # n.ref) => n \in Sale!OpenOf(E \cup {n})
  <2>1. /\ k \in 1..Len(tracked) /\ k < before /\ SoldAt(tracked, k)
        /\ \A j \in 1..Len(tracked) : k < j /\ j < before => ~LostAt(tracked, j)
    BY LastConfirmationIs
  <2>2. n.kind = "confirmed" /\ n.of = k /\ n.mark = Sale!NoMark /\ n.ref = Sale!Chatter(k) /\ n.reverses = Sale!Unreversed
    BY SaleFields
  <2>3. ConfirmTells(n, tracked) /\ MarkTells(n, tracked, q)
    <3>1. n = Sale!SaleEvent("confirmed", n.ref, n.of, n.mark, Sale!Unreversed)
      BY <2>2
    <3> HIDE DEF n, k
    <3> QED BY <2>1, <2>2, <3>1 DEF ConfirmTells, MarkTells
  <2>4. \A f \in E : f.kind = "confirmed" /\ f.of = n.of => f = n
    <3> SUFFICES ASSUME NEW f \in E, f.kind = "confirmed", f.of = k PROVE f = n
      BY <2>2
    <3>1. f.mark = Sale!NoMark
      BY <1>3
    <3>2. ConfirmTells(f, tracked)
      BY EventKinds DEF SaleTells
    <3>3. f.ref = Sale!Chatter(k) /\ f = Sale!SaleEvent("confirmed", f.ref, f.of, f.mark, Sale!Unreversed)
      BY <3>1, <3>2 DEF ConfirmTells
    <3> QED BY <3>1, <3>3
  <2> HIDE DEF n, k
  <2>5. /\ SaleTells(E \cup {n}, tracked, q)
        /\ Sale!OpenOf(E) \subseteq Sale!OpenOf(E \cup {n}) /\ Sale!OpenOf(E \cup {n}) \subseteq Sale!OpenOf(E) \cup {n}
        /\ n \notin E => n \in Sale!OpenOf(E \cup {n})
    BY <2>2, <2>3, <2>4, AddConfirm
  <2>6. n \in E /\ (\A x \in E : x.kind = "cancelled" => x.reverses # n.ref) => n \in Sale!OpenOf(E \cup {n})
    <3>1. n \in E => E \cup {n} = E
      OBVIOUS
    <3> QED BY <2>2, <3>1, OpenIs
  <2> QED BY <2>1, <2>2, <2>5, <2>6
<1> HIDE DEF n, unclosed
<1>4. CASE \E o \in unclosed : unclosed = {o} /\ Sale!EnsureConfirmation(E, before, h) = {o}
  <2>1. PICK c : /\ Sale!EnsureConfirmation(E, before, h) = {c} /\ c \in E /\ unclosed = {c}
                 /\ c.kind = "confirmed" /\ E \cup {c} = E /\ c \in Sale!OpenOf(E)
    BY <1>2, <1>4
  <2> QED BY <2>1 DEF unclosed
<1>5. CASE unclosed = {} /\ Sale!EnsureConfirmation(E, before, h) = {n}
  BY <1>3, <1>5 DEF unclosed
<1> QED BY <1>1, <1>4, <1>5

\* --- A row that is added, and what was told before it.
LEMMA RowAdds ==
  ASSUME NEW T, PathTells(T), NEW row \in SaleRow, NEW U, U = Append(T, row)
  PROVE  /\ U \in Seq(SaleRow) /\ Len(U) = Len(T) + 1 /\ U[Len(T) + 1] = row
         /\ \A i \in 1..Len(T) : (SoldAt(U, i) <=> SoldAt(T, i)) /\ (LostAt(U, i) <=> LostAt(T, i))
         /\ \A n \in 0..Len(T) : SaleAt(U, n) <=> SaleAt(T, n)
<1>1. T \in Seq(SaleRow) /\ Len(T) \in Nat
  BY DEF PathTells
<1>2. U \in Seq(SaleRow) /\ Len(U) = Len(T) + 1 /\ U[Len(T) + 1] = row
  BY <1>1
<1>3. \A i \in 1..Len(T) : U[i] = T[i]
  BY <1>1
<1>4. \A i \in 1..Len(T) : (SoldAt(U, i) <=> SoldAt(T, i)) /\ (LostAt(U, i) <=> LostAt(T, i))
  BY <1>3 DEF SoldAt, LostAt
<1>5. \A n \in 0..Len(T) : SaleAt(U, n) <=> SaleAt(T, n)
  <2> TAKE n \in 0..Len(T)
  <2>1. \A k \in 1..n : k \in 1..Len(T) /\ \A j \in (k + 1)..n : j \in 1..Len(T)
    BY <1>1
  <2> QED BY <1>4, <2>1 DEF SaleAt
<1> QED BY <1>2, <1>4, <1>5

LEMMA PathGrows ==
  ASSUME NEW T, PathTells(T), NEW row \in SaleRow, row.from = "sale" <=> SaleAt(T, Len(T)),
         row.to = "sale" => row.from \in {"draft", "sent"}, row.from = "sale" => row.to = "cancel",
         NEW U, U = Append(T, row)
  PROVE  PathTells(U) /\ Len(U) = Len(T) + 1 /\ (row.to = "sale" <=> SaleAt(U, Len(U)))
         /\ (SoldAt(U, Len(U)) <=> row.to = "sale") /\ (LostAt(U, Len(U)) <=> row.from = "sale")
<1>1. /\ U \in Seq(SaleRow) /\ Len(U) = Len(T) + 1 /\ U[Len(T) + 1] = row
      /\ \A i \in 1..Len(T) : (SoldAt(U, i) <=> SoldAt(T, i)) /\ (LostAt(U, i) <=> LostAt(T, i))
      /\ \A n \in 0..Len(T) : SaleAt(U, n) <=> SaleAt(T, n)
      /\ Len(T) \in Nat
  <2>1. U = Append(T, row)
    OBVIOUS
  <2>2. Len(T) \in Nat
    BY PathFacts
  <2> QED BY <2>1, <2>2, RowAdds
<1>2. (SoldAt(U, Len(U)) <=> row.to = "sale") /\ (LostAt(U, Len(U)) <=> row.from = "sale")
  BY <1>1 DEF SoldAt, LostAt
<1>3. \A i \in 1..Len(U) : (SoldAt(U, i) => ~SaleAt(U, i - 1)) /\ (LostAt(U, i) => SaleAt(U, i - 1))
  <2> TAKE i \in 1..Len(U)
  <2>1. CASE i \in 1..Len(T)
    <3>1. i - 1 \in 0..Len(T)
      BY <1>1
    <3> QED BY <1>1, <2>1, <3>1 DEF PathTells
  <2>2. CASE i = Len(T) + 1
    <3>1. i - 1 = Len(T) /\ Len(T) \in 0..Len(T) /\ i = Len(U)
      BY <1>1, <2>2
    <3>2. SaleAt(U, i - 1) <=> SaleAt(T, Len(T))
      BY <1>1, <3>1
    <3> QED BY <1>2, <3>1, <3>2
  <2> QED BY <1>1, <2>1, <2>2
<1>4. PathTells(U)
  BY <1>1, <1>3 DEF PathTells
<1>5. row.to = "sale" => SaleAt(U, Len(U))
  <2> SUFFICES ASSUME row.to = "sale" PROVE SaleAt(U, Len(U))
    OBVIOUS
  <2>1. Len(U) \in 1..Len(U) /\ (Len(U) + 1)..Len(U) = {}
    BY <1>1
  <2> QED BY <1>2, <2>1 DEF SaleAt
<1>6. ASSUME SaleAt(U, Len(U)), row.to # "sale" PROVE FALSE
  <2>1. PICK k \in 1..Len(U) : SoldAt(U, k) /\ \A j \in (k + 1)..Len(U) : ~LostAt(U, j)
    BY <1>6 DEF SaleAt
  <2>2. k \in 1..Len(T)
    BY <1>1, <1>2, <1>6, <2>1
  <2>3. Len(U) \in (k + 1)..Len(U) /\ \A j \in (k + 1)..Len(T) : j \in (k + 1)..Len(U)
    BY <1>1, <2>2
  <2>4. SaleAt(U, Len(T))
    BY <2>1, <2>2, <2>3 DEF SaleAt
  <2>5. row.from = "sale"
    <3>1. Len(T) \in 0..Len(T)
      BY <1>1
    <3> QED BY <1>1, <2>4, <3>1
  <2> QED BY <1>2, <2>1, <2>3, <2>5
<1> QED BY <1>1, <1>2, <1>4, <1>5, <1>6

LEMMA TellsOn ==
  ASSUME NEW T, PathTells(T), NEW row \in SaleRow, NEW U, U = Append(T, row), PathTells(U),
         NEW q \in Nat, NEW r \in Nat, q <= r, NEW E, SaleTells(E, T, q)
  PROVE  SaleTells(E, U, r)
<1>1. /\ Len(U) = Len(T) + 1 /\ Len(T) \in Nat
      /\ \A i \in 1..Len(T) : (SoldAt(U, i) <=> SoldAt(T, i)) /\ (LostAt(U, i) <=> LostAt(T, i))
      /\ \A n \in 0..Len(T) : SaleAt(U, n) <=> SaleAt(T, n)
  BY RowAdds, PathFacts
<1>2. ASSUME NEW e \in E PROVE EventTold(e, E, U, r)
  <2>1. EventTold(e, E, T, q)
    BY DEF SaleTells
  <2>2. MarkTells(e, U, r) /\ MarkTells(e, T, q)
    BY <1>1, <2>1 DEF EventTold, MarkTells
  <2>3. ProposalTells(e, T) => ProposalTells(e, U)
    BY <1>1, <2>2 DEF ProposalTells, MarkTells
  <2>4. ConfirmTells(e, T) => ConfirmTells(e, U)
    BY <1>1 DEF ConfirmTells
  <2>5. CancelTells(e, E, T) => CancelTells(e, E, U)
    <3> SUFFICES ASSUME CancelTells(e, E, T) PROVE CancelTells(e, E, U)
      OBVIOUS
    <3>1. e.of \in 1..Len(T) /\ LostAt(T, e.of)
      BY DEF CancelTells
    <3>2. \A c \in E : c.kind = "confirmed" => c.of \in 1..Len(T)
      BY EventKinds DEF SaleTells
    <3>3. \A c \in E : c.kind = "confirmed" /\ Closely(c, e, T) => Closely(c, e, U)
      <4> SUFFICES ASSUME NEW c \in E, c.of \in 1..Len(T), Closely(c, e, T) PROVE Closely(c, e, U)
        BY <3>2
      <4>1. \A j \in (c.of + 1)..(e.of - 1) : j \in 1..Len(T)
        BY <1>1, <3>1
      <4> QED BY <1>1, <4>1 DEF Closely
    <3>4. e.of \notin Past(T, E) => e.of \notin Past(U, E)
      BY <3>1 DEF Past
    <3>5. e.of \in 1..Len(U) /\ LostAt(U, e.of)
      BY <1>1, <3>1
    <3> QED BY <1>1, <3>1, <3>3, <3>4, <3>5 DEF CancelTells
  <2> QED BY <2>1, <2>2, <2>3, <2>4, <2>5 DEF EventTold
<1> QED BY <1>2 DEF SaleTells

\* --- What happens to the order.
OrderMoves(o, to, told) ==
  /\ to \in Sale!OrderStates /\ told \in BOOLEAN
  /\ to = "sale" => o \in {"draft", "sent"}
  /\ o = "sale" => to = "cancel"
  /\ ~told => to # "sale" /\ o # "sale"

LEMMA ChangePath ==
  ASSUME SaleInv, NEW to, NEW told, OrderMoves(order, to, told), NEW F, OrderChanged(to, told, F)
  PROVE  /\ PathTells(tracked') /\ Len(tracked) \in Nat
         /\ Len(tracked') \in Nat /\ Len(tracked') <= MaxTracked /\ Len(tracked) <= Len(tracked')
         /\ Len(tracked') <= Len(tracked) + 1 /\ (told => Len(tracked') = Len(tracked) + 1)
         /\ order' = to /\ (order' = "sale" <=> SaleAt(tracked', Len(tracked')))
         /\ \A i \in 1..Len(tracked) : (SoldAt(tracked', i) <=> SoldAt(tracked, i)) /\ (LostAt(tracked', i) <=> LostAt(tracked, i))
         /\ \A n \in 0..Len(tracked) : SaleAt(tracked', n) <=> SaleAt(tracked, n)
         /\ Len(tracked') > Len(tracked) => (/\ (SoldAt(tracked', Len(tracked')) <=> to = "sale")
                                             /\ (LostAt(tracked', Len(tracked')) <=> order = "sale"))
         /\ saleSequence' \in Nat /\ saleSequence <= saleSequence'
         /\ saleSequence' = (IF F = saleEvents THEN saleSequence ELSE saleSequence + 1)
         /\ \A G : SaleTells(G, tracked, saleSequence) => SaleTells(G, tracked', saleSequence')
<1>1. PathTells(tracked) /\ order \in Sale!OrderStates /\ (order = "sale" <=> SaleAt(tracked, Len(tracked)))
  BY DEF SaleInv, SaleTypes
<1>2. Sale!Top = Len(tracked) /\ Len(tracked) \in Nat
  BY <1>1, TrackedRows DEF PathTells
<1>3. Len(tracked) + 1 <= MaxTracked /\ order' = to
  BY <1>2, SaleNumbers DEF OrderChanged, Sale!Change
<1>4. saleSequence' = (IF F = saleEvents THEN saleSequence ELSE saleSequence + 1) /\ saleSequence \in Nat
  BY DEF OrderChanged, Sale!Change, SaleInv, SequenceTells
<1>5. saleSequence' \in Nat /\ saleSequence <= saleSequence'
  BY <1>4
<1>6. CASE told
  <2> DEFINE row == [from |-> order, to |-> to]
  <2>1. row \in SaleRow /\ tracked' = Append(tracked, row)
    BY <1>1, <1>6 DEF SaleRow, OrderChanged, Sale!Change, OrderMoves
  <2>2. /\ PathTells(tracked') /\ Len(tracked') = Len(tracked) + 1
        /\ (to = "sale" <=> SaleAt(tracked', Len(tracked')))
        /\ (SoldAt(tracked', Len(tracked')) <=> to = "sale") /\ (LostAt(tracked', Len(tracked')) <=> order = "sale")
    <3>1. row.from = order /\ row.to = to
      OBVIOUS
    <3>2. (row.to = "sale" => row.from \in {"draft", "sent"}) /\ (row.from = "sale" => row.to = "cancel")
      BY DEF OrderMoves
    <3>3. row.from = "sale" <=> SaleAt(tracked, Len(tracked))
      BY <1>1
    <3> HIDE DEF row
    <3>4. /\ PathTells(tracked') /\ Len(tracked') = Len(tracked) + 1
          /\ (row.to = "sale" <=> SaleAt(tracked', Len(tracked')))
          /\ (SoldAt(tracked', Len(tracked')) <=> row.to = "sale") /\ (LostAt(tracked', Len(tracked')) <=> row.from = "sale")
      BY <1>1, <2>1, <3>2, <3>3, PathGrows
    <3> QED BY <3>1, <3>4
  <2> HIDE DEF row
  <2>3. /\ \A i \in 1..Len(tracked) : (SoldAt(tracked', i) <=> SoldAt(tracked, i)) /\ (LostAt(tracked', i) <=> LostAt(tracked, i))
        /\ \A n \in 0..Len(tracked) : SaleAt(tracked', n) <=> SaleAt(tracked, n)
    BY <1>1, <2>1, RowAdds
  <2>4. \A G : SaleTells(G, tracked, saleSequence) => SaleTells(G, tracked', saleSequence')
    BY <1>1, <1>4, <1>5, <2>1, <2>2, TellsOn
  <2>5. Len(tracked') \in Nat /\ Len(tracked') <= MaxTracked /\ Len(tracked) <= Len(tracked')
    BY <1>2, <1>3, <2>2
  <2> QED BY <1>2, <1>3, <1>4, <1>5, <2>2, <2>3, <2>4, <2>5
<1>7. CASE ~told
  <2>1. tracked' = tracked /\ to # "sale" /\ order # "sale"
    BY <1>7 DEF OrderChanged, Sale!Change, OrderMoves
  <2>2. \A G : SaleTells(G, tracked, saleSequence) => SaleTells(G, tracked, saleSequence')
    <3> SUFFICES ASSUME NEW G, SaleTells(G, tracked, saleSequence) PROVE SaleTells(G, tracked, saleSequence')
      OBVIOUS
    <3>1. ASSUME NEW e \in G PROVE EventTold(e, G, tracked, saleSequence')
      <4>1. EventTold(e, G, tracked, saleSequence)
        BY DEF SaleTells
      <4>2. \A n \in 1..saleSequence : n \in 1..saleSequence'
        BY <1>4, <1>5
      <4> QED BY <4>1, <4>2 DEF EventTold, MarkTells
    <3> QED BY <3>1 DEF SaleTells
  <2>3. Len(tracked) <= Len(tracked) + 1 /\ Len(tracked) <= MaxTracked /\ ~(Len(tracked) > Len(tracked))
        /\ Len(tracked) <= Len(tracked)
    BY <1>2, <1>3, SaleNumbers
  <2> QED BY <1>1, <1>2, <1>3, <1>4, <1>5, <1>7, <2>1, <2>2, <2>3
<1> QED BY <1>6, <1>7 DEF OrderMoves

\* What was told of the past stays told: a row that is added has no
\* confirmation behind it.
LEMMA ChangePast ==
  ASSUME SaleInv, NEW to, NEW told, OrderMoves(order, to, told), NEW F, OrderChanged(to, told, F)
  PROVE  /\ PastIsTold(saleEvents, tracked')
         /\ \A j \in Past(tracked', saleEvents) : j \in Past(tracked, saleEvents) \/ (j = Len(tracked) + 1 /\ j = Len(tracked'))
<1>1. /\ Len(tracked) \in Nat /\ Len(tracked') \in Nat /\ Len(tracked) <= Len(tracked') /\ Len(tracked') <= Len(tracked) + 1
      /\ \A i \in 1..Len(tracked) : (SoldAt(tracked', i) <=> SoldAt(tracked, i)) /\ (LostAt(tracked', i) <=> LostAt(tracked, i))
  BY ChangePath
<1>2. ASSUME NEW j \in Past(tracked', saleEvents)
      PROVE  j \in Past(tracked, saleEvents) \/ (j = Len(tracked) + 1 /\ j = Len(tracked'))
  <2>1. j \in 1..Len(tracked') /\ \A e \in saleEvents : e.mark # Sale!NoMark => j <= e.mark
    BY DEF Past
  <2>2. j \in 1..Len(tracked) \/ (j = Len(tracked) + 1 /\ j = Len(tracked'))
    BY <1>1, <2>1
  <2> QED BY <2>1, <2>2 DEF Past
<1>3. PastIsTold(saleEvents, tracked')
  <2> SUFFICES ASSUME NEW c \in Sale!OpenOf(saleEvents), c.mark = Sale!NoMark, NEW j \in Past(tracked', saleEvents),
                      j < c.of, LostAt(tracked', j)
               PROVE  Sale!Has(saleEvents, "cancelled", Sale!Chatter(j))
    BY DEF PastIsTold
  <2>1. c \in saleEvents /\ c.kind = "confirmed"
    BY OpenIs
  <2>2. c.of \in 1..Len(tracked)
    BY <2>1, EventKinds DEF SaleInv, SaleTells, SaleTypes
  <2>3. j # Len(tracked) + 1
    BY <1>1, <2>2
  <2>4. j \in Past(tracked, saleEvents)
    BY <1>2, <2>3
  <2>5. LostAt(tracked, j)
    BY <1>1, <2>4 DEF Past
  <2>6. PastIsTold(saleEvents, tracked)
    BY DEF SaleInv
  <2> QED BY <2>4, <2>5, <2>6 DEF PastIsTold
<1> QED BY <1>2, <1>3

LEMMA ChangeKeeps ==
  ASSUME SaleInv, NEW to, NEW told, OrderMoves(order, to, told), NEW F, OrderChanged(to, told, F), saleEvents \subseteq F,
         SaleTells(F, tracked', saleSequence'), NoneBefore(F), PastIsTold(F, tracked'),
         captured /\ order = "sale" => \E x \in F : x.kind = "cancelled" /\ x.of = Len(tracked) + 1,
         captured /\ to = "sale" => Sale!OpenOf(F) # {},
         F # saleEvents => told \/ (Sale!Proposed(F) /\ ~Sale!Proposed(saleEvents))
  PROVE  SaleInv'
<1>0. /\ saleEvents' = F /\ order' = to /\ synced' = (synced /\ captured) /\ linking' = {}
      /\ captured' = captured /\ leadsCaptured' = leadsCaptured /\ orderLeads' = orderLeads
  BY DEF OrderChanged, Sale!Change, Sale!Fresh, Sale!policies
<1>1. /\ PathTells(tracked') /\ Len(tracked) \in Nat /\ Len(tracked') \in Nat /\ Len(tracked') <= MaxTracked
      /\ Len(tracked) <= Len(tracked') /\ (told => Len(tracked') = Len(tracked) + 1)
      /\ (order' = "sale" <=> SaleAt(tracked', Len(tracked')))
      /\ \A i \in 1..Len(tracked) : LostAt(tracked', i) <=> LostAt(tracked, i)
      /\ Len(tracked') > Len(tracked) => (LostAt(tracked', Len(tracked')) <=> order = "sale")
      /\ saleSequence' \in Nat
      /\ saleSequence' = (IF F = saleEvents THEN saleSequence ELSE saleSequence + 1)
  BY ChangePath
<1>2. SaleTypes'
  BY <1>0, <1>1 DEF SaleTypes, SaleInv, OrderMoves
<1>3. SequenceTells'
  <2>1. saleSequence \in Nat /\ saleSequence <= Len(tracked) + IF Sale!Proposed(saleEvents) THEN 1 ELSE 0
    BY DEF SaleInv, SequenceTells
  <2>2. Sale!Proposed(saleEvents) => Sale!Proposed(F)
    BY DEF Sale!Proposed
  <2>3. CASE F = saleEvents
    <3>1. saleSequence' <= Len(tracked') + IF Sale!Proposed(F) THEN 1 ELSE 0
      BY <1>1, <2>1, <2>3
    <3> QED BY <1>0, <1>1, <3>1 DEF SequenceTells
  <2>4. CASE F # saleEvents
    <3>1. saleSequence' <= Len(tracked') + IF Sale!Proposed(F) THEN 1 ELSE 0
      BY <1>1, <2>1, <2>2, <2>4
    <3> QED BY <1>0, <1>1, <3>1 DEF SequenceTells
  <2> QED BY <2>3, <2>4
<1>4. RevenueTold'
  <2> SUFFICES ASSUME synced, captured
               PROVE  HistoryTold(F, tracked') /\ (to = "sale" => Sale!OpenOf(F) # {})
    BY <1>0 DEF RevenueTold
  <2>1. HistoryTold(saleEvents, tracked)
    BY DEF SaleInv, RevenueTold
  <2>2. ASSUME NEW j \in Past(tracked', F), LostAt(tracked', j) PROVE \E x \in F : x.kind = "cancelled" /\ x.of = j
    <3>1. j \in Past(tracked', saleEvents)
      BY <1>1, PastFacts
    <3>2. CASE j \in Past(tracked, saleEvents)
      <4>1. LostAt(tracked, j)
        BY <1>1, <2>2, <3>2 DEF Past
      <4> QED BY <2>1, <3>2, <4>1 DEF HistoryTold
    <3>3. CASE j = Len(tracked) + 1 /\ j = Len(tracked')
      <4>1. order = "sale"
        BY <1>1, <2>2, <3>3
      <4> QED BY <3>3, <4>1
    <3> QED BY <3>1, <3>2, <3>3, ChangePast
  <2> QED BY <2>2 DEF HistoryTold
<1>5. LinksTell'
  BY <1>0 DEF LinksTell, SaleInv
<1>6. Sale!LeadsSeeTheOrder'
  <2>1. PICK kind : Sale!Change(to, told, F, kind)
    BY DEF OrderChanged
  <2>2. PICK pairs : /\ pairs = Sale!Pairs({e \in F : e.kind = kind \/ e \notin saleEvents}, orderLeads)
                     /\ Sale!Show(pairs, leadsCaptured)
    BY <2>1 DEF Sale!Change, Sale!Project
  <2>3. projected \cup hidden \cup pairs \subseteq projected' \cup hidden'
    BY <2>2, Shows
  <2> SUFFICES ASSUME NEW e \in F, NEW l \in orderLeads, e.mark # Sale!NoMark PROVE <<e.ref, l>> \in projected' \cup hidden'
    BY <1>0 DEF Sale!LeadsSeeTheOrder
  <2>4. CASE e \in saleEvents
    BY <2>3, <2>4 DEF SaleInv, Sale!LeadsSeeTheOrder
  <2>5. CASE e \notin saleEvents
    <3>1. <<e.ref, l>> \in pairs
      BY <2>2, <2>5 DEF Sale!Pairs
    <3> QED BY <2>3, <3>1
  <2> QED BY <2>4, <2>5
<1> QED BY <1>0, <1>2, <1>3, <1>4, <1>5, <1>6 DEF SaleInv

LEMMA ChangeOnly ==
  ASSUME SaleInv, NEW to, NEW told, OrderMoves(order, to, told), OrderChanged(to, told, saleEvents),
         captured => order # "sale" /\ to # "sale"
  PROVE  SaleInv'
<1>1. SaleTells(saleEvents, tracked', saleSequence')
  BY ChangePath DEF SaleInv
<1>2. PastIsTold(saleEvents, tracked') /\ NoneBefore(saleEvents)
  BY ChangePast DEF SaleInv
<1> QED BY <1>1, <1>2, ChangeKeeps

\* A number that no live event has.
LEMMA NextIsFresh ==
  ASSUME SaleInv
  PROVE  \A e \in saleEvents : e.mark # Sale!NoMark => e.ref # Sale!NextSequence
<1> SUFFICES ASSUME NEW e \in saleEvents, e.mark # Sale!NoMark, e.ref = Sale!NextSequence PROVE FALSE
  OBVIOUS
<1>1. MarkTells(e, tracked, saleSequence) /\ saleSequence \in Nat
  BY DEF SaleInv, SaleTells, EventTold, SequenceTells
<1>2. PICK n \in 1..saleSequence : e.ref = Sale!Live(n)
  BY <1>1 DEF MarkTells
<1>3. n = saleSequence + 1
  BY <1>2, SaleRefs DEF Sale!NextSequence
<1> QED BY <1>1, <1>2, <1>3

LEMMA SendSale ==
  ASSUME SaleInv, Sale!Send PROVE SaleInv'
<1> DEFINE p == Sale!SaleEvent("proposal", Sale!NextSequence, Sale!NoRow, Sale!Top, Sale!Unreversed)
           F == IF captured /\ ~Sale!Proposed(saleEvents) THEN saleEvents \cup {p} ELSE saleEvents
<1>1. PICK told \in BOOLEAN : OrderChanged("sent", told, F)
  BY DEF Sale!Send, OrderChanged
<1>2. order = "draft" /\ OrderMoves(order, "sent", told)
  BY DEF Sale!Send, OrderMoves, Sale!OrderStates
<1>3. CASE ~(captured /\ ~Sale!Proposed(saleEvents))
  <2>1. OrderChanged("sent", told, saleEvents)
    BY <1>1, <1>3
  <2> QED BY <1>2, <2>1, ChangeOnly
<1>4. CASE captured /\ ~Sale!Proposed(saleEvents)
  <2>1. F = saleEvents \cup {p}
    BY <1>4
  <2>2. p.kind = "proposal" /\ p.of = Sale!NoRow /\ p.mark = Sale!Top /\ p.ref = Sale!NextSequence /\ p.reverses = Sale!Unreversed
    BY SaleFields
  <2>3. p = Sale!SaleEvent("proposal", p.ref, Sale!NoRow, p.mark, p.reverses)
    BY <2>2
  <2> HIDE DEF p, F
  <2>4. p \notin saleEvents
    BY <1>4, <2>2 DEF Sale!Proposed
  <2>5. /\ PathTells(tracked') /\ Len(tracked) \in Nat /\ Len(tracked') \in Nat /\ Len(tracked) <= Len(tracked')
        /\ SaleTells(saleEvents, tracked', saleSequence')
        /\ saleSequence' = saleSequence + 1 /\ saleSequence \in Nat
        /\ \A n \in 0..Len(tracked) : SaleAt(tracked', n) <=> SaleAt(tracked, n)
    <3>1. F # saleEvents
      BY <2>1, <2>4
    <3> QED BY <1>1, <1>2, <3>1, ChangePath DEF SaleInv, SequenceTells
  <2>6. Sale!Top = Len(tracked) /\ (order = "sale" <=> SaleAt(tracked, Len(tracked)))
    BY TrackedRows DEF SaleInv, SaleTypes, PathTells
  <2>7. MarkTells(p, tracked', saleSequence')
    <3>1. saleSequence + 1 \in 1..saleSequence' /\ Sale!Top \in 0..Len(tracked')
      BY <2>5, <2>6
    <3> QED BY <2>2, <3>1 DEF MarkTells, Sale!NextSequence
  <2>8. ProposalTells(p, tracked')
    <3>1. ~SaleAt(tracked', Sale!Top)
      <4>1. Len(tracked) \in 0..Len(tracked)
        BY <2>5
      <4> QED BY <1>2, <2>5, <2>6, <4>1
    <3> QED BY <2>2, <2>3, <3>1 DEF ProposalTells
  <2>9. SaleTells(F, tracked', saleSequence') /\ Sale!OpenOf(F) = Sale!OpenOf(saleEvents)
    BY <1>4, <2>1, <2>2, <2>5, <2>7, <2>8, NextIsFresh, AddProposal
  <2>10. NoneBefore(F)
    BY <2>1, <2>2, <2>9 DEF NoneBefore, SaleInv
  <2>11. PastIsTold(F, tracked')
    <3>1. Past(tracked', F) \subseteq Past(tracked', saleEvents)
      BY <2>1, <2>5, PastFacts
    <3>2. PastIsTold(saleEvents, tracked')
      BY <1>1, <1>2, ChangePast
    <3> QED BY <2>1, <2>9, <3>1, <3>2 DEF PastIsTold, Sale!Has
  <2>12. Sale!Proposed(F)
    BY <2>1, <2>2 DEF Sale!Proposed
  <2> QED BY <1>1, <1>2, <1>4, <2>1, <2>9, <2>10, <2>11, <2>12, ChangeKeeps
<1> QED BY <1>3, <1>4

LEMMA ConfirmSale ==
  ASSUME SaleInv, Sale!Confirm PROVE SaleInv'
<1> DEFINE c == Sale!SaleEvent("confirmed", Sale!NextSequence, Sale!Top + 1, Sale!Top, Sale!Unreversed)
           F == saleEvents \cup {c}
<1>1. order \in {"draft", "sent"} /\ OrderMoves(order, "sale", TRUE)
  BY DEF Sale!Confirm, OrderMoves, Sale!OrderStates
<1>2. CASE ~captured
  <2>1. OrderChanged("sale", TRUE, saleEvents)
    BY <1>2 DEF Sale!Confirm, OrderChanged
  <2> QED BY <1>1, <1>2, <2>1, ChangeOnly
<1>3. CASE captured
  <2>1. OrderChanged("sale", TRUE, F)
    BY <1>3 DEF Sale!Confirm, Sale!Reported, OrderChanged
  <2>13. PICK told \in BOOLEAN : told /\ OrderMoves(order, "sale", told) /\ OrderChanged("sale", told, F)
    <3>1. TRUE /\ OrderMoves(order, "sale", TRUE) /\ OrderChanged("sale", TRUE, F)
      BY <1>1, <2>1
    <3> QED BY <3>1
  <2>2. c.kind = "confirmed" /\ c.of = Sale!Top + 1 /\ c.mark = Sale!Top /\ c.ref = Sale!NextSequence /\ c.reverses = Sale!Unreversed
    BY SaleFields
  <2>3. c = Sale!SaleEvent("confirmed", c.ref, c.of, c.mark, Sale!Unreversed) /\ F = saleEvents \cup {c}
    BY <2>2
  <2>4. Sale!Top = Len(tracked) /\ Len(tracked) \in Nat /\ PathTells(tracked)
    BY TrackedRows DEF SaleInv, SaleTypes, PathTells
  <2> HIDE DEF c, F
  <2>5. ASSUME NEW f \in saleEvents, f.kind \in {"confirmed", "cancelled"} PROVE f.of < Sale!Top + 1 /\ f.of # Sale!Top + 1
    <3>1. f.of \in 1..Len(tracked)
      BY <2>4, <2>5, EventKinds DEF SaleInv, SaleTells
    <3> QED BY <2>4, <3>1
  <2>6. c \notin saleEvents /\ F # saleEvents
    BY <2>2, <2>3, <2>5
  <2>7. /\ PathTells(tracked') /\ Len(tracked') = Len(tracked) + 1
        /\ SaleTells(saleEvents, tracked', saleSequence')
        /\ saleSequence' = saleSequence + 1 /\ saleSequence \in Nat
        /\ SoldAt(tracked', Len(tracked'))
    <3>1. /\ PathTells(tracked') /\ Len(tracked') = Len(tracked) + 1
          /\ SaleTells(saleEvents, tracked', saleSequence')
          /\ saleSequence' = saleSequence + 1 /\ saleSequence \in Nat
          /\ Len(tracked') > Len(tracked) => SoldAt(tracked', Len(tracked'))
      <4>1. SaleTells(saleEvents, tracked, saleSequence) /\ saleSequence \in Nat
        BY DEF SaleInv, SequenceTells
      <4> QED BY <2>13, <2>6, <4>1, ChangePath
    <3>2. Len(tracked') > Len(tracked)
      BY <2>4, <3>1
    <3> QED BY <3>1, <3>2
  <2>8. MarkTells(c, tracked', saleSequence')
    <3>1. saleSequence + 1 \in 1..saleSequence' /\ Sale!Top \in 0..Len(tracked')
      BY <2>4, <2>7
    <3> QED BY <2>2, <3>1 DEF MarkTells, Sale!NextSequence
  <2>9. ConfirmTells(c, tracked')
    <3>1. Sale!Top + 1 \in 1..Len(tracked') /\ Sale!Top + 1 = Len(tracked') /\ Sale!Top # Sale!NoMark
      BY <2>4, <2>7 DEF Sale!NoMark
    <3> QED BY <2>2, <2>3, <2>7, <3>1 DEF ConfirmTells
  <2>10. /\ SaleTells(F, tracked', saleSequence') /\ Sale!OpenOf(F) \subseteq Sale!OpenOf(saleEvents) \cup {c} /\ c \in Sale!OpenOf(F)
    BY <2>2, <2>3, <2>5, <2>6, <2>7, <2>8, <2>9, NextIsFresh, AddConfirm
  <2>11. NoneBefore(F)
    BY <2>2, <2>3, <2>5, <2>10 DEF NoneBefore, SaleInv
  <2>12. PastIsTold(F, tracked')
    <3>1. Past(tracked', F) \subseteq Past(tracked', saleEvents)
      BY <2>3, <2>7, PastFacts
    <3>2. PastIsTold(saleEvents, tracked')
      BY <2>13, ChangePast
    <3>3. c.mark # Sale!NoMark
      BY <2>2, <2>4 DEF Sale!NoMark
    <3> QED BY <2>3, <2>10, <3>1, <3>2, <3>3 DEF PastIsTold, Sale!Has
  <2> QED BY <1>1, <2>13, <2>3, <2>10, <2>11, <2>12, ChangeKeeps
<1> QED BY <1>2, <1>3

\* A confirmation that is live and no longer open was cancelled behind its row.
LEMMA ClosedBefore ==
  ASSUME NEW T, PathTells(T), NEW q, NEW E, SaleTells(E, T, q), NEW c \in E, c.kind = "confirmed", c \notin Sale!OpenOf(E)
  PROVE  \E x \in E : /\ x.kind = "cancelled" /\ x.reverses = c.ref /\ x.of \in 1..Len(T) /\ LostAt(T, x.of)
                      /\ c.of < x.of /\ (x.ref = Sale!Chatter(x.of) => Closely(c, x, T))
<1>1. PICK x \in E : x.kind = "cancelled" /\ x.reverses = c.ref
  BY OpenIs
<1>2. CancelTells(x, E, T) /\ x.of \in 1..Len(T) /\ LostAt(T, x.of)
  BY <1>1, EventKinds DEF SaleTells
<1>3. PICK k \in E : /\ k.kind = "confirmed" /\ k.ref = x.reverses /\ k.of < x.of
                     /\ x.ref = Sale!Chatter(x.of) => Closely(k, x, T)
  BY <1>2 DEF CancelTells
<1>4. k = c
  BY <1>1, <1>3, OneByRef
<1> QED BY <1>1, <1>2, <1>3, <1>4

LEMMA CancelReported ==
  ASSUME SaleInv, captured, order = "sale", Sale!Cancel PROVE SaleInv'
<1> DEFINE F == Sale!WithReversal(saleEvents, Sale!Top + 1, FALSE, Sale!NextSequence, Sale!Top + 1, Sale!Top)
<1>1. OrderMoves(order, "cancel", TRUE) /\ OrderChanged("cancel", TRUE, F) /\ Sale!Reversible(saleEvents, Sale!Top + 1, FALSE)
  BY DEF Sale!Cancel, OrderMoves, Sale!OrderStates, OrderChanged
<1>21. PICK told \in BOOLEAN : told /\ OrderMoves(order, "cancel", told) /\ OrderChanged("cancel", told, F)
  <2>1. TRUE /\ OrderMoves(order, "cancel", TRUE) /\ OrderChanged("cancel", TRUE, F)
    BY <1>1
  <2> QED BY <2>1
<1>2. /\ Sale!Top = Len(tracked) /\ Len(tracked) \in Nat /\ PathTells(tracked) /\ SaleAt(tracked, Len(tracked))
      /\ SaleTells(saleEvents, tracked, saleSequence)
  BY TrackedRows DEF SaleInv, SaleTypes, PathTells
<1>3. Sale!OpenConfirmation(saleEvents, FALSE) = Sale!OpenOf(saleEvents)
  BY DEF Sale!OpenConfirmation, Sale!OpenOf
<1>4. PICK n \in Nat : /\ n \in 1..(Len(tracked) + 1) /\ SaleAt(tracked, n - 1) /\ n - 1 = Len(tracked)
                       /\ n = Sale!Top + 1 /\ n = Len(tracked) + 1
  <2>1. Len(tracked) + 1 \in 1..(Len(tracked) + 1) /\ (Len(tracked) + 1) - 1 = Len(tracked) /\ Len(tracked) + 1 \in Nat
    BY <1>2
  <2> QED BY <1>2, <2>1
<1>5. \A f \in saleEvents : Sale!OpenConfirmation(saleEvents, FALSE) = {} /\ f.kind = "confirmed" /\ f.mark # Sale!NoMark =>
        f.of # Sale!LastConfirmation(n)
  <2> SUFFICES ASSUME NEW f \in saleEvents, Sale!OpenOf(saleEvents) = {}, f.kind = "confirmed", f.of = Sale!LastConfirmation(n)
               PROVE  FALSE
    BY <1>3
  <2>1. PICK x \in saleEvents : x.of \in 1..Len(tracked) /\ LostAt(tracked, x.of) /\ f.of < x.of
    BY <1>2, ClosedBefore
  <2>2. x.of < n
    BY <1>2, <1>4, <2>1
  <2> QED BY <1>2, <1>4, <2>1, <2>2, LastConfirmationIs
<1> HIDE DEF F
<1>6. PICK c : Ensured(c, saleEvents, saleSequence, n, FALSE)
  <2>1. ~Sale!Ambiguous(saleEvents, FALSE)
    BY <1>1 DEF Sale!Reversible
  <2>2. PICK h \in BOOLEAN : h = FALSE
    OBVIOUS
  <2>4. Sale!OpenConfirmation(saleEvents, h) = Sale!OpenConfirmation(saleEvents, FALSE)
    BY <2>2 DEF Sale!OpenConfirmation
  <2>5. Sale!EnsureConfirmation(saleEvents, n, h) = Sale!EnsureConfirmation(saleEvents, n, FALSE)
    BY <2>4 DEF Sale!EnsureConfirmation
  <2>6. PICK c : Ensured(c, saleEvents, saleSequence, n, h)
    <3>1. ~Sale!Ambiguous(saleEvents, h)
      BY <2>1, <2>4 DEF Sale!Ambiguous
    <3>2. \A f \in saleEvents : Sale!OpenConfirmation(saleEvents, h) = {} /\ f.kind = "confirmed" /\ f.mark # Sale!NoMark =>
            f.of # Sale!LastConfirmation(n)
      BY <1>5, <2>4
    <3>3. SaleAt(tracked, n - 1) /\ n \in 1..(Len(tracked) + 1)
      BY <1>4
    <3>4. SaleTells(saleEvents, tracked, saleSequence) /\ PathTells(tracked)
      BY <1>2
    <3> QED BY <3>1, <3>2, <3>3, <3>4, EnsureAdds
  <2> QED BY <2>4, <2>5, <2>6 DEF Ensured
<1> DEFINE E == saleEvents \cup {c}
           x == Sale!SaleEvent("cancelled", Sale!NextSequence, n, Sale!Top, c.ref)
<1> USE DEF Ensured
<1>7. Sale!OpenOf(E) = {c}
  <2>1. \A y \in saleEvents : y.kind = "cancelled" => y.reverses # c.ref
    BY <1>1, <1>4, <1>6 DEF Sale!Reversible
  <2> QED BY <1>3, <1>6, <2>1
<1>8. F = E \cup {x}
  BY <1>4, <1>6 DEF F, Sale!WithReversal, Sale!Reversal
<1>9. x.kind = "cancelled" /\ x.of = n /\ x.mark = Sale!Top /\ x.ref = Sale!NextSequence /\ x.reverses = c.ref
  BY SaleFields
<1>10. x = Sale!SaleEvent("cancelled", x.ref, x.of, x.mark, c.ref)
  BY <1>9
<1> HIDE DEF x
<1>11. ASSUME NEW f \in E, f.kind \in {"confirmed", "cancelled"} PROVE f.of < n /\ f.of # n
  <2>1. f.of \in 1..Len(tracked)
    BY <1>2, <1>6, <1>11, EventKinds DEF SaleTells
  <2> QED BY <1>2, <1>4, <2>1
<1>12. x \notin saleEvents /\ F # saleEvents
  BY <1>8, <1>9, <1>11
<1>13. /\ PathTells(tracked') /\ Len(tracked') = Len(tracked) + 1
       /\ SaleTells(E, tracked', saleSequence')
       /\ saleSequence' = saleSequence + 1 /\ saleSequence \in Nat
       /\ LostAt(tracked', n)
  <2>1. /\ PathTells(tracked') /\ Len(tracked') = Len(tracked) + 1
        /\ SaleTells(E, tracked', saleSequence')
        /\ saleSequence' = saleSequence + 1 /\ saleSequence \in Nat
        /\ Len(tracked') > Len(tracked) => LostAt(tracked', Len(tracked'))
    <3>1. SaleTells(E, tracked, saleSequence) /\ saleSequence \in Nat
      BY <1>6 DEF SaleInv, SequenceTells
    <3> QED BY <1>21, <1>12, <3>1, ChangePath
  <2>2. Len(tracked') > Len(tracked) /\ n = Len(tracked')
    BY <1>2, <1>4, <2>1
  <2> QED BY <2>1, <2>2
<1>14. MarkTells(x, tracked', saleSequence')
  <2>1. saleSequence + 1 \in 1..saleSequence' /\ Sale!Top \in 0..Len(tracked')
    BY <1>2, <1>13
  <2> QED BY <1>9, <2>1 DEF MarkTells, Sale!NextSequence
<1>15. x.mark # Sale!NoMark /\ x.of = x.mark + 1 /\ x.of \in 1..Len(tracked') /\ c.of < x.of
  <2>1. c.of < n
    BY <1>6, <1>11
  <2> QED BY <1>2, <1>4, <1>9, <1>13, <2>1 DEF Sale!NoMark
<1>16. \A m : x.ref # Sale!Chatter(m)
  BY <1>9, SaleRefs DEF Sale!NextSequence
<1>17. \A f \in E : f.mark # Sale!NoMark => f.ref # x.ref
  <2>1. c.mark # Sale!NoMark => c \in saleEvents
    BY <1>6
  <2> QED BY <1>9, <2>1, NextIsFresh
<1> HIDE DEF E
<1>18. SaleTells(F, tracked', saleSequence') /\ Sale!OpenOf(F) = {}
  <2>1. c \in Sale!OpenOf(E)
    BY <1>7
  <2>2. \A f \in E : f.kind = "cancelled" => f.of # x.of
    BY <1>9, <1>11
  <2>3. LostAt(tracked', x.of)
    BY <1>9, <1>13
  <2>4. SaleTells(E \cup {x}, tracked', saleSequence') /\ Sale!OpenOf(E \cup {x}) = Sale!OpenOf(E) \ {c}
    <3>1. CancelFits(x, c, E, tracked', saleSequence')
      BY <1>10, <1>14, <1>15, <1>16, <1>17, <2>2, <2>3 DEF CancelFits
    <3>2. SaleTells(E, tracked', saleSequence') /\ PathTells(tracked')
      BY <1>13
    <3>3. SaleTells(E \cup {x}, tracked', saleSequence')
      BY <2>1, <3>1, <3>2, AddCancel
    <3>4. Sale!OpenOf(E \cup {x}) = Sale!OpenOf(E) \ {c}
      BY <2>1, <3>1, <3>2, AddCancel
    <3> QED BY <3>3, <3>4
  <2> QED BY <1>7, <1>8, <2>4
<1>19. NoneBefore(F) /\ PastIsTold(F, tracked')
  BY <1>18 DEF NoneBefore, PastIsTold
<1>20. saleEvents \subseteq F /\ x \in F
  BY <1>8 DEF E
<1> QED BY <1>21, <1>4, <1>9, <1>18, <1>19, <1>20, ChangeKeeps

LEMMA CancelSale ==
  ASSUME SaleInv, Sale!Cancel PROVE SaleInv'
<1>1. CASE captured /\ order = "sale"
  BY <1>1, CancelReported
<1>2. CASE ~(captured /\ order = "sale")
  <2>1. OrderChanged("cancel", TRUE, saleEvents) /\ OrderMoves(order, "cancel", TRUE)
    BY <1>2 DEF Sale!Cancel, OrderMoves, Sale!OrderStates, OrderChanged
  <2> QED BY <1>2, <2>1, ChangeOnly
<1> QED BY <1>1, <1>2

LEMMA RedraftSale ==
  ASSUME SaleInv, Sale!Redraft PROVE SaleInv'
<1>1. OrderChanged("draft", TRUE, saleEvents) /\ OrderMoves(order, "draft", TRUE) /\ order # "sale"
  BY DEF Sale!Redraft, OrderMoves, Sale!OrderStates, OrderChanged
<1> QED BY <1>1, ChangeOnly

LEMMA SwitchSale ==
  ASSUME SaleInv, Sale!Switch PROVE SaleInv'
<1>1. /\ captured' \in BOOLEAN /\ leadsCaptured' \in BOOLEAN /\ order' = order /\ tracked' = tracked
      /\ saleSequence' = saleSequence /\ saleEvents' = saleEvents /\ synced' = synced /\ orderLeads' = orderLeads
      /\ projected' = projected /\ hidden' = hidden /\ linking' = linking
  BY DEF Sale!Switch, Sale!graph, SaleInv, SaleTypes
<1> QED BY <1>1 DEF SaleInv, SaleTypes, SequenceTells, RevenueTold, LinksTell, Sale!LeadsSeeTheOrder

\* --- The leads of the order.
LEMMA BeginSaleLink ==
  ASSUME SaleInv, NEW l \in OrderLeads, Sale!BeginLink(l) PROVE SaleInv'
<1> DEFINE o == [lead |-> l, pairs |-> Sale!Pairs(saleEvents, {l}), shown |-> leadsCaptured]
<1>1. /\ captured' = captured /\ leadsCaptured' = leadsCaptured /\ order' = order /\ tracked' = tracked
      /\ saleSequence' = saleSequence /\ saleEvents' = saleEvents /\ synced' = synced /\ orderLeads' = orderLeads
      /\ projected' = projected /\ hidden' = hidden /\ linking' = {o}
  BY DEF Sale!BeginLink, Sale!policies
<1>2. o.lead \in OrderLeads /\ \A e \in saleEvents : <<e.ref, o.lead>> \in o.pairs
  BY DEF Sale!Pairs
<1> HIDE DEF o
<1>3. LinksTell'
  BY <1>1, <1>2 DEF LinksTell, SaleInv
<1> QED BY <1>1, <1>3 DEF SaleInv, SaleTypes, SequenceTells, RevenueTold, Sale!LeadsSeeTheOrder

LEMMA SaleLink ==
  ASSUME SaleInv, NEW o \in linking, Sale!Link(o) PROVE SaleInv'
<1>1. /\ captured' = captured /\ leadsCaptured' = leadsCaptured /\ order' = order /\ tracked' = tracked
      /\ saleSequence' = saleSequence /\ saleEvents' = saleEvents /\ synced' = synced
      /\ orderLeads' = orderLeads \cup {o.lead} /\ Sale!Show(o.pairs, o.shown) /\ linking' = {}
  BY DEF Sale!Link, Sale!policies
<1>2. o.lead \in OrderLeads /\ \A e \in saleEvents : e.mark # Sale!NoMark => <<e.ref, o.lead>> \in o.pairs
  BY DEF SaleInv, LinksTell
<1>3. LinksTell'
  BY <1>1, <1>2 DEF LinksTell, SaleInv
<1>4. Sale!LeadsSeeTheOrder'
  <2> SUFFICES ASSUME NEW e \in saleEvents, NEW l \in orderLeads \cup {o.lead}, e.mark # Sale!NoMark
               PROVE  <<e.ref, l>> \in projected' \cup hidden'
    BY <1>1 DEF Sale!LeadsSeeTheOrder
  <2>3. PICK pairs, shown : pairs = o.pairs /\ Sale!Show(pairs, shown)
    BY <1>1
  <2>4. projected \cup hidden \cup pairs \subseteq projected' \cup hidden'
    BY <2>3, Shows
  <2>1. CASE l \in orderLeads
    BY <2>1, <2>4 DEF SaleInv, Sale!LeadsSeeTheOrder
  <2>2. CASE l = o.lead
    BY <1>2, <2>2, <2>3, <2>4
  <2> QED BY <2>1, <2>2
<1> QED BY <1>1, <1>3, <1>4 DEF SaleInv, SaleTypes, SequenceTells, RevenueTold

\* --- The past, as the import counts it.
LEMMA HistoricalIs ==
  ASSUME SaleInv PROVE Sale!Historical = Past(tracked, saleEvents)
<1>1. PathTells(tracked) /\ Sale!Rows = 1..Len(tracked) /\ Len(tracked) \in Nat
  BY TrackedRows DEF SaleInv, SaleTypes, PathTells
<1>2. \A e \in saleEvents : e.mark # Sale!NoMark => e.mark \in Nat
  <2>1. \A e \in saleEvents : e.mark # Sale!NoMark => e.mark \in 0..Len(tracked)
    BY <1>1, MarksAreNumbers DEF SaleInv, SaleTells
  <2> QED BY <1>1, <2>1
<1>3. CASE Sale!Marks = {}
  <2>1. \A e \in saleEvents : e.mark = Sale!NoMark
    BY <1>3 DEF Sale!Marks
  <2> QED BY <1>1, <1>3, <2>1 DEF Sale!Historical, Past
<1>4. CASE Sale!Marks # {}
  <2>1. Sale!Marks \in SUBSET Nat
    BY <1>2 DEF Sale!Marks
  <2> DEFINE m == Sale!Min(Sale!Marks)
  <2>2. m \in Sale!Marks /\ \A k \in Sale!Marks : m <= k
    BY <1>4, <2>1, LeastNumber DEF Sale!Min
  <2>3. Sale!Historical = {i \in Sale!Rows : i <= m}
    BY <1>4 DEF Sale!Historical
  <2> HIDE DEF m
  <2>4. \A i \in 1..Len(tracked) : i <= m <=> \A e \in saleEvents : e.mark # Sale!NoMark => i <= e.mark
    <3> TAKE i \in 1..Len(tracked)
    <3>1. ASSUME i <= m, NEW e \in saleEvents, e.mark # Sale!NoMark PROVE i <= e.mark
      <4>1. e.mark \in Sale!Marks
        BY <3>1 DEF Sale!Marks
      <4>3. m <= e.mark /\ m \in Nat /\ e.mark \in Nat
        BY <2>1, <2>2, <4>1
      <4>2. m <= e.mark /\ m \in Nat /\ e.mark \in Nat /\ i \in Nat
        BY <1>1, <4>3
      <4> QED BY <3>1, <4>2
    <3>2. ASSUME \A e \in saleEvents : e.mark # Sale!NoMark => i <= e.mark PROVE i <= m
      <4>1. PICK e \in saleEvents : e.mark = m /\ m # Sale!NoMark
        BY <2>2 DEF Sale!Marks
      <4> QED BY <3>2, <4>1
    <3> QED BY <3>1, <3>2
  <2> QED BY <1>1, <2>3, <2>4 DEF Past
<1> QED BY <1>3, <1>4

\* --- What the invariant gives.
LEMMA RevenueIs ==
  ASSUME SaleInv, synced, ~Sale!CaptureGap
  PROVE  Sale!Cardinality(Sale!OpenOf(saleEvents)) = IF order = "sale" THEN 1 ELSE 0
<1> DEFINE O == Sale!OpenOf(saleEvents)
<1>1. /\ PathTells(tracked) /\ Len(tracked) \in Nat /\ Sale!Rows = 1..Len(tracked)
      /\ (order = "sale" <=> SaleAt(tracked, Len(tracked)))
      /\ SaleTells(saleEvents, tracked, saleSequence)
  BY TrackedRows DEF SaleInv, SaleTypes, PathTells
<1>2. ASSUME NEW j \in 1..Len(tracked), LostAt(tracked, j)
      PROVE  \E x \in saleEvents : x.kind = "cancelled" /\ x.of = j
  <2>1. CASE j \in Past(tracked, saleEvents)
    BY <1>2, <2>1 DEF SaleInv, RevenueTold, HistoryTold
  <2>2. CASE j \notin Past(tracked, saleEvents)
    <3>1. j \in Sale!Rows \ Sale!Historical /\ Sale!Reverses(j)
      BY <1>1, <1>2, <2>2, HistoricalIs DEF Sale!Reverses, LostAt
    <3> QED BY <3>1 DEF Sale!CaptureGap
  <2> QED BY <2>1, <2>2
<1>3. ASSUME NEW c \in O
      PROVE  /\ c \in saleEvents /\ c.kind = "confirmed" /\ c.of \in 1..Len(tracked) /\ SoldAt(tracked, c.of)
             /\ \A j \in 1..Len(tracked) : c.of < j /\ j <= Len(tracked) => ~LostAt(tracked, j)
  <2>1. c \in saleEvents /\ c.kind = "confirmed"
    BY <1>3, OpenIs
  <2>2. c.of \in 1..Len(tracked) /\ SoldAt(tracked, c.of)
    BY <1>1, <2>1, EventKinds DEF SaleTells
  <2>3. ASSUME NEW j \in 1..Len(tracked), c.of < j, LostAt(tracked, j) PROVE FALSE
    <3>1. PICK x \in saleEvents : x.kind = "cancelled" /\ x.of = j
      BY <1>2, <2>3
    <3>2. x.of < c.of
      BY <1>3, <3>1 DEF SaleInv, NoneBefore
    <3> QED BY <1>1, <2>2, <2>3, <3>1, <3>2
  <2> QED BY <2>1, <2>2, <2>3
<1>4. CASE order # "sale"
  <2>1. O = {}
    <3> SUFFICES ASSUME NEW c \in O PROVE FALSE
      OBVIOUS
    <3>1. c.of <= Len(tracked) /\ Len(tracked) \in 0..Len(tracked)
      BY <1>1, <1>3
    <3>2. SaleAt(tracked, Len(tracked))
      <4>1. c.of \in 1..Len(tracked) /\ \A j \in (c.of + 1)..Len(tracked) : j \in 1..Len(tracked) /\ c.of < j /\ j <= Len(tracked)
        BY <1>1, <1>3
      <4> QED BY <1>3, <4>1 DEF SaleAt
    <3> QED BY <1>1, <1>4, <3>2
  <2> QED BY <1>4, <2>1, FS_EmptySet, EventSizes
<1>5. CASE order = "sale"
  <2>1. PICK c \in O : TRUE
    BY <1>5 DEF SaleInv, RevenueTold
  <2>2. ASSUME NEW k \in O PROVE k = c
    <3>1. c.of <= Len(tracked) /\ k.of <= Len(tracked)
      BY <1>1, <1>3, <2>1, <2>2
    <3>2. c.of = k.of
      BY <1>1, <1>3, <2>1, <2>2, <3>1, SameSale
    <3> QED BY <1>1, <1>3, <2>1, <2>2, <3>2 DEF SaleTells, CountedOnce
  <2>3. O = {c}
    BY <2>1, <2>2
  <2> QED BY <1>5, <2>3, FS_Singleton, EventSizes
<1> QED BY <1>4, <1>5

LEMMA SaleGive ==
  SaleInv => Sale!SaleTypeOK /\ Sale!SaleCountedOnce /\ Sale!RevenueFollowsOrder /\ Sale!LeadsSeeTheOrder
<1> SUFFICES ASSUME SaleInv PROVE Sale!SaleTypeOK /\ Sale!SaleCountedOnce /\ Sale!RevenueFollowsOrder /\ Sale!LeadsSeeTheOrder
  OBVIOUS
<1>1. /\ PathTells(tracked) /\ Sale!Top = Len(tracked) /\ Len(tracked) \in Nat /\ Len(tracked) <= MaxTracked
      /\ SaleTells(saleEvents, tracked, saleSequence) /\ MaxTracked \in Nat
  BY TrackedRows, SaleNumbers DEF SaleInv, SaleTypes, PathTells
<1>2. ASSUME NEW e \in saleEvents
      PROVE  /\ e.kind \in {"proposal", "confirmed", "cancelled"} /\ e.mark \in Sale!NoMark..MaxTracked
             /\ e.of \in 0..MaxTracked
  <2>1. /\ e.kind \in {"proposal", "confirmed", "cancelled"}
        /\ e.of = Sale!NoRow \/ e.of \in 1..Len(tracked)
        /\ e.mark = Sale!NoMark \/ e.mark \in 0..Len(tracked)
    BY <1>1, EventKinds, MarksAreNumbers DEF SaleTells
  <2> QED BY <1>1, <2>1 DEF Sale!NoRow, Sale!NoMark
<1>3. saleSequence \in 0..(MaxTracked + 1)
  BY <1>1 DEF SaleInv, SequenceTells
<1>4. Sale!Cardinality(linking) <= 1
  <2>1. CASE linking = {}
    BY <2>1, FS_EmptySet, EventSizes
  <2>2. CASE \E o \in linking : linking = {o}
    <3>1. PICK o \in linking : linking = {o}
      BY <2>2
    <3>2. Sale!Cardinality(linking) = 1
      BY <3>1, FS_Singleton, EventSizes
    <3> QED BY <3>2
  <2> QED BY <2>1, <2>2 DEF SaleInv, LinksTell
<1>5. Sale!SaleTypeOK
  BY <1>1, <1>2, <1>3, <1>4 DEF Sale!SaleTypeOK, SaleInv, SaleTypes, LinksTell
<1>6. Sale!SaleCountedOnce
  <2> DEFINE P == {e \in saleEvents : e.kind = "proposal"}
  <2>1. CountedOnce(saleEvents)
    BY <1>1 DEF SaleTells
  <2>2. \A e \in saleEvents : e.kind = "cancelled" => Sale!Has(saleEvents, "confirmed", e.reverses)
    <3> TAKE e \in saleEvents
    <3>1. e.kind = "cancelled" => CancelTells(e, saleEvents, tracked)
      BY <1>1, EventKinds DEF SaleTells
    <3> QED BY <3>1 DEF CancelTells, Sale!Has
  <2>3. Sale!Cardinality(P) <= 1
    <3>1. \A e, f \in P : e = f
      BY <1>1, <2>1, EventKinds DEF SaleTells, CountedOnce
    <3>2. Sale!IsFiniteSet(P)
      BY <1>1, FS_Subset, EventSizes DEF SaleTells
    <3> HIDE DEF P
    <3>3. ~(Sale!Cardinality(P) > 1) /\ Sale!Cardinality(P) \in Nat
      BY <3>1, <3>2, Ones
    <3> QED BY <3>3
  <2> QED BY <2>1, <2>2, <2>3 DEF Sale!SaleCountedOnce, CountedOnce
<1>7. Sale!RevenueFollowsOrder
  BY RevenueIs DEF Sale!RevenueFollowsOrder
<1> QED BY <1>5, <1>6, <1>7 DEF SaleInv

\* --- The import, row by row.  Until it has come to the end, an open
\* confirmation may be older than a cancellation that was told, but then it is
\* the last one that was imported.
Lately(c, i, T) ==
  c.mark = Sale!NoMark /\ c.of <= i /\ \A j \in 1..Len(T) : c.of < j /\ j <= i => ~LostAt(T, j)
LoopTells(E, i, D, T, q) ==
  /\ SaleTells(E, T, q) /\ PastIsTold(E, T)
  /\ \A c \in Sale!OpenOf(E), x \in E : x.kind = "cancelled" => x.of < c.of \/ Lately(c, i, T)
  /\ \A j \in Past(T, E) : j <= i /\ LostAt(T, j) => Sale!Has(E, "cancelled", Sale!Chatter(j))
  /\ D \subseteq E /\ \A e \in E : e.mark # Sale!NoMark => e \in D

LEMMA PastSame ==
  ASSUME NEW T, NEW E, NEW F, E \subseteq F, \A e \in F : e.mark # Sale!NoMark => e \in E
  PROVE  Past(T, F) = Past(T, E)
BY DEF Past

LEMMA PastRow ==
  ASSUME NEW T, PathTells(T), NEW q, NEW E, SaleTells(E, T, q), NEW i \in Past(T, E)
  PROVE  /\ i \in 1..Len(T) /\ \A j \in 1..Len(T) : j < i => j \in Past(T, E)
         /\ \A f \in E : f.mark # Sale!NoMark /\ f.kind \in {"confirmed", "cancelled"} => i < f.of
         /\ \A f \in E : f.kind = "confirmed" /\ f.of = i => f.mark = Sale!NoMark /\ f.ref = Sale!Chatter(i)
         /\ \A f \in E : f.kind = "cancelled" /\ f.of = i => f.ref = Sale!Chatter(i)
<1>1. i \in 1..Len(T) /\ Len(T) \in Nat /\ \A f \in E : f.mark # Sale!NoMark => i <= f.mark
  BY PathFacts DEF Past
<1>2. \A j \in 1..Len(T) : j < i => j \in Past(T, E)
  <2>1. \A e \in E : e.mark \in Int
    BY MarksAreNumbers DEF SaleTells
  <2> QED BY <2>1, PastFacts
<1>3. ASSUME NEW f \in E, f.mark # Sale!NoMark, f.kind \in {"confirmed", "cancelled"} PROVE i < f.of
  <2>1. f.mark \in 0..Len(T) /\ i <= f.mark
    BY <1>1, <1>3, MarksAreNumbers DEF SaleTells
  <2>2. f.of = f.mark + 1
    <3>1. CASE f.kind = "confirmed"
      BY <1>3, <3>1, EventKinds DEF SaleTells, ConfirmTells
    <3>2. CASE f.kind = "cancelled"
      <4>1. CancelTells(f, E, T)
        BY <3>2, EventKinds DEF SaleTells
      <4> QED BY <1>3, <4>1 DEF CancelTells
    <3> QED BY <1>3, <3>1, <3>2
  <2> QED BY <1>1, <2>1, <2>2
<1>4. ASSUME NEW f \in E, f.kind = "confirmed", f.of = i PROVE f.mark = Sale!NoMark /\ f.ref = Sale!Chatter(i)
  <2>1. ~(i < f.of)
    BY <1>1, <1>4
  <2>2. f.mark = Sale!NoMark
    BY <1>3, <1>4, <2>1
  <2> QED BY <1>4, <2>2, EventKinds DEF SaleTells, ConfirmTells
<1>5. ASSUME NEW f \in E, f.kind = "cancelled", f.of = i PROVE f.ref = Sale!Chatter(i)
  <2>1. ~(i < f.of)
    BY <1>1, <1>5
  <2>2. f.mark = Sale!NoMark
    BY <1>3, <1>5, <2>1
  <2> QED BY <1>5, <2>2, EventKinds DEF SaleTells, CancelTells
<1> QED BY <1>1, <1>2, <1>3, <1>4, <1>5

LEMMA ImportProposal ==
  ASSUME PathTells(tracked), NEW q, NEW E, NEW D, NEW m, LoopTells(E, m, D, tracked, q), NEW i
  PROVE  LoopTells(Sale!WithProposal(E, i), m, D, tracked, q) /\ Past(tracked, Sale!WithProposal(E, i)) = Past(tracked, E)
<1> DEFINE p == Sale!SaleEvent("proposal", Sale!Chatter(i), Sale!NoRow, Sale!NoMark, Sale!Unreversed)
           F == E \cup {p}
<1>1. CASE Sale!WithProposal(E, i) = E
  BY <1>1
<1>2. CASE Sale!WithProposal(E, i) = F /\ ~Sale!Proposed(E)
  <2>1. p.kind = "proposal" /\ p.of = Sale!NoRow /\ p.mark = Sale!NoMark /\ p.ref = Sale!Chatter(i) /\ p.reverses = Sale!Unreversed
    BY SaleFields
  <2>2. p = Sale!SaleEvent("proposal", p.ref, Sale!NoRow, p.mark, p.reverses) /\ F = E \cup {p}
    BY <2>1
  <2> HIDE DEF p, F
  <2>3. MarkTells(p, tracked, q) /\ ProposalTells(p, tracked)
    BY <2>1, <2>2 DEF MarkTells, ProposalTells
  <2>4. SaleTells(E \cup {p}, tracked, q) /\ Sale!OpenOf(E \cup {p}) = Sale!OpenOf(E)
    BY <1>2, <2>1, <2>3, AddProposal DEF LoopTells
  <2>5. Past(tracked, F) = Past(tracked, E)
    BY <2>1, <2>2, PastSame
  <2>6. PastIsTold(F, tracked)
    BY <2>2, <2>4, <2>5 DEF PastIsTold, LoopTells, Sale!Has
  <2>7. \A c \in Sale!OpenOf(F), x \in F : x.kind = "cancelled" => x.of < c.of \/ Lately(c, m, tracked)
    BY <2>1, <2>2, <2>4 DEF LoopTells
  <2>8. \A j \in Past(tracked, F) : j <= m /\ LostAt(tracked, j) => Sale!Has(F, "cancelled", Sale!Chatter(j))
    BY <2>2, <2>5 DEF LoopTells, Sale!Has
  <2>9. D \subseteq F /\ \A e \in F : e.mark # Sale!NoMark => e \in D
    BY <2>1, <2>2 DEF LoopTells
  <2> QED BY <1>2, <2>2, <2>4, <2>5, <2>6, <2>7, <2>8, <2>9 DEF LoopTells
<1> QED BY <1>1, <1>2 DEF Sale!WithProposal

LEMMA ImportConfirmation ==
  ASSUME PathTells(tracked), NEW q, NEW E, NEW D, NEW m \in Nat, LoopTells(E, m, D, tracked, q),
         NEW i \in Past(tracked, E), i = m + 1, SoldAt(tracked, i), ~Sale!Has(E, "confirmed", Sale!Chatter(i))
  PROVE  LoopTells(E \cup {Sale!SaleEvent("confirmed", Sale!Chatter(i), i, Sale!NoMark, Sale!Unreversed)}, i, D, tracked, q)
<1> DEFINE c == Sale!SaleEvent("confirmed", Sale!Chatter(i), i, Sale!NoMark, Sale!Unreversed)
           F == E \cup {c}
<1>1. c.kind = "confirmed" /\ c.of = i /\ c.mark = Sale!NoMark /\ c.ref = Sale!Chatter(i) /\ c.reverses = Sale!Unreversed
  BY SaleFields
<1>2. c = Sale!SaleEvent("confirmed", c.ref, c.of, c.mark, Sale!Unreversed) /\ F = E \cup {c}
  BY <1>1
<1> HIDE DEF c, F
<1>3. SaleTells(E, tracked, q)
  BY DEF LoopTells
<1>4. i \in 1..Len(tracked) /\ Len(tracked) \in Nat /\ ~LostAt(tracked, i)
  BY <1>3, PastRow, PathFacts
<1>5. MarkTells(c, tracked, q) /\ ConfirmTells(c, tracked)
  BY <1>1, <1>2, <1>4 DEF MarkTells, ConfirmTells
<1>6. \A f \in E : f.kind = "confirmed" /\ f.of = c.of => f = c
  BY <1>1, <1>3, PastRow DEF Sale!Has
<1>7. SaleTells(F, tracked, q) /\ Sale!OpenOf(F) \subseteq Sale!OpenOf(E) \cup {c}
  BY <1>1, <1>2, <1>3, <1>5, <1>6, AddConfirm
<1>8. Past(tracked, F) = Past(tracked, E)
  BY <1>1, <1>2, PastSame
<1>9. PastIsTold(F, tracked)
  <2> SUFFICES ASSUME NEW k \in Sale!OpenOf(F), k.mark = Sale!NoMark, NEW j \in Past(tracked, E), j < k.of, LostAt(tracked, j)
               PROVE  Sale!Has(E, "cancelled", Sale!Chatter(j))
    BY <1>2, <1>8 DEF PastIsTold, Sale!Has
  <2>1. CASE k \in Sale!OpenOf(E)
    BY <2>1 DEF LoopTells, PastIsTold
  <2>2. CASE k = c
    <3>1. j <= m
      BY <1>1, <1>4, <2>2 DEF Past
    <3> QED BY <3>1 DEF LoopTells
  <2> QED BY <1>7, <2>1, <2>2
<1>10. ASSUME NEW k \in Sale!OpenOf(F), NEW x \in F, x.kind = "cancelled" PROVE x.of < k.of \/ Lately(k, i, tracked)
  <2>1. CASE k = c
    <3>1. c.of <= i /\ \A j \in 1..Len(tracked) : ~(c.of < j /\ j <= i)
      BY <1>1, <1>4
    <3> QED BY <1>1, <2>1, <3>1 DEF Lately
  <2>2. CASE k \in Sale!OpenOf(E)
    <3>1. x.of < k.of \/ Lately(k, m, tracked)
      BY <1>1, <1>2, <1>10, <2>2 DEF LoopTells
    <3>2. ASSUME Lately(k, m, tracked) PROVE Lately(k, i, tracked)
      <4>1. k.of \in 1..Len(tracked)
        BY <1>3, <2>2, OpenIs, EventKinds DEF SaleTells
      <4>2. k.of <= i /\ \A j \in 1..Len(tracked) : j <= i => j <= m \/ j = i
        BY <1>4, <3>2, <4>1 DEF Lately
      <4> QED BY <1>4, <3>2, <4>2 DEF Lately
    <3> QED BY <3>1, <3>2
  <2> QED BY <1>7, <2>1, <2>2
<1>11. ASSUME NEW j \in Past(tracked, F), j <= i, LostAt(tracked, j) PROVE Sale!Has(F, "cancelled", Sale!Chatter(j))
  <2>1. j \in 1..Len(tracked) /\ j # i
    BY <1>4, <1>11 DEF Past
  <2>2. j <= m
    BY <1>4, <1>11, <2>1
  <2> QED BY <1>2, <1>8, <1>11, <2>2 DEF LoopTells, Sale!Has
<1>12. D \subseteq F /\ \A e \in F : e.mark # Sale!NoMark => e \in D
  BY <1>1, <1>2 DEF LoopTells
<1>13. LoopTells(F, i, D, tracked, q)
  BY <1>7, <1>9, <1>10, <1>11, <1>12 DEF LoopTells
<1> QED BY <1>13 DEF F, c

\* Nothing to import: a row that was cancelled and told had its confirmation
\* closed.
LEMMA ImportNothing ==
  ASSUME PathTells(tracked), NEW q, NEW E, NEW D, NEW m \in Nat, LoopTells(E, m, D, tracked, q),
         NEW i \in Past(tracked, E), i = m + 1, LostAt(tracked, i) => Sale!Has(E, "cancelled", Sale!Chatter(i))
  PROVE  LoopTells(E, i, D, tracked, q)
<1>1. SaleTells(E, tracked, q)
  BY DEF LoopTells
<1>2. i \in 1..Len(tracked) /\ Len(tracked) \in Nat
  BY <1>1, PastRow, PathFacts
<1>3. ASSUME NEW c \in Sale!OpenOf(E), NEW y \in E, y.kind = "cancelled" PROVE y.of < c.of \/ Lately(c, i, tracked)
  <2>1. c \in E /\ c.kind = "confirmed" /\ c.of \in 1..Len(tracked) /\ SoldAt(tracked, c.of)
    BY <1>1, <1>3, OpenIs, EventKinds DEF SaleTells
  <2>2. SUFFICES ASSUME Lately(c, m, tracked) PROVE Lately(c, i, tracked)
    BY <1>3 DEF LoopTells
  <2>3. ~LostAt(tracked, i)
    <3> SUFFICES ASSUME LostAt(tracked, i) PROVE FALSE
      OBVIOUS
    <3>1. PICK x \in E : x.kind = "cancelled" /\ x.ref = Sale!Chatter(i)
      BY DEF Sale!Has
    <3>2. CancelTells(x, E, tracked)
      BY <1>1, <3>1, EventKinds DEF SaleTells
    <3>3. x.of = i
      BY <3>1, <3>2 DEF CancelTells
    <3>4. PICK k \in E : k.kind = "confirmed" /\ k.ref = x.reverses /\ k.of < i /\ Closely(k, x, tracked)
      BY <3>1, <3>2, <3>3 DEF CancelTells
    <3>5. k.of \in 1..Len(tracked) /\ SoldAt(tracked, k.of)
      BY <1>1, <3>4, EventKinds DEF SaleTells
    <3>6. k.of <= m /\ \A j \in 1..Len(tracked) : k.of < j /\ j <= m => j \in (k.of + 1)..(x.of - 1)
      BY <1>2, <3>3, <3>4, <3>5
    <3>7. \A j \in 1..Len(tracked) : k.of < j /\ j <= m => ~LostAt(tracked, j)
      BY <3>4, <3>6 DEF Closely
    <3>8. c.of = k.of
      BY <2>1, <2>2, <3>5, <3>6, <3>7, SameSale DEF Lately
    <3>9. c = k
      BY <1>1, <2>1, <3>4, <3>8 DEF SaleTells, CountedOnce
    <3> QED BY <1>3, <3>1, <3>4, <3>9, OpenIs
  <2>4. c.of <= i /\ \A j \in 1..Len(tracked) : j <= i => j <= m \/ j = i
    BY <1>2, <2>1, <2>2 DEF Lately
  <2> QED BY <2>2, <2>3, <2>4 DEF Lately
<1>4. ASSUME NEW j \in Past(tracked, E), j <= i, LostAt(tracked, j) PROVE Sale!Has(E, "cancelled", Sale!Chatter(j))
  <2>1. CASE j = i
    BY <1>4, <2>1
  <2>2. CASE j # i
    <3>1. j <= m
      BY <1>2, <1>4, <2>2 DEF Past
    <3> QED BY <1>4, <3>1 DEF LoopTells
  <2> QED BY <2>1, <2>2
<1> QED BY <1>3, <1>4 DEF LoopTells

\* A cancellation that is imported closes the confirmation before it.
LEMMA ImportReversal ==
  ASSUME PathTells(tracked), NEW q, NEW E, NEW D, NEW m \in Nat, LoopTells(E, m, D, tracked, q),
         NEW i \in Past(tracked, E), i = m + 1, LostAt(tracked, i), ~Sale!Has(E, "cancelled", Sale!Chatter(i)),
         Sale!Reversible(E, i, TRUE)
  PROVE  LoopTells(Sale!WithReversal(E, i, TRUE, Sale!Chatter(i), i, Sale!NoMark), i, D, tracked, q)
<1>1. SaleTells(E, tracked, q)
  BY DEF LoopTells
<1>2. i \in 1..Len(tracked) /\ Len(tracked) \in Nat /\ i \in 1..(Len(tracked) + 1) /\ i - 1 = m
  BY <1>1, PastRow, PathFacts
<1>3. SaleAt(tracked, i - 1) /\ ~SoldAt(tracked, i)
  BY <1>2, PathFacts DEF PathTells
<1>4. PICK h \in BOOLEAN : h = TRUE
  OBVIOUS
<1>5. /\ Sale!OpenConfirmation(E, h) = Sale!OpenConfirmation(E, TRUE)
      /\ Sale!OpenConfirmation(E, h) = Sale!OpenOf(E) \cap Sale!Imported(E)
  BY <1>4 DEF Sale!OpenConfirmation
<1>6. Sale!EnsureConfirmation(E, i, h) = Sale!EnsureConfirmation(E, i, TRUE)
  BY <1>5 DEF Sale!EnsureConfirmation
<1>7. PICK c : Ensured(c, E, q, i, h)
  <2>1. ~Sale!Ambiguous(E, h)
    BY <1>5 DEF Sale!Ambiguous, Sale!Reversible
  <2>2. \A f \in E : Sale!OpenConfirmation(E, h) = {} /\ f.kind = "confirmed" /\ f.mark # Sale!NoMark =>
          f.of # Sale!LastConfirmation(i)
    <3> SUFFICES ASSUME NEW f \in E, f.kind = "confirmed", f.mark # Sale!NoMark, f.of = Sale!LastConfirmation(i) PROVE FALSE
      OBVIOUS
    <3>1. i < f.of
      BY <1>1, PastRow
    <3>2. Sale!LastConfirmation(i) \in 1..Len(tracked) /\ Sale!LastConfirmation(i) < i
      BY <1>2, <1>3, LastConfirmationIs
    <3> QED BY <1>2, <3>1, <3>2
  <2> QED BY <1>1, <1>2, <1>3, <2>1, <2>2, EnsureAdds
<1> DEFINE F == E \cup {c}
           x == Sale!SaleEvent("cancelled", Sale!Chatter(i), i, Sale!NoMark, c.ref)
           G == F \cup {x}
<1>8. Sale!WithReversal(E, i, TRUE, Sale!Chatter(i), i, Sale!NoMark) = G
  <2>1. Sale!EnsureConfirmation(E, i, TRUE) = {c}
    BY <1>6, <1>7 DEF Ensured
  <2>2. Sale!Reversal({c}, Sale!Chatter(i), i, Sale!NoMark) = {x}
    BY DEF Sale!Reversal
  <2> QED BY <2>1, <2>2 DEF Sale!WithReversal
<1>9. x.kind = "cancelled" /\ x.of = i /\ x.mark = Sale!NoMark /\ x.ref = Sale!Chatter(i) /\ x.reverses = c.ref
  BY SaleFields
<1>10. x = Sale!SaleEvent("cancelled", x.ref, x.of, x.mark, c.ref) /\ F = E \cup {c} /\ G = F \cup {x}
  BY <1>9
<1> HIDE DEF x, F, G
<1>11. SaleTells(F, tracked, q) /\ c.kind = "confirmed" /\ c \in Sale!OpenOf(F) /\ Sale!OpenOf(F) \subseteq Sale!OpenOf(E) \cup {c}
  <2>1. \A y \in E : y.kind = "cancelled" => y.reverses # c.ref
    <3>1. c \in Sale!EnsureConfirmation(E, i, TRUE)
      BY <1>6, <1>7 DEF Ensured
    <3> QED BY <3>1 DEF Sale!Reversible
  <2> QED BY <1>7, <1>10, <2>1 DEF Ensured
<1>12. /\ \/ c \in E /\ Sale!OpenConfirmation(E, h) = {c}
          \/ /\ Sale!OpenConfirmation(E, h) = {} /\ c.of \in 1..Len(tracked) /\ c.of < i
             /\ \A j \in 1..Len(tracked) : c.of < j /\ j < i => ~LostAt(tracked, j)
       /\ c.mark = Sale!NoMark
  BY <1>5, <1>7 DEF Ensured, Sale!Imported
<1>13. Past(tracked, F) = Past(tracked, E) /\ Past(tracked, G) = Past(tracked, E)
  <2>1. Past(tracked, F) = Past(tracked, E)
    BY <1>10, <1>12, PastSame
  <2>2. Past(tracked, G) = Past(tracked, F)
    BY <1>9, <1>10, PastSame
  <2> QED BY <2>1, <2>2
<1>14. c.of \in 1..Len(tracked) /\ c.of < i /\ \A j \in 1..Len(tracked) : c.of < j /\ j < i => ~LostAt(tracked, j)
  <2>1. CASE c \in E /\ Sale!OpenConfirmation(E, h) = {c}
    <3>1. c \in Sale!OpenOf(E)
      BY <1>5, <2>1
    <3>2. c.of \in 1..Len(tracked) /\ SoldAt(tracked, c.of)
      BY <1>1, <1>11, <2>1, EventKinds DEF SaleTells
    <3>3. ~(i < c.of)
      BY <1>12, <3>1 DEF LoopTells, PastIsTold
    <3>4. c.of < i
      BY <1>2, <1>3, <3>2, <3>3
    <3>5. ASSUME NEW j \in 1..Len(tracked), c.of < j, j < i, LostAt(tracked, j) PROVE FALSE
      <4>1. j \in Past(tracked, E) /\ j <= m
        BY <1>1, <1>2, <3>5, PastRow
      <4>2. PICK y \in E : y.kind = "cancelled" /\ y.ref = Sale!Chatter(j)
        BY <3>5, <4>1 DEF LoopTells, Sale!Has
      <4>3. y.of = j
        <5>1. CancelTells(y, E, tracked)
          BY <1>1, <4>2, EventKinds DEF SaleTells
        <5> QED BY <4>2, <5>1 DEF CancelTells
      <4>4. ~(y.of < c.of)
        BY <1>2, <3>2, <3>5, <4>3
      <4>5. Lately(c, m, tracked)
        BY <3>1, <4>2, <4>4 DEF LoopTells
      <4> QED BY <3>5, <4>1, <4>5 DEF Lately
    <3> QED BY <3>2, <3>4, <3>5
  <2> QED BY <1>12, <2>1
<1>15. CancelFits(x, c, F, tracked, q)
  <2>1. MarkTells(x, tracked, q)
    BY <1>9 DEF MarkTells
  <2>2. Closely(c, x, tracked)
    <3>1. \A j \in (c.of + 1)..(x.of - 1) : j \in 1..Len(tracked) /\ c.of < j /\ j < i
      BY <1>2, <1>9, <1>14
    <3> QED BY <1>14, <3>1 DEF Closely
  <2>3. \A n : x.ref = Sale!Chatter(n) => x.of = n
    BY <1>9, SaleRefs
  <2>4. \A f \in F : f.kind = "cancelled" => f.of # x.of
    <3> SUFFICES ASSUME NEW f \in E, f.kind = "cancelled", f.of = i PROVE FALSE
      BY <1>9, <1>10, <1>11
    <3> QED BY <1>1, PastRow DEF Sale!Has
  <2> QED BY <1>2, <1>9, <1>10, <1>14, <2>1, <2>2, <2>3, <2>4 DEF CancelFits
<1>16. SaleTells(G, tracked, q)
  <2>1. SaleTells(F \cup {x}, tracked, q)
    BY <1>11, <1>15, AddCancel
  <2> QED BY <1>10, <2>1
<1>17. Sale!OpenOf(G) = Sale!OpenOf(F) \ {c}
  <2>1. Sale!OpenOf(F \cup {x}) = Sale!OpenOf(F) \ {c}
    <3>1. SaleTells(F, tracked, q) /\ c \in Sale!OpenOf(F)
      BY <1>11
    <3> QED BY <1>15, <3>1, AddCancel
  <2> QED BY <1>10, <2>1
<1>18. ASSUME NEW k \in Sale!OpenOf(G)
       PROVE  k \in Sale!OpenOf(E) /\ k \in E /\ k.of \in 1..Len(tracked) /\ i < k.of /\ k.mark # Sale!NoMark
  <2>1. k \in Sale!OpenOf(E) /\ k # c
    BY <1>11, <1>17, <1>18
  <2>2. k \in E /\ k.kind = "confirmed" /\ k.of \in 1..Len(tracked)
    BY <1>1, <2>1, OpenIs, EventKinds DEF SaleTells
  <2>3. k.mark # Sale!NoMark
    BY <1>5, <1>12, <2>1, <2>2 DEF Sale!Imported
  <2>4. i < k.of
    BY <1>1, <2>2, <2>3, PastRow
  <2> QED BY <2>1, <2>2, <2>3, <2>4
<1>19. PastIsTold(G, tracked)
  BY <1>18 DEF PastIsTold
<1>20. ASSUME NEW k \in Sale!OpenOf(G), NEW y \in G, y.kind = "cancelled" PROVE y.of < k.of
  <2>1. CASE y = x
    BY <1>9, <1>18, <1>20, <2>1
  <2>2. CASE y \in E
    BY <1>18, <1>20, <2>2 DEF LoopTells, Lately
  <2> QED BY <1>10, <1>11, <1>20, <2>1, <2>2
<1>21. ASSUME NEW j \in Past(tracked, G), j <= i, LostAt(tracked, j) PROVE Sale!Has(G, "cancelled", Sale!Chatter(j))
  <2>1. CASE j = i
    BY <1>9, <1>10, <2>1 DEF Sale!Has
  <2>2. CASE j # i
    <3>1. j <= m
      BY <1>2, <1>21, <2>2 DEF Past
    <3> QED BY <1>10, <1>13, <1>21, <3>1 DEF LoopTells, Sale!Has
  <2> QED BY <2>1, <2>2
<1>22. D \subseteq G /\ \A e \in G : e.mark # Sale!NoMark => e \in D
  BY <1>9, <1>10, <1>12 DEF LoopTells
<1> QED BY <1>8, <1>16, <1>19, <1>20, <1>21, <1>22 DEF LoopTells

\* --- The recursion of the import, and what holds at each of its rows.
Imports(g, n) ==
  g = [i \in 0..n |->
         IF i = 0 THEN saleEvents
         ELSE IF i \in Sale!Historical THEN Sale!ImportRow(g[i - 1], i) ELSE g[i - 1]]

LEMMA ImportsExist == \A n \in Nat : \E g : Imports(g, n)
<1> DEFINE S == {n \in Nat : \E g : Imports(g, n)}
           Row(E, i) == IF i \in Sale!Historical THEN Sale!ImportRow(E, i) ELSE E
<1>1. 0 \in S
  <2> DEFINE g == [i \in 0..0 |-> saleEvents]
  <2>1. Imports(g, 0)
    BY DEF Imports
  <2> QED BY <2>1
<1>2. ASSUME NEW n \in Nat, n \in S PROVE n + 1 \in S
  <2>1. PICK g : Imports(g, n)
    BY <1>2
  <2> DEFINE last == Row(g[n], n + 1)
             h == [i \in 0..(n + 1) |-> IF i = n + 1 THEN last ELSE g[i]]
  <2>2. \A i \in 0..n : g[i] = IF i = 0 THEN saleEvents ELSE Row(g[i - 1], i)
    BY <2>1 DEF Imports
  <2> HIDE DEF Row
  <2>3. ASSUME NEW i \in 0..(n + 1)
        PROVE  h[i] = IF i = 0 THEN saleEvents ELSE Row(h[i - 1], i)
    <3>1. CASE i = n + 1
      <4>1. i # 0 /\ i - 1 = n /\ n \in 0..(n + 1) /\ n # n + 1
        BY <3>1
      <4>2. h[i] = last /\ h[i - 1] = g[n]
        BY <3>1, <4>1
      <4> QED BY <3>1, <4>1, <4>2
    <3>2. CASE i # n + 1
      <4>1. i \in 0..n /\ h[i] = g[i] /\ (i # 0 => i - 1 \in 0..(n + 1) /\ i - 1 # n + 1)
        BY <3>2
      <4>2. i # 0 => h[i - 1] = g[i - 1]
        BY <4>1
      <4> HIDE DEF h
      <4> QED BY <2>2, <4>1, <4>2
    <3> QED BY <3>1, <3>2
  <2>4. Imports(h, n + 1)
    <3>1. h = [i \in 0..(n + 1) |-> h[i]]
      OBVIOUS
    <3> HIDE DEF h
    <3> QED BY <2>3, <3>1 DEF Imports, Row
  <2> HIDE DEF h
  <2> QED BY <2>4
<1> HIDE DEF S
<1>3. Nat \subseteq S
  BY <1>1, <1>2, NatSets
<1> QED BY <1>3 DEF S

LEMMA ImportedIs ==
  ASSUME Sale!Top \in Nat
  PROVE  /\ Sale!ImportedUpTo[0] = saleEvents
         /\ \A i \in 1..Sale!Top : Sale!ImportedUpTo[i] = IF i \in Sale!Historical THEN Sale!ImportRow(Sale!ImportedUpTo[i - 1], i)
                                                          ELSE Sale!ImportedUpTo[i - 1]
<1> DEFINE g == Sale!ImportedUpTo
<1>1. Imports(g, Sale!Top)
  <2>1. \E f : Imports(f, Sale!Top)
    BY ImportsExist
  <2>2. g = CHOOSE f : Imports(f, Sale!Top)
    BY DEF Sale!ImportedUpTo, Imports
  <2> QED BY <2>1, <2>2
<1> HIDE DEF g
<1>2. \A i \in 0..Sale!Top : g[i] = IF i = 0 THEN saleEvents
                                    ELSE IF i \in Sale!Historical THEN Sale!ImportRow(g[i - 1], i) ELSE g[i - 1]
  BY <1>1 DEF Imports
<1>3. 0 \in 0..Sale!Top /\ \A i \in 1..Sale!Top : i \in 0..Sale!Top /\ i # 0
  OBVIOUS
<1> QED BY <1>2, <1>3 DEF g

CanImport ==
  \A i \in Sale!Historical :
    Sale!Reverses(i) /\ ~Sale!Has(Sale!ImportedUpTo[i - 1], "cancelled", Sale!Chatter(i)) =>
      Sale!Reversible(Sale!WithProposal(Sale!ImportedUpTo[i - 1], i), i, TRUE)
LoopAt(i) ==
  \E h \in 0..i : /\ h = 0 \/ h \in Past(tracked, saleEvents)
                  /\ \A j \in Past(tracked, saleEvents) : j <= i => j <= h
                  /\ LoopTells(Sale!ImportedUpTo[i], h, saleEvents, tracked, saleSequence)

LEMMA LoopBegins ==
  ASSUME SaleInv PROVE LoopAt(0)
<1>1. Sale!Top \in Nat
  BY TrackedRows DEF SaleInv, SaleTypes, PathTells
<1>2. Sale!ImportedUpTo[0] = saleEvents
  BY <1>1, ImportedIs
<1>3. \A j \in Past(tracked, saleEvents) : ~(j <= 0)
  BY <1>1, TrackedRows DEF Past, SaleInv, SaleTypes, PathTells
<1>4. LoopTells(saleEvents, 0, saleEvents, tracked, saleSequence)
  BY <1>3 DEF LoopTells, SaleInv, NoneBefore
<1> QED BY <1>2, <1>3, <1>4 DEF LoopAt

LEMMA LoopGoesOn ==
  ASSUME SaleInv, CanImport, NEW i \in Nat, i + 1 <= Sale!Top, LoopAt(i) PROVE LoopAt(i + 1)
<1> DEFINE P == Past(tracked, saleEvents)
           I == Sale!ImportedUpTo
<1>1. PathTells(tracked) /\ Sale!Top = Len(tracked) /\ Len(tracked) \in Nat /\ SaleTells(saleEvents, tracked, saleSequence)
  BY TrackedRows DEF SaleInv, SaleTypes, PathTells
<1>2. PICK k \in 1..Len(tracked) : k = i + 1 /\ k - 1 = i /\ k \in Nat
  <2>1. i + 1 \in 1..Len(tracked) /\ (i + 1) - 1 = i /\ i + 1 \in Nat
    BY <1>1
  <2> QED BY <2>1
<1>3. I[k] = IF k \in P THEN Sale!ImportRow(I[i], k) ELSE I[i]
  BY <1>1, <1>2, ImportedIs, HistoricalIs
<1>4. PICK h \in 0..i : /\ h = 0 \/ h \in P
                        /\ \A j \in P : j <= i => j <= h
                        /\ LoopTells(I[i], h, saleEvents, tracked, saleSequence)
  BY DEF LoopAt
<1> HIDE DEF I
<1>5. CASE k \notin P
  <2>1. h \in 0..k /\ \A j \in P : j <= k => j <= i
    BY <1>1, <1>2, <1>5 DEF Past
  <2> QED BY <1>2, <1>3, <1>4, <1>5, <2>1 DEF LoopAt, I
<1>6. CASE k \in P
  <2>1. h = i
    <3>1. CASE i = 0
      BY <3>1
    <3>2. CASE i # 0
      <4>1. i \in 1..Len(tracked) /\ i < k
        BY <1>1, <1>2, <3>2
      <4>2. i \in P
        BY <1>1, <1>6, <4>1, PastRow
      <4>3. i <= h
        BY <1>4, <4>2
      <4> QED BY <4>3
    <3> QED BY <3>1, <3>2
  <2> DEFINE E == I[i]
             told == Sale!WithProposal(E, k)
  <2>2. LoopTells(E, i, saleEvents, tracked, saleSequence)
    BY <1>4, <2>1
  <2>3. Past(tracked, E) = P
    BY <2>2, PastSame DEF LoopTells
  <2>4. LoopTells(told, i, saleEvents, tracked, saleSequence) /\ Past(tracked, told) = P
    BY <1>1, <2>2, <2>3, ImportProposal
  <2>5. E \subseteq told
    BY DEF Sale!WithProposal
  <2>6. /\ Sale!Confirms(k) <=> SoldAt(tracked, k)
        /\ Sale!Reverses(k) <=> LostAt(tracked, k)
        /\ ~(SoldAt(tracked, k) /\ LostAt(tracked, k))
    BY DEF Sale!Confirms, Sale!Reverses, SoldAt, LostAt
  <2>7. I[k] = Sale!ImportRow(E, k)
    BY <1>3, <1>6
  <2>8. Sale!ImportRow(E, k) =
          IF SoldAt(tracked, k) /\ ~Sale!Has(told, "confirmed", Sale!Chatter(k))
          THEN told \cup {Sale!SaleEvent("confirmed", Sale!Chatter(k), k, Sale!NoMark, Sale!Unreversed)}
          ELSE IF LostAt(tracked, k) /\ ~Sale!Has(told, "cancelled", Sale!Chatter(k))
          THEN Sale!WithReversal(told, k, TRUE, Sale!Chatter(k), k, Sale!NoMark)
          ELSE told
    BY <2>6 DEF Sale!ImportRow
  <2>9. LostAt(tracked, k) /\ ~Sale!Has(told, "cancelled", Sale!Chatter(k)) => Sale!Reversible(told, k, TRUE)
    <3>1. ~Sale!Has(told, "cancelled", Sale!Chatter(k)) => ~Sale!Has(E, "cancelled", Sale!Chatter(k))
      BY <2>5 DEF Sale!Has
    <3> QED BY <1>2, <1>6, <2>6, <3>1, HistoricalIs DEF CanImport, I
  <2> HIDE DEF told, E
  <2>10. LoopTells(I[k], k, saleEvents, tracked, saleSequence)
    <3>1. CASE SoldAt(tracked, k) /\ ~Sale!Has(told, "confirmed", Sale!Chatter(k))
      BY <1>1, <1>2, <1>6, <2>4, <2>7, <2>8, <3>1, ImportConfirmation
    <3>2. CASE LostAt(tracked, k) /\ ~Sale!Has(told, "cancelled", Sale!Chatter(k))
      <4>1. I[k] = Sale!WithReversal(told, k, TRUE, Sale!Chatter(k), k, Sale!NoMark)
        BY <2>6, <2>7, <2>8, <3>2
      <4>2. LoopTells(Sale!WithReversal(told, k, TRUE, Sale!Chatter(k), k, Sale!NoMark), k, saleEvents, tracked, saleSequence)
        BY <1>1, <1>2, <1>6, <2>4, <2>9, <3>2, ImportReversal
      <4> QED BY <4>1, <4>2
    <3>3. CASE /\ ~(SoldAt(tracked, k) /\ ~Sale!Has(told, "confirmed", Sale!Chatter(k)))
               /\ ~(LostAt(tracked, k) /\ ~Sale!Has(told, "cancelled", Sale!Chatter(k)))
      <4>1. I[k] = told
        BY <2>7, <2>8, <3>3
      <4>2. LoopTells(told, k, saleEvents, tracked, saleSequence)
        BY <1>1, <1>2, <1>6, <2>4, <3>3, ImportNothing
      <4> QED BY <4>1, <4>2
    <3> QED BY <3>1, <3>2, <3>3
  <2>11. k \in 0..k
    BY <1>2
  <2> QED BY <1>2, <1>6, <2>10, <2>11 DEF LoopAt, I
<1> QED BY <1>5, <1>6

LEMMA LoopEnds ==
  ASSUME SaleInv, CanImport
  PROVE  \E h \in 0..Sale!Top : /\ h = 0 \/ h \in Past(tracked, saleEvents)
                                /\ \A j \in Past(tracked, saleEvents) : j <= h
                                /\ LoopTells(Sale!ImportedUpTo[Sale!Top], h, saleEvents, tracked, saleSequence)
<1> DEFINE S == {i \in Nat : i <= Sale!Top => LoopAt(i)}
<1>1. Sale!Top \in Nat /\ Sale!Top = Len(tracked)
  BY TrackedRows DEF SaleInv, SaleTypes, PathTells
<1>2. 0 \in S
  BY LoopBegins
<1>3. ASSUME NEW i \in Nat, i \in S PROVE i + 1 \in S
  <2>1. i + 1 <= Sale!Top => i <= Sale!Top
    BY <1>1
  <2> QED BY <1>3, <2>1, LoopGoesOn
<1> HIDE DEF S
<1>4. Sale!Top \in S
  BY <1>1, <1>2, <1>3, NatSets
<1>5. LoopAt(Sale!Top)
  BY <1>1, <1>4 DEF S
<1>6. \A j \in Past(tracked, saleEvents) : j <= Sale!Top
  BY <1>1 DEF Past
<1> QED BY <1>5, <1>6 DEF LoopAt

\* --- What the import has come to: all that the chatter tracked before the
\* first live event is told, and what capture reported is as it was.
Settled(E) ==
  /\ SaleTells(E, tracked, saleSequence) /\ PastIsTold(E, tracked) /\ NoneBefore(E)
  /\ \A j \in Past(tracked, E) : LostAt(tracked, j) => Sale!Has(E, "cancelled", Sale!Chatter(j))
  /\ saleEvents \subseteq E /\ \A e \in E : e.mark # Sale!NoMark => e \in saleEvents

\* The first live event knows how the order was sold before it: if it
\* cancelled, the confirmation that it closed was the last one.
LEMMA FirstLive ==
  ASSUME NEW T, PathTells(T), NEW q, NEW E, SaleTells(E, T, q), NEW e \in E, e.mark # Sale!NoMark,
         \A f \in E : f.mark # Sale!NoMark => e.mark <= f.mark,
         \A j \in 1..Len(T) : j <= e.mark /\ LostAt(T, j) => Sale!Has(E, "cancelled", Sale!Chatter(j)),
         NEW c \in Sale!OpenOf(E), c.of <= e.mark,
         \A j \in 1..Len(T) : c.of < j /\ j <= e.mark => ~LostAt(T, j)
  PROVE  FALSE
<1>1. /\ Len(T) \in Nat /\ c \in E /\ c.kind = "confirmed" /\ c.of \in 1..Len(T) /\ SoldAt(T, c.of)
      /\ \A x \in E : x.kind = "cancelled" => x.reverses # c.ref
  BY PathFacts, OpenIs, EventKinds DEF SaleTells
<1>2. e.mark \in 0..Len(T) /\ e.mark \in Nat /\ CountedOnce(E)
  <2>1. e.mark \in 0..Len(T)
    BY MarksAreNumbers DEF SaleTells
  <2> QED BY <1>1, <2>1 DEF SaleTells
<1>3. SaleAt(T, e.mark)
  BY <1>1, <1>2, SaleBehind
<1>4. CASE e.kind = "proposal"
  BY <1>3, <1>4, EventKinds DEF SaleTells, ProposalTells
<1>5. CASE e.kind = "confirmed"
  <2>1. ConfirmTells(e, T)
    BY <1>5, EventKinds DEF SaleTells
  <2>2. e.of = e.mark + 1 /\ e.of \in 1..Len(T) /\ SoldAt(T, e.of)
    BY <2>1 DEF ConfirmTells
  <2>3. ~SaleAt(T, e.of - 1)
    BY <2>2 DEF PathTells
  <2>4. e.of - 1 = e.mark
    BY <1>2, <2>2
  <2> QED BY <1>3, <2>3, <2>4
<1>6. CASE e.kind = "cancelled"
  <2>1. CancelTells(e, E, T)
    BY <1>6, EventKinds DEF SaleTells
  <2>2. e.of = e.mark + 1
    BY <2>1 DEF CancelTells
  <2>3. PICK k \in E : k.kind = "confirmed" /\ k.ref = e.reverses /\ k.of < e.of
    BY <2>1 DEF CancelTells
  <2>4. k.of \in 1..Len(T) /\ SoldAt(T, k.of)
    BY <1>1, <2>3, EventKinds DEF SaleTells
  <2>5. k.of <= e.mark
    BY <1>2, <2>2, <2>3, <2>4
  <2>6. c.of # k.of
    BY <1>1, <1>2, <1>6, <2>3 DEF CountedOnce
  <2> DEFINE L == {j \in 1..Len(T) : k.of < j /\ j <= e.mark /\ LostAt(T, j)}
  <2>7. L # {}
    <3> SUFFICES ASSUME L = {} PROVE FALSE
      OBVIOUS
    <3>1. \A j \in 1..Len(T) : k.of < j /\ j <= e.mark => ~LostAt(T, j)
      OBVIOUS
    <3> HIDE DEF L
    <3> QED BY <1>1, <1>2, <2>4, <2>5, <2>6, <3>1, SameSale
  <2>8. L \in SUBSET Nat
    BY <1>1
  <2>9. PICK j \in L : \A i \in L : j <= i
    <3> HIDE DEF L
    <3> QED BY <2>7, <2>8, LeastNumber
  <2>10. j \in 1..Len(T) /\ k.of < j /\ j <= e.mark /\ LostAt(T, j)
    OBVIOUS
  <2>11. \A i \in 1..Len(T) : k.of < i /\ i <= e.mark /\ LostAt(T, i) => j <= i
    BY <2>9
  <2> HIDE DEF L
  <2>12. PICK x \in E : x.kind = "cancelled" /\ x.ref = Sale!Chatter(j)
    BY <2>10 DEF Sale!Has
  <2>13. CancelTells(x, E, T)
    BY <2>12, EventKinds DEF SaleTells
  <2>14. x.of = j
    BY <2>12, <2>13 DEF CancelTells
  <2>15. PICK b \in E : b.kind = "confirmed" /\ b.ref = x.reverses /\ b.of < j /\ Closely(b, x, T)
    BY <2>12, <2>13, <2>14 DEF CancelTells
  <2>16. b.of \in 1..Len(T) /\ SoldAt(T, b.of)
    BY <2>15, EventKinds DEF SaleTells
  <2>17. PICK n \in Nat : n = j - 1 /\ b.of <= n /\ k.of <= n
    <3>1. j - 1 \in Nat /\ b.of <= j - 1 /\ k.of <= j - 1
      BY <1>1, <2>4, <2>10, <2>15, <2>16
    <3> QED BY <3>1
  <2>18. \A i \in 1..Len(T) : b.of < i /\ i <= n => ~LostAt(T, i)
    <3>1. \A i \in 1..Len(T) : b.of < i /\ i <= n => i \in (b.of + 1)..(x.of - 1)
      BY <1>1, <2>10, <2>14, <2>16, <2>17
    <3> QED BY <2>15, <3>1 DEF Closely
  <2>19. \A i \in 1..Len(T) : k.of < i /\ i <= n => ~LostAt(T, i)
    <3>1. \A i \in 1..Len(T) : i <= n => i <= e.mark /\ ~(j <= i)
      BY <1>1, <1>2, <2>10, <2>17
    <3> QED BY <2>11, <3>1
  <2>20. b.of = k.of
    BY <2>4, <2>16, <2>17, <2>18, <2>19, SameSale
  <2>21. x = e
    BY <1>2, <1>6, <2>3, <2>12, <2>15, <2>20 DEF CountedOnce
  <2> QED BY <1>2, <2>2, <2>10, <2>14, <2>21
<1>7. e.kind \in {"proposal", "confirmed", "cancelled"}
  BY EventKinds DEF SaleTells
<1> QED BY <1>4, <1>5, <1>6, <1>7

LEMMA ImportSettles ==
  ASSUME SaleInv, NEW E, NEW h, LoopTells(E, h, saleEvents, tracked, saleSequence),
         h = 0 \/ h \in Past(tracked, saleEvents), \A j \in Past(tracked, saleEvents) : j <= h
  PROVE  Settled(E)
<1>1. PathTells(tracked) /\ Len(tracked) \in Nat /\ SaleTells(E, tracked, saleSequence)
  BY PathFacts DEF SaleInv, SaleTypes, LoopTells
<1>2. Past(tracked, E) = Past(tracked, saleEvents)
  BY PastSame DEF LoopTells
<1>3. \A j \in Past(tracked, E) : LostAt(tracked, j) => Sale!Has(E, "cancelled", Sale!Chatter(j))
  BY <1>2 DEF LoopTells
<1>4. ASSUME NEW c \in Sale!OpenOf(E), NEW x \in E, x.kind = "cancelled", ~(x.of < c.of) PROVE FALSE
  <2>1. Lately(c, h, tracked)
    BY <1>4 DEF LoopTells
  <2>2. c \in E /\ c.kind = "confirmed" /\ c.of \in 1..Len(tracked) /\ SoldAt(tracked, c.of)
    BY <1>1, <1>4, OpenIs, EventKinds DEF SaleTells
  <2>3. x.of \in 1..Len(tracked) /\ LostAt(tracked, x.of)
    BY <1>1, <1>4, EventKinds DEF SaleTells
  <2>4. c.of < x.of
    <3>1. x.of # c.of
      BY <1>1, <2>2, <2>3, PathFacts
    <3> QED BY <1>1, <1>4, <2>2, <2>3, <3>1
  <2>5. ~(x.of <= h)
    BY <2>1, <2>3, <2>4 DEF Lately
  <2>6. x.of \notin Past(tracked, E)
    BY <1>2, <2>5
  <2> DEFINE M == {e.mark : e \in {f \in E : f.mark # Sale!NoMark}}
  <2>7. M # {}
    BY <2>3, <2>6 DEF Past
  <2>8. M \in SUBSET Nat
    <3>1. \A f \in E : f.mark # Sale!NoMark => f.mark \in 0..Len(tracked)
      BY <1>1, MarksAreNumbers DEF SaleTells
    <3> QED BY <1>1, <3>1
  <2>9. PICK m \in M : \A k \in M : m <= k
    <3> HIDE DEF M
    <3> QED BY <2>7, <2>8, LeastNumber
  <2>10. PICK e \in E : e.mark # Sale!NoMark /\ e.mark = m
    OBVIOUS
  <2>11. \A f \in E : f.mark # Sale!NoMark => e.mark <= f.mark
    BY <2>9, <2>10
  <2>12. m \in Nat
    BY <2>8
  <2> HIDE DEF M
  <2>13. \A j \in 1..Len(tracked) : j <= e.mark => j \in Past(tracked, E)
    <3> TAKE j \in 1..Len(tracked)
    <3>1. ASSUME j <= e.mark, NEW f \in E, f.mark # Sale!NoMark PROVE j <= f.mark
      <4>1. e.mark <= f.mark /\ e.mark \in Nat /\ f.mark \in Int /\ j \in Nat
        <5>1. f.mark \in Int
          BY <1>1, <3>1, MarksAreNumbers DEF SaleTells
        <5>2. e.mark <= f.mark /\ e.mark \in Nat
          BY <2>10, <2>11, <2>12, <3>1
        <5> QED BY <1>1, <5>1, <5>2
      <4> QED BY <3>1, <4>1
    <3> QED BY <3>1 DEF Past
  <2>14. c.of <= e.mark
    <3>1. h \in Past(tracked, E) /\ c.of <= h
      BY <1>1, <1>2, <2>1, <2>2 DEF Lately
    <3>2. h <= e.mark /\ h \in Nat
      BY <1>1, <2>10, <3>1 DEF Past
    <3> QED BY <1>1, <2>2, <2>10, <2>12, <3>1, <3>2
  <2>15. \A j \in 1..Len(tracked) : c.of < j /\ j <= e.mark => ~LostAt(tracked, j)
    BY <1>2, <2>1, <2>13 DEF Lately
  <2>16. \A j \in 1..Len(tracked) : j <= e.mark /\ LostAt(tracked, j) => Sale!Has(E, "cancelled", Sale!Chatter(j))
    BY <1>3, <2>13
  <2> QED BY <1>1, <1>4, <2>10, <2>11, <2>14, <2>15, <2>16, FirstLive
<1>5. NoneBefore(E)
  BY <1>4 DEF NoneBefore
<1> QED BY <1>1, <1>3, <1>5 DEF Settled, LoopTells

\* --- What the order's present state still lacks.
LEMMA StateOfSale ==
  ASSUME SaleInv, NEW E, Settled(E), order = "sale", ~Sale!Ambiguous(E, FALSE)
  PROVE  Settled(E \cup Sale!EnsureConfirmation(E, Sale!Top + 1, FALSE)) /\ Sale!OpenOf(E \cup Sale!EnsureConfirmation(E, Sale!Top + 1, FALSE)) # {}
<1>1. /\ Sale!Top = Len(tracked) /\ Len(tracked) \in Nat /\ PathTells(tracked) /\ SaleAt(tracked, Len(tracked))
      /\ SaleTells(E, tracked, saleSequence)
  BY TrackedRows DEF SaleInv, SaleTypes, PathTells, Settled
<1>2. PICK n \in Nat : /\ n \in 1..(Len(tracked) + 1) /\ SaleAt(tracked, n - 1)
                       /\ n = Sale!Top + 1 /\ n = Len(tracked) + 1
  <2>1. Len(tracked) + 1 \in 1..(Len(tracked) + 1) /\ (Len(tracked) + 1) - 1 = Len(tracked) /\ Len(tracked) + 1 \in Nat
    BY <1>1
  <2> QED BY <1>1, <2>1
<1>3. PICK g \in BOOLEAN : g = FALSE
  OBVIOUS
<1>4. Sale!OpenConfirmation(E, g) = Sale!OpenConfirmation(E, FALSE) /\ Sale!OpenConfirmation(E, g) = Sale!OpenOf(E)
  <2>1. Sale!OpenConfirmation(E, g) = Sale!OpenConfirmation(E, FALSE)
    BY <1>3 DEF Sale!OpenConfirmation
  <2>2. Sale!OpenConfirmation(E, FALSE) = Sale!OpenOf(E)
    BY DEF Sale!OpenConfirmation, Sale!OpenOf
  <2> QED BY <2>1, <2>2
<1>5. Sale!EnsureConfirmation(E, n, g) = Sale!EnsureConfirmation(E, Sale!Top + 1, FALSE)
  BY <1>2, <1>4 DEF Sale!EnsureConfirmation
<1>6. ASSUME NEW f \in E, f.kind = "confirmed", f \notin Sale!OpenOf(E), NEW k, f.of = k, k < n,
             \A j \in 1..Len(tracked) : k < j /\ j < n => ~LostAt(tracked, j)
      PROVE  FALSE
  <2>1. PICK x \in E : x.of \in 1..Len(tracked) /\ LostAt(tracked, x.of) /\ f.of < x.of
    BY <1>1, <1>6, ClosedBefore
  <2>2. x.of < n
    BY <1>1, <1>2, <2>1
  <2> QED BY <1>6, <2>1, <2>2
<1>7. PICK c : Ensured(c, E, saleSequence, n, g)
  <2>1. ~Sale!Ambiguous(E, g)
    BY <1>4 DEF Sale!Ambiguous
  <2>2. \A f \in E : Sale!OpenConfirmation(E, g) = {} /\ f.kind = "confirmed" /\ f.mark # Sale!NoMark =>
          f.of # Sale!LastConfirmation(n)
    <3> SUFFICES ASSUME NEW f \in E, Sale!OpenOf(E) = {}, f.kind = "confirmed", f.of = Sale!LastConfirmation(n) PROVE FALSE
      BY <1>4
    <3>1. /\ Sale!LastConfirmation(n) < n
          /\ \A j \in 1..Len(tracked) : Sale!LastConfirmation(n) < j /\ j < n => ~LostAt(tracked, j)
      BY <1>1, <1>2, LastConfirmationIs
    <3> QED BY <1>6, <3>1
  <2> QED BY <1>1, <1>2, <2>1, <2>2, EnsureAdds
<1> DEFINE G == E \cup {c}
<1>8. E \cup Sale!EnsureConfirmation(E, Sale!Top + 1, FALSE) = G
  BY <1>5, <1>7 DEF Ensured
<1>9. G = E \cup {c}
  OBVIOUS
<1> HIDE DEF G
<1>10. CASE c \in E /\ Sale!OpenConfirmation(E, g) = {c}
  <2>1. G = E /\ Sale!OpenOf(E) # {}
    BY <1>4, <1>9, <1>10
  <2> QED BY <1>8, <2>1
<1>11. CASE /\ Sale!OpenConfirmation(E, g) = {} /\ c.mark = Sale!NoMark /\ c.of \in 1..Len(tracked) /\ c.of < n
            /\ \A j \in 1..Len(tracked) : c.of < j /\ j < n => ~LostAt(tracked, j)
  <2>1. SaleTells(G, tracked, saleSequence) /\ c.kind = "confirmed"
    BY <1>7, <1>9 DEF Ensured
  <2>2. c \notin E
    BY <1>4, <1>6, <1>11, <2>1
  <2>3. \A x \in E : x.kind = "cancelled" => x.reverses # c.ref
    <3> SUFFICES ASSUME NEW x \in E, x.kind = "cancelled", x.reverses = c.ref PROVE FALSE
      OBVIOUS
    <3>1. CancelTells(x, E, tracked)
      BY <1>1, EventKinds DEF SaleTells
    <3>2. PICK k \in E : k.kind = "confirmed" /\ k.ref = c.ref
      BY <3>1 DEF CancelTells
    <3>3. k = c
      BY <1>1, <1>9, <2>1, <3>2, OneByRef
    <3> QED BY <2>2, <3>2, <3>3
  <2>4. c \in Sale!OpenOf(G) /\ Sale!OpenOf(G) \subseteq {c}
    BY <1>4, <1>7, <1>9, <1>11, <2>3 DEF Ensured
  <2>5. Past(tracked, G) = Past(tracked, E)
    BY <1>9, <1>11, PastSame
  <2>6. PastIsTold(G, tracked)
    BY <1>9, <2>4, <2>5 DEF PastIsTold, Settled, Sale!Has
  <2>7. NoneBefore(G)
    <3> SUFFICES ASSUME NEW x \in E, x.kind = "cancelled" PROVE x.of < c.of
      BY <1>9, <2>1, <2>4 DEF NoneBefore
    <3>1. x.of \in 1..Len(tracked) /\ LostAt(tracked, x.of)
      BY <1>1, EventKinds DEF SaleTells
    <3>2. SoldAt(tracked, c.of) /\ c \in G
      <4>1. c \in G
        BY <1>9
      <4>2. \A e \in G : EventTold(e, G, tracked, saleSequence)
        BY <2>1 DEF SaleTells
      <4> QED BY <1>1, <2>1, <4>1, <4>2, EventKinds
    <3>3. x.of # c.of /\ x.of < n
      BY <1>1, <1>2, <3>1, <3>2, PathFacts
    <3>4. ~(c.of < x.of)
      BY <1>11, <3>1, <3>3
    <3> QED BY <1>1, <1>11, <3>1, <3>3, <3>4
  <2>8. \A j \in Past(tracked, G) : LostAt(tracked, j) => Sale!Has(G, "cancelled", Sale!Chatter(j))
    BY <1>9, <2>5 DEF Settled, Sale!Has
  <2>9. saleEvents \subseteq G /\ \A e \in G : e.mark # Sale!NoMark => e \in saleEvents
    BY <1>9, <1>11 DEF Settled
  <2> QED BY <1>8, <2>1, <2>4, <2>6, <2>7, <2>8, <2>9 DEF Settled
<1> QED BY <1>7, <1>10, <1>11 DEF Ensured

LEMMA LastReversalIs ==
  ASSUME PathTells(tracked), NEW c \in 1..Len(tracked), SoldAt(tracked, c), ~SaleAt(tracked, Len(tracked))
  PROVE  Sale!LastReversal \in 1..Len(tracked) /\ LostAt(tracked, Sale!LastReversal) /\ c < Sale!LastReversal
<1> DEFINE S == {i \in Sale!Rows : Sale!Reverses(i)} \cup {Sale!NoRow}
           k == Sale!LastReversal
<1>1. Sale!Rows = 1..Len(tracked) /\ Len(tracked) \in Nat
  BY TrackedRows DEF PathTells
<1>2. \A i : Sale!Reverses(i) <=> LostAt(tracked, i)
  BY DEF Sale!Reverses, LostAt
<1>3. S \in SUBSET Nat /\ \A i \in S : i <= Len(tracked)
  BY <1>1 DEF Sale!NoRow
<1>4. PICK j \in 1..Len(tracked) : c < j /\ LostAt(tracked, j)
  <2>1. Len(tracked) \in 0..Len(tracked) /\ c <= Len(tracked)
    BY <1>1
  <2> QED BY <2>1, SaleBehind
<1>5. j \in S /\ k = Sale!Max(S)
  BY <1>1, <1>2, <1>4 DEF Sale!LastReversal
<1> HIDE DEF S, k
<1>6. k \in S /\ \A i \in S : k >= i
  BY <1>1, <1>3, <1>5, GreatestNumber DEF Sale!Max
<1>7. k >= j /\ k \in Nat /\ k # Sale!NoRow /\ c < k
  BY <1>1, <1>3, <1>4, <1>5, <1>6 DEF Sale!NoRow
<1>8. k \in 1..Len(tracked) /\ LostAt(tracked, k)
  BY <1>1, <1>2, <1>6, <1>7 DEF S
<1> QED BY <1>7, <1>8 DEF k

LEMMA StateOfCancel ==
  ASSUME SaleInv, NEW E, Settled(E), order = "cancel", ~Sale!Ambiguous(E, FALSE)
  PROVE  Settled(E \cup Sale!Reversal(Sale!OpenConfirmation(E, FALSE), Sale!Stamp(Sale!Top), Sale!LastReversal, Sale!NoMark))
<1>1. /\ Sale!Top = Len(tracked) /\ Len(tracked) \in Nat /\ PathTells(tracked) /\ ~SaleAt(tracked, Len(tracked))
      /\ SaleTells(E, tracked, saleSequence)
  BY TrackedRows DEF SaleInv, SaleTypes, PathTells, Settled
<1>2. Sale!OpenConfirmation(E, FALSE) = Sale!OpenOf(E)
  BY DEF Sale!OpenConfirmation, Sale!OpenOf
<1>3. \A a, b \in Sale!OpenOf(E) : a = b
  <2>1. Sale!IsFiniteSet(Sale!OpenOf(E))
    <3>1. Sale!OpenOf(E) \subseteq E
      BY DEF Sale!OpenOf
    <3> QED BY <1>1, <3>1, FS_Subset, EventSizes DEF SaleTells
  <2> QED BY <1>2, <2>1, Ones DEF Sale!Ambiguous
<1>4. CASE Sale!OpenOf(E) = {}
  <2>1. Sale!Reversal(Sale!OpenOf(E), Sale!Stamp(Sale!Top), Sale!LastReversal, Sale!NoMark) = {}
    BY <1>4 DEF Sale!Reversal
  <2> QED BY <1>2, <2>1
<1>5. CASE Sale!OpenOf(E) # {}
  <2>1. PICK c \in Sale!OpenOf(E) : Sale!OpenOf(E) = {c}
    BY <1>3, <1>5
  <2> DEFINE x == Sale!SaleEvent("cancelled", Sale!Stamp(Sale!Top), Sale!LastReversal, Sale!NoMark, c.ref)
             G == E \cup {x}
  <2>2. Sale!Reversal({c}, Sale!Stamp(Sale!Top), Sale!LastReversal, Sale!NoMark) = {x}
    BY DEF Sale!Reversal
  <2>3. E \cup Sale!Reversal(Sale!OpenConfirmation(E, FALSE), Sale!Stamp(Sale!Top), Sale!LastReversal, Sale!NoMark) = G
    BY <1>2, <2>1, <2>2
  <2>4. x.kind = "cancelled" /\ x.of = Sale!LastReversal /\ x.mark = Sale!NoMark /\ x.ref = Sale!Stamp(Sale!Top) /\ x.reverses = c.ref
    BY SaleFields
  <2>5. x = Sale!SaleEvent("cancelled", x.ref, x.of, x.mark, c.ref) /\ G = E \cup {x}
    BY <2>4
  <2> HIDE DEF x, G
  <2>6. c \in E /\ c.kind = "confirmed" /\ c.of \in 1..Len(tracked) /\ SoldAt(tracked, c.of)
    BY <1>1, <2>1, OpenIs, EventKinds DEF SaleTells
  <2>7. x.of \in 1..Len(tracked) /\ LostAt(tracked, x.of) /\ c.of < x.of
    BY <1>1, <2>4, <2>6, LastReversalIs
  <2>8. \A y \in E : y.kind = "cancelled" => y.of # x.of
    <3> SUFFICES ASSUME NEW y \in E, y.kind = "cancelled", y.of = x.of PROVE FALSE
      OBVIOUS
    <3>1. x.of < c.of
      BY <2>1 DEF Settled, NoneBefore
    <3> QED BY <1>1, <2>6, <2>7, <3>1
  <2>9. x.of \notin Past(tracked, E)
    <3> SUFFICES ASSUME x.of \in Past(tracked, E) PROVE FALSE
      OBVIOUS
    <3>1. PICK y \in E : y.kind = "cancelled" /\ y.ref = Sale!Chatter(x.of)
      BY <2>7 DEF Settled, Sale!Has
    <3>2. CancelTells(y, E, tracked)
      BY <1>1, <3>1, EventKinds DEF SaleTells
    <3>3. y.of = x.of
      BY <3>1, <3>2 DEF CancelTells
    <3> QED BY <2>8, <3>1, <3>3
  <2>10. CancelFits(x, c, E, tracked, saleSequence)
    <3>1. MarkTells(x, tracked, saleSequence)
      BY <2>4 DEF MarkTells
    <3>2. \A n : x.ref # Sale!Chatter(n)
      BY <2>4, SaleRefs
    <3> QED BY <2>4, <2>5, <2>7, <2>8, <2>9, <3>1, <3>2 DEF CancelFits
  <2>11. SaleTells(G, tracked, saleSequence)
    <3>1. SaleTells(E \cup {x}, tracked, saleSequence)
      BY <1>1, <2>1, <2>10, AddCancel
    <3> QED BY <2>5, <3>1
  <2>12. Sale!OpenOf(G) = {}
    <3>1. Sale!OpenOf(E \cup {x}) = Sale!OpenOf(E) \ {c}
      <4>1. SaleTells(E, tracked, saleSequence) /\ PathTells(tracked)
        BY <1>1
      <4> QED BY <2>1, <2>10, <4>1, AddCancel
    <3> QED BY <2>1, <2>5, <3>1
  <2>13. PastIsTold(G, tracked) /\ NoneBefore(G)
    BY <2>12 DEF PastIsTold, NoneBefore
  <2>14. Past(tracked, G) = Past(tracked, E)
    BY <2>4, <2>5, PastSame
  <2>15. \A j \in Past(tracked, G) : LostAt(tracked, j) => Sale!Has(G, "cancelled", Sale!Chatter(j))
    BY <2>5, <2>14 DEF Settled, Sale!Has
  <2>16. saleEvents \subseteq G /\ \A e \in G : e.mark # Sale!NoMark => e \in saleEvents
    BY <2>4, <2>5 DEF Settled
  <2> QED BY <2>3, <2>11, <2>13, <2>15, <2>16 DEF Settled
<1> QED BY <1>4, <1>5

LEMMA StateOfSent ==
  ASSUME SaleInv, NEW E, Settled(E), ~Sale!Proposed(E)
  PROVE  Settled(E \cup {Sale!SaleEvent("proposal", Sale!Stamp(Sale!Top), Sale!NoRow, Sale!NoMark, Sale!Unreversed)})
<1> DEFINE p == Sale!SaleEvent("proposal", Sale!Stamp(Sale!Top), Sale!NoRow, Sale!NoMark, Sale!Unreversed)
           F == E \cup {p}
<1>1. p.kind = "proposal" /\ p.of = Sale!NoRow /\ p.mark = Sale!NoMark /\ p.reverses = Sale!Unreversed
  BY SaleFields
<1>2. p = Sale!SaleEvent("proposal", p.ref, Sale!NoRow, p.mark, p.reverses) /\ F = E \cup {p}
  BY SaleFields
<1> HIDE DEF p, F
<1>3. MarkTells(p, tracked, saleSequence) /\ ProposalTells(p, tracked)
  BY <1>1, <1>2 DEF MarkTells, ProposalTells
<1>4. SaleTells(F, tracked, saleSequence) /\ Sale!OpenOf(F) = Sale!OpenOf(E)
  <2>1. SaleTells(E, tracked, saleSequence) /\ PathTells(tracked)
    BY DEF Settled, SaleInv, SaleTypes
  <2>2. SaleTells(E \cup {p}, tracked, saleSequence) /\ Sale!OpenOf(E \cup {p}) = Sale!OpenOf(E)
    BY <1>1, <1>3, <2>1, AddProposal
  <2> QED BY <1>2, <2>2
<1>5. Past(tracked, F) = Past(tracked, E)
  BY <1>1, <1>2, PastSame
<1>6. PastIsTold(F, tracked)
  BY <1>2, <1>4, <1>5 DEF PastIsTold, Settled, Sale!Has
<1>7. NoneBefore(F)
  BY <1>1, <1>2, <1>4 DEF NoneBefore, Settled
<1>8. \A j \in Past(tracked, F) : LostAt(tracked, j) => Sale!Has(F, "cancelled", Sale!Chatter(j))
  BY <1>2, <1>5 DEF Settled, Sale!Has
<1>9. saleEvents \subseteq F /\ \A e \in F : e.mark # Sale!NoMark => e \in saleEvents
  BY <1>1, <1>2 DEF Settled
<1>10. Settled(F)
  BY <1>4, <1>6, <1>7, <1>8, <1>9 DEF Settled
<1> QED BY <1>10 DEF F, p

LEMMA BackfillSale ==
  ASSUME SaleInv, NEW given \in SUBSET OrderLeads, Sale!Backfill(given) PROVE SaleInv'
<1> DEFINE E == Sale!ImportedUpTo[Sale!Top]
           G == Sale!CurrentState(E)
<1>1. PICK h \in 0..Sale!Top : /\ h = 0 \/ h \in Past(tracked, saleEvents)
                               /\ \A j \in Past(tracked, saleEvents) : j <= h
                               /\ LoopTells(E, h, saleEvents, tracked, saleSequence)
  <2>1. CanImport
    BY DEF Sale!Backfill, CanImport
  <2> QED BY <2>1, LoopEnds
<1>2. /\ captured' = captured /\ leadsCaptured' = leadsCaptured /\ order' = order /\ tracked' = tracked
      /\ saleSequence' = saleSequence /\ saleEvents' = G /\ orderLeads' = orderLeads \cup given
      /\ linking' = {o \in linking : o.lead \notin given} /\ synced' = TRUE
      /\ order \in {"sale", "cancel"} => ~Sale!Ambiguous(E, FALSE)
  <2>1. /\ captured' = captured /\ leadsCaptured' = leadsCaptured /\ order' = order /\ tracked' = tracked
        /\ saleSequence' = saleSequence /\ orderLeads' = orderLeads \cup given
        /\ linking' = {o \in linking : o.lead \notin given}
    BY DEF Sale!Backfill, Sale!policies
  <2>2. saleEvents' = G /\ synced' = TRUE
    BY DEF Sale!Backfill
  <2>4. order \in {"sale", "cancel"} => ~Sale!Ambiguous(E, FALSE)
    BY DEF Sale!Backfill
  <2> HIDE DEF G, E
  <2> QED BY <2>1, <2>2, <2>4
<1> HIDE DEF E
<1>3. Settled(E)
  BY <1>1, ImportSettles
<1>4. Settled(G) /\ (order = "sale" => Sale!OpenOf(G) # {})
  <2>1. CASE order = "sale"
    <3>1. G = E \cup Sale!EnsureConfirmation(E, Sale!Top + 1, FALSE)
      BY <2>1 DEF Sale!CurrentState
    <3> HIDE DEF G
    <3> QED BY <1>2, <1>3, <2>1, <3>1, StateOfSale
  <2>2. CASE order = "cancel"
    <3>1. G = E \cup Sale!Reversal(Sale!OpenConfirmation(E, FALSE), Sale!Stamp(Sale!Top), Sale!LastReversal, Sale!NoMark)
      BY <2>2 DEF Sale!CurrentState
    <3> HIDE DEF G
    <3> QED BY <1>2, <1>3, <2>2, <3>1, StateOfCancel
  <2>3. CASE order = "sent" /\ ~Sale!Proposed(E)
    <3>1. G = E \cup {Sale!SaleEvent("proposal", Sale!Stamp(Sale!Top), Sale!NoRow, Sale!NoMark, Sale!Unreversed)}
      BY <2>3 DEF Sale!CurrentState
    <3> HIDE DEF G
    <3> QED BY <1>3, <2>3, <3>1, StateOfSent
  <2>4. CASE order # "sale" /\ order # "cancel" /\ ~(order = "sent" /\ ~Sale!Proposed(E))
    <3>1. G = E
      BY <2>4 DEF Sale!CurrentState
    <3> HIDE DEF G
    <3> QED BY <1>3, <2>4, <3>1
  <2> QED BY <2>1, <2>2, <2>3, <2>4
<1> HIDE DEF G
<1>5. SaleTypes' /\ SaleTells(saleEvents, tracked, saleSequence)' /\ NoneBefore(saleEvents)' /\ PastIsTold(saleEvents, tracked)'
  BY <1>2, <1>4 DEF SaleInv, SaleTypes, Settled
<1>6. SequenceTells'
  <2>1. Sale!Proposed(saleEvents) => Sale!Proposed(G)
    BY <1>4 DEF Sale!Proposed, Settled
  <2>2. saleSequence \in Nat /\ saleSequence <= Len(tracked) + IF Sale!Proposed(saleEvents) THEN 1 ELSE 0
    BY DEF SaleInv, SequenceTells
  <2>3. Len(tracked) \in Nat
    BY DEF SaleInv, SaleTypes, PathTells
  <2>4. saleSequence <= Len(tracked) + IF Sale!Proposed(G) THEN 1 ELSE 0
    BY <2>1, <2>2, <2>3
  <2> QED BY <1>2, <2>2, <2>4 DEF SequenceTells
<1>7. RevenueTold'
  <2>1. HistoryTold(G, tracked)
    <3> SUFFICES ASSUME NEW j \in Past(tracked, G), LostAt(tracked, j) PROVE \E x \in G : x.kind = "cancelled" /\ x.of = j
      BY DEF HistoryTold
    <3>1. PICK x \in G : x.kind = "cancelled" /\ x.ref = Sale!Chatter(j)
      BY <1>4 DEF Settled, Sale!Has
    <3>2. CancelTells(x, G, tracked)
      BY <1>4, <3>1, EventKinds DEF Settled, SaleTells, SaleInv, SaleTypes
    <3> QED BY <3>1, <3>2 DEF CancelTells
  <2> QED BY <1>2, <1>4, <2>1 DEF RevenueTold
<1>8. LinksTell'
  <2>1. linking' \subseteq linking /\ (linking' = {} \/ \E o \in linking' : linking' = {o} /\ o.lead \in OrderLeads)
    BY <1>2 DEF LinksTell, SaleInv
  <2>2. \A o \in linking' : \A e \in G : e.mark # Sale!NoMark => <<e.ref, o.lead>> \in o.pairs
    BY <1>4, <2>1 DEF LinksTell, SaleInv, Settled
  <2> QED BY <1>2, <2>1, <2>2 DEF LinksTell, SaleInv
<1>9. Sale!LeadsSeeTheOrder'
  <2>1. PICK pairs : pairs = Sale!Pairs(saleEvents', orderLeads') /\ Sale!Show(pairs, leadsCaptured)
    BY DEF Sale!Backfill, Sale!Project
  <2>2. pairs \subseteq projected' \cup hidden'
    BY <2>1, Shows
  <2> QED BY <2>1, <2>2 DEF Sale!LeadsSeeTheOrder, Sale!Pairs
<1> QED BY <1>5, <1>6, <1>7, <1>8, <1>9 DEF SaleInv

LEMMA SaleInitInv == Sale!Init => SaleInv
<1> SUFFICES ASSUME Sale!Init PROVE SaleInv
  OBVIOUS
<1>1. /\ captured \in BOOLEAN /\ leadsCaptured \in BOOLEAN /\ order = "draft" /\ tracked = <<>> /\ saleSequence = 0 /\ saleEvents = {}
      /\ synced \in BOOLEAN /\ orderLeads = {} /\ linking = {}
  BY DEF Sale!Init
<1>2. Len(tracked) = 0 /\ tracked \in Seq(SaleRow) /\ 1..0 = {}
  BY <1>1
<1>3. ~SaleAt(tracked, 0)
  BY <1>2 DEF SaleAt
<1>4. PathTells(tracked)
  BY <1>2 DEF PathTells
<1>5. SaleTypes
  BY <1>1, <1>2, <1>3, <1>4, SaleNumbers DEF SaleTypes, Sale!OrderStates
<1>6. Sale!OpenOf(saleEvents) = {} /\ Past(tracked, saleEvents) = {}
  BY <1>1, <1>2 DEF Sale!OpenOf, Past
<1>7. SequenceTells
  BY <1>1, <1>2 DEF SequenceTells, Sale!Proposed
<1>8. SaleTells(saleEvents, tracked, saleSequence)
  BY <1>1, FS_EmptySet, EventSizes DEF SaleTells, CountedOnce
<1>9. NoneBefore(saleEvents) /\ PastIsTold(saleEvents, tracked)
  BY <1>6 DEF NoneBefore, PastIsTold
<1>10. RevenueTold
  BY <1>1, <1>6 DEF RevenueTold, HistoryTold
<1>11. LinksTell /\ Sale!LeadsSeeTheOrder
  BY <1>1 DEF LinksTell, Sale!LeadsSeeTheOrder
<1> QED BY <1>5, <1>7, <1>8, <1>9, <1>10, <1>11 DEF SaleInv

LEMMA SaleNextInv == SaleInv /\ [Sale!Next]_Sale!vars => SaleInv'
<1> SUFFICES ASSUME SaleInv, [Sale!Next]_Sale!vars PROVE SaleInv'
  OBVIOUS
<1>1. CASE Sale!Send
  BY <1>1, SendSale
<1>2. CASE Sale!Confirm
  BY <1>2, ConfirmSale
<1>3. CASE Sale!Cancel
  BY <1>3, CancelSale
<1>4. CASE Sale!Redraft
  BY <1>4, RedraftSale
<1>5. CASE Sale!Switch
  BY <1>5, SwitchSale
<1>6. ASSUME NEW given \in {{}} \cup {{l} : l \in OrderLeads}, Sale!Backfill(given) PROVE SaleInv'
  <2>1. given \in SUBSET OrderLeads
    OBVIOUS
  <2> QED BY <1>6, <2>1, BackfillSale
<1>7. ASSUME NEW l \in OrderLeads, Sale!BeginLink(l) PROVE SaleInv'
  BY <1>7, BeginSaleLink
<1>8. ASSUME NEW o \in linking, Sale!Link(o) PROVE SaleInv'
  BY <1>8, SaleLink
<1>9. CASE UNCHANGED Sale!vars
  <2>1. /\ captured' = captured /\ leadsCaptured' = leadsCaptured /\ order' = order /\ tracked' = tracked
        /\ saleSequence' = saleSequence /\ saleEvents' = saleEvents /\ synced' = synced
        /\ orderLeads' = orderLeads /\ projected' = projected /\ hidden' = hidden /\ linking' = linking
    BY <1>9 DEF Sale!vars, Sale!policies, Sale!graph
  <2> QED BY <2>1 DEF SaleInv, SaleTypes, SequenceTells, RevenueTold, LinksTell, Sale!LeadsSeeTheOrder
<1> QED BY <1>1, <1>2, <1>3, <1>4, <1>5, <1>6, <1>7, <1>8, <1>9 DEF Sale!Next

------------------------------------------------------------------------------
\* NativeUtm: somebody looks at a lead that does not show what is decided of it.
Tuples == Utm!Campaigns \cup {Utm!Empty, Utm!Own}
UtmStates ==
  {Utm!None, "pending", "manual", "scope_review", "revoked", "missing", "disabled", "conflict",
   "present", "simulation", "applied", "reverted"}
Receipts == [after : Tuples \cup {Utm!None}, before : Tuples \cup {Utm!None}]
LastReceipts ==
  [state : UtmStates, before : Tuples \cup {Utm!None}, after : Tuples \cup {Utm!None},
   points : SUBSET Touchpoints]
UtmLead ==
  [values : Tuples, manual : BOOLEAN, state : UtmStates, held : BOOLEAN, receipt : Receipts,
   baseline : Tuples \cup {Utm!None}, last : LastReceipts]
UtmJob ==
  [busy : BOOLEAN, stale : BOOLEAN, links : SUBSET Touchpoints, mode : Utm!Modes \cup {Utm!None},
   held : BOOLEAN]
UtmScope(s) ==
  \/ s = <<"source", Utm!None>>
  \/ \E c \in Utm!Campaigns : s = <<"campaign", c>>
  \/ \E t \in Touchpoints : s = <<"touchpoint", t>>
UtmTypes ==
  /\ mode \in Utm!Modes /\ resolved \subseteq Touchpoints /\ links \subseteq Touchpoints
  /\ mapping \in [Utm!Campaigns -> Utm!Campaigns \cup {Utm!Unmapped, Utm!Blocked}]
  /\ lead \in UtmLead /\ due \in BOOLEAN
  /\ \A o, p \in open : o = p
  /\ \A o \in open : /\ o.kind \in {"link", "project"} /\ o.touchpoint \in Touchpoints
                     /\ o.sees \in BOOLEAN
  /\ workers \in [Workers -> UtmJob]
  /\ \A s \in scopes : UtmScope(s)
  /\ lead.receipt # Utm!NoReceipt => lead.baseline # Utm!None

\* The last receipt is what the lead shows, as long as nobody edits it.
LastTells ==
  ~lead.manual /\ lead.last # Utm!NoLast => lead.values = lead.last.after /\ lead.state = lead.last.state

\* A running job saw links there still are, and another mode only as long as that
\* decides nothing.
ViewRuns(w) == workers[w].busy /\ ~workers[w].stale
ViewsFit ==
  \A w \in Workers :
    /\ workers[w].stale => workers[w].busy
    /\ ViewRuns(w) => /\ workers[w].links \subseteq links /\ workers[w].mode \in Utm!Modes
                      /\ workers[w].mode # mode => workers[w].links \cap resolved = {}

\* The lead shows what is not so any more: with nothing resolved to classify it by,
\* what it got is still there; or else another campaign is due.
Nothing == links \cap resolved = {}
Returnable == Utm!Owned /\ lead.values = lead.receipt.after /\ lead.baseline # lead.values
DecidedNow == Utm!Decide(links, mode, FALSE).after
Unsettled ==
  /\ ~lead.manual /\ ~lead.held
  /\ \/ Nothing /\ Returnable /\ lead.state \notin {"disabled", "simulation"}
     \/ ~Nothing /\ mode = "apply" /\ DecidedNow # lead.values

\* Somebody will look: a job is due, a scope reaches the lead, a job has to run
\* again, or one runs that has seen what there is.
WakesUp == mode # "disabled" \/ Utm!Owned
ViewCurrent(w) ==
  /\ ViewRuns(w) /\ workers[w].links = links /\ ~workers[w].held
  /\ Nothing \/ workers[w].mode = mode
LookedAt ==
  \/ due
  \/ WakesUp /\ \E s \in scopes : Utm!Reaches(s)
  \/ \E w \in Workers : workers[w].stale \/ ViewCurrent(w)
NothingToTake == ~Utm!Owned /\ (mode = "disabled" \/ Nothing)
SettlesLater == ~raced /\ Unsettled => LookedAt
\* A job with an old view is followed by one that is not.
Followed ==
  ~raced /\ ~lead.manual /\ ~lead.held /\ (\E w \in Workers : ViewRuns(w) /\ ~ViewCurrent(w))
    => LookedAt \/ NothingToTake
UtmInv == UtmTypes /\ LastTells /\ ViewsFit /\ SettlesLater /\ Followed

\* --- What is decided.
ReadyOf(R, M, S) == {t \in S \cap R : M[CampaignOf[t]] # Utm!Blocked}
NativeOf(M, t) ==
  IF M[CampaignOf[t]] = Utm!Unmapped THEN <<"create", CampaignOf[t]>> ELSE <<"mapped", M[CampaignOf[t]]>>
NativesOf(R, M, S) == {NativeOf(M, t) : t \in ReadyOf(R, M, S)}
TheNative(R, M, S) == CHOOSE n \in NativesOf(R, M, S) : TRUE
DesiredOf(n) == IF n[1] = "mapped" THEN n[2] ELSE Utm!None
GivenBack(val, rec, base) == IF rec # Utm!NoReceipt /\ val = rec.after THEN base ELSE val
WritableBy(val, rec) == val = Utm!Empty \/ (rec # Utm!NoReceipt /\ val = rec.after)
\* What a job that applies leaves in a lead that nobody took over.
Given(val, rec, base, R, M, S) ==
  IF S = {} \/ ~(S \subseteq R) THEN GivenBack(val, rec, base)
  ELSE IF ReadyOf(R, M, S) = {} THEN val
  ELSE IF Utm!Cardinality(NativesOf(R, M, S)) # 1 THEN GivenBack(val, rec, base)
  ELSE LET n == TheNative(R, M, S)
       IN  IF ~WritableBy(val, rec) \/ val = DesiredOf(n) THEN val ELSE n[2]
Applying(val, rec, R, M, S) ==
  /\ S # {} /\ S \subseteq R /\ ReadyOf(R, M, S) # {}
  /\ Utm!Cardinality(NativesOf(R, M, S)) = 1
  /\ WritableBy(val, rec) /\ val # DesiredOf(TheNative(R, M, S))

LEMMA ReadyIs ==
  ASSUME NEW S \in SUBSET Touchpoints, NEW m \in {"apply", "simulate"}
  PROVE  /\ {t \in S : Utm!Candidate(t, m) = "pending"} = S \ resolved
         /\ {t \in S : Utm!Candidate(t, m) = "ready"} = ReadyOf(resolved, mapping, S)
<1>1. \A t : (Utm!Candidate(t, m) = "pending") <=> (t \notin resolved)
  BY DEF Utm!Candidate
<1>2. \A t : (Utm!Candidate(t, m) = "ready") <=> (t \in resolved /\ mapping[CampaignOf[t]] # Utm!Blocked)
  BY DEF Utm!Candidate
<1> QED BY <1>1, <1>2 DEF ReadyOf

LEMMA NativesAre ==
  \A S : {Utm!Native(t) : t \in ReadyOf(resolved, mapping, S)} = NativesOf(resolved, mapping, S)
BY DEF NativesOf, Utm!Native, NativeOf

LEMMA VerdictIs ==
  ASSUME NEW state, NEW after, NEW points
  PROVE  /\ Utm!Verdict(state, after, points).state = state
         /\ Utm!Verdict(state, after, points).after = after
         /\ Utm!Verdict(state, after, points).points = points
BY DEF Utm!Verdict

LEMMA RestoreIs ==
  ASSUME NEW st, NEW a, NEW p, NEW m
  PROVE  /\ ~(st \in {"missing", "conflict", "revoked"} /\ Utm!Owned /\ ~lead.manual
              /\ lead.values = lead.receipt.after) =>
               Utm!RestoreOwned(Utm!Verdict(st, a, p), m) = Utm!Verdict(st, a, p)
         /\ (st \in {"missing", "conflict", "revoked"} /\ Utm!Owned /\ ~lead.manual
             /\ lead.values = lead.receipt.after) =>
               /\ m = "apply" => Utm!RestoreOwned(Utm!Verdict(st, a, p), m) = Utm!Verdict(st, lead.baseline, p)
               /\ m = "disabled" => Utm!RestoreOwned(Utm!Verdict(st, a, p), m) = Utm!Verdict("disabled", a, p)
               /\ m = "simulate" => Utm!RestoreOwned(Utm!Verdict(st, a, p), m) = Utm!Verdict("simulation", a, p)
<1>1. Utm!Verdict(st, a, p).state = st BY VerdictIs
<1>2. \A b : [Utm!Verdict(st, a, p) EXCEPT !.after = b] = Utm!Verdict(st, b, p) BY DEF Utm!Verdict
<1>3. \A b : [Utm!Verdict(st, a, p) EXCEPT !.state = b] = Utm!Verdict(b, a, p) BY DEF Utm!Verdict
<1> QED BY <1>1, <1>2, <1>3 DEF Utm!RestoreOwned

LEMMA ReadyVerdictIs ==
  ASSUME NEW S \in SUBSET Touchpoints, NEW m
  PROVE  /\ Utm!Cardinality(NativesOf(resolved, mapping, S)) # 1 =>
              Utm!ClassifyReady(ReadyOf(resolved, mapping, S), m) = Utm!Verdict("conflict", lead.values, {})
         /\ Utm!Cardinality(NativesOf(resolved, mapping, S)) = 1 =>
              /\ ~WritableBy(lead.values, lead.receipt)
                 /\ lead.values # DesiredOf(TheNative(resolved, mapping, S)) =>
                   Utm!ClassifyReady(ReadyOf(resolved, mapping, S), m)
                     = Utm!Verdict("conflict", lead.values, ReadyOf(resolved, mapping, S))
              /\ lead.values = DesiredOf(TheNative(resolved, mapping, S)) =>
                   Utm!ClassifyReady(ReadyOf(resolved, mapping, S), m)
                     = Utm!Verdict("present", lead.values, ReadyOf(resolved, mapping, S))
              /\ WritableBy(lead.values, lead.receipt)
                 /\ lead.values # DesiredOf(TheNative(resolved, mapping, S)) =>
                   Utm!ClassifyReady(ReadyOf(resolved, mapping, S), m)
                     = IF m # "apply"
                       THEN Utm!Verdict("simulation", lead.values, ReadyOf(resolved, mapping, S))
                       ELSE Utm!Verdict("applied", TheNative(resolved, mapping, S)[2],
                                        ReadyOf(resolved, mapping, S))
<1> DEFINE r == ReadyOf(resolved, mapping, S)
           nat == NativesOf(resolved, mapping, S)
           n == CHOOSE x \in nat : TRUE
<1>1. {Utm!Native(t) : t \in r} = nat BY NativesAre
<1>2. n = TheNative(resolved, mapping, S) BY DEF TheNative
<1>3. DesiredOf(n) = IF n[1] = "mapped" THEN n[2] ELSE Utm!None BY DEF DesiredOf
<1>4. WritableBy(lead.values, lead.receipt) <=>
        (lead.values = Utm!Empty \/ (Utm!Owned /\ lead.values = lead.receipt.after))
  BY DEF WritableBy, Utm!Owned
<1> HIDE DEF r
<1>5. Utm!ClassifyReady(r, m) =
        IF Utm!Cardinality(nat) # 1 THEN Utm!Verdict("conflict", lead.values, {})
        ELSE IF ~WritableBy(lead.values, lead.receipt) /\ lead.values # DesiredOf(n)
             THEN Utm!Verdict("conflict", lead.values, r)
        ELSE IF lead.values = DesiredOf(n) THEN Utm!Verdict("present", lead.values, r)
        ELSE IF m # "apply" THEN Utm!Verdict("simulation", lead.values, r)
        ELSE Utm!Verdict("applied", n[2], r)
  <2> HIDE DEF nat
  <2> DEFINE nat0 == {Utm!Native(t) : t \in r}
             n0 == CHOOSE x \in nat0 : TRUE
             des == IF n0[1] = "mapped" THEN n0[2] ELSE Utm!None
             wr == lead.values = Utm!Empty \/ (Utm!Owned /\ lead.values = lead.receipt.after)
  <2>1. Utm!ClassifyReady(r, m) =
        IF Utm!Cardinality(nat0) # 1 THEN Utm!Verdict("conflict", lead.values, {})
        ELSE IF ~wr /\ lead.values # des THEN Utm!Verdict("conflict", lead.values, r)
        ELSE IF lead.values = des THEN Utm!Verdict("present", lead.values, r)
        ELSE IF m # "apply" THEN Utm!Verdict("simulation", lead.values, r)
        ELSE Utm!Verdict("applied", n0[2], r)
    BY DEF Utm!ClassifyReady
  <2>2. nat0 = nat BY <1>1
  <2>3. n0 = n BY <2>2
  <2>4. des = DesiredOf(n) BY <2>3, <1>3
  <2>5. wr <=> WritableBy(lead.values, lead.receipt) BY <1>4
  <2> HIDE DEF nat0, nat, n0, n, des, wr
  <2> QED BY <2>1, <2>2, <2>3, <2>4, <2>5
<1> HIDE DEF n, nat
<1>6. r = ReadyOf(resolved, mapping, S) BY DEF r
<1>7. nat = NativesOf(resolved, mapping, S) BY DEF nat
<1> QED BY <1>2, <1>5, <1>6, <1>7

LEMMA VerdictsAre ==
  ASSUME NEW S \in SUBSET Touchpoints, NEW m, NEW h \in BOOLEAN, ~lead.manual
  PROVE  /\ h => Utm!Decide(S, m, h) = Utm!Verdict("scope_review", lead.values, {})
         /\ ~h /\ S = {} =>
              Utm!Decide(S, m, h) = Utm!RestoreOwned(Utm!Verdict(IF Utm!Owned THEN "revoked" ELSE "missing", lead.values, {}), m)
         /\ ~h /\ S # {} /\ ~(S \subseteq resolved) =>
              Utm!Decide(S, m, h) = Utm!RestoreOwned(Utm!Verdict("missing", lead.values, {}), m)
         /\ ~h /\ S # {} /\ S \subseteq resolved =>
              /\ m \in {"apply", "simulate"} /\ ReadyOf(resolved, mapping, S) # {} =>
                   Utm!Decide(S, m, h) = Utm!RestoreOwned(Utm!ClassifyReady(ReadyOf(resolved, mapping, S), m), m)
              /\ m = "disabled" \/ (m \in {"apply", "simulate"} /\ ReadyOf(resolved, mapping, S) = {}) =>
                   Utm!Decide(S, m, h) = Utm!Verdict("disabled", lead.values, {})
<1> DEFINE pending == {t \in S : Utm!Candidate(t, m) = "pending"}
           ready == {t \in S : Utm!Candidate(t, m) = "ready"}
           verdict ==
             IF h THEN Utm!Verdict("scope_review", lead.values, {})
             ELSE IF S = {} THEN Utm!Verdict(IF Utm!Owned THEN "revoked" ELSE "missing", lead.values, {})
             ELSE IF pending # {} THEN Utm!Verdict("missing", lead.values, {})
             ELSE IF ready # {} THEN Utm!ClassifyReady(ready, m)
             ELSE Utm!Verdict("disabled", lead.values, {})
<1>1. Utm!Decide(S, m, h) = Utm!RestoreOwned(verdict, m) BY DEF Utm!Decide
<1>2. pending = S \ resolved BY DEF Utm!Candidate
<1>3. m \in {"apply", "simulate"} => ready = ReadyOf(resolved, mapping, S) BY ReadyIs
<1>4. m = "disabled" => ready = {} BY DEF Utm!Candidate
<1>5. Utm!RestoreOwned(Utm!Verdict("scope_review", lead.values, {}), m) = Utm!Verdict("scope_review", lead.values, {})
  BY RestoreIs, VerdictIs
<1>6. Utm!RestoreOwned(Utm!Verdict("disabled", lead.values, {}), m) = Utm!Verdict("disabled", lead.values, {})
  BY RestoreIs, VerdictIs
<1> HIDE DEF pending, ready
<1> QED BY <1>1, <1>2, <1>3, <1>4, <1>5, <1>6

\* What is given back when its evidence has gone.
LEMMA BlankIs ==
  ASSUME NEW S \in SUBSET Touchpoints, NEW m \in Utm!Modes, ~lead.manual,
         S = {} \/ ~(S \subseteq resolved)
  PROVE  /\ Utm!Decide(S, m, FALSE).state # "applied"
         /\ Utm!Owned /\ lead.values = lead.receipt.after /\ m = "apply" =>
              Utm!Decide(S, m, FALSE).after = lead.baseline
         /\ Utm!Owned /\ lead.values = lead.receipt.after /\ m # "apply" =>
              /\ Utm!Decide(S, m, FALSE).after = lead.values
              /\ Utm!Decide(S, m, FALSE).state \in {"disabled", "simulation"}
         /\ ~(Utm!Owned /\ lead.values = lead.receipt.after) => Utm!Decide(S, m, FALSE).after = lead.values
<1> DEFINE d == Utm!Decide(S, m, FALSE)
<1>1. PICK st \in {"missing", "revoked"} : d = Utm!RestoreOwned(Utm!Verdict(st, lead.values, {}), m)
  BY VerdictsAre
<1>2. m \in {"apply", "disabled", "simulate"} BY DEF Utm!Modes
<1>3. st \in {"missing", "conflict", "revoked"} /\ st # "applied" OBVIOUS
<1> HIDE DEF d
<1>4. CASE Utm!Owned /\ lead.values = lead.receipt.after
  <2>1. CASE m = "apply"
    <3>1. Utm!RestoreOwned(Utm!Verdict(st, lead.values, {}), m) = Utm!Verdict(st, lead.baseline, {})
      BY <1>3, <1>4, <2>1, RestoreIs
    <3>2. d.state = st /\ d.after = lead.baseline BY <1>1, <3>1, VerdictIs
    <3> QED BY <3>2, <2>1, <1>3, <1>4 DEF d
  <2>2. CASE m = "disabled"
    <3>1. Utm!RestoreOwned(Utm!Verdict(st, lead.values, {}), m) = Utm!Verdict("disabled", lead.values, {})
      BY <1>3, <1>4, <2>2, RestoreIs
    <3>2. d.state = "disabled" /\ d.after = lead.values BY <1>1, <3>1, VerdictIs
    <3> QED BY <3>2, <2>2, <1>4 DEF d
  <2>3. CASE m = "simulate"
    <3>1. Utm!RestoreOwned(Utm!Verdict(st, lead.values, {}), m) = Utm!Verdict("simulation", lead.values, {})
      BY <1>3, <1>4, <2>3, RestoreIs
    <3>2. d.state = "simulation" /\ d.after = lead.values BY <1>1, <3>1, VerdictIs
    <3> QED BY <3>2, <2>3, <1>4 DEF d
  <2> QED BY <1>2, <2>1, <2>2, <2>3
<1>5. CASE ~(Utm!Owned /\ lead.values = lead.receipt.after)
  <2>1. Utm!RestoreOwned(Utm!Verdict(st, lead.values, {}), m) = Utm!Verdict(st, lead.values, {})
    BY <1>5, RestoreIs
  <2>2. d.state = st /\ d.after = lead.values BY <1>1, <2>1, VerdictIs
  <2> QED BY <2>2, <1>3, <1>5 DEF d
<1> QED BY <1>4, <1>5

LEMMA ManualIs ==
  ASSUME NEW S, NEW m, NEW h, lead.manual
  PROVE  Utm!Decide(S, m, h) = Utm!Verdict("manual", lead.values, {})
<1>1. Utm!RestoreOwned(Utm!Verdict("manual", lead.values, {}), m) = Utm!Verdict("manual", lead.values, {})
  BY RestoreIs
<1> QED BY <1>1 DEF Utm!Decide

\* What is decided by what is ready, when the source may write.
LEMMA ReadyDecides ==
  ASSUME NEW S \in SUBSET Touchpoints, ~lead.manual, S # {}, S \subseteq resolved,
         ReadyOf(resolved, mapping, S) # {}
  PROVE  LET d == Utm!Decide(S, "apply", FALSE)
             n == TheNative(resolved, mapping, S)
             one == Utm!Cardinality(NativesOf(resolved, mapping, S)) = 1
             applies == one /\ WritableBy(lead.values, lead.receipt) /\ lead.values # DesiredOf(n)
         IN  /\ d.state = "applied" <=> applies
             /\ applies => d.after = n[2] /\ d.points = ReadyOf(resolved, mapping, S)
             /\ one /\ ~applies => d.after = lead.values
             /\ ~one => d.after = GivenBack(lead.values, lead.receipt, lead.baseline)
             /\ d.state \in UtmStates /\ d.points \in SUBSET ReadyOf(resolved, mapping, S)
<1> DEFINE d == Utm!Decide(S, "apply", FALSE)
           r == ReadyOf(resolved, mapping, S)
           c == Utm!ClassifyReady(r, "apply")
           n == TheNative(resolved, mapping, S)
           one == Utm!Cardinality(NativesOf(resolved, mapping, S)) = 1
           writable == WritableBy(lead.values, lead.receipt)
           desired == DesiredOf(n)
           applies == one /\ writable /\ lead.values # desired
           back == Utm!Owned /\ lead.values = lead.receipt.after
           Goal == /\ d.state = "applied" <=> applies
                   /\ applies => d.after = n[2] /\ d.points = r
                   /\ one /\ ~applies => d.after = lead.values
                   /\ ~one => d.after = GivenBack(lead.values, lead.receipt, lead.baseline)
                   /\ d.state \in UtmStates /\ d.points \in SUBSET r
<1>1. d = Utm!RestoreOwned(c, "apply") BY VerdictsAre
<1>2. /\ ~one => c = Utm!Verdict("conflict", lead.values, {})
      /\ one => /\ ~writable /\ lead.values # desired => c = Utm!Verdict("conflict", lead.values, r)
                /\ lead.values = desired => c = Utm!Verdict("present", lead.values, r)
                /\ writable /\ lead.values # desired => c = Utm!Verdict("applied", n[2], r)
  BY ReadyVerdictIs
<1>3. back => writable BY DEF WritableBy, Utm!Owned
<1>4. back => GivenBack(lead.values, lead.receipt, lead.baseline) = lead.baseline BY DEF GivenBack, Utm!Owned
<1>5. ~back => GivenBack(lead.values, lead.receipt, lead.baseline) = lead.values BY DEF GivenBack, Utm!Owned
<1>6. {"conflict", "present", "applied"} \subseteq UtmStates BY DEF UtmStates
<1>7. Goal
  <2> HIDE DEF d, r, c, n, one, writable, desired
  <2>1. CASE ~one /\ back
    <3>1. Utm!RestoreOwned(Utm!Verdict("conflict", lead.values, {}), "apply") = Utm!Verdict("conflict", lead.baseline, {})
      BY <2>1, RestoreIs
    <3>2. d = Utm!Verdict("conflict", lead.baseline, {}) BY <1>1, <1>2, <2>1, <3>1
    <3>3. d.state = "conflict" /\ d.after = lead.baseline /\ d.points = {} BY <3>2, VerdictIs
    <3> QED BY <3>3, <2>1, <1>4, <1>6
  <2>2. CASE ~one /\ ~back
    <3>1. Utm!RestoreOwned(Utm!Verdict("conflict", lead.values, {}), "apply") = Utm!Verdict("conflict", lead.values, {})
      BY <2>2, RestoreIs
    <3>2. d = Utm!Verdict("conflict", lead.values, {}) BY <1>1, <1>2, <2>2, <3>1
    <3>3. d.state = "conflict" /\ d.after = lead.values /\ d.points = {} BY <3>2, VerdictIs
    <3> QED BY <3>3, <2>2, <1>5, <1>6
  <2>3. CASE one /\ ~writable /\ lead.values # desired
    <3>1. Utm!RestoreOwned(Utm!Verdict("conflict", lead.values, r), "apply") = Utm!Verdict("conflict", lead.values, r)
      BY <2>3, <1>3, RestoreIs
    <3>2. d = Utm!Verdict("conflict", lead.values, r) BY <1>1, <1>2, <2>3, <3>1
    <3>3. d.state = "conflict" /\ d.after = lead.values /\ d.points = r BY <3>2, VerdictIs
    <3> QED BY <3>3, <2>3, <1>6
  <2>4. CASE one /\ lead.values = desired
    <3>1. Utm!RestoreOwned(Utm!Verdict("present", lead.values, r), "apply") = Utm!Verdict("present", lead.values, r)
      BY RestoreIs
    <3>2. d = Utm!Verdict("present", lead.values, r) BY <1>1, <1>2, <2>4, <3>1
    <3>3. d.state = "present" /\ d.after = lead.values /\ d.points = r BY <3>2, VerdictIs
    <3> QED BY <3>3, <2>4, <1>6
  <2>5. CASE applies
    <3>1. Utm!RestoreOwned(Utm!Verdict("applied", n[2], r), "apply") = Utm!Verdict("applied", n[2], r)
      BY RestoreIs
    <3>2. d = Utm!Verdict("applied", n[2], r) BY <1>1, <1>2, <2>5, <3>1
    <3>3. d.state = "applied" /\ d.after = n[2] /\ d.points = r BY <3>2, VerdictIs
    <3> QED BY <3>3, <2>5, <1>6
  <2> QED BY <2>1, <2>2, <2>3, <2>4, <2>5
<1> QED BY <1>7

\* What a job decides that may write.
LEMMA DecideIs ==
  ASSUME NEW S \in SUBSET Touchpoints, ~lead.manual
  PROVE  /\ Utm!Decide(S, "apply", FALSE).after =
              Given(lead.values, lead.receipt, lead.baseline, resolved, mapping, S)
         /\ Utm!Decide(S, "apply", FALSE).state = "applied" <=>
              Applying(lead.values, lead.receipt, resolved, mapping, S)
         /\ Applying(lead.values, lead.receipt, resolved, mapping, S) =>
              /\ Utm!Decide(S, "apply", FALSE).after = TheNative(resolved, mapping, S)[2]
              /\ Utm!Decide(S, "apply", FALSE).points = ReadyOf(resolved, mapping, S)
<1> DEFINE d == Utm!Decide(S, "apply", FALSE)
           r == ReadyOf(resolved, mapping, S)
           n == TheNative(resolved, mapping, S)
           one == Utm!Cardinality(NativesOf(resolved, mapping, S)) = 1
           writable == WritableBy(lead.values, lead.receipt)
           desired == DesiredOf(n)
           applies == one /\ writable /\ lead.values # desired
           g == Given(lead.values, lead.receipt, lead.baseline, resolved, mapping, S)
           gb == GivenBack(lead.values, lead.receipt, lead.baseline)
           App == Applying(lead.values, lead.receipt, resolved, mapping, S)
<1>1. g = IF S = {} \/ ~(S \subseteq resolved) THEN gb
          ELSE IF r = {} THEN lead.values
          ELSE IF ~one THEN gb
          ELSE IF ~writable \/ lead.values = desired THEN lead.values ELSE n[2]
  BY DEF Given
<1>2. App <=> S # {} /\ S \subseteq resolved /\ r # {} /\ applies BY DEF Applying
<1>3. (Utm!Owned /\ lead.values = lead.receipt.after => gb = lead.baseline)
      /\ (~(Utm!Owned /\ lead.values = lead.receipt.after) => gb = lead.values)
  BY DEF GivenBack, Utm!Owned
<1>4. CASE S = {} \/ ~(S \subseteq resolved)
  <2>0. "apply" \in Utm!Modes BY DEF Utm!Modes
  <2>1. d.state # "applied" /\ d.after = gb BY <2>0, <1>3, <1>4, BlankIs
  <2> HIDE DEF d, g, gb, App, n, r, one, writable, desired
  <2>2. g = gb /\ ~App BY <1>1, <1>2, <1>4
  <2> QED BY <2>1, <2>2 DEF d, g, App
<1>5. CASE S # {} /\ S \subseteq resolved /\ r = {}
  <2>1. d = Utm!Verdict("disabled", lead.values, {}) BY <1>5, VerdictsAre
  <2> HIDE DEF d, g, gb, App, n, r, one, writable, desired
  <2>2. d.state = "disabled" /\ d.after = lead.values BY <2>1, VerdictIs
  <2>3. g = lead.values /\ ~App BY <1>1, <1>2, <1>5
  <2> QED BY <2>2, <2>3 DEF d, g, App
<1>6. CASE S # {} /\ S \subseteq resolved /\ r # {}
  <2>1. /\ d.state = "applied" <=> applies
        /\ applies => d.after = n[2] /\ d.points = r
        /\ one /\ ~applies => d.after = lead.values
        /\ ~one => d.after = gb
    BY <1>6, ReadyDecides
  <2> HIDE DEF d, g, gb, App, n, r, one, writable, desired
  <2>2. d.after = g /\ (d.state = "applied" <=> App) /\ (App => d.after = n[2] /\ d.points = r)
    BY <2>1, <1>1, <1>2, <1>6
  <2> QED BY <2>2 DEF d, g, App, n, r
<1> QED BY <1>4, <1>5, <1>6

\* Without an authority to write, nothing but the state is decided.
LEMMA QuietModes ==
  ASSUME NEW S \in SUBSET Touchpoints, NEW m \in {"disabled", "simulate"}, NEW h \in BOOLEAN
  PROVE  /\ Utm!Decide(S, m, h).after = lead.values
         /\ Utm!Decide(S, m, h).state \in UtmStates /\ Utm!Decide(S, m, h).state # "applied"
         /\ Utm!Decide(S, m, h).points \in SUBSET Touchpoints
<1> DEFINE d == Utm!Decide(S, m, h)
           r == ReadyOf(resolved, mapping, S)
           Quiet(v) == v.after = lead.values /\ v.state \in UtmStates /\ v.state # "applied"
                       /\ v.points \in SUBSET Touchpoints
<1>0. \A st \in UtmStates \ {"applied"}, p \in SUBSET Touchpoints : Quiet(Utm!Verdict(st, lead.values, p))
  BY VerdictIs
<1>1. \A st \in UtmStates \ {"applied"}, p \in SUBSET Touchpoints :
        Quiet(Utm!RestoreOwned(Utm!Verdict(st, lead.values, p), m))
  <2> SUFFICES ASSUME NEW st \in UtmStates \ {"applied"}, NEW p \in SUBSET Touchpoints
               PROVE  Quiet(Utm!RestoreOwned(Utm!Verdict(st, lead.values, p), m))
    OBVIOUS
  <2>1. {"disabled", "simulation"} \subseteq UtmStates \ {"applied"} BY DEF UtmStates
  <2>2. PICK q \in UtmStates \ {"applied"} :
          Utm!RestoreOwned(Utm!Verdict(st, lead.values, p), m) = Utm!Verdict(q, lead.values, p)
    BY <2>1, RestoreIs
  <2> QED BY <1>0, <2>2
<1>2. r \in SUBSET Touchpoints BY DEF ReadyOf
<1>3. {"manual", "scope_review", "revoked", "missing", "disabled", "conflict", "present", "simulation"}
        \subseteq UtmStates \ {"applied"}
  BY DEF UtmStates
<1>4. m # "apply" OBVIOUS
<1>5. PICK st \in UtmStates \ {"applied"}, p \in SUBSET Touchpoints :
        d \in {Utm!Verdict(st, lead.values, p), Utm!RestoreOwned(Utm!Verdict(st, lead.values, p), m)}
  <2>1. CASE lead.manual BY <2>1, <1>3, ManualIs
  <2>2. CASE ~lead.manual /\ h BY <2>2, <1>3, VerdictsAre
  <2>3. CASE ~lead.manual /\ ~h /\ (S = {} \/ ~(S \subseteq resolved))
    BY <2>3, <1>3, VerdictsAre
  <2>4. CASE ~lead.manual /\ ~h /\ S # {} /\ S \subseteq resolved /\ (m = "disabled" \/ r = {})
    BY <2>4, <1>3, VerdictsAre
  <2>5. CASE ~lead.manual /\ ~h /\ S # {} /\ S \subseteq resolved /\ m = "simulate" /\ r # {}
    <3>1. d = Utm!RestoreOwned(Utm!ClassifyReady(r, m), m) BY <2>5, VerdictsAre
    <3>2. PICK st \in UtmStates \ {"applied"}, p \in SUBSET Touchpoints :
            Utm!ClassifyReady(r, m) = Utm!Verdict(st, lead.values, p)
      BY <1>2, <1>3, <1>4, ReadyVerdictIs
    <3> QED BY <3>1, <3>2
  <2> QED BY <2>1, <2>2, <2>3, <2>4, <2>5
<1> QED BY <1>5, <1>0, <1>1

LEMMA NativeFits ==
  ASSUME UtmTypes, NEW S \in SUBSET Touchpoints, Utm!Cardinality(NativesOf(resolved, mapping, S)) = 1
  PROVE  /\ \E t \in ReadyOf(resolved, mapping, S) :
              TheNative(resolved, mapping, S) = NativeOf(mapping, t)
         /\ TheNative(resolved, mapping, S)[2] \in Utm!Campaigns
         /\ NativesOf(resolved, mapping, S) = {TheNative(resolved, mapping, S)}
<1> DEFINE nat == NativesOf(resolved, mapping, S)
           r == ReadyOf(resolved, mapping, S)
           n == TheNative(resolved, mapping, S)
<1>1. Utm!IsFiniteSet(nat)
  <2>1. Utm!IsFiniteSet(r)
    <3>1. Utm!IsFiniteSet(Touchpoints) BY UtmBounds DEF Utm!UtmConstants
    <3>2. r \in SUBSET Touchpoints BY DEF ReadyOf
    <3> QED BY <3>1, <3>2, FS_Subset, EventSizes
  <2>2. nat = {NativeOf(mapping, t) : t \in r} BY DEF NativesOf
  <2> DEFINE f == [t \in r |-> NativeOf(mapping, t)]
  <2> HIDE DEF r, nat
  <2>3. f \in [r -> nat] BY <2>2
  <2>4. \A x \in nat : \E t \in r : f[t] = x BY <2>2
  <2> HIDE DEF f
  <2>5. f \in Surjection(r, nat) BY <2>3, <2>4 DEF Surjection
  <2> QED BY <2>1, <2>5, FS_Surjection, EventSizes
<1>2. PICK x : nat = {x}
  <2> HIDE DEF nat
  <2>1. Utm!Cardinality(nat) = 1 BY DEF nat
  <2> QED BY <1>1, <2>1, FS_Singleton, EventSizes
<1>3. n = x
  <2>1. n = CHOOSE y \in nat : TRUE BY DEF TheNative
  <2> HIDE DEF nat, n
  <2> QED BY <1>2, <2>1
<1>4. PICK t \in r : x = NativeOf(mapping, t)
  <2>1. nat = {NativeOf(mapping, t) : t \in r} BY DEF NativesOf
  <2> HIDE DEF nat, r
  <2> QED BY <1>2, <2>1
<1>5. t \in Touchpoints /\ CampaignOf[t] \in Utm!Campaigns /\ mapping[CampaignOf[t]] # Utm!Blocked
  BY DEF ReadyOf, Utm!Campaigns
<1>6. mapping[CampaignOf[t]] \in Utm!Campaigns \cup {Utm!Unmapped, Utm!Blocked} BY <1>5 DEF UtmTypes
<1>7. NativeOf(mapping, t)[2] \in Utm!Campaigns BY <1>5, <1>6 DEF NativeOf
<1> HIDE DEF nat, r, n
<1>8. (\E p \in r : n = NativeOf(mapping, p)) /\ n[2] \in Utm!Campaigns /\ nat = {n}
  BY <1>2, <1>3, <1>4, <1>7
<1> QED BY <1>8 DEF nat, r, n

LEMMA DecisionFits ==
  ASSUME UtmTypes, NEW S \in SUBSET Touchpoints, NEW m \in Utm!Modes, NEW h \in BOOLEAN
  PROVE  /\ Utm!Decide(S, m, h).after \in Tuples
         /\ Utm!Decide(S, m, h).state \in UtmStates
         /\ Utm!Decide(S, m, h).points \in SUBSET Touchpoints
         /\ Utm!Decide(S, m, h).state = "applied" =>
              /\ m = "apply" /\ ~h /\ ~lead.manual
              /\ Applying(lead.values, lead.receipt, resolved, mapping, S)
<1> DEFINE d == Utm!Decide(S, m, h)
           Fits(v) == v.after \in Tuples /\ v.state \in UtmStates /\ v.points \in SUBSET Touchpoints
<1>0. lead.values \in Tuples /\ {} \in SUBSET Touchpoints BY DEF UtmTypes, UtmLead
<1>1. \A st \in UtmStates, a \in Tuples, p \in SUBSET Touchpoints : Fits(Utm!Verdict(st, a, p))
  BY VerdictIs
<1>2. {"manual", "scope_review", "revoked", "missing", "disabled", "conflict", "present", "simulation",
       "applied"} \subseteq UtmStates
  BY DEF UtmStates
<1>3. CASE m # "apply"
  <2>1. m \in {"disabled", "simulate"} BY <1>3 DEF Utm!Modes
  <2> HIDE DEF d
  <2>2. d.after = lead.values /\ d.state \in UtmStates /\ d.state # "applied"
        /\ d.points \in SUBSET Touchpoints
    BY <2>1, QuietModes DEF d
  <2> QED BY <2>2, <1>0 DEF d
<1>4. CASE lead.manual
  <2>1. d = Utm!Verdict("manual", lead.values, {}) BY <1>4, ManualIs
  <2> HIDE DEF d
  <2>2. Fits(d) BY <1>0, <1>1, <1>2, <2>1
  <2>3. d.state # "applied" BY <2>1, VerdictIs
  <2> QED BY <2>2, <2>3 DEF d
<1>5. CASE ~lead.manual /\ h
  <2>1. d = Utm!Verdict("scope_review", lead.values, {}) BY <1>5, VerdictsAre
  <2> HIDE DEF d
  <2>2. Fits(d) BY <1>0, <1>1, <1>2, <2>1
  <2>3. d.state # "applied" BY <2>1, VerdictIs
  <2> QED BY <2>2, <2>3 DEF d
<1>6. CASE ~lead.manual /\ ~h /\ m = "apply"
  <2> DEFINE e == Utm!Decide(S, "apply", FALSE)
             r == ReadyOf(resolved, mapping, S)
             App == Applying(lead.values, lead.receipt, resolved, mapping, S)
  <2>1. e.state = "applied" <=> App BY <1>6, DecideIs
  <2>2. GivenBack(lead.values, lead.receipt, lead.baseline) \in Tuples
    BY <1>0 DEF GivenBack, UtmTypes, UtmLead
  <2>3. r \in SUBSET Touchpoints BY DEF ReadyOf
  <2>4. Fits(e)
    <3>1. CASE S = {} \/ ~(S \subseteq resolved)
      <4>1. PICK st \in {"missing", "revoked"} :
              e = Utm!RestoreOwned(Utm!Verdict(st, lead.values, {}), "apply")
        BY <1>6, <3>1, VerdictsAre
      <4>2. st \in {"missing", "conflict", "revoked"} /\ st \in UtmStates BY <1>2
      <4>3. CASE Utm!Owned /\ lead.values = lead.receipt.after
        <5>1. Utm!RestoreOwned(Utm!Verdict(st, lead.values, {}), "apply") = Utm!Verdict(st, lead.baseline, {})
          BY <1>6, <4>2, <4>3, RestoreIs
        <5>2. lead.baseline \in Tuples BY <4>3 DEF Utm!Owned, UtmTypes, UtmLead
        <5> QED BY <4>1, <4>2, <5>1, <5>2, <1>0, <1>1
      <4>4. CASE ~(Utm!Owned /\ lead.values = lead.receipt.after)
        <5>1. Utm!RestoreOwned(Utm!Verdict(st, lead.values, {}), "apply") = Utm!Verdict(st, lead.values, {})
          BY <4>4, RestoreIs
        <5> QED BY <4>1, <4>2, <5>1, <1>0, <1>1
      <4> QED BY <4>3, <4>4
    <3>2. CASE S # {} /\ S \subseteq resolved /\ r = {}
      <4>1. e = Utm!Verdict("disabled", lead.values, {}) BY <1>6, <3>2, VerdictsAre
      <4> QED BY <4>1, <1>0, <1>1, <1>2
    <3>3. CASE S # {} /\ S \subseteq resolved /\ r # {}
      <4> DEFINE n == TheNative(resolved, mapping, S)
                 one == Utm!Cardinality(NativesOf(resolved, mapping, S)) = 1
                 applies == one /\ WritableBy(lead.values, lead.receipt) /\ lead.values # DesiredOf(n)
      <4>1. /\ applies => e.after = n[2]
            /\ one /\ ~applies => e.after = lead.values
            /\ ~one => e.after = GivenBack(lead.values, lead.receipt, lead.baseline)
            /\ e.state \in UtmStates /\ e.points \in SUBSET r
        BY <1>6, <3>3, ReadyDecides
      <4>2. one => n[2] \in Tuples BY NativeFits DEF Tuples
      <4> HIDE DEF e, r, n, one
      <4> QED BY <4>1, <4>2, <1>0, <2>2, <2>3
    <3> QED BY <3>1, <3>2, <3>3
  <2>5. e = d BY <1>6
  <2> HIDE DEF e, d, App
  <2>6. Fits(d) /\ (d.state = "applied" => App) BY <2>1, <2>4, <2>5
  <2> QED BY <2>6, <1>6 DEF d, App
<1> QED BY <1>3, <1>4, <1>5, <1>6

\* --- What was decided is decided again.
MappedBy(M, r) ==
  [c \in Utm!Campaigns |->
     IF c \in {CampaignOf[t] : t \in {p \in r : NativeOf(M, p)[1] = "create"}} THEN c ELSE M[c]]

\* A campaign that was applied is the mapped one of all that is ready.
LEMMA AppliedStays ==
  ASSUME UtmTypes, NEW S \in SUBSET Touchpoints, S # {}, S \subseteq resolved,
         ReadyOf(resolved, mapping, S) # {},
         Utm!Cardinality(NativesOf(resolved, mapping, S)) = 1,
         NEW rec, NEW base
  PROVE  Given(TheNative(resolved, mapping, S)[2], rec, base, resolved,
               MappedBy(mapping, ReadyOf(resolved, mapping, S)), S)
           = TheNative(resolved, mapping, S)[2]
<1> DEFINE r == ReadyOf(resolved, mapping, S)
           n == TheNative(resolved, mapping, S)
           M == MappedBy(mapping, r)
           nat == NativesOf(resolved, M, S)
           n2 == TheNative(resolved, M, S)
           g == Given(n[2], rec, base, resolved, M, S)
<1>1. n[2] \in Utm!Campaigns /\ \A t \in r : NativeOf(mapping, t) = n
  <2>1. NativesOf(resolved, mapping, S) = {n} /\ n[2] \in Utm!Campaigns BY NativeFits
  <2>2. NativesOf(resolved, mapping, S) = {NativeOf(mapping, t) : t \in r} BY DEF NativesOf
  <2> HIDE DEF n, r
  <2> QED BY <2>1, <2>2
<1>2. r \in SUBSET Touchpoints /\ r = {t \in S \cap resolved : mapping[CampaignOf[t]] # Utm!Blocked}
  BY DEF ReadyOf
<1>3. \A t \in Touchpoints : CampaignOf[t] \in Utm!Campaigns BY DEF Utm!Campaigns
<1>4. \A c \in Utm!Campaigns : mapping[c] \in Utm!Campaigns \cup {Utm!Unmapped, Utm!Blocked} BY DEF UtmTypes
<1>5. \A c \in Utm!Campaigns : c \notin {Utm!Unmapped, Utm!Blocked} BY UtmBounds DEF Utm!UtmConstants
<1>6. Utm!Unmapped # Utm!Blocked BY DEF Utm!Unmapped, Utm!Blocked
<1>7. \A c \in Utm!Campaigns :
        M[c] = IF c \in {CampaignOf[t] : t \in {p \in r : NativeOf(mapping, p)[1] = "create"}}
               THEN c ELSE mapping[c]
  BY DEF MappedBy
<1>8. \A t \in r : M[CampaignOf[t]] = n[2]
  <2> SUFFICES ASSUME NEW t \in r PROVE M[CampaignOf[t]] = n[2]
    OBVIOUS
  <2>1. CampaignOf[t] \in Utm!Campaigns /\ NativeOf(mapping, t) = n BY <1>1, <1>2, <1>3
  <2>2. CASE mapping[CampaignOf[t]] = Utm!Unmapped
    <3>1. n = <<"create", CampaignOf[t]>> BY <2>1, <2>2 DEF NativeOf
    <3>2. n[1] = "create" /\ n[2] = CampaignOf[t] BY <3>1
    <3> HIDE DEF M, r, n
    <3> QED BY <1>7, <2>1, <3>2
  <2>3. CASE mapping[CampaignOf[t]] # Utm!Unmapped
    <3>1. n = <<"mapped", mapping[CampaignOf[t]]>> BY <2>1, <2>3 DEF NativeOf
    <3>2. n[1] = "mapped" /\ n[2] = mapping[CampaignOf[t]] BY <3>1
    <3>3. {p \in r : NativeOf(mapping, p)[1] = "create"} = {} BY <1>1, <3>2
    <3> HIDE DEF M, r, n
    <3> QED BY <1>7, <2>1, <3>2, <3>3
  <2> QED BY <2>2, <2>3
<1>9. ReadyOf(resolved, M, S) = r
  <2>1. ReadyOf(resolved, M, S) = {t \in S \cap resolved : M[CampaignOf[t]] # Utm!Blocked} BY DEF ReadyOf
  <2>2. ASSUME NEW t \in S \cap resolved
        PROVE  M[CampaignOf[t]] # Utm!Blocked <=> mapping[CampaignOf[t]] # Utm!Blocked
    <3>1. CampaignOf[t] \in Utm!Campaigns BY <1>3
    <3>2. CASE t \in r BY <1>1, <1>2, <1>5, <1>8, <3>2
    <3>3. CASE t \notin r
      <4>1. mapping[CampaignOf[t]] = Utm!Blocked BY <1>2, <3>3
      <4>2. ~ \E p \in r : NativeOf(mapping, p)[1] = "create" /\ CampaignOf[p] = CampaignOf[t]
        BY <1>2, <4>1
      <4> HIDE DEF M, r
      <4> QED BY <1>7, <3>1, <4>1, <4>2
    <3> QED BY <3>2, <3>3
  <2> HIDE DEF M, r
  <2> QED BY <1>2, <2>1, <2>2
<1>10. \A t \in r : NativeOf(M, t) = <<"mapped", n[2]>>
  <2> SUFFICES ASSUME NEW t \in r PROVE NativeOf(M, t) = <<"mapped", n[2]>>
    OBVIOUS
  <2>1. M[CampaignOf[t]] = n[2] /\ n[2] # Utm!Unmapped BY <1>1, <1>5, <1>8
  <2> HIDE DEF M, r, n
  <2> QED BY <2>1 DEF NativeOf
<1>11. nat = {<<"mapped", n[2]>>}
  <2>1. nat = {NativeOf(M, t) : t \in r} BY <1>9 DEF NativesOf
  <2>2. r # {} OBVIOUS
  <2> HIDE DEF nat, r, M, n
  <2> QED BY <1>10, <2>1, <2>2
<1>12. n2 = <<"mapped", n[2]>>
  <2>1. n2 = CHOOSE x \in nat : TRUE BY DEF TheNative
  <2> HIDE DEF nat, n2, n
  <2> QED BY <1>11, <2>1
<1>13. DesiredOf(n2) = n[2]
  <2> HIDE DEF n2, n
  <2>1. n2[1] = "mapped" /\ n2[2] = n[2] BY <1>12
  <2> QED BY <2>1 DEF DesiredOf
<1>14. Utm!Cardinality(nat) = 1
  <2> HIDE DEF nat
  <2> QED BY <1>11, FS_Singleton, EventSizes
<1>15. g = n[2]
  <2>1. g = IF S = {} \/ ~(S \subseteq resolved) THEN GivenBack(n[2], rec, base)
            ELSE IF ReadyOf(resolved, M, S) = {} THEN n[2]
            ELSE IF Utm!Cardinality(nat) # 1 THEN GivenBack(n[2], rec, base)
            ELSE IF ~WritableBy(n[2], rec) \/ n[2] = DesiredOf(n2) THEN n[2] ELSE n2[2]
    BY DEF Given
  <2> HIDE DEF g, n, n2, nat, M
  <2> QED BY <2>1, <1>13, <1>14
<1> QED BY <1>15

\* Without a campaign to apply, what is given back is not asked for again.
LEMMA GivenStays ==
  ASSUME NEW val, NEW rec, NEW base, NEW R, NEW M, NEW S, ~Applying(val, rec, R, M, S)
  PROVE  Given(Given(val, rec, base, R, M, S), rec, base, R, M, S) = Given(val, rec, base, R, M, S)
<1> DEFINE one == Utm!Cardinality(NativesOf(R, M, S)) = 1
           r == ReadyOf(R, M, S)
           des == DesiredOf(TheNative(R, M, S))
           two == TheNative(R, M, S)[2]
           gb == GivenBack(val, rec, base)
           g == Given(val, rec, base, R, M, S)
<1>1. g = IF S = {} \/ ~(S \subseteq R) THEN gb
          ELSE IF r = {} THEN val ELSE IF ~one THEN gb
          ELSE IF ~WritableBy(val, rec) \/ val = des THEN val ELSE two
  BY DEF Given
<1>2. ~(S # {} /\ S \subseteq R /\ r # {} /\ one /\ WritableBy(val, rec) /\ val # des)
  BY DEF Applying
<1>3. GivenBack(gb, rec, base) = gb BY DEF GivenBack
<1>4. Given(gb, rec, base, R, M, S) =
        IF S = {} \/ ~(S \subseteq R) THEN GivenBack(gb, rec, base)
        ELSE IF r = {} THEN gb ELSE IF ~one THEN GivenBack(gb, rec, base)
        ELSE IF ~WritableBy(gb, rec) \/ gb = des THEN gb ELSE two
  BY DEF Given
<1>5. CASE (S = {} \/ ~(S \subseteq R)) \/ (r # {} /\ ~one)
  <2> HIDE DEF gb, g, one, r, des, two
  <2>1. g = gb BY <1>1, <1>5
  <2>2. Given(gb, rec, base, R, M, S) = gb BY <1>3, <1>4, <1>5
  <2>3. Given(g, rec, base, R, M, S) = g BY <2>1, <2>2
  <2> QED BY <2>3 DEF g
<1>6. CASE ~((S = {} \/ ~(S \subseteq R)) \/ (r # {} /\ ~one))
  <2> HIDE DEF gb, g, one, r, des, two
  <2>1. g = val BY <1>1, <1>2, <1>6
  <2>2. Given(g, rec, base, R, M, S) = g BY <2>1 DEF g
  <2> QED BY <2>2 DEF g
<1> QED BY <1>5, <1>6

\* --- What is recorded.
ReceiptOf(v) == [state |-> v.state, before |-> lead.values, after |-> v.after, points |-> v.points]

LEMMA RecordedIs ==
  ASSUME NEW v, lead \in UtmLead
  PROVE  /\ lead.last = ReceiptOf(v) => Utm!Recorded(v) = lead
         /\ lead.last # ReceiptOf(v) =>
              /\ Utm!Recorded(v).values = v.after
              /\ Utm!Recorded(v).state = v.state
              /\ Utm!Recorded(v).manual = lead.manual
              /\ Utm!Recorded(v).held = lead.held
              /\ Utm!Recorded(v).last = ReceiptOf(v)
              /\ Utm!Recorded(v).receipt = IF v.state = "applied"
                                           THEN [after |-> v.after, before |-> lead.values]
                                           ELSE lead.receipt
              /\ Utm!Recorded(v).baseline = IF v.state = "applied" /\ lead.baseline = Utm!None
                                            THEN lead.values ELSE lead.baseline
              /\ Utm!Recorded(v) # lead
<1> DEFINE rc == IF v.state = "applied" THEN [after |-> v.after, before |-> lead.values] ELSE lead.receipt
           bs == IF v.state = "applied" /\ lead.baseline = Utm!None THEN lead.values ELSE lead.baseline
           new == [lead EXCEPT !.values = v.after, !.state = v.state, !.last = ReceiptOf(v),
                     !.receipt = rc, !.baseline = bs]
<1>1. Utm!Recorded(v) = IF lead.last = ReceiptOf(v) THEN lead ELSE new BY DEF Utm!Recorded, ReceiptOf
<1>2. /\ new.values = v.after /\ new.state = v.state /\ new.manual = lead.manual
      /\ new.held = lead.held /\ new.last = ReceiptOf(v) /\ new.receipt = rc /\ new.baseline = bs
  <2> HIDE DEF rc, bs
  <2> QED BY DEF UtmLead
<1> HIDE DEF new
<1> QED BY <1>1, <1>2

LEMMA RecordedFits ==
  ASSUME NEW v, UtmTypes, v.after \in Tuples, v.state \in UtmStates, v.points \in SUBSET Touchpoints
  PROVE  /\ Utm!Recorded(v) \in UtmLead
         /\ Utm!Recorded(v).receipt # Utm!NoReceipt => Utm!Recorded(v).baseline # Utm!None
<1> DEFINE rc == IF v.state = "applied" THEN [after |-> v.after, before |-> lead.values] ELSE lead.receipt
           bs == IF v.state = "applied" /\ lead.baseline = Utm!None THEN lead.values ELSE lead.baseline
           new == [lead EXCEPT !.values = v.after, !.state = v.state, !.last = ReceiptOf(v),
                     !.receipt = rc, !.baseline = bs]
<1>0. lead \in UtmLead /\ (lead.receipt # Utm!NoReceipt => lead.baseline # Utm!None) BY DEF UtmTypes
<1>1. Utm!Recorded(v) = IF lead.last = ReceiptOf(v) THEN lead ELSE new BY DEF Utm!Recorded, ReceiptOf
<1>2. ReceiptOf(v) \in LastReceipts BY <1>0 DEF ReceiptOf, LastReceipts, UtmLead
<1>3. rc \in Receipts BY <1>0 DEF Receipts, UtmLead
<1>4. bs \in Tuples \cup {Utm!None} BY <1>0 DEF UtmLead
<1>5. new \in UtmLead
  <2> HIDE DEF rc, bs
  <2> QED BY <1>0, <1>2, <1>3, <1>4 DEF UtmLead
<1>6. Utm!None \notin Tuples
  BY UtmBounds DEF Utm!UtmConstants, Tuples, Utm!None, Utm!Empty, Utm!Own, Utm!Unmapped, Utm!Blocked
<1>7. rc # Utm!NoReceipt => bs # Utm!None BY <1>0, <1>6 DEF UtmLead
<1>8. new.receipt = rc /\ new.baseline = bs
  <2> HIDE DEF rc, bs
  <2> QED BY <1>0 DEF UtmLead
<1> HIDE DEF rc, bs, new
<1> QED BY <1>0, <1>1, <1>5, <1>7, <1>8

\* --- What a lead should show now.
DecidesSo ==
  links \in SUBSET Touchpoints /\ ~lead.manual /\ mode = "apply" =>
    DecidedNow = Given(lead.values, lead.receipt, lead.baseline, resolved, mapping, links)
LEMMA DecisionNow == DecidesSo
BY DecideIs DEF DecidesSo, DecidedNow
LEMMA DecisionNext == DecidesSo'
BY DecisionNow, PTL

LEMMA ClassifyGives ==
  ASSUME UtmTypes, LastTells, ViewsFit, NEW w \in Workers, Utm!Classify(w), ~lead.manual
  PROVE  LET v == Utm!Decide(workers[w].links, workers[w].mode, workers[w].held) IN
         /\ lead' = Utm!Recorded(v)
         /\ mapping' = IF v.state = "applied" THEN MappedBy(mapping, v.points) ELSE mapping
         /\ UNCHANGED <<mode, resolved, links, due>>
         /\ workers[w].links \in SUBSET Touchpoints /\ workers[w].links \subseteq links
         /\ workers[w].mode \in Utm!Modes /\ workers[w].held \in BOOLEAN
         /\ workers[w].mode # mode => workers[w].links \cap resolved = {}
         /\ lead'.values = v.after /\ lead'.state = v.state
         /\ lead'.manual = lead.manual /\ lead'.held = lead.held
         /\ v.state # "applied" => lead'.receipt = lead.receipt /\ lead'.baseline = lead.baseline
<1> DEFINE v == Utm!Decide(workers[w].links, workers[w].mode, workers[w].held)
           new == Utm!Creates(v)
<1>1. lead' = Utm!Recorded(v) /\ UNCHANGED <<mode, resolved, links, due>>
      /\ mapping' = [c \in Utm!Campaigns |-> IF c \in new THEN c ELSE mapping[c]]
  BY DEF Utm!Classify
<1>2. workers[w] \in UtmJob /\ lead \in UtmLead BY DEF UtmTypes
<1>3. ViewRuns(w) BY DEF Utm!Classify, ViewRuns
<1>4. /\ workers[w].links \in SUBSET Touchpoints /\ workers[w].held \in BOOLEAN
      /\ workers[w].links \subseteq links /\ workers[w].mode \in Utm!Modes
      /\ workers[w].mode # mode => workers[w].links \cap resolved = {}
  BY <1>2, <1>3 DEF ViewsFit, UtmJob
<1>5. v.after \in Tuples /\ v.state \in UtmStates BY <1>4, DecisionFits
<1>6. mapping' = IF v.state = "applied" THEN MappedBy(mapping, v.points) ELSE mapping
  <2>1. CASE v.state = "applied"
    <3>1. \A p : Utm!Native(p) = NativeOf(mapping, p) BY DEF Utm!Native, NativeOf
    <3>2. new = {CampaignOf[t] : t \in {p \in v.points : NativeOf(mapping, p)[1] = "create"}}
      <4> HIDE DEF v
      <4> QED BY <2>1, <3>1 DEF Utm!Creates
    <3> HIDE DEF v, new
    <3> QED BY <1>1, <2>1, <3>2 DEF MappedBy
  <2>2. CASE v.state # "applied"
    <3>1. new = {}
      <4> HIDE DEF v
      <4> QED BY <2>2 DEF Utm!Creates
    <3>2. mapping = [c \in Utm!Campaigns |-> mapping[c]] BY DEF UtmTypes
    <3> HIDE DEF v, new
    <3> QED BY <1>1, <2>2, <3>1, <3>2
  <2> QED BY <2>1, <2>2
<1> HIDE DEF v
<1>7. CASE lead.last = ReceiptOf(v)
  <2>1. lead' = lead BY <1>1, <1>2, <1>7, RecordedIs
  <2>2. ReceiptOf(v).before = lead.values /\ ReceiptOf(v).after = v.after /\ ReceiptOf(v).state = v.state
    BY DEF ReceiptOf
  <2>3. lead.values \in Tuples /\ Utm!None \notin Tuples
    BY <1>2, UtmBounds DEF UtmLead, Utm!UtmConstants, Tuples, Utm!None, Utm!Empty, Utm!Own, Utm!Unmapped,
                           Utm!Blocked
  <2>4. lead.last # Utm!NoLast BY <1>7, <2>2, <2>3 DEF Utm!NoLast
  <2>5. lead.values = v.after /\ lead.state = v.state BY <1>7, <2>2, <2>4 DEF LastTells
  <2>6. /\ lead'.values = v.after /\ lead'.state = v.state
        /\ lead'.manual = lead.manual /\ lead'.held = lead.held
        /\ lead'.receipt = lead.receipt /\ lead'.baseline = lead.baseline
    BY <2>1, <2>5
  <2> QED BY <1>1, <1>4, <1>6, <2>6 DEF v
<1>8. CASE lead.last # ReceiptOf(v)
  <2>1. /\ lead'.values = v.after /\ lead'.state = v.state
        /\ lead'.manual = lead.manual /\ lead'.held = lead.held
        /\ v.state # "applied" => lead'.receipt = lead.receipt /\ lead'.baseline = lead.baseline
    BY <1>1, <1>2, <1>8, RecordedIs
  <2> QED BY <1>1, <1>4, <1>6, <2>1 DEF v
<1> QED BY <1>7, <1>8

\* A job that has seen what there is leaves the lead as it should be.
LEMMA CurrentJobSettles ==
  ASSUME UtmTypes, LastTells, ViewsFit, NEW w \in Workers, Utm!Classify(w), ViewCurrent(w),
         ~lead.manual
  PROVE  ~Unsettled'
<1> DEFINE v == Utm!Decide(links, workers[w].mode, FALSE)
<1>1. workers[w].links = links /\ workers[w].held = FALSE
      /\ (~Nothing => workers[w].mode = mode)
  BY DEF ViewCurrent, UtmTypes, UtmJob
<1>2. /\ mapping' = IF v.state = "applied" THEN MappedBy(mapping, v.points) ELSE mapping
      /\ UNCHANGED <<mode, resolved, links>>
      /\ workers[w].mode \in Utm!Modes
      /\ lead'.values = v.after /\ lead'.state = v.state /\ lead'.manual = lead.manual
      /\ v.state # "applied" => lead'.receipt = lead.receipt /\ lead'.baseline = lead.baseline
  <2> HIDE DEF v
  <2>1. v = Utm!Decide(workers[w].links, workers[w].mode, workers[w].held) BY <1>1 DEF v
  <2> QED BY <2>1, ClassifyGives
<1>3. links \in SUBSET Touchpoints BY DEF UtmTypes
<1>4. CASE Nothing
  <2>1. links = {} \/ ~(links \subseteq resolved) BY <1>4 DEF Nothing
  <2>2. /\ v.state # "applied"
        /\ Utm!Owned /\ lead.values = lead.receipt.after /\ workers[w].mode = "apply" => v.after = lead.baseline
        /\ Utm!Owned /\ lead.values = lead.receipt.after /\ workers[w].mode # "apply" =>
             v.after = lead.values /\ v.state \in {"disabled", "simulation"}
        /\ ~(Utm!Owned /\ lead.values = lead.receipt.after) => v.after = lead.values
    BY <1>2, <1>3, <2>1, BlankIs
  <2> HIDE DEF v
  <2>3. Nothing' BY <1>2, <1>4 DEF Nothing
  <2>4. Utm!Owned' <=> Utm!Owned BY <1>2, <2>2 DEF Utm!Owned
  <2>5. Returnable' => lead'.state \in {"disabled", "simulation"}
    BY <1>2, <2>2, <2>4 DEF Returnable
  <2> QED BY <2>3, <2>5 DEF Unsettled
<1>5. CASE ~Nothing /\ mode # "apply"
  <2> HIDE DEF v
  <2> QED BY <1>2, <1>5 DEF Unsettled, Nothing
<1>6. CASE ~Nothing /\ mode = "apply"
  <2> DEFINE r == ReadyOf(resolved, mapping, links)
             n == TheNative(resolved, mapping, links)
             App == Applying(lead.values, lead.receipt, resolved, mapping, links)
  <2>1. workers[w].mode = "apply" BY <1>1, <1>6
  <2>2. /\ v.after = Given(lead.values, lead.receipt, lead.baseline, resolved, mapping, links)
        /\ v.state = "applied" <=> App
        /\ App => v.after = n[2] /\ v.points = r
    BY <1>3, <2>1, DecideIs
  <2>3. DecidedNow' = Given(lead'.values, lead'.receipt, lead'.baseline, resolved, mapping', links)
    <3> HIDE DEF v
    <3>1. links' \in SUBSET Touchpoints /\ ~lead'.manual /\ mode' = "apply" BY <1>2, <1>3, <1>6
    <3> QED BY <1>2, <3>1, DecisionNext DEF DecidesSo
  <2>4. DecidedNow' = lead'.values
    <3>1. CASE App
      <4>1. Given(n[2], lead'.receipt, lead'.baseline, resolved, MappedBy(mapping, r), links) = n[2]
        BY <1>3, <3>1, AppliedStays DEF Applying
      <4> HIDE DEF v, n, r
      <4>2. mapping' = MappedBy(mapping, r) /\ lead'.values = n[2] BY <1>2, <2>2, <3>1
      <4> QED BY <2>3, <4>1, <4>2
    <3>2. CASE ~App
      <4> HIDE DEF v
      <4>1. mapping' = mapping /\ lead'.receipt = lead.receipt /\ lead'.baseline = lead.baseline
        BY <1>2, <2>2, <3>2
      <4>2. lead'.values = Given(lead.values, lead.receipt, lead.baseline, resolved, mapping, links)
        BY <1>2, <2>2
      <4> QED BY <2>3, <3>2, <4>1, <4>2, GivenStays
    <3> QED BY <3>1, <3>2
  <2> HIDE DEF v
  <2>5. ~Nothing' BY <1>2, <1>6 DEF Nothing
  <2> QED BY <2>4, <2>5 DEF Unsettled
<1> QED BY <1>4, <1>5, <1>6

\* Where there is nothing to take, a job takes nothing.
LEMMA NothingTaken ==
  ASSUME UtmTypes, LastTells, ViewsFit, NEW w \in Workers, Utm!Classify(w), ~lead.manual, NothingToTake
  PROVE  NothingToTake' /\ ~Unsettled'
<1> DEFINE v == Utm!Decide(workers[w].links, workers[w].mode, workers[w].held)
<1>1. /\ UNCHANGED <<mode, resolved, links>>
      /\ workers[w].links \in SUBSET Touchpoints /\ workers[w].links \subseteq links
      /\ workers[w].mode \in Utm!Modes /\ workers[w].held \in BOOLEAN
      /\ workers[w].mode # mode => workers[w].links \cap resolved = {}
      /\ v.state # "applied" => lead'.receipt = lead.receipt /\ lead'.baseline = lead.baseline
  BY ClassifyGives
<1>2. v.state # "applied"
  <2> SUFFICES ASSUME v.state = "applied" PROVE FALSE
    OBVIOUS
  <2>1. workers[w].mode = "apply"
        /\ Applying(lead.values, lead.receipt, resolved, mapping, workers[w].links)
    BY <1>1, DecisionFits
  <2>2. workers[w].links # {} /\ workers[w].links \subseteq resolved BY <2>1 DEF Applying
  <2> HIDE DEF v
  <2>3. mode = "apply" /\ ~Nothing BY <1>1, <2>1, <2>2 DEF Nothing
  <2> QED BY <2>3 DEF NothingToTake
<1> HIDE DEF v
<1>3. ~Utm!Owned' BY <1>1, <1>2 DEF NothingToTake, Utm!Owned
<1>4. (mode' = "disabled" \/ Nothing') BY <1>1 DEF NothingToTake, Nothing
<1> QED BY <1>3, <1>4 DEF NothingToTake, Unsettled, Returnable

\* --- The steps.
LEMMA LookedAtNext ==
  ASSUME LookedAt'
  PROVE  SettlesLater' /\ Followed'
BY DEF SettlesLater, Followed

LEMMA SourceOff ==
  ASSUME mode' = "disabled", ~Utm!Owned'
  PROVE  SettlesLater' /\ Followed'
BY DEF SettlesLater, Followed, Unsettled, Returnable, NothingToTake

LEMMA DoomIs ==
  ASSUME workers \in [Workers -> UtmJob], NEW ws
  PROVE  /\ Utm!Doom(ws) \in [Workers -> UtmJob]
         /\ \A w \in Workers :
              /\ Utm!Doom(ws)[w].busy = workers[w].busy /\ Utm!Doom(ws)[w].links = workers[w].links
              /\ Utm!Doom(ws)[w].mode = workers[w].mode /\ Utm!Doom(ws)[w].held = workers[w].held
              /\ Utm!Doom(ws)[w].stale <=> workers[w].stale \/ (workers[w].busy /\ w \in ws)
<1> DEFINE remade(w) == [workers[w] EXCEPT !.stale = TRUE]
<1>1. \A w \in Workers :
        /\ remade(w) \in UtmJob
        /\ remade(w).busy = workers[w].busy /\ remade(w).links = workers[w].links
        /\ remade(w).mode = workers[w].mode /\ remade(w).held = workers[w].held /\ remade(w).stale = TRUE
  BY DEF UtmJob
<1>2. \A w \in Workers :
        Utm!Doom(ws)[w] = IF workers[w].busy /\ w \in ws THEN remade(w) ELSE workers[w]
  BY DEF Utm!Doom
<1>3. Utm!Doom(ws) \in [Workers -> UtmJob]
  <2> DEFINE job(w) == IF workers[w].busy /\ w \in ws THEN remade(w) ELSE workers[w]
  <2>1. Utm!Doom(ws) = [w \in Workers |-> job(w)] BY DEF Utm!Doom
  <2>2. \A w \in Workers : job(w) \in UtmJob BY <1>1
  <2> HIDE DEF job
  <2> QED BY <2>1, <2>2
<1>4. \A w \in Workers : workers[w] \in UtmJob /\ workers[w].stale \in BOOLEAN BY DEF UtmJob
<1> HIDE DEF remade
<1> QED BY <1>1, <1>2, <1>3, <1>4

\* When everyone running has to run again, somebody will look.
LEMMA EveryoneStale ==
  ASSUME UtmTypes, workers' = Utm!Everyone
  PROVE  /\ workers' \in [Workers -> UtmJob]
         /\ ViewsFit => \A w \in Workers : workers'[w].stale => workers'[w].busy
         /\ \A w \in Workers : workers[w].busy => workers'[w].busy /\ workers'[w].stale
         /\ \A w \in Workers : ~workers[w].busy => ~workers'[w].busy
<1>1. workers \in [Workers -> UtmJob] BY DEF UtmTypes
<1>2. workers' = Utm!Doom(Workers) BY DEF Utm!Everyone
<1>3. \A w \in Workers : workers[w].busy \in BOOLEAN BY <1>1 DEF UtmJob
<1> QED BY <1>1, <1>2, <1>3, DoomIs DEF ViewsFit

LEMMA BeginKeepsUtm ==
  ASSUME UtmInv, NEW w \in Workers, Utm!Begin(w)
  PROVE  UtmInv'
<1> DEFINE job == [busy |-> TRUE, stale |-> FALSE, links |-> links, mode |-> mode, held |-> lead.held]
<1>0. UtmTypes /\ LastTells /\ ViewsFit BY DEF UtmInv
<1>1. job \in UtmJob /\ mode \in Utm!Modes BY <1>0 DEF UtmTypes, UtmJob, UtmLead
<1>2. /\ workers' = [workers EXCEPT ![w] = job] /\ due' = FALSE
      /\ UNCHANGED <<mode, mapping, resolved, links, lead, scopes, open, raced>>
  BY DEF Utm!Begin
<1>3. workers \in [Workers -> UtmJob] BY <1>0 DEF UtmTypes
<1>4. /\ workers' \in [Workers -> UtmJob] /\ workers'[w] = job
      /\ \A v \in Workers \ {w} : workers'[v] = workers[v]
  <2> HIDE DEF job
  <2> QED BY <1>1, <1>2, <1>3
<1>5. UtmTypes' BY <1>0, <1>2, <1>4 DEF UtmTypes, UtmScope
<1>6. LastTells' BY <1>0, <1>2 DEF LastTells
<1>7. workers'[w].busy /\ ~workers'[w].stale /\ workers'[w].links = links /\ workers'[w].mode = mode
      /\ workers'[w].held = lead.held
  BY <1>4
<1>8. ViewsFit'
  <2> HIDE DEF job
  <2> QED BY <1>0, <1>1, <1>2, <1>4, <1>7 DEF ViewsFit, ViewRuns
<1>9. ~lead.held => LookedAt'
  <2> HIDE DEF job
  <2> QED BY <1>2, <1>7 DEF LookedAt, ViewCurrent, ViewRuns, Nothing
<1>10. SettlesLater' /\ Followed'
  <2>1. CASE lead.held BY <1>2, <2>1 DEF SettlesLater, Followed, Unsettled
  <2>2. CASE ~lead.held BY <1>9, <2>2, LookedAtNext
  <2> QED BY <2>1, <2>2
<1> QED BY <1>5, <1>6, <1>8, <1>10 DEF UtmInv

LEMMA RetryKeepsUtm ==
  ASSUME UtmInv, NEW w \in Workers, Utm!Retry(w)
  PROVE  UtmInv'
<1>0. UtmTypes /\ LastTells /\ ViewsFit BY DEF UtmInv
<1>1. Utm!Idle \in UtmJob /\ ~Utm!Idle.busy /\ ~Utm!Idle.stale BY DEF Utm!Idle, UtmJob, Utm!Modes
<1>2. /\ workers' = [workers EXCEPT ![w] = Utm!Idle] /\ due' = TRUE
      /\ UNCHANGED <<mode, mapping, resolved, links, lead, scopes, open, raced>>
  BY DEF Utm!Retry
<1>3. workers \in [Workers -> UtmJob] BY <1>0 DEF UtmTypes
<1>4. /\ workers' \in [Workers -> UtmJob] /\ workers'[w] = Utm!Idle
      /\ \A v \in Workers \ {w} : workers'[v] = workers[v]
  BY <1>1, <1>2, <1>3
<1>5. UtmTypes' BY <1>0, <1>2, <1>4 DEF UtmTypes, UtmScope
<1>6. LastTells' BY <1>0, <1>2 DEF LastTells
<1>7. ViewsFit' BY <1>0, <1>1, <1>2, <1>4 DEF ViewsFit, ViewRuns
<1>8. LookedAt' BY <1>2 DEF LookedAt
<1> QED BY <1>5, <1>6, <1>7, <1>8, LookedAtNext DEF UtmInv

LEMMA SameKeeps ==
  ASSUME UtmInv,
         UNCHANGED <<mode, mapping, resolved, links, lead, due, scopes, workers, raced>>
  PROVE  LastTells' /\ ViewsFit' /\ SettlesLater' /\ Followed'
<1>0. LastTells /\ ViewsFit /\ SettlesLater /\ Followed BY DEF UtmInv
<1>1. LastTells' /\ ViewsFit' BY <1>0 DEF LastTells, ViewsFit, ViewRuns
<1>2. DecidedNow' = DecidedNow
  BY DEF DecidedNow, Utm!Decide, Utm!Candidate, Utm!ClassifyReady, Utm!Native, Utm!RestoreOwned, Utm!Owned
<1>3. /\ Nothing' <=> Nothing
      /\ Utm!Owned' <=> Utm!Owned
      /\ WakesUp' <=> WakesUp
  BY DEF Nothing, Utm!Owned, WakesUp
<1>4. /\ Unsettled' <=> Unsettled
      /\ NothingToTake' <=> NothingToTake
  BY <1>2, <1>3 DEF Unsettled, Returnable, NothingToTake
<1>5. \A w : /\ ViewRuns(w)' <=> ViewRuns(w)
             /\ ViewCurrent(w)' <=> ViewCurrent(w)
  BY <1>3 DEF ViewRuns, ViewCurrent
<1>6. \A s : Utm!Reaches(s)' <=> Utm!Reaches(s) BY DEF Utm!Reaches
<1>7. LookedAt' <=> LookedAt BY <1>3, <1>5, <1>6 DEF LookedAt
<1>8. SettlesLater' BY <1>0, <1>4, <1>7 DEF SettlesLater
<1>9. (\E w \in Workers : ViewRuns(w)' /\ ~ViewCurrent(w)') =>
        (\E w \in Workers : ViewRuns(w) /\ ~ViewCurrent(w))
  BY <1>5
<1>10. Followed' BY <1>0, <1>4, <1>7, <1>9 DEF Followed
<1> QED BY <1>1, <1>8, <1>10

LEMMA OpenKeepsUtm ==
  ASSUME UtmInv, NEW kind \in {"link", "project"}, NEW t \in Touchpoints, Utm!Open(kind, t)
  PROVE  UtmInv'
<1>0. UtmTypes BY DEF UtmInv
<1>1. /\ open' = {[kind |-> kind, touchpoint |-> t, sees |-> mode # "disabled"]}
      /\ UNCHANGED <<mode, mapping, resolved, links, lead, due, scopes, workers, raced>>
  BY DEF Utm!Open
<1>2. UtmTypes' BY <1>0, <1>1 DEF UtmTypes, UtmScope
<1> QED BY <1>1, <1>2, SameKeeps DEF UtmInv

LEMMA LinkKeepsUtm ==
  ASSUME UtmInv, NEW o \in open, Utm!Link(o)
  PROVE  UtmInv'
<1>0. UtmTypes /\ LastTells /\ ViewsFit BY DEF UtmInv
<1>1. o.touchpoint \in Touchpoints /\ o.sees \in BOOLEAN BY <1>0 DEF UtmTypes
<1>2. /\ links' = links \cup {o.touchpoint}
      /\ due' = (due \/ ((o.sees \/ Utm!Owned) /\ Utm!Woken))
      /\ raced' = (raced \/ (mode # "disabled" /\ ~o.sees /\ ~Utm!Owned))
      /\ open' = {}
      /\ UNCHANGED <<mode, mapping, resolved, lead, scopes, workers>>
  BY DEF Utm!Link
<1>3. UtmTypes' BY <1>0, <1>1, <1>2 DEF UtmTypes, UtmScope
<1>4. LastTells' BY <1>0, <1>2 DEF LastTells
<1>5. ViewsFit' BY <1>0, <1>2 DEF ViewsFit, ViewRuns
<1>6. SettlesLater' /\ Followed'
  <2>1. CASE o.sees \/ Utm!Owned
    <3>1. due' BY <1>2, <2>1 DEF Utm!Woken
    <3> QED BY <3>1, LookedAtNext DEF LookedAt
  <2>2. CASE ~(o.sees \/ Utm!Owned) /\ mode = "disabled"
    <3>1. mode' = "disabled" /\ ~Utm!Owned' BY <1>2, <2>2 DEF Utm!Owned
    <3> QED BY <3>1, SourceOff
  <2>3. CASE ~(o.sees \/ Utm!Owned) /\ mode # "disabled"
    <3>1. raced' BY <1>2, <2>3
    <3> QED BY <3>1 DEF SettlesLater, Followed
  <2> QED BY <2>1, <2>2, <2>3
<1> QED BY <1>3, <1>4, <1>5, <1>6 DEF UtmInv

LEMMA RevokeKeeps ==
  ASSUME UtmInv, NEW t \in Touchpoints, Utm!Revoke(t)
  PROVE  UtmInv'
<1>0. UtmTypes /\ LastTells /\ ViewsFit BY DEF UtmInv
<1>1. /\ links' = links \ {t} /\ workers' = Utm!Everyone /\ open' = {}
      /\ due' = (due \/ ((mode # "disabled" \/ Utm!Owned) /\ Utm!Woken))
      /\ UNCHANGED <<mode, mapping, resolved, lead, scopes, raced>>
  BY DEF Utm!Revoke
<1>2. workers' \in [Workers -> UtmJob] BY <1>0, <1>1, EveryoneStale
<1>3. UtmTypes' BY <1>0, <1>1, <1>2 DEF UtmTypes, UtmScope
<1>4. LastTells' BY <1>0, <1>1 DEF LastTells
<1>5. ViewsFit' BY <1>0, <1>1, EveryoneStale DEF ViewsFit, ViewRuns
<1>6. SettlesLater' /\ Followed'
  <2>1. CASE mode # "disabled" \/ Utm!Owned
    <3>1. due' BY <1>1, <2>1 DEF Utm!Woken
    <3> QED BY <3>1, LookedAtNext DEF LookedAt
  <2>2. CASE ~(mode # "disabled" \/ Utm!Owned)
    <3>1. mode' = "disabled" /\ ~Utm!Owned' BY <1>1, <2>2 DEF Utm!Owned
    <3> QED BY <3>1, SourceOff
  <2> QED BY <2>1, <2>2
<1> QED BY <1>3, <1>4, <1>5, <1>6 DEF UtmInv

LEMMA HoldReleaseKeep ==
  ASSUME UtmInv, Utm!Hold \/ Utm!Release
  PROVE  UtmInv'
<1>0. UtmTypes /\ LastTells /\ ViewsFit BY DEF UtmInv
<1>1. /\ UNCHANGED <<mode, mapping, resolved, links, scopes, open, workers, raced>>
      /\ \E b \in BOOLEAN : lead' = [lead EXCEPT !.held = b]
      /\ due' \in BOOLEAN
  BY <1>0 DEF Utm!Hold, Utm!Release, UtmTypes
<1>2. lead \in UtmLead BY <1>0 DEF UtmTypes
<1>3. /\ lead' \in UtmLead /\ lead'.values = lead.values /\ lead'.manual = lead.manual
      /\ lead'.state = lead.state /\ lead'.receipt = lead.receipt
      /\ lead'.baseline = lead.baseline /\ lead'.last = lead.last
  BY <1>1, <1>2 DEF UtmLead
<1>4. UtmTypes' BY <1>0, <1>1, <1>3 DEF UtmTypes, UtmScope
<1>5. LastTells' BY <1>0, <1>3 DEF LastTells
<1>6. ViewsFit' BY <1>0, <1>1 DEF ViewsFit, ViewRuns
<1>7. SettlesLater' /\ Followed'
  <2>1. CASE Utm!Hold
    <3>1. lead'.held BY <1>2, <2>1 DEF Utm!Hold, UtmLead
    <3> QED BY <3>1 DEF SettlesLater, Followed, Unsettled
  <2>2. CASE Utm!Release /\ (mode # "disabled" \/ Utm!Owned)
    <3>1. due' BY <2>2 DEF Utm!Release, Utm!Woken
    <3> QED BY <3>1, LookedAtNext DEF LookedAt
  <2>3. CASE Utm!Release /\ ~(mode # "disabled" \/ Utm!Owned)
    <3>1. mode' = "disabled" /\ ~Utm!Owned' BY <1>1, <1>3, <2>3 DEF Utm!Owned
    <3> QED BY <3>1, SourceOff
  <2> QED BY <2>1, <2>2, <2>3
<1> QED BY <1>4, <1>5, <1>6, <1>7 DEF UtmInv

LEMMA PeopleKeep ==
  ASSUME UtmInv, NEW v \in {Utm!Empty, Utm!Own}, Utm!Edit(v) \/ Utm!Revert
  PROVE  UtmInv'
<1>0. UtmTypes /\ LastTells /\ ViewsFit BY DEF UtmInv
<1>1. /\ workers' = Utm!Everyone /\ open' = {}
      /\ UNCHANGED <<mode, mapping, resolved, links, due, scopes, raced>>
  BY DEF Utm!Edit, Utm!Revert, Utm!Writes
<1>2. lead \in UtmLead BY <1>0 DEF UtmTypes
<1>3. lead' \in UtmLead /\ lead'.manual /\ (lead'.receipt # Utm!NoReceipt => lead'.baseline # Utm!None)
  <2>0. lead.receipt # Utm!NoReceipt => lead.baseline # Utm!None BY <1>0 DEF UtmTypes
  <2>1. CASE Utm!Edit(v)
    <3>1. lead' = [lead EXCEPT !.values = v, !.manual = TRUE, !.state = "manual"]
      BY <2>1 DEF Utm!Edit, Utm!Writes
    <3>2. v \in Tuples /\ "manual" \in UtmStates BY DEF Tuples, UtmStates
    <3> QED BY <1>2, <2>0, <3>1, <3>2 DEF UtmLead
  <2>2. CASE Utm!Revert
    <3> DEFINE last == [state |-> "reverted", before |-> lead.values, after |-> lead.baseline, points |-> {}]
    <3>1. lead' = [lead EXCEPT !.values = lead.baseline, !.manual = TRUE, !.state = "reverted", !.last = last]
      BY <2>2 DEF Utm!Revert, Utm!Writes
    <3>2. lead.baseline \in Tuples BY <1>2, <2>0, <2>2 DEF Utm!Revert, Utm!Owned, UtmLead
    <3>3. last \in LastReceipts /\ "reverted" \in UtmStates
      BY <1>2, <3>2 DEF LastReceipts, UtmStates, UtmLead
    <3> HIDE DEF last
    <3> QED BY <1>2, <2>0, <3>1, <3>2, <3>3 DEF UtmLead
  <2> QED BY <2>1, <2>2
<1>4. workers' \in [Workers -> UtmJob] BY <1>0, <1>1, EveryoneStale
<1>5. UtmTypes' BY <1>0, <1>1, <1>3, <1>4 DEF UtmTypes, UtmScope
<1>6. LastTells' BY <1>3 DEF LastTells
<1>7. ViewsFit' BY <1>0, <1>1, EveryoneStale DEF ViewsFit, ViewRuns
<1>8. SettlesLater' /\ Followed' BY <1>3 DEF SettlesLater, Followed, Unsettled
<1> QED BY <1>5, <1>6, <1>7, <1>8 DEF UtmInv

LEMMA ReconcileKeeps ==
  ASSUME UtmInv, NEW s \in scopes, Utm!Reconcile(s)
  PROVE  UtmInv'
<1>0. UtmTypes /\ LastTells /\ ViewsFit /\ SettlesLater /\ Followed BY DEF UtmInv
<1>1. /\ scopes' = scopes \ {s}
      /\ due' = (due \/ (Utm!Reaches(s) /\ (mode # "disabled" \/ Utm!Owned) /\ Utm!Woken))
      /\ UNCHANGED <<mode, mapping, resolved, links, lead, open, workers, raced>>
  BY DEF Utm!Reconcile
<1>2. UtmTypes' BY <1>0, <1>1 DEF UtmTypes, UtmScope
<1>3. LastTells' /\ ViewsFit' BY <1>0, <1>1 DEF LastTells, ViewsFit, ViewRuns
<1>4. DecidedNow' = DecidedNow
  BY <1>1 DEF DecidedNow, Utm!Decide, Utm!Candidate, Utm!ClassifyReady, Utm!Native, Utm!RestoreOwned, Utm!Owned
<1>5. /\ Nothing' <=> Nothing
      /\ Utm!Owned' <=> Utm!Owned
      /\ WakesUp' <=> WakesUp
  BY <1>1 DEF Nothing, Utm!Owned, WakesUp
<1>6. /\ Unsettled' <=> Unsettled
      /\ NothingToTake' <=> NothingToTake
  BY <1>1, <1>4, <1>5 DEF Unsettled, Returnable, NothingToTake
<1>7. \A w : /\ ViewRuns(w)' <=> ViewRuns(w)
             /\ ViewCurrent(w)' <=> ViewCurrent(w)
  BY <1>1, <1>5 DEF ViewRuns, ViewCurrent
<1>8. \A x : Utm!Reaches(x)' <=> Utm!Reaches(x) BY <1>1 DEF Utm!Reaches
<1>9. LookedAt => LookedAt'
  <2>1. CASE due BY <1>1, <2>1 DEF LookedAt
  <2>2. CASE \E w \in Workers : workers[w].stale \/ ViewCurrent(w)
    BY <1>1, <1>7, <2>2 DEF LookedAt
  <2>3. CASE WakesUp /\ \E x \in scopes : Utm!Reaches(x)
    <3>1. PICK x \in scopes : Utm!Reaches(x) BY <2>3
    <3>2. CASE x = s
      <4>1. due' BY <1>1, <2>3, <3>1, <3>2 DEF WakesUp, Utm!Woken
      <4> QED BY <4>1 DEF LookedAt
    <3>3. CASE x # s
      <4>1. x \in scopes' /\ Utm!Reaches(x)' /\ WakesUp' BY <1>1, <1>5, <1>8, <2>3, <3>1, <3>3
      <4> QED BY <4>1 DEF LookedAt
    <3> QED BY <3>2, <3>3
  <2> QED BY <2>1, <2>2, <2>3 DEF LookedAt
<1>10. SettlesLater' BY <1>0, <1>1, <1>6, <1>9 DEF SettlesLater
<1>11. (\E w \in Workers : ViewRuns(w)' /\ ~ViewCurrent(w)') =>
         (\E w \in Workers : ViewRuns(w) /\ ~ViewCurrent(w))
  BY <1>7
<1>12. Followed' BY <1>0, <1>1, <1>6, <1>9, <1>11 DEF Followed
<1> QED BY <1>2, <1>3, <1>10, <1>12 DEF UtmInv

\* A job that a write did not make stale is as it was.
LEMMA DoomedViews ==
  ASSUME UtmTypes, ViewsFit, NEW ws, workers' = Utm!Doom(ws)
  PROVE  /\ workers' \in [Workers -> UtmJob]
         /\ \A w \in Workers :
              /\ workers'[w].stale => workers'[w].busy
              /\ workers'[w].links = workers[w].links /\ workers'[w].mode = workers[w].mode
              /\ workers'[w].held = workers[w].held
              /\ workers[w].stale => workers'[w].stale
              /\ workers[w].busy /\ w \in ws => workers'[w].stale
              /\ ViewRuns(w)' => ViewRuns(w) /\ w \notin ws
              /\ ViewRuns(w) /\ w \notin ws => ViewRuns(w)'
<1>1. workers \in [Workers -> UtmJob] BY DEF UtmTypes
<1>2. \A w \in Workers : workers[w].busy \in BOOLEAN /\ workers[w].stale \in BOOLEAN
                         /\ (workers[w].stale => workers[w].busy)
  BY <1>1 DEF UtmJob, ViewsFit
<1> QED BY <1>1, <1>2, DoomIs DEF ViewRuns

LEMMA SetModeKeeps ==
  ASSUME UtmInv, NEW m \in Utm!Modes, Utm!SetMode(m)
  PROVE  UtmInv'
<1>0. UtmTypes /\ LastTells /\ ViewsFit /\ SettlesLater /\ Followed BY DEF UtmInv
<1> DEFINE ws == {w \in Workers : workers[w].links \cap resolved \cap Touchpoints # {}}
<1>1. /\ mode' = m /\ scopes' = scopes \cup {<<"source", Utm!None>>}
      /\ workers' = Utm!Doom(ws)
      /\ UNCHANGED <<mapping, resolved, links, lead, due, open, raced>>
  BY DEF Utm!SetMode, Utm!Readers
<1>2. /\ workers' \in [Workers -> UtmJob]
      /\ \A w \in Workers :
           /\ workers'[w].stale => workers'[w].busy
           /\ workers'[w].links = workers[w].links /\ workers'[w].mode = workers[w].mode
           /\ workers'[w].held = workers[w].held
           /\ workers[w].stale => workers'[w].stale
           /\ ViewRuns(w)' => ViewRuns(w) /\ w \notin ws
           /\ ViewRuns(w) /\ w \notin ws => ViewRuns(w)'
  BY <1>0, <1>1, DoomedViews
<1>3. \A w \in Workers : w \notin ws <=> workers[w].links \cap resolved = {}
  BY <1>0 DEF UtmTypes
<1>4. UtmTypes'
  <2>1. \A s \in scopes' : UtmScope(s)' BY <1>0, <1>1 DEF UtmTypes, UtmScope
  <2> QED BY <1>0, <1>1, <1>2, <2>1 DEF UtmTypes
<1>5. LastTells' BY <1>0, <1>1 DEF LastTells
<1> HIDE DEF ws
<1>6. ViewsFit' BY <1>0, <1>1, <1>2, <1>3 DEF ViewsFit
<1>7. Utm!Owned' <=> Utm!Owned BY <1>1 DEF Utm!Owned
<1>8. SettlesLater' /\ Followed'
  <2>1. CASE mode' = "disabled" /\ ~Utm!Owned BY <1>7, <2>1, SourceOff
  <2>2. CASE ~(mode' = "disabled" /\ ~Utm!Owned) /\ ~Nothing
    <3>1. <<"source", Utm!None>> \in scopes' BY <1>1
    <3>2. Utm!Reaches(<<"source", Utm!None>>)' BY <1>1, <2>2 DEF Utm!Reaches, Nothing
    <3>3. WakesUp' BY <1>7, <2>2 DEF WakesUp
    <3>4. LookedAt' BY <3>1, <3>2, <3>3 DEF LookedAt
    <3> QED BY <3>4, LookedAtNext
  <2>3. CASE ~(mode' = "disabled" /\ ~Utm!Owned) /\ Nothing
    <3>1. Nothing' BY <1>1, <2>3 DEF Nothing
    <3>2. \A s : Utm!Reaches(s)' <=> Utm!Reaches(s) BY <1>1 DEF Utm!Reaches
    <3>3. WakesUp' BY <1>7, <2>3 DEF WakesUp
    <3>4. \A w \in Workers : ViewCurrent(w) => ViewCurrent(w)'
      BY <1>1, <1>2, <1>3, <2>3, <3>1 DEF ViewCurrent, Nothing
    <3>5. \A w \in Workers : ViewRuns(w)' /\ ~ViewCurrent(w)' => ViewRuns(w) /\ ~ViewCurrent(w)
      BY <1>2, <3>4
    <3>6. LookedAt => LookedAt' BY <1>1, <1>2, <3>2, <3>3, <3>4 DEF LookedAt
    <3>7. Unsettled' => Unsettled BY <1>1, <1>7, <2>3, <3>1 DEF Unsettled, Returnable
    <3>8. NothingToTake => NothingToTake' BY <1>7, <3>1 DEF NothingToTake
    <3>9. SettlesLater' BY <1>0, <1>1, <3>6, <3>7 DEF SettlesLater
    <3>10. (\E w \in Workers : ViewRuns(w)' /\ ~ViewCurrent(w)') =>
             (\E w \in Workers : ViewRuns(w) /\ ~ViewCurrent(w))
      BY <3>5
    <3>11. Followed' BY <1>0, <1>1, <3>6, <3>8, <3>10 DEF Followed
    <3> QED BY <3>9, <3>11
  <2> QED BY <2>1, <2>2, <2>3
<1> QED BY <1>4, <1>5, <1>6, <1>8 DEF UtmInv

\* What was not touched is decided as before.
LEMMA GivenUnchanged ==
  ASSUME NEW val, NEW rec, NEW base, NEW R, NEW M, NEW S, NEW R2, NEW M2,
         S \cap R2 = S \cap R, \A t \in S \cap R : M2[CampaignOf[t]] = M[CampaignOf[t]]
  PROVE  Given(val, rec, base, R2, M2, S) = Given(val, rec, base, R, M, S)
<1>1. S \subseteq R2 <=> S \subseteq R OBVIOUS
<1>2. ReadyOf(R2, M2, S) = ReadyOf(R, M, S) BY DEF ReadyOf
<1>3. \A t \in ReadyOf(R, M, S) : NativeOf(M2, t) = NativeOf(M, t) BY DEF ReadyOf, NativeOf
<1>4. NativesOf(R2, M2, S) = NativesOf(R, M, S) BY <1>2, <1>3 DEF NativesOf
<1>5. TheNative(R2, M2, S) = TheNative(R, M, S) BY <1>4 DEF TheNative
<1> QED BY <1>1, <1>2, <1>4, <1>5 DEF Given

\* What does not concern the lead changes nothing for it.
LEMMA ElsewhereKeeps ==
  ASSUME UtmInv, NEW ws, workers' = Utm!Doom(ws), UNCHANGED <<mode, links, lead, due>>,
         links \cap resolved' = links \cap resolved,
         \A t \in links \cap resolved : mapping'[CampaignOf[t]] = mapping[CampaignOf[t]],
         scopes \subseteq scopes', raced => raced',
         \A w \in Workers : ViewCurrent(w) => w \notin ws
  PROVE  SettlesLater' /\ Followed'
<1>0. UtmTypes /\ LastTells /\ ViewsFit /\ SettlesLater /\ Followed BY DEF UtmInv
<1>1. \A w \in Workers :
        /\ workers'[w].links = workers[w].links /\ workers'[w].mode = workers[w].mode
        /\ workers'[w].held = workers[w].held
        /\ workers[w].stale => workers'[w].stale
        /\ ViewRuns(w)' => ViewRuns(w) /\ w \notin ws
        /\ ViewRuns(w) /\ w \notin ws => ViewRuns(w)'
  BY <1>0, DoomedViews
<1>2. /\ Nothing' <=> Nothing
      /\ Utm!Owned' <=> Utm!Owned
      /\ WakesUp' <=> WakesUp
  BY DEF Nothing, Utm!Owned, WakesUp
<1>3. \A s : Utm!Reaches(s)' <=> Utm!Reaches(s) BY DEF Utm!Reaches
<1>4. \A w \in Workers : ViewCurrent(w) => ViewCurrent(w)' BY <1>1, <1>2 DEF ViewCurrent
<1>5. (\E w \in Workers : ViewRuns(w)' /\ ~ViewCurrent(w)') =>
        (\E w \in Workers : ViewRuns(w) /\ ~ViewCurrent(w))
  BY <1>1, <1>4
<1>6. LookedAt => LookedAt' BY <1>1, <1>2, <1>3, <1>4 DEF LookedAt
<1>7. ~lead.manual /\ mode = "apply" => DecidedNow' = DecidedNow
  <2> SUFFICES ASSUME ~lead.manual, mode = "apply" PROVE DecidedNow' = DecidedNow
    OBVIOUS
  <2>1. links \in SUBSET Touchpoints BY <1>0 DEF UtmTypes
  <2>2. DecidedNow = Given(lead.values, lead.receipt, lead.baseline, resolved, mapping, links)
    BY <2>1, DecisionNow DEF DecidesSo
  <2>3. DecidedNow' = Given(lead.values, lead.receipt, lead.baseline, resolved', mapping', links)
    BY <2>1, DecisionNext DEF DecidesSo
  <2>4. Given(lead.values, lead.receipt, lead.baseline, resolved', mapping', links)
          = Given(lead.values, lead.receipt, lead.baseline, resolved, mapping, links)
    BY GivenUnchanged
  <2> QED BY <2>2, <2>3, <2>4
<1>8. Unsettled' => Unsettled BY <1>2, <1>7 DEF Unsettled, Returnable
<1>9. NothingToTake => NothingToTake' BY <1>2 DEF NothingToTake
<1>10. SettlesLater' BY <1>0, <1>6, <1>8 DEF SettlesLater
<1>11. Followed' BY <1>0, <1>5, <1>6, <1>9 DEF Followed
<1> QED BY <1>10, <1>11

LEMMA MapKeeps ==
  ASSUME UtmInv, NEW c \in Utm!Campaigns, NEW to \in Utm!Campaigns \cup {Utm!Unmapped, Utm!Blocked}, Utm!Map(c, to)
  PROVE  UtmInv'
<1>0. UtmTypes /\ LastTells /\ ViewsFit /\ SettlesLater /\ Followed BY DEF UtmInv
<1> DEFINE ws == {w \in Workers :
                    workers[w].links \cap resolved \cap {t \in Touchpoints : CampaignOf[t] = c} # {}}
<1>1. /\ mapping' = [mapping EXCEPT ![c] = to]
      /\ scopes' = scopes \cup {<<"campaign", c>>}
      /\ workers' = Utm!Doom(ws)
      /\ UNCHANGED <<mode, resolved, links, lead, due, open, raced>>
  BY DEF Utm!Map, Utm!Readers
<1>2. /\ workers' \in [Workers -> UtmJob]
      /\ \A w \in Workers :
           /\ workers'[w].stale => workers'[w].busy
           /\ workers'[w].links = workers[w].links /\ workers'[w].mode = workers[w].mode
           /\ ViewRuns(w)' => ViewRuns(w)
  BY <1>0, <1>1, DoomedViews
<1>3. UtmTypes'
  <2>1. \A s \in scopes' : UtmScope(s)' BY <1>0, <1>1 DEF UtmTypes, UtmScope
  <2>2. mapping' \in [Utm!Campaigns -> Utm!Campaigns \cup {Utm!Unmapped, Utm!Blocked}] BY <1>0, <1>1 DEF UtmTypes
  <2> HIDE DEF ws
  <2> QED BY <1>0, <1>1, <1>2, <2>1, <2>2 DEF UtmTypes
<1>4. LastTells' BY <1>0, <1>1 DEF LastTells
<1>5. ViewsFit' BY <1>0, <1>1, <1>2 DEF ViewsFit
<1>6. Utm!Owned' <=> Utm!Owned BY <1>1 DEF Utm!Owned
<1>7. SettlesLater' /\ Followed'
  <2>1. CASE mode = "disabled" /\ ~Utm!Owned BY <1>1, <1>6, <2>1, SourceOff
  <2>2. CASE ~(mode = "disabled" /\ ~Utm!Owned) /\ \E t \in links \cap resolved : CampaignOf[t] = c
    <3>1. <<"campaign", c>> \in scopes' BY <1>1
    <3>2. Utm!Reaches(<<"campaign", c>>)' BY <1>1, <2>2 DEF Utm!Reaches
    <3>3. WakesUp' BY <1>1, <1>6, <2>2 DEF WakesUp
    <3>4. LookedAt' BY <3>1, <3>2, <3>3 DEF LookedAt
    <3> QED BY <3>4, LookedAtNext
  <2>3. CASE \A t \in links \cap resolved : CampaignOf[t] # c
    <3>1. \A t \in links \cap resolved : mapping'[CampaignOf[t]] = mapping[CampaignOf[t]]
      BY <1>0, <1>1, <2>3 DEF UtmTypes, Utm!Campaigns
    <3>2. \A w \in Workers : ViewCurrent(w) => w \notin ws BY <2>3 DEF ViewCurrent
    <3>3. links \cap resolved' = links \cap resolved /\ scopes \subseteq scopes' /\ (raced => raced')
      BY <1>1
    <3> HIDE DEF ws
    <3> QED BY <1>1, <3>1, <3>2, <3>3, ElsewhereKeeps
  <2> QED BY <2>1, <2>2, <2>3
<1> QED BY <1>3, <1>4, <1>5, <1>7 DEF UtmInv

LEMMA ProjectKeepsUtm ==
  ASSUME UtmInv, NEW o \in open, Utm!Project(o)
  PROVE  UtmInv'
<1>0. UtmTypes /\ LastTells /\ ViewsFit /\ SettlesLater /\ Followed BY DEF UtmInv
<1> DEFINE t == o.touchpoint
           ws == {w \in Workers : t \in workers[w].links}
<1>1. t \in Touchpoints /\ o.sees \in BOOLEAN BY <1>0 DEF UtmTypes
<1>2. /\ resolved' = IF t \in resolved THEN resolved \ {t} ELSE resolved \cup {t}
      /\ scopes' = IF o.sees \/ Utm!Owned THEN scopes \cup {<<"touchpoint", t>>} ELSE scopes
      /\ raced' = (raced \/ (mode # "disabled" /\ ~o.sees /\ ~Utm!Owned))
      /\ workers' = Utm!Doom(ws) /\ open' = {}
      /\ UNCHANGED <<mode, mapping, links, lead, due>>
  BY DEF Utm!Project
<1> HIDE DEF t
<1>3. /\ workers' \in [Workers -> UtmJob]
      /\ \A w \in Workers :
           /\ workers'[w].stale => workers'[w].busy
           /\ workers'[w].links = workers[w].links /\ workers'[w].mode = workers[w].mode
           /\ ViewRuns(w)' => ViewRuns(w) /\ w \notin ws
  BY <1>0, <1>2, DoomedViews
<1>4. UtmTypes'
  <2>1. \A s \in scopes' : UtmScope(s)' BY <1>0, <1>1, <1>2 DEF UtmTypes, UtmScope
  <2>2. resolved' \subseteq Touchpoints BY <1>0, <1>1, <1>2 DEF UtmTypes
  <2> HIDE DEF ws
  <2> QED BY <1>0, <1>2, <1>3, <2>1, <2>2 DEF UtmTypes
<1>5. LastTells' BY <1>0, <1>2 DEF LastTells
<1>6. ViewsFit'
  <2>1. \A w \in Workers : w \notin ws => workers[w].links \cap resolved' = workers[w].links \cap resolved
    BY <1>2
  <2> QED BY <1>0, <1>2, <1>3, <2>1 DEF ViewsFit
<1>7. Utm!Owned' <=> Utm!Owned BY <1>2 DEF Utm!Owned
<1>8. SettlesLater' /\ Followed'
  <2>1. CASE mode = "disabled" /\ ~Utm!Owned BY <1>2, <1>7, <2>1, SourceOff
  <2>2. CASE mode # "disabled" /\ ~(o.sees \/ Utm!Owned)
    BY <1>2, <2>2 DEF SettlesLater, Followed
  <2>3. CASE ~(mode = "disabled" /\ ~Utm!Owned) /\ (o.sees \/ Utm!Owned) /\ t \in links
    <3>1. <<"touchpoint", t>> \in scopes' BY <1>2, <2>3
    <3>2. Utm!Reaches(<<"touchpoint", t>>)' BY <1>2, <2>3 DEF Utm!Reaches
    <3>3. WakesUp' BY <1>2, <1>7, <2>3 DEF WakesUp
    <3>4. LookedAt' BY <3>1, <3>2, <3>3 DEF LookedAt
    <3> QED BY <3>4, LookedAtNext
  <2>4. CASE t \notin links
    <3>1. links \cap resolved' = links \cap resolved BY <1>2, <2>4
    <3>2. \A w \in Workers : ViewCurrent(w) => w \notin ws BY <2>4 DEF ViewCurrent
    <3>3. \A p \in links \cap resolved : mapping'[CampaignOf[p]] = mapping[CampaignOf[p]] BY <1>2
    <3>4. scopes \subseteq scopes' /\ (raced => raced') BY <1>2
    <3> HIDE DEF ws
    <3> QED BY <1>2, <3>1, <3>2, <3>3, <3>4, ElsewhereKeeps
  <2> QED BY <2>1, <2>2, <2>3, <2>4
<1> QED BY <1>4, <1>5, <1>6, <1>8 DEF UtmInv

LEMMA ClassifyKeeps ==
  ASSUME UtmInv, NEW w \in Workers, Utm!Classify(w)
  PROVE  UtmInv'
<1>0. UtmTypes /\ LastTells /\ ViewsFit /\ SettlesLater /\ Followed BY DEF UtmInv
<1> DEFINE v == Utm!Decide(workers[w].links, workers[w].mode, workers[w].held)
           new == Utm!Creates(v)
           jobs == IF lead' = lead THEN workers ELSE Utm!Everyone
<1>1. /\ lead' = Utm!Recorded(v)
      /\ mapping' = [c \in Utm!Campaigns |-> IF c \in new THEN c ELSE mapping[c]]
      /\ scopes' = scopes \cup {<<"campaign", c>> : c \in new}
      /\ workers' = [jobs EXCEPT ![w] = Utm!Idle]
      /\ open' = IF lead' = lead THEN open ELSE {}
      /\ raced' = (raced \/ (lead' = lead /\ Utm!Overlooks(w)))
      /\ UNCHANGED <<mode, resolved, links, due>>
  BY DEF Utm!Classify
<1>2. ViewRuns(w) BY DEF Utm!Classify, ViewRuns
<1>3. workers \in [Workers -> UtmJob] /\ lead \in UtmLead BY <1>0 DEF UtmTypes
<1>4. workers[w].links \in SUBSET Touchpoints /\ workers[w].held \in BOOLEAN /\ workers[w].mode \in Utm!Modes
  BY <1>0, <1>2, <1>3 DEF ViewsFit, UtmJob
<1>5. v.after \in Tuples /\ v.state \in UtmStates /\ v.points \in SUBSET Touchpoints
  BY <1>0, <1>4, DecisionFits
<1>6. new \subseteq Utm!Campaigns
  <2> HIDE DEF v
  <2> QED BY <1>5 DEF Utm!Creates, Utm!Campaigns
<1>7. lead' \in UtmLead /\ (lead'.receipt # Utm!NoReceipt => lead'.baseline # Utm!None)
  <2> HIDE DEF v
  <2> QED BY <1>0, <1>1, <1>5, RecordedFits
<1> HIDE DEF v, new
<1>8. Utm!Idle \in UtmJob /\ ~Utm!Idle.busy /\ ~Utm!Idle.stale BY DEF Utm!Idle, UtmJob, Utm!Modes
<1>9. jobs \in [Workers -> UtmJob]
  <2>1. Utm!Doom(Workers) \in [Workers -> UtmJob] BY <1>3, DoomIs
  <2> QED BY <1>3, <2>1 DEF Utm!Everyone
<1>10. /\ workers' \in [Workers -> UtmJob] /\ workers'[w] = Utm!Idle
       /\ \A x \in Workers \ {w} : workers'[x] = jobs[x]
  <2> HIDE DEF jobs
  <2> QED BY <1>1, <1>8, <1>9
<1>11. UtmTypes'
  <2>1. \A s \in scopes' : UtmScope(s)' BY <1>0, <1>1, <1>6 DEF UtmTypes, UtmScope
  <2>2. mapping' \in [Utm!Campaigns -> Utm!Campaigns \cup {Utm!Unmapped, Utm!Blocked}] BY <1>0, <1>1, <1>6 DEF UtmTypes
  <2>3. open' \subseteq open BY <1>1
  <2>4. UNCHANGED <<mode, resolved, links, due>> BY <1>1
  <2> HIDE DEF jobs
  <2> QED BY <1>0, <1>7, <1>10, <2>1, <2>2, <2>3, <2>4 DEF UtmTypes
<1>12. LastTells'
  <2>1. CASE lead' = lead BY <1>0, <2>1 DEF LastTells
  <2>2. CASE lead' # lead
    <3>1. lead.last # ReceiptOf(v) BY <1>1, <1>3, <2>2, RecordedIs
    <3>2. lead'.values = v.after /\ lead'.state = v.state /\ lead'.last = ReceiptOf(v)
      BY <1>1, <1>3, <3>1, RecordedIs
    <3>3. ReceiptOf(v).after = v.after /\ ReceiptOf(v).state = v.state BY DEF ReceiptOf
    <3> QED BY <3>2, <3>3 DEF LastTells
  <2> QED BY <2>1, <2>2
<1>13. lead' = lead => \A x \in Workers \ {w} : workers'[x] = workers[x] BY <1>10
<1>14. lead' # lead => \A x \in Workers \ {w} :
         /\ workers[x].busy => workers'[x].busy /\ workers'[x].stale
         /\ ~workers[x].busy => ~workers'[x].busy /\ ~workers'[x].stale
  <2> SUFFICES ASSUME lead' # lead, NEW x \in Workers \ {w}
               PROVE  /\ workers[x].busy => workers'[x].busy /\ workers'[x].stale
                      /\ ~workers[x].busy => ~workers'[x].busy /\ ~workers'[x].stale
    OBVIOUS
  <2>1. workers'[x] = Utm!Doom(Workers)[x] BY <1>10 DEF Utm!Everyone
  <2>2. workers[x].busy \in BOOLEAN /\ workers[x].stale \in BOOLEAN /\ (workers[x].stale => workers[x].busy)
    BY <1>0, <1>3 DEF UtmJob, ViewsFit
  <2>3. Utm!Doom(Workers)[x].busy = workers[x].busy
        /\ (Utm!Doom(Workers)[x].stale <=> workers[x].stale \/ (workers[x].busy /\ x \in Workers))
    BY <1>3, DoomIs
  <2> QED BY <2>1, <2>2, <2>3
<1> HIDE DEF jobs
<1>15. ViewsFit'
  <2> SUFFICES ASSUME NEW x \in Workers
               PROVE  /\ workers'[x].stale => workers'[x].busy
                      /\ ViewRuns(x)' => /\ workers'[x].links \subseteq links' /\ workers'[x].mode \in Utm!Modes
                                         /\ workers'[x].mode # mode' => workers'[x].links \cap resolved' = {}
    BY DEF ViewsFit
  <2>1. CASE x = w BY <1>8, <1>10, <2>1 DEF ViewRuns
  <2>2. CASE x # w /\ lead' = lead
    <3>1. workers'[x] = workers[x] BY <1>13, <2>2
    <3>2. UNCHANGED <<mode, resolved, links>> BY <1>1
    <3> QED BY <1>0, <3>1, <3>2 DEF ViewsFit, ViewRuns
  <2>3. CASE x # w /\ lead' # lead BY <1>0, <1>14, <2>3 DEF ViewsFit, ViewRuns
  <2> QED BY <2>1, <2>2, <2>3
<1>16. lead'.manual = lead.manual /\ lead'.held = lead.held
  BY <1>1, <1>3, RecordedIs
<1>17. SettlesLater' /\ Followed'
  <2>1. CASE lead.manual \/ lead.held \/ raced'
    BY <1>16, <2>1 DEF SettlesLater, Followed, Unsettled
  <2>2. CASE ~lead.manual /\ ~lead.held /\ ~raced' /\ lead' # lead /\ \E x \in Workers \ {w} : workers[x].busy
    <3>1. LookedAt' BY <1>14, <2>2 DEF LookedAt
    <3> QED BY <3>1, LookedAtNext
  <2>3. CASE ~lead.manual /\ ~lead.held /\ ~raced'
             /\ ~(lead' # lead /\ \E x \in Workers \ {w} : workers[x].busy)
             /\ ~ViewCurrent(w) /\ NothingToTake
    <3>1. NothingToTake' /\ ~Unsettled' BY <1>0, <2>3, NothingTaken
    <3> QED BY <3>1 DEF SettlesLater, Followed
  <2>4. CASE ~lead.manual /\ ~lead.held /\ ~raced'
             /\ ~(lead' # lead /\ \E x \in Workers \ {w} : workers[x].busy)
             /\ ~ViewCurrent(w) /\ ~NothingToTake
    <3>1. LookedAt
      <4>1. ~raced BY <1>1, <2>4
      <4> QED BY <1>0, <1>2, <2>4, <4>1 DEF Followed
    <3>2. LookedAt'
      <4>1. CASE due BY <1>1, <4>1 DEF LookedAt
      <4>2. CASE WakesUp /\ \E s \in scopes : Utm!Reaches(s)
        <5>1. PICK s \in scopes : Utm!Reaches(s) BY <4>2
        <5>2. s \in scopes' /\ Utm!Reaches(s)' BY <1>1, <5>1 DEF Utm!Reaches
        <5>3. WakesUp'
          <6>1. CASE mode # "disabled" BY <1>1, <6>1 DEF WakesUp
          <6>2. CASE Utm!Owned
            <7>1. Utm!Owned' 
              <8>1. lead'.receipt \in {lead.receipt, [after |-> v.after, before |-> lead.values]}
                BY <1>1, <1>3, RecordedIs
              <8>2. v.after # Utm!None
                BY <1>5, UtmBounds DEF Utm!UtmConstants, Tuples, Utm!None, Utm!Empty, Utm!Own, Utm!Unmapped,
                                       Utm!Blocked
              <8>3. [after |-> v.after, before |-> lead.values] # Utm!NoReceipt BY <8>2 DEF Utm!NoReceipt
              <8> QED BY <6>2, <8>1, <8>3 DEF Utm!Owned, Utm!NoReceipt
            <7> QED BY <7>1 DEF WakesUp
          <6> QED BY <4>2, <6>1, <6>2 DEF WakesUp
        <5> QED BY <5>2, <5>3 DEF LookedAt
      <4>3. CASE \E x \in Workers : workers[x].stale \/ ViewCurrent(x)
        <5>1. PICK x \in Workers : workers[x].stale \/ ViewCurrent(x) BY <4>3
        <5>2. x # w /\ workers[x].busy BY <1>0, <1>2, <2>4, <5>1 DEF ViewsFit, ViewCurrent, ViewRuns
        <5>3. lead' = lead BY <2>4, <5>2
        <5>4. workers'[x] = workers[x] BY <1>13, <5>2, <5>3
        <5>5. workers'[x].stale \/ ViewCurrent(x)'
          BY <1>1, <5>1, <5>4 DEF ViewCurrent, ViewRuns, Nothing
        <5> QED BY <5>5 DEF LookedAt
      <4> QED BY <3>1, <4>1, <4>2, <4>3 DEF LookedAt
    <3> QED BY <3>2, LookedAtNext
  <2>5. CASE ~lead.manual /\ ~lead.held /\ ~raced'
             /\ ~(lead' # lead /\ \E x \in Workers \ {w} : workers[x].busy)
             /\ ViewCurrent(w)
    <3>1. ~Unsettled' BY <1>0, <2>5, CurrentJobSettles
    <3>2. ~ \E x \in Workers : ViewRuns(x)' /\ ~ViewCurrent(x)'
      <4> SUFFICES ASSUME NEW x \in Workers, ViewRuns(x)' PROVE ViewCurrent(x)'
        OBVIOUS
      <4>1. x # w BY <1>8, <1>10 DEF ViewRuns
      <4>2. workers[x].busy /\ lead' = lead BY <1>13, <1>14, <2>5, <4>1 DEF ViewRuns
      <4>3. workers'[x] = workers[x] BY <1>13, <4>1, <4>2
      <4>4. ~Utm!Overlooks(w) BY <1>1, <2>5, <4>2
      <4>5. workers[x].links = workers[w].links /\ workers[x].held = workers[w].held
        BY <4>1, <4>2, <4>4 DEF Utm!Overlooks
      <4>6. ViewRuns(x) BY <4>3 DEF ViewRuns
      <4>7. ViewCurrent(x)
        BY <1>0, <2>5, <4>5, <4>6 DEF ViewCurrent, ViewsFit, Nothing
      <4> QED BY <1>1, <4>3, <4>7 DEF ViewCurrent, ViewRuns, Nothing
    <3> QED BY <3>1, <3>2 DEF SettlesLater, Followed
  <2> QED BY <2>1, <2>2, <2>3, <2>4, <2>5
<1> QED BY <1>11, <1>12, <1>15, <1>17 DEF UtmInv

LEMMA UtmInit ==
  ASSUME Utm!Init
  PROVE  UtmInv
<1>1. lead \in UtmLead /\ lead.receipt = Utm!NoReceipt /\ lead.last = Utm!NoLast
  BY DEF Utm!Init, UtmLead, UtmStates, Receipts, LastReceipts, Utm!NoReceipt, Utm!NoLast, Tuples
<1>2. Utm!Idle \in UtmJob /\ ~Utm!Idle.busy /\ ~Utm!Idle.stale BY DEF Utm!Idle, UtmJob, Utm!Modes
<1>3. UtmTypes BY <1>1, <1>2 DEF Utm!Init, UtmTypes, Utm!Modes
<1>4. LastTells BY <1>1 DEF LastTells
<1>5. ViewsFit BY <1>2 DEF Utm!Init, ViewsFit, ViewRuns
<1>6. ~Unsettled BY <1>1 DEF Utm!Init, Unsettled, Nothing, Returnable, Utm!Owned
<1>7. ~ \E w \in Workers : ViewRuns(w) BY <1>2 DEF Utm!Init, ViewRuns
<1> QED BY <1>3, <1>4, <1>5, <1>6, <1>7 DEF UtmInv, SettlesLater, Followed

LEMMA UtmNext ==
  ASSUME UtmInv, Utm!Next
  PROVE  UtmInv'
<1>1. CASE \E w \in Workers : Utm!Begin(w) \/ Utm!Retry(w) \/ Utm!Classify(w)
  BY <1>1, BeginKeepsUtm, RetryKeepsUtm, ClassifyKeeps
<1>2. CASE \E t \in Touchpoints : Utm!Open("link", t) \/ Utm!Open("project", t) \/ Utm!Revoke(t)
  BY <1>2, OpenKeepsUtm, RevokeKeeps
<1>3. CASE \E o \in open : Utm!Link(o) \/ Utm!Project(o) BY <1>3, LinkKeepsUtm, ProjectKeepsUtm
<1>4. CASE \E m \in Utm!Modes : Utm!SetMode(m) BY <1>4, SetModeKeeps
<1>5. CASE \E c \in Utm!Campaigns, to \in Utm!Campaigns \cup {Utm!Unmapped, Utm!Blocked} : Utm!Map(c, to)
  BY <1>5, MapKeeps
<1>6. CASE \E s \in scopes : Utm!Reconcile(s) BY <1>6, ReconcileKeeps
<1>7. CASE (\E v \in {Utm!Empty, Utm!Own} : Utm!Edit(v)) \/ Utm!Revert BY <1>7, PeopleKeep
<1>8. CASE Utm!Hold \/ Utm!Release BY <1>8, HoldReleaseKeep
<1> QED BY <1>1, <1>2, <1>3, <1>4, <1>5, <1>6, <1>7, <1>8 DEF Utm!Next

LEMMA UtmSame ==
  ASSUME UtmInv, UNCHANGED Utm!vars
  PROVE  UtmInv'
<1>1. UNCHANGED <<mode, mapping, resolved, links, lead, due, scopes, workers, raced>> /\ UNCHANGED open
  BY DEF Utm!vars
<1>2. UtmTypes' BY <1>1 DEF UtmInv, UtmTypes, UtmScope
<1> QED BY <1>1, <1>2, SameKeeps DEF UtmInv

\* Nothing left to run, and nobody looked away: the lead shows what is decided.
LEMMA UtmShows ==
  ASSUME UtmInv
  PROVE  Utm!UtmTypeOK /\ Utm!ClassificationSettles
<1>0. UtmTypes /\ ViewsFit /\ SettlesLater BY DEF UtmInv
<1>1. Utm!Cardinality(open) <= 1
  <2>1. CASE open = {} BY <2>1, FS_EmptySet, EventSizes
  <2>2. CASE open # {}
    <3>1. PICK o : o \in open BY <2>2
    <3>2. open = {o} BY <1>0, <3>1 DEF UtmTypes
    <3>3. Utm!Cardinality(open) = 1 BY <3>2, FS_Singleton, EventSizes
    <3> QED BY <3>3
  <2> QED BY <2>1, <2>2
<1>2. Utm!UtmTypeOK BY <1>0, <1>1 DEF Utm!UtmTypeOK, UtmTypes, UtmLead, Tuples
<1>3. Utm!ClassificationSettles
  <2> SUFFICES ASSUME Utm!AtRest, ~raced, ~lead.held, ~lead.manual, ~Utm!Paused, DecidedNow # lead.values
               PROVE  FALSE
    BY DEF Utm!ClassificationSettles, DecidedNow
  <2>1. links \in SUBSET Touchpoints /\ mode \in Utm!Modes BY <1>0 DEF UtmTypes
  <2>2. mode = "apply"
    <3>1. mode \in {"disabled", "simulate"} => DecidedNow = lead.values
      BY <2>1, QuietModes DEF DecidedNow
    <3> QED BY <2>1, <3>1 DEF Utm!Modes
  <2>3. Unsettled
    <3>1. CASE ~Nothing BY <2>2, <3>1 DEF Unsettled
    <3>2. CASE Nothing
      <4>1. links = {} \/ ~(links \subseteq resolved) BY <3>2 DEF Nothing
      <4>2. DecidedNow = GivenBack(lead.values, lead.receipt, lead.baseline)
        BY <2>1, <2>2, <4>1, DecisionNow DEF DecidesSo, Given
      <4>3. Returnable BY <4>2 DEF GivenBack, Returnable, Utm!Owned
      <4>4. lead.state \notin {"disabled", "simulation"} BY <3>2 DEF Utm!Paused, Nothing
      <4> QED BY <3>2, <4>3, <4>4 DEF Unsettled
    <3> QED BY <3>1, <3>2
  <2>4. LookedAt BY <1>0, <2>3 DEF SettlesLater
  <2> QED BY <1>0, <2>4 DEF LookedAt, Utm!AtRest, ViewsFit, ViewCurrent, ViewRuns
<1> QED BY <1>2, <1>3

------------------------------------------------------------------------------
\* The parts together: the chosen one takes a step of its own, the others rest.
CrmEventsInv ==
  part \in Parts /\ EventsInv /\ ToldInv /\ UtmInv /\ SaleInv

LEMMA CrmEventsInit == MCInit => CrmEventsInv
BY EventsInitInv, ToldInitInv, UtmInit, SaleInitInv DEF MCInit, CrmEventsInv

LEMMA CrmEventsNext == CrmEventsInv /\ [MCNext]_vars => CrmEventsInv'
<1> SUFFICES ASSUME CrmEventsInv, [MCNext]_vars PROVE CrmEventsInv'
  OBVIOUS
<1>1. part' = part
  BY DEF MCNext, vars
<1>2. [Events!Next]_(Events!vars)
  BY DEF MCNext, vars, ofEvents, Events!vars
<1>3. [Told!Next]_(Told!vars)
  BY DEF MCNext, vars, ofTold, Told!vars
<1>4. [Sale!Next]_(Sale!vars)
  BY DEF MCNext, vars, ofSale, Sale!vars, Sale!policies, Sale!graph
<1>5. EventsInv'
  BY <1>2, EventsNextInv DEF CrmEventsInv
<1>6. ToldInv'
  BY <1>3, ToldNextInv DEF CrmEventsInv
<1>7. SaleInv'
  BY <1>4, SaleNextInv DEF CrmEventsInv
<1>8. UtmInv'
  <2>1. Utm!Next \/ UNCHANGED Utm!vars
    BY DEF MCNext, vars, ofUtm, Utm!vars
  <2> QED BY <2>1, UtmNext, UtmSame DEF CrmEventsInv
<1> QED BY <1>1, <1>5, <1>6, <1>7, <1>8 DEF CrmEventsInv

LEMMA CrmEventsHolds == MCSpec => []CrmEventsInv
BY CrmEventsInit, CrmEventsNext, PTL DEF MCSpec

\* A stage change or a loss of a lead is one event, whether capture reported it
\* or the backfill imported it, and what lies behind the backfill's cursor is
\* reported; an order's confirmations and cancellations are counted once, live or
\* imported, its revenue follows them, and its leads see what capture reported,
\* but for what they missed while CRM events were not captured and that nothing
\* has looked at since; what is told twice in a row of a touchpoint is one revision
\* (business_event_backfill.py, crm_lead.py, sale_order.py, service.py and
\* links.py of the sale module, attribution.py).
THEOREM CrmEventsCountOnce == MCSpec => []EventsCountOnce
<1>1. CrmEventsInv => EventsCountOnce
  BY EventsGive, SaleGive, ToldGive DEF CrmEventsInv, EventsCountOnce
<1> QED BY <1>1, CrmEventsHolds, PTL

\* What is told twice in a row of a touchpoint is one revision, and an erasure
\* reaches every revision but those told while it ran; a row of the projection
\* that is not what the ledger and the catalog say is one that the cron takes
\* up (attribution.py, attribution_resolution.py).
THEOREM CrmProjectionHeals ==
  MCSpec => [](part = "told" => Told!RevisionsAreTold /\ Told!ProjectionHeals)
<1>1. CrmEventsInv => Told!RevisionsAreTold /\ Told!ProjectionHeals
  BY ToldGive DEF CrmEventsInv
<1> QED BY <1>1, CrmEventsHolds, PTL

\* With no job, no transaction, no scope and no cron left, the native campaign of
\* a lead that nobody took over is the one its links, its mappings and the mode
\* of its source give now, whatever overlapped, and the projection of what was
\* told heals (native_utm.py of the base and its crm module,
\* attribution_resolution.py).
THEOREM CrmClassificationSettles == MCSpec => []ClassificationSettles
<1>1. CrmEventsInv => ClassificationSettles
  BY UtmShows, ToldGive DEF CrmEventsInv, ClassificationSettles
<1> QED BY <1>1, CrmEventsHolds, PTL

\* The rows of every part have their types, whoever writes them.
THEOREM CrmTypes == MCSpec => []TypesOK
<1>1. CrmEventsInv =>
        /\ part \in Parts /\ Events!EventsTypeOK /\ Told!LedgerTypeOK /\ Sale!SaleTypeOK
        /\ Utm!UtmTypeOK
  BY EventsGive, ToldGive, SaleGive, UtmShows DEF CrmEventsInv
<1>2. CrmEventsInv /\ CrmCreditInv => TypesOK
  <2> SUFFICES ASSUME CrmEventsInv, CrmCreditInv PROVE TypesOK
    OBVIOUS
  <2>1. CASE part = "events"
    BY <1>1, <2>1 DEF TypesOK
  <2>2. CASE part = "told"
    BY <1>1, <2>2 DEF TypesOK
  <2>3. CASE part = "sale"
    BY <1>1, <2>3 DEF TypesOK
  <2>4. CASE part = "utm"
    BY <1>1, <2>4 DEF TypesOK
  <2>5. CASE part = "steps"
    BY CrmCreditGives, <2>5 DEF TypesOK
  <2>6. CASE part = "lookup"
    BY CrmCreditGives, <2>6 DEF TypesOK
  <2>7. CASE part = "admit"
    BY CrmCreditGives, <2>7 DEF TypesOK
  <2>8. CASE part = "converge"
    BY CrmCreditGives, <2>8 DEF TypesOK
  <2>9. CASE part = "credit"
    BY CrmCreditGives, <2>9 DEF TypesOK
  <2>10. CASE part = "calc"
    BY CrmCreditGives, <2>10 DEF TypesOK
  <2> QED BY <1>1, <2>1, <2>2, <2>3, <2>4, <2>5, <2>6, <2>7, <2>8, <2>9, <2>10 DEF Parts
<1> QED BY <1>2, CrmEventsHolds, CrmCreditHolds, PTL

==============================================================================
