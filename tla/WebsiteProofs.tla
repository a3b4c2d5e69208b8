---------------------------- MODULE WebsiteProofs ----------------------------
(* Proofs about the Website addons (MCWebsite): for every value of the       *)
(* constants, what each part promises of its rows holds in every state.      *)
(* Each part has an inductive invariant of its own, proved of its Init and   *)
(* its Next; the last section composes them, since a part that is not chosen *)
(* does not move.                                                            *)
EXTENDS MCWebsite, TLAPS, FiniteSetTheorems, WellFoundedInduction

------------------------------------------------------------------------------
\* WhatsappClicks: the references of one handoff.
ClickRow ==
  [event : ClickEvents \cup {"none"}, refs : SUBSET ClickEvents, recent : BOOLEAN, writes : Nat]
ClickRequest ==
  [at : {"claim", "event", "session"}, event : ClickEvents, seen : [Handoffs -> ClickRow]]
ClicksTypes ==
  /\ clicks \in [Handoffs -> ClickRow]
  /\ clickers \in [Clickers -> ClickRequest \cup {Click!Idle}]
  /\ eventLock \in [ClickEvents -> Clickers \cup {Click!Nobody}] /\ sessionLock \in Clickers \cup {Click!Nobody}
  /\ clickAnswers \subseteq ClickEvents \X Handoffs

\* The row version PostgreSQL compares counts its writes: a row of the same
\* version holds what the snapshot shows.
VersionsTell ==
  \A c \in Clickers, h \in Handoffs : clickers[c] # Click!Idle =>
    /\ clickers[c].seen[h].writes <= clicks[h].writes
    /\ clickers[c].seen[h].refs \subseteq clicks[h].refs
    /\ clickers[c].seen[h].writes = clicks[h].writes =>
         clickers[c].seen[h].refs = clicks[h].refs

ClicksInv == ClicksTypes /\ VersionsTell /\ Click!AliasesAreKept

LEMMA ClicksInitInv == Click!Init => ClicksInv
<1> SUFFICES ASSUME Click!Init PROVE ClicksInv
  OBVIOUS
<1>1. Click!NoRow \in ClickRow
  BY DEF Click!NoRow, ClickRow
<1> QED BY <1>1 DEF Click!Init, ClicksInv, ClicksTypes, VersionsTell, Click!AliasesAreKept

\* A request that begins, or runs again, sees the rows as they are.
LEMMA ClickSees ==
  ASSUME ClicksInv, NEW c \in Clickers, NEW request \in ClickRequest,
         request.seen = clicks, Click!Step(c, request),
         UNCHANGED <<clicks, clickAnswers>>,
         eventLock' \in [ClickEvents -> Clickers \cup {Click!Nobody}], sessionLock' \in Clickers \cup {Click!Nobody}
  PROVE  ClicksInv'
<1>1. clickers' = [clickers EXCEPT ![c] = request]
  BY DEF Click!Step
<1>2. ClicksTypes' /\ Click!AliasesAreKept'
  BY <1>1 DEF ClicksInv, ClicksTypes, Click!AliasesAreKept
<1>3. VersionsTell'
  <2>1. \A h \in Handoffs : clicks[h].writes \in Nat
    BY DEF ClicksInv, ClicksTypes, ClickRow
  <2> QED BY <1>1, <2>1 DEF ClicksInv, ClicksTypes, VersionsTell
<1> QED BY <1>2, <1>3 DEF ClicksInv

\* A request that takes a lock keeps its snapshot.
LEMMA ClickLocks ==
  ASSUME ClicksInv, NEW c \in Clickers, Click!LockEvent(c) \/ Click!LockSession(c)
  PROVE  ClicksInv'
<1>1. PICK at \in {"event", "session"} : Click!Step(c, [clickers[c] EXCEPT !.at = at])
  BY DEF Click!LockEvent, Click!LockSession
<1> DEFINE request == [clickers[c] EXCEPT !.at = at]
<1>2. clickers[c] \in ClickRequest /\ clickers[c] # Click!Idle
  BY DEF ClicksInv, ClicksTypes, Click!LockEvent, Click!LockSession, Click!Idle
<1>3. /\ request \in ClickRequest /\ request.seen = clickers[c].seen
      /\ clickers' = [clickers EXCEPT ![c] = request]
  BY <1>1, <1>2 DEF ClickRequest, Click!Step
<1> HIDE DEF request
<1>4. UNCHANGED <<clicks, clickAnswers>>
  BY DEF Click!LockEvent, Click!LockSession
<1>5. ClicksTypes'
  BY <1>2, <1>3, <1>4 DEF ClicksInv, ClicksTypes, Click!LockEvent, Click!LockSession, ClickRequest
<1>6. VersionsTell' /\ Click!AliasesAreKept'
  BY <1>2, <1>3, <1>4 DEF ClicksInv, ClicksTypes, VersionsTell, Click!AliasesAreKept
<1> QED BY <1>5, <1>6 DEF ClicksInv

LEMMA ClickEnds ==
  ASSUME ClicksTypes, NEW c \in Clickers, Click!Ends(c)
  PROVE  eventLock' \in [ClickEvents -> Clickers \cup {Click!Nobody}] /\ sessionLock' \in Clickers \cup {Click!Nobody}
BY DEF ClicksTypes, Click!Ends

\* A row is written: under the next version, with its earlier references; the
\* others still have the earlier version in their snapshots.
LEMMA ClickWrites ==
  ASSUME ClicksInv, NEW c \in Clickers, NEW h \in Handoffs, NEW row \in ClickRow,
         clicks' = [clicks EXCEPT ![h] = row], row.writes = clicks[h].writes + 1,
         clicks[h].refs \subseteq row.refs, clickers[c].event \in row.refs,
         clickers[c].event \in ClickEvents, Click!Answer(c, h)
  PROVE  ClicksInv'
<1>1. /\ clicks' \in [Handoffs -> ClickRow] /\ clicks'[h] = row
      /\ \A g \in Handoffs \ {h} : clicks'[g] = clicks[g]
  BY DEF ClicksInv, ClicksTypes
<1>2. /\ clickers' = [clickers EXCEPT ![c] = Click!Idle]
      /\ clickAnswers' = clickAnswers \cup {<<clickers[c].event, h>>}
  BY DEF Click!Answer, Click!Step
<1>3. ClicksTypes'
  BY <1>1, <1>2, ClickEnds DEF ClicksInv, ClicksTypes, Click!Answer
<1>4. VersionsTell'
  <2> SUFFICES ASSUME NEW d \in Clickers, NEW g \in Handoffs, clickers'[d] # Click!Idle
               PROVE  /\ clickers'[d].seen[g].writes <= clicks'[g].writes
                      /\ clickers'[d].seen[g].refs \subseteq clicks'[g].refs
                      /\ clickers'[d].seen[g].writes = clicks'[g].writes =>
                           clickers'[d].seen[g].refs = clicks'[g].refs
    BY DEF VersionsTell
  <2>1. d # c /\ clickers'[d] = clickers[d] /\ clickers[d] \in ClickRequest
    BY <1>2 DEF ClicksInv, ClicksTypes
  <2>2. /\ clickers[d].seen[g].writes <= clicks[g].writes
        /\ clickers[d].seen[g].refs \subseteq clicks[g].refs
        /\ clickers[d].seen[g].writes = clicks[g].writes =>
             clickers[d].seen[g].refs = clicks[g].refs
    BY <2>1 DEF ClicksInv, VersionsTell
  <2>3. clickers[d].seen[g].writes \in Nat /\ clicks[g].writes \in Nat
    BY <2>1 DEF ClicksInv, ClicksTypes, ClickRequest, ClickRow
  <2> QED BY <1>1, <2>1, <2>2, <2>3
<1>5. Click!AliasesAreKept'
  <2> SUFFICES ASSUME NEW a \in clickAnswers' PROVE a[1] \in clicks'[a[2]].refs
    BY DEF Click!AliasesAreKept
  <2>1. CASE a \in clickAnswers
    <3>1. a[1] \in clicks[a[2]].refs /\ a[2] \in Handoffs
      BY <2>1 DEF ClicksInv, ClicksTypes, Click!AliasesAreKept
    <3> QED BY <1>1, <3>1
  <2>2. CASE a = <<clickers[c].event, h>>
    BY <1>1, <2>2
  <2> QED BY <1>2, <2>1, <2>2
<1> QED BY <1>3, <1>4, <1>5 DEF ClicksInv

\* An answer to an event that the snapshot already has: its row has it still.
LEMMA ClickRests ==
  ASSUME ClicksInv, NEW c \in Clickers, Click!Step(c, Click!Idle), Click!Ends(c), UNCHANGED clicks,
         clickAnswers' \subseteq ClickEvents \X Handoffs,
         \A a \in clickAnswers' : a \in clickAnswers \/ a[1] \in clicks[a[2]].refs
  PROVE  ClicksInv'
<1>1. clickers' = [clickers EXCEPT ![c] = Click!Idle]
  BY DEF Click!Step
<1>2. ClicksTypes'
  BY <1>1, ClickEnds DEF ClicksInv, ClicksTypes
<1>3. VersionsTell' /\ Click!AliasesAreKept'
  BY <1>1 DEF ClicksInv, ClicksTypes, VersionsTell, Click!AliasesAreKept
<1> QED BY <1>2, <1>3 DEF ClicksInv

\* A request that answers leaves its event on the row it answered with.
LEMMA ClickAnswered ==
  ASSUME ClicksInv, NEW c \in Clickers, Click!Repeat(c) \/ Click!Reuse(c) \/ Click!Insert(c) PROVE ClicksInv'
<1>1. clickers[c] \in ClickRequest /\ clickers[c] # Click!Idle
  <2>1. clickers[c].at = "event" \/ clickers[c].at = "session"
    BY Zenon DEF Click!Repeat, Click!Reuse, Click!Insert
  <2> QED BY <2>1 DEF ClicksInv, ClicksTypes, Click!Idle
<1>2. clickers[c].event \in ClickEvents /\ clickers[c].seen \in [Handoffs -> ClickRow]
  BY <1>1 DEF ClickRequest
<1>3. CASE Click!Repeat(c)
  <2>1. PICK h \in Click!Existing(clickers[c].seen, clickers[c].event) : Click!Answer(c, h)
    BY <1>3 DEF Click!Repeat
  <2>2. h \in Handoffs /\ clickers[c].event \in clicks[h].refs
    BY <1>1, <2>1 DEF Click!Existing, ClicksInv, VersionsTell
  <2>3. clickAnswers' = clickAnswers \cup {<<clickers[c].event, h>>}
    BY <2>1 DEF Click!Answer
  <2>4. clickAnswers' \subseteq ClickEvents \X Handoffs
    BY <1>2, <2>2, <2>3 DEF ClicksInv, ClicksTypes
  <2>5. \A a \in clickAnswers' : a \in clickAnswers \/ a[1] \in clicks[a[2]].refs
    BY <2>2, <2>3
  <2>6. Click!Step(c, Click!Idle) /\ Click!Ends(c) /\ UNCHANGED clicks
    BY <1>3, <2>1 DEF Click!Answer, Click!Repeat
  <2> QED BY <2>4, <2>5, <2>6, ClickRests
<1>4. CASE Click!Reuse(c)
  <2>1. PICK h \in Click!Recent(c) :
          /\ Click!Unchanged(c, h)
          /\ clicks' = [clicks EXCEPT ![h] =
               [clicks[h] EXCEPT !.refs = clickers[c].seen[h].refs \cup {clickers[c].event}, !.writes = @ + 1]]
          /\ Click!Answer(c, h)
    BY <1>4 DEF Click!Reuse
  <2>2. h \in Handoffs /\ clicks[h] \in ClickRow
    BY DEF Click!Recent, ClicksInv, ClicksTypes
  <2>3. clickers[c].seen[h].refs = clicks[h].refs
    BY <1>1, <2>1, <2>2 DEF Click!Unchanged, ClicksInv, VersionsTell
  <2> DEFINE row == [clicks[h] EXCEPT !.refs = clicks[h].refs \cup {clickers[c].event},
                                      !.writes = @ + 1]
  <2>4. clicks' = [clicks EXCEPT ![h] = row]
    <3>1. clicks \in [Handoffs -> ClickRow]
      BY DEF ClicksInv, ClicksTypes
    <3> QED BY <2>1, <2>2, <2>3, <3>1 DEF ClickRow
  <2>5. /\ row \in ClickRow /\ row.writes = clicks[h].writes + 1
        /\ row.refs = clicks[h].refs \cup {clickers[c].event}
    <3>1. /\ clicks[h].writes + 1 \in Nat
          /\ clicks[h].refs \cup {clickers[c].event} \in SUBSET ClickEvents
      BY <1>2, <2>2 DEF ClickRow
    <3> QED BY <2>2, <3>1 DEF ClickRow
  <2> HIDE DEF row
  <2> QED BY <1>2, <2>1, <2>2, <2>4, <2>5, ClickWrites
<1>5. CASE Click!Insert(c)
  <2> DEFINE row == [event |-> clickers[c].event, refs |-> {clickers[c].event}, recent |-> TRUE,
                     writes |-> 1]
  <2>1. PICK h \in Handoffs :
          clicks[h] = Click!NoRow /\ clicks' = [clicks EXCEPT ![h] = row] /\ Click!Answer(c, h)
    BY <1>5 DEF Click!Insert
  <2>2. /\ row \in ClickRow /\ row.writes = 1 /\ row.refs = {clickers[c].event}
    BY <1>2 DEF ClickRow
  <2>3. clicks[h].refs = {} /\ clicks[h].writes = 0
    BY <2>1 DEF Click!NoRow
  <2> HIDE DEF row
  <2>4. row.writes = clicks[h].writes + 1 /\ clicks[h].refs \subseteq row.refs
    BY <2>2, <2>3
  <2> QED BY <1>2, <2>1, <2>2, <2>4, ClickWrites
<1> QED BY <1>3, <1>4, <1>5

\* Every step of the clicks keeps their invariant.
LEMMA ClicksNextInv == ClicksInv /\ [Click!Next]_Click!clickVars => ClicksInv'
<1> SUFFICES ASSUME ClicksInv, [Click!Next]_Click!clickVars PROVE ClicksInv'
  OBVIOUS
<1>1. ASSUME NEW c \in Clickers, NEW e \in ClickEvents, Click!Click(c, e) PROVE ClicksInv'
  <2> DEFINE request == [at |-> "claim", event |-> e, seen |-> clicks]
  <2>1. request \in ClickRequest /\ request.seen = clicks
    BY DEF ClicksInv, ClicksTypes, ClickRequest
  <2>2. Click!Step(c, request)
    BY <1>1 DEF Click!Click
  <2> HIDE DEF request
  <2> QED BY <1>1, <2>1, <2>2, ClickSees DEF Click!Click, ClicksInv, ClicksTypes
<1>2. ASSUME NEW c \in Clickers, Click!Rerun(c) PROVE ClicksInv'
  <2>1. clickers[c] \in ClickRequest
    BY <1>2 DEF ClicksInv, ClicksTypes, Click!Rerun, Click!Idle
  <2> DEFINE request == [clickers[c] EXCEPT !.at = "claim", !.seen = clicks]
  <2>2. request \in ClickRequest /\ request.seen = clicks
    BY <2>1 DEF ClicksInv, ClicksTypes, ClickRequest
  <2>3. Click!Step(c, request) /\ Click!Ends(c) /\ UNCHANGED <<clicks, clickAnswers>>
    BY <1>2 DEF Click!Rerun
  <2> HIDE DEF request
  <2> QED BY <2>2, <2>3, ClickSees, ClickEnds DEF ClicksInv
<1>3. ASSUME NEW c \in Clickers, Click!Fail(c) PROVE ClicksInv'
  BY <1>3, ClickRests DEF Click!Fail, ClicksInv, ClicksTypes
<1>4. ASSUME NEW h \in Handoffs, Click!Ages(h) PROVE ClicksInv'
  <2> DEFINE row == [clicks[h] EXCEPT !.recent = FALSE]
  <2>1. clicks' = [clicks EXCEPT ![h] = row] /\ clicks \in [Handoffs -> ClickRow]
    BY <1>4 DEF Click!Ages, ClicksInv, ClicksTypes
  <2>2. row \in ClickRow /\ row.refs = clicks[h].refs /\ row.writes = clicks[h].writes
    BY <2>1 DEF ClickRow
  <2> HIDE DEF row
  <2>3. /\ clicks' \in [Handoffs -> ClickRow]
        /\ \A g \in Handoffs : clicks'[g].refs = clicks[g].refs /\ clicks'[g].writes = clicks[g].writes
    BY <2>1, <2>2
  <2>4. ClicksTypes'
    BY <1>4, <2>3 DEF ClicksInv, ClicksTypes, Click!Ages
  <2>5. VersionsTell'
    BY <1>4, <2>3 DEF ClicksInv, VersionsTell, Click!Ages
  <2>6. Click!AliasesAreKept'
    BY <1>4, <2>3 DEF ClicksInv, ClicksTypes, Click!AliasesAreKept, Click!Ages
  <2> QED BY <2>4, <2>5, <2>6 DEF ClicksInv
<1>5. CASE UNCHANGED Click!clickVars
  BY <1>5 DEF Click!clickVars, ClicksInv, ClicksTypes, VersionsTell, Click!AliasesAreKept
<1> QED BY <1>1, <1>2, <1>3, <1>4, <1>5, ClickLocks, ClickAnswered DEF Click!Next

------------------------------------------------------------------------------
\* WhatsappClaims: what a claim leaves open.
WriterRecord ==
  [kind : {"analyze", "confirm", "reject"}, pair : Claims!Pairs, seen : [Claims!Pairs -> Claims!MatchStates],
   fenced : SUBSET Clicks, rows : SUBSET Claims!Pairs]
Working == {w \in Writers : writers[w] # Claims!Away}

ClaimsTypes ==
  /\ matches \in [Claims!Pairs -> Claims!MatchStates] /\ analyzed \subseteq Messages
  /\ writers \in [Writers -> WriterRecord \cup {Claims!Away}]

\* A message has matches once it is analyzed, and is analyzed by one transaction.
AnalyzedOnce ==
  /\ \A p \in Claims!Pairs : matches[p] # "none" => p[2] \in analyzed
  /\ \A w \in Working : writers[w].kind # "analyze" => writers[w].pair[2] \in analyzed
  /\ \A w \in Working : writers[w].kind = "analyze" =>
       /\ writers[w].pair[2] \notin analyzed
       /\ \A v \in Working \ {w} :
            writers[v].kind = "analyze" => writers[v].pair[2] # writers[w].pair[2]

\* What a snapshot may have missed: nothing of a row that nobody wrote, of an
\* unfenced click only that a suggestion was superseded, of a message that was
\* analyzed no new suggestion.
SnapshotsMiss ==
  \A w \in Working, p \in Claims!Pairs :
    LET seen == writers[w].seen IN
    /\ p \notin writers[w].rows => matches[p] = seen[p]
    /\ p[1] \notin writers[w].fenced => matches[p] \in {seen[p], "superseded"}
    /\ seen[p] # "none" =>
         /\ p[2] \in analyzed
         /\ \A r \in Claims!Pairs : r[2] = p[2] /\ matches[r] = "suggested" => seen[r] = "suggested"

ClaimsInv == ClaimsTypes /\ AnalyzedOnce /\ SnapshotsMiss /\ Claims!NothingOpenBesideClaim

LEMMA ClaimsWriterFacts ==
  ASSUME ClaimsTypes, NEW w \in Working
  PROVE  /\ w \in Writers /\ writers[w] \in WriterRecord /\ writers[w].kind # "away"
         /\ writers[w].pair \in Claims!Pairs /\ writers[w].pair[1] \in Clicks
         /\ writers[w].pair[2] \in Messages
         /\ \A p \in Claims!Pairs : writers[w].seen[p] \in Claims!MatchStates
BY DEF ClaimsTypes, Working, WriterRecord, Claims!Pairs

LEMMA ClaimsInitInv == Claims!Init => ClaimsInv
BY DEF Claims!Init, ClaimsInv, ClaimsTypes, AnalyzedOnce, SnapshotsMiss, Claims!NothingOpenBesideClaim,
       Working, Claims!MatchStates, Claims!Claimed

\* A transaction that begins sees the rows as they are.
LEMMA OpenKeeps ==
  ASSUME ClaimsInv, NEW w \in Writers, NEW kind \in {"analyze", "confirm", "reject"},
         NEW p \in Claims!Pairs, Claims!Open(w, kind, p),
         kind = "analyze" => p[2] \notin analyzed \cup Claims!BeingAnalyzed,
         kind # "analyze" => p[2] \in analyzed
  PROVE  ClaimsInv'
<1> DEFINE begun == [kind |-> kind, pair |-> p, seen |-> matches, fenced |-> {}, rows |-> {}]
<1>1. /\ writers[w] = Claims!Away /\ writers' = [writers EXCEPT ![w] = begun]
      /\ UNCHANGED <<matches, analyzed>>
  BY DEF Claims!Open
<1>2. /\ begun \in WriterRecord /\ begun # Claims!Away /\ begun.kind = kind /\ begun.pair = p
      /\ begun.seen = matches
  BY DEF ClaimsInv, ClaimsTypes, WriterRecord, Claims!Away
<1> HIDE DEF begun
<1>3. /\ writers' \in [Writers -> WriterRecord \cup {Claims!Away}] /\ writers'[w] = begun
      /\ \A v \in Writers \ {w} : writers'[v] = writers[v]
      /\ Working' = Working \cup {w} /\ w \notin Working
  BY <1>1, <1>2 DEF ClaimsInv, ClaimsTypes, Working
<1>4. ClaimsTypes' /\ Claims!NothingOpenBesideClaim'
  BY <1>1, <1>3 DEF ClaimsInv, ClaimsTypes, Claims!NothingOpenBesideClaim
<1>5. AnalyzedOnce'
  <2>1. \A v \in Working : writers[v].kind = "analyze" =>
          (kind = "analyze" => writers[v].pair[2] # p[2])
    BY DEF Claims!BeingAnalyzed, Working
  <2>2. \A v \in Working : writers'[v] = writers[v] /\ v # w
    BY <1>3 DEF Working
  <2> QED BY <1>1, <1>2, <1>3, <2>1, <2>2 DEF ClaimsInv, AnalyzedOnce
<1>6. SnapshotsMiss'
  <2> SUFFICES ASSUME NEW v \in Working', NEW q \in Claims!Pairs
               PROVE  /\ q \notin writers'[v].rows => matches[q] = writers'[v].seen[q]
                      /\ q[1] \notin writers'[v].fenced =>
                           matches[q] \in {writers'[v].seen[q], "superseded"}
                      /\ writers'[v].seen[q] # "none" =>
                           /\ q[2] \in analyzed
                           /\ \A r \in Claims!Pairs : r[2] = q[2] /\ matches[r] = "suggested" =>
                                writers'[v].seen[r] = "suggested"
    BY <1>1 DEF SnapshotsMiss
  <2>1. CASE v = w
    BY <1>2, <1>3, <2>1 DEF ClaimsInv, AnalyzedOnce
  <2>2. CASE v # w
    <3>1. v \in Working /\ writers'[v] = writers[v]
      BY <1>3, <2>2 DEF Working
    <3> QED BY <3>1 DEF ClaimsInv, SnapshotsMiss
  <2> QED BY <2>1, <2>2
<1> QED BY <1>4, <1>5, <1>6 DEF ClaimsInv

\* A transaction that ends, or is rolled back, leaves no view behind.
LEMMA EndKeeps ==
  ASSUME ClaimsInv, NEW w \in Writers, writers' = [writers EXCEPT ![w] = Claims!Away],
         UNCHANGED <<matches, analyzed>>
  PROVE  ClaimsInv'
<1>1. /\ writers' \in [Writers -> WriterRecord \cup {Claims!Away}]
      /\ Working' = Working \ {w} /\ \A v \in Working' : writers'[v] = writers[v]
  BY DEF ClaimsInv, ClaimsTypes, Working
<1>2. ClaimsTypes' /\ Claims!NothingOpenBesideClaim'
  BY <1>1 DEF ClaimsInv, ClaimsTypes, Claims!NothingOpenBesideClaim
<1>3. AnalyzedOnce'
  BY <1>1 DEF ClaimsInv, AnalyzedOnce
<1>4. SnapshotsMiss'
  BY <1>1 DEF ClaimsInv, SnapshotsMiss
<1> QED BY <1>2, <1>3, <1>4 DEF ClaimsInv

\* What the others have not seen of a commit is what they are told: its rows and
\* the clicks it fenced.
LEMMA ClaimCommitKeeps ==
  ASSUME ClaimsInv, NEW w \in Working, NEW fenced \in SUBSET Clicks,
         NEW new \in [Claims!Pairs -> Claims!MatchStates], Claims!Commit(w, fenced, new),
         analyzed \subseteq analyzed', analyzed' \subseteq Messages,
         \A p \in Claims!Pairs : p[1] \in fenced \/ new[p] \in {matches[p], "superseded"},
         \A p \in Claims!Pairs : new[p] = "suggested" => matches[p] = "suggested" \/ p[2] \notin analyzed
  PROVE  /\ ClaimsTypes' /\ SnapshotsMiss' /\ matches' = new
         /\ Working' = Working \ {w}
         /\ \A v \in Working' : writers'[v].kind = writers[v].kind /\ writers'[v].pair = writers[v].pair
<1> DEFINE changed == {p \in Claims!Pairs : new[p] /= matches[p]}
           told(v) == [writers[v] EXCEPT !.fenced = @ \cup fenced, !.rows = @ \cup changed]
<1>1. /\ matches' = new /\ ClaimsTypes
      /\ writers' = [v \in Writers |-> IF v = w \/ writers[v] = Claims!Away THEN Claims!Away ELSE told(v)]
  BY DEF Claims!Commit, ClaimsInv
<1>2. \A v \in Working :
        /\ told(v) \in WriterRecord /\ told(v) # Claims!Away /\ told(v).kind = writers[v].kind
        /\ told(v).pair = writers[v].pair /\ told(v).seen = writers[v].seen
        /\ told(v).fenced = writers[v].fenced \cup fenced
        /\ told(v).rows = writers[v].rows \cup changed
  <2> SUFFICES ASSUME NEW v \in Working
               PROVE  /\ told(v) \in WriterRecord /\ told(v) # Claims!Away /\ told(v).kind = writers[v].kind
                      /\ told(v).pair = writers[v].pair /\ told(v).seen = writers[v].seen
                      /\ told(v).fenced = writers[v].fenced \cup fenced
                      /\ told(v).rows = writers[v].rows \cup changed
    OBVIOUS
  <2>1. writers[v] \in WriterRecord
    BY <1>1, ClaimsWriterFacts
  <2> QED BY <2>1 DEF WriterRecord, Claims!Away
<1> HIDE DEF told
<1>3. /\ Working' = Working \ {w} /\ \A v \in Working \ {w} : writers'[v] = told(v)
      /\ \A v \in Writers : writers'[v] \in WriterRecord \cup {Claims!Away}
  BY <1>1, <1>2 DEF Working
<1>4. ClaimsTypes'
  BY <1>1, <1>3 DEF ClaimsTypes
<1>5. SnapshotsMiss'
  <2> SUFFICES ASSUME NEW v \in Working \ {w}, NEW q \in Claims!Pairs
               PROVE  /\ q \notin writers[v].rows \cup changed => new[q] = writers[v].seen[q]
                      /\ q[1] \notin writers[v].fenced \cup fenced =>
                           new[q] \in {writers[v].seen[q], "superseded"}
                      /\ writers[v].seen[q] # "none" =>
                           /\ q[2] \in analyzed'
                           /\ \A r \in Claims!Pairs : r[2] = q[2] /\ new[r] = "suggested" =>
                                writers[v].seen[r] = "suggested"
    BY <1>1, <1>2, <1>3 DEF SnapshotsMiss
  <2>1. v \in Working
    OBVIOUS
  <2> QED BY <2>1 DEF ClaimsInv, SnapshotsMiss
<1> QED BY <1>1, <1>2, <1>3, <1>4, <1>5

\* A claim: whatever is open for the same click the snapshot shows, as the click
\* is not fenced; whatever is open for the same message it shows, too.
LEMMA ClaimKeeps ==
  ASSUME ClaimsInv, NEW w \in Working, NEW p \in Claims!Pairs, NEW state \in Claims!Claimed,
         p[1] \notin writers[w].fenced, Claims!Unclaimed(p), matches' = Claims!Superseded(w, p, state),
         \A r \in Claims!Pairs \ {p} : r[2] = p[2] /\ matches[r] = "suggested" =>
           writers[w].seen[r] = "suggested"
  PROVE  Claims!NothingOpenBesideClaim'
<1> SUFFICES ASSUME NEW q \in Claims!Pairs, NEW r \in Claims!Pairs, q # r, matches'[q] \in Claims!Claimed,
                    q[1] = r[1] \/ q[2] = r[2]
             PROVE  matches'[r] \notin {"suggested"} \cup Claims!Claimed
  BY DEF Claims!NothingOpenBesideClaim
<1>1. \A s \in Claims!Pairs : matches'[s] = IF s = p THEN state
        ELSE IF s \in Claims!Competitors(w, p) THEN "superseded" ELSE matches[s]
  BY DEF Claims!Superseded
<1>2. "superseded" \notin {"suggested"} \cup Claims!Claimed
  BY DEF Claims!Claimed
<1>3. CASE q = p
  <2>1. matches[r] \notin Claims!Claimed
    BY <1>3 DEF Claims!Unclaimed
  <2>2. matches[r] = "suggested" => r \in Claims!Competitors(w, p)
    <3>1. CASE r[2] = p[2]
      BY <1>3, <3>1 DEF Claims!Competitors
    <3>2. CASE r[1] = p[1]
      <4>1. matches[r] \in {writers[w].seen[r], "superseded"}
        BY <3>2 DEF ClaimsInv, SnapshotsMiss
      <4> QED BY <1>3, <3>2, <4>1 DEF Claims!Competitors
    <3> QED BY <1>3, <3>1, <3>2
  <2> QED BY <1>1, <1>2, <1>3, <2>1, <2>2
<1>4. CASE q # p
  <2>1. matches[q] \in Claims!Claimed
    BY <1>1, <1>2, <1>4
  <2>2. r # p
    BY <1>4, <2>1 DEF Claims!Unclaimed
  <2>3. matches[r] \notin {"suggested"} \cup Claims!Claimed
    BY <2>1 DEF ClaimsInv, Claims!NothingOpenBesideClaim
  <2> QED BY <1>1, <1>2, <2>2, <2>3
<1> QED BY <1>3, <1>4

LEMMA SupersededFacts ==
  ASSUME ClaimsInv, NEW w \in Working, NEW p \in Claims!Pairs, NEW state \in Claims!Claimed
  PROVE  /\ Claims!Superseded(w, p, state) \in [Claims!Pairs -> Claims!MatchStates]
         /\ \A q \in Claims!Pairs : q[1] \in {p[1]} \/ Claims!Superseded(w, p, state)[q] \in {matches[q], "superseded"}
         /\ \A q \in Claims!Pairs : Claims!Superseded(w, p, state)[q] = "suggested" => matches[q] = "suggested"
BY DEF Claims!Superseded, ClaimsInv, ClaimsTypes, Claims!MatchStates, Claims!Claimed

\* A reference claims its pair, under the locks of its click.
LEMMA ReferenceKeeps ==
  ASSUME ClaimsInv, NEW w \in Writers, Claims!AnalyzeReference(w) PROVE ClaimsInv'
<1> DEFINE p == writers[w].pair
<1>1. w \in Working /\ writers[w].kind = "analyze"
  BY DEF Claims!AnalyzeReference, Working, Claims!Away
<1>2. ClaimsTypes /\ p \in Claims!Pairs /\ p[1] \in Clicks /\ p[2] \in Messages
  BY <1>1, ClaimsWriterFacts DEF ClaimsInv
<1>3. /\ Claims!Fence(w, {p[1]}) /\ analyzed' = analyzed \cup {p[2]}
      /\ \/ Claims!Commit(w, {p[1]}, matches)
         \/ /\ Claims!Unclaimed(p) /\ Claims!Current(w, Claims!Competitors(w, p))
            /\ Claims!Commit(w, {p[1]}, Claims!Superseded(w, p, "reference"))
  BY DEF Claims!AnalyzeReference
<1>4. p[2] \notin analyzed /\ p[1] \notin writers[w].fenced
  BY <1>1, <1>3 DEF ClaimsInv, AnalyzedOnce, Claims!Fence
<1>5. \A q \in Claims!Pairs : q[2] = p[2] => matches[q] = "none"
  BY <1>4 DEF ClaimsInv, AnalyzedOnce
<1> HIDE DEF p
<1>6. ASSUME /\ ClaimsTypes' /\ SnapshotsMiss' /\ Working' = Working \ {w}
             /\ \A v \in Working' : writers'[v].kind = writers[v].kind
                                    /\ writers'[v].pair = writers[v].pair,
             \A q \in Claims!Pairs : matches'[q] # "none" => matches[q] # "none" \/ q[2] = p[2],
             Claims!NothingOpenBesideClaim'
      PROVE  ClaimsInv'
  <2>1. AnalyzedOnce'
    BY <1>1, <1>3, <1>6 DEF ClaimsInv, AnalyzedOnce, p
  <2> QED BY <1>6, <2>1 DEF ClaimsInv
<1>7. CASE Claims!Commit(w, {p[1]}, matches)
  <2>1. /\ ClaimsTypes' /\ SnapshotsMiss' /\ matches' = matches /\ Working' = Working \ {w}
        /\ \A v \in Working' : writers'[v].kind = writers[v].kind
                               /\ writers'[v].pair = writers[v].pair
    <3>1. /\ matches \in [Claims!Pairs -> Claims!MatchStates] /\ {p[1]} \in SUBSET Clicks
          /\ analyzed \subseteq analyzed' /\ analyzed' \subseteq Messages
      BY <1>2, <1>3 DEF ClaimsTypes
    <3> QED BY <1>1, <1>7, <3>1, ClaimCommitKeeps
  <2>2. Claims!NothingOpenBesideClaim'
    BY <2>1 DEF ClaimsInv, Claims!NothingOpenBesideClaim
  <2> QED BY <1>6, <2>1, <2>2
<1>8. CASE /\ Claims!Unclaimed(p) /\ Claims!Current(w, Claims!Competitors(w, p))
           /\ Claims!Commit(w, {p[1]}, Claims!Superseded(w, p, "reference"))
  <2>1. /\ Claims!Superseded(w, p, "reference") \in [Claims!Pairs -> Claims!MatchStates]
        /\ \A q \in Claims!Pairs :
             q[1] \in {p[1]} \/ Claims!Superseded(w, p, "reference")[q] \in {matches[q], "superseded"}
        /\ \A q \in Claims!Pairs : Claims!Superseded(w, p, "reference")[q] = "suggested" => matches[q] = "suggested"
    BY <1>1, <1>2, SupersededFacts DEF Claims!Claimed
  <2>2. /\ {p[1]} \in SUBSET Clicks /\ analyzed \subseteq analyzed' /\ analyzed' \subseteq Messages
    BY <1>2, <1>3 DEF ClaimsTypes
  <2>3. /\ ClaimsTypes' /\ SnapshotsMiss' /\ matches' = Claims!Superseded(w, p, "reference")
        /\ Working' = Working \ {w}
        /\ \A v \in Working' : writers'[v].kind = writers[v].kind
                               /\ writers'[v].pair = writers[v].pair
    BY <1>1, <1>8, <2>1, <2>2, ClaimCommitKeeps
  <2>4. Claims!NothingOpenBesideClaim'
    <3>1. \A r \in Claims!Pairs \ {p} : r[2] = p[2] /\ matches[r] = "suggested" =>
            writers[w].seen[r] = "suggested"
      BY <1>5
    <3> QED BY <1>1, <1>2, <1>4, <1>8, <2>3, <3>1, ClaimKeeps DEF Claims!Claimed
  <2>5. \A q \in Claims!Pairs : matches'[q] # "none" => matches[q] # "none" \/ q[2] = p[2]
    <3> SUFFICES ASSUME NEW q \in Claims!Pairs, matches[q] = "none", q # p PROVE matches'[q] = "none"
      OBVIOUS
    <3>1. q \notin Claims!Competitors(w, p)
      <4>1. CASE q \in writers[w].rows
        BY <1>8, <4>1 DEF Claims!Current
      <4>2. CASE q \notin writers[w].rows
        BY <1>1, <4>2 DEF ClaimsInv, SnapshotsMiss, Claims!Competitors
      <4> QED BY <4>1, <4>2
    <3> QED BY <2>3, <3>1 DEF Claims!Superseded
  <2> QED BY <1>6, <2>3, <2>4, <2>5
<1> QED BY <1>3, <1>7, <1>8

\* Suggestions of an analyzed message leave claimed clicks alone.
LEMMA ProximityKeeps ==
  ASSUME ClaimsInv, NEW w \in Writers, Claims!AnalyzeProximity(w) PROVE ClaimsInv'
<1> DEFINE m == writers[w].pair[2]
<1>1. w \in Working /\ writers[w].kind = "analyze"
  BY DEF Claims!AnalyzeProximity, Working, Claims!Away
<1>2. ClaimsTypes /\ m \in Messages
  BY <1>1, ClaimsWriterFacts DEF ClaimsInv
<1>3. m \notin analyzed
  BY <1>1 DEF ClaimsInv, AnalyzedOnce
<1>4. PICK near \in SUBSET {c \in Clicks : Claims!ClaimOf(w, {c}, {}) = {}} :
        /\ Claims!Fence(w, near)
        /\ Claims!Commit(w, near, [q \in Claims!Pairs |->
             IF q[1] \in near /\ q[2] = m THEN "suggested" ELSE matches[q]])
  BY DEF Claims!AnalyzeProximity
<1>5. analyzed' = analyzed \cup {m}
  BY DEF Claims!AnalyzeProximity
<1> DEFINE new == [q \in Claims!Pairs |-> IF q[1] \in near /\ q[2] = m THEN "suggested" ELSE matches[q]]
<1>6. /\ new \in [Claims!Pairs -> Claims!MatchStates]
      /\ \A q \in Claims!Pairs : q[1] \in near \/ new[q] \in {matches[q], "superseded"}
      /\ \A q \in Claims!Pairs : new[q] = "suggested" => matches[q] = "suggested" \/ q[2] \notin analyzed
      /\ \A q \in Claims!Pairs : new[q] = IF q[1] \in near /\ q[2] = m THEN "suggested" ELSE matches[q]
  BY <1>2, <1>3 DEF ClaimsTypes, Claims!MatchStates
<1>7. near \in SUBSET Clicks /\ analyzed \subseteq analyzed' /\ analyzed' \subseteq Messages
  BY <1>2, <1>5 DEF ClaimsTypes
<1>8. Claims!Commit(w, near, new)
  BY <1>4
<1> HIDE DEF new, m
<1>9. /\ ClaimsTypes' /\ SnapshotsMiss' /\ matches' = new /\ Working' = Working \ {w}
      /\ \A v \in Working' : writers'[v].kind = writers[v].kind
                             /\ writers'[v].pair = writers[v].pair
  BY <1>1, <1>6, <1>7, <1>8, ClaimCommitKeeps
<1>10. AnalyzedOnce'
  BY <1>1, <1>5, <1>6, <1>9 DEF ClaimsInv, AnalyzedOnce, m
<1>11. Claims!NothingOpenBesideClaim'
  <2> SUFFICES ASSUME NEW q \in Claims!Pairs, NEW r \in Claims!Pairs, q # r, matches'[q] \in Claims!Claimed,
                      q[1] = r[1] \/ q[2] = r[2]
               PROVE  matches'[r] \notin {"suggested"} \cup Claims!Claimed
    BY DEF Claims!NothingOpenBesideClaim
  <2>1. matches[q] \in Claims!Claimed
    BY <1>6, <1>9 DEF Claims!Claimed
  <2>2. matches[r] \notin {"suggested"} \cup Claims!Claimed
    BY <2>1 DEF ClaimsInv, Claims!NothingOpenBesideClaim
  <2>3. ~(r[1] \in near /\ r[2] = m)
    <3> SUFFICES ASSUME r[1] \in near, r[2] = m PROVE FALSE
      OBVIOUS
    <3>1. q[2] # m
      BY <1>3, <2>1 DEF ClaimsInv, AnalyzedOnce, Claims!Claimed
    <3>2. q[1] \in near
      BY <3>1
    <3>3. writers[w].seen[q] \notin Claims!Claimed
      BY <1>4, <3>2 DEF Claims!ClaimOf
    <3>4. matches[q] \in {writers[w].seen[q], "superseded"}
      BY <1>1, <1>4, <3>2 DEF ClaimsInv, SnapshotsMiss, Claims!Fence
    <3> QED BY <2>1, <3>3, <3>4 DEF Claims!Claimed
  <2> QED BY <1>6, <1>9, <2>2, <2>3
<1> QED BY <1>9, <1>10, <1>11 DEF ClaimsInv

\* A confirmation closes every competitor it may have missed.
LEMMA ConfirmKeeps ==
  ASSUME ClaimsInv, NEW w \in Writers, Claims!Confirm(w) PROVE ClaimsInv'
<1> DEFINE p == writers[w].pair
<1>1. w \in Working /\ writers[w].kind = "confirm"
  BY DEF Claims!Confirm, Working, Claims!Away
<1>2. ClaimsTypes /\ p \in Claims!Pairs /\ p[1] \in Clicks /\ p[2] \in Messages /\ UNCHANGED analyzed
  BY <1>1, ClaimsWriterFacts DEF ClaimsInv, Claims!Confirm
<1>3. \/ Claims!Ends(w)
      \/ /\ writers[w].seen[p] = "suggested" /\ Claims!Fence(w, {p[1]}) /\ Claims!Unclaimed(p)
         /\ Claims!Current(w, Claims!Competitors(w, p) \cup {p})
         /\ Claims!Commit(w, {p[1]}, Claims!Superseded(w, p, "confirmed"))
  BY DEF Claims!Confirm
<1> HIDE DEF p
<1>4. CASE Claims!Ends(w)
  BY <1>2, <1>4, EndKeeps DEF Claims!Ends
<1>5. CASE /\ writers[w].seen[p] = "suggested" /\ Claims!Fence(w, {p[1]}) /\ Claims!Unclaimed(p)
           /\ Claims!Current(w, Claims!Competitors(w, p) \cup {p})
           /\ Claims!Commit(w, {p[1]}, Claims!Superseded(w, p, "confirmed"))
  <2>1. /\ Claims!Superseded(w, p, "confirmed") \in [Claims!Pairs -> Claims!MatchStates]
        /\ \A q \in Claims!Pairs :
             q[1] \in {p[1]} \/ Claims!Superseded(w, p, "confirmed")[q] \in {matches[q], "superseded"}
        /\ \A q \in Claims!Pairs : Claims!Superseded(w, p, "confirmed")[q] = "suggested" => matches[q] = "suggested"
    BY <1>1, <1>2, SupersededFacts DEF Claims!Claimed
  <2>2. /\ {p[1]} \in SUBSET Clicks /\ analyzed \subseteq analyzed' /\ analyzed' \subseteq Messages
    BY <1>2 DEF ClaimsTypes
  <2>3. /\ ClaimsTypes' /\ SnapshotsMiss' /\ matches' = Claims!Superseded(w, p, "confirmed")
        /\ Working' = Working \ {w}
        /\ \A v \in Working' : writers'[v].kind = writers[v].kind
                               /\ writers'[v].pair = writers[v].pair
    BY <1>1, <1>5, <2>1, <2>2, ClaimCommitKeeps
  <2>4. Claims!NothingOpenBesideClaim'
    <3>1. \A r \in Claims!Pairs : r[2] = p[2] /\ matches[r] = "suggested" =>
            writers[w].seen[r] = "suggested"
      BY <1>1, <1>2, <1>5 DEF ClaimsInv, SnapshotsMiss
    <3>2. p[1] \notin writers[w].fenced
      BY <1>5 DEF Claims!Fence
    <3> QED BY <1>1, <1>2, <1>5, <2>3, <3>1, <3>2, ClaimKeeps DEF Claims!Claimed
  <2>5. AnalyzedOnce'
    <3>1. \A q \in Claims!Competitors(w, p) \cup {p} : matches[q] = writers[w].seen[q]
      BY <1>1, <1>2, <1>5 DEF ClaimsInv, SnapshotsMiss, Claims!Current, Claims!Competitors
    <3>2. \A q \in Claims!Pairs : matches'[q] # "none" => matches[q] # "none"
      BY <1>5, <2>3, <3>1 DEF Claims!Superseded, Claims!Competitors
    <3> QED BY <1>2, <2>3, <3>2 DEF ClaimsInv, AnalyzedOnce
  <2> QED BY <2>3, <2>4, <2>5 DEF ClaimsInv
<1> QED BY <1>3, <1>4, <1>5

\* A rejection opens nothing.
LEMMA RejectKeeps ==
  ASSUME ClaimsInv, NEW w \in Writers, Claims!Reject(w) PROVE ClaimsInv'
<1> DEFINE p == writers[w].pair
           new == [matches EXCEPT ![p] = "rejected"]
<1>1. w \in Working /\ writers[w].kind = "reject"
  BY DEF Claims!Reject, Working, Claims!Away
<1>2. ClaimsTypes /\ p \in Claims!Pairs /\ p[1] \in Clicks /\ UNCHANGED analyzed
  BY <1>1, ClaimsWriterFacts DEF ClaimsInv, Claims!Reject
<1>3. Claims!Ends(w) \/ Claims!Commit(w, {p[1]}, new)
  BY DEF Claims!Reject
<1>4. CASE Claims!Ends(w)
  BY <1>2, <1>4, EndKeeps DEF Claims!Ends
<1>5. CASE Claims!Commit(w, {p[1]}, new)
  <2>1. /\ new \in [Claims!Pairs -> Claims!MatchStates]
        /\ \A q \in Claims!Pairs : new[q] = IF q = p THEN "rejected" ELSE matches[q]
    BY <1>2 DEF ClaimsTypes, Claims!MatchStates
  <2>2. /\ {p[1]} \in SUBSET Clicks /\ analyzed \subseteq analyzed' /\ analyzed' \subseteq Messages
    BY <1>2 DEF ClaimsTypes
  <2> HIDE DEF new, p
  <2>3. /\ ClaimsTypes' /\ SnapshotsMiss' /\ matches' = new /\ Working' = Working \ {w}
        /\ \A v \in Working' : writers'[v].kind = writers[v].kind
                               /\ writers'[v].pair = writers[v].pair
    BY <1>1, <1>5, <2>1, <2>2, ClaimCommitKeeps
  <2>4. Claims!NothingOpenBesideClaim'
    BY <2>1, <2>3 DEF ClaimsInv, Claims!NothingOpenBesideClaim, Claims!Claimed
  <2>5. p[2] \in analyzed
    BY <1>1 DEF ClaimsInv, AnalyzedOnce, p
  <2>6. AnalyzedOnce'
    BY <1>2, <2>1, <2>3, <2>5 DEF ClaimsInv, AnalyzedOnce
  <2> QED BY <2>3, <2>4, <2>6 DEF ClaimsInv
<1> QED BY <1>3, <1>4, <1>5

\* Every step of the claims keeps their invariant.
LEMMA ClaimsNextInv == ClaimsInv /\ [Claims!Next]_Claims!claimVars => ClaimsInv'
<1> SUFFICES ASSUME ClaimsInv, [Claims!Next]_Claims!claimVars PROVE ClaimsInv'
  OBVIOUS
<1>1. ASSUME NEW w \in Writers, NEW p \in Claims!Pairs, Claims!Receive(w, p) PROVE ClaimsInv'
  BY <1>1, OpenKeeps DEF Claims!Receive
<1>2. ASSUME NEW w \in Writers, NEW p \in Claims!Pairs, Claims!Review(w, p) PROVE ClaimsInv'
  <2>1. p[2] \in analyzed
    BY <1>2 DEF Claims!Review, ClaimsInv, AnalyzedOnce, Claims!Claimed
  <2> QED BY <1>2, <2>1, OpenKeeps DEF Claims!Review
<1>3. ASSUME NEW w \in Writers, Claims!Retry(w) PROVE ClaimsInv'
  BY <1>3, EndKeeps DEF Claims!Retry
<1>4. CASE UNCHANGED Claims!claimVars
  BY <1>4 DEF Claims!claimVars, ClaimsInv, ClaimsTypes, AnalyzedOnce, SnapshotsMiss, Working,
     Claims!NothingOpenBesideClaim
<1> QED BY <1>1, <1>2, <1>3, <1>4, ReferenceKeeps, ProximityKeeps, ConfirmKeeps, RejectKeeps
    DEF Claims!Next

------------------------------------------------------------------------------
\* RedirectGrants: the tokens of the redirects.
Sites == [endpoint : {"on", "off"}, binding : {"legacy", "native", "off"}, action : {"on", "off"}]
GrantRecord ==
  [state : {"none", "issued", "consumed", "revoked"}, press : Presses \cup {"none"}, until : Nat, used : Nat]

GrantTypes ==
  /\ site \in Sites /\ pressed \subseteq Presses /\ issued \subseteq Grant!Tokens
  /\ grants \in [Grant!Tokens -> GrantRecord] /\ redirects \in [Grant!Tokens -> Nat]
  /\ time \in 0..MaxTime /\ settings \in 0..MaxSettings
  /\ DOMAIN bearers = Bearers
  /\ \A k \in Grant!Tokens :
       grants[k] = Grant!NoGrant \/ (k \in issued /\ grants[k].state # "none" /\ grants[k].press \in pressed)

\* A transaction that has to run again knows its request only.
Again(x) ==
  \/ x = Grant!Idle
  \/ \E p \in Presses, at \in Nat : x = [does |-> "claim again", press |-> p, at |-> at]
  \/ \E k \in issued : x = [does |-> "follow again", token |-> k]
  \/ \E switch \in DOMAIN Grant!Switches : \E value \in Grant!Switches[switch] :
       x = [does |-> "set again", switch |-> switch, value |-> value]
\* Any other has a snapshot that a new one would not differ from in what it relies on.
Sees(x) ==
  \/ \E p \in Presses, at \in Nat, known \in BOOLEAN :
       x = [does |-> "claim", press |-> p, at |-> at, known |-> known, live |-> Grant!Live(p), site |-> site]
  \/ \E k \in issued : x = [does |-> "follow", token |-> k, grant |-> grants[k], site |-> site]
  \/ \E switch \in DOMAIN Grant!Switches : \E value \in Grant!Switches[switch] :
       x = [does |-> "set", switch |-> switch, value |-> value, site |-> site]
ViewsHold == \A b \in Bearers : Again(bearers[b]) \/ Sees(bearers[b])

\* Tokens are issued in their order; one that redirected is not issued any more.
InOrder == \A k \in issued, j \in Grant!Tokens : j < k => j \in issued
SpentOnce == \A k \in Grant!Tokens : redirects[k] # 0 => k \in issued /\ grants[k].state # "issued"

GrantsInv ==
  GrantTypes /\ ViewsHold /\ InOrder /\ SpentOnce /\ Grant!OneTokenPerClick /\ Grant!RedirectsAreCurrent

LEMMA GrantNumbers ==
  /\ Lifetime \in Nat /\ GrantRetention \in Nat
  /\ MaxTokens \in Nat /\ MaxTime \in Nat /\ MaxSettings \in Nat
  /\ "none" \notin Presses /\ Grant!Tokens \subseteq Nat
BY GrantBounds DEF Grant!GrantConstants, Grant!Tokens

LEMMA SwitchFacts ==
  /\ DOMAIN Grant!Switches = {"endpoint", "binding", "action"}
  /\ \A s \in Sites, switch \in DOMAIN Grant!Switches : s[switch] \in Grant!Switches[switch]
  /\ \A s \in Sites, switch \in DOMAIN Grant!Switches : \A value \in Grant!Switches[switch] :
       [s EXCEPT ![switch] = value] \in Sites
<1>1. DOMAIN Grant!Switches = {"endpoint", "binding", "action"}
  BY DEF Grant!Switches
<1>2. /\ Grant!Switches["endpoint"] = {"on", "off"} /\ Grant!Switches["action"] = {"on", "off"}
      /\ Grant!Switches["binding"] = {"legacy", "native", "off"}
  BY DEF Grant!Switches
<1>3. ASSUME NEW s \in Sites
      PROVE  /\ s["endpoint"] \in {"on", "off"} /\ s["action"] \in {"on", "off"}
             /\ s["binding"] \in {"legacy", "native", "off"}
  BY DEF Sites
<1>4. ASSUME NEW s \in Sites
      PROVE  /\ \A value \in {"on", "off"} : [s EXCEPT !["endpoint"] = value] \in Sites
             /\ \A value \in {"on", "off"} : [s EXCEPT !["action"] = value] \in Sites
             /\ \A value \in {"legacy", "native", "off"} : [s EXCEPT !["binding"] = value] \in Sites
  BY DEF Sites
<1> QED BY <1>1, <1>2, <1>3, <1>4

LEMMA AgainDoes ==
  ASSUME NEW x, Again(x)
  PROVE  x.does \in {"rest", "claim again", "follow again", "set again"}
<1>1. CASE x = Grant!Idle
  BY <1>1 DEF Grant!Idle
<1>2. ASSUME NEW p \in Presses, NEW at \in Nat, x = [does |-> "claim again", press |-> p, at |-> at]
      PROVE  x.does \in {"rest", "claim again", "follow again", "set again"}
  BY <1>2
<1>3. ASSUME NEW k \in issued, x = [does |-> "follow again", token |-> k]
      PROVE  x.does \in {"rest", "claim again", "follow again", "set again"}
  BY <1>3
<1>4. ASSUME NEW switch \in DOMAIN Grant!Switches, NEW value \in Grant!Switches[switch],
             x = [does |-> "set again", switch |-> switch, value |-> value]
      PROVE  x.does \in {"rest", "claim again", "follow again", "set again"}
  BY <1>4
<1> QED BY <1>1, <1>2, <1>3, <1>4 DEF Again

LEMMA StaleForgets ==
  ASSUME NEW x, Again(x) \/ Sees(x) PROVE Again(Grant!Stale(x))
<1>1. CASE Again(x)
  <2>1. Grant!Stale(x) = x
    <3>1. x.does \notin {"claim", "follow", "set"}
      BY <1>1, AgainDoes
    <3> QED BY <3>1 DEF Grant!Stale
  <2> QED BY <1>1, <2>1
<1>2. ASSUME NEW p \in Presses, NEW at \in Nat, NEW known \in BOOLEAN,
             x = [does |-> "claim", press |-> p, at |-> at, known |-> known, live |-> Grant!Live(p), site |-> site]
      PROVE  Again(Grant!Stale(x))
  <2>1. Grant!Stale(x) = [does |-> "claim again", press |-> p, at |-> at]
    BY <1>2 DEF Grant!Stale
  <2> QED BY <2>1 DEF Again
<1>3. ASSUME NEW k \in issued,
             x = [does |-> "follow", token |-> k, grant |-> grants[k], site |-> site]
      PROVE  Again(Grant!Stale(x))
  <2>1. Grant!Stale(x) = [does |-> "follow again", token |-> k]
    BY <1>3 DEF Grant!Stale
  <2> QED BY <2>1 DEF Again
<1>4. ASSUME NEW switch \in DOMAIN Grant!Switches, NEW value \in Grant!Switches[switch],
             x = [does |-> "set", switch |-> switch, value |-> value, site |-> site]
      PROVE  Again(Grant!Stale(x))
  <2>1. Grant!Stale(x) = [does |-> "set again", switch |-> switch, value |-> value]
    BY <1>4 DEF Grant!Stale
  <2> QED BY <2>1 DEF Again
<1> QED BY <1>1, <1>2, <1>3, <1>4 DEF Sees

LEMMA RecordedOrNot == \A p : (p \in pressed) \in BOOLEAN
BY SMT

LEMMA FreshSees ==
  ASSUME NEW x, Again(x), x.does \in {"claim again", "follow again", "set again"}
  PROVE  Sees(Grant!Fresh(x))
<1>1. ASSUME NEW p \in Presses, NEW at \in Nat,
             x = [does |-> "claim again", press |-> p, at |-> at]
      PROVE  Sees(Grant!Fresh(x))
  <2>1. Grant!Fresh(x) = Grant!OfClaim(p, at)
    BY <1>1 DEF Grant!Fresh
  <2> DEFINE known == p \in pressed
  <2>2. known \in BOOLEAN
    BY RecordedOrNot
  <2>3. Grant!Fresh(x) = [does |-> "claim", press |-> p, at |-> at, known |-> known, live |-> Grant!Live(p),
                          site |-> site]
    BY <2>1 DEF Grant!OfClaim
  <2> HIDE DEF known
  <2> QED BY <2>2, <2>3 DEF Sees
<1>2. ASSUME NEW k \in issued, x = [does |-> "follow again", token |-> k]
      PROVE  Sees(Grant!Fresh(x))
  <2>1. Grant!Fresh(x) = Grant!OfFollow(k)
    BY <1>2 DEF Grant!Fresh
  <2> QED BY <2>1 DEF Sees, Grant!OfFollow
<1>3. ASSUME NEW switch \in DOMAIN Grant!Switches, NEW value \in Grant!Switches[switch],
             x = [does |-> "set again", switch |-> switch, value |-> value]
      PROVE  Sees(Grant!Fresh(x))
  <2>1. Grant!Fresh(x) = Grant!OfSetting(switch, value)
    BY <1>3 DEF Grant!Fresh
  <2> QED BY <2>1 DEF Sees, Grant!OfSetting
<1>4. x # Grant!Idle
  <2>1. Grant!Idle.does = "rest"
    BY DEF Grant!Idle
  <2> QED BY <2>1
<1> QED BY <1>1, <1>2, <1>3, <1>4 DEF Again

\* What an open transaction knows of the state it is in.
LEMMA ViewFacts ==
  ASSUME GrantTypes, ViewsHold, NEW b \in Bearers
  PROVE  /\ bearers[b].does = "claim" =>
              /\ bearers[b].press \in Presses /\ bearers[b].at \in Nat
              /\ bearers[b].live = Grant!Live(bearers[b].press) /\ bearers[b].site = site
         /\ bearers[b].does = "follow" =>
              /\ bearers[b].token \in issued /\ bearers[b].grant = grants[bearers[b].token]
              /\ bearers[b].site = site
         /\ bearers[b].does = "set" =>
              /\ bearers[b].switch \in DOMAIN Grant!Switches
              /\ bearers[b].value \in Grant!Switches[bearers[b].switch] /\ bearers[b].site = site
<1>1. Again(bearers[b]) \/ Sees(bearers[b])
  BY DEF ViewsHold
<1>2. CASE Again(bearers[b])
  <2>1. bearers[b].does \in {"rest", "claim again", "follow again", "set again"}
    BY <1>2, AgainDoes
  <2> QED BY <2>1
<1> DEFINE x == bearers[b]
<1> HIDE DEF x
<1>3. CASE \E p \in Presses, at \in Nat, known \in BOOLEAN :
             x = [does |-> "claim", press |-> p, at |-> at, known |-> known, live |-> Grant!Live(p), site |-> site]
  <2>1. /\ x.does = "claim" /\ x.press \in Presses /\ x.at \in Nat
        /\ x.live = Grant!Live(x.press) /\ x.site = site
    BY <1>3
  <2> QED BY <2>1 DEF x
<1>4. CASE \E k \in issued : x = [does |-> "follow", token |-> k, grant |-> grants[k], site |-> site]
  <2>1. /\ x.does = "follow" /\ x.token \in issued /\ x.grant = grants[x.token] /\ x.site = site
    BY <1>4
  <2> QED BY <2>1 DEF x
<1>5. CASE \E switch \in DOMAIN Grant!Switches : \E value \in Grant!Switches[switch] :
             x = [does |-> "set", switch |-> switch, value |-> value, site |-> site]
  <2>1. /\ x.does = "set" /\ x.switch \in DOMAIN Grant!Switches /\ x.value \in Grant!Switches[x.switch]
        /\ x.site = site
    BY <1>5
  <2> QED BY <2>1 DEF x
<1> QED BY <1>1, <1>2, <1>3, <1>4, <1>5 DEF Sees, x

\* The transactions a write does not spoil are those that rely on nothing it changes.
LEMMA ViewsKept ==
  ASSUME GrantTypes, ViewsHold, NEW cs \in SUBSET Bearers,
         DOMAIN bearers' = Bearers,
         \A b \in Bearers :
           bearers'[b] = Grant!Idle \/ bearers'[b] = IF b \in cs THEN Grant!Stale(bearers[b]) ELSE bearers[b],
         issued \subseteq issued',
         site' = site \/ cs = Bearers,
         \A b \in Bearers \ cs, p \in Presses :
           bearers[b].does = "claim" /\ bearers[b].press = p => Grant!Live(p)' = Grant!Live(p),
         \A b \in Bearers \ cs, k \in issued :
           bearers[b].does = "follow" /\ bearers[b].token = k => grants'[k] = grants[k]
  PROVE  ViewsHold'
<1> SUFFICES ASSUME NEW b \in Bearers PROVE (Again(bearers[b]) \/ Sees(bearers[b]))'
  BY DEF ViewsHold
<1>1. CASE bearers'[b] = Grant!Idle
  BY <1>1 DEF Again
<1>2. CASE bearers'[b] = Grant!Stale(bearers[b])
  <2>1. Again(Grant!Stale(bearers[b]))
    BY StaleForgets DEF ViewsHold
  <2> DEFINE x == Grant!Stale(bearers[b])
  <2> HIDE DEF x
  <2>2. x = bearers'[b] /\ Again(x)
    BY <1>2, <2>1 DEF x
  <2> QED BY <2>2 DEF Again
<1>3. CASE b \notin cs /\ bearers'[b] = bearers[b]
  <2>1. Again(bearers[b]) \/ Sees(bearers[b])
    BY DEF ViewsHold
  <2>2. CASE Again(bearers[b])
    BY <1>3, <2>2 DEF Again
  <2>3. site' = site
    BY <1>3
  <2>4. ASSUME NEW p \in Presses, NEW at \in Nat, NEW known \in BOOLEAN,
               bearers[b] = [does |-> "claim", press |-> p, at |-> at, known |-> known,
                             live |-> Grant!Live(p), site |-> site]
        PROVE  Sees(bearers[b])'
    <3>1. Grant!Live(p)' = Grant!Live(p)
      BY <1>3, <2>4
    <3>2. bearers'[b] = [does |-> "claim", press |-> p, at |-> at, known |-> known,
                         live |-> Grant!Live(p)', site |-> site']
      BY <1>3, <2>3, <2>4, <3>1
    <3> QED BY <3>2 DEF Sees
  <2>5. ASSUME NEW k \in issued,
               bearers[b] = [does |-> "follow", token |-> k, grant |-> grants[k], site |-> site]
        PROVE  Sees(bearers[b])'
    <3>1. grants'[k] = grants[k]
      BY <1>3, <2>5
    <3>2. bearers'[b] = [does |-> "follow", token |-> k, grant |-> grants'[k], site |-> site']
      BY <1>3, <2>3, <2>5, <3>1
    <3> QED BY <3>2 DEF Sees
  <2>6. ASSUME NEW switch \in DOMAIN Grant!Switches, NEW value \in Grant!Switches[switch],
               bearers[b] = [does |-> "set", switch |-> switch, value |-> value, site |-> site]
        PROVE  Sees(bearers[b])'
    <3>1. bearers'[b] = [does |-> "set", switch |-> switch, value |-> value, site |-> site']
      BY <1>3, <2>3, <2>6
    <3> QED BY <3>1 DEF Sees
  <2> QED BY <2>1, <2>2, <2>4, <2>5, <2>6 DEF Sees
<1> QED BY <1>1, <1>2, <1>3

LEMMA EndsFacts ==
  ASSUME GrantTypes, NEW b \in Bearers, NEW cs \in SUBSET Bearers, Grant!Ends(b, cs)
  PROVE  /\ DOMAIN bearers' = Bearers
         /\ \A c \in Bearers :
              bearers'[c] = Grant!Idle \/ bearers'[c] = IF c \in cs THEN Grant!Stale(bearers[c]) ELSE bearers[c]
BY DEF Grant!Ends, Grant!Spoiled

LEMMA GrantsInitInv == Grant!Init => GrantsInv
<1> SUFFICES ASSUME Grant!Init PROVE GrantsInv
  OBVIOUS
<1>1. Grant!NoGrant \in GrantRecord /\ Grant!NoGrant.state = "none"
  BY DEF Grant!NoGrant, GrantRecord
<1>2. PICK bound \in {"legacy", "off"} :
        site = [endpoint |-> "on", binding |-> bound, action |-> "on"]
  BY DEF Grant!Init
<1>3. site \in Sites /\ Grant!Coherent(site)
  BY <1>2 DEF Sites, Grant!Coherent
<1>4. \A b \in Bearers : Again(bearers[b])
  BY DEF Grant!Init, Again
<1> QED BY <1>1, <1>3, <1>4, GrantNumbers
    DEF Grant!Init, GrantsInv, GrantTypes, ViewsHold, InOrder, SpentOnce, Grant!OneTokenPerClick,
        Grant!RedirectsAreCurrent

\* A transaction begins, or runs again, and writes nothing yet.
LEMMA BearerMoves ==
  ASSUME GrantsInv, NEW b \in Bearers, NEW x, Again(x) \/ Sees(x),
         bearers' = [bearers EXCEPT ![b] = x], Grant!Kept, settings' \in 0..MaxSettings
  PROVE  GrantsInv'
<1>1. /\ GrantTypes' /\ InOrder' /\ SpentOnce' /\ Grant!OneTokenPerClick' /\ Grant!RedirectsAreCurrent'
  BY DEF GrantsInv, GrantTypes, InOrder, SpentOnce, Grant!OneTokenPerClick, Grant!RedirectsAreCurrent,
         Grant!Kept
<1>2. ViewsHold'
  <2> SUFFICES ASSUME NEW c \in Bearers PROVE (Again(bearers[c]) \/ Sees(bearers[c]))'
    BY DEF ViewsHold
  <2>1. DOMAIN bearers = Bearers
    BY DEF GrantsInv, GrantTypes
  <2> DEFINE y == IF c = b THEN x ELSE bearers[c]
  <2>2. Again(y) \/ Sees(y)
    BY DEF GrantsInv, ViewsHold
  <2>3. bearers'[c] = y
    BY <2>1
  <2> HIDE DEF y
  <2> QED BY <2>2, <2>3 DEF Again, Sees, Grant!Live, Grant!Kept
<1> QED BY <1>1, <1>2 DEF GrantsInv

LEMMA BeginsKeep ==
  ASSUME GrantsInv, NEW b \in Bearers,
         \/ \E p \in Presses : Grant!Claim(b, p)
         \/ \E k \in Grant!Tokens : Grant!Follow(b, k)
         \/ \E switch \in DOMAIN Grant!Switches : Grant!Administer(b, switch)
         \/ Grant!Retry(b)
  PROVE  GrantsInv'
<1>1. settings \in 0..MaxSettings /\ time \in Nat
  BY GrantNumbers DEF GrantsInv, GrantTypes
<1>2. ASSUME NEW p \in Presses, Grant!Claim(b, p) PROVE GrantsInv'
  <2>1. Sees(Grant!OfClaim(p, time))
    BY <1>1, RecordedOrNot DEF Sees, Grant!OfClaim
  <2> QED BY <1>1, <1>2, <2>1, BearerMoves DEF Grant!Claim, Grant!Begin
<1>3. ASSUME NEW k \in Grant!Tokens, Grant!Follow(b, k) PROVE GrantsInv'
  <2>1. Sees(Grant!OfFollow(k))
    BY <1>3 DEF Sees, Grant!OfFollow, Grant!Follow
  <2> QED BY <1>1, <1>3, <2>1, BearerMoves DEF Grant!Follow, Grant!Begin
<1>4. ASSUME NEW switch \in DOMAIN Grant!Switches, Grant!Administer(b, switch) PROVE GrantsInv'
  <2>1. PICK value \in Grant!Switches[switch] : Grant!Begin(b, Grant!OfSetting(switch, value))
    BY <1>4 DEF Grant!Administer
  <2>2. Sees(Grant!OfSetting(switch, value))
    BY DEF Sees, Grant!OfSetting
  <2>3. settings' \in 0..MaxSettings
    BY <1>1, <1>4, GrantNumbers DEF Grant!Administer
  <2> QED BY <2>1, <2>2, <2>3, BearerMoves DEF Grant!Begin
<1>5. CASE Grant!Retry(b)
  <2>1. Again(bearers[b])
    <3>1. Again(bearers[b]) \/ Sees(bearers[b])
      BY DEF GrantsInv, ViewsHold
    <3> DEFINE x == bearers[b]
    <3> HIDE DEF x
    <3>2. Sees(x) => x.does \in {"claim", "follow", "set"}
      BY DEF Sees
    <3> QED BY <1>5, <3>1, <3>2 DEF Grant!Retry, x
  <2>2. Sees(Grant!Fresh(bearers[b]))
    BY <1>5, <2>1, FreshSees DEF Grant!Retry
  <2> QED BY <1>1, <1>5, <2>2, BearerMoves DEF Grant!Retry
<1> QED BY <1>2, <1>3, <1>4, <1>5

LEMMA ClaimRefusedKeeps ==
  ASSUME GrantsInv, NEW b \in Bearers, Grant!ClaimRefused(b) PROVE GrantsInv'
<1>1. /\ Grant!Ends(b, {}) /\ Grant!Kept /\ UNCHANGED settings
  BY DEF Grant!ClaimRefused
<1>2. DOMAIN bearers' = Bearers /\ \A c \in Bearers : bearers'[c] = Grant!Idle \/ bearers'[c] = bearers[c]
  BY <1>1, EndsFacts DEF GrantsInv
<1>3. ViewsHold'
  <2>1. \A p \in Presses : Grant!Live(p)' = Grant!Live(p)
    BY <1>1 DEF Grant!Live, Grant!Kept
  <2> QED BY <1>1, <1>2, <2>1, ViewsKept DEF GrantsInv, Grant!Kept
<1>4. /\ GrantTypes' /\ InOrder' /\ SpentOnce' /\ Grant!OneTokenPerClick' /\ Grant!RedirectsAreCurrent'
  BY <1>1, <1>2
     DEF GrantsInv, GrantTypes, InOrder, SpentOnce, Grant!OneTokenPerClick, Grant!RedirectsAreCurrent, Grant!Kept
<1> QED BY <1>3, <1>4 DEF GrantsInv

\* The claim revokes what was issued for its click, and its token is the last one.
LEMMA IssueKeeps ==
  ASSUME GrantsInv, NEW b \in Bearers, Grant!Issue(b) PROVE GrantsInv'
<1> USE GrantNumbers
<1>1. /\ GrantTypes /\ ViewsHold /\ bearers[b].does = "claim" /\ bearers[b].press \in Presses
      /\ bearers[b].at \in Nat /\ bearers[b].live = Grant!Live(bearers[b].press)
  BY ViewFacts DEF GrantsInv, Grant!Issue, Grant!Claiming
<1> DEFINE p == bearers[b].press
<1>2. PICK k \in Grant!NextToken :
        /\ grants' = Grant!Granted(b, k) /\ issued' = issued \cup {k} /\ pressed' = pressed \cup {p}
        /\ Grant!Ends(b, Grant!ActionWritten \cup Grant!ByGrants(bearers[b].live))
        /\ UNCHANGED <<refused, site, redirects, astray, time, settings>>
  BY <1>1 DEF Grant!Issue
<1>3. k \in Grant!Tokens /\ k \notin issued /\ \A j \in Grant!Tokens \ issued : k <= j
  BY DEF Grant!NextToken
<1> DEFINE granted == [state |-> "issued", press |-> p, until |-> bearers[b].at + Lifetime, used |-> 0]
           cs == Grant!ActionWritten \cup Grant!ByGrants(bearers[b].live)
<1>4. /\ granted \in GrantRecord /\ granted.state = "issued" /\ granted.press = p
  BY <1>1 DEF GrantRecord
<1>5. /\ DOMAIN grants' = Grant!Tokens /\ grants'[k] = granted
      /\ \A g \in Grant!Tokens \ {k} :
           grants'[g] = IF g \in Grant!Live(p) THEN [grants[g] EXCEPT !.state = "revoked"] ELSE grants[g]
  BY <1>1, <1>2, <1>3 DEF Grant!Granted
<1> HIDE DEF granted
<1>6. \A g \in Grant!Tokens \ {k} :
        /\ grants'[g] \in GrantRecord /\ grants'[g].press = grants[g].press
        /\ grants'[g].state = IF g \in Grant!Live(p) THEN "revoked" ELSE grants[g].state
        /\ g \notin Grant!Live(p) => grants'[g] = grants[g]
  BY <1>1, <1>5 DEF GrantTypes, GrantRecord
<1>7. /\ cs \in SUBSET Bearers /\ DOMAIN bearers' = Bearers
      /\ \A c \in Bearers :
           bearers'[c] = Grant!Idle \/ bearers'[c] = IF c \in cs THEN Grant!Stale(bearers[c]) ELSE bearers[c]
  <2>1. cs \in SUBSET Bearers
    BY DEF Grant!ActionWritten, Grant!ByAction, Grant!ByGrants
  <2> QED BY <1>1, <1>2, <2>1, EndsFacts
<1>8. GrantTypes'
  <2>1. grants' \in [Grant!Tokens -> GrantRecord]
    <3>1. \A g \in Grant!Tokens : grants'[g] \in GrantRecord
      BY <1>4, <1>5, <1>6
    <3>2. grants' = [g \in Grant!Tokens |-> grants'[g]]
      BY <1>2 DEF Grant!Granted
    <3> QED BY <3>1, <3>2
  <2>2. \A g \in Grant!Tokens : grants'[g] = Grant!NoGrant \/
          (g \in issued' /\ grants'[g].state # "none" /\ grants'[g].press \in pressed')
    <3> SUFFICES ASSUME NEW g \in Grant!Tokens, grants'[g] # Grant!NoGrant
                 PROVE  g \in issued' /\ grants'[g].state # "none" /\ grants'[g].press \in pressed'
      OBVIOUS
    <3>1. CASE g = k
      BY <1>2, <1>4, <1>5, <3>1
    <3>2. CASE g # k /\ g \in Grant!Live(p)
      <4>1. grants[g].state = "issued" /\ grants[g] # Grant!NoGrant
        BY <3>2 DEF Grant!Live, Grant!NoGrant
      <4> QED BY <1>1, <1>2, <1>6, <3>2, <4>1 DEF GrantTypes
    <3>3. CASE g # k /\ g \notin Grant!Live(p)
      BY <1>1, <1>2, <1>6, <3>3 DEF GrantTypes
    <3> QED BY <3>1, <3>2, <3>3
  <2> QED BY <1>1, <1>2, <1>3, <1>7, <2>1, <2>2 DEF GrantTypes
<1>9. ViewsHold'
  <2>1. \A c \in Bearers \ cs : bearers[c].does \notin {"claim", "follow"}
    BY DEF Grant!ActionWritten, Grant!ByAction
  <2> HIDE DEF cs
  <2> QED BY <1>1, <1>2, <1>7, <2>1, ViewsKept
<1>10. InOrder'
  <2>1. k \in Nat /\ \A j \in Grant!Tokens : j \in Nat
    BY <1>3
  <2> QED BY <1>2, <1>3, <2>1 DEF GrantsInv, InOrder
<1>11. SpentOnce'
  <2>1. redirects[k] = 0
    BY <1>3 DEF GrantsInv, SpentOnce
  <2> QED BY <1>2, <1>6, <2>1 DEF GrantsInv, SpentOnce
<1>12. Grant!OneTokenPerClick'
  <2>1. ~refused'
    BY <1>2 DEF GrantsInv, Grant!OneTokenPerClick
  <2> SUFFICES ASSUME NEW i \in issued', NEW j \in issued', i < j, grants'[i].state = "issued"
               PROVE  grants'[j].press # grants'[i].press
    BY <2>1 DEF Grant!OneTokenPerClick
  <2>2. i \in Nat /\ j \in Nat /\ k \in Nat /\ i \in Grant!Tokens /\ j \in Grant!Tokens
    BY <1>2, <1>3 DEF GrantsInv, GrantTypes
  <2>3. i # k
    <3>1. i = k => j \in issued /\ i \notin issued
      BY <1>2, <1>3, <2>2
    <3> QED BY <2>2, <3>1 DEF GrantsInv, InOrder
  <2>4. i \in issued /\ i \notin Grant!Live(p) /\ grants[i].state = "issued"
        /\ grants'[i].press = grants[i].press
    BY <1>2, <1>6, <2>2, <2>3
  <2>5. CASE j = k
    BY <1>4, <1>5, <2>2, <2>4, <2>5 DEF Grant!Live
  <2>6. CASE j # k
    BY <1>2, <1>6, <2>2, <2>4, <2>6 DEF GrantsInv, Grant!OneTokenPerClick
  <2> QED BY <2>5, <2>6
<1>13. Grant!RedirectsAreCurrent'
  BY <1>2 DEF GrantsInv, Grant!RedirectsAreCurrent
<1> QED BY <1>8, <1>9, <1>10, <1>11, <1>12, <1>13 DEF GrantsInv

\* Tokens that are issued no more spoil whoever relied on them, and nobody else.
LEMMA SettledKeeps ==
  ASSUME GrantsInv, NEW ks \in SUBSET Grant!Tokens,
         DOMAIN bearers' = Bearers,
         \A b \in Bearers :
           bearers'[b] = Grant!Idle
           \/ bearers'[b] = IF b \in Grant!ByGrants(ks) THEN Grant!Stale(bearers[b]) ELSE bearers[b],
         grants' \in [Grant!Tokens -> GrantRecord],
         \A g \in Grant!Tokens \ ks : grants'[g] = grants[g],
         \A g \in ks : grants'[g] = Grant!NoGrant
                       \/ /\ g \in issued /\ grants[g] # Grant!NoGrant
                          /\ grants'[g].press = grants[g].press
                          /\ grants'[g].state \in {"consumed", "revoked"},
         UNCHANGED <<site, pressed, issued, refused>>
  PROVE  /\ ViewsHold' /\ InOrder' /\ Grant!OneTokenPerClick'
         /\ \A k \in Grant!Tokens : grants'[k] # Grant!NoGrant =>
              k \in issued' /\ grants'[k].state # "none" /\ grants'[k].press \in pressed'
         /\ \A g \in ks : grants'[g].state # "issued"
<1> USE GrantNumbers
<1>1. GrantTypes /\ ViewsHold
  BY DEF GrantsInv
<1>2. \A g \in ks : grants'[g].state # "issued"
  BY DEF Grant!NoGrant
<1>3. \A g \in Grant!Tokens : grants'[g].state = "issued" => g \notin ks /\ grants'[g] = grants[g]
  BY <1>2
<1>4. ViewsHold'
  <2> DEFINE cs == Grant!ByGrants(ks)
  <2>1. cs \in SUBSET Bearers
    BY DEF Grant!ByGrants
  <2>2. ASSUME NEW b \in Bearers \ cs, NEW p \in Presses,
               bearers[b].does = "claim", bearers[b].press = p
        PROVE  Grant!Live(p)' = Grant!Live(p)
    <3>1. bearers[b].live = Grant!Live(p) /\ bearers[b].live \cap ks = {}
      BY <1>1, <2>2, ViewFacts DEF Grant!ByGrants
    <3>2. \A g \in Grant!Tokens : g \in Grant!Live(p) => g \notin ks /\ grants'[g] = grants[g]
      BY <3>1
    <3> QED BY <1>3, <3>2 DEF Grant!Live
  <2>3. ASSUME NEW b \in Bearers \ cs, NEW k \in issued,
               bearers[b].does = "follow", bearers[b].token = k
        PROVE  grants'[k] = grants[k]
    <3>1. k \notin ks /\ k \in Grant!Tokens
      BY <1>1, <2>3 DEF Grant!ByGrants, GrantTypes
    <3> QED BY <3>1
  <2> HIDE DEF cs
  <2>4. \A b \in Bearers :
          bearers'[b] = Grant!Idle \/ bearers'[b] = IF b \in cs THEN Grant!Stale(bearers[b]) ELSE bearers[b]
    BY DEF cs
  <2> QED BY <1>1, <2>1, <2>2, <2>3, <2>4, ViewsKept
<1>5. InOrder'
  BY DEF GrantsInv, InOrder
<1>6. \A k \in Grant!Tokens :
        grants'[k] = Grant!NoGrant
        \/ (k \in issued' /\ grants'[k].state # "none" /\ grants'[k].press \in pressed')
  BY <1>1 DEF GrantTypes
<1>7. Grant!OneTokenPerClick'
  <2>1. ~refused'
    BY DEF GrantsInv, Grant!OneTokenPerClick
  <2> SUFFICES ASSUME NEW i \in issued', NEW j \in issued', i < j, grants'[i].state = "issued"
               PROVE  grants'[j].press # grants'[i].press
    BY <2>1 DEF Grant!OneTokenPerClick
  <2>2. i \in issued /\ j \in issued /\ i \in Grant!Tokens /\ j \in Grant!Tokens
    BY <1>1 DEF GrantTypes
  <2>3. grants'[i] = grants[i] /\ grants[i].state = "issued"
    BY <1>3, <2>2
  <2>4. grants[j].press # grants[i].press
    BY <2>2, <2>3 DEF GrantsInv, Grant!OneTokenPerClick
  <2>5. grants'[j] = Grant!NoGrant \/ grants'[j].press = grants[j].press
    BY <2>2
  <2>6. grants[i].press \in Presses
    BY <1>1, <2>2, <2>3 DEF GrantTypes, Grant!NoGrant
  <2> QED BY <2>3, <2>4, <2>5, <2>6 DEF Grant!NoGrant
<1> QED BY <1>1, <1>2, <1>4, <1>5, <1>6, <1>7

\* A redirect spends its token, or closes it; a token it saw closed it leaves.
LEMMA ConsumeKeeps ==
  ASSUME GrantsInv, NEW b \in Bearers, Grant!Consume(b) PROVE GrantsInv'
<1> USE GrantNumbers
<1> DEFINE k == bearers[b].token
           g == bearers[b].grant
<1>1. /\ GrantTypes /\ k \in issued /\ k \in Grant!Tokens /\ g = grants[k] /\ bearers[b].site = site
      /\ grants[k] \in GrantRecord
  BY ViewFacts DEF GrantsInv, GrantTypes, Grant!Consume
<1>2. UNCHANGED <<site, pressed, issued, refused, time, settings>>
  BY DEF Grant!Consume
<1>3. ASSUME NEW closed \in GrantRecord, closed.state \in {"consumed", "revoked"},
             closed.press = grants[k].press, grants[k].state = "issued",
             grants' = [grants EXCEPT ![k] = closed], Grant!Ends(b, Grant!ByGrants({k})),
             redirects' \in [Grant!Tokens -> Nat], astray' = FALSE,
             \A j \in Grant!Tokens : redirects'[j] <= 1,
             \A j \in Grant!Tokens \ {k} : redirects'[j] = redirects[j]
      PROVE  GrantsInv'
  <2>1. DOMAIN grants = Grant!Tokens
    BY <1>1 DEF GrantTypes
  <2>3. /\ grants' \in [Grant!Tokens -> GrantRecord] /\ grants'[k] = closed
        /\ \A j \in Grant!Tokens \ {k} : grants'[j] = grants[j]
    BY <1>1, <1>3, <2>1 DEF GrantTypes
  <2>4. grants[k] # Grant!NoGrant
    BY <1>3 DEF Grant!NoGrant
  <2>5. /\ DOMAIN bearers' = Bearers
        /\ \A c \in Bearers :
             bearers'[c] = Grant!Idle
             \/ bearers'[c] = IF c \in Grant!ByGrants({k}) THEN Grant!Stale(bearers[c]) ELSE bearers[c]
    <3>1. Grant!ByGrants({k}) \in SUBSET Bearers
      BY DEF Grant!ByGrants
    <3> QED BY <1>1, <1>3, <3>1, EndsFacts
  <2> HIDE DEF k, g
  <2>6. /\ ViewsHold' /\ InOrder' /\ Grant!OneTokenPerClick'
        /\ \A j \in Grant!Tokens :
             grants'[j] = Grant!NoGrant
             \/ (j \in issued' /\ grants'[j].state # "none" /\ grants'[j].press \in pressed')
    <3>1. {k} \in SUBSET Grant!Tokens
      BY <1>1
    <3>2. \A j \in {k} : j \in issued /\ grants[j] # Grant!NoGrant
                         /\ grants'[j].press = grants[j].press
                         /\ grants'[j].state \in {"consumed", "revoked"}
      BY <1>1, <1>3, <2>3, <2>4
    <3> QED BY <1>2, <2>3, <2>5, <3>1, <3>2, SettledKeeps
  <2>7. GrantTypes'
    BY <1>1, <1>2, <1>3, <2>3, <2>5, <2>6 DEF GrantTypes
  <2>8. SpentOnce'
    BY <1>1, <1>2, <1>3, <2>3 DEF GrantsInv, SpentOnce
  <2>9. Grant!RedirectsAreCurrent'
    BY <1>2, <1>3 DEF GrantsInv, Grant!RedirectsAreCurrent
  <2> QED BY <2>6, <2>7, <2>8, <2>9 DEF GrantsInv
<1>4. ASSUME Grant!Valid(b, g), grants' = [grants EXCEPT ![k] = [@ EXCEPT !.state = "consumed", !.used = time]],
             redirects' = [redirects EXCEPT ![k] = @ + 1], astray' = (astray \/ ~Grant!Usable(site)),
             Grant!Ends(b, Grant!ByGrants({k}))
      PROVE  GrantsInv'
  <2>1. grants[k].state = "issued" /\ Grant!Usable(site)
    BY <1>1, <1>4 DEF Grant!Valid
  <2>2. redirects \in [Grant!Tokens -> Nat] /\ redirects[k] = 0
    BY <1>1, <2>1 DEF GrantsInv, GrantTypes, SpentOnce
  <2>3. astray' = FALSE /\ \A j \in Grant!Tokens : redirects[j] <= 1
    BY <1>4, <2>1 DEF GrantsInv, Grant!RedirectsAreCurrent
  <2>4. redirects' = [redirects EXCEPT ![k] = 1]
    BY <1>1, <1>4, <2>2
  <2>5. /\ redirects' \in [Grant!Tokens -> Nat] /\ \A j \in Grant!Tokens : redirects'[j] <= 1
        /\ \A j \in Grant!Tokens \ {k} : redirects'[j] = redirects[j]
    BY <1>1, <2>2, <2>3, <2>4
  <2>6. time \in Nat /\ DOMAIN grants = Grant!Tokens
    BY <1>1 DEF GrantTypes
  <2> HIDE DEF k, g
  <2> DEFINE spent == [grants[k] EXCEPT !.state = "consumed", !.used = time]
  <2>7. spent \in GrantRecord /\ spent.state = "consumed" /\ spent.press = grants[k].press
    BY <1>1, <2>6 DEF GrantRecord
  <2>8. grants' = [grants EXCEPT ![k] = spent]
    BY <1>1, <1>4, <2>6
  <2> HIDE DEF spent
  <2> QED BY <1>3, <1>4, <2>1, <2>3, <2>5, <2>7, <2>8
<1>5. ASSUME g.state = "issued", grants' = [grants EXCEPT ![k].state = "revoked"],
             UNCHANGED <<redirects, astray>>, Grant!Ends(b, Grant!ByGrants({k}))
      PROVE  GrantsInv'
  <2>1. /\ redirects' \in [Grant!Tokens -> Nat] /\ astray' = FALSE
        /\ \A j \in Grant!Tokens : redirects'[j] <= 1
    BY <1>1, <1>5 DEF GrantsInv, GrantTypes, Grant!RedirectsAreCurrent
  <2> DEFINE closed == [grants[k] EXCEPT !.state = "revoked"]
  <2>2. closed \in GrantRecord /\ closed.state = "revoked" /\ closed.press = grants[k].press
    BY <1>1 DEF GrantRecord
  <2>3. grants' = [grants EXCEPT ![k] = closed]
    BY <1>5
  <2> HIDE DEF closed, k
  <2> QED BY <1>1, <1>3, <1>5, <2>1, <2>2, <2>3
<1>6. ASSUME Grant!Ends(b, {}), UNCHANGED <<grants, redirects, astray>>
      PROVE  GrantsInv'
  <2>1. DOMAIN bearers' = Bearers /\ \A c \in Bearers : bearers'[c] = Grant!Idle \/ bearers'[c] = bearers[c]
    BY <1>1, <1>6, EndsFacts
  <2> HIDE DEF k, g
  <2>2. ViewsHold'
    <3>1. \A p \in Presses : Grant!Live(p)' = Grant!Live(p)
      BY <1>6 DEF Grant!Live
    <3> QED BY <1>1, <1>2, <1>6, <2>1, <3>1, ViewsKept DEF GrantsInv
  <2>3. /\ GrantTypes' /\ InOrder' /\ SpentOnce' /\ Grant!OneTokenPerClick' /\ Grant!RedirectsAreCurrent'
    BY <1>2, <1>6, <2>1
       DEF GrantsInv, GrantTypes, InOrder, SpentOnce, Grant!OneTokenPerClick, Grant!RedirectsAreCurrent
  <2> QED BY <2>2, <2>3 DEF GrantsInv
<1> QED BY <1>4, <1>5, <1>6 DEF Grant!Consume

\* A setting writes a version of the endpoint, which everybody locks first.
LEMMA SetUpKeeps ==
  ASSUME GrantsInv, NEW b \in Bearers, Grant!SetUp(b) PROVE GrantsInv'
<1> DEFINE switch == bearers[b].switch
           value == bearers[b].value
           cs == Grant!ByEndpoint
<1>1. /\ GrantTypes /\ bearers[b].site = site
      /\ switch \in DOMAIN Grant!Switches /\ value \in Grant!Switches[switch]
  BY ViewFacts DEF GrantsInv, Grant!SetUp
<1>2. UNCHANGED <<pressed, grants, issued, redirects, astray, refused, time, settings>>
  BY DEF Grant!SetUp
<1>3. CASE /\ Grant!Coherent([site EXCEPT ![switch] = value])
           /\ site' = [site EXCEPT ![switch] = value] /\ Grant!Ends(b, cs)
  <2>1. site' \in Sites /\ Grant!Coherent(site')
    BY <1>1, <1>3, SwitchFacts DEF GrantTypes
  <2>2. cs \in SUBSET Bearers /\ cs = Bearers
    BY DEF Grant!ByEndpoint
  <2>3. /\ DOMAIN bearers' = Bearers
        /\ \A c \in Bearers :
             bearers'[c] = Grant!Idle \/ bearers'[c] = IF c \in cs THEN Grant!Stale(bearers[c]) ELSE bearers[c]
    BY <1>1, <1>3, <2>2, EndsFacts
  <2> HIDE DEF switch, value, cs
  <2>4. ViewsHold'
    BY <1>1, <1>2, <2>2, <2>3, ViewsKept DEF GrantsInv
  <2>5. Grant!RedirectsAreCurrent'
    BY <1>2, <2>1 DEF GrantsInv, Grant!RedirectsAreCurrent, Grant!Coherent
  <2>6. /\ GrantTypes' /\ InOrder' /\ SpentOnce' /\ Grant!OneTokenPerClick'
    BY <1>1, <1>2, <2>1, <2>3 DEF GrantsInv, GrantTypes, InOrder, SpentOnce, Grant!OneTokenPerClick
  <2> QED BY <2>4, <2>5, <2>6 DEF GrantsInv
<1>4. CASE Grant!Ends(b, {}) /\ UNCHANGED site
  <2>1. DOMAIN bearers' = Bearers /\ \A c \in Bearers : bearers'[c] = Grant!Idle \/ bearers'[c] = bearers[c]
    BY <1>1, <1>4, EndsFacts
  <2> HIDE DEF switch, value
  <2>2. ViewsHold'
    <3>1. \A p \in Presses : Grant!Live(p)' = Grant!Live(p)
      BY <1>2 DEF Grant!Live
    <3> QED BY <1>1, <1>2, <1>4, <2>1, <3>1, ViewsKept DEF GrantsInv
  <2>3. /\ GrantTypes' /\ InOrder' /\ SpentOnce' /\ Grant!OneTokenPerClick' /\ Grant!RedirectsAreCurrent'
    BY <1>2, <1>4, <2>1
       DEF GrantsInv, GrantTypes, InOrder, SpentOnce, Grant!OneTokenPerClick, Grant!RedirectsAreCurrent
  <2> QED BY <2>2, <2>3 DEF GrantsInv
<1> QED BY <1>1, <1>3, <1>4 DEF Grant!SetUp, Grant!Fence

LEMMA CollectKeeps ==
  ASSUME GrantsInv, Grant!Collect PROVE GrantsInv'
<1> DEFINE ks == Grant!Expired
<1>1. /\ GrantTypes /\ ks \in SUBSET Grant!Tokens
  BY DEF GrantsInv, Grant!Expired
<1>2. /\ grants' = [k \in Grant!Tokens |-> IF k \in ks THEN Grant!NoGrant ELSE grants[k]]
      /\ bearers' = Grant!Spoiled(Grant!ByGrants(ks))
      /\ UNCHANGED <<site, pressed, issued, redirects, astray, refused, time, settings>>
  BY DEF Grant!Collect
<1> HIDE DEF ks
<1>3. /\ grants' \in [Grant!Tokens -> GrantRecord]
      /\ \A g \in Grant!Tokens \ ks : grants'[g] = grants[g]
      /\ \A g \in ks : grants'[g] = Grant!NoGrant
  <2>1. Grant!NoGrant \in GrantRecord
    BY DEF Grant!NoGrant, GrantRecord
  <2> QED BY <1>1, <1>2, <2>1 DEF GrantTypes
<1>4. /\ DOMAIN bearers' = Bearers
      /\ \A c \in Bearers :
           bearers'[c] = IF c \in Grant!ByGrants(ks) THEN Grant!Stale(bearers[c]) ELSE bearers[c]
  BY <1>2 DEF Grant!Spoiled
<1>5. /\ ViewsHold' /\ InOrder' /\ Grant!OneTokenPerClick'
      /\ \A j \in Grant!Tokens :
           grants'[j] = Grant!NoGrant
           \/ (j \in issued' /\ grants'[j].state # "none" /\ grants'[j].press \in pressed')
  BY <1>1, <1>2, <1>3, <1>4, SettledKeeps
<1>6. GrantTypes'
  BY <1>1, <1>2, <1>3, <1>4, <1>5 DEF GrantTypes
<1>7. SpentOnce'
  BY <1>2, <1>3 DEF GrantsInv, SpentOnce, Grant!NoGrant
<1>8. Grant!RedirectsAreCurrent'
  BY <1>2 DEF GrantsInv, Grant!RedirectsAreCurrent
<1> QED BY <1>5, <1>6, <1>7, <1>8 DEF GrantsInv

\* The part rests, and only time passes.
LEMMA GrantsRest ==
  ASSUME GrantsInv, time' \in 0..MaxTime,
         UNCHANGED <<site, pressed, grants, bearers, issued, redirects, astray, refused, settings>>
  PROVE  GrantsInv'
<1>1. ViewsHold'
  BY DEF GrantsInv, ViewsHold, Again, Sees, Grant!Live
<1> QED BY <1>1
    DEF GrantsInv, GrantTypes, InOrder, SpentOnce, Grant!OneTokenPerClick, Grant!RedirectsAreCurrent

\* Every step of the grants keeps their invariant.
LEMMA GrantsNextInv == GrantsInv /\ Grant!Next => GrantsInv'
<1> SUFFICES ASSUME GrantsInv, Grant!Next PROVE GrantsInv'
  OBVIOUS
<1>1. ASSUME Grant!Tick PROVE GrantsInv'
  <2>1. time' \in 0..MaxTime
    BY <1>1, GrantNumbers DEF Grant!Tick, GrantsInv, GrantTypes
  <2> QED BY <1>1, <2>1, GrantsRest DEF Grant!Tick
<1>2. ASSUME NEW b \in Bearers,
             \/ \E p \in Presses : Grant!Claim(b, p)
             \/ \E k \in Grant!Tokens : Grant!Follow(b, k)
             \/ \E switch \in DOMAIN Grant!Switches : Grant!Administer(b, switch)
             \/ Grant!Retry(b)
      PROVE  GrantsInv'
  BY <1>2, BeginsKeep
<1>3. ASSUME NEW b \in Bearers, Grant!ClaimRefused(b) \/ Grant!Issue(b) \/ Grant!Consume(b) \/ Grant!SetUp(b)
      PROVE  GrantsInv'
  BY <1>3, ClaimRefusedKeeps, IssueKeeps, ConsumeKeeps, SetUpKeeps
<1> QED BY <1>1, <1>2, <1>3, CollectKeeps DEF Grant!Next

------------------------------------------------------------------------------
\* NativeForms: one lead per submission.
FormLead ==
  [data : FormData, capture : {"pending", "done", "skipped", "error"},
   snapshot : {"none", "raw", "reference"}, linked : BOOLEAN]
FormPost ==
  [at : {"post"}, data : FormData, seen : Forms!Leads, native : BOOLEAN]
  \cup [at : {"recovery", "erasure"}, seen : Forms!Leads, native : BOOLEAN]
FormTypes == Forms!NativeTypeOK /\ posts \in [Posts -> FormPost \cup {Forms!Waiting}]

\* A lead is never replaced: whoever saw one sees its form data still.
SeenIsKept ==
  \A h \in Posts : posts[h] # Forms!Waiting =>
    /\ posts[h].seen # Forms!NoLead => lead # Forms!NoLead /\ lead.data = posts[h].seen.data
    /\ posts[h].at = "recovery" => posts[h].seen # Forms!NoLead
    /\ posts[h].at = "erasure" => posts[h].seen.linked

FormsInv == FormTypes /\ SeenIsKept /\ Forms!OneLeadPerSubmission /\ Forms!ClicksHaveOneHome

LEMMA FormLeadFacts ==
  /\ Forms!NoLead.data = "none" /\ Forms!NoLead.capture = "none" /\ Forms!NoLead.snapshot = "none"
  /\ Forms!NoLead.linked = FALSE /\ Forms!Leads = {Forms!NoLead} \cup FormLead
  /\ \A row \in FormLead :
       /\ row # Forms!NoLead /\ row.data \in FormData /\ row.linked \in BOOLEAN
       /\ row.capture \in {"pending", "done", "skipped", "error"}
       /\ row.snapshot \in {"none", "raw", "reference"}
BY DEF Forms!NoLead, Forms!Leads, FormLead

LEMMA FormPostFacts ==
  ASSUME FormTypes, NEW h \in Posts, posts[h].at # "waiting"
  PROVE  /\ posts[h] # Forms!Waiting /\ posts[h].seen \in Forms!Leads
         /\ posts[h].at \in {"post", "recovery", "erasure"}
         /\ posts[h].at = "post" => posts[h].data \in FormData
<1>1. Forms!Waiting.at = "waiting"
  BY DEF Forms!Waiting
<1>2. posts[h] \in FormPost \cup {Forms!Waiting}
  BY DEF FormTypes
<1> QED BY <1>1, <1>2 DEF FormPost

LEMMA FormsInitInv == Forms!Init => FormsInv
<1> SUFFICES ASSUME Forms!Init PROVE FormsInv
  OBVIOUS
<1>1. FormTypes
  BY FormLeadFacts DEF Forms!Init, FormTypes, Forms!NativeTypeOK
<1> QED BY <1>1, FormLeadFacts
    DEF Forms!Init, FormsInv, SeenIsKept, Forms!OneLeadPerSubmission, Forms!ClicksHaveOneHome

\* What a step may do: the lead keeps its form data, a reply speaks of the lead there
\* is, and the click values stay in their home.
LEMMA FormsMove ==
  ASSUME FormsInv, NEW h \in Posts,
         lead' \in Forms!Leads, formEvent' \in {"none", "done", "erased"}, native' \in BOOLEAN,
         lead # Forms!NoLead => lead' # Forms!NoLead /\ lead'.data = lead.data,
         replies' \subseteq FormData \X {"lead", "conflict"},
         \A r \in replies' : r \in replies
           \/ (lead' # Forms!NoLead /\ (r[2] = "lead" <=> lead'.data = r[1])),
         Forms!ClicksHaveOneHome',
         \/ posts' = posts
         \/ posts' = [posts EXCEPT ![h] = Forms!Waiting]
         \/ \E post \in FormPost :
              /\ posts' = [posts EXCEPT ![h] = post] /\ post # Forms!Waiting /\ lead' = lead
              /\ post.seen = lead
              /\ post.at = "recovery" => lead # Forms!NoLead
              /\ post.at = "erasure" => lead.linked
  PROVE  FormsInv'
<1>1. FormTypes'
  BY DEF FormsInv, FormTypes, Forms!NativeTypeOK
<1>2. Forms!OneLeadPerSubmission'
  BY DEF FormsInv, Forms!OneLeadPerSubmission
<1>3. SeenIsKept'
  <2> SUFFICES ASSUME NEW g \in Posts, posts'[g] # Forms!Waiting
               PROVE  /\ posts'[g].seen # Forms!NoLead => lead' # Forms!NoLead /\ lead'.data = posts'[g].seen.data
                      /\ posts'[g].at = "recovery" => posts'[g].seen # Forms!NoLead
                      /\ posts'[g].at = "erasure" => posts'[g].seen.linked
    BY DEF SeenIsKept
  <2>1. DOMAIN posts = Posts
    BY DEF FormsInv, FormTypes
  <2>2. CASE posts'[g] = posts[g]
    BY <2>2 DEF FormsInv, SeenIsKept
  <2>3. CASE posts'[g] # posts[g]
    <3>1. PICK post \in FormPost :
            /\ posts' = [posts EXCEPT ![h] = post] /\ post # Forms!Waiting /\ lead' = lead
            /\ post.seen = lead
            /\ post.at = "recovery" => lead # Forms!NoLead
            /\ post.at = "erasure" => lead.linked
      BY <2>1, <2>3
    <3>2. posts'[g] = post
      BY <2>1, <2>3, <3>1
    <3> QED BY <3>1, <3>2
  <2> QED BY <2>2, <2>3
<1> QED BY <1>1, <1>2, <1>3 DEF FormsInv

\* Captured, refused or failed, the lead stays the lead of its form data.
LEMMA CaptureNowKeeps ==
  ASSUME FormsInv, NEW row \in FormLead, NEW failures \in SUBSET {"skipped", "error"},
         Forms!CaptureNow(row, failures),
         formEvent = "none" <=> ~row.linked,
         formEvent = "done" => row.snapshot = "reference",
         formEvent = "erased" => row.snapshot = "none"
  PROVE  /\ lead' \in FormLead /\ lead'.data = row.data
         /\ formEvent' \in {"none", "done", "erased"} /\ Forms!ClicksHaveOneHome'
<1>1. formEvent \in {"none", "done", "erased"}
  BY DEF FormsInv, FormTypes, Forms!NativeTypeOK
<1>2. CASE lead' = row /\ UNCHANGED formEvent
  BY <1>1, <1>2 DEF Forms!ClicksHaveOneHome
<1>3. CASE formEvent' = "done" /\ lead' = Forms!Captured(row)
  <2>1. /\ lead' \in FormLead /\ lead'.data = row.data /\ lead'.linked = TRUE
        /\ lead'.snapshot = "reference"
    BY <1>3 DEF Forms!Captured, FormLead
  <2> QED BY <1>3, <2>1 DEF Forms!ClicksHaveOneHome
<1>4. ASSUME UNCHANGED formEvent, NEW f \in failures, lead' = [row EXCEPT !.capture = f]
      PROVE  /\ lead' \in FormLead /\ lead'.data = row.data
             /\ formEvent' \in {"none", "done", "erased"} /\ Forms!ClicksHaveOneHome'
  <2>1. /\ lead' \in FormLead /\ lead'.data = row.data /\ lead'.linked = row.linked
        /\ lead'.snapshot = row.snapshot
    BY <1>4 DEF FormLead
  <2> QED BY <1>1, <1>4, <2>1 DEF Forms!ClicksHaveOneHome
<1> QED BY <1>2, <1>3, <1>4 DEF Forms!CaptureNow

LEMMA FormsStart ==
  ASSUME FormsInv, NEW h \in Posts,
         (\E d \in FormData : Forms!Arrive(h, d)) \/ Forms!StartRecovery(h) \/ Forms!StartErasure(h) \/ Forms!Restart(h)
  PROVE  FormsInv'
<1>1. /\ lead \in Forms!Leads /\ native \in BOOLEAN /\ formEvent \in {"none", "done", "erased"}
      /\ replies \subseteq FormData \X {"lead", "conflict"} /\ Forms!Waiting.at = "waiting"
      /\ Forms!ClicksHaveOneHome
  BY DEF FormsInv, FormTypes, Forms!NativeTypeOK, Forms!Waiting
<1>2. UNCHANGED <<lead, native, formEvent, inTime, replies>>
  BY DEF Forms!Arrive, Forms!StartRecovery, Forms!StartErasure, Forms!Restart
<1>3. Forms!ClicksHaveOneHome'
  BY <1>1, <1>2 DEF Forms!ClicksHaveOneHome
<1>4. ASSUME NEW post \in FormPost, posts' = [posts EXCEPT ![h] = post], post.at # "waiting",
             post.seen = lead, post.at = "recovery" => lead # Forms!NoLead,
             post.at = "erasure" => lead.linked
      PROVE  FormsInv'
  <2>1. post # Forms!Waiting
    BY <1>1, <1>4
  <2> QED BY <1>1, <1>2, <1>3, <1>4, <2>1, FormsMove
<1>5. ASSUME posts' = [posts EXCEPT ![h] = Forms!Waiting] PROVE FormsInv'
  BY <1>1, <1>2, <1>3, <1>5, FormsMove
<1>6. ASSUME NEW d \in FormData, Forms!Arrive(h, d) PROVE FormsInv'
  <2> DEFINE post == [at |-> "post", data |-> d, seen |-> lead, native |-> native]
  <2>1. post \in FormPost /\ post.at = "post" /\ post.seen = lead
    BY <1>1 DEF FormPost
  <2>2. posts' = [posts EXCEPT ![h] = post]
    BY <1>6 DEF Forms!Arrive
  <2> HIDE DEF post
  <2> QED BY <1>4, <2>1, <2>2
<1>7. CASE Forms!StartRecovery(h)
  <2> DEFINE post == [at |-> "recovery", seen |-> lead, native |-> native]
  <2>1. post \in FormPost /\ post.at = "recovery" /\ post.seen = lead
    BY <1>1 DEF FormPost
  <2>2. posts' = [posts EXCEPT ![h] = post] /\ lead # Forms!NoLead
    BY <1>7, FormLeadFacts DEF Forms!StartRecovery
  <2> HIDE DEF post
  <2> QED BY <1>4, <2>1, <2>2
<1>8. CASE Forms!StartErasure(h)
  <2> DEFINE post == [at |-> "erasure", seen |-> lead, native |-> native]
  <2>1. post \in FormPost /\ post.at = "erasure" /\ post.seen = lead
    BY <1>1 DEF FormPost
  <2>2. posts' = [posts EXCEPT ![h] = post] /\ lead.linked
    <3>1. lead.linked \in BOOLEAN
      BY <1>1, FormLeadFacts
    <3> QED BY <1>1, <1>8, <3>1 DEF Forms!StartErasure, Forms!ClicksHaveOneHome
  <2> HIDE DEF post
  <2> QED BY <1>4, <2>1, <2>2
<1>9. CASE Forms!Restart(h)
  <2>1. ASSUME posts[h].at = "post", Forms!Goes(h, [posts[h] EXCEPT !.seen = lead, !.native = native])
        PROVE  FormsInv'
    <3> DEFINE post == [posts[h] EXCEPT !.seen = lead, !.native = native]
    <3>1. posts[h] \in FormPost
      BY <1>1, <2>1 DEF FormsInv, FormTypes
    <3>2. post \in FormPost /\ post.at = "post" /\ post.seen = lead
      BY <1>1, <2>1, <3>1 DEF FormPost
    <3>3. posts' = [posts EXCEPT ![h] = post]
      BY <2>1 DEF Forms!Goes
    <3> HIDE DEF post
    <3> QED BY <1>4, <3>2, <3>3
  <2> QED BY <1>5, <1>9, <2>1 DEF Forms!Restart, Forms!Leave
<1> QED BY <1>6, <1>7, <1>8, <1>9

\* A form posted again finds its lead, or conflicts with it.
LEMMA PostKeeps ==
  ASSUME FormsInv, NEW h \in Posts, Forms!Post(h) PROVE FormsInv'
<1> DEFINE p == posts[h]
<1>1. /\ FormTypes /\ p # Forms!Waiting /\ p.at = "post" /\ p.data \in FormData /\ p.seen \in Forms!Leads
  BY FormPostFacts DEF FormsInv, Forms!Post
<1>2. /\ lead \in Forms!Leads /\ native \in BOOLEAN /\ formEvent \in {"none", "done", "erased"}
      /\ replies \subseteq FormData \X {"lead", "conflict"} /\ Forms!ClicksHaveOneHome
      /\ posts' = [posts EXCEPT ![h] = Forms!Waiting] /\ UNCHANGED <<native, inTime, posted>>
  BY DEF FormsInv, FormTypes, Forms!NativeTypeOK, Forms!Post, Forms!Leave
<1>3. p.seen # Forms!NoLead => lead # Forms!NoLead /\ lead.data = p.seen.data
  BY <1>1 DEF FormsInv, SeenIsKept
<1> DEFINE fresh(snapshot) == [data |-> p.data, snapshot |-> snapshot, linked |-> FALSE,
                               capture |-> IF snapshot = "raw" THEN "pending" ELSE "skipped"]
<1>4. CASE p.seen # Forms!NoLead /\ p.seen.data # p.data /\ Forms!Replied(h, "conflict")
           /\ UNCHANGED <<lead, formEvent>>
  <2>1. \A r \in replies' : r \in replies
           \/ (lead' # Forms!NoLead /\ (r[2] = "lead" <=> lead'.data = r[1]))
    BY <1>3, <1>4 DEF Forms!Replied
  <2>2. replies' \subseteq FormData \X {"lead", "conflict"}
    BY <1>1, <1>2, <1>4 DEF Forms!Replied
  <2>3. Forms!ClicksHaveOneHome'
    BY <1>2, <1>4 DEF Forms!ClicksHaveOneHome
  <2> QED BY <1>2, <1>4, <2>1, <2>2, <2>3, FormsMove
<1>5. ASSUME NEW row \in FormLead, row.data = p.data, Forms!CaptureNow(row, {"error"}), Forms!Replied(h, "lead"),
             formEvent = "none" <=> ~row.linked,
             formEvent = "done" => row.snapshot = "reference",
             formEvent = "erased" => row.snapshot = "none",
             lead # Forms!NoLead => row.data = lead.data
      PROVE  FormsInv'
  <2>1. /\ lead' \in FormLead /\ lead'.data = row.data
        /\ formEvent' \in {"none", "done", "erased"} /\ Forms!ClicksHaveOneHome'
    BY <1>5, CaptureNowKeeps
  <2>2. lead' \in Forms!Leads /\ lead' # Forms!NoLead
    BY <2>1, FormLeadFacts
  <2>3. \A r \in replies' : r \in replies
           \/ (lead' # Forms!NoLead /\ (r[2] = "lead" <=> lead'.data = r[1]))
    BY <1>5, <2>1, <2>2 DEF Forms!Replied
  <2>4. replies' \subseteq FormData \X {"lead", "conflict"}
    BY <1>1, <1>2, <1>5 DEF Forms!Replied
  <2> QED BY <1>2, <1>5, <2>1, <2>2, <2>3, <2>4, FormsMove
<1>6. CASE p.seen # Forms!NoLead /\ p.seen.data = p.data /\ Forms!CaptureNow(lead, {"error"}) /\ Forms!Replied(h, "lead")
  <2>1. lead \in FormLead /\ lead.data = p.data
    BY <1>2, <1>3, <1>6, FormLeadFacts
  <2> QED BY <1>2, <1>5, <1>6, <2>1 DEF Forms!ClicksHaveOneHome
<1>7. ASSUME lead = Forms!NoLead, NEW snapshot \in {"raw", "none"}, Forms!CaptureNow(fresh(snapshot), {"error"}),
             Forms!Replied(h, "lead")
      PROVE  FormsInv'
  <2> DEFINE row == fresh(snapshot)
  <2>1. row \in FormLead /\ row.data = p.data /\ row.linked = FALSE
    BY <1>1 DEF FormLead
  <2> HIDE DEF row, p
  <2>2. formEvent = "none"
    BY <1>2, <1>7, FormLeadFacts DEF Forms!ClicksHaveOneHome
  <2>3. Forms!CaptureNow(row, {"error"})
    BY <1>7 DEF row
  <2> QED BY <1>5, <1>7, <2>1, <2>2, <2>3
<1>8. CASE UNCHANGED <<lead, formEvent, replies>>
  <2>1. Forms!ClicksHaveOneHome'
    BY <1>2, <1>8 DEF Forms!ClicksHaveOneHome
  <2> QED BY <1>2, <1>8, <2>1, FormsMove
<1> QED BY <1>4, <1>6, <1>7, <1>8 DEF Forms!Post

\* The recovery and the erasure write the row they saw only.
LEMMA RecoverKeeps ==
  ASSUME FormsInv, NEW h \in Posts, Forms!Recover(h) PROVE FormsInv'
<1>1. /\ FormTypes /\ lead \in FormLead /\ formEvent \in {"none", "done", "erased"}
      /\ native \in BOOLEAN /\ replies \subseteq FormData \X {"lead", "conflict"}
      /\ posts' = [posts EXCEPT ![h] = Forms!Waiting] /\ UNCHANGED <<native, inTime, replies>>
      /\ Forms!ClicksHaveOneHome
  <2>1. posts[h] # Forms!Waiting /\ posts[h].seen # Forms!NoLead /\ posts[h].seen = lead /\ posts[h].seen \in Forms!Leads
    BY FormPostFacts DEF FormsInv, Forms!Recover, SeenIsKept
  <2>2. lead \in FormLead
    BY <2>1, FormLeadFacts
  <2> QED BY <2>2 DEF FormsInv, FormTypes, Forms!NativeTypeOK, Forms!Recover, Forms!Leave
<1>2. ASSUME lead' \in FormLead, lead'.data = lead.data,
             formEvent' \in {"none", "done", "erased"}, Forms!ClicksHaveOneHome'
      PROVE  FormsInv'
  <2>1. lead' \in Forms!Leads /\ lead' # Forms!NoLead
    BY <1>2, FormLeadFacts
  <2> QED BY <1>1, <1>2, <2>1, FormsMove
<1>3. CASE lead' = [lead EXCEPT !.capture = "skipped"] /\ UNCHANGED formEvent
  <2>1. /\ lead' \in FormLead /\ lead'.data = lead.data /\ lead'.linked = lead.linked
        /\ lead'.snapshot = lead.snapshot
    BY <1>1, <1>3 DEF FormLead
  <2> QED BY <1>1, <1>2, <1>3, <2>1 DEF Forms!ClicksHaveOneHome
<1>4. CASE Forms!CaptureNow(lead, {"skipped", "error"})
  <2>1. /\ lead' \in FormLead /\ lead'.data = lead.data
        /\ formEvent' \in {"none", "done", "erased"} /\ Forms!ClicksHaveOneHome'
    <3>1. /\ formEvent = "none" <=> ~lead.linked
          /\ formEvent = "done" => lead.snapshot = "reference"
          /\ formEvent = "erased" => lead.snapshot = "none"
      BY <1>1 DEF Forms!ClicksHaveOneHome
    <3>2. {"skipped", "error"} \in SUBSET {"skipped", "error"}
      OBVIOUS
    <3> QED BY <1>1, <1>4, <3>1, <3>2, CaptureNowKeeps
  <2> QED BY <1>2, <2>1
<1> QED BY <1>3, <1>4 DEF Forms!Recover

LEMMA EraseKeeps ==
  ASSUME FormsInv, NEW h \in Posts, Forms!Erase(h) PROVE FormsInv'
<1>1. /\ FormTypes /\ posts[h] # Forms!Waiting /\ posts[h].seen.linked /\ posts[h].seen = lead
      /\ lead \in Forms!Leads
  <2>1. posts[h] # Forms!Waiting /\ posts[h].seen.linked
    BY FormPostFacts DEF FormsInv, Forms!Erase, SeenIsKept
  <2> QED BY <2>1 DEF FormsInv, FormTypes, Forms!NativeTypeOK, Forms!Erase
<1>2. lead \in FormLead
  BY <1>1, FormLeadFacts
<1>3. /\ lead' = [lead EXCEPT !.snapshot = "none"] /\ formEvent' = "erased"
      /\ posts' = [posts EXCEPT ![h] = Forms!Waiting] /\ UNCHANGED <<native, inTime, replies>>
  BY <1>1 DEF Forms!Erase, Forms!Leave
<1>4. /\ lead' \in FormLead /\ lead'.data = lead.data /\ lead'.linked = lead.linked
      /\ lead'.snapshot = "none"
  BY <1>2, <1>3 DEF FormLead
<1>5. lead' \in Forms!Leads /\ lead' # Forms!NoLead
  BY <1>4, FormLeadFacts
<1>6. Forms!ClicksHaveOneHome'
  BY <1>1, <1>3, <1>4 DEF Forms!ClicksHaveOneHome
<1>7. native \in BOOLEAN /\ replies \subseteq FormData \X {"lead", "conflict"}
  BY <1>1 DEF FormTypes, Forms!NativeTypeOK
<1> QED BY <1>3, <1>4, <1>5, <1>6, <1>7, FormsMove

LEMMA FormsAround ==
  ASSUME FormsInv, Forms!RetryCapture \/ Forms!Around PROVE FormsInv'
<1>1. /\ FormTypes /\ Forms!ClicksHaveOneHome /\ lead \in Forms!Leads /\ native \in BOOLEAN
      /\ formEvent \in {"none", "done", "erased"}
  BY DEF FormsInv, FormTypes, Forms!NativeTypeOK
<1>2. UNCHANGED <<formEvent, posts, posted, replies>> /\ native' \in BOOLEAN
  BY <1>1 DEF Forms!RetryCapture, Forms!Around
<1>3. /\ lead' \in Forms!Leads /\ lead'.linked = lead.linked /\ lead'.snapshot = lead.snapshot
      /\ lead' = Forms!NoLead <=> lead = Forms!NoLead
      /\ lead'.data = lead.data
  <2>1. CASE Forms!RetryCapture
    <3>1. lead \in FormLead /\ lead' = [lead EXCEPT !.capture = "pending"]
      BY <1>1, <2>1, FormLeadFacts DEF Forms!RetryCapture
    <3>2. lead' \in FormLead /\ lead'.linked = lead.linked /\ lead'.snapshot = lead.snapshot
          /\ lead'.data = lead.data
      BY <3>1 DEF FormLead
    <3> QED BY <3>1, <3>2, FormLeadFacts
  <2>2. CASE Forms!Around
    BY <1>1, <2>2 DEF Forms!Around
  <2> QED BY <2>1, <2>2
<1>4. Forms!ClicksHaveOneHome' /\ FormTypes'
  BY <1>1, <1>2, <1>3 DEF Forms!ClicksHaveOneHome, FormTypes, Forms!NativeTypeOK
<1>5. SeenIsKept' /\ Forms!OneLeadPerSubmission'
  BY <1>2, <1>3 DEF FormsInv, SeenIsKept, Forms!OneLeadPerSubmission
<1> QED BY <1>4, <1>5 DEF FormsInv

\* Every step of the native forms keeps their invariant.
LEMMA FormsNextInv == FormsInv /\ Forms!Next => FormsInv'
BY FormsStart, PostKeeps, RecoverKeeps, EraseKeeps, FormsAround DEF Forms!Next

------------------------------------------------------------------------------
\* WebIntent: an intent and its projection.
\* What an open transaction remembers of jobs and touchpoints exists.
HandHolds(x) ==
  x.kind # "free" =>
    /\ x.kind = "job" => x.job \in IntentJobs
    /\ ~x.stale => x.active \subseteq IntentJobs /\ x.visits \subseteq Visits
HandsHold == DOMAIN hands = Hands /\ \A h \in Hands : HandHolds(hands[h])

IntentInv == Intents!IntentTypeOK /\ HandsHold /\ Intents!ProjectionIsExact

LEMMA IntentFacts ==
  ASSUME Intents!IntentTypeOK
  PROVE  /\ intent \in Intents!Intents /\ intent.state \in Intents!IntentStates /\ intent.attempts \in 0..MaxAttempts
         /\ intent.session \in BOOLEAN /\ intent.correlated \in BOOLEAN
         /\ Intents!Attempted \in 0..MaxAttempts
         /\ 1 \in 0..MaxAttempts /\ 0 \in 0..MaxAttempts
BY IntentBounds DEF Intents!IntentTypeOK, Intents!Intents, Intents!Attempted, Intents!IntentConstants

LEMMA IntentInitInv == Intents!Init => IntentInv
<1> SUFFICES ASSUME Intents!Init PROVE IntentInv
  OBVIOUS
<1>1. 0 \in 0..MaxAttempts
  BY IntentBounds DEF Intents!IntentConstants
<1>2. intent \in Intents!Intents /\ Intents!ProjectionIsExact
  <2>1. CASE intent = Intents!NoIntent
    BY <1>1, <2>1 DEF Intents!NoIntent, Intents!ProjectionIsExact, Intents!Intents, Intents!IntentStates,
                      Intents!Terminal, Intents!Reconciling, Intents!Exists
  <2>2. CASE intent = [Intents!NoIntent EXCEPT !.state = "pending", !.session = TRUE]
    BY <1>1, <2>2 DEF Intents!NoIntent, Intents!ProjectionIsExact, Intents!Intents, Intents!IntentStates,
                      Intents!Terminal, Intents!Reconciling, Intents!Exists
  <2> QED BY <2>1, <2>2 DEF Intents!Init
<1>3. HandsHold
  BY DEF Intents!Init, HandsHold, HandHolds, Intents!Free
<1> QED BY <1>2, <1>3 DEF Intents!Init, IntentInv, Intents!IntentTypeOK, Intents!ActiveJob

\* What a step leaves of the intent, whatever it does to the open transactions.
IntentGoesOn ==
  /\ intent' \in Intents!Intents
  /\ intent'.correlated <=> intent'.state = "done"
  /\ intent'.state \in Intents!Terminal => intent'.job = Intents!NoJob
  /\ intent'.state \notin Intents!Terminal \cup {"none"} => intent'.session

LEMMA IntentStays == IntentInv /\ UNCHANGED intent => IntentGoesOn
BY DEF IntentInv, Intents!IntentTypeOK, Intents!ProjectionIsExact, IntentGoesOn, Intents!Exists

LEMMA ErasedGoesOn ==
  ASSUME IntentInv, intent' = Intents!Erased PROVE IntentGoesOn
<1>1. /\ intent' \in Intents!Intents /\ intent'.job = Intents!NoJob /\ intent'.correlated = intent.correlated
      /\ intent'.state = IF intent.state = "done" THEN "done" ELSE "expired"
  BY DEF IntentInv, Intents!IntentTypeOK, Intents!Erased, Intents!Intents, Intents!IntentStates,
         Intents!Terminal, Intents!Reconciling
<1> QED BY <1>1 DEF IntentInv, Intents!ProjectionIsExact, IntentGoesOn, Intents!Terminal

LEMMA EnqueuedGoesOn ==
  ASSUME NEW row \in Intents!Intents, NEW s, Intents!Enqueued(row, s), s.active \subseteq IntentJobs,
         intentJobs \in [IntentJobs -> Intents!ActiveJob \cup {"unborn", "failed", "cancelled", "done"}],
         row.session, ~row.correlated, row.state \in {"pending", "retry"}
  PROVE  /\ IntentGoesOn
         /\ intentJobs' \in [IntentJobs -> Intents!ActiveJob \cup {"unborn", "failed", "cancelled", "done"}]
<1>1. PICK j \in IntentJobs : intent' = [row EXCEPT !.job = j]
  BY DEF Intents!Enqueued
<1>2. /\ intent' \in Intents!Intents /\ intent'.session = row.session /\ intent'.correlated = row.correlated
      /\ intent'.state = row.state
  BY <1>1 DEF Intents!Intents
<1> QED BY <1>2 DEF IntentGoesOn, Intents!Terminal, Intents!Enqueued, Intents!ActiveJob

\* The open transactions after a commit, a rollback or a beginning.
LEMMA HandsMove ==
  ASSUME HandsHold, NEW h \in Hands,
         \/ hands' = hands
         \/ Intents!Written(h)
         \/ Intents!Unchanged(h)
         \/ hands' = [g \in Hands |-> Intents!Outdate(g)]
         \/ \E kind, j : /\ hands' = [hands EXCEPT ![h] = Intents!Seen(kind, j)]
                         /\ kind = "job" => j \in IntentJobs
  PROVE  HandsHold'
<1>1. Intents!Free.kind = "free" /\ HandHolds(Intents!Free)
  BY DEF Intents!Free, HandHolds
<1>2. ASSUME NEW g \in Hands PROVE HandHolds(Intents!Outdate(g))
  <2>1. CASE hands[g].kind # "job"
    BY <1>1, <2>1 DEF Intents!Outdate
  <2>2. CASE hands[g].kind = "job"
    <3>1. Intents!Outdate(g) = [kind |-> "job", job |-> hands[g].job, stale |-> TRUE]
      BY <2>2 DEF Intents!Outdate
    <3>2. hands[g].job \in IntentJobs
      BY <2>2 DEF HandsHold, HandHolds
    <3> QED BY <3>1, <3>2 DEF HandHolds
  <2> QED BY <2>1, <2>2
<1>3. ASSUME NEW kind, NEW j, kind = "job" => j \in IntentJobs PROVE HandHolds(Intents!Seen(kind, j))
  <2>1. /\ Intents!Seen(kind, j).kind = kind /\ Intents!Seen(kind, j).job = j
        /\ Intents!Seen(kind, j).active \subseteq IntentJobs /\ Intents!Seen(kind, j).visits \subseteq Visits
    BY DEF Intents!Seen
  <2> QED BY <1>3, <2>1 DEF HandHolds
<1>4. CASE hands' = hands
  BY <1>4 DEF HandsHold
<1>5. CASE Intents!Written(h)
  BY <1>1, <1>2, <1>5 DEF HandsHold, Intents!Written
<1>6. CASE Intents!Unchanged(h)
  BY <1>1, <1>6 DEF HandsHold, Intents!Unchanged
<1>7. CASE hands' = [g \in Hands |-> Intents!Outdate(g)]
  BY <1>2, <1>7 DEF HandsHold
<1>8. ASSUME NEW kind, NEW j, hands' = [hands EXCEPT ![h] = Intents!Seen(kind, j)],
             kind = "job" => j \in IntentJobs
      PROVE  HandsHold'
  BY <1>3, <1>8 DEF HandsHold
<1> QED BY <1>4, <1>5, <1>6, <1>7, <1>8

LEMMA IntentAssembles ==
  ASSUME IntentGoesOn, HandsHold',
         intentJobs' \in [IntentJobs -> Intents!ActiveJob \cup {"unborn", "failed", "cancelled", "done"}],
         evidence' \in {"none", "done", "erased"}, linked' \subseteq Visits
  PROVE  IntentInv'
BY DEF IntentGoesOn, IntentInv, Intents!IntentTypeOK, Intents!ProjectionIsExact, Intents!Exists

LEMMA CaptureKeeps ==
  ASSUME IntentInv, NEW h \in Hands, Intents!Capture(h) PROVE IntentInv'
<1> DEFINE s == Intents!Seen("capture", Intents!NoJob)
           fresh(r) == [Intents!NoIntent EXCEPT !.state = r, !.session = TRUE, !.attempts = 1]
<1>1. /\ Intents!IntentTypeOK /\ HandsHold /\ 1 \in 0..MaxAttempts
      /\ s.active \subseteq IntentJobs /\ s.visits \subseteq Visits
  BY IntentFacts DEF IntentInv, Intents!Seen
<1>2. HandsHold'
  BY <1>1, HandsMove DEF Intents!Capture
<1>3. ASSUME NEW retention \in {"timed", "manual"}, evidence' = "done", linked' = s.visits,
             UNCHANGED intentJobs,
             intent' = [fresh("done") EXCEPT !.retention = retention, !.correlated = TRUE,
                          !.reconcile = IF window = "open" THEN "watching" ELSE "complete"]
      PROVE  IntentInv'
  <2>1. IntentGoesOn
    BY <1>1, <1>3 DEF IntentGoesOn, Intents!Intents, Intents!NoIntent, Intents!IntentStates, Intents!Terminal,
                      Intents!Reconciling
  <2> QED BY <1>1, <1>2, <1>3, <2>1, IntentAssembles DEF Intents!IntentTypeOK
<1>4. ASSUME NEW retention \in {"timed", "manual"}, UNCHANGED <<evidence, linked, intentJobs>>,
             intent' = [fresh("failed") EXCEPT !.retention = retention]
      PROVE  IntentInv'
  <2>1. IntentGoesOn
    BY <1>1, <1>4 DEF IntentGoesOn, Intents!Intents, Intents!NoIntent, Intents!IntentStates, Intents!Terminal,
                      Intents!Reconciling
  <2> QED BY <1>1, <1>2, <1>4, <2>1, IntentAssembles DEF Intents!IntentTypeOK
<1>5. ASSUME NEW retention \in {"timed", "manual"}, UNCHANGED <<evidence, linked>>,
             Intents!Enqueued([fresh("retry") EXCEPT !.retention = retention], s)
      PROVE  IntentInv'
  <2> DEFINE row == [fresh("retry") EXCEPT !.retention = retention]
  <2>1. row \in Intents!Intents /\ row.session /\ ~row.correlated /\ row.state = "retry"
    BY <1>1 DEF Intents!Intents, Intents!NoIntent, Intents!IntentStates, Intents!Terminal, Intents!Reconciling
  <2> HIDE DEF row, s
  <2>2. /\ IntentGoesOn
        /\ intentJobs' \in [IntentJobs -> Intents!ActiveJob \cup {"unborn", "failed", "cancelled", "done"}]
    BY <1>1, <1>5, <2>1, EnqueuedGoesOn DEF row, Intents!IntentTypeOK
  <2> QED BY <1>1, <1>2, <1>5, <2>2, IntentAssembles DEF Intents!IntentTypeOK
<1> QED BY <1>3, <1>4, <1>5 DEF Intents!Capture

\* The job of an intent projects it, gives it up, or leaves it for a later attempt.
LEMMA ProcessJobKeeps ==
  ASSUME IntentInv, NEW h \in Hands, Intents!ProcessJob(h) PROVE IntentInv'
<1> DEFINE s == hands[h]
<1>1. /\ Intents!IntentTypeOK /\ HandsHold /\ s.visits \subseteq Visits
  BY DEF IntentInv, HandsHold, HandHolds, Intents!ProcessJob, Intents!Open
<1>2. ASSUME Intents!JobEnds(h), IntentGoesOn, linked' \subseteq Visits, evidence' \in {"none", "done", "erased"}
      PROVE  IntentInv'
  <2>1. HandsHold'
    BY <1>1, <1>2, HandsMove DEF Intents!JobEnds
  <2>2. intentJobs' \in [IntentJobs -> Intents!ActiveJob \cup {"unborn", "failed", "cancelled", "done"}]
    BY <1>1, <1>2 DEF Intents!JobEnds, Intents!IntentTypeOK
  <2> QED BY <1>2, <2>1, <2>2, IntentAssembles
<1>3. CASE intent' = Intents!Erased /\ Intents!JobEnds(h) /\ UNCHANGED <<evidence, linked>>
  BY <1>1, <1>2, <1>3, ErasedGoesOn DEF Intents!IntentTypeOK
<1>4. CASE /\ intentJobs' = [intentJobs EXCEPT ![s.job] = "done"]
           /\ Intents!Unchanged(h) /\ UNCHANGED <<intent, linked>> /\ UNCHANGED Intents!Scenery
  <2>1. HandsHold'
    BY <1>1, <1>4, HandsMove
  <2>2. intentJobs' \in [IntentJobs -> Intents!ActiveJob \cup {"unborn", "failed", "cancelled", "done"}]
    BY <1>1, <1>4 DEF Intents!IntentTypeOK
  <2>3. IntentGoesOn
    BY <1>4, IntentStays
  <2> QED BY <1>1, <1>4, <2>1, <2>2, <2>3, IntentAssembles DEF Intents!IntentTypeOK, Intents!Scenery
<1>5. ASSUME Intents!Available, intent.state \notin Intents!Terminal, Intents!JobEnds(h),
             \/ intent' = Intents!Tombstoned /\ UNCHANGED <<evidence, linked>>
             \/ Intents!Correlates(s) \/ Intents!Refused
             \/ intent' = Intents!RetryLater /\ UNCHANGED <<evidence, linked>>
      PROVE  IntentInv'
  <2>1. /\ intent \in Intents!Intents /\ Intents!Attempted \in 0..MaxAttempts /\ intent.session /\ ~intent.correlated
        /\ intent.state # "done"
    BY <1>1, <1>5, IntentFacts DEF IntentInv, Intents!ProjectionIsExact, Intents!Available, Intents!Terminal
  <2>2. CASE intent' = Intents!Tombstoned /\ UNCHANGED <<evidence, linked>>
    <3>1. IntentGoesOn
      BY <2>1, <2>2 DEF IntentGoesOn, Intents!Tombstoned, Intents!Intents, Intents!IntentStates,
                        Intents!Terminal, Intents!Reconciling
    <3> QED BY <1>1, <1>2, <1>5, <2>2, <3>1 DEF Intents!IntentTypeOK
  <2>3. CASE Intents!Refused
    <3>1. IntentGoesOn
      BY <2>1, <2>3 DEF IntentGoesOn, Intents!Refused, Intents!Intents, Intents!IntentStates,
                        Intents!Terminal, Intents!Reconciling
    <3> QED BY <1>1, <1>2, <1>5, <2>3, <3>1 DEF Intents!IntentTypeOK, Intents!Refused
  <2>4. CASE intent' = Intents!RetryLater /\ UNCHANGED <<evidence, linked>>
    <3>1. IntentGoesOn
      BY <2>1, <2>4 DEF IntentGoesOn, Intents!RetryLater, Intents!Intents, Intents!IntentStates,
                        Intents!Terminal, Intents!Reconciling
    <3> QED BY <1>1, <1>2, <1>5, <2>4, <3>1 DEF Intents!IntentTypeOK
  <2>5. CASE Intents!Correlates(s)
    <3> DEFINE found(r) == [intent EXCEPT !.state = "done", !.attempts = Intents!Attempted, !.job = Intents!NoJob,
                              !.correlated = TRUE, !.reconcile = r]
    <3>1. linked' \subseteq Visits /\ evidence' = "done"
      BY <1>1, <2>5 DEF Intents!Correlates, Intents!SessionNow, Intents!IntentTypeOK
    <3>2. PICK r \in Intents!Reconciling \cup {"complete", "failed"} : intent' = found(r)
      <4>1. Intents!SessionNow(s)
        BY <2>5 DEF Intents!Correlates
      <4>2. CASE intent' = found(IF window = "open" THEN "watching" ELSE "complete")
        BY <4>2 DEF Intents!Reconciling
      <4>3. CASE \E r \in {"failed", "watching"} : intent' = found(r)
        BY <4>3 DEF Intents!Reconciling
      <4> QED BY <4>1, <4>2, <4>3 DEF Intents!SessionNow
    <3>3. IntentGoesOn
      BY <2>1, <3>2 DEF IntentGoesOn, Intents!Intents, Intents!IntentStates, Intents!Terminal
    <3> QED BY <1>2, <1>5, <3>1, <3>3
  <2> QED BY <1>5, <2>2, <2>3, <2>4, <2>5
<1> QED BY <1>3, <1>4, <1>5 DEF Intents!ProcessJob

\* What changes the queue, or what goes on around, leaves the intent alone.
LEMMA IntentRests ==
  ASSUME IntentInv, UNCHANGED <<intent, evidence, linked>>, HandsHold',
         intentJobs' \in [IntentJobs -> Intents!ActiveJob \cup {"unborn", "failed", "cancelled", "done"}]
  PROVE  IntentInv'
BY IntentStays, IntentAssembles DEF IntentInv, Intents!IntentTypeOK

LEMMA QueueKeeps ==
  ASSUME IntentInv, NEW h \in Hands,
         \/ \E j \in IntentJobs : Intents!StartJob(h, j) \/ Intents!DisturbJob(j)
         \/ Intents!Rollback(h)
         \/ \E kind \in {"enqueue", "reconcile"} : Intents!Start(h, kind)
         \/ Intents!Nothing(h)
  PROVE  IntentInv'
<1>1. Intents!IntentTypeOK /\ HandsHold
  BY DEF IntentInv
<1>2. ASSUME NEW j \in IntentJobs, Intents!StartJob(h, j) PROVE IntentInv'
  <2>1. HandsHold'
    BY <1>1, <1>2, HandsMove DEF Intents!StartJob
  <2> QED BY <1>1, <1>2, <2>1, IntentRests DEF Intents!StartJob, Intents!Scenery, Intents!IntentTypeOK,
                                               Intents!ActiveJob
<1>3. ASSUME NEW j \in IntentJobs, Intents!DisturbJob(j) PROVE IntentInv'
  <2>1. HandsHold'
    BY <1>1, <1>3, HandsMove DEF Intents!DisturbJob
  <2> QED BY <1>1, <1>3, <2>1, IntentRests DEF Intents!DisturbJob, Intents!Scenery, Intents!IntentTypeOK,
                                               Intents!ActiveJob
<1>4. CASE Intents!Rollback(h)
  <2>1. HandsHold'
    BY <1>1, <1>4, HandsMove DEF Intents!Rollback
  <2> QED BY <1>1, <1>4, <2>1, IntentRests DEF Intents!Rollback, Intents!Scenery, Intents!IntentTypeOK,
                                               Intents!ActiveJob
<1>5. ASSUME NEW kind \in {"enqueue", "reconcile"}, Intents!Start(h, kind) PROVE IntentInv'
  <2>1. HandsHold'
    BY <1>1, <1>5, HandsMove DEF Intents!Start
  <2> QED BY <1>1, <1>5, <2>1, IntentRests DEF Intents!Start, Intents!Scenery, Intents!IntentTypeOK
<1>6. CASE Intents!Nothing(h)
  <2>1. HandsHold'
    BY <1>1, <1>6, HandsMove DEF Intents!Nothing
  <2> QED BY <1>1, <1>6, <2>1, IntentRests DEF Intents!Nothing, Intents!Scenery, Intents!IntentTypeOK
<1> QED BY <1>2, <1>3, <1>4, <1>5, <1>6

LEMMA EnqueueDueKeeps ==
  ASSUME IntentInv, NEW h \in Hands, Intents!EnqueueDue(h) PROVE IntentInv'
<1> DEFINE s == hands[h]
<1>1. /\ Intents!IntentTypeOK /\ HandsHold /\ s.active \subseteq IntentJobs /\ intent \in Intents!Intents
  BY IntentFacts DEF IntentInv, HandsHold, HandHolds, Intents!EnqueueDue, Intents!Open
<1>2. CASE Intents!Nothing(h)
  BY <1>2, QueueKeeps
<1>3. ASSUME intent.state \in {"pending", "retry"}, UNCHANGED <<evidence, linked>>, Intents!Commits(h),
             \/ \E j \in s.active : intent' = [intent EXCEPT !.job = j] /\ UNCHANGED intentJobs
             \/ intent' = [intent EXCEPT !.state = "failed", !.job = Intents!NoJob] /\ UNCHANGED intentJobs
             \/ intent' = Intents!Erased /\ UNCHANGED intentJobs
             \/ Intents!Enqueued(intent, s)
             \/ UNCHANGED <<intent, intentJobs>>
      PROVE  IntentInv'
  <2>1. HandsHold'
    BY <1>1, <1>3, HandsMove DEF Intents!Commits
  <2>2. intent.session /\ ~intent.correlated
    BY <1>1, <1>3, IntentFacts DEF IntentInv, Intents!ProjectionIsExact, Intents!Exists, Intents!Terminal
  <2> SUFFICES /\ IntentGoesOn
               /\ intentJobs' \in [IntentJobs -> Intents!ActiveJob \cup {"unborn", "failed", "cancelled", "done"}]
    BY <1>1, <1>3, <2>1, IntentAssembles DEF Intents!IntentTypeOK
  <2>3. ASSUME NEW j \in s.active, intent' = [intent EXCEPT !.job = j] PROVE IntentGoesOn
    <3>1. /\ intent' \in Intents!Intents /\ intent'.session = intent.session
          /\ intent'.correlated = intent.correlated /\ intent'.state = intent.state
      BY <1>1, <2>3 DEF Intents!Intents
    <3> QED BY <1>3, <2>2, <3>1 DEF IntentGoesOn, Intents!Terminal
  <2>4. ASSUME intent' = [intent EXCEPT !.state = "failed", !.job = Intents!NoJob] PROVE IntentGoesOn
    BY <1>1, <2>2, <2>4 DEF IntentGoesOn, Intents!Intents, Intents!IntentStates, Intents!Terminal
  <2>5. intentJobs \in [IntentJobs -> Intents!ActiveJob \cup {"unborn", "failed", "cancelled", "done"}]
    BY <1>1 DEF Intents!IntentTypeOK
  <2>6. CASE Intents!Enqueued(intent, s)
    <3> HIDE DEF s
    <3> QED BY <1>1, <1>3, <2>2, <2>5, <2>6, EnqueuedGoesOn
  <2> QED BY <1>3, <2>3, <2>4, <2>5, <2>6, ErasedGoesOn, IntentStays
<1> QED BY <1>2, <1>3 DEF Intents!EnqueueDue

\* A pass over the session changes what is linked and what remains to reconcile.
LEMMA PassGoesOn ==
  ASSUME IntentInv, NEW s, NEW wanted \in BOOLEAN, Intents!Pass(s, wanted), s.visits \subseteq Visits
  PROVE  IntentGoesOn /\ linked' \subseteq Visits
<1>1. intent \in Intents!Intents /\ linked \subseteq Visits
  BY DEF IntentInv, Intents!IntentTypeOK
<1>2. ASSUME UNCHANGED linked, intent' = IF Intents!MustErase THEN Intents!Erased ELSE intent
      PROVE  IntentGoesOn /\ linked' \subseteq Visits
  BY <1>1, <1>2, ErasedGoesOn, IntentStays
<1>3. ASSUME NEW r \in {"complete", "watching", "failed"}, intent.state = "done",
             intent' = [intent EXCEPT !.reconcile = r]
      PROVE  IntentGoesOn
  <2>1. /\ intent' \in Intents!Intents /\ intent'.session = intent.session /\ intent'.job = intent.job
        /\ intent'.correlated = intent.correlated /\ intent'.state = intent.state
    BY <1>1, <1>3 DEF Intents!Intents, Intents!Reconciling
  <2> QED BY <1>3, <2>1 DEF IntentInv, Intents!ProjectionIsExact, IntentGoesOn, Intents!Terminal
<1>4. ASSUME intent.state = "done", UNCHANGED linked, NEW r \in {"complete", "watching", "failed"},
             intent' = [intent EXCEPT !.reconcile = r]
      PROVE  IntentGoesOn /\ linked' \subseteq Visits
  BY <1>1, <1>3, <1>4
<1>5. ASSUME intent.state = "done", linked' = linked \cup s.visits,
             intent' = [intent EXCEPT !.reconcile =
                          IF window = "closed" THEN "complete" ELSE "watching"]
      PROVE  IntentGoesOn /\ linked' \subseteq Visits
  BY <1>1, <1>3, <1>5
<1> QED BY <1>2, <1>4, <1>5 DEF Intents!Pass

\* The passes over due and old intents.
LEMMA PassesKeep ==
  ASSUME IntentInv, NEW h \in Hands, Intents!Reconcile(h) \/ Intents!RetrySession(h) PROVE IntentInv'
<1>1. Intents!IntentTypeOK /\ HandsHold
  BY DEF IntentInv
<1>2. ASSUME NEW s, NEW wanted \in BOOLEAN, Intents!Pass(s, wanted), s.visits \subseteq Visits, Intents!Commits(h),
             UNCHANGED <<evidence, intentJobs>>
      PROVE  IntentInv'
  <2>1. HandsHold'
    BY <1>1, <1>2, HandsMove DEF Intents!Commits
  <2> QED BY <1>1, <1>2, <2>1, PassGoesOn, IntentAssembles DEF Intents!IntentTypeOK
<1>3. CASE Intents!Reconcile(h)
  <2>1. hands[h].visits \subseteq Visits
    BY <1>1, <1>3 DEF HandsHold, HandHolds, Intents!Reconcile, Intents!Open
  <2>2. (intent.reconcile \in Intents!Reconciling /\ hands[h].form.mode = "legacy") \in BOOLEAN
    OBVIOUS
  <2> QED BY <1>2, <1>3, <2>1, <2>2 DEF Intents!Reconcile
<1>4. CASE Intents!RetrySession(h)
  <2>1. Intents!Seen("retry", Intents!NoJob).visits \subseteq Visits
    BY DEF Intents!Seen
  <2> QED BY <1>2, <1>4, <2>1 DEF Intents!RetrySession, Intents!Locks
<1> QED BY <1>3, <1>4

LEMMA LocksKeep ==
  ASSUME IntentInv, NEW h \in Hands,
         Intents!RetryIntent(h) \/ Intents!ExpireSession(h) \/ Intents!ExpireEvent(h) \/ Intents!ApplyRetention(h)
  PROVE  IntentInv'
<1>1. /\ Intents!IntentTypeOK /\ HandsHold /\ intent \in Intents!Intents /\ Intents!Commits(h)
      /\ intentJobs \in [IntentJobs -> Intents!ActiveJob \cup {"unborn", "failed", "cancelled", "done"}]
  BY DEF IntentInv, Intents!IntentTypeOK, Intents!RetryIntent, Intents!ExpireSession, Intents!ExpireEvent,
         Intents!ApplyRetention, Intents!Locks
<1>2. HandsHold'
  BY <1>1, HandsMove DEF Intents!Commits
<1>3. ASSUME IntentGoesOn, evidence' \in {"none", "done", "erased"}, UNCHANGED linked,
             intentJobs' \in [IntentJobs -> Intents!ActiveJob \cup {"unborn", "failed", "cancelled", "done"}]
      PROVE  IntentInv'
  BY <1>1, <1>2, <1>3, IntentAssembles DEF Intents!IntentTypeOK
<1>4. evidence \in {"none", "done", "erased"}
  BY <1>1 DEF Intents!IntentTypeOK
<1>5. CASE Intents!RetryIntent(h)
  <2>1. CASE intent' = Intents!Erased /\ UNCHANGED intentJobs
    BY <1>1, <1>3, <1>4, <1>5, <2>1, ErasedGoesOn DEF Intents!RetryIntent
  <2> DEFINE row == [intent EXCEPT !.state = "retry", !.attempts = 0, !.job = Intents!NoJob]
             s == Intents!Seen("retry", Intents!NoJob)
  <2>2. CASE Intents!Available /\ Intents!Enqueued(row, s)
    <3>1. row \in Intents!Intents /\ row.session = intent.session /\ row.correlated = intent.correlated
          /\ row.state = "retry"
      BY <1>1, IntentFacts DEF Intents!Intents, Intents!IntentStates
    <3>2. s.active \subseteq IntentJobs
      BY DEF Intents!Seen
    <3>3. intent.session /\ ~intent.correlated
      BY <1>1, <1>5, <2>2, IntentFacts DEF Intents!Available, Intents!RetryIntent, IntentInv,
                                           Intents!ProjectionIsExact
    <3> HIDE DEF row, s
    <3>4. /\ IntentGoesOn
          /\ intentJobs' \in [IntentJobs -> Intents!ActiveJob \cup {"unborn", "failed", "cancelled", "done"}]
      BY <1>1, <2>2, <3>1, <3>2, <3>3, EnqueuedGoesOn
    <3> QED BY <1>3, <1>4, <1>5, <3>4 DEF Intents!RetryIntent
  <2> QED BY <1>5, <2>1, <2>2 DEF Intents!RetryIntent
<1>6. CASE Intents!ExpireSession(h)
  BY <1>1, <1>3, <1>4, <1>6, ErasedGoesOn DEF Intents!ExpireSession
<1>7. CASE Intents!ExpireEvent(h)
  <2>1. IntentGoesOn
    BY <1>7, ErasedGoesOn, IntentStays DEF Intents!ExpireEvent
  <2> QED BY <1>1, <1>3, <1>7, <2>1 DEF Intents!ExpireEvent
<1>8. CASE Intents!ApplyRetention(h)
  <2>1. PICK r \in {"timed", "manual"} : intent' = [intent EXCEPT !.retention = r]
    BY <1>8 DEF Intents!ApplyRetention
  <2>2. /\ intent' \in Intents!Intents /\ intent'.session = intent.session /\ intent'.job = intent.job
        /\ intent'.correlated = intent.correlated /\ intent'.state = intent.state
    BY <1>1, <2>1 DEF Intents!Intents
  <2>3. IntentGoesOn
    BY <2>2 DEF IntentInv, Intents!ProjectionIsExact, IntentGoesOn, Intents!Exists, Intents!Terminal
  <2> QED BY <1>1, <1>3, <1>4, <1>8, <2>3 DEF Intents!ApplyRetention
<1> QED BY <1>5, <1>6, <1>7, <1>8

LEMMA IntentSceneryKeeps ==
  ASSUME IntentInv, (\E p \in Visits : Intents!VisitArrives(p)) \/ Intents!TimePasses \/ Intents!ChangeForm \/ Intents!DeleteLead
  PROVE  IntentInv'
<1>1. UNCHANGED <<intent, evidence, linked, intentJobs>>
  BY DEF Intents!VisitArrives, Intents!TimePasses, Intents!ChangeForm, Intents!DeleteLead
<1>2. HandsHold'
  <2>1. CASE hands' = hands
    BY <2>1 DEF IntentInv, HandsHold
  <2>2. CASE Hands = {} /\ hands' = [g \in Hands |-> Intents!Outdate(g)]
    BY <2>2 DEF HandsHold
  <2>3. CASE Hands # {} /\ hands' = [g \in Hands |-> Intents!Outdate(g)]
    BY <2>3, HandsMove DEF IntentInv
  <2> QED BY <2>1, <2>2, <2>3 DEF Intents!VisitArrives, Intents!TimePasses, Intents!ChangeForm,
                                  Intents!DeleteLead
<1> QED BY <1>1, <1>2, IntentRests DEF IntentInv, Intents!IntentTypeOK

LEMMA DisturbKeeps ==
  ASSUME IntentInv, NEW j \in IntentJobs, Intents!DisturbJob(j) PROVE IntentInv'
<1>1. Intents!IntentTypeOK /\ UNCHANGED <<intent, linked, hands, evidence>>
  BY DEF IntentInv, Intents!DisturbJob, Intents!Scenery
<1>2. HandsHold'
  BY <1>1 DEF IntentInv, HandsHold
<1> QED BY <1>1, <1>2, IntentRests DEF Intents!DisturbJob, Intents!IntentTypeOK, Intents!ActiveJob

\* Every step of an intent keeps its invariant.
LEMMA IntentNextInv == IntentInv /\ Intents!Next => IntentInv'
<1> SUFFICES ASSUME IntentInv, Intents!Next PROVE IntentInv'
  OBVIOUS
<1>1. ASSUME NEW h \in Hands,
             \/ Intents!Capture(h) \/ (\E j \in IntentJobs : Intents!StartJob(h, j)) \/ Intents!ProcessJob(h) \/ Intents!Rollback(h)
             \/ (\E kind \in {"enqueue", "reconcile"} : Intents!Start(h, kind)) \/ Intents!EnqueueDue(h)
      PROVE  IntentInv'
  BY <1>1, CaptureKeeps, QueueKeeps, ProcessJobKeeps, EnqueueDueKeeps
<1>2. ASSUME NEW h \in Hands,
             \/ Intents!Reconcile(h) \/ Intents!RetrySession(h) \/ Intents!RetryIntent(h)
             \/ Intents!ExpireSession(h) \/ Intents!ExpireEvent(h) \/ Intents!ApplyRetention(h)
      PROVE  IntentInv'
  BY <1>2, PassesKeep, LocksKeep
<1>3. ASSUME NEW j \in IntentJobs, Intents!DisturbJob(j) PROVE IntentInv'
  BY <1>3, DisturbKeeps
<1> QED BY <1>1, <1>2, <1>3, IntentSceneryKeeps DEF Intents!Next

\* An erased intent is terminal, and no step takes it further.
LEMMA ErasedStays ==
  ASSUME IntentInv, Intents!Next, Intents!Exists, ~intent.session
  PROVE  UNCHANGED <<intent, linked>>
<1>1. intent.state \in Intents!Terminal /\ intent.state # "none" /\ ~Intents!Available /\ ~Intents!MustErase
  BY DEF IntentInv, Intents!ProjectionIsExact, Intents!Exists, Intents!Available, Intents!MustErase
<1>2. ASSUME NEW h \in Hands, Intents!Capture(h) PROVE UNCHANGED <<intent, linked>>
  <2>1. Intents!NoIntent.state = "none"
    BY DEF Intents!NoIntent
  <2> QED BY <1>1, <1>2, <2>1 DEF Intents!Capture
<1>3. ASSUME NEW h \in Hands, Intents!ProcessJob(h) PROVE UNCHANGED <<intent, linked>>
  BY <1>1, <1>3 DEF Intents!ProcessJob
<1>4. ASSUME NEW h \in Hands, Intents!EnqueueDue(h) PROVE UNCHANGED <<intent, linked>>
  BY <1>1, <1>4 DEF Intents!EnqueueDue, Intents!Nothing, Intents!Terminal
<1>5. ASSUME NEW h \in Hands, Intents!Reconcile(h) \/ Intents!RetrySession(h) PROVE UNCHANGED <<intent, linked>>
  BY <1>1, <1>5 DEF Intents!Reconcile, Intents!RetrySession, Intents!Pass
<1>6. ASSUME NEW h \in Hands, Intents!RetryIntent(h) PROVE UNCHANGED <<intent, linked>>
  BY <1>1, <1>6 DEF Intents!RetryIntent
<1>7. ASSUME NEW h \in Hands, Intents!ExpireSession(h) \/ Intents!ExpireEvent(h) \/ Intents!ApplyRetention(h)
      PROVE  UNCHANGED <<intent, linked>>
  BY <1>1, <1>7 DEF Intents!ExpireSession, Intents!ExpireEvent, Intents!ApplyRetention
<1>8. ASSUME \/ \E h \in Hands :
                  \/ (\E j \in IntentJobs : Intents!StartJob(h, j)) \/ Intents!Rollback(h)
                  \/ (\E kind \in {"enqueue", "reconcile"} : Intents!Start(h, kind))
             \/ \E j \in IntentJobs : Intents!DisturbJob(j)
             \/ \E p \in Visits : Intents!VisitArrives(p)
             \/ Intents!TimePasses \/ Intents!ChangeForm \/ Intents!DeleteLead
      PROVE  UNCHANGED <<intent, linked>>
  BY <1>8 DEF Intents!StartJob, Intents!Rollback, Intents!Start, Intents!DisturbJob, Intents!VisitArrives,
              Intents!TimePasses, Intents!ChangeForm, Intents!DeleteLead
<1> QED BY <1>2, <1>3, <1>4, <1>5, <1>6, <1>7, <1>8 DEF Intents!Next

------------------------------------------------------------------------------
\* WhatsappJourney: what is not as it should be, is owed by a queued job.
LinkRow ==
  [state : {"none", "active", "dead"}, lead : Businesses \cup {Journey!NoBusiness},
   revision : Nat, pending : BOOLEAN]
HandoffRow ==
  [point : {"none", "live", "erased"}, erased : BOOLEAN, due : BOOLEAN,
   allowed : BOOLEAN, withdrawn : BOOLEAN]
JourneyJob ==
  [kind : {"match", "link", "wake", "erasure", "withdrawal"},
   link : Nat, revision : Nat, after : Nat]

JourneyTypes ==
  /\ match \in [state : {"none", "suggested", "claimed", "rejected"}, revision : Nat, pending : BOOLEAN]
  /\ link \in [ConversationLinks -> LinkRow] /\ handoff \in HandoffRow
  /\ support \in [ConversationLinks -> [Businesses -> {"none", "active", "revoked"}]]
  /\ homed \subseteq Businesses /\ utmDue \subseteq Businesses /\ shown \subseteq Businesses
  /\ journeyJobs \subseteq JourneyJob

\* No job is ahead of its authority, and nothing was credited before there
\* was a match or a business.
JobsTell ==
  \A j \in journeyJobs :
    /\ j.kind = "match" => j.revision <= match.revision
    /\ j.kind = "link" => j.link \in ConversationLinks /\ link[j.link].state # "none"
NothingBefore ==
  /\ match.state = "none" => /\ ~match.pending /\ shown = {}
                             /\ \A l \in ConversationLinks, b \in Businesses : support[l][b] = "none"
  /\ \A l \in ConversationLinks :
       /\ link[l].state # "none" => link[l].lead \in Businesses
       /\ link[l].state = "none" => ~link[l].pending /\ \A b \in Businesses : support[l][b] = "none"

\* The work still queued under the revisions of the moment.
LinkDue(l) ==
  \E j \in journeyJobs : j.kind = "link" /\ j.link = l /\ j.revision = link[l].revision
MatchDue(l) ==
  \E j \in journeyJobs : j.kind = "match" /\ j.revision = match.revision /\ j.after < l
WakeDue == \E j \in journeyJobs : j.kind = "wake" /\ j.revision = match.revision
ErasureDue ==
  (handoff.due /\ ~handoff.erased) \/ \E j \in journeyJobs : j.kind = "erasure"

\* Whatever is not as it should be, is owed.
ReviewsOwed ==
  /\ match.pending => \E j \in journeyJobs : j.kind = "match" /\ j.revision = match.revision
  /\ \A l \in ConversationLinks : link[l].pending => LinkDue(l)
Misled(l, b) ==
  \/ support[l][b] = "active" /\ ~Journey!Grounded(l, b)
  \/ support[l][b] = "none" /\ Journey!Grounded(l, b) /\ b \in homed /\ handoff.point = "live"
SupportOwed ==
  \A l \in ConversationLinks, b \in Businesses :
    Misled(l, b) => LinkDue(l) \/ MatchDue(l) \/ ErasureDue
PointSettled ==
  (~match.pending \/ \E j \in journeyJobs :
                       j.kind = "match" /\ j.revision = match.revision /\ j.after > 0)
    => Journey!Projected = handoff
Leads(l, b) == link[l].state = "active" /\ link[l].lead = b
UtmOwed ==
  \A b \in Businesses : ~(b \in shown <=> Journey!Effective(b)) =>
    \/ b \in utmDue
    \/ \E l \in ConversationLinks : link[l].lead = b /\ LinkDue(l)
    \/ (\E l \in ConversationLinks : Leads(l, b)) /\ (match.pending \/ WakeDue \/ ErasureDue)

JourneyInv ==
  /\ JourneyTypes /\ JobsTell /\ NothingBefore
  /\ ReviewsOwed /\ SupportOwed /\ PointSettled /\ UtmOwed

\* The instances have their own names for the sizes of sets.
LEMMA SameSizes ==
  \A S : /\ (Ingress!IsFiniteSet(S) <=> IsFiniteSet(S)) /\ Ingress!Cardinality(S) = Cardinality(S)
         /\ (Journey!IsFiniteSet(S) <=> IsFiniteSet(S)) /\ Journey!Cardinality(S) = Cardinality(S)
BY DEF Ingress!IsFiniteSet, Journey!IsFiniteSet, IsFiniteSet,
       Ingress!Cardinality, Journey!Cardinality, Cardinality

LEMMA JourneyNumbers ==
  /\ ConversationLinks \subseteq Nat \ {0} /\ IsFiniteSet(ConversationLinks) /\ Batch \in Nat \ {0}
BY JourneyBounds, SameSizes DEF Journey!JourneyConstants

\* A finite set of links that is not empty has a first one and a last one:
\* the link with the fewest links before it, or after it.
LEMMA FirstAndLast ==
  ASSUME NEW S \in SUBSET ConversationLinks, S # {}
  PROVE  /\ \E l \in S : \A k \in S : l <= k
         /\ \E l \in S : \A k \in S : k <= l
<1>1. S \subseteq Nat /\ IsFiniteSet(S)
  BY JourneyNumbers, FS_Subset
<1>2. \E l \in S : \A k \in S : l <= k
  <2> DEFINE R == OpToRel(<, Nat)
  <2>1. PICK l \in S : \A k \in S : <<k, l>> \notin R
    BY <1>1, NatLessThanWellFounded, WFMin
  <2>2. \A k \in S : ~(k < l)
    BY <1>1, <2>1 DEF OpToRel
  <2> QED BY <1>1, <2>2
<1>3. \E l \in S : \A k \in S : k <= l
  <2> DEFINE Past(l) == {k \in S : k > l}
             Sizes == {Cardinality(Past(l)) : l \in S}
             R == OpToRel(<, Nat)
  <2>1. \A l \in S : IsFiniteSet(Past(l)) /\ Cardinality(Past(l)) \in Nat
    <3>1. \A l \in S : Past(l) \in SUBSET S
      OBVIOUS
    <3> QED BY <1>1, <3>1, FS_Subset, FS_CardinalityType
  <2>2. Sizes \subseteq Nat /\ Sizes # {}
    BY <2>1
  <2> HIDE DEF Sizes
  <2>3. PICK n \in Sizes : \A m \in Sizes : <<m, n>> \notin R
    BY <2>2, NatLessThanWellFounded, WFMin
  <2>4. \A m \in Sizes : ~(m < n)
    BY <2>2, <2>3 DEF OpToRel
  <2>5. PICK l \in S : n = Cardinality(Past(l))
    BY DEF Sizes
  <2>6. ASSUME NEW k \in S, k > l PROVE FALSE
    <3>0. \A m \in S : m \in Nat
      BY <1>1
    <3>1. Past(k) \in SUBSET Past(l) /\ k \in Past(l) /\ k \notin Past(k)
      BY <2>6, <3>0
    <3>2. Past(k) # Past(l)
      BY <3>1
    <3> HIDE DEF Past
    <3>3. Cardinality(Past(k)) < Cardinality(Past(l))
      BY <2>1, <3>1, <3>2, FS_Subset
    <3>4. Cardinality(Past(k)) \in Sizes
      BY DEF Sizes
    <3> QED BY <2>4, <2>5, <3>3, <3>4
  <2> QED BY <1>1, <2>6
<1> QED BY <1>2, <1>3

\* A page and what it leaves for the next one.
LEMMA Pages ==
  ASSUME JourneyTypes, NEW n \in Nat
  PROVE  /\ Journey!Page(n) \subseteq Journey!After(n) /\ Journey!After(n) \subseteq ConversationLinks
         /\ Journey!After(n) # Journey!Page(n) => /\ Journey!Last(Journey!Page(n)) \in Journey!Page(n)
                                                  /\ \A l \in Journey!After(n) \ Journey!Page(n) : Journey!Last(Journey!Page(n)) < l
<1> USE JourneyNumbers
<1>1. Journey!Page(n) \subseteq Journey!After(n) /\ Journey!After(n) \subseteq ConversationLinks
  BY DEF Journey!Page, Journey!After
<1>0. \A k \in Journey!After(n) : k \in Nat
  BY <1>1
<1> DEFINE Before(l) == {k \in Journey!After(n) : k < l}
<1>2. \A l \in Journey!After(n) : IsFiniteSet(Before(l)) /\ Cardinality(Before(l)) \in Nat
  <2>1. \A l \in Journey!After(n) : Before(l) \in SUBSET ConversationLinks
    BY <1>1
  <2> QED BY <2>1, FS_Subset, FS_CardinalityType
<1>3. \A l \in Journey!After(n) : l \in Journey!Page(n) <=> Cardinality(Before(l)) < Batch
  BY SameSizes DEF Journey!Page
<1>4. ASSUME Journey!After(n) # Journey!Page(n)
      PROVE  /\ Journey!Last(Journey!Page(n)) \in Journey!Page(n)
             /\ \A l \in Journey!After(n) \ Journey!Page(n) : Journey!Last(Journey!Page(n)) < l
  <2>1. PICK f \in Journey!After(n) : \A k \in Journey!After(n) : f <= k
    <3>1. Journey!After(n) # {}
      BY <1>1, <1>4
    <3> QED BY <1>1, <3>1, FirstAndLast
  <2>2. f \in Journey!Page(n)
    <3>1. Before(f) = {}
      BY <1>0, <2>1
    <3>2. Cardinality(Before(f)) = 0
      BY <3>1, FS_EmptySet
    <3> HIDE DEF Before
    <3> QED BY <1>3, <2>1, <3>2
  <2>3. \E l \in Journey!Page(n) : \A k \in Journey!Page(n) : k <= l
    <3>1. Journey!Page(n) \in SUBSET ConversationLinks /\ Journey!Page(n) # {}
      BY <1>1, <2>2
    <3> QED BY <3>1, FirstAndLast
  <2>4. Journey!Last(Journey!Page(n)) \in Journey!Page(n)
    BY <2>3 DEF Journey!Last
  <2>5. ASSUME NEW l \in Journey!After(n) \ Journey!Page(n), NEW k \in Journey!Page(n) PROVE k < l
    <3>1. SUFFICES ASSUME l <= k PROVE FALSE
      BY <1>0, <1>1
    <3>2. l # k /\ k \in Journey!After(n) /\ l \in Journey!After(n)
      BY <1>1
    <3>3. Before(l) \in SUBSET Before(k)
      BY <1>0, <3>1, <3>2
    <3> HIDE DEF Before
    <3>4. Cardinality(Before(l)) <= Cardinality(Before(k))
      BY <1>2, <3>2, <3>3, FS_Subset
    <3> QED BY <1>2, <1>3, <3>2, <3>4
  <2> QED BY <2>4, <2>5
<1> QED BY <1>1, <1>4

\* What pairing a page leaves behind.
WellPaired(P, page, point) ==
  /\ P \in [ConversationLinks -> [Businesses -> {"none", "active", "revoked"}]]
  /\ \A l \in ConversationLinks, b \in Businesses :
       /\ l \notin page => P[l][b] = support[l][b]
       /\ l \in page /\ P[l][b] = "active" => Journey!Grounded(l, b)
       /\ l \in page /\ P[l][b] = "none" => ~(Journey!Grounded(l, b) /\ b \in homed /\ point = "live")
       /\ Journey!Grounded(l, b) /\ support[l][b] = "active" => P[l][b] = "active"
       /\ P[l][b] = "active" /\ support[l][b] # "active" => Journey!Grounded(l, b) /\ l \in page
       /\ support[l][b] = "none" /\ P[l][b] # "none" => Journey!Grounded(l, b)
LEMMA Pairing ==
  ASSUME JourneyTypes, NEW page \in SUBSET ConversationLinks, NEW point
  PROVE  WellPaired(Journey!Paired(page, point), page, point)
<1> DEFINE P == Journey!Paired(page, point)
<1>1. \A l \in ConversationLinks, b \in Businesses :
        P[l][b] = IF l \notin page THEN support[l][b]
                  ELSE IF Journey!Retired(l, b) THEN "revoked"
                  ELSE IF Journey!Granted(l, b, point) THEN "active" ELSE support[l][b]
  BY DEF Journey!Paired
<1>2. \A l \in ConversationLinks, b \in Businesses : support[l][b] \in {"none", "active", "revoked"}
  BY DEF JourneyTypes
<1>3. P \in [ConversationLinks -> [Businesses -> {"none", "active", "revoked"}]]
  BY <1>2 DEF Journey!Paired
<1> HIDE DEF P
<1>4. \A l \in ConversationLinks, b \in Businesses : Journey!Grounded(l, b) => ~Journey!Retired(l, b)
  BY DEF Journey!Grounded, Journey!Retired, Journey!Stale
<1>5. ASSUME NEW l \in ConversationLinks, NEW b \in Businesses
      PROVE  /\ l \notin page => P[l][b] = support[l][b]
             /\ l \in page /\ P[l][b] = "active" => Journey!Grounded(l, b)
             /\ l \in page /\ P[l][b] = "none" => ~(Journey!Grounded(l, b) /\ b \in homed /\ point = "live")
             /\ Journey!Grounded(l, b) /\ support[l][b] = "active" => P[l][b] = "active"
             /\ P[l][b] = "active" /\ support[l][b] # "active" => Journey!Grounded(l, b) /\ l \in page
             /\ support[l][b] = "none" /\ P[l][b] # "none" => Journey!Grounded(l, b)
  <2>1. support[l][b] = "active" /\ ~Journey!Grounded(l, b) => Journey!Retired(l, b)
    BY DEF Journey!Retired
  <2>2. Journey!Retired(l, b) => support[l][b] = "active"
    BY DEF Journey!Retired
  <2> QED BY <1>1, <1>2, <1>4, <2>1, <2>2 DEF Journey!Granted
<1>6. WellPaired(P, page, point)
  BY <1>3, <1>5 DEF WellPaired
<1> QED BY <1>6 DEF P

LEMMA JourneyInitInv == Journey!Init => JourneyInv
<1> SUFFICES ASSUME Journey!Init PROVE JourneyInv
  OBVIOUS
<1>1. /\ match = Journey!NoMatch /\ support = [l \in ConversationLinks |-> [b \in Businesses |-> "none"]]
      /\ journeyJobs = {} /\ utmDue = {} /\ shown = {} /\ homed = Businesses
      /\ handoff = [point |-> "none", erased |-> FALSE, due |-> FALSE, allowed |-> TRUE, withdrawn |-> FALSE]
  BY DEF Journey!Init
<1>2. /\ link \in [ConversationLinks -> LinkRow]
      /\ \A l \in ConversationLinks :
           /\ ~link[l].pending
           /\ link[l].state # "none" => link[l].lead \in Businesses
  <2>1. CASE link = [l \in ConversationLinks |-> Journey!NoLink]
    BY <2>1 DEF Journey!NoLink, LinkRow
  <2>2. ASSUME NEW b \in Businesses,
               link = [l \in ConversationLinks |-> [Journey!NoLink EXCEPT !.state = "active", !.lead = b]]
        PROVE  /\ link \in [ConversationLinks -> LinkRow]
               /\ \A l \in ConversationLinks :
                    /\ ~link[l].pending
                    /\ link[l].state # "none" => link[l].lead \in Businesses
    <3> DEFINE row == [Journey!NoLink EXCEPT !.state = "active", !.lead = b]
    <3>1. Journey!NoLink \in LinkRow /\ Journey!NoLink.pending = FALSE
      BY DEF Journey!NoLink, LinkRow
    <3>2. row.state = "active" /\ row.lead = b /\ row.pending = FALSE /\ row \in LinkRow
      BY <3>1 DEF LinkRow
    <3>3. link = [l \in ConversationLinks |-> row]
      BY <2>2
    <3> HIDE DEF row
    <3> QED BY <3>2, <3>3
  <2> QED BY <2>1, <2>2 DEF Journey!Init
<1>3. \A l \in ConversationLinks, b \in Businesses : support[l][b] = "none"
  BY <1>1
<1>4. match.state = "none" /\ match.revision = 0 /\ match.pending = FALSE
  BY <1>1 DEF Journey!NoMatch
<1>5. JourneyTypes
  <2>1. match \in [state : {"none", "suggested", "claimed", "rejected"}, revision : Nat, pending : BOOLEAN]
    BY <1>1 DEF Journey!NoMatch
  <2>2. handoff \in HandoffRow
    BY <1>1 DEF HandoffRow
  <2>3. support \in [ConversationLinks -> [Businesses -> {"none", "active", "revoked"}]]
    BY <1>1
  <2> QED BY <1>1, <1>2, <2>1, <2>2, <2>3 DEF JourneyTypes
<1>6. JobsTell
  BY <1>1 DEF JobsTell
<1>7. NothingBefore
  BY <1>1, <1>2, <1>3, <1>4 DEF NothingBefore
<1>8. ~Journey!ClaimValid /\ \A l, b : ~Journey!Grounded(l, b)
  BY <1>4 DEF Journey!ClaimValid, Journey!Grounded
<1>9. ReviewsOwed
  BY <1>2, <1>4 DEF ReviewsOwed
<1>10. SupportOwed
  BY <1>3, <1>8 DEF SupportOwed, Misled
<1>11. PointSettled
  BY <1>8 DEF PointSettled, Journey!Projected
<1>12. UtmOwed
  BY <1>1, <1>8 DEF UtmOwed, Journey!Effective
<1> QED BY <1>5, <1>6, <1>7, <1>9, <1>10, <1>11, <1>12 DEF JourneyInv

\* Once nothing is queued, nothing is owed.
LEMMA JourneyGives == JourneyInv => Journey!JourneyTypeOK /\ Journey!JourneyConverges
<1> SUFFICES ASSUME JourneyInv PROVE Journey!JourneyTypeOK /\ Journey!JourneyConverges
  OBVIOUS
<1>1. Journey!JourneyTypeOK
  BY DEF JourneyInv, JourneyTypes, Journey!JourneyTypeOK, LinkRow, HandoffRow
<1>2. ASSUME Journey!AtRest
      PROVE  /\ ~match.pending /\ (\A l \in ConversationLinks : ~link[l].pending)
             /\ \A l \in ConversationLinks, b \in Businesses :
                  /\ support[l][b] = "active" => Journey!Grounded(l, b)
                  /\ Journey!Grounded(l, b) /\ b \in homed /\ handoff.point = "live" => support[l][b] # "none"
             /\ shown = {b \in Businesses : Journey!Effective(b)}
  <2>1. journeyJobs = {} /\ utmDue = {} /\ ~ErasureDue /\ \A l : ~LinkDue(l) /\ ~MatchDue(l)
    BY <1>2 DEF Journey!AtRest, ErasureDue, LinkDue, MatchDue
  <2>2. ~match.pending /\ (\A l \in ConversationLinks : ~link[l].pending)
    BY <2>1 DEF JourneyInv, ReviewsOwed
  <2>3. \A l \in ConversationLinks, b \in Businesses : ~Misled(l, b)
    BY <2>1 DEF JourneyInv, SupportOwed
  <2>4. \A b \in Businesses : b \in shown <=> Journey!Effective(b)
    <3>1. ~WakeDue
      BY <2>1 DEF WakeDue
    <3> QED BY <2>1, <2>2, <3>1 DEF JourneyInv, UtmOwed
  <2>5. shown \subseteq Businesses
    BY DEF JourneyInv, JourneyTypes
  <2> QED BY <2>2, <2>3, <2>4, <2>5 DEF Misled
<1> QED BY <1>1, <1>2 DEF Journey!JourneyConverges

\* A match that turns owes every link its page, and every business its wake.
LEMMA MatchTurns ==
  ASSUME JourneyInv, NEW s \in {"suggested", "claimed", "rejected"},
         match' = Journey!MatchTurned(s), Journey!MatchJob(match') \in journeyJobs',
         journeyJobs' \subseteq journeyJobs \cup {Journey!MatchJob(match')},
         \A j \in journeyJobs : j.kind # "erasure" => j \in journeyJobs',
         UNCHANGED <<link, handoff, support, homed, utmDue, shown>>
  PROVE  JourneyInv'
<1> USE JourneyNumbers
<1>1. /\ match.revision \in Nat /\ match'.state = s /\ match'.revision = match.revision + 1
      /\ match'.pending = TRUE
      /\ match' \in [state : {"none", "suggested", "claimed", "rejected"}, revision : Nat, pending : BOOLEAN]
  BY DEF JourneyInv, JourneyTypes, Journey!MatchTurned
<1> DEFINE mj == Journey!MatchJob(match')
<1>2. /\ mj \in JourneyJob /\ mj.kind = "match" /\ mj.revision = match'.revision /\ mj.after = 0
  BY <1>1 DEF Journey!MatchJob, Journey!Job, JourneyJob
<1> HIDE DEF mj
<1>3. JourneyTypes'
  BY <1>1, <1>2 DEF JourneyInv, JourneyTypes, mj
<1>4. \A j \in journeyJobs : j \in JourneyJob /\ j.revision \in Nat /\ j.after \in Nat
  BY DEF JourneyInv, JourneyTypes, JourneyJob
<1>5. \A j \in journeyJobs' : j = mj \/ j \in journeyJobs
  BY DEF mj
<1>6. JobsTell'
  BY <1>1, <1>2, <1>4, <1>5 DEF JourneyInv, JobsTell
<1>7. NothingBefore'
  BY <1>1 DEF JourneyInv, NothingBefore
<1>8. \A l \in ConversationLinks : MatchDue(l)' /\ (LinkDue(l) => LinkDue(l)')
  <2>1. \A l \in ConversationLinks : 0 < l
    OBVIOUS
  <2>2. mj \in journeyJobs'
    BY DEF mj
  <2> QED BY <1>2, <2>1, <2>2 DEF MatchDue, LinkDue
<1>9. ReviewsOwed'
  <2>1. mj \in journeyJobs'
    BY DEF mj
  <2> QED BY <1>2, <1>8, <2>1 DEF JourneyInv, ReviewsOwed
<1>10. SupportOwed'
  BY <1>8 DEF SupportOwed
<1>11. PointSettled'
  <2>1. ~\E j \in journeyJobs' : j.kind = "match" /\ j.revision = match'.revision /\ j.after > 0
    BY <1>1, <1>2, <1>4, <1>5 DEF JourneyInv, JobsTell
  <2> QED BY <1>1, <2>1 DEF PointSettled
<1>12. UtmOwed'
  <2> SUFFICES ASSUME NEW b \in Businesses, ~(b \in shown <=> Journey!Effective(b))',
                      b \notin utmDue, ~\E l \in ConversationLinks : link[l].lead = b /\ LinkDue(l)'
               PROVE  \E l \in ConversationLinks : Leads(l, b)
    BY <1>1 DEF UtmOwed, Leads
  <2>1. ~Journey!Effective(b)' /\ b \in shown
    BY <1>1 DEF Journey!Effective
  <2>2. CASE Journey!Effective(b)
    BY <2>2 DEF Journey!Effective, Journey!Grounded, Leads
  <2>3. CASE ~Journey!Effective(b)
    BY <1>8, <2>1, <2>3 DEF JourneyInv, UtmOwed
  <2> QED BY <2>2, <2>3
<1> QED BY <1>3, <1>6, <1>7, <1>9, <1>10, <1>11, <1>12 DEF JourneyInv

\* The handoff only ever closes: what it takes away, an erasure still owes.
LEMMA HandoffCloses ==
  ASSUME JourneyInv, handoff' \in HandoffRow,
         handoff.erased => handoff'.erased, handoff.due => handoff'.due,
         handoff'.allowed => handoff.allowed, handoff.withdrawn => handoff'.withdrawn,
         handoff'.point = handoff.point
           \/ (handoff.point = "live" /\ handoff'.point = "erased" /\ handoff'.erased),
         handoff'.erased => handoff.erased \/ \E j \in journeyJobs' : j.kind = "erasure",
         journeyJobs' \subseteq journeyJobs \cup {j \in JourneyJob : j.kind \in {"erasure", "withdrawal"}},
         \A j \in journeyJobs : j.kind # "withdrawal" => j \in journeyJobs',
         UNCHANGED <<match, link, support, homed, utmDue, shown>>
  PROVE  JourneyInv'
<1> USE JourneyNumbers
<1>1. \A j \in journeyJobs' : j \in journeyJobs \/ (j \in JourneyJob /\ j.kind \in {"erasure", "withdrawal"})
  OBVIOUS
<1>2. handoff \in HandoffRow /\ match.pending \in BOOLEAN
  BY DEF JourneyInv, JourneyTypes
<1>3. JourneyTypes'
  BY <1>1 DEF JourneyInv, JourneyTypes
<1>4. JobsTell' /\ NothingBefore'
  BY <1>1 DEF JourneyInv, JobsTell, NothingBefore
<1>5. \A l \in ConversationLinks : (LinkDue(l) <=> LinkDue(l)') /\ (MatchDue(l) <=> MatchDue(l)')
  BY <1>1 DEF LinkDue, MatchDue
<1>6. (WakeDue => WakeDue') /\ (ErasureDue => ErasureDue')
  BY <1>2 DEF WakeDue, ErasureDue, HandoffRow
<1>7. Journey!PrivacyReady' => Journey!PrivacyReady
  BY <1>2 DEF Journey!PrivacyReady, HandoffRow
<1>8. Journey!PrivacyReady => Journey!PrivacyReady' \/ ErasureDue'
  BY <1>2 DEF Journey!PrivacyReady, ErasureDue, HandoffRow
<1>9. \A l, b : /\ Journey!Grounded(l, b)' => Journey!Grounded(l, b)
                /\ Journey!Grounded(l, b) => Journey!Grounded(l, b)' \/ ErasureDue'
  BY <1>7, <1>8 DEF Journey!Grounded, Journey!ClaimValid
<1>10. ReviewsOwed'
  BY <1>1, <1>5 DEF JourneyInv, ReviewsOwed
<1>11. SupportOwed'
  <2> SUFFICES ASSUME NEW l \in ConversationLinks, NEW b \in Businesses, Misled(l, b)', ~ErasureDue'
               PROVE  LinkDue(l)' \/ MatchDue(l)'
    BY DEF SupportOwed
  <2>1. Misled(l, b)
    <3>1. support'[l][b] = support[l][b] /\ (b \in homed' <=> b \in homed)
      OBVIOUS
    <3>2. handoff'.point = "live" => handoff.point = "live"
      OBVIOUS
    <3> QED BY <1>9, <3>1, <3>2 DEF Misled
  <2> QED BY <1>5, <1>6, <2>1 DEF JourneyInv, SupportOwed
<1>12. PointSettled'
  <2>1. (~match'.pending \/ \E j \in journeyJobs' :
                              j.kind = "match" /\ j.revision = match'.revision /\ j.after > 0)
          => Journey!Projected = handoff
    BY <1>1 DEF JourneyInv, PointSettled
  <2>2. Journey!Projected = handoff
          => ~(handoff.point = "none" /\ Journey!ClaimValid /\ Journey!PrivacyReady /\ handoff.allowed /\ ~handoff.withdrawn)
    <3>1. [handoff EXCEPT !.point = "live"].point = "live"
      BY <1>2 DEF HandoffRow
    <3> QED BY <3>1 DEF Journey!Projected
  <2>3. ~(handoff.point = "none" /\ Journey!ClaimValid /\ Journey!PrivacyReady /\ handoff.allowed /\ ~handoff.withdrawn)
          => Journey!Projected' = handoff'
    <3>1. Journey!ClaimValid' <=> Journey!ClaimValid
      BY DEF Journey!ClaimValid
    <3>2. handoff'.point = "none" => handoff.point = "none"
      OBVIOUS
    <3> QED BY <1>7, <3>1, <3>2 DEF Journey!Projected
  <2> QED BY <2>1, <2>2, <2>3 DEF PointSettled
<1>13. UtmOwed'
  <2> SUFFICES ASSUME NEW b \in Businesses, ~(b \in shown <=> Journey!Effective(b)'), b \notin utmDue,
                      ~\E l \in ConversationLinks : link[l].lead = b /\ LinkDue(l)'
               PROVE  (\E l \in ConversationLinks : Leads(l, b))
                      /\ (match.pending \/ WakeDue' \/ ErasureDue')
    BY DEF UtmOwed, Leads
  <2>1. Journey!Effective(b)' => Journey!Effective(b)
    <3>1. handoff'.point = "live" => handoff.point = "live"
      OBVIOUS
    <3> QED BY <1>9, <3>1 DEF Journey!Effective
  <2>2. Journey!Effective(b) => Journey!Effective(b)' \/ ((\E l \in ConversationLinks : Leads(l, b)) /\ ErasureDue')
    <3> SUFFICES ASSUME Journey!Effective(b), ~ErasureDue'
                 PROVE  Journey!Effective(b)'
      BY DEF Journey!Effective, Journey!Grounded, Leads
    <3>1. PICK l \in ConversationLinks :
            support[l][b] = "active" /\ Journey!Grounded(l, b) /\ handoff.point = "live" /\ ~link[l].pending
      BY DEF Journey!Effective
    <3>2. Journey!Grounded(l, b)'
      BY <1>9, <3>1
    <3>3. handoff'.point = "live"
      BY <3>1, <3>2 DEF Journey!Grounded, Journey!PrivacyReady
    <3> QED BY <3>1, <3>2, <3>3 DEF Journey!Effective
  <2> QED BY <1>5, <1>6, <2>1, <2>2 DEF JourneyInv, UtmOwed
<1> QED BY <1>3, <1>4, <1>10, <1>11, <1>12, <1>13 DEF JourneyInv

\* A row whose revision and pending flag change is a row like it.
LEMMA RowsTurn ==
  ASSUME NEW old \in LinkRow, NEW on \in BOOLEAN
  PROVE  LET new == [old EXCEPT !.revision = @ + 1, !.pending = on]
         IN  new \in LinkRow /\ new.state = old.state /\ new.lead = old.lead /\ (new.pending <=> on)
<1> DEFINE n == old.revision + 1
           new == [old EXCEPT !.revision = n, !.pending = on]
<1>1. n \in Nat
  BY DEF LinkRow
<1> HIDE DEF n
<1>2. new \in LinkRow
  BY <1>1 DEF LinkRow
<1>3. new.state = old.state /\ new.lead = old.lead
  BY <1>1 DEF LinkRow
<1>4. new.pending = on
  BY <1>1 DEF LinkRow
<1> HIDE DEF new
<1> QED BY <1>2, <1>3, <1>4 DEF n, new

\* Links that turn owe their own convergence; whom they leave is woken now,
\* whom they keep is woken by it.
LEMMA LinksTurn ==
  ASSUME JourneyInv, NEW turned \in SUBSET ConversationLinks, NEW next \in [ConversationLinks -> LinkRow],
         \A l \in turned : next[l].state # "none" /\ next[l].lead \in Businesses,
         \A l \in ConversationLinks \ turned : next[l] = link[l],
         Journey!ToLinks(turned, next),
         \A l \in turned : link[l].state # "none" => next[l].lead = link[l].lead \/ link[l].lead \in utmDue',
         homed' \subseteq Businesses,
         \A l \in ConversationLinks \ turned, b \in Businesses :
           link[l].state = "active" /\ link[l].lead = b => (b \in homed' <=> b \in homed),
         utmDue \subseteq utmDue', utmDue' \subseteq Businesses,
         UNCHANGED <<match, handoff, support, shown>>
  PROVE  JourneyInv'
<1> USE JourneyNumbers
<1>1. \A l \in ConversationLinks :
        /\ l \notin turned => link'[l] = link[l]
        /\ l \in turned => /\ link'[l] \in LinkRow /\ link'[l].state = next[l].state
                           /\ link'[l].lead = next[l].lead
                           /\ (link'[l].pending <=> match.state # "none")
  <2> SUFFICES ASSUME NEW l \in ConversationLinks
               PROVE  /\ l \notin turned => link'[l] = link[l]
                      /\ l \in turned => /\ link'[l] \in LinkRow /\ link'[l].state = next[l].state
                                         /\ link'[l].lead = next[l].lead
                                         /\ (link'[l].pending <=> match.state # "none")
    OBVIOUS
  <2> DEFINE old == next[l]
             on == match.state # "none"
             new == [old EXCEPT !.revision = @ + 1, !.pending = on]
  <2>1. link'[l] = IF l \in turned THEN new ELSE old
    BY DEF Journey!ToLinks, Journey!LinksTurned
  <2>2. old \in LinkRow /\ on \in BOOLEAN
    OBVIOUS
  <2> HIDE DEF old, on
  <2>3. new \in LinkRow /\ new.state = old.state /\ new.lead = old.lead /\ (new.pending <=> on)
    BY <2>2, RowsTurn
  <2> HIDE DEF new
  <2>4. l \notin turned => old = link[l]
    BY DEF old
  <2> QED BY <2>1, <2>3, <2>4 DEF old, on
<1>2. link' \in [ConversationLinks -> LinkRow]
  <2>1. \A l \in ConversationLinks : link'[l] \in LinkRow
    BY <1>1 DEF JourneyInv, JourneyTypes
  <2>2. link' = [l \in ConversationLinks |-> link'[l]]
    BY DEF Journey!ToLinks, Journey!LinksTurned
  <2> QED BY <2>1, <2>2
<1>3. \A l \in turned : Journey!Job("link", l, link'[l].revision, 0) \in journeyJobs'
  BY DEF Journey!ToLinks
<1>4. \A j \in journeyJobs' :
        j \in journeyJobs \/ (j \in JourneyJob /\ j.kind = "link" /\ j.link \in turned)
  <2>1. \A l \in turned : LET j == Journey!Job("link", l, link'[l].revision, 0)
                          IN  j \in JourneyJob /\ j.kind = "link" /\ j.link = l
    BY <1>2 DEF Journey!Job, JourneyJob, LinkRow
  <2> QED BY <2>1 DEF Journey!ToLinks
<1>5. journeyJobs \subseteq journeyJobs'
  BY DEF Journey!ToLinks
<1>6. \A l \in turned : LinkDue(l)'
  <2>1. \A l \in turned : LET j == Journey!Job("link", l, link'[l].revision, 0)
                          IN  j.kind = "link" /\ j.link = l /\ j.revision = link'[l].revision
    BY DEF Journey!Job
  <2> QED BY <1>3, <2>1 DEF LinkDue
<1>7. \A l \in ConversationLinks \ turned : LinkDue(l) => LinkDue(l)'
  BY <1>1, <1>5 DEF LinkDue
<1>8. /\ \A l \in ConversationLinks : MatchDue(l) => MatchDue(l)'
      /\ (WakeDue => WakeDue') /\ (ErasureDue => ErasureDue')
  BY <1>5 DEF MatchDue, WakeDue, ErasureDue
<1>9. JourneyTypes'
  BY <1>2, <1>4 DEF JourneyInv, JourneyTypes
<1>10. JobsTell'
  BY <1>1, <1>4 DEF JourneyInv, JobsTell
<1>11. NothingBefore'
  BY <1>1 DEF JourneyInv, NothingBefore
<1>12. ReviewsOwed'
  BY <1>1, <1>5, <1>6, <1>7 DEF JourneyInv, ReviewsOwed
<1>13. SupportOwed'
  <2> SUFFICES ASSUME NEW l \in ConversationLinks \ turned, NEW b \in Businesses, Misled(l, b)'
               PROVE  LinkDue(l)' \/ MatchDue(l)' \/ ErasureDue'
    BY <1>6 DEF SupportOwed
  <2>1. Journey!Grounded(l, b)' <=> Journey!Grounded(l, b)
    BY <1>1 DEF Journey!Grounded, Journey!ClaimValid, Journey!PrivacyReady
  <2>2. Journey!Grounded(l, b) => (b \in homed' <=> b \in homed)
    BY DEF Journey!Grounded
  <2>3. Misled(l, b)
    BY <2>1, <2>2 DEF Misled
  <2> QED BY <1>7, <1>8, <2>3 DEF JourneyInv, SupportOwed
<1>14. PointSettled'
  <2>1. Journey!Projected' = Journey!Projected
    BY DEF Journey!Projected, Journey!ClaimValid, Journey!PrivacyReady
  <2>2. \A j \in journeyJobs' : j.kind = "match" => j \in journeyJobs
    BY <1>4
  <2> QED BY <2>1, <2>2 DEF JourneyInv, PointSettled
<1>15. UtmOwed'
  <2> SUFFICES ASSUME NEW b \in Businesses, ~(b \in shown <=> Journey!Effective(b)'), b \notin utmDue',
                      ~\E l \in ConversationLinks : link'[l].lead = b /\ LinkDue(l)'
               PROVE  (\E l \in ConversationLinks : Leads(l, b)')
                      /\ (match.pending \/ WakeDue' \/ ErasureDue')
    BY DEF UtmOwed, Leads
  <2>1. \A l \in turned : link[l].state # "none" => link[l].lead # b
    BY <1>1, <1>6
  <2>2. \A l \in ConversationLinks : Leads(l, b) => l \notin turned /\ Leads(l, b)'
    BY <1>1, <2>1 DEF Leads
  <2>3. \A l \in ConversationLinks : Journey!Grounded(l, b) => Leads(l, b)
    BY DEF Journey!Grounded, Leads
  <2>4. Journey!Effective(b) => Journey!Effective(b)'
    <3> SUFFICES ASSUME Journey!Effective(b) PROVE Journey!Effective(b)'
      OBVIOUS
    <3>1. PICK l \in ConversationLinks :
            support[l][b] = "active" /\ Journey!Grounded(l, b) /\ handoff.point = "live" /\ ~link[l].pending
      BY DEF Journey!Effective
    <3>2. l \notin turned /\ link'[l] = link[l] /\ (b \in homed' <=> b \in homed)
      BY <1>1, <2>2, <2>3, <3>1 DEF Leads
    <3>3. Journey!Grounded(l, b)'
      BY <3>1, <3>2 DEF Journey!Grounded, Journey!ClaimValid, Journey!PrivacyReady
    <3> QED BY <3>1, <3>2, <3>3 DEF Journey!Effective
  <2>5. Journey!Effective(b)' => Journey!Effective(b)
    <3> SUFFICES ASSUME Journey!Effective(b)' PROVE Journey!Effective(b)
      OBVIOUS
    <3>1. PICK l \in ConversationLinks :
            support[l][b] = "active" /\ Journey!Grounded(l, b)' /\ handoff.point = "live" /\ ~link'[l].pending
      BY DEF Journey!Effective
    <3>2. match.state # "none"
      BY <3>1 DEF Journey!Grounded, Journey!ClaimValid
    <3>3. l \notin turned /\ link'[l] = link[l]
      BY <1>1, <3>1, <3>2
    <3>4. Journey!Grounded(l, b)
      BY <3>1, <3>3 DEF Journey!Grounded, Journey!ClaimValid, Journey!PrivacyReady
    <3>5. b \in homed' <=> b \in homed
      BY <3>3, <3>4 DEF Journey!Grounded
    <3> QED BY <3>1, <3>3, <3>4, <3>5 DEF Journey!Effective
  <2>6. \/ \E l \in ConversationLinks : link[l].lead = b /\ LinkDue(l)
        \/ (\E l \in ConversationLinks : Leads(l, b)) /\ (match.pending \/ WakeDue \/ ErasureDue)
    BY <2>4, <2>5 DEF JourneyInv, UtmOwed
  <2>7. ASSUME NEW l \in ConversationLinks, link[l].lead = b, LinkDue(l) PROVE FALSE
    <3>1. link[l].state # "none"
      BY <2>7 DEF JourneyInv, JobsTell, LinkDue
    <3>2. l \notin turned
      BY <2>1, <2>7, <3>1
    <3> QED BY <1>1, <1>7, <2>7, <3>2
  <2> QED BY <1>8, <2>2, <2>6, <2>7
<1> QED BY <1>9, <1>10, <1>11, <1>12, <1>13, <1>14, <1>15 DEF JourneyInv

\* The native UTM job shows what its lead may show now.
LEMMA ProjectUtmKeeps == ASSUME JourneyInv, NEW b \in Businesses, Journey!ProjectUtm(b) PROVE JourneyInv'
<1>1. /\ utmDue' = utmDue \ {b} /\ shown' = IF Journey!Effective(b) THEN shown \cup {b} ELSE shown \ {b}
      /\ UNCHANGED <<match, link, handoff, support, homed, journeyJobs>>
  BY DEF Journey!ProjectUtm
<1>2. \A c \in Businesses : Journey!Effective(c)' <=> Journey!Effective(c)
  BY <1>1 DEF Journey!Effective, Journey!Grounded, Journey!ClaimValid, Journey!PrivacyReady
<1>3. JourneyTypes'
  BY <1>1 DEF JourneyInv, JourneyTypes
<1>4. JobsTell' /\ ReviewsOwed' /\ PointSettled' /\ SupportOwed'
  BY <1>1 DEF JourneyInv, JobsTell, ReviewsOwed, PointSettled, SupportOwed, Misled, LinkDue, MatchDue,
              ErasureDue, Journey!Projected, Journey!Grounded, Journey!ClaimValid, Journey!PrivacyReady
<1>5. NothingBefore'
  <2>1. Journey!Effective(b) => match.state # "none"
    BY DEF Journey!Effective, Journey!Grounded, Journey!ClaimValid
  <2> QED BY <1>1, <2>1 DEF JourneyInv, NothingBefore
<1>6. UtmOwed'
  <2> SUFFICES ASSUME NEW c \in Businesses, ~(c \in shown' <=> Journey!Effective(c)'), c \notin utmDue'
               PROVE  \/ \E l \in ConversationLinks : link[l].lead = c /\ LinkDue(l)
                      \/ (\E l \in ConversationLinks : Leads(l, c)) /\ (match.pending \/ WakeDue \/ ErasureDue)
    BY <1>1 DEF UtmOwed, Leads, LinkDue, WakeDue, ErasureDue
  <2>1. c # b
    BY <1>1, <1>2
  <2> QED BY <1>1, <1>2, <2>1 DEF JourneyInv, UtmOwed
<1> QED BY <1>3, <1>4, <1>5, <1>6 DEF JourneyInv

\* A job that is of no use any more, or has woken whom it had to, is forgotten.
LEMMA JobIsDone ==
  ASSUME JourneyInv, NEW j \in journeyJobs, journeyJobs' = journeyJobs \ {j},
         j.kind = "link" => link[j.link].revision # j.revision,
         j.kind = "match" => match.revision # j.revision,
         j.kind = "erasure" => match.state = "none",
         j.kind = "wake" /\ j.revision = match.revision => Journey!WakeAll \subseteq utmDue',
         utmDue \subseteq utmDue', utmDue' \subseteq Businesses,
         UNCHANGED <<match, link, handoff, support, homed, shown>>
  PROVE  JourneyInv'
<1>1. \A k \in journeyJobs : k # j => k \in journeyJobs'
  OBVIOUS
<1>2. \A l \in ConversationLinks : (LinkDue(l) <=> LinkDue(l)') /\ (MatchDue(l) <=> MatchDue(l)')
  BY <1>1 DEF LinkDue, MatchDue
<1>3. ErasureDue => ErasureDue' \/ match.state = "none"
  BY <1>1 DEF ErasureDue
<1>4. WakeDue => WakeDue' \/ Journey!WakeAll \subseteq utmDue'
  BY <1>1 DEF WakeDue
<1>5. \A l, b : Journey!Grounded(l, b)' <=> Journey!Grounded(l, b)
  BY DEF Journey!Grounded, Journey!ClaimValid, Journey!PrivacyReady
<1>6. \A b : Journey!Effective(b)' <=> Journey!Effective(b)
  BY <1>5 DEF Journey!Effective
<1>7. match.state = "none" => \A l, b : ~Journey!Grounded(l, b) /\ ~Journey!Effective(b)
  BY DEF Journey!Effective, Journey!Grounded, Journey!ClaimValid
<1>8. JourneyTypes' /\ JobsTell' /\ NothingBefore'
  BY DEF JourneyInv, JourneyTypes, JobsTell, NothingBefore
<1>9. ReviewsOwed'
  BY <1>1, <1>2 DEF JourneyInv, ReviewsOwed
<1>10. SupportOwed'
  <2> SUFFICES ASSUME NEW l \in ConversationLinks, NEW b \in Businesses, Misled(l, b)'
               PROVE  LinkDue(l)' \/ MatchDue(l)' \/ ErasureDue'
    BY DEF SupportOwed
  <2>1. Misled(l, b)
    BY <1>5 DEF Misled
  <2>2. match.state # "none"
    BY <1>7, <2>1 DEF JourneyInv, NothingBefore, Misled
  <2> QED BY <1>2, <1>3, <2>1, <2>2 DEF JourneyInv, SupportOwed
<1>11. PointSettled'
  <2>1. Journey!Projected' = Journey!Projected
    BY DEF Journey!Projected, Journey!ClaimValid, Journey!PrivacyReady
  <2> QED BY <2>1 DEF JourneyInv, PointSettled
<1>12. UtmOwed'
  <2> SUFFICES ASSUME NEW b \in Businesses, ~(b \in shown <=> Journey!Effective(b)), b \notin utmDue',
                      ~\E l \in ConversationLinks : link[l].lead = b /\ LinkDue(l)
               PROVE  (\E l \in ConversationLinks : Leads(l, b)) /\ (match.pending \/ WakeDue' \/ ErasureDue')
    BY <1>2, <1>6 DEF UtmOwed, Leads
  <2>1. (\E l \in ConversationLinks : Leads(l, b)) /\ (match.pending \/ WakeDue \/ ErasureDue)
    BY DEF JourneyInv, UtmOwed
  <2>2. match.state # "none"
    BY <1>7 DEF JourneyInv, NothingBefore
  <2>3. b \in Journey!WakeAll
    BY <2>1 DEF Journey!WakeAll, Leads
  <2> QED BY <1>3, <1>4, <2>1, <2>2, <2>3
<1> QED BY <1>8, <1>9, <1>10, <1>11, <1>12 DEF JourneyInv

\* A link that converges is paired, and its business is woken.
LEMMA LinkConverges ==
  ASSUME JourneyInv, NEW j \in journeyJobs, j.kind = "link", link[j.link].revision = j.revision,
         support' = IF match.state = "none" THEN support ELSE Journey!Paired({j.link}, handoff.point),
         link' = [link EXCEPT ![j.link].pending = FALSE],
         utmDue' = utmDue \cup Journey!Woken({j.link}) \cup {link[j.link].lead},
         journeyJobs' \in Journey!Rest(j), UNCHANGED <<match, handoff, homed, shown>>
  PROVE  JourneyInv'
<1> DEFINE at == j.link
           row == link[at]
           new == [row EXCEPT !.pending = FALSE]
<1>1. at \in ConversationLinks /\ row.state # "none" /\ row.lead \in Businesses /\ row \in LinkRow
  BY DEF JourneyInv, JobsTell, NothingBefore, JourneyTypes
<1>2. link \in [ConversationLinks -> LinkRow]
  BY DEF JourneyInv, JourneyTypes
<1>3. link' = [link EXCEPT ![at] = new]
  OBVIOUS
<1>4. /\ new \in LinkRow /\ new.state = row.state /\ new.lead = row.lead
      /\ new.revision = row.revision /\ new.pending = FALSE
  <2> HIDE DEF row
  <2> QED BY <1>1 DEF LinkRow
<1>5. /\ link' \in [ConversationLinks -> LinkRow] /\ link'[at].pending = FALSE
      /\ \A l \in ConversationLinks \ {at} : link'[l] = link[l]
      /\ \A l \in ConversationLinks : /\ link'[l].state = link[l].state /\ link'[l].lead = link[l].lead
                                      /\ link'[l].revision = link[l].revision
  <2> HIDE DEF new
  <2> QED BY <1>1, <1>2, <1>3, <1>4
<1> HIDE DEF at, row, new
<1>6. \A l \in ConversationLinks, b \in Businesses : Journey!Grounded(l, b)' <=> Journey!Grounded(l, b)
  BY <1>5 DEF Journey!Grounded, Journey!ClaimValid, Journey!PrivacyReady
<1>7. match.state = "none" =>
        \A l \in ConversationLinks, b \in Businesses : ~Journey!Grounded(l, b) /\ support[l][b] = "none"
  BY DEF JourneyInv, NothingBefore, Journey!Grounded, Journey!ClaimValid
<1>8. /\ support' \in [ConversationLinks -> [Businesses -> {"none", "active", "revoked"}]]
      /\ \A l \in ConversationLinks, b \in Businesses :
           /\ l # at => support'[l][b] = support[l][b]
           /\ l = at => ~Misled(l, b)'
           /\ support[l][b] = "none" /\ support'[l][b] # "none" => Journey!Grounded(l, b)
  <2>1. CASE match.state = "none"
    BY <1>6, <1>7, <2>1 DEF JourneyInv, JourneyTypes, Misled
  <2>2. CASE match.state # "none"
    <3>1. {at} \in SUBSET ConversationLinks /\ support' = Journey!Paired({at}, handoff.point)
      BY <1>1, <2>2 DEF at
    <3>2. WellPaired(support', {at}, handoff.point)
      BY <3>1, Pairing DEF JourneyInv
    <3>3. \A l \in ConversationLinks, b \in Businesses : l = at => ~Misled(l, b)'
      BY <1>6, <3>2 DEF Misled, WellPaired
    <3> QED BY <3>2, <3>3 DEF WellPaired
  <2> QED BY <2>1, <2>2
<1>9. /\ journeyJobs' \subseteq journeyJobs
      /\ \A k \in journeyJobs : k # j => k \in journeyJobs'
  BY DEF Journey!Rest
<1>10. /\ \A l \in ConversationLinks : MatchDue(l) => MatchDue(l)'
       /\ \A l \in ConversationLinks : l # at /\ LinkDue(l) => LinkDue(l)'
       /\ (WakeDue => WakeDue') /\ (ErasureDue => ErasureDue')
  BY <1>5, <1>9 DEF MatchDue, LinkDue, WakeDue, ErasureDue, at
<1>11. JourneyTypes'
  <2>1. Journey!Woken({at}) \subseteq Businesses
    BY DEF Journey!Woken
  <2> QED BY <1>1, <1>5, <1>8, <1>9, <2>1 DEF JourneyInv, JourneyTypes, at, row
<1>12. JobsTell'
  BY <1>5, <1>9 DEF JourneyInv, JobsTell
<1>13. NothingBefore'
  <2>1. ASSUME NEW l \in ConversationLinks, link'[l].state = "none"
        PROVE  ~link'[l].pending /\ \A b \in Businesses : support'[l][b] = "none"
    <3>1. link[l].state = "none" /\ l # at
      BY <1>1, <1>5, <2>1 DEF row
    <3>2. ~link[l].pending /\ \A b \in Businesses : support[l][b] = "none"
      BY <3>1 DEF JourneyInv, NothingBefore
    <3> QED BY <1>5, <1>8, <3>1, <3>2
  <2>2. match.state = "none" => \A l \in ConversationLinks, b \in Businesses : support'[l][b] = "none"
    BY <1>7, <1>8
  <2>3. \A l \in ConversationLinks : link'[l].state # "none" => link'[l].lead \in Businesses
    BY <1>5 DEF JourneyInv, NothingBefore
  <2> QED BY <2>1, <2>2, <2>3 DEF JourneyInv, NothingBefore
<1>14. ReviewsOwed'
  BY <1>5, <1>9, <1>10 DEF JourneyInv, ReviewsOwed
<1>15. SupportOwed'
  <2> SUFFICES ASSUME NEW l \in ConversationLinks, NEW b \in Businesses, l # at, Misled(l, b)'
               PROVE  LinkDue(l)' \/ MatchDue(l)' \/ ErasureDue'
    BY <1>8 DEF SupportOwed
  <2>1. Misled(l, b)
    BY <1>6, <1>8 DEF Misled
  <2> QED BY <1>10, <2>1 DEF JourneyInv, SupportOwed
<1>16. PointSettled'
  <2>1. Journey!Projected' = Journey!Projected
    BY DEF Journey!Projected, Journey!ClaimValid, Journey!PrivacyReady
  <2> QED BY <1>9, <2>1 DEF JourneyInv, PointSettled
<1>17. UtmOwed'
  <2> SUFFICES ASSUME NEW b \in Businesses, ~(b \in shown <=> Journey!Effective(b)'), b \notin utmDue',
                      ~\E l \in ConversationLinks : link[l].lead = b /\ LinkDue(l)'
               PROVE  (\E l \in ConversationLinks : Leads(l, b)) /\ (match.pending \/ WakeDue' \/ ErasureDue')
    <3>1. \A l \in ConversationLinks : link'[l].lead = link[l].lead /\ \A b : Leads(l, b)' <=> Leads(l, b)
      BY <1>5 DEF Leads
    <3> QED BY <3>1 DEF UtmOwed
  <2>1. b \notin utmDue /\ link[at].lead # b
    BY DEF at
  <2>2. \A l \in ConversationLinks : Journey!Grounded(l, b) => l # at
    BY <2>1 DEF Journey!Grounded
  <2>3. Journey!Effective(b)' <=> Journey!Effective(b)
    BY <1>5, <1>6, <1>8, <2>2 DEF Journey!Effective
  <2> QED BY <1>10, <2>1, <2>3 DEF JourneyInv, UtmOwed
<1> QED BY <1>11, <1>12, <1>13, <1>14, <1>15, <1>16, <1>17 DEF JourneyInv

\* A match that converges pairs its page; the next page, or the last wake,
\* is queued before the page is forgotten.
LEMMA MatchConverges ==
  ASSUME JourneyInv, NEW j \in journeyJobs, j.kind = "match", match.revision = j.revision,
         handoff' = Journey!Projected, support' = Journey!Paired(Journey!Page(j.after), handoff'.point),
         utmDue' = utmDue \cup Journey!Woken(Journey!Page(j.after)), UNCHANGED <<link, homed, shown>>,
         NEW rest \in Journey!Rest(j), NEW next, journeyJobs' = rest \cup {next},
         \/ /\ Journey!After(j.after) # Journey!Page(j.after) /\ match' = match
            /\ next = Journey!Job("match", 0, j.revision, Journey!Last(Journey!Page(j.after)))
         \/ /\ Journey!After(j.after) = Journey!Page(j.after) /\ match' = [match EXCEPT !.pending = FALSE]
            /\ next = Journey!Job("wake", 0, j.revision, 0)
  PROVE  JourneyInv'
<1> USE JourneyNumbers
<1> DEFINE page == Journey!Page(j.after)
           more == Journey!After(j.after) # page
<1>1. /\ j.after \in Nat /\ j.revision \in Nat /\ handoff \in HandoffRow
      /\ match \in [state : {"none", "suggested", "claimed", "rejected"}, revision : Nat, pending : BOOLEAN]
  BY DEF JourneyInv, JourneyTypes, JourneyJob
<1>2. /\ page \in SUBSET ConversationLinks /\ page \subseteq Journey!After(j.after)
      /\ more => Journey!Last(page) \in page /\ \A l \in Journey!After(j.after) \ page : Journey!Last(page) < l
  BY <1>1, Pages DEF JourneyInv
<1>3. next \in JourneyJob /\ next.revision = match.revision
      /\ (more => next.kind = "match" /\ next.after = Journey!Last(page)) /\ (~more => next.kind = "wake")
  <2>1. more => Journey!Last(page) \in Nat
    BY <1>2
  <2>2. CASE more
    BY <1>1, <2>1, <2>2 DEF Journey!Job, JourneyJob
  <2>3. CASE ~more
    BY <1>1, <2>3 DEF Journey!Job, JourneyJob
  <2> QED BY <2>2, <2>3
<1>4. /\ match' \in [state : {"none", "suggested", "claimed", "rejected"}, revision : Nat, pending : BOOLEAN]
      /\ match'.state = match.state /\ match'.revision = match.revision
      /\ (more => match'.pending = match.pending) /\ (~more => match'.pending = FALSE)
  BY <1>1
<1>5. WellPaired(support', page, handoff'.point)
  BY <1>2, Pairing DEF JourneyInv
<1>6. /\ handoff' \in HandoffRow /\ (Journey!PrivacyReady' <=> Journey!PrivacyReady)
      /\ handoff'.erased = handoff.erased /\ handoff'.due = handoff.due
      /\ (handoff' # handoff => handoff'.point = "live" /\ handoff.point = "none")
  BY <1>1 DEF Journey!Projected, HandoffRow, Journey!PrivacyReady
<1>7. Journey!Projected' = handoff'
  <2>1. Journey!ClaimValid' <=> Journey!ClaimValid
    BY <1>4 DEF Journey!ClaimValid
  <2>2. CASE handoff.point = "none" /\ Journey!ClaimValid /\ Journey!PrivacyReady /\ handoff.allowed /\ ~handoff.withdrawn
    <3>1. handoff'.point = "live"
      BY <1>1, <2>2 DEF Journey!Projected, HandoffRow
    <3> QED BY <3>1 DEF Journey!Projected
  <2>3. CASE ~(handoff.point = "none" /\ Journey!ClaimValid /\ Journey!PrivacyReady /\ handoff.allowed /\ ~handoff.withdrawn)
    <3>1. handoff' = handoff
      BY <2>3 DEF Journey!Projected
    <3> QED BY <1>6, <2>1, <2>3, <3>1 DEF Journey!Projected
  <2> QED BY <2>2, <2>3
<1>8. \A l, b : Journey!Grounded(l, b)' <=> Journey!Grounded(l, b)
  BY <1>4, <1>6 DEF Journey!Grounded, Journey!ClaimValid
<1>9. /\ next \in journeyJobs' /\ \A k \in journeyJobs : k # j => k \in journeyJobs'
      /\ \A k \in journeyJobs' : k = next \/ k \in journeyJobs
  BY DEF Journey!Rest
<1> HIDE DEF page
<1>10. (WakeDue => WakeDue') /\ (ErasureDue => ErasureDue') /\ (~more => WakeDue')
       /\ \A l \in ConversationLinks : LinkDue(l) => LinkDue(l)'
  BY <1>3, <1>4, <1>6, <1>9 DEF WakeDue, ErasureDue, LinkDue
<1>11. \A l \in ConversationLinks :
         MatchDue(l) => MatchDue(l)' \/ (l > j.after)
  BY <1>4, <1>9 DEF MatchDue
<1>12. \A l \in ConversationLinks :
         l > j.after /\ l \notin page /\ link[l].state # "none" => MatchDue(l)'
  <2> SUFFICES ASSUME NEW l \in ConversationLinks, l > j.after, l \notin page, link[l].state # "none"
               PROVE  MatchDue(l)'
    OBVIOUS
  <2>1. l \in Journey!After(j.after)
    BY DEF Journey!After
  <2>2. more /\ Journey!Last(page) < l
    BY <1>2, <2>1
  <2> QED BY <1>3, <1>4, <1>9, <2>2 DEF MatchDue
<1> HIDE DEF more
<1>13. JourneyTypes'
  <2>1. Journey!Woken(page) \subseteq Businesses
    BY DEF Journey!Woken
  <2> QED BY <1>3, <1>4, <1>5, <1>6, <1>9, <2>1 DEF JourneyInv, JourneyTypes, WellPaired, page
<1>14. JobsTell'
  <2>1. next.kind # "link" /\ next.revision <= match'.revision
    BY <1>1, <1>3, <1>4
  <2> QED BY <1>4, <1>9, <2>1 DEF JourneyInv, JobsTell
<1>15. NothingBefore'
  <2>1. \A l \in ConversationLinks, b \in Businesses :
          support[l][b] = "none" /\ ~Journey!Grounded(l, b) => support'[l][b] = "none"
    BY <1>5 DEF WellPaired
  <2>2. match.state = "none" => \A l \in ConversationLinks, b \in Businesses : support'[l][b] = "none"
    BY <2>1 DEF JourneyInv, NothingBefore, Journey!Grounded, Journey!ClaimValid
  <2>3. \A l \in ConversationLinks : link[l].state = "none" => \A b \in Businesses : support'[l][b] = "none"
    BY <2>1 DEF JourneyInv, NothingBefore, Journey!Grounded
  <2>4. match.state = "none" => ~match'.pending
    BY <1>4 DEF JourneyInv, NothingBefore
  <2> QED BY <1>4, <2>2, <2>3, <2>4 DEF JourneyInv, NothingBefore
<1>16. ReviewsOwed'
  <2>1. match'.pending => more
    BY <1>4
  <2> QED BY <1>3, <1>4, <1>9, <1>10, <2>1 DEF JourneyInv, ReviewsOwed
<1>17. SupportOwed'
  <2> SUFFICES ASSUME NEW l \in ConversationLinks, NEW b \in Businesses, Misled(l, b)'
               PROVE  LinkDue(l)' \/ MatchDue(l)' \/ ErasureDue'
    BY DEF SupportOwed
  <2>1. l \notin page /\ support'[l][b] = support[l][b]
    BY <1>5, <1>8 DEF Misled, WellPaired
  <2>2. link[l].state # "none"
    BY <1>8, <2>1 DEF JourneyInv, NothingBefore, Misled, Journey!Grounded
  <2>3. CASE Misled(l, b)
    BY <1>10, <1>11, <1>12, <2>1, <2>2, <2>3 DEF JourneyInv, SupportOwed
  <2>4. CASE ~Misled(l, b)
    <3>1. handoff' # handoff
      BY <1>8, <2>1, <2>4 DEF Misled
    <3>2. ~(j.after > 0)
      BY <3>1 DEF JourneyInv, PointSettled
    <3> QED BY <1>1, <1>12, <2>1, <2>2, <3>2
  <2> QED BY <2>3, <2>4
<1>18. PointSettled'
  BY <1>7 DEF PointSettled
<1>19. UtmOwed'
  <2> SUFFICES ASSUME NEW b \in Businesses, ~(b \in shown <=> Journey!Effective(b)'), b \notin utmDue',
                      ~\E l \in ConversationLinks : link[l].lead = b /\ LinkDue(l)'
               PROVE  (\E l \in ConversationLinks : Leads(l, b)) /\ (match'.pending \/ WakeDue' \/ ErasureDue')
    BY DEF UtmOwed, Leads
  <2>1. Journey!Effective(b)' \/ Journey!Effective(b) => \E l \in ConversationLinks : Leads(l, b)
    BY <1>8 DEF Journey!Effective, Journey!Grounded, Leads
  <2>2. b \notin utmDue /\ b \notin Journey!Woken(page)
    BY DEF page
  <2>3. ~(b \in shown <=> Journey!Effective(b)) =>
          (\E l \in ConversationLinks : Leads(l, b)) /\ (match.pending \/ WakeDue \/ ErasureDue)
    BY <1>10, <2>2 DEF JourneyInv, UtmOwed
  <2>4. CASE ~more
    BY <1>10, <2>1, <2>3, <2>4
  <2>5. CASE more /\ match.pending
    <3>1. ~Journey!Effective(b) /\ ~Journey!Effective(b)'
      BY <1>4, <2>5 DEF Journey!Effective
    <3> QED BY <1>4, <2>3, <2>5, <3>1
  <2>6. CASE more /\ ~match.pending
    <3>1. handoff' = handoff
      BY <2>6 DEF JourneyInv, PointSettled
    <3>2. \A l \in ConversationLinks :
            Journey!Grounded(l, b) => (support'[l][b] = "active" <=> support[l][b] = "active")
      BY <1>5, <2>2 DEF WellPaired, Journey!Woken
    <3>3. Journey!Effective(b)' <=> Journey!Effective(b)
      BY <1>4, <1>8, <2>6, <3>1, <3>2 DEF Journey!Effective
    <3> QED BY <1>10, <2>3, <3>3, <2>6
  <2> QED BY <2>4, <2>5, <2>6
<1> QED BY <1>13, <1>14, <1>15, <1>16, <1>17, <1>18, <1>19 DEF JourneyInv

\* A journey that rests keeps its invariant.
LEMMA JourneyRest == JourneyInv /\ UNCHANGED Journey!journeyVars => JourneyInv'
BY DEF Journey!journeyVars, JourneyInv, JourneyTypes, JobsTell, NothingBefore, ReviewsOwed, SupportOwed,
       PointSettled, UtmOwed, LinkDue, MatchDue, WakeDue, ErasureDue, Misled, Leads, Journey!Effective,
       Journey!Grounded, Journey!ClaimValid, Journey!PrivacyReady, Journey!Projected

\* The writers of the reviews, of the links and of the handoff.
LEMMA WritersKeep ==
  ASSUME JourneyInv,
         \/ Journey!Suggest \/ Journey!Claim \/ Journey!Reject \/ Journey!Withdraw \/ Journey!Lapse
         \/ \E l \in ConversationLinks :
              Journey!Unlink(l) \/ \E b \in Businesses : Journey!Converse(l, b) \/ Journey!Transfer(l, b)
         \/ \E b \in Businesses : Journey!MoveCompany(b)
  PROVE  JourneyInv'
<1>1. /\ match \in [state : {"none", "suggested", "claimed", "rejected"}, revision : Nat, pending : BOOLEAN]
      /\ link \in [ConversationLinks -> LinkRow] /\ handoff \in HandoffRow
      /\ utmDue \subseteq Businesses /\ homed \subseteq Businesses
      /\ \A l \in ConversationLinks : link[l].state # "none" => link[l].lead \in Businesses
  BY DEF JourneyInv, JourneyTypes, NothingBefore
<1>2. CASE Journey!Suggest
  <2>1. /\ match' \in [state : {"none", "suggested", "claimed", "rejected"}, revision : Nat, pending : BOOLEAN]
        /\ match'.state = "suggested" /\ match'.revision = match.revision
        /\ match'.pending = match.pending /\ match.state = "none"
        /\ UNCHANGED <<link, handoff, support, homed, journeyJobs, utmDue, shown>>
    BY <1>1, <1>2 DEF Journey!Suggest, Journey!NoMatch
  <2>2. \A l, b : ~Journey!Grounded(l, b) /\ ~Journey!Grounded(l, b)' /\ ~Journey!Effective(b) /\ ~Journey!Effective(b)'
    BY <2>1 DEF Journey!Grounded, Journey!ClaimValid, Journey!Effective
  <2>3. Journey!Projected = handoff /\ Journey!Projected' = handoff'
    BY <2>1 DEF Journey!Projected, Journey!ClaimValid
  <2>4. JourneyTypes' /\ JobsTell' /\ NothingBefore' /\ ReviewsOwed' /\ PointSettled'
    BY <2>1, <2>3 DEF JourneyInv, JourneyTypes, JobsTell, NothingBefore, ReviewsOwed, PointSettled, LinkDue
  <2>5. SupportOwed' /\ UtmOwed'
    BY <2>1, <2>2 DEF JourneyInv, NothingBefore, SupportOwed, Misled, UtmOwed
  <2> QED BY <2>4, <2>5 DEF JourneyInv
<1>3. CASE Journey!Claim \/ Journey!Reject
  <2>1. PICK s \in {"suggested", "claimed", "rejected"} :
          Journey!ToMatch(s) /\ UNCHANGED <<link, handoff, support, homed, utmDue, shown>>
    BY <1>3 DEF Journey!Claim, Journey!Reject
  <2> QED BY <2>1, MatchTurns DEF Journey!ToMatch
<1>4. CASE Journey!Withdraw \/ Journey!Lapse
  <2>1. /\ handoff' \in HandoffRow /\ handoff'.erased = handoff.erased /\ (handoff.due => handoff'.due)
        /\ (handoff'.allowed => handoff.allowed) /\ (handoff.withdrawn => handoff'.withdrawn)
        /\ handoff'.point = handoff.point
    BY <1>1, <1>4 DEF Journey!Withdraw, Journey!Lapse, HandoffRow
  <2>2. Journey!Job("withdrawal", 0, 0, 0) \in JourneyJob /\ Journey!Job("withdrawal", 0, 0, 0).kind = "withdrawal"
    BY DEF Journey!Job, JourneyJob
  <2>3. /\ journeyJobs \subseteq journeyJobs'
        /\ journeyJobs' \subseteq journeyJobs \cup {j \in JourneyJob : j.kind \in {"erasure", "withdrawal"}}
        /\ UNCHANGED <<match, link, support, homed, utmDue, shown>>
    BY <1>4, <2>2 DEF Journey!Withdraw, Journey!Lapse
  <2> QED BY <2>1, <2>3, HandoffCloses
<1>5. ASSUME NEW l \in ConversationLinks, NEW b \in Businesses, Journey!Converse(l, b) PROVE JourneyInv'
  <2> DEFINE row == link[l]
             new == [row EXCEPT !.state = "active", !.lead = b]
             next == [link EXCEPT ![l] = new]
  <2>1. Journey!ToLinks({l}, next) /\ link[l].state = "none" /\ UNCHANGED <<match, handoff, support, homed, utmDue, shown>>
    <3>1. Journey!NoLink.state = "none"
      BY DEF Journey!NoLink
    <3>2. Journey!ToLinks({l}, [link EXCEPT ![l] = [@ EXCEPT !.state = "active", !.lead = b]])
      BY <1>5 DEF Journey!Converse
    <3>3. next = [link EXCEPT ![l] = [@ EXCEPT !.state = "active", !.lead = b]]
      OBVIOUS
    <3>4. Journey!ToLinks({l}, next)
      BY ONLY <3>2, <3>3
    <3> QED BY <1>5, <3>1, <3>4 DEF Journey!Converse
  <2>2. new \in LinkRow /\ new.state = "active" /\ new.lead = b
    <3>1. row \in LinkRow
      BY <1>1
    <3> HIDE DEF row
    <3> QED BY <3>1 DEF LinkRow
  <2> HIDE DEF new
  <2>3. next \in [ConversationLinks -> LinkRow] /\ next[l] = new /\ \A k \in ConversationLinks \ {l} : next[k] = link[k]
    BY <1>1, <2>2
  <2> HIDE DEF next
  <2> QED BY <1>1, <2>1, <2>2, <2>3, LinksTurn
<1>6. ASSUME NEW l \in ConversationLinks, NEW b \in Businesses, Journey!Transfer(l, b) PROVE JourneyInv'
  <2> DEFINE row == link[l]
             new == [row EXCEPT !.lead = b]
             next == [link EXCEPT ![l] = new]
  <2>1. /\ Journey!ToLinks({l}, next) /\ link[l].state = "active" /\ utmDue' = utmDue \cup {link[l].lead}
        /\ UNCHANGED <<match, handoff, support, homed, shown>>
    BY <1>6 DEF Journey!Transfer
  <2>2. new \in LinkRow /\ new.state = row.state /\ new.lead = b
    <3>1. row \in LinkRow
      BY <1>1
    <3> HIDE DEF row
    <3> QED BY <3>1 DEF LinkRow
  <2> HIDE DEF new
  <2>3. next \in [ConversationLinks -> LinkRow] /\ next[l] = new /\ \A k \in ConversationLinks \ {l} : next[k] = link[k]
    BY <1>1, <2>2
  <2> HIDE DEF next
  <2> QED BY <1>1, <2>1, <2>2, <2>3, LinksTurn
<1>7. ASSUME NEW l \in ConversationLinks, Journey!Unlink(l) PROVE JourneyInv'
  <2> DEFINE row == link[l]
             new == [row EXCEPT !.state = "dead"]
             next == [link EXCEPT ![l] = new]
  <2>1. Journey!ToLinks({l}, next) /\ link[l].state = "active" /\ UNCHANGED <<match, handoff, support, homed, utmDue, shown>>
    BY <1>7 DEF Journey!Unlink
  <2>2. new \in LinkRow /\ new.state = "dead" /\ new.lead = row.lead
    <3>1. row \in LinkRow
      BY <1>1
    <3> HIDE DEF row
    <3> QED BY <3>1 DEF LinkRow
  <2> HIDE DEF new
  <2>3. next \in [ConversationLinks -> LinkRow] /\ next[l] = new /\ \A k \in ConversationLinks \ {l} : next[k] = link[k]
    BY <1>1, <2>2
  <2> HIDE DEF next
  <2> QED BY <1>1, <2>1, <2>2, <2>3, LinksTurn
<1>8. ASSUME NEW b \in Businesses, Journey!MoveCompany(b) PROVE JourneyInv'
  <2> DEFINE turned == {l \in ConversationLinks : link[l].state = "active" /\ link[l].lead = b}
  <2>1. /\ Journey!ToLinks(turned, link) /\ homed' \subseteq Businesses
        /\ \A c \in Businesses : c # b => (c \in homed' <=> c \in homed)
        /\ UNCHANGED <<match, handoff, support, utmDue, shown>>
    BY <1>1, <1>8 DEF Journey!MoveCompany
  <2>2. /\ turned \in SUBSET ConversationLinks
        /\ \A l \in turned : link[l].state # "none" /\ link[l].lead \in Businesses
        /\ \A l \in ConversationLinks \ turned, c \in Businesses :
             link[l].state = "active" /\ link[l].lead = c => (c \in homed' <=> c \in homed)
    BY <2>1
  <2> HIDE DEF turned
  <2> QED BY <1>1, <2>1, <2>2, LinksTurn
<1> QED BY <1>2, <1>3, <1>4, <1>5, <1>6, <1>7, <1>8

\* The workers.
LEMMA WorkersKeep ==
  ASSUME JourneyInv,
         Journey!Retention \/ \E j \in journeyJobs :
                        Journey!Withdrawal(j) \/ Journey!Erasure(j) \/ Journey!ConvergeMatch(j) \/ Journey!Wake(j) \/ Journey!ConvergeLink(j)
  PROVE  JourneyInv'
<1>1. /\ handoff \in HandoffRow /\ utmDue \subseteq Businesses
      /\ \A l \in ConversationLinks : link[l].state # "none" => link[l].lead \in Businesses
  BY DEF JourneyInv, JourneyTypes, NothingBefore
<1>2. ASSUME NEW rest, Journey!Erase(rest), UNCHANGED <<match, link, support, homed, utmDue, shown>>,
             rest \subseteq journeyJobs, \A j \in journeyJobs : j.kind # "withdrawal" => j \in rest
      PROVE  JourneyInv'
  <2>1. /\ handoff' \in HandoffRow /\ handoff'.erased = TRUE /\ handoff'.due = handoff.due
        /\ handoff'.allowed = handoff.allowed /\ handoff'.withdrawn = handoff.withdrawn
        /\ handoff'.point = IF handoff.point = "live" THEN "erased" ELSE handoff.point
    BY <1>1, <1>2 DEF Journey!Erase, Journey!ErasedHandoff, HandoffRow
  <2>2. Journey!Job("erasure", 0, 0, 0) \in JourneyJob /\ Journey!Job("erasure", 0, 0, 0).kind = "erasure"
    BY DEF Journey!Job, JourneyJob
  <2>3. /\ \A j \in journeyJobs : j.kind # "withdrawal" => j \in journeyJobs'
        /\ journeyJobs' \subseteq journeyJobs \cup {j \in JourneyJob : j.kind \in {"erasure", "withdrawal"}}
        /\ \E j \in journeyJobs' : j.kind = "erasure"
    BY <1>2, <2>2 DEF Journey!Erase
  <2>4. \/ handoff'.point = handoff.point
        \/ handoff.point = "live" /\ handoff'.point = "erased" /\ handoff'.erased
    BY <2>1
  <2> QED BY <1>2, <2>1, <2>3, <2>4, HandoffCloses
<1>3. CASE Journey!Retention
  BY <1>2, <1>3 DEF Journey!Retention
<1>4. ASSUME NEW j \in journeyJobs, Journey!Withdrawal(j) PROVE JourneyInv'
  <2>1. CASE handoff.erased /\ journeyJobs' = journeyJobs \ {j} /\ UNCHANGED handoff
    BY <1>1, <1>4, <2>1, JobIsDone DEF Journey!Withdrawal
  <2>2. ASSUME NEW rest \in Journey!Rest(j), Journey!Erase(rest) PROVE JourneyInv'
    <3>1. rest \subseteq journeyJobs /\ \A k \in journeyJobs : k.kind # "withdrawal" => k \in rest
      BY <1>4 DEF Journey!Rest, Journey!Withdrawal
    <3> QED BY <1>2, <1>4, <2>2, <3>1 DEF Journey!Withdrawal
  <2> QED BY <1>4, <2>1, <2>2 DEF Journey!Withdrawal
<1>5. ASSUME NEW j \in journeyJobs, Journey!Erasure(j) PROVE JourneyInv'
  <2>1. CASE match.state = "none"
    BY <1>1, <1>5, <2>1, JobIsDone DEF Journey!Erasure
  <2>2. CASE match.state # "none"
    <3>1. match.state \in {"suggested", "claimed", "rejected"}
      BY <2>2 DEF JourneyInv, JourneyTypes
    <3> QED BY <1>5, <2>2, <3>1, MatchTurns DEF Journey!Erasure
  <2> QED BY <2>1, <2>2
<1>6. ASSUME NEW j \in journeyJobs, Journey!ConvergeMatch(j) PROVE JourneyInv'
  <2>1. CASE match.revision # j.revision
    BY <1>1, <1>6, <2>1, JobIsDone DEF Journey!ConvergeMatch
  <2>2. CASE match.revision = j.revision
    <3>1. /\ j.kind = "match" /\ handoff' = Journey!Projected /\ support' = Journey!Paired(Journey!Page(j.after), handoff'.point)
          /\ UNCHANGED <<link, homed, shown>> /\ utmDue' = utmDue \cup Journey!Woken(Journey!Page(j.after))
      BY <1>6, <2>2 DEF Journey!ConvergeMatch
    <3>2. PICK rest \in Journey!Rest(j) :
            \/ /\ Journey!After(j.after) # Journey!Page(j.after) /\ match' = match
               /\ journeyJobs' = rest \cup {Journey!Job("match", 0, j.revision, Journey!Last(Journey!Page(j.after)))}
            \/ /\ Journey!After(j.after) = Journey!Page(j.after) /\ match' = [match EXCEPT !.pending = FALSE]
               /\ journeyJobs' = rest \cup {Journey!Job("wake", 0, j.revision, 0)}
      BY <1>6, <2>2 DEF Journey!ConvergeMatch
    <3> QED BY <2>2, <3>1, <3>2, MatchConverges
  <2> QED BY <2>1, <2>2
<1>7. ASSUME NEW j \in journeyJobs, Journey!Wake(j) PROVE JourneyInv'
  <2>1. Journey!WakeAll \subseteq Businesses
    BY <1>1 DEF Journey!WakeAll
  <2> QED BY <1>1, <1>7, <2>1, JobIsDone DEF Journey!Wake
<1>8. ASSUME NEW j \in journeyJobs, Journey!ConvergeLink(j) PROVE JourneyInv'
  <2>1. CASE link[j.link].revision # j.revision
    BY <1>1, <1>8, <2>1, JobIsDone DEF Journey!ConvergeLink
  <2>2. CASE link[j.link].revision = j.revision
    BY <1>8, <2>2, LinkConverges DEF Journey!ConvergeLink
  <2> QED BY <2>1, <2>2
<1> QED BY <1>3, <1>4, <1>5, <1>6, <1>7, <1>8

\* Every step of a journey keeps its invariant.
LEMMA JourneyNextInv == JourneyInv /\ [Journey!Next]_Journey!journeyVars => JourneyInv'
<1> SUFFICES ASSUME JourneyInv, [Journey!Next]_Journey!journeyVars PROVE JourneyInv'
  OBVIOUS
<1> QED BY ProjectUtmKeeps, WritersKeep, WorkersKeep, JourneyRest DEF Journey!Next

------------------------------------------------------------------------------
\* WebIngress: events, windows and lent click values.
LEMMA IngressNumbers ==
  /\ RateLimit \in Nat \ {0} /\ Window \in Nat \ {0} /\ Keep \in Nat /\ Keep >= Window
  /\ Days \subseteq Nat /\ MaxClock \in Nat /\ MaxRequests \in Nat /\ MaxRevision \in Nat \ {0}
  /\ IsFiniteSet(Handlers) /\ "none" \notin Digests
BY IngressBounds, SameSizes DEF Ingress!IngressConstants

\* Induction on a set of numbers, from the well-foundedness of <: the theorem of
\* NaturalsInduction would need an operator as a parameter.
LEMMA NatSets ==
  ASSUME NEW S, 0 \in S, \A n \in Nat : n \in S => n + 1 \in S
  PROVE  Nat \subseteq S
<1> SUFFICES ASSUME NEW n \in Nat \ S PROVE FALSE
  OBVIOUS
<1> DEFINE T == Nat \ S
           R == OpToRel(<, Nat)
<1>1. PICK m \in T : \A k \in T : <<k, m>> \notin R
  <2>1. T \subseteq Nat /\ T # {}
    OBVIOUS
  <2> HIDE DEF T, R
  <2>2. IsWellFoundedOn(R, Nat)
    BY NatLessThanWellFounded DEF R
  <2> QED BY <2>1, <2>2, WFMin
<1>2. m # 0 /\ m \in Nat /\ m - 1 \in Nat
  OBVIOUS
<1>3. <<m - 1, m>> \in R
  BY <1>2 DEF OpToRel
<1>4. m - 1 \in S
  BY <1>1, <1>2, <1>3
<1> QED BY <1>2, <1>4

\* The admissions of the minutes after u, added up from the first on.
Sums(g, n, seen, u) ==
  g = [t \in 0..n |->
         IF t = 0 THEN 0 ELSE g[t - 1] + (IF t - 1 > u THEN seen[t - 1] ELSE 0)]
Sum(seen, u) == CHOOSE g : Sums(g, MaxClock + 1, seen, u)
Since(seen, u) == Sum(seen, u)[MaxClock + 1]

\* The admissions a window counts are those since its start.
LEMMA RecentIsSince == \A seen : Ingress!Recent(seen) = Since(seen, clock - Window)
BY DEF Ingress!Recent, Since, Sum, Sums

LEMMA SumsExist ==
  ASSUME NEW seen, NEW u PROVE \A n \in Nat : \E g : Sums(g, n, seen, u)
<1> DEFINE S == {n \in Nat : \E g : Sums(g, n, seen, u)}
<1>1. 0 \in S
  <2> DEFINE g == [t \in 0..0 |-> 0]
  <2>1. Sums(g, 0, seen, u)
    BY DEF Sums
  <2> QED BY <2>1
<1>2. ASSUME NEW n \in Nat, n \in S PROVE n + 1 \in S
  <2>1. PICK g : Sums(g, n, seen, u)
    BY <1>2
  <2> DEFINE last == g[n] + (IF n > u THEN seen[n] ELSE 0)
             h == [t \in 0..(n + 1) |-> IF t = n + 1 THEN last ELSE g[t]]
  <2>2. \A t \in 0..n : g[t] = IF t = 0 THEN 0
                               ELSE g[t - 1] + (IF t - 1 > u THEN seen[t - 1] ELSE 0)
    BY <2>1 DEF Sums
  <2>3. ASSUME NEW t \in 0..(n + 1)
        PROVE  h[t] = IF t = 0 THEN 0
                      ELSE h[t - 1] + (IF t - 1 > u THEN seen[t - 1] ELSE 0)
    <3>1. CASE t = n + 1
      <4>1. t # 0 /\ t - 1 = n /\ n \in 0..(n + 1) /\ n # n + 1
        BY <3>1
      <4>2. h[t] = last /\ h[t - 1] = g[n]
        BY <3>1, <4>1
      <4> QED BY <4>1, <4>2
    <3>2. CASE t # n + 1
      <4>1. t \in 0..n /\ h[t] = g[t] /\ (t # 0 => t - 1 \in 0..(n + 1) /\ t - 1 # n + 1)
        BY <3>2
      <4>2. t # 0 => h[t - 1] = g[t - 1]
        BY <4>1
      <4> HIDE DEF h
      <4> QED BY <2>2, <4>1, <4>2
    <3> QED BY <3>1, <3>2
  <2>4. Sums(h, n + 1, seen, u)
    <3>1. h = [t \in 0..(n + 1) |-> h[t]]
      OBVIOUS
    <3> HIDE DEF h
    <3> QED BY <2>3, <3>1 DEF Sums
  <2> HIDE DEF h
  <2> QED BY <2>4
<1> HIDE DEF S
<1>3. Nat \subseteq S
  BY <1>1, <1>2, NatSets
<1> QED BY <1>3 DEF S

LEMMA SumFacts ==
  ASSUME NEW seen, NEW u
  PROVE  /\ Sum(seen, u)[0] = 0
         /\ \A t \in Ingress!Times :
              Sum(seen, u)[t + 1] = Sum(seen, u)[t] + (IF t > u THEN seen[t] ELSE 0)
<1> DEFINE g == Sum(seen, u)
<1>1. Sums(g, MaxClock + 1, seen, u)
  <2>1. \E f : Sums(f, MaxClock + 1, seen, u)
    BY SumsExist, IngressNumbers
  <2> QED BY <2>1 DEF Sum
<1> HIDE DEF g
<1>2. \A t \in 0..(MaxClock + 1) :
        g[t] = IF t = 0 THEN 0 ELSE g[t - 1] + (IF t - 1 > u THEN seen[t - 1] ELSE 0)
  BY <1>1 DEF Sums
<1>3. g[0] = 0
  BY <1>2, IngressNumbers
<1>4. ASSUME NEW t \in Ingress!Times PROVE g[t + 1] = g[t] + (IF t > u THEN seen[t] ELSE 0)
  <2>1. t + 1 \in 0..(MaxClock + 1) /\ t + 1 # 0 /\ (t + 1) - 1 = t
    BY IngressNumbers DEF Ingress!Times
  <2> QED BY <1>2, <2>1
<1> QED BY <1>3, <1>4 DEF g

\* Induction along the times.
LEMMA TimesInduction ==
  ASSUME NEW S, 0 \in S, \A t \in Ingress!Times : t \in S => t + 1 \in S
  PROVE  0..(MaxClock + 1) \subseteq S
<1> DEFINE T == {n \in Nat : n <= MaxClock + 1 => n \in S}
<1>1. 0 \in T
  OBVIOUS
<1>2. ASSUME NEW n \in Nat, n \in T PROVE n + 1 \in T
  <2>1. n + 1 <= MaxClock + 1 => n \in Ingress!Times /\ n \in S
    BY <1>2, IngressNumbers DEF Ingress!Times
  <2> QED BY <2>1
<1> HIDE DEF T
<1>3. Nat \subseteq T
  BY <1>1, <1>2, NatSets
<1> QED BY <1>3, IngressNumbers DEF T

LEMMA SinceType ==
  ASSUME NEW seen \in [Ingress!Times -> Nat], NEW u \in Int
  PROVE  /\ Since(seen, u) \in Nat
         /\ \A t \in 0..(MaxClock + 1) : Sum(seen, u)[t] \in Nat
<1> DEFINE g == Sum(seen, u)
           S == {t \in Nat : g[t] \in Nat}
<1>1. g[0] = 0 /\ \A t \in Ingress!Times : g[t + 1] = g[t] + (IF t > u THEN seen[t] ELSE 0)
  BY SumFacts
<1> HIDE DEF g
<1>2. 0 \in S
  BY <1>1
<1>3. ASSUME NEW t \in Ingress!Times, t \in S PROVE t + 1 \in S
  BY <1>1, <1>3 DEF Ingress!Times
<1> HIDE DEF S
<1>4. 0..(MaxClock + 1) \subseteq S
  BY <1>2, <1>3, TimesInduction
<1> QED BY <1>4, IngressNumbers DEF S, g, Since

LEMMA SinceGrows ==
  ASSUME NEW seen \in [Ingress!Times -> Nat], NEW more \in [Ingress!Times -> Nat], NEW u \in Int,
         \A t \in Ingress!Times : t > u => seen[t] <= more[t]
  PROVE  Since(seen, u) <= Since(more, u)
<1> DEFINE g == Sum(seen, u)
           h == Sum(more, u)
           S == {t \in 0..(MaxClock + 1) : g[t] <= h[t]}
<1>1. /\ g[0] = 0 /\ \A t \in Ingress!Times : g[t + 1] = g[t] + (IF t > u THEN seen[t] ELSE 0)
      /\ h[0] = 0 /\ \A t \in Ingress!Times : h[t + 1] = h[t] + (IF t > u THEN more[t] ELSE 0)
  BY SumFacts
<1>2. \A t \in 0..(MaxClock + 1) : g[t] \in Nat /\ h[t] \in Nat
  BY SinceType
<1> HIDE DEF g, h
<1>3. 0 \in S
  BY <1>1, IngressNumbers
<1>4. ASSUME NEW t \in Ingress!Times, t \in S PROVE t + 1 \in S
  <2>1. t \in 0..(MaxClock + 1) /\ t + 1 \in 0..(MaxClock + 1) /\ t \in Int
    BY IngressNumbers DEF Ingress!Times
  <2>2. seen[t] \in Nat /\ more[t] \in Nat
    OBVIOUS
  <2>3. g[t] <= h[t]
    BY <1>4
  <2>4. g[t + 1] <= h[t + 1]
    BY <1>1, <1>2, <2>1, <2>2, <2>3
  <2> QED BY <2>1, <2>4
<1> HIDE DEF S
<1>5. MaxClock + 1 \in S
  BY <1>3, <1>4, TimesInduction, IngressNumbers
<1> QED BY <1>5 DEF S, g, h, Since

\* One more admission counts one more, if it is one of those minutes.
LEMMA SinceCounts ==
  ASSUME NEW seen \in [Ingress!Times -> Nat], NEW u \in Int, NEW at \in Ingress!Times
  PROVE  Since([seen EXCEPT ![at] = @ + 1], u) = Since(seen, u) + (IF at > u THEN 1 ELSE 0)
<1> DEFINE more == [seen EXCEPT ![at] = @ + 1]
           g == Sum(seen, u)
           h == Sum(more, u)
           S == {t \in 0..(MaxClock + 1) : h[t] = g[t] + (IF at > u /\ at < t THEN 1 ELSE 0)}
<1>1. /\ g[0] = 0 /\ \A t \in Ingress!Times : g[t + 1] = g[t] + (IF t > u THEN seen[t] ELSE 0)
      /\ h[0] = 0 /\ \A t \in Ingress!Times : h[t + 1] = h[t] + (IF t > u THEN more[t] ELSE 0)
  BY SumFacts
<1>2. /\ more \in [Ingress!Times -> Nat]
      /\ \A t \in Ingress!Times : more[t] = IF t = at THEN seen[t] + 1 ELSE seen[t]
  OBVIOUS
<1>3. \A t \in 0..(MaxClock + 1) : g[t] \in Nat /\ h[t] \in Nat
  BY <1>2, SinceType
<1> HIDE DEF g, h, more
<1>4. 0 \in S
  BY <1>1, IngressNumbers DEF Ingress!Times
<1>5. ASSUME NEW t \in Ingress!Times, t \in S PROVE t + 1 \in S
  <2>1. t \in 0..(MaxClock + 1) /\ t + 1 \in 0..(MaxClock + 1) /\ t \in Int /\ at \in Int
    BY IngressNumbers DEF Ingress!Times
  <2>2. seen[t] \in Nat /\ more[t] = IF t = at THEN seen[t] + 1 ELSE seen[t]
    BY <1>2
  <2>3. h[t] = g[t] + (IF at > u /\ at < t THEN 1 ELSE 0)
    BY <1>5
  <2>4. /\ g[t + 1] = g[t] + (IF t > u THEN seen[t] ELSE 0)
        /\ h[t + 1] = h[t] + (IF t > u THEN more[t] ELSE 0)
    BY <1>1
  <2>5. h[t + 1] = g[t + 1] + (IF at > u /\ at < t + 1 THEN 1 ELSE 0)
    BY <1>3, <2>1, <2>2, <2>3, <2>4
  <2> QED BY <2>1, <2>5
<1> HIDE DEF S
<1>6. MaxClock + 1 \in S
  BY <1>4, <1>5, TimesInduction, IngressNumbers
<1>7. h[MaxClock + 1] = g[MaxClock + 1] + (IF at > u /\ at < MaxClock + 1 THEN 1 ELSE 0)
  BY <1>6 DEF S
<1>8. at < MaxClock + 1
  BY IngressNumbers DEF Ingress!Times
<1> QED BY <1>7, <1>8 DEF g, h, more, Since

\* Where nothing was admitted, nothing is counted.
LEMMA SinceNothing ==
  ASSUME NEW u \in Int PROVE Since([t \in Ingress!Times |-> 0], u) = 0
<1> DEFINE seen == [t \in Ingress!Times |-> 0]
           g == Sum(seen, u)
           S == {t \in Nat : g[t] = 0}
<1>1. g[0] = 0 /\ \A t \in Ingress!Times : g[t + 1] = g[t] + (IF t > u THEN seen[t] ELSE 0)
  BY SumFacts
<1>2. \A t \in Ingress!Times : seen[t] = 0
  OBVIOUS
<1> HIDE DEF g, seen
<1>3. 0 \in S
  BY <1>1
<1>4. ASSUME NEW t \in Ingress!Times, t \in S PROVE t + 1 \in S
  BY <1>1, <1>2, <1>4 DEF Ingress!Times
<1> HIDE DEF S
<1>5. MaxClock + 1 \in S
  BY <1>3, <1>4, TimesInduction, IngressNumbers
<1> QED BY <1>5 DEF S, g, seen, Since

\* No minute has more admissions than all of them together.
LEMMA SinceHolds ==
  ASSUME NEW seen \in [Ingress!Times -> Nat], NEW at \in Ingress!Times
  PROVE  seen[at] <= Since(seen, 0 - 1)
<1> DEFINE g == Sum(seen, 0 - 1)
           S == {t \in 0..(MaxClock + 1) : at < t => seen[at] <= g[t]}
<1>1. g[0] = 0 /\ \A t \in Ingress!Times : g[t + 1] = g[t] + (IF t > 0 - 1 THEN seen[t] ELSE 0)
  BY SumFacts
<1>2. \A t \in 0..(MaxClock + 1) : g[t] \in Nat
  BY SinceType
<1> HIDE DEF g
<1>3. 0 \in S
  BY IngressNumbers DEF Ingress!Times
<1>4. ASSUME NEW t \in Ingress!Times, t \in S PROVE t + 1 \in S
  <2>1. t \in 0..(MaxClock + 1) /\ t + 1 \in 0..(MaxClock + 1) /\ t \in Int /\ at \in Int /\ t > 0 - 1
    BY IngressNumbers DEF Ingress!Times
  <2>2. seen[t] \in Nat /\ seen[at] \in Nat /\ g[t] \in Nat
    BY <1>2, <2>1
  <2>3. at < t => seen[at] <= g[t]
    BY <1>4
  <2>4. g[t + 1] = g[t] + seen[t]
    BY <1>1, <2>1
  <2>5. at < t + 1 => seen[at] <= g[t + 1]
    BY <2>1, <2>2, <2>3, <2>4
  <2> QED BY <2>1, <2>5
<1> HIDE DEF S
<1>5. MaxClock + 1 \in S
  BY <1>3, <1>4, TimesInduction, IngressNumbers
<1> QED BY <1>5, IngressNumbers DEF S, g, Since, Ingress!Times

HitRecord ==
  {Ingress!Idle}
  \cup [pc : {"begun"}, key : EventKeys, digest : Digests, served : Nat, revision : Nat,
        admissions : [Ingress!Times -> Nat], event : Ingress!Events]
  \cup [pc : {"retried"}, key : EventKeys, digest : Digests, served : Nat]
  \cup [pc : {"admitted", "written", "known"}, key : EventKeys, digest : Digests, served : Nat,
        event : Ingress!Events, at : Ingress!Times]
LoanRecord ==
  {Ingress!Idle} \cup [pc : {"asked", "lent"}, key : EventKeys, revision : Nat, event : Ingress!Events]

IngressTypes ==
  /\ ingress \in [revision : 1..MaxRevision, on : BOOLEAN, purpose : Purposes, days : Days]
  /\ clock \in Ingress!Times /\ requests \in 0..MaxRequests
  /\ admissions \in [Ingress!Times -> Nat] /\ captured \in [EventKeys -> Ingress!Events]
  /\ answers \subseteq EventKeys \X Digests \X Ingress!Answered
  /\ hits \in [Handlers -> HitRecord] /\ loans \in [Borrowers -> LoanRecord]

\* A handler that saw an event saw the digest it has; one that writes an event is
\* the only one of its key.
TellsRight(t) ==
  /\ t.pc \in {"begun", "admitted", "known"} /\ t.event # Ingress!NoEvent =>
       captured[t.key] # Ingress!NoEvent /\ captured[t.key].digest = t.event.digest
  /\ t.pc = "known" => t.event # Ingress!NoEvent
  /\ t.pc = "written" => captured[t.key] = Ingress!NoEvent /\ t.event # Ingress!NoEvent /\ t.event.digest = t.digest
HandlersTellRight ==
  /\ \A w \in Handlers : TellsRight(hits[w])
  /\ \A w, v \in Handlers :
       w # v /\ hits[w].pc = "written" /\ hits[v].pc = "written" => hits[w].key # hits[v].key

LentIsCaptured ==
  \A b \in Borrowers : loans[b].pc \in {"asked", "lent"} => captured[loans[b].key] # Ingress!NoEvent

\* The transactions that may still add an admission to the minutes after u.
Adds(t, u) ==
  \/ t.pc \in {"admitted", "written", "known"} /\ t.at > u
  \/ t.pc = "begun" /\ Since(t.admissions, u) < RateLimit
Adding(u) == {w \in Handlers : Adds(hits[w], u)}
\* Of every window that is not over, what is counted and what may still be.
WindowsAreBounded ==
  \A u \in Int : u >= clock - Window =>
    Since(admissions, u) + Cardinality(Adding(u)) <= RateLimit + Cardinality(Handlers) - 1

\* Every admission is of a request, an open transaction of one that is not counted.
RequestsAdmit ==
  Since(admissions, 0 - 1) + Cardinality({w \in Handlers : hits[w].pc # "idle"}) <= requests

IngressInv ==
  /\ IngressTypes /\ HandlersTellRight /\ Ingress!AnswersAgree
  /\ LentIsCaptured /\ Ingress!HeldClickIsLawful /\ WindowsAreBounded /\ RequestsAdmit

\* What the invariant says of the window of the moment bounds the burst.
LEMMA IngressGives == IngressInv => Ingress!IngressTypeOK /\ Ingress!BurstIsBounded
<1> SUFFICES ASSUME IngressInv PROVE Ingress!IngressTypeOK /\ Ingress!BurstIsBounded
  OBVIOUS
<1> USE IngressNumbers
<1>1. clock \in Int /\ Window \in Int /\ clock - Window \in Int /\ admissions \in [Ingress!Times -> Nat]
  BY DEF IngressInv, IngressTypes, Ingress!Times
<1>2. Ingress!BurstIsBounded
  <2>1. Since(admissions, clock - Window) \in Nat
    BY <1>1, SinceType
  <2>2. /\ IsFiniteSet(Adding(clock - Window))
        /\ Cardinality(Adding(clock - Window)) \in Nat /\ Cardinality(Handlers) \in Nat
    <3>1. Adding(clock - Window) \in SUBSET Handlers
      BY DEF Adding
    <3> QED BY <3>1, FS_Subset, FS_CardinalityType
  <2>3. Since(admissions, clock - Window) + Cardinality(Adding(clock - Window))
          <= RateLimit + Cardinality(Handlers) - 1
    BY <1>1 DEF IngressInv, WindowsAreBounded
  <2>4. Ingress!Recent(admissions) = Since(admissions, clock - Window)
    BY RecentIsSince
  <2>5. Ingress!Cardinality(Handlers) = Cardinality(Handlers)
    BY SameSizes
  <2> QED BY <2>1, <2>2, <2>3, <2>4, <2>5 DEF Ingress!BurstIsBounded
<1>3. admissions \in [Ingress!Times -> 0..MaxRequests]
  <2> SUFFICES ASSUME NEW t \in Ingress!Times PROVE admissions[t] \in 0..MaxRequests
    BY <1>1
  <2> DEFINE open == {w \in Handlers : hits[w].pc # "idle"}
  <2>1. admissions[t] \in Nat /\ admissions[t] <= Since(admissions, 0 - 1)
    BY <1>1, SinceHolds
  <2>2. Since(admissions, 0 - 1) \in Nat
    BY <1>1, SinceType
  <2>3. Cardinality(open) \in Nat
    <3>1. open \in SUBSET Handlers
      OBVIOUS
    <3> QED BY <3>1, FS_Subset, FS_CardinalityType
  <2>4. Since(admissions, 0 - 1) + Cardinality(open) <= requests /\ requests \in 0..MaxRequests
    BY DEF IngressInv, IngressTypes, RequestsAdmit
  <2> HIDE DEF open
  <2> QED BY <2>1, <2>2, <2>3, <2>4
<1> QED BY <1>2, <1>3 DEF IngressInv, IngressTypes, Ingress!IngressTypeOK

LEMMA IdleFacts ==
  /\ Ingress!Idle.pc = "idle" /\ Ingress!Idle \in HitRecord /\ Ingress!Idle \in LoanRecord /\ TellsRight(Ingress!Idle)
  /\ \A u : ~Adds(Ingress!Idle, u)
BY DEF Ingress!Idle, HitRecord, LoanRecord, TellsRight, Adds

LEMMA HitFacts ==
  ASSUME NEW t \in HitRecord
  PROVE  /\ t.pc \in {"idle", "begun", "retried", "admitted", "written", "known"}
         /\ t.pc # "idle" => t.key \in EventKeys /\ t.digest \in Digests /\ t.served \in Nat
         /\ t.pc = "begun" => t.admissions \in [Ingress!Times -> Nat]
         /\ t.pc \in {"begun", "admitted", "written", "known"} => t.event \in Ingress!Events
         /\ t.pc \in {"admitted", "written", "known"} => t.at \in Ingress!Times
BY DEF HitRecord, Ingress!Idle

\* A stored event has a digest, what is not stored has none.
LEMMA EventFacts ==
  /\ Ingress!NoEvent \in Ingress!Events /\ Ingress!NoEvent.digest = "none" /\ Ingress!NoEvent.until = Ingress!Never
  /\ \A e \in Ingress!Events :
       /\ e # Ingress!NoEvent <=> e.digest # "none"
       /\ e # Ingress!NoEvent <=> e.digest \in Digests
       /\ e # Ingress!NoEvent => e \in [digest : Digests, until : 0..Ingress!NoPolicy, erased : BOOLEAN, purpose : Purposes]
BY IngressNumbers DEF Ingress!NoEvent, Ingress!Events

LEMMA DeadlineType ==
  ASSUME IngressTypes, NEW observed \in Nat PROVE Ingress!Deadline(observed) \in 0..Ingress!Never
<1>1. ingress.days \in Nat /\ MaxClock \in Nat
  BY IngressNumbers DEF IngressTypes
<1> QED BY <1>1 DEF Ingress!Deadline, Ingress!Never

LEMMA IngressInitInv == Ingress!Init => IngressInv
<1> SUFFICES ASSUME Ingress!Init PROVE IngressInv
  OBVIOUS
<1> USE IngressNumbers
<1>1. /\ admissions = [t \in Ingress!Times |-> 0] /\ hits = [w \in Handlers |-> Ingress!Idle]
      /\ loans = [b \in Borrowers |-> Ingress!Idle] /\ answers = {} /\ clock = 0 /\ requests = 0
  BY DEF Ingress!Init
<1>2. \A w \in Handlers : hits[w] = Ingress!Idle
  BY <1>1
<1>3. captured \in [EventKeys -> Ingress!Events]
  <2>1. PICK legacy \in SUBSET EventKeys, d \in Digests, p \in Purposes :
          captured = [k \in EventKeys |->
            IF k \in legacy THEN [digest |-> d, until |-> Ingress!NoPolicy, erased |-> FALSE, purpose |-> p]
            ELSE Ingress!NoEvent]
    BY DEF Ingress!Init
  <2>2. [digest |-> d, until |-> Ingress!NoPolicy, erased |-> FALSE, purpose |-> p] \in Ingress!Events
    BY DEF Ingress!Events, Ingress!NoPolicy
  <2> QED BY <2>1, <2>2, EventFacts
<1>4. IngressTypes
  <2>1. ingress \in [revision : 1..MaxRevision, on : BOOLEAN, purpose : Purposes, days : Days]
    <3>1. 1 \in 1..MaxRevision /\ TRUE \in BOOLEAN
      OBVIOUS
    <3>2. ingress \in [revision : {1}, on : {TRUE}, purpose : Purposes, days : Days]
      BY DEF Ingress!Init
    <3> QED BY <3>1, <3>2
  <2> QED BY <1>1, <1>3, <2>1, IdleFacts DEF IngressTypes, Ingress!Times
<1>5. \A S : S \subseteq {} => Cardinality(S) = 0
  <2>1. \A S : S \subseteq {} => S = {}
    OBVIOUS
  <2> QED BY <2>1, FS_EmptySet
<1>6. WindowsAreBounded
  <2> SUFFICES ASSUME NEW u \in Int
               PROVE  Since(admissions, u) + Cardinality(Adding(u)) <= RateLimit + Cardinality(Handlers) - 1
    BY DEF WindowsAreBounded
  <2>1. Since(admissions, u) = 0
    BY <1>1, SinceNothing
  <2>2. Adding(u) \subseteq {}
    BY <1>2, IdleFacts DEF Adding
  <2>3. Cardinality(Handlers) \in Nat
    BY FS_CardinalityType
  <2> QED BY <1>5, <2>1, <2>2, <2>3
<1>7. RequestsAdmit
  <2>1. Since(admissions, 0 - 1) = 0
    BY <1>1, SinceNothing
  <2>2. {w \in Handlers : hits[w].pc # "idle"} \subseteq {}
    BY <1>2, IdleFacts
  <2> QED BY <1>1, <1>5, <2>1, <2>2 DEF RequestsAdmit
<1>8. HandlersTellRight
  BY <1>2, IdleFacts DEF HandlersTellRight
<1>9. Ingress!AnswersAgree /\ LentIsCaptured /\ Ingress!HeldClickIsLawful
  <2>1. \A b \in Borrowers : loans[b].pc = "idle"
    BY <1>1, IdleFacts
  <2> QED BY <1>1, <2>1 DEF Ingress!AnswersAgree, LentIsCaptured, Ingress!HeldClickIsLawful
<1> QED BY <1>4, <1>6, <1>7, <1>8, <1>9 DEF IngressInv

LEMMA AddingFacts ==
  ASSUME NEW S \in SUBSET Handlers
  PROVE  /\ IsFiniteSet(S) /\ Cardinality(S) \in Nat /\ Cardinality(Handlers) \in Nat
         /\ Cardinality(S) <= Cardinality(Handlers)
         /\ \A T \in SUBSET S : Cardinality(T) \in Nat /\ Cardinality(T) <= Cardinality(S)
         /\ \A w \in S : Cardinality(S \ {w}) = Cardinality(S) - 1
<1>1. IsFiniteSet(Handlers)
  BY IngressNumbers
<1>2. IsFiniteSet(S) /\ Cardinality(S) <= Cardinality(Handlers)
  BY <1>1, FS_Subset
<1>3. ASSUME NEW T \in SUBSET S PROVE Cardinality(T) \in Nat /\ Cardinality(T) <= Cardinality(S)
  BY <1>2, FS_Subset, FS_CardinalityType
<1>4. ASSUME NEW w \in S PROVE Cardinality(S \ {w}) = Cardinality(S) - 1
  BY <1>2, FS_RemoveElement
<1> QED BY <1>1, <1>2, <1>3, <1>4, FS_CardinalityType

\* Nothing is admitted: the windows only shrink.
LEMMA WindowsRest ==
  ASSUME IngressInv, UNCHANGED <<hits, requests>>,
         clock' \in Ingress!Times, clock' >= clock, admissions' \in [Ingress!Times -> Nat],
         \A t \in Ingress!Times : admissions'[t] <= admissions[t]
  PROVE  WindowsAreBounded' /\ RequestsAdmit'
<1> USE IngressNumbers
<1>1. clock \in Int /\ clock' \in Int /\ admissions \in [Ingress!Times -> Nat] /\ requests \in Nat
  BY DEF IngressInv, IngressTypes, Ingress!Times
<1>2. ASSUME NEW u \in Int
      PROVE  /\ Since(admissions', u) \in Nat /\ Since(admissions, u) \in Nat
             /\ Since(admissions', u) <= Since(admissions, u)
  BY <1>1, SinceGrows, SinceType
<1>3. WindowsAreBounded'
  <2> SUFFICES ASSUME NEW u \in Int, u >= clock' - Window
               PROVE  Since(admissions', u) + Cardinality(Adding(u)') <= RateLimit + Cardinality(Handlers) - 1
    BY DEF WindowsAreBounded
  <2>1. Adding(u)' = Adding(u)
    BY DEF Adding
  <2>2. u >= clock - Window
    <3>1. \A a, b, c \in Int : b >= a /\ u >= b - c => u >= a - c
      OBVIOUS
    <3>2. Window \in Int /\ clock \in Int /\ clock' \in Int
      BY <1>1, IngressNumbers
    <3> QED BY <3>1, <3>2
  <2>3. Since(admissions, u) + Cardinality(Adding(u)) <= RateLimit + Cardinality(Handlers) - 1
    BY <2>2 DEF IngressInv, WindowsAreBounded
  <2>4. Cardinality(Adding(u)) \in Nat /\ Cardinality(Handlers) \in Nat
    <3>1. Adding(u) \in SUBSET Handlers
      BY DEF Adding
    <3> QED BY <3>1, AddingFacts
  <2> QED BY <1>2, <2>1, <2>3, <2>4
<1>4. RequestsAdmit'
  <2> DEFINE open == {w \in Handlers : hits[w].pc # "idle"}
  <2>1. Since(admissions, 0 - 1) + Cardinality(open) <= requests
    BY DEF IngressInv, RequestsAdmit
  <2>2. Cardinality(open) \in Nat
    <3>1. open \in SUBSET Handlers
      OBVIOUS
    <3> QED BY <3>1, AddingFacts
  <2>3. open' = open
    OBVIOUS
  <2> HIDE DEF open
  <2>4. Since(admissions', 0 - 1) + Cardinality(open) <= requests'
    BY <1>1, <1>2, <2>1, <2>2
  <2> QED BY <2>3, <2>4 DEF RequestsAdmit, open
<1> QED BY <1>3, <1>4

\* A handler goes on within its transaction, or begins one, or gives it up.
LEMMA HandlerMoves ==
  ASSUME IngressInv, NEW w \in Handlers, NEW t \in HitRecord, hits' = [hits EXCEPT ![w] = t],
         UNCHANGED <<ingress, clock, loans, captured, answers, admissions>>,
         requests' \in 0..MaxRequests,
         \/ requests' = requests /\ (t.pc # "idle" => hits[w].pc # "idle")
         \/ requests' = requests + 1,
         TellsRight(t),
         \A v \in Handlers \ {w} :
           t.pc = "written" /\ hits[v].pc = "written" => hits[v].key # t.key,
         \A u \in Int : u >= clock - Window /\ Adds(t, u) =>
           Adds(hits[w], u) \/ Since(admissions, u) < RateLimit
  PROVE  IngressInv'
<1> USE IngressNumbers
<1>1. /\ IngressTypes /\ clock \in Int /\ admissions \in [Ingress!Times -> Nat] /\ requests \in Nat
      /\ requests' \in Nat /\ DOMAIN hits = Handlers /\ hits' \in [Handlers -> HitRecord]
      /\ \A v \in Handlers : hits'[v] = IF v = w THEN t ELSE hits[v]
  BY DEF IngressInv, IngressTypes, Ingress!Times
<1>2. IngressTypes'
  BY <1>1 DEF IngressTypes
<1>3. HandlersTellRight'
  <2>1. \A v \in Handlers : TellsRight(hits[v])'
    <3> SUFFICES ASSUME NEW v \in Handlers PROVE TellsRight(hits[v])'
      OBVIOUS
    <3>1. TellsRight(hits'[v])
      BY <1>1 DEF IngressInv, HandlersTellRight
    <3> QED BY <3>1 DEF TellsRight
  <2>2. \A v, x \in Handlers :
          v # x /\ hits'[v].pc = "written" /\ hits'[x].pc = "written" => hits'[v].key # hits'[x].key
    BY <1>1 DEF IngressInv, HandlersTellRight
  <2> QED BY <2>1, <2>2 DEF HandlersTellRight
<1>4. Ingress!AnswersAgree' /\ LentIsCaptured' /\ Ingress!HeldClickIsLawful'
  BY DEF IngressInv, Ingress!AnswersAgree, LentIsCaptured, Ingress!HeldClickIsLawful
<1>5. WindowsAreBounded'
  <2> SUFFICES ASSUME NEW u \in Int, u >= clock - Window
               PROVE  Since(admissions, u) + Cardinality(Adding(u)') <= RateLimit + Cardinality(Handlers) - 1
    BY DEF WindowsAreBounded
  <2>1. Since(admissions, u) \in Nat
    BY <1>1, SinceType
  <2>2. /\ Adding(u) \in SUBSET Handlers /\ Adding(u)' \in SUBSET Handlers
    BY DEF Adding
  <2>3. /\ Cardinality(Adding(u)) \in Nat /\ Cardinality(Adding(u)') \in Nat
        /\ Cardinality(Handlers) \in Nat /\ Cardinality(Adding(u)') <= Cardinality(Handlers)
    BY <2>2, AddingFacts
  <2>4. CASE Since(admissions, u) < RateLimit
    BY <2>1, <2>3, <2>4
  <2>5. CASE ~(Since(admissions, u) < RateLimit)
    <3>1. Adding(u)' \in SUBSET Adding(u)
      BY <1>1, <2>5 DEF Adding
    <3>2. Cardinality(Adding(u)') <= Cardinality(Adding(u))
      BY <2>2, <3>1, AddingFacts
    <3>3. Since(admissions, u) + Cardinality(Adding(u)) <= RateLimit + Cardinality(Handlers) - 1
      BY DEF IngressInv, WindowsAreBounded
    <3> QED BY <2>1, <2>3, <3>2, <3>3
  <2> QED BY <2>4, <2>5
<1>6. RequestsAdmit'
  <2> DEFINE open == {v \in Handlers : hits[v].pc # "idle"}
             opened == {v \in Handlers : hits'[v].pc # "idle"}
  <2>1. open \in SUBSET Handlers /\ opened \in SUBSET Handlers
    OBVIOUS
  <2>2. opened \subseteq open \cup {w}
    BY <1>1
  <2>3. requests' = requests => opened \subseteq open
    BY <1>1
  <2>4. Since(admissions, 0 - 1) + Cardinality(open) <= requests
    BY DEF IngressInv, RequestsAdmit
  <2> HIDE DEF open, opened
  <2>5. Cardinality(open) \in Nat /\ Cardinality(opened) \in Nat /\ Since(admissions, 0 - 1) \in Nat
    BY <1>1, <2>1, AddingFacts, SinceType
  <2>6. Since(admissions, 0 - 1) + Cardinality(opened) <= requests'
    <3>1. CASE opened \subseteq open
      <4>1. Cardinality(opened) <= Cardinality(open)
        BY <2>1, <3>1, AddingFacts
      <4> QED BY <1>1, <2>4, <2>5, <4>1
    <3>2. CASE ~(opened \subseteq open)
      <4>1. IsFiniteSet(open)
        BY <2>1, AddingFacts
      <4>2. /\ IsFiniteSet(open \cup {w})
            /\ Cardinality(open \cup {w}) <= Cardinality(open) + 1 /\ Cardinality(open \cup {w}) \in Nat
        <5>1. /\ IsFiniteSet(open \cup {w})
              /\ Cardinality(open \cup {w}) = IF w \in open THEN Cardinality(open) ELSE Cardinality(open) + 1
          BY <4>1, FS_AddElement
        <5> QED BY <2>5, <5>1
      <4>3. Cardinality(opened) <= Cardinality(open \cup {w})
        BY <2>2, <4>2, FS_Subset
      <4>4. requests' = requests + 1
        BY <2>3, <3>2
      <4> QED BY <1>1, <2>4, <2>5, <4>2, <4>3, <4>4
    <3> QED BY <3>1, <3>2
  <2> QED BY <2>6 DEF RequestsAdmit, opened
<1> QED BY <1>2, <1>3, <1>4, <1>5, <1>6 DEF IngressInv

\* A transaction that was admitted commits and is counted: it is over.
LEMMA HandlerCounts ==
  ASSUME IngressInv, NEW w \in Handlers, hits[w].pc \in {"admitted", "written", "known"},
         hits' = [hits EXCEPT ![w] = Ingress!Idle],
         admissions' = [admissions EXCEPT ![hits[w].at] = @ + 1],
         UNCHANGED <<clock, requests>>
  PROVE  /\ hits' \in [Handlers -> HitRecord] /\ admissions' \in [Ingress!Times -> Nat]
         /\ WindowsAreBounded' /\ RequestsAdmit'
<1> USE IngressNumbers
<1> DEFINE at == hits[w].at
<1>1. /\ clock \in Int /\ admissions \in [Ingress!Times -> Nat] /\ requests \in Nat
      /\ hits \in [Handlers -> HitRecord] /\ hits' \in [Handlers -> HitRecord]
      /\ \A v \in Handlers : hits'[v] = IF v = w THEN Ingress!Idle ELSE hits[v]
  BY IdleFacts DEF IngressInv, IngressTypes, Ingress!Times
<1>2. at \in Ingress!Times /\ at \in Int
  BY <1>1, HitFacts DEF Ingress!Times
<1>3. admissions' \in [Ingress!Times -> Nat]
  BY <1>1, <1>2
<1>4. ASSUME NEW u \in Int
      PROVE  /\ Since(admissions, u) \in Nat /\ Since(admissions', u) \in Nat
             /\ Since(admissions', u) = Since(admissions, u) + (IF at > u THEN 1 ELSE 0)
  BY <1>1, <1>2, <1>3, SinceCounts, SinceType
<1>5. WindowsAreBounded'
  <2> SUFFICES ASSUME NEW u \in Int, u >= clock - Window
               PROVE  Since(admissions', u) + Cardinality(Adding(u)') <= RateLimit + Cardinality(Handlers) - 1
    BY DEF WindowsAreBounded
  <2>1. Adding(u) \in SUBSET Handlers /\ Adding(u)' \in SUBSET (Adding(u) \ {w})
    BY <1>1, IdleFacts DEF Adding
  <2>2. Adding(u)' \in SUBSET Handlers
    BY <2>1
  <2>3. /\ Cardinality(Adding(u)) \in Nat /\ Cardinality(Adding(u)') \in Nat
        /\ Cardinality(Handlers) \in Nat
    BY <2>1, <2>2, AddingFacts
  <2>4. Since(admissions, u) + Cardinality(Adding(u)) <= RateLimit + Cardinality(Handlers) - 1
    BY DEF IngressInv, WindowsAreBounded
  <2>5. CASE at > u
    <3>1. w \in Adding(u)
      BY <2>5 DEF Adding, Adds
    <3>2. Adding(u) \ {w} \in SUBSET Handlers
      BY <2>1
    <3>3. /\ Cardinality(Adding(u) \ {w}) = Cardinality(Adding(u)) - 1
          /\ Cardinality(Adding(u)') <= Cardinality(Adding(u) \ {w})
      BY <2>1, <3>1, <3>2, AddingFacts
    <3>4. Since(admissions', u) = Since(admissions, u) + 1
      BY <1>4, <2>5
    <3>5. Cardinality(Adding(u)') <= Cardinality(Adding(u)) - 1
      BY <3>3
    <3> QED BY <1>4, <2>3, <2>4, <3>4, <3>5
  <2>6. CASE ~(at > u)
    <3>1. Adding(u)' \in SUBSET Adding(u)
      BY <2>1
    <3>2. Cardinality(Adding(u)') <= Cardinality(Adding(u))
      BY <2>1, <3>1, AddingFacts
    <3>3. Since(admissions', u) = Since(admissions, u)
      <4>1. Since(admissions', u) = Since(admissions, u) + (IF at > u THEN 1 ELSE 0)
        BY <1>4
      <4>2. Since(admissions, u) \in Nat
        BY <1>4
      <4> HIDE DEF at
      <4> QED BY <2>6, <4>1, <4>2
    <3>4. Since(admissions, u) \in Nat
      BY <1>4
    <3> HIDE IngressNumbers
    <3>5. RateLimit \in Nat
      BY IngressNumbers
    <3> QED BY <2>3, <2>4, <3>2, <3>3, <3>4, <3>5
  <2> QED BY <2>5, <2>6
<1>6. RequestsAdmit'
  <2> DEFINE open == {v \in Handlers : hits[v].pc # "idle"}
             opened == {v \in Handlers : hits'[v].pc # "idle"}
  <2>1. open \in SUBSET Handlers /\ opened = open \ {w} /\ w \in open
    BY <1>1, IdleFacts
  <2>2. Since(admissions, 0 - 1) + Cardinality(open) <= requests
    BY DEF IngressInv, RequestsAdmit
  <2> HIDE DEF open, opened
  <2>3. Cardinality(open) \in Nat /\ Cardinality(opened) = Cardinality(open) - 1
    BY <2>1, AddingFacts
  <2>4. /\ Since(admissions, 0 - 1) \in Nat
        /\ Since(admissions', 0 - 1) <= Since(admissions, 0 - 1) + 1 /\ Since(admissions', 0 - 1) \in Nat
    <3> DEFINE u == 0 - 1
    <3>1. u \in Int
      OBVIOUS
    <3> HIDE DEF u
    <3>2. /\ Since(admissions, u) \in Nat /\ Since(admissions', u) \in Nat
          /\ Since(admissions', u) = Since(admissions, u) + (IF at > u THEN 1 ELSE 0)
      BY <1>4, <3>1
    <3>3. Since(admissions', u) <= Since(admissions, u) + 1
      BY <3>2
    <3> QED BY <3>2, <3>3 DEF u
  <2>5. Since(admissions', 0 - 1) + Cardinality(opened) <= requests'
    BY <1>1, <2>2, <2>3, <2>4
  <2> QED BY <2>5 DEF RequestsAdmit, opened
<1> QED BY <1>1, <1>3, <1>5, <1>6

LEMMA SinceShrinks ==
  ASSUME NEW seen \in [Ingress!Times -> Nat], NEW u \in Int, NEW v \in Int, u >= v
  PROVE  Since(seen, u) <= Since(seen, v)
<1> DEFINE g == Sum(seen, u)
           h == Sum(seen, v)
           S == {t \in 0..(MaxClock + 1) : g[t] <= h[t]}
<1>1. /\ g[0] = 0 /\ \A t \in Ingress!Times : g[t + 1] = g[t] + (IF t > u THEN seen[t] ELSE 0)
      /\ h[0] = 0 /\ \A t \in Ingress!Times : h[t + 1] = h[t] + (IF t > v THEN seen[t] ELSE 0)
  BY SumFacts
<1>2. \A t \in 0..(MaxClock + 1) : g[t] \in Nat /\ h[t] \in Nat
  BY SinceType
<1> HIDE DEF g, h
<1>3. 0 \in S
  BY <1>1, IngressNumbers
<1>4. ASSUME NEW t \in Ingress!Times, t \in S PROVE t + 1 \in S
  <2>1. t \in 0..(MaxClock + 1) /\ t + 1 \in 0..(MaxClock + 1) /\ t \in Int
    BY IngressNumbers DEF Ingress!Times
  <2>2. seen[t] \in Nat
    OBVIOUS
  <2>3. g[t] <= h[t]
    BY <1>4
  <2>4. g[t + 1] <= h[t + 1]
    BY <1>1, <1>2, <2>1, <2>2, <2>3
  <2> QED BY <2>1, <2>4
<1> HIDE DEF S
<1>5. MaxClock + 1 \in S
  BY <1>3, <1>4, TimesInduction, IngressNumbers
<1> QED BY <1>5 DEF S, g, h, Since

\* A request begins, or begins again, with the events and the admissions as they are.
LEMMA BeginsRight ==
  ASSUME IngressInv, NEW k \in EventKeys, NEW d \in Digests, NEW served \in Nat
  PROVE  /\ Ingress!Begun(k, d, served) \in HitRecord /\ TellsRight(Ingress!Begun(k, d, served))
         /\ Ingress!Begun(k, d, served).pc = "begun"
         /\ \A u : Adds(Ingress!Begun(k, d, served), u) => Since(admissions, u) < RateLimit
<1> DEFINE t == Ingress!Begun(k, d, served)
<1>1. ingress.revision \in Nat /\ admissions \in [Ingress!Times -> Nat] /\ captured[k] \in Ingress!Events
  BY IngressNumbers DEF IngressInv, IngressTypes
<1>2. /\ t \in HitRecord /\ t.pc = "begun" /\ t.admissions = admissions /\ t.key = k
      /\ t.event = captured[k]
  BY <1>1 DEF Ingress!Begun, HitRecord
<1> HIDE DEF t
<1>3. TellsRight(t)
  BY <1>2 DEF TellsRight
<1>4. \A u : Adds(t, u) => Since(admissions, u) < RateLimit
  BY <1>2 DEF Adds
<1> QED BY <1>2, <1>3, <1>4 DEF t

\* A request that gives up, or that will run again.
LEMMA QuitKeeps ==
  ASSUME IngressInv, NEW w \in Handlers, Ingress!Recorded,
         Ingress!HandlersOnly(w, Ingress!Idle) \/ (Ingress!Retry(w) /\ hits[w].pc # "idle")
  PROVE  IngressInv'
<1>1. /\ hits[w] \in HitRecord /\ requests \in 0..MaxRequests
      /\ UNCHANGED <<ingress, clock, loans, captured, answers, admissions, requests>>
  BY DEF IngressInv, IngressTypes, Ingress!HandlersOnly, Ingress!Retry, Ingress!Recorded
<1>2. CASE Ingress!HandlersOnly(w, Ingress!Idle)
  BY <1>1, <1>2, HandlerMoves, IdleFacts DEF Ingress!HandlersOnly
<1>3. CASE Ingress!Retry(w) /\ hits[w].pc # "idle"
  <2> DEFINE t == [pc |-> "retried", key |-> hits[w].key, digest |-> hits[w].digest,
                   served |-> hits[w].served]
  <2>1. t \in HitRecord /\ t.pc = "retried"
    BY <1>1, <1>3, HitFacts DEF HitRecord
  <2>2. hits' = [hits EXCEPT ![w] = t]
    BY <1>3 DEF Ingress!Retry, Ingress!HandlersOnly
  <2> HIDE DEF t
  <2>3. TellsRight(t) /\ \A u : ~Adds(t, u)
    BY <2>1 DEF TellsRight, Adds
  <2> QED BY <1>1, <1>3, <2>1, <2>2, <2>3, HandlerMoves
<1> QED BY <1>2, <1>3

LEMMA ReceiveKeeps ==
  ASSUME IngressInv, NEW w \in Handlers, NEW k \in EventKeys, NEW d \in Digests,
         NEW served \in Ingress!Served, Ingress!Receive(w, k, d, served)
  PROVE  IngressInv'
<1>1. served \in Nat /\ requests \in Nat /\ requests + 1 \in 0..MaxRequests
  BY IngressNumbers DEF IngressInv, IngressTypes, Ingress!Served, Ingress!Receive
<1> DEFINE t == Ingress!Begun(k, d, served)
<1>2. /\ t \in HitRecord /\ TellsRight(t) /\ t.pc = "begun"
      /\ \A u : Adds(t, u) => Since(admissions, u) < RateLimit
  BY <1>1, BeginsRight
<1> HIDE DEF t
<1> QED BY <1>1, <1>2, HandlerMoves DEF Ingress!Receive, Ingress!Recorded, t

LEMMA AgainKeeps ==
  ASSUME IngressInv, NEW w \in Handlers, Ingress!Again(w) PROVE IngressInv'
<1>1. /\ hits[w] \in HitRecord /\ hits[w].pc = "retried" /\ requests \in 0..MaxRequests
  BY DEF IngressInv, IngressTypes, Ingress!Again
<1> DEFINE t == Ingress!Begun(hits[w].key, hits[w].digest, hits[w].served)
<1>2. /\ t \in HitRecord /\ TellsRight(t) /\ t.pc = "begun"
      /\ \A u : Adds(t, u) => Since(admissions, u) < RateLimit
  BY <1>1, BeginsRight, HitFacts
<1> HIDE DEF t
<1> QED BY <1>1, <1>2, HandlerMoves DEF Ingress!Again, Ingress!HandlersOnly, Ingress!Recorded, t

\* Who is admitted saw less than the limit in its minute, and so in every later one.
LEMMA AdmitKeeps ==
  ASSUME IngressInv, NEW w \in Handlers, Ingress!Admit(w) PROVE IngressInv'
<1>1. /\ hits[w] \in HitRecord /\ hits[w].pc = "begun" /\ requests \in 0..MaxRequests
      /\ clock \in Ingress!Times /\ Ingress!Recorded
  BY DEF IngressInv, IngressTypes, Ingress!Admit
<1>2. CASE Ingress!Retry(w) \/ Ingress!HandlersOnly(w, Ingress!Idle)
  BY <1>1, <1>2, QuitKeeps
<1> DEFINE t == [pc |-> "admitted", key |-> hits[w].key, digest |-> hits[w].digest,
                 served |-> hits[w].served, event |-> hits[w].event, at |-> clock]
<1>3. ASSUME Ingress!UnderLimit(w), Ingress!HandlersOnly(w, t) PROVE IngressInv'
  <2>1. /\ t \in HitRecord /\ t.pc = "admitted" /\ t.at = clock
        /\ t.key = hits[w].key /\ t.event = hits[w].event
    BY <1>1, HitFacts DEF HitRecord
  <2> HIDE DEF t
  <2>2. TellsRight(hits[w])
    BY DEF IngressInv, HandlersTellRight
  <2>3. TellsRight(t)
    BY <1>1, <2>1, <2>2 DEF TellsRight
  <2>4. ASSUME NEW u \in Int, u >= clock - Window PROVE Adds(hits[w], u)
    <3>1. hits[w].admissions \in [Ingress!Times -> Nat] /\ clock - Window \in Int
      BY <1>1, HitFacts, IngressNumbers DEF Ingress!Times
    <3>2. Since(hits[w].admissions, u) <= Since(hits[w].admissions, clock - Window)
      BY <2>4, <3>1, SinceShrinks
    <3>3. Since(hits[w].admissions, clock - Window) < RateLimit
      BY <1>3, RecentIsSince DEF Ingress!UnderLimit
    <3>4. /\ Since(hits[w].admissions, u) \in Nat /\ RateLimit \in Nat
          /\ Since(hits[w].admissions, clock - Window) \in Nat
      BY <3>1, SinceType, IngressNumbers
    <3>5. Since(hits[w].admissions, u) < RateLimit
      BY <3>2, <3>3, <3>4
    <3> QED BY <1>1, <3>5 DEF Adds
  <2> QED BY <1>1, <1>3, <2>1, <2>3, <2>4, HandlerMoves DEF Ingress!HandlersOnly, Ingress!Recorded
<1> QED BY <1>2, <1>3 DEF Ingress!Admit

\* A handler that commits its event.
LEMMA IngestKeeps ==
  ASSUME IngressInv, NEW w \in Handlers, Ingress!Ingest(w) PROVE IngressInv'
<1>1. /\ hits[w] \in HitRecord /\ hits[w].pc = "admitted" /\ requests \in 0..MaxRequests
      /\ Ingress!Recorded /\ IngressTypes /\ TellsRight(hits[w]) /\ hits[w].key \in EventKeys
      /\ hits[w].digest \in Digests
  BY HitFacts DEF IngressInv, IngressTypes, Ingress!Ingest, HandlersTellRight
<1>2. CASE Ingress!Retry(w) \/ Ingress!HandlersOnly(w, Ingress!Idle)
  BY <1>1, <1>2, QuitKeeps
<1>3. ASSUME hits[w].event # Ingress!NoEvent, Ingress!HandlersOnly(w, [hits[w] EXCEPT !.pc = "known"])
      PROVE  IngressInv'
  <2> DEFINE t == [hits[w] EXCEPT !.pc = "known"]
  <2>1. /\ t \in HitRecord /\ t.pc = "known" /\ t.at = hits[w].at
        /\ t.key = hits[w].key /\ t.event = hits[w].event
    BY <1>1 DEF HitRecord, Ingress!Idle
  <2> HIDE DEF t
  <2>2. TellsRight(t)
    BY <1>1, <1>3, <2>1 DEF TellsRight
  <2>3. \A u : Adds(t, u) => Adds(hits[w], u)
    BY <1>1, <2>1 DEF Adds
  <2>4. hits' = [hits EXCEPT ![w] = t] /\ UNCHANGED <<ingress, clock, loans, requests>>
    BY <1>3 DEF Ingress!HandlersOnly, t
  <2> QED BY <1>1, <2>1, <2>2, <2>3, <2>4, HandlerMoves DEF Ingress!Recorded
<1>4. ASSUME ~Ingress!Busy(w), captured[hits[w].key] = Ingress!NoEvent,
             Ingress!HandlersOnly(w, [hits[w] EXCEPT !.pc = "written", !.event = Ingress!Evidence(hits[w].digest)])
      PROVE  IngressInv'
  <2> DEFINE e == Ingress!Evidence(hits[w].digest)
             t == [hits[w] EXCEPT !.pc = "written", !.event = e]
  <2>1. /\ e \in Ingress!Events /\ e # Ingress!NoEvent /\ e.digest = hits[w].digest
    <3>1. Ingress!Deadline(clock) \in 0..Ingress!Never
      BY <1>1, DeadlineType DEF IngressTypes, Ingress!Times
    <3>2. Ingress!Deadline(clock) \in 0..Ingress!NoPolicy
      BY <3>1, IngressNumbers DEF Ingress!Never, Ingress!NoPolicy
    <3>3. e.digest = hits[w].digest /\ e.digest \in Digests
      BY <1>1 DEF Ingress!Evidence
    <3>4. e \in Ingress!Events
      BY <1>1, <3>2 DEF Ingress!Evidence, Ingress!Events, IngressTypes
    <3> QED BY <3>3, <3>4, EventFacts
  <2> HIDE DEF e
  <2>2. /\ t \in HitRecord /\ t.pc = "written" /\ t.at = hits[w].at
        /\ t.key = hits[w].key /\ t.event = e /\ t.digest = hits[w].digest
    <3> DEFINE Open == [pc : {"admitted", "written", "known"}, key : EventKeys, digest : Digests,
                        served : Nat, event : Ingress!Events, at : Ingress!Times]
    <3>1. hits[w] \in Open
      BY <1>1 DEF HitRecord, Ingress!Idle
    <3>2. /\ t \in Open /\ t.pc = "written" /\ t.at = hits[w].at
          /\ t.key = hits[w].key /\ t.event = e /\ t.digest = hits[w].digest
      BY <2>1, <3>1
    <3> QED BY <3>2 DEF HitRecord
  <2> HIDE DEF t
  <2>3. TellsRight(t)
    BY <1>1, <1>4, <2>1, <2>2 DEF TellsRight
  <2>4. \A u : Adds(t, u) => Adds(hits[w], u)
    BY <1>1, <2>2 DEF Adds
  <2>5. hits' = [hits EXCEPT ![w] = t] /\ UNCHANGED <<ingress, clock, loans, requests>>
    BY <1>4 DEF Ingress!HandlersOnly, t, e
  <2>6. \A v \in Handlers \ {w} : hits[v].pc = "written" => hits[v].key # t.key
    BY <1>4, <2>2 DEF Ingress!Busy
  <2> QED BY <1>1, <2>2, <2>3, <2>4, <2>5, <2>6, HandlerMoves DEF Ingress!Recorded
<1> QED BY <1>2, <1>3, <1>4 DEF Ingress!Ingest

\* A handler that is turned away.
LEMMA RefuseKeeps ==
  ASSUME IngressInv, NEW w \in Handlers, Ingress!Refuse(w) PROVE IngressInv'
<1>1. /\ hits[w].pc \in {"admitted", "written", "known"} /\ hits' = [hits EXCEPT ![w] = Ingress!Idle]
      /\ admissions' = [admissions EXCEPT ![hits[w].at] = @ + 1]
      /\ UNCHANGED <<ingress, clock, loans, requests, captured, answers>>
  BY DEF Ingress!Refuse, Ingress!HandlersOnly
<1>2. /\ hits' \in [Handlers -> HitRecord] /\ admissions' \in [Ingress!Times -> Nat]
      /\ WindowsAreBounded' /\ RequestsAdmit'
  BY <1>1, HandlerCounts
<1>3. \A v \in Handlers : hits'[v] = IF v = w THEN Ingress!Idle ELSE hits[v]
  BY <1>1 DEF IngressInv, IngressTypes
<1>4. HandlersTellRight'
  <2>1. ASSUME NEW v \in Handlers PROVE TellsRight(hits[v])'
    <3>1. TellsRight(hits'[v])
      BY <1>3, IdleFacts DEF IngressInv, HandlersTellRight
    <3> QED BY <1>1, <3>1 DEF TellsRight
  <2> QED BY <1>3, <2>1, IdleFacts DEF IngressInv, HandlersTellRight
<1>5. IngressTypes' /\ Ingress!AnswersAgree' /\ LentIsCaptured' /\ Ingress!HeldClickIsLawful'
  BY <1>1, <1>2 DEF IngressInv, IngressTypes, Ingress!AnswersAgree, LentIsCaptured, Ingress!HeldClickIsLawful
<1> QED BY <1>2, <1>4, <1>5 DEF IngressInv

\* The answer speaks of the event there is then: the one written, or the one known.
LEMMA IngressCommitKeeps ==
  ASSUME IngressInv, NEW w \in Handlers, Ingress!Commit(w) PROVE IngressInv'
<1> DEFINE k == hits[w].key
           d == hits[w].digest
<1>1. /\ hits[w].pc \in {"written", "known"} /\ hits[w] \in HitRecord /\ IngressTypes
      /\ hits' = [hits EXCEPT ![w] = Ingress!Idle]
      /\ admissions' = [admissions EXCEPT ![hits[w].at] = @ + 1]
      /\ UNCHANGED <<ingress, clock, loans, requests>>
  BY DEF IngressInv, IngressTypes, Ingress!Commit, Ingress!HandlersOnly
<1>2. k \in EventKeys /\ d \in Digests /\ hits[w].event \in Ingress!Events /\ TellsRight(hits[w])
  BY <1>1, HitFacts DEF IngressInv, HandlersTellRight
<1>3. /\ hits' \in [Handlers -> HitRecord] /\ admissions' \in [Ingress!Times -> Nat]
      /\ WindowsAreBounded' /\ RequestsAdmit'
  BY <1>1, HandlerCounts
<1>4. \A v \in Handlers : hits'[v] = IF v = w THEN Ingress!Idle ELSE hits[v]
  BY <1>1 DEF IngressTypes
<1>5. CASE /\ hits[w].pc = "written" /\ captured' = [captured EXCEPT ![k] = hits[w].event]
           /\ answers' = answers \cup {<<k, d, "accepted">>}
  <2>1. /\ captured[k] = Ingress!NoEvent /\ hits[w].event # Ingress!NoEvent /\ hits[w].event.digest = d
    BY <1>2, <1>5 DEF TellsRight
  <2> HIDE DEF k, d
  <2>2. /\ captured' \in [EventKeys -> Ingress!Events] /\ captured'[k] # Ingress!NoEvent /\ captured'[k].digest = d
        /\ \A j \in EventKeys \ {k} : captured'[j] = captured[j]
    BY <1>1, <1>2, <1>5, <2>1 DEF IngressTypes
  <2>3. HandlersTellRight'
    <3>1. ASSUME NEW v \in Handlers PROVE TellsRight(hits[v])'
      <4>1. CASE v = w
        BY <1>4, <4>1, IdleFacts DEF TellsRight
      <4>2. CASE v # w
        <5>1. /\ hits'[v] = hits[v] /\ TellsRight(hits[v]) /\ hits[v] \in HitRecord
              /\ hits[v].pc = "written" => hits[v].key # k
          BY <1>1, <1>4, <1>5, <4>2 DEF IngressInv, IngressTypes, HandlersTellRight, k
        <5>2. hits[v].pc # "idle" => hits[v].key \in EventKeys
          BY <5>1, HitFacts
        <5> QED BY <2>1, <2>2, <5>1, <5>2 DEF TellsRight
      <4> QED BY <4>1, <4>2
    <3> QED BY <1>4, <3>1, IdleFacts DEF IngressInv, HandlersTellRight
  <2>4. Ingress!AnswersAgree'
    <3> SUFFICES ASSUME NEW a \in answers'
                 PROVE  /\ captured'[a[1]] # Ingress!NoEvent
                        /\ a[3] \in {"accepted", "duplicate"} <=> a[2] = captured'[a[1]].digest
      BY DEF Ingress!AnswersAgree
    <3>1. CASE a = <<k, d, "accepted">>
      BY <2>2, <3>1
    <3>2. CASE a \in answers
      <4>1. /\ captured[a[1]] # Ingress!NoEvent /\ a[1] \in EventKeys
            /\ a[3] \in {"accepted", "duplicate"} <=> a[2] = captured[a[1]].digest
        BY <1>1, <3>2 DEF IngressInv, IngressTypes, Ingress!AnswersAgree
      <4> QED BY <2>1, <2>2, <4>1
    <3> QED BY <1>5, <3>1, <3>2
  <2>5. LentIsCaptured' /\ Ingress!HeldClickIsLawful'
    <3>1. \A b \in Borrowers : loans[b].pc \in {"asked", "lent"} =>
            loans[b].key \in EventKeys /\ loans[b].key # k
      BY <1>1, <2>1 DEF IngressInv, IngressTypes, LoanRecord, LentIsCaptured, Ingress!Idle
    <3> QED BY <1>1, <2>2, <3>1 DEF IngressInv, LentIsCaptured, Ingress!HeldClickIsLawful
  <2>6. IngressTypes'
    BY <1>1, <1>2, <1>3, <1>5, <2>2 DEF IngressTypes, Ingress!Answered, k, d
  <2> QED BY <1>3, <2>3, <2>4, <2>5, <2>6 DEF IngressInv
<1>6. CASE /\ hits[w].pc = "known" /\ UNCHANGED captured
           /\ answers' = answers \cup {<<k, d, Ingress!Disposition(w)>>}
  <2>1. captured[k] # Ingress!NoEvent /\ captured[k].digest = hits[w].event.digest
    BY <1>2, <1>6 DEF TellsRight
  <2>2. /\ Ingress!Disposition(w) \in {"duplicate", "conflict"}
        /\ Ingress!Disposition(w) = "duplicate" <=> d = captured[k].digest
    BY <2>1 DEF Ingress!Disposition
  <2> HIDE DEF k, d
  <2>3. HandlersTellRight'
    <3>1. ASSUME NEW v \in Handlers PROVE TellsRight(hits[v])'
      <4>1. TellsRight(hits'[v])
        BY <1>4, IdleFacts DEF IngressInv, HandlersTellRight
      <4> QED BY <1>6, <4>1 DEF TellsRight
    <3> QED BY <1>4, <3>1, IdleFacts DEF IngressInv, HandlersTellRight
  <2>4. Ingress!AnswersAgree'
    BY <1>6, <2>1, <2>2 DEF IngressInv, Ingress!AnswersAgree
  <2>5. LentIsCaptured' /\ Ingress!HeldClickIsLawful'
    BY <1>1, <1>6 DEF IngressInv, LentIsCaptured, Ingress!HeldClickIsLawful
  <2>6. IngressTypes'
    BY <1>1, <1>2, <1>3, <1>6, <2>2 DEF IngressTypes, Ingress!Answered, k, d
  <2> QED BY <1>3, <2>3, <2>4, <2>5, <2>6 DEF IngressInv
<1> QED BY <1>5, <1>6 DEF Ingress!Commit

\* An event may be erased, and its deadline set: it stays the event of its digest.
LEMMA EventsLast ==
  ASSUME IngressInv, captured' \in [EventKeys -> Ingress!Events],
         \A k \in EventKeys :
           /\ captured[k] = Ingress!NoEvent => captured'[k] = Ingress!NoEvent
           /\ captured[k] # Ingress!NoEvent => captured'[k] # Ingress!NoEvent /\ captured'[k].digest = captured[k].digest,
         UNCHANGED <<ingress, clock, admissions, hits, loans, answers, requests>>,
         Ingress!HeldClickIsLawful'
  PROVE  IngressInv'
<1>1. IngressTypes
  BY DEF IngressInv
<1>2. WindowsAreBounded' /\ RequestsAdmit'
  <2>1. clock \in Int /\ \A t \in Ingress!Times : admissions[t] \in Nat
    BY <1>1 DEF IngressTypes, Ingress!Times
  <2> QED BY <1>1, <2>1, WindowsRest DEF IngressTypes
<1>3. HandlersTellRight'
  <2>1. ASSUME NEW v \in Handlers PROVE TellsRight(hits[v])'
    <3>1. TellsRight(hits[v]) /\ hits[v] \in HitRecord
      BY <1>1 DEF IngressInv, IngressTypes, HandlersTellRight
    <3>2. hits[v].pc # "idle" => hits[v].key \in EventKeys
      BY <3>1, HitFacts
    <3> QED BY <3>1, <3>2 DEF TellsRight
  <2> QED BY <2>1 DEF IngressInv, HandlersTellRight
<1>4. Ingress!AnswersAgree' /\ LentIsCaptured'
  <2>1. \A b \in Borrowers : loans[b].pc \in {"asked", "lent"} => loans[b].key \in EventKeys
    BY <1>1 DEF IngressTypes, LoanRecord, Ingress!Idle
  <2>2. \A a \in answers : a[1] \in EventKeys
    BY <1>1 DEF IngressTypes
  <2> QED BY <2>1, <2>2 DEF IngressInv, Ingress!AnswersAgree, LentIsCaptured
<1>5. IngressTypes'
  BY <1>1 DEF IngressTypes
<1> QED BY <1>2, <1>3, <1>4, <1>5 DEF IngressInv

\* Deadlines and erasures of stored events.
LEMMA RetentionKeeps ==
  ASSUME IngressInv, Ingress!ApplyLegacyRetention \/ (\E k \in EventKeys : Ingress!Expire(k)) PROVE IngressInv'
<1>1. IngressTypes /\ captured \in [EventKeys -> Ingress!Events]
  BY DEF IngressInv, IngressTypes
<1>2. \A b \in Borrowers : loans[b].pc \in {"asked", "lent"} => loans[b].key \in EventKeys
  BY <1>1 DEF IngressTypes, LoanRecord, Ingress!Idle
<1>3. CASE Ingress!ApplyLegacyRetention
  <2>1. Ingress!Deadline(0) \in 0..Ingress!NoPolicy
    <3>1. Ingress!Deadline(0) \in 0..Ingress!Never
      BY <1>1, DeadlineType
    <3> QED BY <3>1, IngressNumbers DEF Ingress!Never, Ingress!NoPolicy
  <2>2. Ingress!NoEvent.until # Ingress!NoPolicy
    BY EventFacts, IngressNumbers DEF Ingress!Never, Ingress!NoPolicy
  <2>3. ASSUME NEW k \in EventKeys
        PROVE  /\ captured'[k] \in Ingress!Events
               /\ captured[k] = Ingress!NoEvent => captured'[k] = Ingress!NoEvent
               /\ captured[k] # Ingress!NoEvent => captured'[k] # Ingress!NoEvent /\ captured'[k].digest = captured[k].digest
               /\ captured[k].until # Ingress!NoPolicy => captured'[k] = captured[k]
    <3> DEFINE e == captured[k]
               policed == [e EXCEPT !.until = Ingress!Deadline(0)]
    <3>1. e \in Ingress!Events
      BY <1>1
    <3>2. captured'[k] = IF e.until = Ingress!NoPolicy THEN policed ELSE e
      BY <1>3 DEF Ingress!ApplyLegacyRetention
    <3>3. e.until = Ingress!NoPolicy => policed \in Ingress!Events /\ policed.digest = e.digest
      BY <2>1, <2>2, <3>1, EventFacts DEF Ingress!Events
    <3> HIDE DEF e, policed
    <3>4. captured'[k].digest = e.digest /\ captured'[k] \in Ingress!Events
      BY <3>1, <3>2, <3>3
    <3> QED BY <2>2, <3>1, <3>2, <3>4, EventFacts DEF e
  <2>4. captured' \in [EventKeys -> Ingress!Events]
    <3>1. captured' = [k \in EventKeys |-> captured'[k]]
      BY <1>3 DEF Ingress!ApplyLegacyRetention
    <3> QED BY <2>3, <3>1
  <2>5. /\ UNCHANGED <<ingress, clock, admissions, hits, loans, answers, requests>>
        /\ Ingress!HeldClickIsLawful'
    BY <1>2, <1>3, <2>3 DEF Ingress!ApplyLegacyRetention, IngressInv, Ingress!HeldClickIsLawful
  <2> QED BY <2>3, <2>4, <2>5, EventsLast
<1>4. ASSUME NEW k \in EventKeys, Ingress!Expire(k) PROVE IngressInv'
  <2> DEFINE gone == [captured[k] EXCEPT !.erased = TRUE]
  <2>1. /\ gone \in Ingress!Events /\ gone.digest = captured[k].digest /\ captured[k] # Ingress!NoEvent
    <3>1. captured[k] # Ingress!NoEvent
      BY <1>4 DEF Ingress!Expire
    <3> DEFINE e == captured[k]
               Kept == [digest : Digests, until : 0..Ingress!NoPolicy, erased : BOOLEAN, purpose : Purposes]
    <3>2. e \in Kept
      BY <1>1, <3>1, EventFacts
    <3>3. gone \in Kept /\ gone.digest = e.digest
      BY <3>2
    <3>4. Kept \subseteq Ingress!Events
      BY DEF Ingress!Events
    <3> QED BY <3>1, <3>3, <3>4
  <2>2. captured' = [captured EXCEPT ![k] = gone]
    BY <1>1, <1>4 DEF Ingress!Expire
  <2> HIDE DEF gone
  <2>3. gone # Ingress!NoEvent
    BY <1>1, <2>1, EventFacts
  <2>4. /\ captured' \in [EventKeys -> Ingress!Events] /\ captured'[k] = gone
        /\ \A j \in EventKeys \ {k} : captured'[j] = captured[j]
    BY <1>1, <2>1, <2>2
  <2>5. UNCHANGED <<ingress, clock, admissions, hits, loans, answers, requests>>
    BY <1>4 DEF Ingress!Expire
  <2>6. Ingress!HeldClickIsLawful'
    <3>1. \A b \in Borrowers : loans[b].pc = "lent" => loans[b].key # k
      BY <1>4 DEF Ingress!Expire
    <3> QED BY <1>2, <2>4, <2>5, <3>1 DEF IngressInv, Ingress!HeldClickIsLawful
  <2> QED BY <2>1, <2>3, <2>4, <2>5, <2>6, EventsLast
<1> QED BY <1>3, <1>4

\* The endpoint, the time and old admissions change beside the transactions.
LEMMA AroundKeeps ==
  ASSUME IngressInv, UNCHANGED <<captured, hits, loans, answers, requests>>,
         ingress' \in [revision : 1..MaxRevision, on : BOOLEAN, purpose : Purposes, days : Days],
         ingress' = ingress \/ Ingress!Fenced,
         clock' \in Ingress!Times, clock' >= clock, admissions' \in [Ingress!Times -> Nat],
         \A t \in Ingress!Times : admissions'[t] <= admissions[t]
  PROVE  IngressInv'
<1>1. WindowsAreBounded' /\ RequestsAdmit'
  BY WindowsRest
<1>2. HandlersTellRight' /\ Ingress!AnswersAgree' /\ LentIsCaptured'
  BY DEF IngressInv, HandlersTellRight, TellsRight, Ingress!AnswersAgree, LentIsCaptured
<1>3. Ingress!HeldClickIsLawful'
  BY DEF IngressInv, Ingress!HeldClickIsLawful, Ingress!Fenced, Ingress!Sharing
<1>4. IngressTypes'
  BY DEF IngressInv, IngressTypes
<1> QED BY <1>1, <1>2, <1>3, <1>4 DEF IngressInv

LEMMA EndpointKeeps ==
  ASSUME IngressInv,
         \/ \E on \in BOOLEAN, p \in Purposes, d \in Days : Ingress!Reconfigure(on, p, d)
         \/ Ingress!RotatePublicKey \/ Ingress!Collect \/ Ingress!Tick
  PROVE  IngressInv'
<1>1. /\ clock \in Ingress!Times /\ clock \in Nat /\ admissions \in [Ingress!Times -> Nat]
      /\ ingress \in [revision : 1..MaxRevision, on : BOOLEAN, purpose : Purposes, days : Days]
      /\ clock >= clock /\ \A t \in Ingress!Times : admissions[t] \in Nat /\ admissions[t] <= admissions[t]
  BY IngressNumbers DEF IngressInv, IngressTypes, Ingress!Times
<1>2. ASSUME NEW on \in BOOLEAN, NEW p \in Purposes, NEW d \in Days, Ingress!Reconfigure(on, p, d)
      PROVE  IngressInv'
  <2>1. ingress.revision + 1 \in 1..MaxRevision
    BY <1>1, <1>2, IngressNumbers DEF Ingress!Reconfigure
  <2>2. ingress' \in [revision : 1..MaxRevision, on : BOOLEAN, purpose : Purposes, days : Days]
    BY <1>2, <2>1 DEF Ingress!Reconfigure
  <2> QED BY <1>1, <1>2, <2>2, AroundKeeps DEF Ingress!Reconfigure, Ingress!Recorded
<1>3. CASE Ingress!RotatePublicKey
  <2>1. ingress.revision + 1 \in 1..MaxRevision
    BY <1>1, <1>3, IngressNumbers DEF Ingress!RotatePublicKey
  <2>2. ingress' = [ingress EXCEPT !.revision = ingress.revision + 1]
    BY <1>1, <1>3 DEF Ingress!RotatePublicKey
  <2>3. ingress' \in [revision : 1..MaxRevision, on : BOOLEAN, purpose : Purposes, days : Days]
    BY <1>1, <2>1, <2>2
  <2> QED BY <1>1, <1>3, <2>3, AroundKeeps DEF Ingress!RotatePublicKey, Ingress!Recorded
<1>4. CASE Ingress!Collect
  <2>1. /\ admissions' \in [Ingress!Times -> Nat] /\ \A t \in Ingress!Times : admissions'[t] <= admissions[t]
    BY <1>1, <1>4 DEF Ingress!Collect
  <2> QED BY <1>1, <1>4, <2>1, AroundKeeps DEF Ingress!Collect
<1>5. CASE Ingress!Tick
  <2>1. clock' \in Ingress!Times /\ clock' >= clock
    BY <1>1, <1>5, IngressNumbers DEF Ingress!Tick, Ingress!Times
  <2> QED BY <1>1, <1>5, <2>1, AroundKeeps DEF Ingress!Tick, Ingress!Recorded
<1> QED BY <1>2, <1>3, <1>4, <1>5

\* A click value is lent while the endpoint and the event are as the job saw them.
LEMMA LoansKeep ==
  ASSUME IngressInv, NEW b \in Borrowers,
         (\E k \in EventKeys : Ingress!AskClick(b, k)) \/ Ingress!LendClick(b) \/ Ingress!ReturnClick(b)
  PROVE  IngressInv'
<1>1. /\ IngressTypes /\ loans \in [Borrowers -> LoanRecord]
      /\ captured \in [EventKeys -> Ingress!Events] /\ ingress.revision \in Nat
  BY IngressNumbers DEF IngressInv, IngressTypes
<1>2. ASSUME NEW t \in LoanRecord, Ingress!LoansOnly(b, t),
             t.pc \in {"asked", "lent"} => captured[t.key] # Ingress!NoEvent,
             t.pc = "lent" => /\ ~captured[t.key].erased /\ ingress.on
                              /\ captured[t.key].purpose = ingress.purpose
                              /\ captured[t.key].until # Ingress!NoPolicy
      PROVE  IngressInv'
  <2>1. /\ UNCHANGED <<ingress, clock, hits, requests, admissions, captured, answers>>
        /\ loans' \in [Borrowers -> LoanRecord]
        /\ \A c \in Borrowers : loans'[c] = IF c = b THEN t ELSE loans[c]
    BY <1>1, <1>2 DEF Ingress!LoansOnly, Ingress!Recorded
  <2>2. WindowsAreBounded' /\ RequestsAdmit'
    <3>1. clock \in Int /\ clock' \in Ingress!Times /\ \A s \in Ingress!Times : admissions[s] \in Nat
      BY <1>1, <2>1 DEF IngressTypes, Ingress!Times
    <3> QED BY <1>1, <2>1, <3>1, WindowsRest DEF IngressTypes
  <2>3. HandlersTellRight' /\ Ingress!AnswersAgree'
    BY <2>1 DEF IngressInv, HandlersTellRight, TellsRight, Ingress!AnswersAgree
  <2>4. LentIsCaptured' /\ Ingress!HeldClickIsLawful'
    BY <1>2, <2>1 DEF IngressInv, LentIsCaptured, Ingress!HeldClickIsLawful
  <2>5. IngressTypes'
    BY <1>1, <2>1 DEF IngressTypes
  <2> QED BY <2>2, <2>3, <2>4, <2>5 DEF IngressInv
<1>3. ASSUME Ingress!LoansOnly(b, Ingress!Idle) PROVE IngressInv'
  BY <1>2, <1>3, IdleFacts
<1>4. ASSUME NEW k \in EventKeys, Ingress!AskClick(b, k) PROVE IngressInv'
  <2> DEFINE t == [pc |-> "asked", key |-> k, revision |-> ingress.revision, event |-> captured[k]]
  <2>1. t \in LoanRecord /\ t.pc = "asked" /\ t.key = k
    BY <1>1 DEF LoanRecord
  <2>2. Ingress!LoansOnly(b, t) /\ captured[k] # Ingress!NoEvent
    BY <1>4 DEF Ingress!AskClick
  <2> HIDE DEF t
  <2> QED BY <1>2, <2>1, <2>2
<1>5. ASSUME loans[b].pc = "asked", captured[loans[b].key] = loans[b].event, ~loans[b].event.erased,
             ingress.on, ingress.purpose = loans[b].event.purpose, loans[b].event.until # Ingress!NoPolicy,
             Ingress!LoansOnly(b, [loans[b] EXCEPT !.pc = "lent"])
      PROVE  IngressInv'
  <2> DEFINE t == [loans[b] EXCEPT !.pc = "lent"]
  <2>1. t \in LoanRecord /\ t.pc = "lent" /\ t.key = loans[b].key
    BY <1>1, <1>5 DEF LoanRecord, Ingress!Idle
  <2>2. captured[loans[b].key] # Ingress!NoEvent
    BY <1>5 DEF IngressInv, LentIsCaptured
  <2>3. Ingress!LoansOnly(b, t)
    BY <1>5
  <2> HIDE DEF t
  <2> QED BY <1>2, <1>5, <2>1, <2>2, <2>3
<1>6. CASE Ingress!LendClick(b)
  BY <1>3, <1>5, <1>6 DEF Ingress!LendClick
<1> QED BY <1>3, <1>4, <1>6 DEF Ingress!ReturnClick

\* Every step of the ingress keeps its invariant.
LEMMA IngressNextInv == IngressInv /\ Ingress!Next => IngressInv'
<1> SUFFICES ASSUME IngressInv, Ingress!Next PROVE IngressInv'
  OBVIOUS
<1>1. ASSUME NEW w \in Handlers, Ingress!Abort(w) PROVE IngressInv'
  BY <1>1, QuitKeeps DEF Ingress!Abort
<1>2. ASSUME NEW w \in Handlers,
             \/ \E k \in EventKeys, d \in Digests, v \in Ingress!Served : Ingress!Receive(w, k, d, v)
             \/ Ingress!Again(w) \/ Ingress!Admit(w) \/ Ingress!Refuse(w) \/ Ingress!Ingest(w) \/ Ingress!Commit(w)
      PROVE  IngressInv'
  BY <1>2, ReceiveKeeps, AgainKeeps, AdmitKeeps, RefuseKeeps, IngestKeeps, IngressCommitKeeps
<1>3. ASSUME NEW b \in Borrowers,
             (\E k \in EventKeys : Ingress!AskClick(b, k)) \/ Ingress!LendClick(b) \/ Ingress!ReturnClick(b)
      PROVE  IngressInv'
  BY <1>3, LoansKeep
<1> QED BY <1>1, <1>2, <1>3, EndpointKeeps, RetentionKeeps DEF Ingress!Next

------------------------------------------------------------------------------
\* The parts together: the chosen one takes a step of its own, the others rest.
WebsiteInv ==
  /\ part \in Parts
  /\ ClicksInv /\ ClaimsInv /\ GrantsInv /\ FormsInv /\ IntentInv /\ JourneyInv /\ IngressInv

\* Every part starts in its invariant.
LEMMA WebsiteInit == MCInit => WebsiteInv
BY ClicksInitInv, ClaimsInitInv, GrantsInitInv, FormsInitInv, IntentInitInv, JourneyInitInv,
   IngressInitInv DEF MCInit, WebsiteInv

\* A part that rests keeps its invariant.
LEMMA PartsRest ==
  /\ GrantsInv /\ UNCHANGED ofGrants => GrantsInv'
  /\ FormsInv /\ UNCHANGED ofForms => FormsInv'
  /\ IntentInv /\ UNCHANGED ofIntent => IntentInv'
  /\ IngressInv /\ UNCHANGED ofIngress => IngressInv'
<1>1. ASSUME GrantsInv, UNCHANGED ofGrants PROVE GrantsInv'
  <2>1. time' \in 0..MaxTime
    BY <1>1 DEF GrantsInv, GrantTypes, ofGrants
  <2> QED BY <1>1, <2>1, GrantsRest DEF ofGrants
<1>2. ASSUME FormsInv, UNCHANGED ofForms PROVE FormsInv'
  BY <1>2 DEF FormsInv, FormTypes, SeenIsKept, Forms!NativeTypeOK, Forms!OneLeadPerSubmission,
              Forms!ClicksHaveOneHome, ofForms
<1>3. ASSUME IntentInv, UNCHANGED ofIntent PROVE IntentInv'
  BY <1>3 DEF IntentInv, HandsHold, Intents!IntentTypeOK, Intents!ProjectionIsExact, Intents!Exists, ofIntent
<1>4. ASSUME IngressInv, UNCHANGED ofIngress PROVE IngressInv'
  <2>1. /\ ingress \in [revision : 1..MaxRevision, on : BOOLEAN, purpose : Purposes, days : Days]
        /\ clock \in Ingress!Times /\ admissions \in [Ingress!Times -> Nat]
        /\ UNCHANGED <<ingress, clock, admissions, captured, hits, loans, answers, requests>>
    BY <1>4 DEF IngressInv, IngressTypes, ofIngress
  <2>2. clock' >= clock /\ \A t \in Ingress!Times : admissions'[t] <= admissions[t]
    BY <2>1, IngressNumbers DEF Ingress!Times
  <2> QED BY <1>4, <2>1, <2>2, AroundKeeps
<1> QED BY <1>1, <1>2, <1>3, <1>4

\* Every step keeps all of them.
LEMMA WebsiteNext == WebsiteInv /\ [MCNext]_vars => WebsiteInv'
<1> SUFFICES ASSUME WebsiteInv, [MCNext]_vars PROVE WebsiteInv'
  OBVIOUS
<1>1. part' = part
  BY DEF MCNext, vars
<1>2. [Click!Next]_(Click!clickVars)
  BY DEF MCNext, vars, ofClicks, Click!clickVars
<1>3. [Claims!Next]_(Claims!claimVars)
  BY DEF MCNext, vars, ofClaims, Claims!claimVars
<1>4. Grant!Next \/ UNCHANGED ofGrants
  BY DEF MCNext, vars
<1>5. Forms!Next \/ UNCHANGED ofForms
  BY DEF MCNext, vars
<1>6. Intents!Next \/ UNCHANGED ofIntent
  BY DEF MCNext, vars
<1>7. [Journey!Next]_(Journey!journeyVars)
  BY DEF MCNext, vars, ofJourney, Journey!journeyVars
<1>8. Ingress!Next \/ UNCHANGED ofIngress
  BY DEF MCNext, vars
<1>9. ClicksInv'
  BY <1>2, ClicksNextInv DEF WebsiteInv
<1>10. ClaimsInv'
  BY <1>3, ClaimsNextInv DEF WebsiteInv
<1>11. GrantsInv'
  BY <1>4, GrantsNextInv, PartsRest DEF WebsiteInv
<1>12. FormsInv'
  BY <1>5, FormsNextInv, PartsRest DEF WebsiteInv
<1>13. IntentInv'
  BY <1>6, IntentNextInv, PartsRest DEF WebsiteInv
<1>14. JourneyInv'
  BY <1>7, JourneyNextInv DEF WebsiteInv
<1>15. IngressInv'
  BY <1>8, IngressNextInv, PartsRest DEF WebsiteInv
<1> QED BY <1>1, <1>9, <1>10, <1>11, <1>12, <1>13, <1>14, <1>15 DEF WebsiteInv

LEMMA WebsiteHolds == MCSpec => []WebsiteInv
BY WebsiteInit, WebsiteNext, PTL DEF MCSpec

LEMMA GrantsGive == GrantsInv => Grant!GrantTypeOK
<1> SUFFICES ASSUME GrantsInv PROVE Grant!GrantTypeOK
  OBVIOUS
<1>1. /\ DOMAIN Grant!Switches = {"endpoint", "binding", "action"} /\ Grant!Switches["endpoint"] = {"on", "off"}
      /\ Grant!Switches["binding"] = {"legacy", "native", "off"} /\ Grant!Switches["action"] = {"on", "off"}
  BY DEF Grant!Switches
<1>2. \A switch \in DOMAIN Grant!Switches : site[switch] \in Grant!Switches[switch]
  BY <1>1 DEF GrantsInv, GrantTypes, Sites
<1>3. \A k \in Grant!Tokens :
        grants[k] = Grant!NoGrant
        \/ (grants[k].state \in {"issued", "consumed", "revoked"} /\ grants[k].press \in pressed /\ k \in issued)
  BY DEF GrantsInv, GrantTypes, GrantRecord
<1> QED BY <1>2, <1>3 DEF GrantsInv, GrantTypes, Grant!GrantTypeOK

LEMMA ClicksGive == ClicksInv => Click!ClicksTypeOK
BY DEF ClicksInv, ClicksTypes, ClickRow, Click!ClicksTypeOK

\* A step of the website is, for an intent, one of its own or none.
LEMMA ErasedStep ==
  WebsiteInv /\ [MCNext]_vars =>
    [Intents!Exists /\ ~intent.session =>
       /\ ~intent'.session /\ UNCHANGED linked
       /\ intent'.state = intent.state /\ intent'.correlated = intent.correlated]_(Intents!intentVars)
<1> SUFFICES ASSUME WebsiteInv, [MCNext]_vars, ~(UNCHANGED Intents!intentVars),
                    Intents!Exists, ~intent.session
             PROVE  /\ ~intent'.session /\ UNCHANGED linked
                    /\ intent'.state = intent.state /\ intent'.correlated = intent.correlated
  OBVIOUS
<1>1. Intents!Next
  BY DEF MCNext, vars, ofIntent, Intents!intentVars
<1> QED BY <1>1, ErasedStays DEF WebsiteInv

\* Every part keeps its types.
THEOREM WebsiteTypes == MCSpec => []TypesOK
<1>1. WebsiteInv => TypesOK
  <2> SUFFICES ASSUME WebsiteInv PROVE TypesOK
    OBVIOUS
  <2>1. Ingress!IngressTypeOK /\ Journey!JourneyTypeOK /\ Intents!IntentTypeOK /\ Forms!NativeTypeOK
    BY IngressGives, JourneyGives DEF WebsiteInv, IntentInv, FormsInv, FormTypes
  <2>2. Click!ClicksTypeOK /\ Claims!ClaimsTypeOK /\ Grant!GrantTypeOK
    BY ClicksGive, GrantsGive DEF WebsiteInv, ClaimsInv, ClaimsTypes, Claims!ClaimsTypeOK
  <2> QED BY <2>1, <2>2 DEF TypesOK, WebsiteInv, Parts
<1> QED BY <1>1, WebsiteHolds, PTL

\* References once answered are found again, a claim leaves nothing it competes
\* with open, and a click has one token, which redirects only while its action
\* is on (handoff.py, correlation.py, redirect_grant.py).
THEOREM WebsiteClicksAndClaims == MCSpec => []ClicksAndClaims
<1>1. WebsiteInv => ClicksAndClaims
  BY DEF WebsiteInv, ClicksInv, ClaimsInv, GrantsInv, ClicksAndClaims
<1> QED BY <1>1, WebsiteHolds, PTL

\* A submission posted again is one lead of its own data with one home for its
\* click values; a finished intent owns exactly its projection
\* (native_submission.py, intent.py).
THEOREM WebsiteFormsKeepFaith == MCSpec => []FormsKeepFaith
<1>1. WebsiteInv => FormsKeepFaith
  BY DEF WebsiteInv, FormsInv, IntentInv, FormsKeepFaith
<1> QED BY <1>1, WebsiteHolds, PTL

\* Answers of one key agree, a burst passes the ceiling by the concurrent
\* transactions only, whatever the window and the rate, and a click value on
\* loan is lawful (service.py, admission.py, event.py).
THEOREM WebsiteIngressKeepsFaith == MCSpec => []IngressKeepsFaith
<1>1. WebsiteInv => IngressKeepsFaith
  BY IngressGives DEF WebsiteInv, IngressInv, IngressKeepsFaith
<1> QED BY <1>1, WebsiteHolds, PTL

\* Whatever the order of claims, transfers, erasures and of their paged,
\* outdated and repeated workers, a queue that has emptied has credited
\* exactly the businesses it may (journey_service.py, correlation.py).
THEOREM WebsiteJourneyConverges == MCSpec => []JourneyConverges
<1>1. WebsiteInv => JourneyConverges
  BY JourneyGives DEF WebsiteInv, JourneyConverges
<1> QED BY <1>1, WebsiteHolds, PTL

\* An erased intent stays what it has come to (intent.py, _erase_values and
\* the guards of every later job).
THEOREM WebsiteErasedIsFinal == MCSpec => ErasedIsFinal
BY ErasedStep, WebsiteHolds, PTL DEF ErasedIsFinal, Intents!ErasedIsFinal, MCSpec

==============================================================================
