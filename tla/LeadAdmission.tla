---------------------------- MODULE LeadAdmission ----------------------------
(* How a Meta lead and a WhatsApp conversation become businesses of one       *)
(* company's CRM.  Each submission has one projection, which one queue job     *)
(* at a time may carry: a job is fenced by its uuid, reads a snapshot, takes   *)
(* the company's intake gate, the route and the row, and commits only if none  *)
(* of them moved.  Under the cross-source protection an entry is compared with *)
(* every other entry before it may create a business.                         *)
EXTENDS Naturals, FiniteSets

CONSTANTS Submissions, Intakes, Arrivals, MaxAdmissionTurns

VARIABLES entry, admitJobs, views, enqueues, business, guarded, accepts, admissionTurns
vars == <<entry, admitJobs, views, enqueues, business, guarded, accepts, admissionTurns>>

Entries == Submissions \cup Intakes

\* What an entry may arrive with: a phone and an advertisement, or none.  Two
\* phones that differ by the Brazilian ninth digit match weakly.
Phones == {"full", "variant", "none"}
Origins == {"a", "b", "none"}
AdmissionConstants ==
  /\ Submissions \cap Intakes = {} /\ MaxAdmissionTurns \in Nat
  /\ Arrivals \subseteq [phone : Phones, origin : Origins]

\* A business is known by the entry that created it.
Decided == {"done", "review", "dismissed"}
NoEntry ==
  [state |-> "none", phone |-> "none", origin |-> "none", key |-> "none", cohort |-> FALSE,
   target |-> {}, offered |-> {}, by |-> "nobody", held |-> FALSE, uuid |-> "none", made |-> 0]
Arrived(a) ==
  [NoEntry EXCEPT !.state = "pending", !.phone = a.phone, !.origin = a.origin, !.cohort = TRUE]
NoView == [does |-> "rest", lead |-> {}, offers |-> {}]
View(does, lead, offers) == [does |-> does, lead |-> lead, offers |-> offers]

Init ==
  /\ entry = [e \in Entries |-> NoEntry]
  /\ admitJobs = [s \in Submissions |-> "none"]
  /\ views = [s \in Submissions |-> NoView]
  /\ enqueues = [s \in Submissions |-> "rest"]
  /\ business = [e \in Entries |-> "none"]
  /\ guarded \in BOOLEAN
  /\ accepts = TRUE
  /\ admissionTurns = 0
Turn == admissionTurns < MaxAdmissionTurns /\ admissionTurns' = admissionTurns + 1

\* --- Comparison with every other entry of the company.
Exists(l) == business[l] \in {"open", "manual", "closed"}
Open(l) == business[l] \in {"open", "manual"}
Weak(e, f) == {entry[e].phone, entry[f].phone} = {"full", "variant"}
Alike(e, f) == entry[e].phone /= "none" /\ (entry[e].phone = entry[f].phone \/ Weak(e, f))
Receipts(e) == {f \in Entries \ {e} : entry[f].key = "kept" /\ Alike(e, f)}
Targets(e) == UNION {entry[f].target : f \in Receipts(e)}
Named(e) == {l \in Entries : Open(l) /\ entry[l].phone = entry[e].phone}
Resembling(e) == {l \in Entries : Open(l) /\ Weak(e, l)}
Candidates(e) == Named(e) \cup {l \in Targets(e) : Exists(l)}

Unclear(e) ==
  \/ Resembling(e) /= {}
  \/ \E f \in Receipts(e) : Weak(e, f) \/ entry[f].target = {}
  \/ ~(Targets(e) \subseteq Candidates(e))
  \/ Cardinality(Candidates(e)) > 1

\* A Meta entry may be credited to a business only of its own cohort, that no
\* person took over, and whose acquisition does not compete with it.
Owned(e) == e \in Submissions \/ entry[e].origin /= "none"
Compatible(e, f) == Owned(e) /\ Owned(f) => entry[e].origin = entry[f].origin
Creditable(e, l) ==
  /\ Targets(e) = {l}
  /\ entry[e].cohort
  /\ \A f \in Receipts(e) : entry[f].cohort /\ Compatible(e, f)
  /\ \E f \in Receipts(e) : entry[f].target = {f}
  /\ entry[l].cohort
  /\ business[l] = "open"

Admission(e) ==
  LET offers == Candidates(e) \cup Resembling(e)
      lead == CHOOSE l \in offers : TRUE
  IN IF entry[e].phone = "none" THEN View("create", {}, {})
     ELSE IF Unclear(e) THEN View("review", {}, offers)
     ELSE IF offers = {} THEN View("create", {}, {})
     ELSE IF Open(lead) /\ (e \in Intakes \/ Creditable(e, lead)) THEN View("reuse", {lead}, offers)
     ELSE View("review", {}, offers)

\* What a job that begins now would do.
Claimed(s) == entry[s].uuid = "current" /\ entry[s].state = "pending"
Barred(s) == entry[s].held /\ ~guarded
Verdict(s) ==
  IF entry[s].state \in Decided THEN View("over", {}, {})
  ELSE IF Barred(s) THEN View("hold", {}, {})
  ELSE IF ~Claimed(s) THEN View("void", {}, {})
  ELSE IF ~accepts THEN View("skip", {}, {})
  ELSE IF ~guarded THEN View("create", {}, {})
  ELSE IF entry[s].key = "erased" THEN View("review", {}, {})
  ELSE Admission(s)

\* --- Conflicts.  A job whose rows moved after its snapshot is put back in the
\* queue, and an enqueuing transaction is rolled back.
Doom(runs, puts) ==
  /\ views' = [s \in Submissions |-> IF s \in runs THEN NoView ELSE views[s]]
  /\ admitJobs' = [s \in Submissions |->
       IF s \in runs /\ admitJobs[s] = "started" THEN "waiting" ELSE admitJobs[s]]
  /\ enqueues' = [s \in Submissions |-> IF s \in puts THEN "rest" ELSE enqueues[s]]

\* Mutated form: a commit under the gate does not move its version.
NobodyGated == {}

GateRuns == {s \in Submissions : admitJobs[s] = "started"}
LeadRuns(l) == {s \in GateRuns : views[s].lead = {l}}

Skipped(row) == [row EXCEPT !.state = "skipped", !.uuid = "none"]
Skippable(s) == entry[s].state \in {"pending", "failed", "skipped"} /\ ~entry[s].held
Held(row) == [row EXCEPT !.state = "pending", !.held = TRUE, !.uuid = "none"]
Failed(row) == [row EXCEPT !.state = "failed", !.held = FALSE, !.uuid = "none"]
Actor(e) == IF guarded THEN "guarded" ELSE IF entry[e].held THEN "bypassed" ELSE "unguarded"
Keyed(e) ==
  IF guarded /\ entry[e].key /= "erased" /\ entry[e].phone /= "none" THEN "kept" ELSE entry[e].key
Done(row, lead) ==
  [row EXCEPT !.state = "done", !.target = lead, !.held = FALSE, !.uuid = "none"]
Reviewed(row, offers) ==
  [row EXCEPT !.state = "review", !.offered = offers, !.held = FALSE, !.uuid = "none"]
Decision(e, view) ==
  LET row == [entry[e] EXCEPT !.key = Keyed(e), !.by = Actor(e)]
  IN CASE view.does = "create" -> Done([row EXCEPT !.made = @ + 1], {e})
       [] view.does = "reuse" -> Done(row, view.lead)
       [] view.does = "review" -> Reviewed(row, view.offers)
Founded(e, view) == IF view.does = "create" THEN [business EXCEPT ![e] = "open"] ELSE business

\* --- Ingested submissions and their jobs.
Ingest(s) ==
  /\ entry[s].state = "none" /\ accepts
  /\ \E a \in {b \in Arrivals : b.origin /= "none"} :
       entry' = [entry EXCEPT ![s] = [Arrived(a) EXCEPT !.uuid = "current"]]
  /\ admitJobs' = [admitJobs EXCEPT ![s] = "waiting"]
  /\ UNCHANGED <<views, enqueues, business, guarded, accepts, admissionTurns>>

Begin(s) ==
  /\ admitJobs[s] = "waiting"
  /\ admitJobs' = [admitJobs EXCEPT ![s] = "started"]
  /\ views' = [views EXCEPT ![s] = Verdict(s)]
  /\ UNCHANGED <<entry, enqueues, business, guarded, accepts, admissionTurns>>

Ends(s, state) ==
  /\ views' = [views EXCEPT ![s] = NoView]
  /\ admitJobs' = [admitJobs EXCEPT ![s] = state]
EndsNothing(s) ==
  /\ views[s].does \in {"over", "void"}
  /\ Ends(s, "none")
  /\ UNCHANGED <<entry, enqueues, business, guarded, accepts, admissionTurns>>

\* A commit that wrote the row rolls back whoever is enqueuing it.
Settles(s, row, state) ==
  /\ entry' = [entry EXCEPT ![s] = row]
  /\ enqueues' = [enqueues EXCEPT ![s] = "rest"]
  /\ Ends(s, state)
Skip(s) ==
  /\ views[s].does = "skip"
  /\ Settles(s, Skipped([entry[s] EXCEPT !.held = FALSE]), "none")
  /\ UNCHANGED <<business, guarded, accepts, admissionTurns>>

\* The gate's version moves with every commit under it.
Decide(s) ==
  /\ views[s].does \in {"create", "reuse", "review"}
  /\ entry' = [entry EXCEPT ![s] = Decision(s, views[s])]
  /\ business' = Founded(s, views[s])
  /\ LET lost == (GateRuns \ {s})
     IN /\ views' = [t \in Submissions |-> IF t \in lost \cup {s} THEN NoView ELSE views[t]]
        /\ admitJobs' = [t \in Submissions |->
             IF t = s THEN "none" ELSE IF t \in lost THEN "waiting" ELSE admitJobs[t]]
  /\ enqueues' = [enqueues EXCEPT ![s] = "rest"]
  /\ UNCHANGED <<guarded, accepts, admissionTurns>>

\* A rejected decision fails the entry, as the last failure of the database does.
\* Any other failure holds it where it is protected, whether or not the job was
\* its own, and fails the job elsewhere.
Reject(s) ==
  /\ views[s].does \notin {"rest", "over", "hold"}
  /\ Settles(s, Failed(entry[s]), "none")
  /\ Turn
  /\ UNCHANGED <<business, guarded, accepts>>
Hold(s) ==
  /\ \/ views[s].does = "hold" /\ UNCHANGED admissionTurns
     \/ views[s].does \notin {"rest", "over", "hold"} /\ (guarded \/ entry[s].held) /\ Turn
  /\ Settles(s, Held(entry[s]), "none")
  /\ UNCHANGED <<business, guarded, accepts>>
Crash(s) ==
  /\ views[s].does \notin {"rest", "over", "hold"}
  /\ ~guarded /\ ~entry[s].held
  /\ Turn
  /\ Ends(s, "failed")
  /\ UNCHANGED <<entry, enqueues, business, guarded, accepts>>

\* --- Enqueuing: the cron that resumes held entries, a page of a backfill, or an
\* administrator's retry.  It reads whether a job of the entry is active, and
\* adopts it.
Active(s) == admitJobs[s] \in {"waiting", "started"}
Resumes(s) == entry[s].state = "pending" /\ entry[s].held
Backfills(s) == accepts /\ entry[s].state \in {"pending", "failed", "skipped"}
BeginEnqueue(s) ==
  /\ enqueues[s] = "rest"
  /\ Resumes(s) \/ Backfills(s)
  /\ Turn
  /\ enqueues' = [enqueues EXCEPT ![s] = IF Active(s) THEN "adopts" ELSE "asks"]
  /\ UNCHANGED <<entry, admitJobs, views, business, guarded, accepts>>
Adopted(s) ==
  [entry[s] EXCEPT !.state = "pending",
                   !.uuid = IF enqueues[s] = "adopts" /\ admitJobs[s] = "none"
                            THEN "ended" ELSE "current"]
FinishEnqueue(s) ==
  /\ enqueues[s] /= "rest"
  /\ entry' = [entry EXCEPT ![s] = Adopted(s)]
  /\ enqueues' = [enqueues EXCEPT ![s] = "rest"]
  /\ views' = [views EXCEPT ![s] = NoView]
  /\ admitJobs' = [admitJobs EXCEPT ![s] =
       IF enqueues[s] = "asks" THEN "waiting" ELSE IF @ = "started" THEN "waiting" ELSE @]
  /\ UNCHANGED <<business, guarded, accepts, admissionTurns>>

\* --- The route's configuration and the company's policy.
SwitchRoute ==
  /\ Turn
  /\ accepts' = ~accepts
  /\ LET skipped == {s \in Submissions : accepts /\ Skippable(s)}
     IN /\ entry' = [e \in Entries |-> IF e \in skipped THEN Skipped(entry[e]) ELSE entry[e]]
        /\ Doom(GateRuns, skipped)
  /\ UNCHANGED <<business, guarded>>
SwitchGuard ==
  /\ Turn
  /\ guarded' = ~guarded
  /\ entry' = [e \in Entries |-> [entry[e] EXCEPT !.cohort = @ /\ guarded]]
  /\ Doom(GateRuns, {})
  /\ UNCHANGED <<business, accepts>>

\* --- People: a review decided, a held entry released after the protection was
\* switched off, businesses taken over, closed or deleted, and erasure.
Confirm(s, row, founded) ==
  /\ Turn
  /\ entry' = [entry EXCEPT ![s] = row]
  /\ business' = founded
  /\ Doom(GateRuns, {s})
  /\ UNCHANGED <<guarded, accepts>>
Human(s) == [entry[s] EXCEPT !.by = "human"]
Dismiss(s) ==
  /\ entry[s].state = "review"
  /\ Confirm(s, [Human(s) EXCEPT !.state = "dismissed"], business)
CreateNew(s) ==
  /\ entry[s].state = "review" /\ accepts
  /\ Confirm(s, Done([Human(s) EXCEPT !.made = @ + 1], {s}), [business EXCEPT ![s] = "open"])
LinkTo(s, l) ==
  /\ entry[s].state = "review" /\ accepts
  /\ l \in entry[s].offered
  /\ Exists(l) /\ Alike(s, l)
  /\ Confirm(s, Done(Human(s), {l}), business)
Release(s) ==
  /\ entry[s].held /\ ~guarded
  /\ Turn
  /\ LET row == [entry[s] EXCEPT !.held = FALSE]
     IN IF accepts
        THEN /\ entry' = [entry EXCEPT ![s] = [row EXCEPT !.uuid = "current"]]
             /\ admitJobs' = [t \in Submissions |->
                  IF t = s \/ admitJobs[t] = "started" THEN "waiting" ELSE admitJobs[t]]
        ELSE /\ entry' = [entry EXCEPT ![s] = Skipped(row)]
             /\ admitJobs' = [t \in Submissions |->
                  IF admitJobs[t] = "started" THEN "waiting" ELSE admitJobs[t]]
  /\ views' = [t \in Submissions |-> NoView]
  /\ enqueues' = [enqueues EXCEPT ![s] = "rest"]
  /\ UNCHANGED <<business, guarded, accepts>>

Handle(l, as) ==
  /\ Exists(l) /\ business[l] /= as
  /\ business[l] = "closed" => as = "deleted"
  /\ Turn
  /\ business' = [business EXCEPT ![l] = as]
  /\ Doom(LeadRuns(l), {})
  /\ UNCHANGED <<entry, guarded, accepts>>
Erase(e) ==
  /\ entry[e].state /= "none" /\ entry[e].key /= "erased"
  /\ Turn
  /\ entry' = [entry EXCEPT ![e].key = "erased"]
  /\ Doom({e} \cap Submissions, {e} \cap Submissions)
  /\ UNCHANGED <<business, guarded, accepts>>

\* --- A conversation's own intake, under the same gate.
Native(b) ==
  LET named == {l \in Entries : Open(l) /\ entry[l].phone = entry[b].phone}
  IN IF named = {} THEN View("create", {}, {})
     ELSE IF Cardinality(named) = 1 THEN View("reuse", named, named)
     ELSE View("review", {}, named)
Receive(b) ==
  /\ entry[b].state = "none"
  /\ \E a \in Arrivals : entry' = [entry EXCEPT ![b] = Arrived(a)]
  /\ UNCHANGED <<admitJobs, views, enqueues, business, guarded, accepts, admissionTurns>>
Intake(b) ==
  /\ entry[b].state = "pending"
  /\ LET view == IF entry[b].phone = "none" THEN View("review", {}, {})
                 ELSE IF ~guarded THEN Native(b)
                 ELSE IF entry[b].key = "erased" THEN View("review", {}, {})
                 ELSE Admission(b)
     IN /\ entry' = [entry EXCEPT ![b] = Decision(b, view)]
        /\ business' = Founded(b, view)
  /\ Doom(GateRuns, {})
  /\ UNCHANGED <<guarded, accepts, admissionTurns>>

Next ==
  \/ \E s \in Submissions :
       \/ Ingest(s) \/ Begin(s) \/ EndsNothing(s) \/ Skip(s) \/ Decide(s)
       \/ Reject(s) \/ Hold(s) \/ Crash(s) \/ BeginEnqueue(s) \/ FinishEnqueue(s)
       \/ Dismiss(s) \/ CreateNew(s) \/ Release(s)
       \/ \E l \in Entries : LinkTo(s, l)
  \/ \E e \in Entries : Erase(e) \/ \E as \in {"manual", "closed", "deleted"} : Handle(e, as)
  \/ \E b \in Intakes : Receive(b) \/ Intake(b)
  \/ SwitchRoute \/ SwitchGuard
Spec == Init /\ [][Next]_vars

\* --- Properties.

\* The variables keep their shapes.
AdmissionTypeOK ==
  /\ \A e \in Entries :
       /\ entry[e].state \in
            {"none", "pending", "failed", "skipped", "review", "done", "dismissed"}
       /\ entry[e].target \subseteq Entries /\ entry[e].offered \subseteq Entries
       /\ entry[e].key \in {"none", "kept", "erased"} /\ entry[e].uuid \in {"none", "current", "ended"}
       /\ entry[e].made \in Nat /\ entry[e].held \in BOOLEAN /\ entry[e].cohort \in BOOLEAN
       /\ business[e] \in {"none", "open", "manual", "closed", "deleted"}
  /\ \A s \in Submissions :
       /\ admitJobs[s] \in {"none", "waiting", "started", "failed"}
       /\ (views[s] /= NoView) <=> (admitJobs[s] = "started")
       /\ enqueues[s] \in {"rest", "adopts", "asks"}
  /\ guarded \in BOOLEAN /\ accepts \in BOOLEAN

\* Two entries of one demand (the same phone, or its variant), both admitted by
\* the protection and still comparable, never each create a business, whatever
\* the order of their jobs and of the conversation's intake.
OneDemandOneLead ==
  \A e, f \in Entries :
    /\ e /= f /\ Alike(e, f)
    /\ entry[e].by = "guarded" /\ entry[f].by = "guarded"
    /\ entry[e].key = "kept" /\ entry[f].key = "kept"
    => entry[e].made + entry[f].made < 2

\* However often its job is retried, adopted, held or asked for again, an entry
\* makes at most one business, and it is done exactly when it has one.
OneLeadPerEntry ==
  \A e \in Entries :
    /\ entry[e].made <= 1
    /\ (entry[e].state = "done") <=> (entry[e].target /= {})
    /\ entry[e].made = 1 <=> entry[e].target = {e}

\* What a failed protection holds back is not admitted without it: switching the
\* protection off does not let it through, only a release of the entry does.
HoldOutlastsGuard == \A e \in Entries : entry[e].by /= "bypassed"

\* A pending entry is held for the cron, or belongs to a job that is still to
\* run or has visibly failed; the only exception is an entry whose enqueuer
\* adopted a started job that ended, without touching the row, before the
\* enqueuer committed.
Carried ==
  \A s \in Submissions :
    entry[s].state = "pending" /\ ~entry[s].held =>
      \/ entry[s].uuid = "current" /\ admitJobs[s] /= "none"
      \/ entry[s].uuid = "ended"
==============================================================================
