------------------------------ MODULE NativeUtm -------------------------------
(* The native campaign a CRM lead is classified under: jobs derive it from   *)
(* the lead's effective attribution links, the external campaigns they       *)
(* resolve to and the source's mode, beside people who edit, map, block and  *)
(* revert.  A job reads a snapshot, then locks the lead, the resolutions,    *)
(* the source and the campaigns it read: one written since makes it retry.   *)
EXTENDS Naturals, FiniteSets

\* A touchpoint refers to one external campaign, for which one native campaign
\* of the same name may be created.
CONSTANTS Touchpoints, CampaignOf, Workers, MaxTurns

VARIABLES mode, mapping, resolved, links, lead, due, scopes, open, workers, raced, turns
config == <<mode, mapping>>
vars == <<mode, mapping, resolved, links, lead, due, scopes, open, workers, raced, turns>>

Campaigns == {CampaignOf[t] : t \in Touchpoints}
Unmapped == "unmapped"
Blocked == "blocked"
Empty == "empty"
Own == "own"
None == "none"
\* What stands for no campaign is none.
UtmConstants ==
  IsFiniteSet(Touchpoints) /\ Campaigns \cap {Unmapped, Blocked, Empty, Own, None} = {}
Modes == {"disabled", "simulate", "apply"}
NoLast == [state |-> None, before |-> None, after |-> None, points |-> {}]
NoReceipt == [after |-> None, before |-> None]
Idle == [busy |-> FALSE, stale |-> FALSE, links |-> {}, mode |-> None, held |-> FALSE]
Turn == turns < MaxTurns /\ turns' = turns + 1

Init ==
  /\ mode = "disabled"
  /\ mapping = [c \in Campaigns |-> Unmapped]
  /\ resolved = Touchpoints
  /\ links = {}
  /\ lead = [values |-> Empty, manual |-> FALSE, state |-> "pending", held |-> FALSE,
             receipt |-> NoReceipt, baseline |-> None, last |-> NoLast]
  /\ due = FALSE
  /\ scopes = {}
  /\ open = {}
  /\ workers = [w \in Workers |-> Idle]
  /\ raced = FALSE
  /\ turns = 0

\* A commit makes the jobs stale that will lock what it wrote.
Doom(ws) ==
  [w \in Workers |-> IF workers[w].busy /\ w \in ws THEN [workers[w] EXCEPT !.stale = TRUE]
                     ELSE workers[w]]
Readers(ts) == Doom({w \in Workers : workers[w].links \cap resolved \cap ts /= {}})
Everyone == Doom(Workers)

\* Mutated form: a wake-up is the job that is already there.
WokenUnlessRunning == \A w \in Workers : ~workers[w].busy

\* A wake-up is a job of its own, known by the transaction that asked for it:
\* it is never the one that is already running.
Woken == TRUE
Owned == lead.receipt /= NoReceipt

\* --- What a classification decides, from the links and the mode it has seen.
Candidate(t, m) ==
  IF t \notin resolved THEN "pending"
  ELSE IF m = "disabled" \/ mapping[CampaignOf[t]] = Blocked THEN "disabled"
  ELSE "ready"
Native(t) == IF mapping[CampaignOf[t]] = Unmapped THEN <<"create", CampaignOf[t]>>
             ELSE <<"mapped", mapping[CampaignOf[t]]>>
Verdict(state, after, points) == [state |-> state, after |-> after, points |-> points]

ClassifyReady(ready, m) ==
  LET natives == {Native(t) : t \in ready}
      before == lead.values
      writable == before = Empty \/ (Owned /\ before = lead.receipt.after)
      native == CHOOSE n \in natives : TRUE
      desired == IF native[1] = "mapped" THEN native[2] ELSE None
  IN  IF Cardinality(natives) /= 1 THEN Verdict("conflict", before, {})
      ELSE IF ~writable /\ before /= desired THEN Verdict("conflict", before, ready)
      ELSE IF before = desired THEN Verdict("present", before, ready)
      ELSE IF m /= "apply" THEN Verdict("simulation", before, ready)
      ELSE Verdict("applied", native[2], ready)

\* A tuple the classifier owns is given back when its evidence has gone or
\* become ambiguous, unless its source only simulates or is off.
RestoreOwned(v, m) ==
  IF /\ v.state \in {"missing", "conflict", "revoked"}
     /\ Owned /\ ~lead.manual /\ lead.values = lead.receipt.after
  THEN CASE m = "apply" -> [v EXCEPT !.after = lead.baseline]
         [] m = "disabled" -> [v EXCEPT !.state = "disabled"]
         [] m = "simulate" -> [v EXCEPT !.state = "simulation"]
  ELSE v

Decide(seen, m, held) ==
  LET of(what) == {t \in seen : Candidate(t, m) = what}
      before == lead.values
      verdict ==
        IF lead.manual THEN Verdict("manual", before, {})
        ELSE IF held THEN Verdict("scope_review", before, {})
        ELSE IF seen = {} THEN Verdict(IF Owned THEN "revoked" ELSE "missing", before, {})
        ELSE IF of("pending") /= {} THEN Verdict("missing", before, {})
        ELSE IF of("ready") /= {} THEN ClassifyReady(of("ready"), m)
        ELSE Verdict("disabled", before, {})
  IN  RestoreOwned(verdict, m)

\* --- The job.
Begin(w) ==
  /\ due /\ ~workers[w].busy
  /\ due' = FALSE
  /\ workers' = [workers EXCEPT ![w] =
       [busy |-> TRUE, stale |-> FALSE, links |-> links, mode |-> mode, held |-> lead.held]]
  /\ UNCHANGED <<mode, mapping, resolved, links, lead, scopes, open, raced, turns>>

Retry(w) ==
  /\ workers[w].stale
  /\ workers' = [workers EXCEPT ![w] = Idle]
  /\ due' = TRUE
  /\ UNCHANGED <<mode, mapping, resolved, links, lead, scopes, open, raced, turns>>

\* A verdict equal to the last receipt writes nothing; another is recorded and
\* writes the lead, and the first applied one keeps what it replaces.
Recorded(v) ==
  LET receipt == [state |-> v.state, before |-> lead.values, after |-> v.after, points |-> v.points]
      applied == v.state = "applied"
  IN  IF lead.last = receipt THEN lead
      ELSE [lead EXCEPT !.values = v.after, !.state = v.state, !.last = receipt,
              !.receipt = IF applied THEN [after |-> v.after, before |-> lead.values] ELSE @,
              !.baseline = IF applied /\ @ = None THEN lead.values ELSE @]
Creates(v) ==
  IF v.state = "applied" THEN {CampaignOf[t] : t \in {p \in v.points : Native(p)[1] = "create"}} ELSE {}
\* A job that writes nothing does not stop an older one that saw fewer links or
\* a hold that has ended.
Overlooks(w) ==
  \E v \in Workers \ {w} :
    /\ workers[v].busy
    /\ workers[v].links /= workers[w].links \/ workers[v].held /= workers[w].held
Classify(w) ==
  /\ workers[w].busy /\ ~workers[w].stale
  /\ LET v == Decide(workers[w].links, workers[w].mode, workers[w].held)
         new == Creates(v)
     IN  /\ lead' = Recorded(v)
         /\ mapping' = [c \in Campaigns |-> IF c \in new THEN c ELSE mapping[c]]
         /\ scopes' = scopes \cup {<<"campaign", c>> : c \in new}
         /\ workers' = [(IF lead' = lead THEN workers ELSE Everyone) EXCEPT ![w] = Idle]
         /\ open' = IF lead' = lead THEN open ELSE {}
         /\ raced' = (raced \/ (lead' = lead /\ Overlooks(w)))
  /\ UNCHANGED <<mode, resolved, links, due, turns>>

\* --- What wakes it.  A transaction that links or resolves a touchpoint wakes
\* nobody when its snapshot shows neither an enabled source nor an owned lead.
Open(kind, t) ==
  /\ open = {} /\ Turn
  /\ kind = "link" => t \notin links
  /\ open' = {[kind |-> kind, touchpoint |-> t, sees |-> mode /= "disabled"]}
  /\ UNCHANGED <<mode, mapping, resolved, links, lead, due, scopes, workers, raced>>
Link(o) ==
  /\ o \in open /\ o.kind = "link"
  /\ links' = links \cup {o.touchpoint}
  /\ due' = (due \/ ((o.sees \/ Owned) /\ Woken))
  /\ raced' = (raced \/ (mode /= "disabled" /\ ~o.sees /\ ~Owned))
  /\ open' = {}
  /\ UNCHANGED <<mode, mapping, resolved, lead, scopes, workers, turns>>
Project(o) ==
  /\ o \in open /\ o.kind = "project"
  /\ resolved' = IF o.touchpoint \in resolved THEN resolved \ {o.touchpoint}
                 ELSE resolved \cup {o.touchpoint}
  /\ scopes' = IF o.sees \/ Owned THEN scopes \cup {<<"touchpoint", o.touchpoint>>} ELSE scopes
  /\ raced' = (raced \/ (mode /= "disabled" /\ ~o.sees /\ ~Owned))
  /\ workers' = Doom({w \in Workers : o.touchpoint \in workers[w].links})
  /\ open' = {}
  /\ UNCHANGED <<mode, mapping, links, lead, due, turns>>

\* Revoking the assertions of a link writes the lead, and always wakes it.
Revoke(t) ==
  /\ t \in links /\ Turn
  /\ links' = links \ {t}
  /\ workers' = Everyone
  /\ open' = {}
  /\ due' = (due \/ ((mode /= "disabled" \/ Owned) /\ Woken))
  /\ UNCHANGED <<mode, mapping, resolved, lead, scopes, raced>>

SetMode(m) ==
  /\ m /= mode /\ Turn
  /\ mode' = m
  /\ scopes' = scopes \cup {<<"source", None>>}
  /\ workers' = Readers(Touchpoints)
  /\ UNCHANGED <<mapping, resolved, links, lead, due, open, raced>>

\* Clearing a mapping by hand blocks the campaign; a block may be lifted.
Map(c, to) ==
  /\ to /= mapping[c] /\ (to = Unmapped => mapping[c] = Blocked) /\ Turn
  /\ mapping' = [mapping EXCEPT ![c] = to]
  /\ scopes' = scopes \cup {<<"campaign", c>>}
  /\ workers' = Readers({t \in Touchpoints : CampaignOf[t] = c})
  /\ UNCHANGED <<mode, resolved, links, lead, due, open, raced>>

\* A reconciliation finds the lead by the resolutions of its effective links.
Reaches(s) ==
  CASE s[1] = "source" -> links \cap resolved /= {}
    [] s[1] = "campaign" -> \E t \in links \cap resolved : CampaignOf[t] = s[2]
    [] s[1] = "touchpoint" -> s[2] \in links
Reconcile(s) ==
  /\ s \in scopes
  /\ scopes' = scopes \ {s}
  /\ due' = (due \/ (Reaches(s) /\ (mode /= "disabled" \/ Owned) /\ Woken))
  /\ UNCHANGED <<mode, mapping, resolved, links, lead, open, workers, raced, turns>>

\* --- People.  Editing the fields takes the lead from the classifier.
Writes(new) ==
  /\ lead' = new /\ workers' = Everyone /\ open' = {}
  /\ UNCHANGED <<mode, mapping, resolved, links, due, scopes, raced>>
Edit(v) ==
  /\ Turn
  /\ Writes([lead EXCEPT !.values = v, !.manual = TRUE, !.state = "manual"])
Revert ==
  /\ Owned /\ ~lead.manual /\ lead.values = lead.receipt.after /\ Turn
  /\ Writes([lead EXCEPT !.values = lead.baseline, !.manual = TRUE, !.state = "reverted",
       !.last = [state |-> "reverted", before |-> lead.values, after |-> lead.baseline, points |-> {}]])

\* A business period in review holds the lead; its end wakes it.
Hold ==
  /\ ~lead.held /\ Turn
  /\ lead' = [lead EXCEPT !.held = TRUE]
  /\ UNCHANGED <<mode, mapping, resolved, links, due, scopes, open, workers, raced>>
Release ==
  /\ lead.held
  /\ lead' = [lead EXCEPT !.held = FALSE]
  /\ due' = (due \/ ((mode /= "disabled" \/ Owned) /\ Woken))
  /\ UNCHANGED <<mode, mapping, resolved, links, scopes, open, workers, raced, turns>>

Next ==
  \/ \E w \in Workers : Begin(w) \/ Retry(w) \/ Classify(w)
  \/ \E t \in Touchpoints : Open("link", t) \/ Open("project", t) \/ Revoke(t)
  \/ \E o \in open : Link(o) \/ Project(o)
  \/ \E m \in Modes : SetMode(m)
  \/ \E c \in Campaigns, to \in Campaigns \cup {Unmapped, Blocked} : Map(c, to)
  \/ \E s \in scopes : Reconcile(s)
  \/ \E v \in {Empty, Own} : Edit(v)
  \/ Revert \/ Hold \/ Release

Spec == Init /\ [][Next]_vars

UtmTypeOK ==
  /\ mode \in Modes /\ resolved \subseteq Touchpoints /\ links \subseteq Touchpoints
  /\ mapping \in [Campaigns -> Campaigns \cup {Unmapped, Blocked}]
  /\ lead.values \in Campaigns \cup {Empty, Own} /\ lead.manual \in BOOLEAN
  /\ lead.baseline \in Campaigns \cup {Empty, Own, None}
  /\ due \in BOOLEAN /\ Cardinality(open) <= 1

\* When nothing is left to run, a lead nobody took over has the campaign that
\* its links, its mappings and the mode give now, whatever overlapped; but for
\* a wake-up raced by a transaction older than the source's activation, and
\* for a lead that no reconciliation finds because its links are gone or
\* unresolved, and whose source was off or simulating when they went.
AtRest == ~due /\ scopes = {} /\ open = {} /\ \A w \in Workers : ~workers[w].busy
Paused == links \cap resolved = {} /\ lead.state \in {"disabled", "simulation"}
ClassificationSettles ==
  AtRest /\ ~raced /\ ~lead.held /\ ~lead.manual /\ ~Paused =>
    Decide(links, mode, FALSE).after = lead.values
==============================================================================
