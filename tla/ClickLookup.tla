----------------------------- MODULE ClickLookup ------------------------------
(* The exact lookup of a Google click: one lookup per canonical touchpoint    *)
(* plans a run against the one account that may own the click, whose jobs ask *)
(* Google until it answers or the attempts are spent.  Meanwhile accounts are *)
(* switched, evidence is erased or stops needing an answer, runs are          *)
(* cancelled and a job that was lost sight of runs twice.                     *)
EXTENDS Naturals, FiniteSets

CONSTANTS Accounts, Lookers, EmptyRetries, Deferrals, MaxLookupTurns

VARIABLES usable, needed, erasedClick, lookup, lookupJobs, lookers, enriched, lookupTurns
vars == <<usable, needed, erasedClick, lookup, lookupJobs, lookers, enriched, lookupTurns>>
world == <<usable, needed, erasedClick>>

LookupConstants == EmptyRetries \in Nat /\ Deferrals \in Nat /\ MaxLookupTurns \in Nat

\* A lookup has a run, which is active from its plan to its end; only the job
\* last queued for it may work on it.  The answer is kept apart from the state.
LookupStates ==
  {"none", "pending", "waiting", "found", "no_match", "ambiguous", "blocked", "stale", "expired", "error"}
NoLookup ==
  [state |-> "none", again |-> FALSE, attempts |-> 0, run |-> 0, active |-> FALSE, account |-> 0,
   outdated |-> FALSE, job |-> 0, answer |-> FALSE]
LookupJob(run, id, attempt, deferred) ==
  [run |-> run, id |-> id, attempt |-> attempt, deferred |-> deferred]
Asleep == [busy |-> FALSE]
LookupTurn == lookupTurns < MaxLookupTurns /\ lookupTurns' = lookupTurns + 1

Init ==
  /\ usable \in SUBSET Accounts
  /\ needed = TRUE
  /\ erasedClick = FALSE
  /\ lookup = NoLookup
  /\ lookupJobs = {}
  /\ lookers = [w \in Lookers |-> Asleep]
  /\ enriched = 0
  /\ lookupTurns = 0

\* Writing the lookup, its run or the account of the run makes the jobs that
\* have begun start over.
Outrun == [w \in Lookers |-> IF lookers[w].busy THEN [lookers[w] EXCEPT !.stale = TRUE] ELSE lookers[w]]
Queued(record, attempt, deferred) ==
  /\ lookup' = [record EXCEPT !.job = lookup.job + 1]
  /\ lookupJobs' = lookupJobs \cup {LookupJob(record.run, lookup.job + 1, attempt, deferred)}

\* --- Planning.  A click that nothing needs, or whose evidence is erased, gets
\* no lookup; a snapshot older than the erasure does not see it.  Without being
\* asked, only what a change of accounts may have mended is tried again.
Refused == ~needed \/ (erasedClick /\ lookup /= NoLookup) \/ lookup.state = "found" \/ lookup.active

\* Mutated form: a new plan keeps the attempts of the one before.
PlannedAfterAttempts(record) ==
  [record EXCEPT !.state = "pending", !.again = FALSE, !.run = @ + 1,
     !.active = TRUE, !.outdated = FALSE, !.account = CHOOSE a \in usable : TRUE]

Planned(record) ==
  LET anew == [record EXCEPT !.attempts = 0, !.run = @ + 1, !.outdated = FALSE,
                 !.account = CHOOSE a \in usable : TRUE]
  IN  [anew EXCEPT !.state = "pending", !.again = FALSE, !.active = TRUE]
Unprompted == usable /= {} /\ (lookup = NoLookup \/ lookup.again)
Schedule(explicit) ==
  /\ ~Refused /\ LookupTurn
  /\ explicit \/ Unprompted
  /\ lookers' = Outrun
  /\ IF Cardinality(usable) = 1
     THEN \/ Queued(Planned(lookup), 0, 0)
          \/ /\ lookup' \in {[lookup EXCEPT !.state = "expired", !.again = FALSE],
                             [lookup EXCEPT !.state = "blocked", !.again = TRUE]}
             /\ UNCHANGED lookupJobs
     ELSE /\ lookup' = [lookup EXCEPT !.again = TRUE,
                          !.state = IF usable = {} THEN "blocked" ELSE "ambiguous"]
          /\ UNCHANGED lookupJobs
  /\ UNCHANGED <<world, enriched>>

\* --- What happens around it.
SwitchAccount(a) ==
  /\ LookupTurn
  /\ usable' = IF a \in usable THEN usable \ {a} ELSE usable \cup {a}
  /\ lookup' = IF lookup.account = a THEN [lookup EXCEPT !.outdated = TRUE] ELSE lookup
  /\ lookers' = IF lookup.account = a THEN Outrun ELSE lookers
  /\ UNCHANGED <<needed, erasedClick, lookupJobs, enriched>>

\* The lead goes, or the campaign becomes known.
Settle ==
  /\ LookupTurn
  /\ needed' = ~needed
  /\ UNCHANGED <<usable, erasedClick, lookup, lookupJobs, lookers, enriched>>

\* Erasing the evidence empties the lookup of whoever answers meanwhile.
Erase ==
  /\ ~erasedClick
  /\ erasedClick' = TRUE
  /\ lookup' = IF lookup = NoLookup THEN lookup
               ELSE [lookup EXCEPT !.state = "blocked", !.again = FALSE, !.answer = FALSE]
  /\ lookers' = Outrun
  /\ UNCHANGED <<usable, needed, lookupJobs, enriched, lookupTurns>>

\* An operator cancels the run, or the watchdog gives it up; the lookup stays.
EndRun ==
  /\ lookup.active /\ LookupTurn
  /\ lookup' = [lookup EXCEPT !.active = FALSE]
  /\ lookers' = Outrun
  /\ UNCHANGED <<world, lookupJobs, enriched>>

\* --- A job.
BeginLookup(w) ==
  /\ ~lookers[w].busy
  /\ \E job \in lookupJobs :
       lookers' = [lookers EXCEPT ![w] =
         [busy |-> TRUE, stale |-> FALSE, job |-> job, usable |-> usable, needed |-> needed]]
  /\ UNCHANGED <<world, lookup, lookupJobs, enriched, lookupTurns>>

Restarts(w) ==
  /\ lookers[w].busy
  /\ lookers' = [lookers EXCEPT ![w] = Asleep]
  /\ UNCHANGED <<world, lookup, lookupJobs, enriched, lookupTurns>>

\* The job of an ended or replaced run, or one that is no longer the run's, or
\* behind its attempts, does nothing.
Mine(w) ==
  LET job == lookers[w].job
  IN  /\ lookers[w].busy /\ ~lookers[w].stale
      /\ lookup.active /\ lookup.run = job.run /\ lookup.job = job.id /\ lookup.attempts = job.attempt
Superseded(w) == lookers[w].busy /\ ~lookers[w].stale /\ ~Mine(w)

Done(w) ==
  /\ lookupJobs' = lookupJobs \ {lookers[w].job}
  /\ lookers' = [Outrun EXCEPT ![w] = Asleep]
Ends(w, state, again) ==
  /\ lookup' = [lookup EXCEPT !.state = state, !.again = again, !.active = FALSE]
  /\ Done(w)
  /\ UNCHANGED <<world, enriched, lookupTurns>>
DropJob(w) ==
  /\ Superseded(w)
  /\ lookupJobs' = lookupJobs \ {lookers[w].job}
  /\ lookers' = [lookers EXCEPT ![w] = Asleep]
  /\ UNCHANGED <<world, lookup, enriched, lookupTurns>>

\* Before it asks: the click must still need an answer, the accounts and their
\* settings be those of the plan, and the evidence be there.
Reject(w) ==
  /\ Mine(w)
  /\ LET seen == lookers[w].usable
     IN  IF ~lookers[w].needed THEN Ends(w, "blocked", FALSE)
         ELSE IF lookup.outdated THEN Ends(w, "stale", TRUE)
         ELSE IF seen /= {lookup.account}
           THEN Ends(w, IF Cardinality(seen) > 1 THEN "ambiguous" ELSE "blocked", TRUE)
         ELSE erasedClick /\ Ends(w, "blocked", FALSE)
Admitted(w) ==
  /\ Mine(w) /\ lookers[w].needed /\ ~lookup.outdated
  /\ lookers[w].usable = {lookup.account} /\ ~erasedClick
Expire(w) == Admitted(w) /\ (Ends(w, "expired", FALSE) \/ Ends(w, "stale", TRUE))

\* Google asks to wait: a successor of the same attempt takes over, until the
\* deferrals are spent, when the run fails and the lookup stays as it was.
Successor(w, record, attempt, deferred) ==
  /\ lookup' = [record EXCEPT !.job = lookup.job + 1]
  /\ lookupJobs' = (lookupJobs \ {lookers[w].job})
                     \cup {LookupJob(lookup.run, lookup.job + 1, attempt, deferred)}
  /\ lookers' = [Outrun EXCEPT ![w] = Asleep]
  /\ UNCHANGED <<world, enriched, lookupTurns>>

\* Mutated form: one deferral more than the limit.
DeferOnceMore(w) ==
  /\ Admitted(w)
  /\ LET job == lookers[w].job
     IN  IF job.deferred <= Deferrals THEN Successor(w, lookup, job.attempt, job.deferred + 1)
         ELSE Ends(w, lookup.state, FALSE)

Defer(w) ==
  /\ Admitted(w)
  /\ LET job == lookers[w].job
     IN  IF job.deferred < Deferrals THEN Successor(w, lookup, job.attempt, job.deferred + 1)
         ELSE Ends(w, lookup.state, FALSE)

\* Google refuses, or the transient failures are spent; an unexpected failure
\* ends the run alone.
Refuse(w) == Admitted(w) /\ (Ends(w, "error", FALSE) \/ Ends(w, lookup.state, FALSE))

\* Google knows no such click, yet.
Counted == lookup.attempts + 1
NoMatch(w) ==
  /\ Admitted(w)
  /\ IF Counted <= EmptyRetries
     THEN Successor(w, [lookup EXCEPT !.state = "waiting", !.attempts = Counted], Counted, 0)
     ELSE Ends(w, "no_match", FALSE)

\* The answer revises the touchpoint, unless the ledger does not accept it.
Match(w) ==
  /\ Admitted(w)
  /\ \/ /\ lookup' = [lookup EXCEPT !.state = "found", !.active = FALSE, !.attempts = Counted,
                        !.again = FALSE, !.answer = TRUE]
        /\ enriched' = enriched + 1
        /\ Done(w)
        /\ UNCHANGED <<world, lookupTurns>>
     \/ Ends(w, "blocked", FALSE)

Next ==
  \/ \E explicit \in BOOLEAN : Schedule(explicit)
  \/ \E a \in Accounts : SwitchAccount(a)
  \/ Settle \/ Erase \/ EndRun
  \/ \E w \in Lookers :
       \/ BeginLookup(w) \/ Restarts(w) \/ DropJob(w) \/ Reject(w) \/ Expire(w)
       \/ Defer(w) \/ Refuse(w) \/ NoMatch(w) \/ Match(w)

Spec == Init /\ [][Next]_vars

LookupTypeOK ==
  /\ usable \subseteq Accounts /\ needed \in BOOLEAN /\ erasedClick \in BOOLEAN
  /\ lookup.state \in LookupStates /\ lookup.attempts \in 0..(EmptyRetries + 1)
  /\ lookup.active \in BOOLEAN /\ lookup.answer \in BOOLEAN
  /\ \A job \in lookupJobs : job.run <= lookup.run /\ job.deferred \in 0..Deferrals
  /\ lookupTurns \in 0..MaxLookupTurns

\* However often it is planned, deferred, repeated, cancelled or raced: the
\* click is answered at most once, an answer is kept exactly until its evidence
\* is erased, and nothing answers after that.
AnsweredOnce ==
  /\ enriched <= 1
  /\ lookup.answer <=> enriched = 1 /\ ~erasedClick
  /\ lookup.answer => lookup.state = "found"

\* An active run always has the job that will take it further: whatever
\* successors, retries and replanning came before, it is the one the run
\* knows, at the attempt the lookup has reached.
RunIsCarried ==
  lookup.active =>
    LookupJob(lookup.run, lookup.job, lookup.attempts, 0) \in {[j EXCEPT !.deferred = 0] : j \in lookupJobs}
==============================================================================
