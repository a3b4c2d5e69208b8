----------------------------- MODULE CrmEvidence -----------------------------
(* The attribution of CRM leads: append-only assertions that a touchpoint    *)
(* belongs to a lead, append-only revocations by the authority that asserted *)
(* it, and native lead merges, which copy the live assertions of the leads   *)
(* they delete; the business events of a lead are linked to it, and handed on *)
(* by a merge, only while its company captures CRM events.  The transactions *)
(* are REPEATABLE READ: each reads the ledger and the company's policy as they *)
(* were when it began, then locks the lead rows it needs.                    *)
EXTENDS Naturals, Sequences, FiniteSets

CONSTANTS Leads, Touchpoints, Authorities, Writers, MaxAssertions

VARIABLES evidence, revoked, anchored, alive, mergedInto, eventLeads, capturing, dropped, writers
ledger == <<evidence, revoked, anchored, alive, mergedInto, eventLeads, dropped>>
vars == <<ledger, capturing, writers>>

NoLead == 0
EvidenceConstants ==
  /\ Leads \subseteq Nat \ {NoLead} /\ IsFiniteSet(Leads) /\ MaxAssertions \in Nat

\* An assertion: of links it to the one a merge copied, root to the one that
\* its authority first made (0 for that one itself).
Assertion(t, a, l, of, root) ==
  [touchpoint |-> t, authority |-> a, lead |-> l, of |-> of, root |-> root]
Root(i) == IF evidence[i].root = 0 THEN i ELSE evidence[i].root

\* Deleting a lead empties the reference of its rows; their snapshot stays.
LeadOf(i) == IF evidence[i].lead \in alive THEN evidence[i].lead ELSE NoLead

\* The effective view: an assertion counts while its lead lives and neither it
\* nor the one it descends from is revoked.
Credits(l, t) ==
  \E i \in DOMAIN evidence :
    /\ evidence[i].touchpoint = t /\ LeadOf(i) = l /\ l \in alive
    /\ {i, Root(i)} \cap revoked = {}

\* The leads that a lead has become, merge by merge, and the last of them.
Way(l) ==
  LET into[n \in 0..Cardinality(Leads)] ==
        IF n = 0 \/ mergedInto[l] = NoLead THEN l
        ELSE LET m == into[n - 1] IN IF mergedInto[m] = NoLead THEN m ELSE mergedInto[m]
  IN  into
Survivor(l) == Way(l)[Cardinality(Leads)]

\* The transactions whose snapshot matters keep what it showed; one whose rows
\* have been written since is doomed, and runs again from a new snapshot.  The
\* others read nothing but rows that a writer dooms them by, so they take
\* effect in one step.
Idle == [kind |-> "idle"]
Doomed == [kind |-> "doomed"]
Start(w, kind, from, to, about) ==
  /\ writers[w] = Idle
  /\ writers' = [writers EXCEPT ![w] = [kind |-> kind, from |-> from, to |-> to, about |-> about]]
  /\ UNCHANGED <<ledger, capturing>>

\* A commit dooms the open transactions that lock a lead row it wrote, a merge
\* that deletes a lead it added a row of (the foreign key checks for rows its
\* snapshot lacks), and a merge that would add the same event link.
Dooms(x, rows, added) ==
  \/ {x.from, x.to} \cap rows /= {}
  \/ x.kind = "merge" /\ \E row \in added : row.lead = x.from
  \/ x.kind = "merge" /\ x.about.event = "copied" /\ [is |-> "event", lead |-> x.to] \in added
Commits(rows, added) ==
  [w \in Writers |->
    CASE writers[w] = Idle -> Idle
      [] writers[w] = Doomed -> Doomed
      [] OTHER -> IF Dooms(writers[w], rows, added) THEN Doomed ELSE writers[w]]
Open(rows, added) == writers' = Commits(rows, added)
Ends(w, rows, added) == writers' = [Commits(rows, added) EXCEPT ![w] = Idle]
Retry(w) ==
  /\ writers[w] = Doomed
  /\ writers' = [writers EXCEPT ![w] = Idle]
  /\ UNCHANGED <<ledger, capturing>>

Init ==
  /\ evidence = <<>>
  /\ revoked = {}
  /\ anchored = {}
  /\ alive = Leads
  /\ mergedInto = [l \in Leads |-> NoLead]
  /\ eventLeads = {}
  /\ capturing \in BOOLEAN
  /\ dropped = {}
  /\ writers = [w \in Writers |-> Idle]

\* The first evidence of a lead fixes its company, which writes its row.
Anchor(l) == anchored' = anchored \cup {l}
Made(t, a, l) == \E i \in DOMAIN evidence : evidence[i] = Assertion(t, a, l, 0, 0)

\* One assertion per touchpoint, authority and lead: a repeat answers with the
\* row it finds, revoked or not.
Link(l, t, a) ==
  /\ l \in alive /\ (Made(t, a, l) \/ Len(evidence) < MaxAssertions)
  /\ Anchor(l)
  /\ IF Made(t, a, l) THEN evidence' = evidence /\ Open({l} \ anchored, {})
     ELSE /\ evidence' = Append(evidence, Assertion(t, a, l, 0, 0))
          /\ Open({l} \ anchored, {[is |-> "assertion", lead |-> l]})
  /\ UNCHANGED <<revoked, alive, mergedInto, eventLeads, dropped, capturing>>

\* An event is linked to its lead only while its company captures CRM events.
SwitchCapture == capturing' = ~capturing /\ UNCHANGED <<ledger, writers>>
LinkEvent(l) ==
  /\ capturing /\ l \in alive
  /\ Anchor(l)
  /\ eventLeads' = eventLeads \cup {l}
  /\ Open({l} \ anchored, IF l \in eventLeads THEN {} ELSE {[is |-> "event", lead |-> l]})
  /\ UNCHANGED <<evidence, revoked, alive, mergedInto, dropped, capturing>>

\* Mutated form: a revocation writes no lead row.
Untouched(ids) == {}

\* Revoking writes the rows of the leads credited, so that no transaction with
\* an older snapshot still counts the assertion.
Touched(ids) == {LeadOf(i) : i \in ids} \ {NoLead}
Revoke(ids) ==
  /\ revoked' = revoked \cup ids
  /\ UNCHANGED <<evidence, anchored, alive, mergedInto, eventLeads, dropped, capturing>>

\* An authority leaves a lead: every assertion it still has there, copies
\* included, as its snapshot shows them.
Held(l, a) == {i \in DOMAIN evidence \ revoked : LeadOf(i) = l /\ evidence[i].authority = a}
BeginRevoke(w) ==
  \E l \in alive, a \in Authorities : Held(l, a) /= {} /\ Start(w, "revoke", l, NoLead, Held(l, a))
RevokeAuthority(w) ==
  /\ writers[w].kind = "revoke"
  /\ Revoke(writers[w].about)
  /\ Ends(w, Touched(writers[w].about), {})

\* An authority withdraws what it first asserted, wherever the lead has gone.
Withdraw(i) ==
  /\ i \notin revoked /\ evidence[i].root = 0
  /\ Revoke({i}) /\ Open(Touched({i}), {})

\* Of two leads the merge keeps the more confident, here the lower number.
\* What of the other it carries over: the assertions that credit it, in the
\* order of the ledger, and the event links it has, unless the company does not
\* capture CRM events.
Live(l) == {i \in DOMAIN evidence : LeadOf(i) = l /\ {i, Root(i)} \cap revoked = {}}
Descent(i) == Root(i)
Copies(ids, target) ==
  [n \in 1..Cardinality(ids) |->
    LET i == CHOOSE j \in ids : Cardinality({k \in ids : k <= j}) = n
    IN  Assertion(evidence[i].touchpoint, evidence[i].authority, target, i, Descent(i))]
EventsOf(s) == CASE s \notin eventLeads -> "none" [] capturing -> "copied" [] OTHER -> "dropped"
BeginMerge(w) ==
  \E s, t \in alive :
    t < s /\ Start(w, "merge", s, t, [live |-> Live(s), event |-> EventsOf(s)])

\* A merge locks both leads, writes the target and deletes the source, then
\* copies what credited the source and, if events are captured, the event links
\* it had; without them the deleted source keeps the only ones.
Merge(w) ==
  /\ writers[w].kind = "merge"
  /\ LET s == writers[w].from
         t == writers[w].to
         about == writers[w].about
     IN  /\ Len(evidence) + Cardinality(about.live) <= MaxAssertions
         /\ evidence' = evidence \o Copies(about.live, t)
         /\ eventLeads' = IF about.event = "copied" THEN eventLeads \cup {t} ELSE eventLeads
         /\ dropped' = IF about.event = "dropped" THEN dropped \cup {s} ELSE dropped
         /\ alive' = alive \ {s}
         /\ mergedInto' = [mergedInto EXCEPT ![s] = t]
         /\ anchored' = anchored \cup {s, t}
         /\ Ends(w, {s, t}, {})
         /\ UNCHANGED <<revoked, capturing>>

\* A lead deleted on its own leaves its evidence without a lead.
Delete(l) ==
  /\ l \in alive
  /\ alive' = alive \ {l}
  /\ Open({l}, {})
  /\ UNCHANGED <<evidence, revoked, anchored, mergedInto, eventLeads, dropped, capturing>>

Next ==
  \/ \E w \in Writers : BeginRevoke(w) \/ RevokeAuthority(w) \/ BeginMerge(w) \/ Merge(w) \/ Retry(w)
  \/ \E l \in Leads, t \in Touchpoints, a \in Authorities : Link(l, t, a)
  \/ \E l \in Leads : LinkEvent(l) \/ Delete(l)
  \/ \E i \in DOMAIN evidence : Withdraw(i)
  \/ SwitchCapture

Spec == Init /\ [][Next]_vars

EvidenceTypeOK ==
  /\ Len(evidence) <= MaxAssertions
  /\ \A i \in DOMAIN evidence :
       /\ evidence[i].lead \in Leads /\ evidence[i].touchpoint \in Touchpoints
       /\ evidence[i].authority \in Authorities
       /\ evidence[i].root \in 0..(i - 1) /\ evidence[i].of \in 0..(i - 1)
  /\ revoked \subseteq DOMAIN evidence
  /\ alive \subseteq Leads /\ eventLeads \subseteq Leads /\ anchored \subseteq Leads
  /\ dropped \subseteq Leads /\ capturing \in BOOLEAN
  /\ mergedInto \in [Leads -> Leads \cup {NoLead}]

\* Nobody revoked an assertion or a copy of it: whatever merges its lead went
\* through, beside whatever other transactions, the lead that survives them
\* has the credit.  It has the event links of those it absorbed too, as long as
\* no merge on the way fell into a time when CRM events were not captured.
CreditSurvivesMerges ==
  /\ \A i \in DOMAIN evidence :
       LET s == Survivor(evidence[i].lead)
       IN  (/\ evidence[i].root = 0 /\ s \in alive
            /\ \A j \in revoked : Root(j) /= i) => Credits(s, evidence[i].touchpoint)
  /\ \A l \in eventLeads :
       LET way == Way(l)
       IN  (Survivor(l) \in alive /\ \A n \in DOMAIN way : way[n] \notin dropped) =>
             Survivor(l) \in eventLeads

\* A lead is credited only by assertions of which nothing they were copied
\* from was ever revoked: merges never revive what an authority withdrew, not
\* even when the two transactions overlap.
CreditIsGrounded ==
  LET chain[i \in 0..Len(evidence)] ==
        IF i = 0 THEN {} ELSE {i} \cup chain[evidence[i].of]
  IN  \A i \in DOMAIN evidence :
        LeadOf(i) /= NoLead /\ {i, Root(i)} \cap revoked = {} => chain[i] \cap revoked = {}
==============================================================================
