------------------------------ MODULE SaleLedger ------------------------------
(* The business events of one sales order: proposals, confirmations and their *)
(* reversals are reported as the order changes while the company captures     *)
(* events, and what the chatter tracked before is imported on request.  The   *)
(* leads of the order see an event only if it is looked at while the company  *)
(* captures CRM events as well, which is a policy of its own.  Every operation *)
(* locks the order, so each takes effect in one step; but one that gives the  *)
(* order a lead may follow a reconciliation, which writes no row of it, with a *)
(* snapshot that lacks what was imported.                                     *)
EXTENDS Integers, Sequences, FiniteSets, FiniteSetsExt

CONSTANTS OrderLeads, MaxTracked

VARIABLES captured, leadsCaptured, order, tracked, saleSequence, saleEvents, synced,
          orderLeads, projected, hidden, linking
graph == <<orderLeads, projected, hidden, linking>>
policies == <<captured, leadsCaptured>>
vars == <<policies, order, tracked, saleSequence, saleEvents, synced, graph>>

SaleConstants == MaxTracked \in Nat

OrderStates == {"draft", "sent", "sale", "cancel"}
NoRow == 0
NoMark == -1

\* An event: the transition it is of, by its tracking row, how it is known, the
\* watermark of a live one, and the confirmation that a reversal reverses.
Live(n) == <<"sequence", n>>
Chatter(id) == <<"tracking", id>>
Stamp(n) == <<"record", n>>
Unreversed == <<"none", 0>>
SaleEvent(kind, ref, of, mark, reverses) ==
  [kind |-> kind, ref |-> ref, of |-> of, mark |-> mark, reverses |-> reverses]
Proposed(E) == \E e \in E : e.kind = "proposal"
Has(E, kind, ref) == \E e \in E : e.kind = kind /\ e.ref = ref

\* The chatter numbers its rows; it may leave out that a quotation was sent.
Rows == DOMAIN tracked
Top == Cardinality(Rows)
Confirms(i) == tracked[i].from /= "sale" /\ tracked[i].to = "sale"
Reverses(i) == tracked[i].from = "sale" /\ tracked[i].to = "cancel"

Init ==
  /\ captured \in BOOLEAN /\ leadsCaptured \in BOOLEAN
  /\ order = "draft"
  /\ tracked = <<>>
  /\ saleSequence = 0
  /\ saleEvents = {}
  /\ synced = captured
  /\ orderLeads = {}
  /\ projected = {}
  /\ hidden = {}
  /\ linking = {}

\* --- Confirmations that nothing reverses; a second one stops whoever needs
\* the one to reverse.
OpenOf(E) ==
  {c \in E : c.kind = "confirmed" /\ ~\E x \in E : x.kind = "cancelled" /\ x.reverses = c.ref}
Imported(E) == {e \in E : e.mark = NoMark}
OpenConfirmation(E, historical) == OpenOf(E) \cap IF historical THEN Imported(E) ELSE E
Ambiguous(E, historical) == Cardinality(OpenConfirmation(E, historical)) > 1

\* Without one, the last tracked confirmation (before a row) is imported first.
LastConfirmation(before) == Max({i \in Rows : i < before /\ Confirms(i)} \cup {NoRow})
EnsureConfirmation(E, before, historical) ==
  IF OpenConfirmation(E, historical) /= {} THEN OpenConfirmation(E, historical)
  ELSE LET i == LastConfirmation(before)
       IN  {SaleEvent("confirmed", Chatter(i), i, NoMark, Unreversed)}
Reversal(confirmations, ref, of, mark) ==
  {SaleEvent("cancelled", ref, of, mark, c.ref) : c \in confirmations}
WithReversal(E, before, historical, ref, of, mark) ==
  LET confirmation == EnsureConfirmation(E, before, historical)
  IN  E \cup confirmation \cup Reversal(confirmation, ref, of, mark)

\* The ledger refuses to reverse a confirmation again.
Reversible(E, before, historical) ==
  /\ ~Ambiguous(E, historical)
  /\ \A c \in EnsureConfirmation(E, before, historical), x \in E : x.kind = "cancelled" => x.reverses /= c.ref

\* An event that is emitted, or looked at again, is linked to the leads of the
\* order, unless CRM events are not captured: then whoever has no link to it has
\* missed it.
Pairs(E, leads) == {<<e.ref, l>> : e \in E, l \in leads}
Show(pairs, shown) ==
  /\ projected' = IF shown THEN projected \cup pairs ELSE projected
  /\ hidden' = IF shown THEN hidden \ pairs ELSE hidden \cup (pairs \ projected)
Project(E, leads) == Show(Pairs(E, leads), leadsCaptured)
Fresh == linking' = {}

\* --- What happens to the order, reported while it is captured.  The chatter's
\* row comes after the watermark that the event keeps.  Beside what it emits, a
\* change looks at the events of one kind.
Change(to, told, event, kind) ==
  /\ Top < MaxTracked
  /\ order' = to
  /\ tracked' = IF told THEN Append(tracked, [from |-> order, to |-> to]) ELSE tracked
  /\ saleSequence' = IF event = saleEvents THEN saleSequence ELSE saleSequence + 1
  /\ saleEvents' = event
  /\ synced' = (synced /\ captured)
  /\ Project({e \in event : e.kind = kind \/ e \notin saleEvents}, orderLeads)
  /\ Fresh
  /\ UNCHANGED <<policies, orderLeads>>

NextSequence == Live(saleSequence + 1)
Reported(kind) == saleEvents \cup {SaleEvent(kind, NextSequence, Top + 1, Top, Unreversed)}
Send ==
  /\ order = "draft"
  /\ \E told \in BOOLEAN :
       Change("sent", told,
         IF captured /\ ~Proposed(saleEvents)
         THEN saleEvents \cup {SaleEvent("proposal", NextSequence, NoRow, Top, Unreversed)} ELSE saleEvents,
         IF captured THEN "proposal" ELSE "nothing")
Confirm ==
  /\ order \in {"draft", "sent"}
  /\ Change("sale", TRUE, IF captured THEN Reported("confirmed") ELSE saleEvents, "nothing")

\* A cancellation that has no confirmation to reverse, or two, fails as a
\* whole: the order stays as it is.
Cancel ==
  /\ order \in {"draft", "sent", "sale"}
  /\ captured /\ order = "sale" => Reversible(saleEvents, Top + 1, FALSE)
  /\ Change("cancel", TRUE,
       IF captured /\ order = "sale"
       THEN WithReversal(saleEvents, Top + 1, FALSE, NextSequence, Top + 1, Top) ELSE saleEvents,
       IF captured /\ order = "sale" THEN "confirmed" ELSE "nothing")
Redraft == order = "cancel" /\ Change("draft", TRUE, saleEvents, "nothing")

\* Either policy is switched without the other.
Switch ==
  /\ \/ captured' = ~captured /\ UNCHANGED leadsCaptured
     \/ leadsCaptured' = ~leadsCaptured /\ UNCHANGED captured
  /\ UNCHANGED <<order, tracked, saleSequence, saleEvents, synced, graph>>

\* Mutated form: the import does not stop at the first live event.
EveryRow == Rows

\* --- The import: what the chatter tracked before the first event that capture
\* reported, row by row, then what the order's present state still lacks.
Marks == {e.mark : e \in saleEvents} \ {NoMark}
Historical == IF Marks = {} THEN Rows ELSE {i \in Rows : i <= Min(Marks)}

WithProposal(E, i) ==
  IF Proposed(E) \/ "sent" \notin {tracked[i].from, tracked[i].to} THEN E
  ELSE E \cup {SaleEvent("proposal", Chatter(i), NoRow, NoMark, Unreversed)}
ImportRow(E, i) ==
  LET told == WithProposal(E, i)
  IN  IF Confirms(i) /\ ~Has(told, "confirmed", Chatter(i))
      THEN told \cup {SaleEvent("confirmed", Chatter(i), i, NoMark, Unreversed)}
      ELSE IF Reverses(i) /\ ~Has(told, "cancelled", Chatter(i))
      THEN WithReversal(told, i, TRUE, Chatter(i), i, NoMark)
      ELSE told
ImportedUpTo ==
  LET import[i \in 0..Top] ==
        IF i = 0 THEN saleEvents
        ELSE IF i \in Historical THEN ImportRow(import[i - 1], i) ELSE import[i - 1]
  IN  import
LastReversal == Max({i \in Rows : Reverses(i)} \cup {NoRow})
CurrentState(E) ==
  CASE order = "sent" /\ ~Proposed(E) ->
         E \cup {SaleEvent("proposal", Stamp(Top), NoRow, NoMark, Unreversed)}
    [] order = "sale" -> E \cup EnsureConfirmation(E, Top + 1, FALSE)
    [] order = "cancel" -> E \cup Reversal(OpenConfirmation(E, FALSE), Stamp(Top), LastReversal, NoMark)
    [] OTHER -> E

\* It fails as a whole at a row, or in a state, with the same defect.  It begins
\* by linking the lead that the order may have been given while it was not
\* captured, which fails whoever is about to link that one, and looks at every
\* event.
Backfill(given) ==
  /\ captured
  /\ \A i \in Historical :
       Reverses(i) /\ ~Has(ImportedUpTo[i - 1], "cancelled", Chatter(i)) =>
         Reversible(WithProposal(ImportedUpTo[i - 1], i), i, TRUE)
  /\ order \in {"sale", "cancel"} => ~Ambiguous(ImportedUpTo[Top], FALSE)
  /\ saleEvents' = CurrentState(ImportedUpTo[Top])
  /\ synced' = TRUE
  /\ orderLeads' = orderLeads \cup given
  /\ Project(saleEvents', orderLeads')
  /\ linking' = {o \in linking : o.lead \notin given}
  /\ UNCHANGED <<policies, order, tracked, saleSequence>>

\* --- A lead the order is given later is linked to every event its transaction
\* has seen, under the policy it has seen.
BeginLink(l) ==
  /\ captured /\ linking = {} /\ l \notin orderLeads
  /\ linking' = {[lead |-> l, pairs |-> Pairs(saleEvents, {l}), shown |-> leadsCaptured]}
  /\ UNCHANGED <<policies, order, tracked, saleSequence, saleEvents, synced, orderLeads, projected, hidden>>
Link(o) ==
  /\ o \in linking
  /\ orderLeads' = orderLeads \cup {o.lead}
  /\ Show(o.pairs, o.shown)
  /\ linking' = {}
  /\ UNCHANGED <<policies, order, tracked, saleSequence, saleEvents, synced>>

Next ==
  \/ Send \/ Confirm \/ Cancel \/ Redraft \/ Switch
  \/ \E given \in {{}} \cup {{l} : l \in OrderLeads} : Backfill(given)
  \/ \E l \in OrderLeads : BeginLink(l)
  \/ \E o \in linking : Link(o)

Spec == Init /\ [][Next]_vars

SaleTypeOK ==
  /\ captured \in BOOLEAN /\ leadsCaptured \in BOOLEAN /\ order \in OrderStates /\ Top <= MaxTracked
  /\ \A e \in saleEvents :
       /\ e.kind \in {"proposal", "confirmed", "cancelled"} /\ e.mark \in NoMark..MaxTracked
       /\ e.of \in 0..MaxTracked
  /\ saleSequence \in 0..(MaxTracked + 1)
  /\ orderLeads \subseteq OrderLeads /\ Cardinality(linking) <= 1

\* Whatever was captured live, imported, or both: no confirmation and no
\* cancellation of the order is counted twice, and no confirmation is reversed
\* twice or without having been reported.
SaleCountedOnce ==
  /\ \A e, f \in saleEvents : e.kind = f.kind /\ e.of = f.of /\ e.of /= NoRow => e = f
  /\ \A e, f \in saleEvents : e.kind = "cancelled" /\ f.kind = "cancelled" /\ e.reverses = f.reverses => e = f
  /\ \A e \in saleEvents : e.kind = "cancelled" => Has(saleEvents, "confirmed", e.reverses)
  /\ Cardinality({e \in saleEvents : e.kind = "proposal"}) <= 1

\* An order captured since it was created, or whose history was reconciled
\* since capture was last interrupted, has revenue exactly while it is
\* confirmed: one confirmation that nothing reverses, or none.  What cannot be
\* reconciled is a cancellation made while capture was off after it had begun:
\* it follows the watermark, and only a cancelled order shows it.
CaptureGap ==
  \E i \in Rows \ Historical : Reverses(i) /\ ~\E e \in saleEvents : e.kind = "cancelled" /\ e.of = i
RevenueFollowsOrder ==
  synced /\ ~CaptureGap => Cardinality(OpenOf(saleEvents)) = IF order = "sale" THEN 1 ELSE 0

\* Every lead of the order has every event that was reported live, with its
\* counterpart, but for those it missed while CRM events were not captured and
\* that nothing has looked at since; beside them only an imported one may have
\* been overlooked.
LeadsSeeTheOrder ==
  \A e \in saleEvents, l \in orderLeads : e.mark /= NoMark => <<e.ref, l>> \in projected \cup hidden
==============================================================================
