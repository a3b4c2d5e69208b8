--------------------------- MODULE AccountLedger ---------------------------
(***************************************************************************)
(* marketing_center_account over the ledger of marketing_center_base: the  *)
(* posting, unposting and backfill of customer invoices and credit notes,  *)
(* and the allocations of payments to invoices, each with the append-only  *)
(* events it leaves behind.                                                *)
(*                                                                         *)
(* A transaction reads one snapshot (REPEATABLE READ): Begin takes it, the *)
(* action that ends it decides on it.  The rows a transaction locks are    *)
(* current when it ends: PostgreSQL refuses the lock if somebody else has  *)
(* written the row since, so Commit ends every transaction that locks a    *)
(* row it writes.  The events have no row to lock, hence a transaction     *)
(* keeps the ledger of its snapshot.  Draft and cancelled documents are    *)
(* one state; there is one currency and one company.                       *)
(***************************************************************************)
EXTENDS Integers, FiniteSets, FiniteSetsExt

CONSTANTS Invoices, Credits, Partials, Workers,
          Target,        \* the invoice a credit note reverses: reversed_entry_id
          Settles,       \* the invoice a partial allocates a payment to
          Amounts,       \* the untaxed amounts each document may have
          MaxPostings,   \* bound on the postings of each document
          Idle, None

ASSUME LedgerDocuments ==
  /\ Invoices \cap Credits = {} /\ Partials \cap (Invoices \cup Credits) = {}
  /\ Target \in [Credits -> Invoices] /\ Settles \in [Partials -> Invoices]
  /\ Amounts \in [Invoices \cup Credits -> SUBSET (Nat \ {0})]
  /\ MaxPostings \in [Invoices \cup Credits -> Nat \ {0}]

VARIABLES doc, alloc, ledger, enabled, tx,
          paused         \* history: capture was off at some time

ledgerVars == <<doc, alloc, ledger, enabled, tx, paused>>

Moves == Invoices \cup Credits
Key(e) == <<e.kind, e.on, e.n>>  \* business_event_key
Keys(events) == {Key(e) : e \in events}
Signed(m, amount) == IF m \in Credits THEN -amount ELSE amount

Posting(m, n, amount, of) ==
  [kind |-> "posting", on |-> m, n |-> n, amount |-> amount, of |-> of]
Allocation(p) == Posting(p, 1, 1, None)

\* Mutated form: the counterevent repeats the amount.
Repeated(e) == [e EXCEPT !.kind = "reversal", !.of = Key(e)]
\* _emit_move_posting_reversal, _emit_allocation_event: the exact counterevent.
Reversal(e) == [e EXCEPT !.kind = "reversal", !.amount = -@, !.of = Key(e)]

Init ==
  \* Documents may have been posted before the addon kept a ledger.
  /\ doc \in [Moves -> [state : {"draft", "posted"}, amount : UNION {Amounts[m] : m \in Moves},
                       seq : {0}]]
  /\ \A m \in Moves : doc[m].amount \in Amounts[m]
  /\ alloc \in [Partials -> {"absent", "live"}]
  /\ \A p \in Partials : alloc[p] = "live" => doc[Settles[p]].state = "posted"
  /\ ledger = {} /\ enabled = TRUE /\ paused = FALSE
  /\ tx = [w \in Workers |-> Idle]

-----------------------------------------------------------------------------
(* The ledger as a transaction sees it.  s is what it has done so far: the *)
(* rows and its snapshot of the events with its own events added.          *)

\* _active_posting_events
Active(events, S) ==
  {e \in S : \A r \in events : r.kind = "reversal" => r.of # Key(e)}
ActiveOn(events, m) ==
  Active(events, {e \in events : e.kind = "posting" /\ e.on = m})
Latest(events) == CHOOSE e \in events : \A f \in events : f.n <= e.n

Sum(events) == MapThenSumSet(LAMBDA e : e.amount, events)

\* Every credit that still stands against invoice i, linked or independent.
Credited(events, i) ==
  -Sum(UNION {ActiveOn(events, c) : c \in {c \in Credits : Target[c] = i}})
\* _active_credit_amount_micros: those linked to one posting.
CreditedTo(events, posting) ==
  -Sum(Active(events, {e \in events : e.kind = "posting" /\ e.of = Key(posting)}))

Append(s, m, of) ==
  LET n == s.doc[m].seq + 1
  IN  [s EXCEPT !.doc[m].seq = n,
                !.ledger = @ \cup {Posting(m, n, Signed(m, s.doc[m].amount), of)}]

EnsureInvoice(s, i) ==
  IF ActiveOn(s.ledger, i) = {} THEN Append(s, i, None) ELSE s

\* Mutated form: the credit is linked whatever has been credited already.
TargetUncapped(s, c) == Key(Latest(ActiveOn(s.ledger, Target[c])))
\* _credit_reversal_target, once the invoice has its event: a credit beyond the
\* active invoice amount stays independent.
CreditTarget(s, c) ==
  LET posting == Latest(ActiveOn(s.ledger, Target[c]))
  IN  IF Credited(s.ledger, Target[c]) + s.doc[c].amount <= posting.amount
        THEN Key(posting) ELSE None

\* _emit_move_event with the next sequence
Emit(s, m) ==
  IF m \in Invoices THEN Append(s, m, None)
  ELSE IF s.doc[Target[m]].state # "posted" THEN Append(s, m, None)
  ELSE LET t == EnsureInvoice(s, Target[m]) IN Append(t, m, CreditTarget(t, m))

\* _ensure_move_event
Ensure(s, m) == IF ActiveOn(s.ledger, m) = {} THEN Emit(s, m) ELSE s

\* _ensure_allocation_event, then _emit_allocation_reversal
Release(s, P) ==
  [s EXCEPT !.ledger = @ \cup {Allocation(p) : p \in P}
                         \cup {Reversal(Allocation(p)) : p \in P}]

LiveOn(i) == {p \in Partials : Settles[p] = i /\ alloc[p] = "live"}

-----------------------------------------------------------------------------
(* What a transaction does, from its snapshot of events and the rows.      *)

Start(t) == [doc |-> doc, alloc |-> alloc, ledger |-> t.ledger]

\* _post: native posting, then the event of the next sequence
Posted(t) ==
  LET s == [Start(t) EXCEPT !.doc[t.on].state = "posted"]
  IN  IF t.enabled THEN Emit(s, t.on) ELSE s

\* Mutated form: only the postings of invoices are annulled.
AnnulledInvoice(events, m) ==
  IF m \in Credits THEN {} ELSE {Reversal(Latest(ActiveOn(events, m)))}
\* _emit_move_posting_reversal
Annulled(events, m) == {Reversal(Latest(ActiveOn(events, m)))}

\* write to draft or cancel: resetting an invoice removes its allocations, the
\* posting is captured before the native write and annulled after it.
Unposted(t) ==
  LET P == LiveOn(t.on)
      s == [Start(t) EXCEPT !.alloc = [p \in Partials |-> IF p \in P THEN "removed" ELSE @[p]]]
      e == Ensure(Release(s, P), t.on)
  IN  IF t.enabled
        THEN [e EXCEPT !.doc[t.on].state = "draft",
                       !.ledger = @ \cup Annulled(@, t.on)]
        ELSE [s EXCEPT !.doc[t.on].state = "draft"]

Allocated(t) ==
  LET s == [Start(t) EXCEPT !.alloc[t.on] = "live"]
  IN  IF t.enabled THEN [s EXCEPT !.ledger = @ \cup {Allocation(t.on)}] ELSE s

\* Mutated form: the counterevent of an allocation is forgotten.
ReleasedQuietly(t) == [Start(t) EXCEPT !.alloc[t.on] = "removed"]
\* unlink of a partial: its pair of events is completed, then the row goes.
Released(t) ==
  LET s == [Start(t) EXCEPT !.alloc[t.on] = "removed"]
  IN  IF t.enabled THEN Release(s, {t.on}) ELSE s

Outcome(t) ==
  CASE t.op = "post" -> Posted(t)
    [] t.op = "unpost" -> Unposted(t)
    [] t.op = "backfill" -> Ensure(Start(t), t.on)
    [] t.op = "allocate" -> Allocated(t)
    [] t.op = "release" -> Released(t)
    [] t.op = "backfill_allocation" ->
         [Start(t) EXCEPT !.ledger = @ \cup {Allocation(t.on)}]

-----------------------------------------------------------------------------
(* Transactions.                                                           *)

\* _marketing_account_lock_event_state: a credit note and its source document
\* share one lock scope.
Scope(m) == {m} \cup IF m \in Credits THEN {Target[m]} ELSE {}

Locks(t) ==
  CASE t.on \in Partials -> {t.on, Settles[t.on]}
    [] t.on \in Moves -> (IF t.enabled THEN Scope(t.on) ELSE {t.on})
                          \cup IF t.op = "unpost" THEN LiveOn(t.on) ELSE {}

\* Mutated form: the source document is locked and not updated.
WrittenOwn(t) ==
  IF t.op = "backfill_allocation" THEN {t.on} ELSE Locks(t) \ {Target[c] : c \in Credits \cap {t.on}}
\* The update of write_date writes the whole scope; a backfill of an allocation
\* writes its claim, a native reconciliation the invoice too.
Written(t) == IF t.op = "backfill_allocation" THEN {t.on} ELSE Locks(t)

\* Everybody who has to lock one of the rows is refused it.
Conflicting(rows) == {w \in Workers : tx[w] # Idle /\ Locks(tx[w]) \cap rows # {}}
End(ended) == tx' = [w \in Workers |-> IF w \in ended THEN Idle ELSE tx[w]]

\* _reversed_event and the unique indexes of the ledger, which see every
\* committed event.
Accepts(t) ==
  LET new == Outcome(t).ledger \ t.ledger
      Before(e) == t.ledger \cup (new \ {e})
      Capped(e) ==
        \E posting \in Active(Before(e), Before(e)) :
           /\ Key(posting) = e.of
           /\ CreditedTo(Before(e), posting) - e.amount <= posting.amount
  IN  /\ Keys(new) \cap Keys(ledger) = {}
      /\ \A e \in new : e.kind = "posting" /\ e.of # None => Capped(e)

Ready(op, on) ==
  CASE op = "post" -> on \in Moves /\ doc[on].state = "draft" /\ doc[on].seq < MaxPostings[on]
    [] op = "unpost" -> on \in Moves /\ doc[on].state = "posted"
    \* A backfill that finds the active event changes nothing.
    [] op = "backfill" -> /\ on \in Moves /\ doc[on].state = "posted" /\ enabled
                          /\ ActiveOn(ledger, on) = {}
    [] op = "allocate" -> /\ on \in Partials /\ alloc[on] = "absent"
                          /\ doc[Settles[on]].state = "posted"
    [] op = "release" -> on \in Partials /\ alloc[on] = "live"
    [] op = "backfill_allocation" -> /\ on \in Partials /\ alloc[on] = "live" /\ enabled
                                     /\ Allocation(on) \notin ledger

Operations == {"post", "unpost", "backfill", "allocate", "release",
               "backfill_allocation"}

\* The events a transaction looks for, of all it could see.
Searched(on) ==
  IF on \in Partials THEN {on}
  ELSE IF on \in Credits THEN {Target[on]} \cup {c \in Credits : Target[c] = Target[on]}
  ELSE {on} \cup {p \in Partials : Settles[p] = on}

Begin(w, op, on) ==
  /\ tx[w] = Idle /\ Ready(op, on)
  /\ tx' = [tx EXCEPT ![w] = [op |-> op, on |-> on, enabled |-> enabled,
                              ledger |-> {e \in ledger : e.on \in Searched(on)}]]
  /\ UNCHANGED <<doc, alloc, ledger, enabled, paused>>

Commit(w) ==
  LET out == Outcome(tx[w])
  IN  /\ Accepts(tx[w])
      /\ doc' = out.doc /\ alloc' = out.alloc /\ ledger' = ledger \cup out.ledger
      /\ End({w} \cup Conflicting(Written(tx[w])))
      /\ UNCHANGED <<enabled, paused>>

Ends(w, op) == tx[w] # Idle /\ tx[w].op = op /\ Commit(w)

Post(w) == Ends(w, "post")
Unpost(w) == Ends(w, "unpost")
BackfillMove(w) == Ends(w, "backfill")
Allocate(w) == Ends(w, "allocate")
RemoveAllocation(w) == Ends(w, "release")
BackfillAllocation(w) == Ends(w, "backfill_allocation")

\* A native refusal, an exception or a crash: everything is rolled back.
Abort(w) ==
  /\ tx[w] # Idle /\ End({w})
  /\ UNCHANGED <<doc, alloc, ledger, enabled, paused>>

EditDraft(m, amount) ==
  /\ doc[m].state = "draft" /\ doc[m].amount # amount
  /\ doc' = [doc EXCEPT ![m].amount = amount] /\ End(Conflicting({m}))
  /\ UNCHANGED <<alloc, ledger, enabled, paused>>

\* marketing_business_events_enabled, read from the snapshot by everybody; it
\* is switched off and on once.
SwitchCapture ==
  /\ paused => ~enabled
  /\ enabled' = ~enabled /\ paused' = TRUE
  /\ UNCHANGED <<doc, alloc, ledger, tx>>

Next ==
  \/ \E w \in Workers :
       \/ \E op \in Operations, on \in Moves \cup Partials : Begin(w, op, on)
       \/ Post(w) \/ Unpost(w) \/ BackfillMove(w)
       \/ Allocate(w) \/ RemoveAllocation(w) \/ BackfillAllocation(w)
       \/ Abort(w)
  \/ \E m \in Moves : \E a \in Amounts[m] : EditDraft(m, a)
  \/ SwitchCapture

Spec == Init /\ [][Next]_ledgerVars

-----------------------------------------------------------------------------
(* Properties.                                                             *)

\* A posting carries the sign of its document, its counterevent the opposite.
LedgerTypeOK ==
  /\ doc \in [Moves -> [state : {"draft", "posted"}, amount : Nat, seq : Nat]]
  /\ \A m \in Moves : doc[m].amount \in Amounts[m] /\ doc[m].seq <= MaxPostings[m]
  /\ alloc \in [Partials -> {"absent", "live", "removed"}]
  /\ \A e \in ledger :
       /\ e.kind \in {"posting", "reversal"} /\ e.on \in Moves \cup Partials
       /\ e.n \in 1..IF e.on \in Moves THEN doc[e.on].seq ELSE 1
       /\ (e.amount < 0) = ((e.on \in Credits) # (e.kind = "reversal"))
       /\ e.kind = "reversal" => e.of = <<"posting", e.on, e.n>>
  /\ enabled \in BOOLEAN /\ paused \in BOOLEAN

\* While capture was never off, a document that has moved has exactly the events
\* that say so: one active posting of its amount if it is posted, none if not
\* (account_move.py: _post, write, _ensure_move_event).
BooksFollowDocuments ==
  ~paused =>
    \A m \in Moves :
      LET active == ActiveOn(ledger, m)
      IN  /\ Cardinality(active) <= 1
          /\ \A e \in active : doc[m].state = "posted" /\ e.amount = Signed(m, doc[m].amount)
          /\ doc[m].state = "posted" /\ doc[m].seq > 0 => active # {}

\* While capture was never off, an allocation that was removed has left its pair
\* of events, and one that stands has not been reversed, in whatever order
\* posting, reset, removal and backfill came (account_partial_reconcile.py: unlink).
AllocationsBalance ==
  ~paused =>
    \A p \in Partials :
      /\ alloc[p] = "removed" => {Allocation(p), Reversal(Allocation(p))} \subseteq ledger
      /\ alloc[p] # "removed" => Reversal(Allocation(p)) \notin ledger

\* A credit is only linked to a posting that can bear it together with every
\* credit that stands against the same invoice, those of earlier postings and
\* independent ones included, however credits were posted concurrently
\* (service.py: _credit_reversal_target).
LinkedCreditFits ==
  [][\A e \in ledger' \ ledger :
       e.kind = "posting" /\ e.of # None =>
         \E posting \in ledger' :
           /\ Key(posting) = e.of
           /\ Credited(ledger', Target[e.on]) <= posting.amount]_ledgerVars

\* No posting, reset, reconciliation or backfill is refused by the ledger: what
\* the addon checks under its locks is enough for the checks and the unique
\* indexes of the ledger (business_event_service.py: _reversed_event).
NeverRefused == \A w \in Workers : tx[w] # Idle => Accepts(tx[w])
=============================================================================
