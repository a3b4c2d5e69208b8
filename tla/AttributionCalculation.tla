------------------------ MODULE AttributionCalculation ------------------------
(* How the credit and the amount of a business event are split over the       *)
(* touchpoints before it: versioned models, immutable once registered, and    *)
(* calculation runs, known by their reference, that name the candidates they  *)
(* weighed.  A run holds the advisory lock of its reference and only adds     *)
(* rows, so that it takes effect at its snapshot.                             *)
EXTENDS Integers, Sequences, FiniteSets, FiniteSetsExt

\* OccurredAt gives each touchpoint its instant; Candidates are those a producer
\* may name, with the weight that a provider reports; Unit is the whole credit.
CONSTANTS Clicks, OccurredAt, SubjectAt, Subjects, Windows, Candidates, MaxNamed, Unit, MaxRevisions

VARIABLES models, effective, calculation
vars == <<models, effective, calculation>>

Strategies == {"first_touch", "last_touch", "linear", "platform_reported"}
Bases == <<"correlation_only", "deterministic_first_party", "manual_reviewed", "provider_reported">>
\* A run names fewer candidates than the credit has micros, a million.
CalculationConstants ==
  /\ Clicks \subseteq Nat /\ OccurredAt \in [Clicks -> Int] /\ SubjectAt \in Int
  /\ Subjects \subseteq Int /\ Unit \in Nat \ {0} /\ MaxNamed \in 0..Unit
  /\ \A w \in Windows : w.from <= w.to /\ w.to <= SubjectAt
  /\ \A c \in Candidates :
       /\ c.click \in Clicks /\ c.ref \in Int /\ c.weight \in 0..Unit
       /\ \E n \in DOMAIN Bases : c.basis = Bases[n]
       /\ c.basis /= "provider_reported" => c.weight = 0

Nothing == [run |-> FALSE]
Init ==
  /\ models = {}
  /\ effective = Clicks
  /\ calculation = Nothing

\* A journey model accepts first-party evidence, a provider's model its own.
Basis(strategy) ==
  IF strategy = "platform_reported" THEN "provider_reported" ELSE "deterministic_first_party"
Register(strategy) ==
  /\ models = {}
  /\ models' = {[strategy |-> strategy, basis |-> Basis(strategy)]}
  /\ UNCHANGED <<effective, calculation>>

\* A later revision takes the place of a touchpoint; what is calculated already
\* is not looked at again.
Revise(c) ==
  /\ calculation = Nothing
  /\ Cardinality(Clicks \ effective) < MaxRevisions
  /\ effective' = effective \ {c}
  /\ UNCHANGED <<models, calculation>>

\* What a producer may send: each evidence once, in any order.
Payloads ==
  {p \in UNION {[1..n -> Candidates] : n \in 0..MaxNamed} :
     \A i, j \in DOMAIN p : p[i] = p[j] => i = j}

\* --- The candidates of a payload p under model m, window w and the effective
\* touchpoints.  They are taken by touchpoint, then by evidence, then as sent.
BasisRank(b) == CHOOSE n \in DOMAIN Bases : Bases[n] = b
Precedes(a, b) ==
  \/ a.click < b.click
  \/ a.click = b.click /\ BasisRank(a.basis) < BasisRank(b.basis)
  \/ a.click = b.click /\ a.basis = b.basis /\ a.ref < b.ref
SameKey(a, b) == <<a.click, a.basis, a.ref>> = <<b.click, b.basis, b.ref>>
Before(p, i, j) == Precedes(p[i], p[j]) \/ (SameKey(p[i], p[j]) /\ i < j)

Admissible(c, m, w, current) ==
  /\ c.basis = m.basis
  /\ c.click \in current
  /\ OccurredAt[c.click] <= SubjectAt
  /\ OccurredAt[c.click] \in w.from..w.to
CandidateState(c, m, w, current) ==
  IF c.basis = "correlation_only" THEN "excluded_correlation"
  ELSE IF c.basis /= m.basis THEN "excluded_policy"
  ELSE IF c.click \notin current THEN "excluded_stale_revision"
  ELSE IF OccurredAt[c.click] > SubjectAt THEN "excluded_after_subject"
  ELSE IF OccurredAt[c.click] \notin w.from..w.to THEN "excluded_window"
  ELSE "eligible"

\* Only the first evidence of a touchpoint counts.
Prepared(p, m, w, current) ==
  LET state == [i \in DOMAIN p |-> CandidateState(p[i], m, w, current)]
      repeated(i) ==
        \E j \in DOMAIN p : state[j] = "eligible" /\ p[j].click = p[i].click /\ Before(p, j, i)
  IN  [i \in DOMAIN p |->
        IF state[i] = "eligible" /\ repeated(i) THEN "duplicate_touchpoint" ELSE state[i]]
Eligible(prepared) == {i \in DOMAIN prepared : prepared[i] = "eligible"}

\* --- Weights, by time and then by touchpoint.
Sooner(a, b) ==
  \/ OccurredAt[a.click] < OccurredAt[b.click]
  \/ OccurredAt[a.click] = OccurredAt[b.click] /\ a.click < b.click
Position(p, eligible, i) == Cardinality({j \in eligible : Sooner(p[j], p[i])})
Weights(p, m, eligible) ==
  LET count == Cardinality(eligible)
      weight(i) ==
        LET n == Position(p, eligible, i)
        IN  CASE m.strategy = "first_touch" -> IF n = 0 THEN Unit ELSE 0
              [] m.strategy = "last_touch" -> IF n = count - 1 THEN Unit ELSE 0
              [] m.strategy = "linear" -> (Unit \div count) + (IF n < Unit % count THEN 1 ELSE 0)
              [] m.strategy = "platform_reported" -> p[i].weight
  IN  [i \in DOMAIN p |-> IF i \in eligible THEN weight(i) ELSE 0]
TotalOf(values) == MapThenSumSet(LAMBDA i : values[i], DOMAIN values)

\* --- Amounts, in micros: shares towards zero, then what is left, one by one.
Magnitude(amount) == IF amount < 0 THEN -amount ELSE amount
Sign(amount) == IF amount < 0 THEN -1 ELSE 1
Share(amount, weight) == Sign(amount) * ((Magnitude(amount) * weight) \div Unit)
CreditedBy(weights) == {i \in DOMAIN weights : weights[i] > 0}
Allocations(p, amount, weights) ==
  LET credited == CreditedBy(weights)
      count == Cardinality(credited)
      shares == [i \in credited |-> Share(amount, weights[i])]
      rest == amount - TotalOf(shares)
      place(i) == Cardinality({j \in credited : Before(p, j, i)})
      turns(i) == (Magnitude(rest) - place(i) + count - 1) \div count
  IN  [i \in DOMAIN p |->
        IF i \in credited THEN shares[i] + Sign(rest) * turns(i) ELSE 0]

\* --- The run, refused as a whole when what a provider reports is not the whole
\* credit of what is left of it.
Settled(prepared, weights) ==
  [i \in DOMAIN prepared |->
     IF weights[i] > 0 THEN "credited"
     ELSE IF prepared[i] = "eligible" THEN "eligible_not_selected" ELSE prepared[i]]
Outcome(p, m, w, amount, current) ==
  LET prepared == Prepared(p, m, w, current)
      weights == Weights(p, m, Eligible(prepared))
  IN  [run |-> TRUE, model |-> m, window |-> w, amount |-> amount, named |-> p,
       seen |-> current, states |-> Settled(prepared, weights), weights |-> weights,
       amounts |-> Allocations(p, amount, weights)]
Complete(r) ==
  /\ r.model.strategy = "platform_reported"
  /\ \E i \in DOMAIN r.named : r.states[i] \in {"credited", "eligible_not_selected"}
  => TotalOf(r.weights) = Unit
Calculate ==
  /\ calculation = Nothing
  /\ \E m \in models, p \in Payloads, w \in Windows, amount \in Subjects :
       LET r == Outcome(p, m, w, amount, effective)
       IN  Complete(r) /\ calculation' = r
  /\ UNCHANGED <<models, effective>>

Next ==
  \/ \E s \in Strategies : Register(s)
  \/ \E c \in effective : Revise(c)
  \/ Calculate

Spec == Init /\ [][Next]_vars

\* --- Properties.

\* The run weighs every candidate it names.
CalculationTypeOK ==
  /\ effective \subseteq Clicks /\ Cardinality(models) <= 1
  /\ calculation.run =>
       /\ calculation.model \in models
       /\ calculation.weights \in [DOMAIN calculation.named -> 0..Unit]
       /\ calculation.amounts \in [DOMAIN calculation.named -> Int]

Ran(test(_)) == calculation.run => test(calculation)
Winners(r) == {i \in DOMAIN r.named : r.states[i] = "credited"}
Worthy(r) == {c \in Candidates : Admissible(c, r.model, r.window, r.seen)}

\* Nothing is lost or invented by the roundings: the credit given is the whole
\* of it, or none when no candidate is admissible; the amounts add up to the
\* event's, each within one micro of its share and never of the other sign; and
\* no touchpoint is credited twice, whatever evidence of it was named.
CreditIsExact ==
  Ran(LAMBDA r :
    LET named == {r.named[i] : i \in DOMAIN r.named}
    IN  /\ TotalOf(r.weights) = IF named \cap Worthy(r) = {} THEN 0 ELSE Unit
        /\ TotalOf(r.amounts) = IF Winners(r) = {} THEN 0 ELSE r.amount
        /\ \A i \in Winners(r) :
             /\ r.named[i] \in Worthy(r)
             /\ Magnitude(r.amounts[i] * Unit - r.amount * r.weights[i]) <= Unit
             /\ r.amounts[i] * Sign(r.amount) >= 0
        /\ \A i, j \in Winners(r) : r.named[i].click = r.named[j].click => i = j)

\* The models mean what they are called: the first or the last admissible
\* touchpoint has it all, and a linear split gives every admissible touchpoint
\* the same, up to one micro, the earlier never less than the later.
SplitFollowsModel ==
  Ran(LAMBDA r :
    LET worthy == {r.named[i].click : i \in {j \in DOMAIN r.named : r.named[j] \in Worthy(r)}}
        won == {r.named[i].click : i \in Winners(r)}
        times == {OccurredAt[c] : c \in worthy}
    IN  /\ r.model.strategy = "first_touch" => \A c \in won : OccurredAt[c] = Min(times)
        /\ r.model.strategy = "last_touch" => \A c \in won : OccurredAt[c] = Max(times)
        /\ r.model.strategy = "linear" =>
             /\ won = worthy
             /\ \A i, j \in Winners(r) :
                  OccurredAt[r.named[i].click] < OccurredAt[r.named[j].click] =>
                    r.weights[i] - r.weights[j] \in 0..1)

\* The order in which a producer names its evidence decides nothing, unless it
\* names one evidence twice with different weights: each candidate gets what it
\* gets when they are sent in their own order.
OrderIsNothing ==
  Ran(LAMBDA r :
    LET named == r.named
        place(i) == Cardinality({j \in DOMAIN named : Before(named, j, i)}) + 1
        order == [n \in DOMAIN named |-> CHOOSE i \in DOMAIN named : place(i) = n]
        sorted(values) == [n \in DOMAIN named |-> values[order[n]]]
        other == Outcome(sorted(named), r.model, r.window, r.amount, r.seen)
    IN  (\A i, j \in DOMAIN named : SameKey(named[i], named[j]) => i = j) =>
          /\ other.states = sorted(r.states)
          /\ other.weights = sorted(r.weights)
          /\ other.amounts = sorted(r.amounts))
==============================================================================
