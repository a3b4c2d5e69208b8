--------------------------- MODULE OnceOnlyEffect ---------------------------
(***************************************************************************)
(* What the dispatch ledger promises about one (item, consumer) pair: the  *)
(* consumer's effect becomes durable at most once, exactly when the ledger *)
(* says "done"; the ledger may instead settle without an effect, and only  *)
(* such an outcome may be opened again.  Nothing is said of jobs, retries, *)
(* duplicates or crashes: they must not be visible.                        *)
(***************************************************************************)
EXTENDS Naturals

\* Outcomes without an effect.
Refusals == {"stale", "unrouted", "dead"}

VARIABLES status, effects

Init == status = "open" /\ effects = 0

Deliver ==
  /\ status = "open"
  /\ status' = "done" /\ effects' = effects + 1

Refuse ==
  /\ status = "open"
  /\ status' \in Refusals /\ UNCHANGED effects

Reopen ==
  /\ status \in Refusals
  /\ status' = "open" /\ UNCHANGED effects

Next == Deliver \/ Refuse \/ Reopen

Spec == Init /\ [][Next]_<<status, effects>>
=============================================================================
