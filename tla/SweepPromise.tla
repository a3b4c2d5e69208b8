---------------------------- MODULE SweepPromise ----------------------------
(***************************************************************************)
(* What the synchronization of one scope promises: at most one run is      *)
(* active, it moves forward over the provider's pages, and a run that is   *)
(* over neither starts again nor moves.                                    *)
(***************************************************************************)
EXTENDS Naturals

CONSTANTS Runs, LastPage, Batch

VARIABLES phase, progress

vars == <<phase, progress>>

Init == phase = [r \in Runs |-> "unborn"] /\ progress = [r \in Runs |-> 0]

Begin(r) ==
  /\ phase[r] = "unborn" /\ \A s \in Runs : phase[s] # "active"
  /\ phase' = [phase EXCEPT ![r] = "active"]
  /\ UNCHANGED progress

\* The run that applies the last page is over with it.
Read(r) ==
  /\ phase[r] = "active"
  /\ \E n \in 1..Batch :
       /\ progress[r] + n <= LastPage
       /\ progress' = [progress EXCEPT ![r] = @ + n]
       /\ phase' = IF progress[r] + n = LastPage
                    THEN [phase EXCEPT ![r] = "over"] ELSE phase

End(r) ==
  /\ phase[r] = "active"
  /\ phase' = [phase EXCEPT ![r] = "over"]
  /\ UNCHANGED progress

Next == \E r \in Runs : Begin(r) \/ Read(r) \/ End(r)

Spec == Init /\ [][Next]_vars
=============================================================================
