------------------------------- MODULE Barrier -------------------------------
(***************************************************************************)
(* What a barrier promises: nobody passes it for the k-th time before      *)
(* everybody has arrived at it for the k-th time, and then everybody       *)
(* passes.                                                                 *)
(***************************************************************************)
EXTENDS Naturals

CONSTANT Ranks

VARIABLES
  arrived,  \* how often each rank has come to the barrier
  passed    \* how often each rank has gone on behind it

vars == <<arrived, passed>>

Init == arrived = [r \in Ranks |-> 0] /\ passed = [r \in Ranks |-> 0]

Arrive(r) ==
  /\ passed[r] = arrived[r]
  /\ arrived' = [arrived EXCEPT ![r] = @ + 1]
  /\ UNCHANGED passed

Pass(r) ==
  /\ passed[r] < arrived[r]
  /\ \A s \in Ranks : passed[r] < arrived[s]
  /\ passed' = [passed EXCEPT ![r] = @ + 1]
  /\ UNCHANGED arrived

Next == \E r \in Ranks : Arrive(r) \/ Pass(r)

SafeSpec == Init /\ [][Next]_vars

Spec == SafeSpec /\ \A r \in Ranks : WF_vars(Pass(r))
=============================================================================
