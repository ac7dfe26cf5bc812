------------------------------ MODULE OneShotPlan ------------------------------
(* What a journaled wallet command promises: the payments of a fixed plan are  *)
(* made one at a time, in the order of the plan, and none of them twice.       *)
EXTENDS Naturals

CONSTANT PlanLength

VARIABLE paid      \* how often each payment of the plan was made

PlanInit == paid = [i \in 1..PlanLength |-> 0]

Pay(i) ==
    /\ paid[i] = 0
    /\ \A k \in i..PlanLength : paid[k] = 0
    /\ paid' = [paid EXCEPT ![i] = 1]

PlanNext == \E i \in 1..PlanLength : Pay(i)

PlanSpec == PlanInit /\ [][PlanNext]_paid
================================================================================
