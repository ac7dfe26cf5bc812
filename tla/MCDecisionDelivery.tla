------------------------ MODULE MCDecisionDelivery ------------------------
(***************************************************************************)
(* Instances: a batch of intents that cost one unit each, and an account   *)
(* that can pay for one of them.                                           *)
(***************************************************************************)
EXTENDS DecisionDelivery, TLC

CONSTANTS p1, p2

MCProcess == {p1}
MCProcesses == {p1, p2}
MCOneCycle == [i \in Intents |-> 1]
MCUnitCost == [i \in Intents |-> 1]
MCAll == Intents
MCNone == {}
MCSecond == {2}
MCSymmetry == Permutations({p1, p2})
=============================================================================
