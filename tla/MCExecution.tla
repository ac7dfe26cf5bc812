---------------------------- MODULE MCExecution ----------------------------
(***************************************************************************)
(* Instances of Execution for TLC.  The workers are interchangeable, and   *)
(* what an idle worker remembers is dead.                                  *)
(***************************************************************************)
EXTENDS Execution, TLC

Symmetry == Permutations(Workers)

LiveState ==
    <<row, res, tries, book, placed, faults,
      [w \in Workers |-> IF pc[w] = "idle" THEN <<>> ELSE <<pc[w], job[w], copy[w], seen[w], goal[w]>>]>>
=============================================================================
