-------------------------- MODULE MCRecoveryLease --------------------------
(***************************************************************************)
(* Two workers whose clocks differ by one unit, and a lease that outlives  *)
(* an attempt by just that.                                                *)
(***************************************************************************)
EXTENDS RecoveryLease, TLC

CONSTANTS w1, w2

MCWorkers == {w1, w2}
MCOffset == w1 :> 0 @@ w2 :> 1
=============================================================================
