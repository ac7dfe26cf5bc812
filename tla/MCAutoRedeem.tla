---------------------------- MODULE MCAutoRedeem ----------------------------
(***************************************************************************)
(* Conditions of one wallet.  The first one won, so a second redemption of *)
(* it pays nothing where one share is due; the other one lost.             *)
(***************************************************************************)
EXTENDS AutoRedeem, TLC

CONSTANTS c1, c2, a1, s1

MCOne == {c1}
MCTwo == {c1, c2}
MCWallets == {a1}
MCWalletOf == [c \in Conditions |-> a1]
MCDue == [c \in Conditions |-> IF c = c1 THEN 1 ELSE 0]
MCSweeper == {s1}
MCNone == {}
=============================================================================
