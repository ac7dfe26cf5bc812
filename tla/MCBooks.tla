-------------------------------- MODULE MCBooks --------------------------------
(* What is booked and compared from evidence that arrives late or twice:      *)
(* redemptions, the chain evidence of a fill, the books of a Kalshi account,  *)
(* the start that opens accounts over the books, and the clocks and queues of *)
(* its runs.                                                                  *)
(* The components share no state, so a behaviour moves one of them, chosen at *)
(* the start; the others rest in an initial state.                            *)
EXTENDS MCAutoRedeem, FillEvidence, KalshiBooks, LiveStartup, AccountSchedule

CONSTANTS YES, NO, w1, k1, g1, g2

VARIABLE part

\* A taker row, a maker row of this account, and a maker row of another owner.
MCWireRows ==
    {[side |-> "TAKER", top |-> TRUE, taker |-> "ours", makers |-> {}],
     [side |-> "MAKER", top |-> FALSE, taker |-> "theirs",
      makers |-> {[order |-> "ours", own |-> TRUE], [order |-> "theirs2", own |-> FALSE]}],
     [side |-> "", top |-> TRUE, taker |-> "theirs", makers |-> {[order |-> "ours", own |-> FALSE]}]}

MCSides == {YES, NO}

MCRouteStrategy == (k1 :> g1)
MCLegacy == (k1 :> w1)

MCSym == Permutations(MCSides)

Only(name) == part = name /\ UNCHANGED part

BooksInit ==
    /\ part \in {"redeem", "evidence", "kalshi", "startup", "schedule"}
    /\ Init /\ EvidenceInit /\ KalshiInit /\ StartupInit /\ ScheduleInit
    /\ part # "redeem" => \A a \in Wallets : approved[a]
    /\ part # "evidence" => wireRow.side = "TAKER"
    /\ kbook.exists    \* the account is known; a transfer has moved its exchange cash
    /\ part # "startup" => account = {}

BooksNext ==
    \/ /\ Only("redeem") /\ UNCHANGED <<evidenceVars, kalshiVars, startupVars, scheduleVars>>
       /\ Next
    \/ /\ Only("evidence") /\ UNCHANGED <<vars, kalshiVars, startupVars, scheduleVars>>
       /\ EvidenceNext
    \/ /\ Only("kalshi") /\ UNCHANGED <<vars, evidenceVars, startupVars, scheduleVars>>
       /\ KalshiNext
    \/ /\ Only("startup") /\ UNCHANGED <<vars, evidenceVars, kalshiVars, scheduleVars>>
       /\ StartupNext
    \/ /\ Only("schedule") /\ UNCHANGED <<vars, evidenceVars, kalshiVars, startupVars>>
       /\ ScheduleNext

(* What rests need not be told apart.                                         *)
MCView ==
    CASE part = "redeem"   -> <<part, vars>>
      [] part = "evidence" -> <<part, evidenceVars>>
      [] part = "kalshi"   -> <<part, kalshiVars>>
      [] part = "startup"  -> <<part, startupVars>>
      [] part = "schedule" -> <<part, scheduleVars>>

booksVars == <<part, vars, evidenceVars, kalshiVars, startupVars, scheduleVars>>

BooksSpec == BooksInit /\ [][BooksNext]_booksVars
================================================================================
