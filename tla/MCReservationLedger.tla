------------------------ MODULE MCReservationLedger ------------------------
(***************************************************************************)
(* A small account: two BUYs of one token that compete for it, and a SELL  *)
(* of the lot the first trade opens.                                       *)
(***************************************************************************)
EXTENDS ReservationLedger, TLC

CONSTANTS o1, o2, o3, yes, l1, f1, f2, f3

MCOrders == {o1, o2, o3}
MCBuys == {o1, o2}
MCTokens == {yes}
MCLots == {l1}
MCFills == {f1, f2, f3}
MCReported == {"MATCHED", "FAILED"}

Buy(size, unit, immediate) ==
    [side |-> "BUY", token |-> yes, lot |-> l1, size |-> size, unit |-> unit, worst |-> unit - 1,
     immediate |-> immediate, improves |-> TRUE]
Sell(size, l) ==
    [side |-> "SELL", token |-> yes, lot |-> l, size |-> size, unit |-> 1, worst |-> 1,
     immediate |-> FALSE, improves |-> FALSE]
Fill(o, shares, gross, fee) == [order |-> o, shares |-> shares, gross |-> gross, fee |-> fee]

\* Two BUYs, the first one immediate, and a SELL of the lot of trade f1.
TwoBuysAndSell == o1 :> Buy(3, 5, TRUE) @@ o2 :> Buy(2, 5, FALSE) @@ o3 :> Sell(2, f1)

\* Every trade of an order at one price: averages are exact.  The second trade
\* of the first BUY brings more shares than asked for.
EvenTrades == f1 :> Fill(o1, 2, 6, 1) @@ f2 :> Fill(o1, 2, 6, 1) @@ f3 :> Fill(o3, 1, 3, 1)

\* Two prices: the average of the first two trades has no last digit.
LargeBuy == o1 :> Buy(4, 5, FALSE) @@ o2 :> Buy(2, 5, TRUE)
UnevenTrades == f1 :> Fill(o1, 1, 4, 0) @@ f2 :> Fill(o1, 2, 6, 0) @@ f3 :> Fill(o2, 1, 4, 1)

MCCash == 25
MCInitialLot == l1 :> 1
MCLotToken == l1 :> yes
MCInitialShares == yes :> 1
=============================================================================
