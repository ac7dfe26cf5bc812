------------------------------- MODULE MCAccount -------------------------------
(* One account around its ledger: the reservations and lots of its orders,    *)
(* the checks an order passes before it is placed, the exits of its positions,*)
(* the commands that move the money of its wallet, the prices that value what *)
(* it held, and the alerts an operator gets.                                  *)
(* The components share no state, so a behaviour moves one of them, chosen at *)
(* the start; the others rest in an initial state.                            *)
EXTENDS MCReservationLedger, PreTrade, PositionExit, WalletJournal, PriceHistory, PipelineMonitor

CONSTANTS d1

VARIABLE part

(* A purchase on each venue and a sale.                                       *)
MCIntents ==
    [o \in {"pmBuy", "ksBuy", "pmSell"} |->
        [venue |-> IF o = "ksBuy" THEN "kalshi" ELSE "polymarket",
         account |-> IF o = "ksBuy" THEN "ks" ELSE "pm",
         side |-> IF o = "pmSell" THEN "SELL" ELSE "BUY", tif |-> "FOK",
         size |-> IF o = "pmBuy" THEN 6 ELSE 8, worst |-> 5, reference |-> 4,
         index |-> 0, token |-> IF o = "ksBuy" THEN "K" ELSE "T", negRisk |-> FALSE]]

Level(price, size) == [price |-> price, size |-> size]

OpenMarket ==
    [found |-> TRUE, token |-> "T", tick |-> 1, age |-> 0, state |-> "OPEN", negRisk |-> FALSE,
     outcomes |-> <<[index |-> 0, token |-> "T"], [index |-> 1, token |-> "U"]>>]

FreshBook(asks, minimum) ==
    [status |-> "OK", bids |-> <<Level(3, 5)>>, asks |-> asks, tick |-> 1, min |-> minimum,
     age |-> 0, sourceAge |-> 0]

MCViews ==
    {[market |-> OpenMarket, book |-> FreshBook(<<Level(4, 3), Level(5, 4), Level(6, 9)>>, 4)],
     [market |-> OpenMarket, book |-> FreshBook(<<Level(5, 10)>>, 4)],
     [market |-> OpenMarket, book |-> FreshBook(<<Level(4, 4), Level(6, 2)>>, 0)],
     [market |-> [OpenMarket EXCEPT !.state = "CLOSED"],
      book |-> [FreshBook(<<Level(6, 4)>>, 0) EXCEPT !.sourceAge = 3]],
     [market |-> OpenMarket, book |-> [FreshBook(<<>>, 0) EXCEPT !.status = "EMPTY"]]}

(* One lot in each of two accounts.                                           *)
MCLotAccount == [l \in {"x", "y"} |-> IF l = "x" THEN "a1" ELSE "a2"]
MCAccountOrder == <<"a1", "a2">>
MCAnswers ==
    {[market |-> "OPEN", book |-> "OK", history |-> "OK"],
     [market |-> "OPEN", book |-> "ABSENT", history |-> "OK"]}

(* Two accounts that hold the asset for a while.                              *)
MCHeldLots ==
    {[account |-> "a", open |-> 2, shares |-> 2, flows |-> {[at |-> 5, shares |-> 1]}],
     [account |-> "b", open |-> 3, shares |-> 1, flows |-> {[at |-> 4, shares |-> 1]}]}

TradesAt(ticks) == [t \in Ticks |-> IF t \in ticks THEN t + 1 ELSE 0]

Quiet == [trades |-> TradesAt({1}), kalshi |-> TRUE, book |-> FALSE, quiet |-> FALSE,
          coarse |-> FALSE, settles |-> Horizon + 1, pays |-> 99, mid |-> 50]

(* Kalshi: no trade after the first, one in a gap, candles for quiet hours, a *)
(* book without trades and a settlement.  Polymarket: points for every trade, *)
(* and only coarse ones with a settlement.                                    *)
MCMarkets ==
    {Quiet,
     [Quiet EXCEPT !.trades = TradesAt({1, 5})],
     [Quiet EXCEPT !.trades = TradesAt({1, 5}), !.quiet = TRUE],
     [Quiet EXCEPT !.trades = TradesAt({5}), !.book = TRUE, !.settles = 6],
     [Quiet EXCEPT !.trades = TradesAt({1, 3, 6}), !.kalshi = FALSE],
     [Quiet EXCEPT !.kalshi = FALSE, !.coarse = TRUE, !.settles = 5]}

(* The processes of the wallet commands are also the exit jobs and the price  *)
(* workers.                                                                   *)
MCSym == Permutations(Processes)

Only(name) == part = name /\ UNCHANGED part

AccountInit ==
    /\ part \in {"ledger", "checks", "exit", "wallet", "prices", "monitor"}
    /\ Init /\ PreTradeInit /\ ExitInit /\ WalletInit /\ HistoryInit /\ MonitorInit
    /\ part # "checks" => stops = {}
    /\ part # "wallet" => tool = "fund"
    /\ part # "prices" => market = Quiet

AccountNext ==
    \/ Only("ledger") /\ UNCHANGED <<preTradeVars, exitVars, walletVars, historyVars, monitorVars>> /\ Next
    \/ Only("checks") /\ UNCHANGED <<vars, exitVars, walletVars, historyVars, monitorVars>> /\ PreTradeNext
    \/ Only("exit") /\ UNCHANGED <<vars, preTradeVars, walletVars, historyVars, monitorVars>> /\ ExitNext
    \/ Only("wallet") /\ UNCHANGED <<vars, preTradeVars, exitVars, historyVars, monitorVars>> /\ WalletNext
    \/ Only("prices") /\ UNCHANGED <<vars, preTradeVars, exitVars, walletVars, monitorVars>> /\ HistoryNext
    \/ Only("monitor") /\ UNCHANGED <<vars, preTradeVars, exitVars, walletVars, historyVars>> /\ MonitorNext

(* What rests need not be told apart.                                         *)
MCView ==
    CASE part = "ledger"  -> <<part, vars>>
      [] part = "checks"  -> <<part, preTradeVars>>
      [] part = "exit"    -> <<part, exitVars>>
      [] part = "wallet"  -> <<part, walletVars>>
      [] part = "prices"  -> <<part, historyVars>>
      [] part = "monitor" -> <<part, monitorVars>>

accountVars == <<part, vars, preTradeVars, exitVars, walletVars, historyVars, monitorVars>>

AccountSpec == AccountInit /\ [][AccountNext]_accountVars

-----------------------------------------------------------------------------
(* The ledger's own rows, checked where they move.                            *)

\* The rows of the ledger explain each other whatever was redelivered, late or
\* released in between: every row meets its CHECKs, the reserved amounts are
\* the sums of the holds, the lots add up to the positions, the cash moved by
\* the confirmed trades alone, and a trade its hold was made for can be booked
\* (Record, Reconcile, reconcileReservationTx).
LedgerExplained ==
    part = "ledger" =>
        /\ TypeOK /\ HoldsExplainReserved /\ LotsExplainShares /\ CashExplained
        /\ ProtectedFillApplies
================================================================================
