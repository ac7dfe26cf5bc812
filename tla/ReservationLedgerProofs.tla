----------------------- MODULE ReservationLedgerProofs -----------------------
(***************************************************************************)
(* The ledger's rows keep the checks of the schema, every hold covers      *)
(* exactly the unfilled remainder of its order, and no two holds compete,  *)
(* for any set of orders, lots, tokens and trades.                         *)
(***************************************************************************)
EXTENDS ReservationLedger, TLAPS

ReservationStatuses == HeldStatuses \cup {"NONE", "RELEASED", "SETTLED"}

\* The constants an order and a trade bring with them.
LEMMA IntentFacts ==
    ASSUME NEW o \in Orders
    PROVE  /\ Intent[o].side \in Sides /\ Intent[o].token \in Tokens /\ Intent[o].lot \in AllLots
           /\ Intent[o].size \in Nat /\ Intent[o].size > 0
           /\ Intent[o].unit \in Nat /\ Intent[o].unit > 0
  BY LedgerConstants

LEMMA TradeFacts ==
    ASSUME NEW f \in Fills
    PROVE  /\ Trade[f].order \in Orders
           /\ Trade[f].shares \in Nat /\ Trade[f].shares > 0
           /\ Trade[f].gross \in Nat /\ Trade[f].gross > 0 /\ Trade[f].fee \in Nat
  BY LedgerConstants

LEMMA ProductType ==
    ASSUME NEW a \in Nat, NEW b \in Nat
    PROVE  a * b \in Nat
  OBVIOUS

\* The average price of a filled order is a natural number.
LEMMA QuotientType ==
    ASSUME NEW a \in Nat, NEW b \in Nat, b > 0
    PROVE  Quotient(a, b) \in Nat
  BY DEF Quotient

\* What a remainder freezes.
LEMMA CollateralType ==
    ASSUME NEW o \in Orders, NEW n \in Nat
    PROVE  Collateral(o, n) \in Nat /\ Collateral(o, 0) = 0
  BY IntentFacts, ProductType DEF Collateral

LEMMA UnfilledType ==
    ASSUME NEW o \in Orders, NEW n \in Nat
    PROVE  /\ Unfilled(o, n) \in Nat /\ Unfilled(o, n) <= Intent[o].size
           /\ n < Intent[o].size => Unfilled(o, n) = Intent[o].size - n
  BY IntentFacts DEF Unfilled

LEMMA TypeInit == Init => TypeOK
  <1> SUFFICES ASSUME Init PROVE TypeOK
    OBVIOUS
  <1>1. order \in [Orders -> OrderRow]
    BY DEF Init, OrderRow, OrderStatuses, PreSubmit
  <1>2. res \in [Orders -> ReservationRow]
    BY DEF Init, ReservationRow, NoReservation
  <1>3. cash \in BalanceRow
    BY LedgerConstants DEF Init, BalanceRow
  <1>4. position \in [Tokens -> BalanceRow]
    BY LedgerConstants DEF Init, BalanceRow
  <1>5. lot \in [AllLots -> Nat]
    BY LedgerConstants DEF Init, AllLots
  <1>6. fill \in [Fills -> [status : FillStatuses \cup {"NONE"}, applied : BOOLEAN]]
    BY Zenon DEF Init
  <1>7. dead \in [Orders -> SUBSET [filled : Nat, average : Nat]]
    BY DEF Init
  <1>8. QED
    BY <1>1, <1>2, <1>3, <1>4, <1>5, <1>6, <1>7 DEF TypeOK

\* The rows one by one.
LEMMA RowFacts ==
    ASSUME TypeOK
    PROVE  /\ \A o \in Orders : order[o] \in OrderRow /\ res[o] \in ReservationRow
           /\ cash.total \in Nat /\ cash.available \in Nat /\ cash.reserved \in Nat
           /\ cash.total = cash.available + cash.reserved
           /\ \A t \in Tokens : position[t] \in BalanceRow
           /\ \A t \in Tokens : /\ position[t].total \in Nat /\ position[t].available \in Nat
                                  /\ position[t].reserved \in Nat
                                  /\ position[t].total = position[t].available + position[t].reserved
           /\ \A l \in AllLots : lot[l] \in Nat
  BY DEF TypeOK, BalanceRow

\* Freezing what is available and gaining something keep the schema's identity.
LEMMA FreezeType ==
    ASSUME NEW r \in BalanceRow, NEW n \in Nat, n <= r.available
    PROVE  Freeze(r, n) \in BalanceRow
  BY DEF Freeze, BalanceRow

LEMMA GainType ==
    ASSUME NEW r \in BalanceRow, NEW n \in Nat
    PROVE  Gain(r, n) \in BalanceRow
  BY DEF Gain, BalanceRow

LEMMA ReserveType ==
    ASSUME TypeOK, NEW o \in Orders, Reserve(o)
    PROVE  TypeOK'
  <1> DEFINE amount == Collateral(o, Intent[o].size)
             shares == IF Buys(o) THEN 0 ELSE Intent[o].size
             token == Intent[o].token
  <1>1. /\ amount \in Nat /\ shares \in Nat /\ token \in Tokens
        /\ cash.available >= amount /\ position[token].available >= shares
    BY IntentFacts, CollateralType, RowFacts DEF Reserve, Affordable, Collateral
  <1>2. /\ cash' = Freeze(cash, amount)
        /\ position' = [position EXCEPT ![token] = Freeze(@, shares)]
        /\ res' = [res EXCEPT ![o] = [NoReservation EXCEPT !.status = "ACTIVE", !.balance = amount,
                                                           !.shares = shares]]
    BY DEF Reserve
  <1> HIDE DEF amount, shares, token
  <1>3. cash' \in BalanceRow
    BY <1>1, <1>2, FreezeType DEF TypeOK
  <1>4. position' \in [Tokens -> BalanceRow]
    BY <1>1, <1>2, FreezeType DEF TypeOK
  <1>5. res' \in [Orders -> ReservationRow]
    BY <1>1, <1>2, Zenon DEF ReservationRow, NoReservation, TypeOK, HeldStatuses
  <1>6. QED
    BY <1>3, <1>4, <1>5 DEF Reserve, TypeOK

\* The copies a caller may hold.
LEMMA BuryType ==
    ASSUME TypeOK, NEW o \in Orders, order'[o] \in OrderRow
    PROVE  Bury(o) \in [Orders -> SUBSET [filled : Nat, average : Nat]]
  <1>1. [filled |-> order'[o].filled, average |-> order'[o].average] \in [filled : Nat, average : Nat]
    BY DEF OrderRow
  <1>2. dead[o] \cup {[filled |-> order'[o].filled, average |-> order'[o].average]}
            \in SUBSET [filled : Nat, average : Nat]
    BY <1>1 DEF TypeOK
  <1>3. QED
    BY <1>2 DEF Bury, TypeOK

\* The three rows a settlement writes.
LEMMA SettleType ==
    ASSUME TypeOK, NEW o \in Orders, NEW c, c.filled \in Nat, c.average \in Nat,
           SettleReservation(o, c)
    PROVE  /\ res' \in [Orders -> ReservationRow]
           /\ cash' \in BalanceRow
           /\ position' \in [Tokens -> BalanceRow]
  <1> DEFINE worth == c.average * c.filled
             delta == worth - res[o].notional
             shares == c.filled - res[o].settled
             token == Intent[o].token
             p == position[token]
             row == [status |-> "RELEASED", balance |-> 0, shares |-> 0, settled |-> c.filled,
                     notional |-> worth, fees |-> res[o].fees]
  <1>1. worth \in Nat
    BY ProductType
  <1>2. res' = [res EXCEPT ![o] = row]
    BY DEF SettleReservation
  <1>3. /\ res[o].balance \in Nat /\ res[o].shares \in Nat /\ res[o].settled \in Nat
        /\ res[o].notional \in Nat /\ res[o].fees \in Nat
    BY RowFacts DEF ReservationRow
  <1>4. worth >= res[o].notional /\ c.filled >= res[o].settled
    BY SMTT(30) DEF SettleReservation, Reconcilable
  <1>5. \/ /\ cash.reserved >= res[o].balance
           /\ cash.total - delta >= cash.reserved - res[o].balance
           /\ cash' = [total     |-> cash.total - delta,
                       reserved  |-> cash.reserved - res[o].balance,
                       available |-> (cash.total - delta) - (cash.reserved - res[o].balance)]
           /\ position' = [position EXCEPT ![token] = Gain(@, shares)]
        \/ /\ p.reserved >= res[o].shares
           /\ p.total - shares >= p.reserved - res[o].shares
           /\ position' = [position EXCEPT ![token] =
                             [total     |-> p.total - shares,
                              reserved  |-> p.reserved - res[o].shares,
                              available |-> (p.total - shares) - (p.reserved - res[o].shares)]]
           /\ cash' = Gain(cash, delta)
    BY DEF SettleReservation
  <1> HIDE DEF worth
  <1>6. row \in ReservationRow
    BY <1>1, <1>3 DEF ReservationRow
  <1>7. delta \in Nat /\ shares \in Nat /\ token \in Tokens
    BY <1>1, <1>3, <1>4, IntentFacts
  <1> HIDE DEF row, delta, shares, token
  <1>8. res' \in [Orders -> ReservationRow]
    BY <1>2, <1>6 DEF TypeOK
  <1>9. cash \in BalanceRow /\ p \in BalanceRow
    BY <1>7 DEF TypeOK
  <1>10. cash' \in BalanceRow
    <2>1. CASE cash' = Gain(cash, delta)
      BY <2>1, <1>7, <1>9, GainType
    <2>2. CASE /\ cash.reserved >= res[o].balance
               /\ cash.total - delta >= cash.reserved - res[o].balance
               /\ cash' = [total     |-> cash.total - delta,
                           reserved  |-> cash.reserved - res[o].balance,
                           available |-> (cash.total - delta) - (cash.reserved - res[o].balance)]
      BY <2>2, <1>3, <1>7, <1>9 DEF BalanceRow
    <2>3. QED
      BY ONLY <1>5, <2>1, <2>2
  <1>11. position' \in [Tokens -> BalanceRow]
    <2>1. CASE position' = [position EXCEPT ![token] = Gain(@, shares)]
      BY <2>1, <1>7, GainType DEF TypeOK
    <2>2. CASE /\ p.reserved >= res[o].shares
               /\ p.total - shares >= p.reserved - res[o].shares
               /\ position' = [position EXCEPT ![token] =
                                 [total     |-> p.total - shares,
                                  reserved  |-> p.reserved - res[o].shares,
                                  available |-> (p.total - shares) - (p.reserved - res[o].shares)]]
      <3>1. [total |-> p.total - shares, reserved |-> p.reserved - res[o].shares,
             available |-> (p.total - shares) - (p.reserved - res[o].shares)] \in BalanceRow
        BY <2>2, <1>3, <1>7, <1>9 DEF BalanceRow
      <3>2. QED
        BY <2>2, <3>1, <1>7 DEF TypeOK
    <2>3. QED
      BY ONLY <1>5, <2>1, <2>2
  <1>12. QED
    BY <1>8, <1>10, <1>11

\* A legal target of a fill is an order status.
LEMMA FillTargets ==
    ASSUME NEW f \in Fills
    PROVE  /\ FillTarget(f) \in {"FILLED", "MANUAL_REVIEW", "CANCELLED", "PARTIALLY_FILLED"}
           /\ ReservationStatusAfterFill(FillTarget(f)) \in ReservationStatuses
           /\ FillTarget(f) = "FILLED" <=> CumulativeShares(f) >= Intent[Trade[f].order].size
           /\ ReservationStatusAfterFill(FillTarget(f)) \in HeldStatuses <=> FillTarget(f) # "FILLED"
  <1>1. FillTarget(f) \in {"FILLED", "MANUAL_REVIEW", "CANCELLED", "PARTIALLY_FILLED"}
    BY DEF FillTarget
  <1>2. FillTarget(f) = "FILLED" <=> CumulativeShares(f) >= Intent[Trade[f].order].size
    BY DEF FillTarget
  <1>3. QED
    BY <1>1, <1>2 DEF ReservationStatusAfterFill, ReservationStatuses, HeldStatuses

\* The numbers a confirmed trade writes.
LEMMA FillNumbers ==
    ASSUME TypeOK, NEW f \in Fills
    PROVE  /\ CumulativeShares(f) \in Nat /\ CumulativeShares(f) > 0
           /\ order[Trade[f].order].notional + Trade[f].gross \in Nat
           /\ order[Trade[f].order].fees + Trade[f].fee \in Nat
           /\ ReservationAfterFill(f) \in ReservationRow
  <1> DEFINE o == Trade[f].order
             left == IF FillTarget(f) = "FILLED" THEN 0 ELSE Unfilled(o, CumulativeShares(f))
  <1>1. o \in Orders /\ order[o] \in OrderRow
    BY TradeFacts, RowFacts
  <1>2. /\ CumulativeShares(f) \in Nat /\ CumulativeShares(f) > 0
        /\ order[o].notional + Trade[f].gross \in Nat
        /\ order[o].fees + Trade[f].fee \in Nat
    BY <1>1, TradeFacts DEF OrderRow, CumulativeShares
  <1>3. left \in Nat /\ Intent[o].size - Unfilled(o, CumulativeShares(f)) \in Nat
    BY <1>1, <1>2, UnfilledType, IntentFacts
  <1>4. Collateral(o, left) \in Nat /\ (IF Buys(o) THEN 0 ELSE left) \in Nat
    BY <1>1, <1>3, CollateralType
  <1>5. ReservationAfterFill(f) \in ReservationRow
    <2>1. ReservationAfterFill(f) =
            [status   |-> ReservationStatusAfterFill(FillTarget(f)),
             balance  |-> Collateral(o, left),
             shares   |-> IF Buys(o) THEN 0 ELSE left,
             settled  |-> Intent[o].size - Unfilled(o, CumulativeShares(f)),
             notional |-> order[o].notional + Trade[f].gross,
             fees     |-> order[o].fees + Trade[f].fee]
      BY DEF ReservationAfterFill
    <2> HIDE DEF left
    <2>2. QED
      BY <2>1, <1>2, <1>3, <1>4, FillTargets DEF ReservationRow, ReservationStatuses
  <1>6. QED
    BY <1>2, <1>5


LEMMA ReconcileType ==
    ASSUME TypeOK, NEW o \in Orders, Reconcile(o)
    PROVE  TypeOK'
  <1>1. PICK c \in dead[o] : SettleReservation(o, c)
    BY DEF Reconcile
  <1>2. c.filled \in Nat /\ c.average \in Nat
    BY DEF TypeOK
  <1>3. QED
    BY <1>1, <1>2, SettleType DEF Reconcile, TypeOK

LEMMA MarkUncertainType ==
    ASSUME TypeOK, NEW o \in Orders, MarkUncertain(o)
    PROVE  TypeOK'
  <1>1. res[o] \in ReservationRow
    BY RowFacts
  <1>2. [res[o] EXCEPT !.status = "RECONCILIATION_REQUIRED"] \in ReservationRow
    BY <1>1 DEF ReservationRow, HeldStatuses
  <1>3. res' = [res EXCEPT ![o] = [res[o] EXCEPT !.status = "RECONCILIATION_REQUIRED"]]
    BY DEF MarkUncertain, TypeOK
  <1>4. QED
    BY <1>2, <1>3 DEF MarkUncertain, TypeOK

\* Only the status of an order row changes.
LEMMA StatusType ==
    ASSUME TypeOK, NEW o \in Orders, NEW t \in OrderStatuses,
           order' = [order EXCEPT ![o].status = t]
    PROVE  order' \in [Orders -> OrderRow] /\ order'[o] \in OrderRow
  <1>1. order[o] \in OrderRow
    BY RowFacts
  <1>2. [order[o] EXCEPT !.status = t] \in OrderRow
    BY <1>1 DEF OrderRow
  <1>3. order' = [order EXCEPT ![o] = [order[o] EXCEPT !.status = t]]
    BY DEF TypeOK
  <1>4. QED
    BY <1>2, <1>3 DEF TypeOK

LEMMA NoFillReleaseType ==
    ASSUME TypeOK, NEW o \in Orders, NoFillRelease(o)
    PROVE  TypeOK'
  <1>1. order' = [order EXCEPT ![o].status = "CANCELLED"] /\ "CANCELLED" \in OrderStatuses
    BY DEF NoFillRelease, OrderStatuses, TerminalStatuses
  <1>2. order' \in [Orders -> OrderRow] /\ order'[o] \in OrderRow
    BY <1>1, StatusType, Zenon
  <1>3. order[o].filled \in Nat /\ order[o].average \in Nat
    BY RowFacts DEF OrderRow
  <1>4. /\ res' \in [Orders -> ReservationRow]
        /\ cash' \in BalanceRow
        /\ position' \in [Tokens -> BalanceRow]
    BY <1>3, SettleType DEF NoFillRelease
  <1>5. dead' \in [Orders -> SUBSET [filled : Nat, average : Nat]]
    BY <1>2, BuryType DEF NoFillRelease
  <1>6. QED
    BY <1>2, <1>4, <1>5 DEF NoFillRelease, TypeOK

LEMMA AdvanceType ==
    ASSUME TypeOK, NEW o \in Orders, NEW t \in OrderStatuses, Advance(o, t)
    PROVE  TypeOK'
  <1>1. order' \in [Orders -> OrderRow] /\ order'[o] \in OrderRow
    BY StatusType, Zenon DEF Advance
  <1>2. dead' \in [Orders -> SUBSET [filled : Nat, average : Nat]]
    BY <1>1, BuryType DEF Advance
  <1>3. QED
    BY <1>1, <1>2 DEF Advance, TypeOK

LEMMA ObserveFillType ==
    ASSUME TypeOK, NEW f \in Fills, NEW s \in Reported, ObserveFill(f, s)
    PROVE  TypeOK'
  <1>1. s \in FillStatuses \cup {"NONE"}
    BY LedgerConstants
  <1>2. fill' \in [Fills -> [status : FillStatuses \cup {"NONE"}, applied : BOOLEAN]]
    BY <1>1, Zenon DEF ObserveFill, TypeOK
  <1>3. QED
    BY <1>2 DEF ObserveFill, TypeOK

LEMMA ApplyBuyType ==
    ASSUME TypeOK, NEW f \in Fills, FillCovered(f), ApplyBuy(f)
    PROVE  cash' \in BalanceRow /\ position' \in [Tokens -> BalanceRow] /\ lot' \in [AllLots -> Nat]
  <1> DEFINE o == Trade[f].order
             total == cash.total + NetCash(f)
             reserved == cash.reserved - res[o].balance + ReservationAfterFill(f).balance
  <1>1. o \in Orders /\ Intent[o].token \in Tokens /\ Trade[f].shares \in Nat /\ f \in AllLots
    BY TradeFacts, IntentFacts DEF AllLots
  <1>2. /\ res[o].balance \in Nat /\ ReservationAfterFill(f).balance \in Nat
        /\ cash.reserved \in Nat /\ cash.total \in Nat /\ NetCash(f) \in Int
    BY <1>1, RowFacts, FillNumbers, TradeFacts, SMTT(30) DEF ReservationRow, NetCash
  <1>3. /\ cash.reserved >= res[o].balance /\ total >= 0 /\ total >= reserved
        /\ cash' = [total |-> total, reserved |-> reserved, available |-> total - reserved]
        /\ position' = [position EXCEPT ![Intent[o].token] = Gain(@, Trade[f].shares)]
        /\ lot' = [lot EXCEPT ![f] = Trade[f].shares]
    BY SMTT(30) DEF FillCovered, ApplyBuy
  <1>4. cash' \in BalanceRow
    BY <1>2, <1>3, SMTT(30) DEF BalanceRow
  <1>5. position' \in [Tokens -> BalanceRow]
    BY <1>1, <1>3, GainType DEF TypeOK
  <1>6. QED
    BY <1>1, <1>3, <1>4, <1>5 DEF TypeOK

LEMMA ApplySellType ==
    ASSUME TypeOK, NEW f \in Fills, FillCovered(f), ApplySell(f)
    PROVE  cash' \in BalanceRow /\ position' \in [Tokens -> BalanceRow] /\ lot' \in [AllLots -> Nat]
  <1> DEFINE o == Trade[f].order
             p == position[Intent[o].token]
             total == p.total - Trade[f].shares
             reserved == p.reserved - res[o].shares + ReservationAfterFill(f).shares
             row == [total |-> total, reserved |-> reserved, available |-> total - reserved]
  <1>1. /\ o \in Orders /\ Intent[o].token \in Tokens /\ Intent[o].lot \in AllLots
        /\ Trade[f].shares \in Nat
    BY TradeFacts, IntentFacts, SMTT(30)
  <1>2. /\ res[o].shares \in Nat /\ ReservationAfterFill(f).shares \in Nat
        /\ p.reserved \in Nat /\ p.total \in Nat /\ NetCash(f) \in Int /\ lot[Intent[o].lot] \in Nat
    BY <1>1, RowFacts, FillNumbers, TradeFacts, SMTT(30) DEF ReservationRow, NetCash
  <1>3. /\ NetCash(f) >= 0 /\ lot[Intent[o].lot] >= Trade[f].shares
        /\ p.reserved >= res[o].shares /\ p.total >= Trade[f].shares /\ total >= reserved
        /\ position' = [position EXCEPT ![Intent[o].token] = row]
        /\ cash' = Gain(cash, NetCash(f))
        /\ lot' = [lot EXCEPT ![Intent[o].lot] = @ - Trade[f].shares]
    BY ZenonT(30) DEF FillCovered, ApplySell
  <1>4. /\ total \in Nat /\ reserved \in Nat /\ total - reserved \in Nat
        /\ NetCash(f) \in Nat /\ lot[Intent[o].lot] - Trade[f].shares \in Nat
    <2> HIDE DEF o, p
    <2>1. QED
      BY <1>1, <1>2, <1>3
  <1> HIDE DEF o, total, reserved
  <1>5. cash' \in BalanceRow
    BY <1>3, <1>4, GainType DEF TypeOK
  <1>6. position' \in [Tokens -> BalanceRow]
    <2>1. row \in BalanceRow
      BY <1>4 DEF BalanceRow
    <2> HIDE DEF row
    <2>2. QED
      BY <1>1, <1>3, <2>1 DEF TypeOK
  <1>7. lot' \in [AllLots -> Nat]
    BY <1>1, <1>3, <1>4, SMTT(30) DEF TypeOK
  <1>8. QED
    BY <1>5, <1>6, <1>7

\* The rows a confirmed trade writes, one by one.
FilledRow(f) ==
    [status   |-> FillTarget(f),
     filled   |-> CumulativeShares(f),
     notional |-> order[Trade[f].order].notional + Trade[f].gross,
     fees     |-> order[Trade[f].order].fees + Trade[f].fee,
     average  |-> Quotient(order[Trade[f].order].notional + Trade[f].gross, CumulativeShares(f))]

LEMMA FillWrites ==
    ASSUME TypeOK, NEW f \in Fills, ApplyFill(f)
    PROVE  /\ order' = [order EXCEPT ![Trade[f].order] = FilledRow(f)]
           /\ res' = [res EXCEPT ![Trade[f].order] = ReservationAfterFill(f)]
           /\ dead' = Bury(Trade[f].order)
           /\ fill' = [fill EXCEPT ![f] = [status |-> "CONFIRMED", applied |-> TRUE]]
           /\ order[Trade[f].order].status \notin PreSubmit
           /\ FillCovered(f)
  BY DEF ApplyFill, FilledRow, Recordable

LEMMA FilledRowType ==
    ASSUME TypeOK, NEW f \in Fills
    PROVE  FilledRow(f) \in OrderRow
  <1>1. FillTarget(f) \in OrderStatuses
    BY FillTargets DEF OrderStatuses, Working, TerminalStatuses
  <1>2. Quotient(order[Trade[f].order].notional + Trade[f].gross, CumulativeShares(f)) \in Nat
    BY FillNumbers, QuotientType
  <1>3. QED
    BY <1>1, <1>2, FillNumbers DEF OrderRow, FilledRow

LEMMA FilledOrder ==
    ASSUME TypeOK, NEW f \in Fills, ApplyFill(f)
    PROVE  /\ order'[Trade[f].order].status = FillTarget(f)
           /\ order'[Trade[f].order].filled = CumulativeShares(f)
           /\ res'[Trade[f].order] = ReservationAfterFill(f)
           /\ \A p \in Orders \ {Trade[f].order} : order'[p] = order[p] /\ res'[p] = res[p]
  <1>1. Trade[f].order \in Orders
    BY TradeFacts
  <1>2. /\ order' = [order EXCEPT ![Trade[f].order] = FilledRow(f)]
        /\ res' = [res EXCEPT ![Trade[f].order] = ReservationAfterFill(f)]
    BY FillWrites
  <1>3. /\ order'[Trade[f].order] = FilledRow(f) /\ res'[Trade[f].order] = ReservationAfterFill(f)
        /\ \A p \in Orders \ {Trade[f].order} : order'[p] = order[p] /\ res'[p] = res[p]
    BY <1>1, <1>2 DEF TypeOK
  <1>4. FilledRow(f).status = FillTarget(f) /\ FilledRow(f).filled = CumulativeShares(f)
    BY DEF FilledRow
  <1>5. QED
    BY <1>3, <1>4

LEMMA ApplyFillType ==
    ASSUME TypeOK, NEW f \in Fills, ApplyFill(f)
    PROVE  TypeOK'
  <1>1. Trade[f].order \in Orders
    BY TradeFacts
  <1>2. cash' \in BalanceRow /\ position' \in [Tokens -> BalanceRow] /\ lot' \in [AllLots -> Nat]
    BY ApplyBuyType, ApplySellType, SMTT(30) DEF ApplyFill
  <1>3. res' \in [Orders -> ReservationRow]
    BY <1>1, FillNumbers, FillWrites DEF TypeOK
  <1>4. order' \in [Orders -> OrderRow] /\ order'[Trade[f].order] \in OrderRow
    BY <1>1, FilledRowType, FillWrites DEF TypeOK
  <1>5. fill' \in [Fills -> [status : FillStatuses \cup {"NONE"}, applied : BOOLEAN]]
    BY Zenon DEF ApplyFill, TypeOK, FillStatuses
  <1>6. dead' \in [Orders -> SUBSET [filled : Nat, average : Nat]]
    BY <1>1, <1>4, BuryType, FillWrites
  <1>7. QED
    BY <1>2, <1>3, <1>4, <1>5, <1>6, SMTT(30) DEF TypeOK

\* One step of Next keeps the rows.
LEMMA TypeStep == TypeOK /\ [Next]_vars => TypeOK'
  <1> SUFFICES ASSUME TypeOK, [Next]_vars PROVE TypeOK'
    OBVIOUS
  <1>1. ASSUME NEW o \in Orders, Reserve(o) PROVE TypeOK'
    BY <1>1, ReserveType
  <1>2. ASSUME NEW o \in Orders, Reconcile(o) PROVE TypeOK'
    BY <1>2, ReconcileType
  <1>3. ASSUME NEW o \in Orders, MarkUncertain(o) PROVE TypeOK'
    BY <1>3, MarkUncertainType
  <1>4. ASSUME NEW o \in Orders, NoFillRelease(o) PROVE TypeOK'
    BY <1>4, NoFillReleaseType
  <1>5. ASSUME NEW o \in Orders, NEW t \in OrderStatuses, Advance(o, t) PROVE TypeOK'
    BY <1>5, AdvanceType
  <1>6. ASSUME NEW f \in Fills, ApplyFill(f) PROVE TypeOK'
    BY <1>6, ApplyFillType
  <1>7. ASSUME NEW f \in Fills, NEW s \in Reported, ObserveFill(f, s) PROVE TypeOK'
    BY <1>7, ObserveFillType
  <1>8. CASE UNCHANGED vars
    BY <1>8 DEF vars, TypeOK
  <1>9. QED
    BY <1>1, <1>2, <1>3, <1>4, <1>5, <1>6, <1>7, <1>8 DEF Next

\* No transaction of the ledger, in any order, drives a balance, a position or a
\* lot below zero or breaks total = available + reserved.
THEOREM LedgerTypeCorrect == Spec => []TypeOK
  <1>1. QED
    BY TypeInit, TypeStep, PTL DEF Spec

-----------------------------------------------------------------------------
(* Exclusion of competing holds.                                           *)

LEMMA ExcludesSymmetric ==
    ASSUME NEW o \in Orders, NEW p \in Orders, Excludes(o, p)
    PROVE  Excludes(p, o)
  BY DEF Excludes, Buys

\* A step that leaves every other hold as it was, and either leaves o not held,
\* or held as before, or held with no rival, keeps the exclusion.
LEMMA ExclusionKept ==
    ASSUME TypeOK, SameDirectionExclusive, NEW o \in Orders,
           \A p \in Orders \ {o} : res'[p] = res[p],
           res'[o].status \in HeldStatuses => Held(o) \/ Rivals(o) = {}
    PROVE  SameDirectionExclusive'
  <1> SUFFICES ASSUME NEW p \in Orders, NEW q \in Orders, p # q, Held(p)', Held(q)', Excludes(p, q)
               PROVE  FALSE
    BY DEF SameDirectionExclusive, Excludes, Buys
  <1>1. CASE p # o /\ q # o
    BY <1>1 DEF SameDirectionExclusive, Held
  <1>2. ASSUME NEW r \in Orders \ {o}, Held(r)', Held(o)', Excludes(o, r) PROVE FALSE
    <2>1. Held(r) /\ (Held(o) \/ Rivals(o) = {})
      BY <1>2 DEF Held
    <2>2. r \in Rivals(o)
      BY <1>2, <2>1 DEF Rivals
    <2>3. QED
      BY <1>2, <2>1, <2>2 DEF SameDirectionExclusive
  <1>3. QED
    BY <1>1, <1>2, ExcludesSymmetric

LEMMA ExclusionInit == Init => SameDirectionExclusive
  BY DEF Init, SameDirectionExclusive, Held, HeldStatuses, NoReservation

LEMMA ExclusionStep == TypeOK /\ SameDirectionExclusive /\ [Next]_vars => SameDirectionExclusive'
  <1> SUFFICES ASSUME TypeOK, SameDirectionExclusive, [Next]_vars PROVE SameDirectionExclusive'
    OBVIOUS
  <1>1. ASSUME NEW o \in Orders, Reserve(o) PROVE SameDirectionExclusive'
    BY <1>1, ExclusionKept DEF Reserve, TypeOK
  <1>2. ASSUME NEW o \in Orders, NEW c, SettleReservation(o, c) PROVE SameDirectionExclusive'
    <2>1. res'[o].status = "RELEASED" /\ \A p \in Orders \ {o} : res'[p] = res[p]
      BY <1>2 DEF SettleReservation, TypeOK
    <2>2. QED
      BY <2>1, ExclusionKept, SMTT(30) DEF HeldStatuses
  <1>3. ASSUME NEW o \in Orders, MarkUncertain(o) PROVE SameDirectionExclusive'
    BY <1>3, ExclusionKept DEF MarkUncertain, TypeOK
  <1>4. ASSUME NEW f \in Fills, ApplyFill(f) PROVE SameDirectionExclusive'
    <2>1. Trade[f].order \in Orders /\ \A p \in Orders \ {Trade[f].order} : res'[p] = res[p]
      BY <1>4, TradeFacts, FillWrites DEF TypeOK
    <2>2. res'[Trade[f].order] = ReservationAfterFill(f)
      BY <1>4, <2>1, FillWrites, SMTT(30) DEF TypeOK
    <2>3. ReservationAfterFill(f).status \in HeldStatuses => Rivals(Trade[f].order) = {}
      BY <1>4, FillWrites, SMTT(30) DEF FillCovered
    <2>4. QED
      BY <2>1, <2>2, <2>3, ExclusionKept, SMTT(30)
  <1>5. CASE UNCHANGED res
    BY <1>5 DEF SameDirectionExclusive, Held, Excludes, Buys
  <1>6. QED
    BY <1>1, <1>2, <1>3, <1>4, <1>5 DEF Next, Reconcile, NoFillRelease, Advance, ObserveFill, vars

\* Whatever trades arrive late and whatever callers settle from old copies, no
\* two held reservations compete for one token or one lot.
THEOREM HoldsNeverCompete == Spec => []SameDirectionExclusive
  <1>1. Init => TypeOK /\ SameDirectionExclusive
    BY TypeInit, ExclusionInit
  <1>2. (TypeOK /\ SameDirectionExclusive) /\ [Next]_vars => (TypeOK /\ SameDirectionExclusive)'
    BY TypeStep, ExclusionStep
  <1>3. QED
    BY <1>1, <1>2, PTL DEF Spec
-----------------------------------------------------------------------------
(* A hold is exactly what the unfilled remainder may cost.  That depends    *)
(* on how an order and its reservation end: an order is FILLED exactly when *)
(* its reservation is SETTLED, only a dead order's reservation is RELEASED, *)
(* and a dead copy never shows the order in full.                           *)

HoldExact(o) ==
    IF Held(o)
    THEN /\ res[o].settled = order[o].filled
         /\ res[o].balance = Collateral(o, Intent[o].size - order[o].filled)
         /\ res[o].shares = IF Buys(o) THEN 0 ELSE Intent[o].size - order[o].filled
    ELSE res[o].balance = 0 /\ res[o].shares = 0

Ending(o) ==
    /\ order[o].status \in PreSubmit => order[o].filled = 0
    /\ order[o].status = "FILLED" <=> order[o].filled >= Intent[o].size
    /\ order[o].status = "FILLED" <=> res[o].status = "SETTLED"
    /\ res[o].status = "SETTLED" => res[o].settled = Intent[o].size
    /\ res[o].status = "RELEASED" => order[o].status \in {"REJECTED", "CANCELLED"}
    /\ dead[o] # {} => order[o].status \in {"REJECTED", "CANCELLED", "FILLED"}
    /\ \A c \in dead[o] : c.filled < Intent[o].size

HoldInv == \A o \in Orders : HoldExact(o) /\ Ending(o)

\* What the edges of the state machine rule out.
LEMMA EdgeFacts ==
    ASSUME NEW s \in OrderStatuses, NEW t \in Successors(s)
    PROVE  /\ t \in PreSubmit => s \in PreSubmit
           /\ s \in {"REJECTED", "CANCELLED", "FILLED"} => t = "FILLED"
           /\ s \in {"REJECTED", "FILLED"} => FALSE
  BY DEF Successors, OrderStatuses, PreSubmit, Working, TerminalStatuses

\* An order and its reservation that a step leaves alone.
LEMMA HoldUntouched ==
    ASSUME NEW o \in Orders, HoldExact(o), Ending(o),
           order'[o] = order[o], res'[o] = res[o], dead'[o] = dead[o]
    PROVE  HoldExact(o)' /\ Ending(o)'
  BY DEF HoldExact, Ending, Held, Collateral, Buys

\* It is enough to look at the one order a step is about.
LEMMA HoldFrame ==
    ASSUME HoldInv, NEW o \in Orders,
           \A p \in Orders \ {o} : order'[p] = order[p] /\ res'[p] = res[p] /\ dead'[p] = dead[p],
           HoldExact(o)' /\ Ending(o)'
    PROVE  HoldInv'
  <1>1. ASSUME NEW p \in Orders PROVE HoldExact(p)' /\ Ending(p)'
    <2>1. CASE p = o
      BY <2>1
    <2>2. CASE p # o
      BY <2>2, HoldUntouched DEF HoldInv
    <2>3. QED
      BY <2>1, <2>2
  <1>2. QED
    BY <1>1 DEF HoldInv

LEMMA HoldInit == Init => HoldInv
  <1> SUFFICES ASSUME Init, NEW o \in Orders PROVE HoldExact(o) /\ Ending(o)
    BY DEF HoldInv
  <1>1. /\ order[o].status = "RECEIVED" /\ order[o].filled = 0 /\ dead[o] = {}
        /\ res[o].status = "NONE" /\ res[o].balance = 0 /\ res[o].shares = 0
    BY SMTT(30) DEF Init, NoReservation
  <1>2. QED
    BY <1>1, IntentFacts DEF HoldExact, Ending, Held, HeldStatuses, PreSubmit

LEMMA ReserveHold ==
    ASSUME TypeOK, HoldInv, NEW o \in Orders, Reserve(o)
    PROVE  HoldInv'
  <1> DEFINE shares == IF Buys(o) THEN 0 ELSE Intent[o].size
  <1>1. /\ res'[o].status = "ACTIVE" /\ res'[o].balance = Collateral(o, Intent[o].size)
        /\ res'[o].shares = shares /\ res'[o].settled = 0
        /\ \A p \in Orders \ {o} : res'[p] = res[p]
    <2>1. res' = [res EXCEPT ![o] = [NoReservation EXCEPT !.status = "ACTIVE",
                                          !.balance = Collateral(o, Intent[o].size), !.shares = shares]]
      BY DEF Reserve
    <2> HIDE DEF shares
    <2>2. QED
      BY <2>1 DEF NoReservation, TypeOK
  <1>2. order' = order /\ dead' = dead /\ order[o].status = "VALIDATING"
    BY SMTT(30) DEF Reserve
  <1>3. order[o].filled = 0
    BY <1>2, SMTT(30) DEF HoldInv, Ending, PreSubmit
  <1>4. HoldExact(o)'
    BY <1>1, <1>2, <1>3, IntentFacts, SMTT(30) DEF HoldExact, Held, HeldStatuses, Collateral, Buys
  <1>5. Ending(o)'
    BY <1>1, <1>2, SMTT(30) DEF HoldInv, Ending
  <1>6. QED
    BY <1>1, <1>2, <1>4, <1>5, HoldFrame

\* What a settlement leaves of the reservation.
LEMMA SettleWrites ==
    ASSUME TypeOK, NEW o \in Orders, NEW c, SettleReservation(o, c)
    PROVE  /\ res'[o].status = "RELEASED" /\ res'[o].balance = 0 /\ res'[o].shares = 0
           /\ \A p \in Orders \ {o} : res'[p] = res[p]
           /\ c.filled >= res[o].settled
  BY SMTT(30) DEF SettleReservation, Reconcilable, TypeOK

LEMMA ReconcileHold ==
    ASSUME TypeOK, HoldInv, NEW o \in Orders, Reconcile(o)
    PROVE  HoldInv'
  <1>1. PICK c \in dead[o] : SettleReservation(o, c)
    BY DEF Reconcile
  <1>2. order' = order /\ dead' = dead
    BY DEF Reconcile
  <1>3. HoldExact(o)'
    BY <1>1, SettleWrites DEF HoldExact, Held, HeldStatuses
  <1>4. order[o].status # "FILLED"
    <2>1. c.filled \in Nat /\ res[o].settled \in Nat /\ c.filled < Intent[o].size
      BY RowFacts, SMTT(30) DEF HoldInv, Ending, TypeOK, ReservationRow
    <2>2. res[o].status # "SETTLED"
      BY <1>1, <2>1, SettleWrites, IntentFacts, SMTT(30) DEF HoldInv, Ending
    <2>3. QED
      BY <2>2 DEF HoldInv, Ending
  <1>5. Ending(o)'
    BY <1>1, <1>2, <1>4, SettleWrites, SMTT(30) DEF HoldInv, Ending
  <1>6. QED
    BY <1>1, <1>2, <1>3, <1>5, SettleWrites, HoldFrame, SMTT(30)

LEMMA MarkUncertainHold ==
    ASSUME TypeOK, HoldInv, NEW o \in Orders, MarkUncertain(o)
    PROVE  HoldInv'
  <1>1. /\ res'[o].status = "RECONCILIATION_REQUIRED" /\ res'[o].balance = res[o].balance
        /\ res'[o].shares = res[o].shares /\ res'[o].settled = res[o].settled
        /\ \A p \in Orders \ {o} : res'[p] = res[p]
    <2>1. res' = [res EXCEPT ![o] = [res[o] EXCEPT !.status = "RECONCILIATION_REQUIRED"]]
      BY DEF MarkUncertain, TypeOK
    <2>2. res[o] \in ReservationRow
      BY RowFacts
    <2>3. QED
      BY <2>1, <2>2 DEF TypeOK, ReservationRow
  <1>2. order' = order /\ dead' = dead /\ Held(o)
    BY DEF MarkUncertain
  <1>3. HoldExact(o)'
    BY <1>1, <1>2, SMTT(30) DEF HoldInv, HoldExact, Held, HeldStatuses, Collateral, Buys
  <1>4. Ending(o)'
    BY <1>1, <1>2 DEF HoldInv, Ending, Held, HeldStatuses
  <1>5. QED
    BY <1>1, <1>2, <1>3, <1>4, HoldFrame

\* The order row and the copies after a change of status.
LEMMA StatusWrites ==
    ASSUME TypeOK, NEW o \in Orders, NEW t, order' = [order EXCEPT ![o].status = t]
    PROVE  /\ order'[o].status = t /\ order'[o].filled = order[o].filled
           /\ \A p \in Orders \ {o} : order'[p] = order[p]
  <1>1. order' = [order EXCEPT ![o] = [order[o] EXCEPT !.status = t]]
    BY DEF TypeOK
  <1>2. order[o] \in OrderRow
    BY RowFacts, SMTT(30)
  <1>3. QED
    BY <1>1, <1>2 DEF TypeOK, OrderRow

LEMMA BuryWrites ==
    ASSUME TypeOK, NEW o \in Orders, dead' = Bury(o)
    PROVE  /\ \A p \in Orders \ {o} : dead'[p] = dead[p]
           /\ \A c \in dead'[o] : c \in dead[o] \/ c.filled = order'[o].filled
           /\ order'[o].status \notin {"REJECTED", "CANCELLED"} => dead'[o] = dead[o]
  BY DEF Bury, TypeOK

LEMMA NoFillReleaseHold ==
    ASSUME TypeOK, HoldInv, NEW o \in Orders, NoFillRelease(o)
    PROVE  HoldInv'
  <1>1. /\ order' = [order EXCEPT ![o].status = "CANCELLED"] /\ dead' = Bury(o)
        /\ order[o].filled = 0 /\ order[o].status = "UNKNOWN" /\ SettleReservation(o, order[o])
    BY DEF NoFillRelease
  <1>2. /\ order'[o].status = "CANCELLED" /\ order'[o].filled = 0
        /\ \A p \in Orders \ {o} : order'[p] = order[p]
    BY <1>1, StatusWrites, Zenon
  <1>3. HoldExact(o)'
    BY <1>1, SettleWrites DEF HoldExact, Held, HeldStatuses
  <1>4. \A c \in dead'[o] : c.filled < Intent[o].size
    BY <1>1, <1>2, BuryWrites, IntentFacts DEF HoldInv, Ending
  <1>5. Ending(o)'
    BY <1>1, <1>2, <1>4, SettleWrites, IntentFacts DEF Ending, PreSubmit
  <1>6. QED
    BY <1>1, <1>2, <1>3, <1>5, SettleWrites, BuryWrites, HoldFrame

LEMMA AdvanceHold ==
    ASSUME TypeOK, HoldInv, NEW o \in Orders, NEW t \in OrderStatuses, Advance(o, t)
    PROVE  HoldInv'
  <1>1. /\ order' = [order EXCEPT ![o].status = t] /\ dead' = Bury(o) /\ res' = res
        /\ t \in Successors(order[o].status)
        /\ FillStateAllows(t, order[o].filled, Intent[o].size, Intent[o].improves)
    BY DEF Advance, CanTransitionTo
  <1>2. /\ order'[o].status = t /\ order'[o].filled = order[o].filled
        /\ \A p \in Orders \ {o} : order'[p] = order[p]
    BY <1>1, StatusWrites, Zenon
  <1>3. order[o].status \in OrderStatuses /\ order[o].filled \in Nat
    BY RowFacts DEF OrderRow
  <1>4. order[o].status # "FILLED" /\ t # "FILLED"
    <2>1. order[o].status # "FILLED"
      BY <1>1, <1>3, EdgeFacts, SMTT(30)
    <2>2. ~(order[o].filled >= Intent[o].size)
      BY <2>1 DEF HoldInv, Ending
    <2>3. t # "FILLED"
      BY <1>1, <1>3, <2>2, IntentFacts DEF FillStateAllows
    <2>4. QED
      BY <2>1, <2>3
  <1>5. order[o].status \notin {"REJECTED", "CANCELLED"}
    BY <1>1, <1>3, <1>4, EdgeFacts
  <1>6. dead[o] = {} /\ res[o].status # "RELEASED" /\ ~(order[o].filled >= Intent[o].size)
        /\ res[o].status # "SETTLED"
    BY <1>4, <1>5 DEF HoldInv, Ending
  <1>7. HoldExact(o)'
    BY <1>1, <1>2 DEF HoldInv, HoldExact, Held, Collateral, Buys
  <1>8. /\ \A c \in dead'[o] : c.filled < Intent[o].size
        /\ dead'[o] # {} => t \in {"REJECTED", "CANCELLED"}
    BY <1>1, <1>2, <1>3, <1>6, BuryWrites, IntentFacts
  <1>9. t \in PreSubmit => order[o].filled = 0
    BY <1>1, <1>3, EdgeFacts DEF HoldInv, Ending
  <1>10. Ending(o)'
    BY <1>1, <1>2, <1>4, <1>6, <1>8, <1>9 DEF Ending
  <1>11. QED
    BY <1>1, <1>2, <1>7, <1>10, BuryWrites, HoldFrame

\* No edge takes a rejected order to the status a fill asks for.
LEMMA RejectedStaysUnfilled ==
    ASSUME NEW f \in Fills, FillTransitionAllowed(f)
    PROVE  order[Trade[f].order].status # "REJECTED"
  <1> DEFINE s == order[Trade[f].order].status
             t == FillTarget(f)
             first == IF t = "CANCELLED" /\ EntryStatus(s) # "CANCELLED" THEN "PARTIALLY_FILLED" ELSE t
  <1> SUFFICES ASSUME s = "REJECTED" PROVE FALSE
    OBVIOUS
  <1>1. EntryStatus(s) = "REJECTED" /\ Successors(s) = {}
    BY DEF EntryStatus, Successors
  <1>2. CanTransitionTo(EntryStatus(s), first)
    BY DEF FillTransitionAllowed, FillEdgesAllowed
  <1>3. first # "REJECTED"
    BY FillTargets
  <1> HIDE DEF s, t, first
  <1>4. QED
    BY <1>1, <1>2, <1>3 DEF CanTransitionTo

LEMMA ApplyFillHold ==
    ASSUME TypeOK, HoldInv, NEW f \in Fills, ApplyFill(f)
    PROVE  HoldInv'
  <1> DEFINE o == Trade[f].order
             n == CumulativeShares(f)
             r == ReservationAfterFill(f)
  <1>1. /\ o \in Orders /\ n \in Nat /\ order[o].filled \in Nat /\ n > order[o].filled
        /\ Intent[o].size \in Nat
    BY TradeFacts, FillNumbers, RowFacts, IntentFacts DEF OrderRow, CumulativeShares
  <1>2. /\ order'[o].status = FillTarget(f) /\ order'[o].filled = n /\ res'[o] = r
        /\ dead' = Bury(o)
        /\ \A p \in Orders \ {o} : order'[p] = order[p] /\ res'[p] = res[p]
    BY FilledOrder, FillWrites, SMTT(30)
  <1>3. /\ r.status = ReservationStatusAfterFill(FillTarget(f))
        /\ r.settled = Intent[o].size - Unfilled(o, n)
        /\ FillTarget(f) = "FILLED" => r.balance = Collateral(o, 0) /\ r.shares = 0
        /\ FillTarget(f) # "FILLED" => /\ r.balance = Collateral(o, Unfilled(o, n))
                                       /\ r.shares = IF Buys(o) THEN 0 ELSE Unfilled(o, n)
    BY ZenonT(30) DEF ReservationAfterFill
  <1>4. FillTarget(f) = "FILLED" <=> n >= Intent[o].size
    BY FillTargets
  <1>5. FillTarget(f) \in {"FILLED", "MANUAL_REVIEW", "CANCELLED", "PARTIALLY_FILLED"}
    BY FillTargets
  <1>6. order[o].status \in {"CANCELLED", "FILLED"} => FillTarget(f) \in {"FILLED", "CANCELLED"}
    <2>1. order[o].status = "FILLED" => order[o].filled >= Intent[o].size
      BY <1>1, SMTT(30) DEF HoldInv, Ending
    <2>2. order[o].status = "FILLED" => FillTarget(f) = "FILLED"
      BY <1>1, <1>4, <2>1
    <2>3. order[o].status = "CANCELLED" => FillTarget(f) \in {"FILLED", "CANCELLED"}
      BY SMTT(30) DEF FillTarget
    <2>4. QED
      BY <2>2, <2>3
  <1>7. order[o].status # "REJECTED"
    BY RejectedStaysUnfilled, SMTT(30) DEF ApplyFill
  <1> HIDE DEF o, n, r
  <1>8. CASE FillTarget(f) = "FILLED"
    <2>1. n >= Intent[o].size /\ Unfilled(o, n) = 0 /\ Collateral(o, 0) = 0
      BY <1>1, <1>4, <1>8, CollateralType DEF Unfilled
    <2>2. /\ res'[o].status = "SETTLED" /\ res'[o].balance = 0 /\ res'[o].shares = 0
          /\ res'[o].settled = Intent[o].size
      BY <1>1, <1>2, <1>3, <1>8, <2>1, SMTT(30) DEF ReservationStatusAfterFill
    <2>3. dead'[o] = dead[o] /\ \A p \in Orders \ {o} : dead'[p] = dead[p]
      BY <1>1, <1>2, <1>8, BuryWrites
    <2>4. HoldExact(o)'
      BY <2>2, SMTT(30) DEF HoldExact, Held, HeldStatuses
    <2>5. Ending(o)'
      BY <1>1, <1>2, <1>8, <2>1, <2>2, <2>3, SMTT(30) DEF HoldInv, Ending, PreSubmit
    <2>6. QED
      BY <1>1, <1>2, <2>3, <2>4, <2>5, HoldFrame, SMTT(30)
  <1>9. CASE FillTarget(f) # "FILLED"
    <2>1. n < Intent[o].size /\ Unfilled(o, n) = Intent[o].size - n
      BY <1>1, <1>4, <1>9, UnfilledType
    <2>2. /\ res'[o].status \in HeldStatuses /\ res'[o].settled = n
          /\ res'[o].balance = Collateral(o, Intent[o].size - n)
          /\ res'[o].shares = IF Buys(o) THEN 0 ELSE Intent[o].size - n
      BY <1>1, <1>2, <1>3, <1>5, <1>9, <2>1, SMTT(30) DEF ReservationStatusAfterFill, HeldStatuses
    <2>3. HoldExact(o)'
      BY <1>2, <2>2, SMTT(30) DEF HoldExact, Held, Collateral, Buys
    <2>4. /\ \A c \in dead'[o] : c \in dead[o] \/ c.filled = order'[o].filled
          /\ order'[o].status \notin {"REJECTED", "CANCELLED"} => dead'[o] = dead[o]
          /\ \A p \in Orders \ {o} : dead'[p] = dead[p]
      BY <1>1, <1>2, BuryWrites, Zenon
    <2>5. /\ \A c \in dead[o] : c.filled < Intent[o].size
          /\ dead[o] # {} => order[o].status \in {"REJECTED", "CANCELLED", "FILLED"}
      BY <1>1, Zenon DEF HoldInv, Ending
    <2>6. \A c \in dead'[o] : c.filled < Intent[o].size
      <3>1. order'[o].filled < Intent[o].size
        BY <1>2, <2>1, Zenon
      <3>2. QED
        BY <2>4, <2>5, <3>1, Zenon
    <2>7. dead'[o] # {} => FillTarget(f) = "CANCELLED"
      <3>1. FillTarget(f) \notin {"REJECTED", "CANCELLED"} => dead[o] = {}
        BY <1>6, <1>7, <1>9, <2>5, Zenon
      <3>2. FillTarget(f) \notin {"REJECTED", "CANCELLED"} => dead'[o] = {}
        BY <1>2, <2>4, <3>1, Zenon
      <3>3. QED
        BY <1>5, <3>2
    <2>8. Ending(o)'
      BY <1>1, <1>2, <1>5, <1>9, <2>1, <2>2, <2>6, <2>7 DEF Ending, PreSubmit, HeldStatuses
    <2>9. QED
      BY <1>1, <1>2, <2>3, <2>4, <2>8, HoldFrame, SMTT(30)
  <1>10. QED
    BY <1>8, <1>9, SMTT(30)

LEMMA HoldStep == TypeOK /\ HoldInv /\ [Next]_vars => HoldInv'
  <1> SUFFICES ASSUME TypeOK, HoldInv, [Next]_vars PROVE HoldInv'
    OBVIOUS
  <1>1. ASSUME NEW o \in Orders, Reserve(o) PROVE HoldInv'
    BY <1>1, ReserveHold
  <1>2. ASSUME NEW o \in Orders, Reconcile(o) PROVE HoldInv'
    BY <1>2, ReconcileHold
  <1>3. ASSUME NEW o \in Orders, MarkUncertain(o) PROVE HoldInv'
    BY <1>3, MarkUncertainHold
  <1>4. ASSUME NEW o \in Orders, NoFillRelease(o) PROVE HoldInv'
    BY <1>4, NoFillReleaseHold
  <1>5. ASSUME NEW o \in Orders, NEW t \in OrderStatuses, Advance(o, t) PROVE HoldInv'
    BY <1>5, AdvanceHold
  <1>6. ASSUME NEW f \in Fills, ApplyFill(f) PROVE HoldInv'
    BY <1>6, ApplyFillHold
  <1>7. CASE order' = order /\ res' = res /\ dead' = dead
    BY <1>7, HoldUntouched DEF HoldInv
  <1>8. QED
    BY <1>1, <1>2, <1>3, <1>4, <1>5, <1>6, <1>7 DEF Next, ObserveFill, vars

LEMMA HoldAlways == Spec => [](TypeOK /\ HoldInv)
  <1>1. Init => TypeOK /\ HoldInv
    BY TypeInit, HoldInit
  <1>2. (TypeOK /\ HoldInv) /\ [Next]_vars => (TypeOK /\ HoldInv)'
    BY TypeStep, HoldStep
  <1>3. QED
    BY <1>1, <1>2, PTL DEF Spec

\* Partial fills, late fills, releases and uncertain outcomes in any order
\* leave every reservation freezing exactly what its remainder may still cost.
THEOREM HoldsAreExact == Spec => []HoldCoversRemainder
  <1>1. HoldInv => HoldCoversRemainder
    BY DEF HoldInv, HoldExact, HoldCoversRemainder
  <1>2. QED
    BY <1>1, HoldAlways, PTL

\* What returns a released reservation to force is a late trade of a cancelled
\* order; nothing returns a settled one.
THEOREM ReleaseIsUndoneOnlyByFill == Spec => ReleasedReturnsOnlyByFill
  <1> DEFINE Kept(o) ==
        /\ res[o].status = "RELEASED" /\ res'[o].status \in HeldStatuses =>
               order[o].status = "CANCELLED" /\ order'[o].filled > order[o].filled
        /\ res[o].status = "SETTLED" => res'[o].status = "SETTLED"
  <1>1. ASSUME TypeOK, HoldInv, Next, NEW o \in Orders PROVE Kept(o)
    <2>1. CASE res'[o].status = res[o].status
      BY <1>1, <2>1 DEF HeldStatuses
    <2>2. ASSUME NEW p \in Orders, Reserve(p) PROVE Kept(o)
      <3>1. o # p => res'[o] = res[o]
        BY <1>1, <2>2 DEF Reserve, TypeOK
      <3>2. QED
        BY <1>1, <2>1, <2>2, <3>1 DEF Reserve
    <2>3. ASSUME NEW p \in Orders, NEW c, SettleReservation(p, c), res[p].status # "SETTLED" PROVE Kept(o)
      BY <1>1, <2>1, <2>3, SettleWrites DEF HeldStatuses
    <2>4. ASSUME NEW p \in Orders, MarkUncertain(p) PROVE Kept(o)
      <3>1. o # p => res'[o] = res[o]
        BY <1>1, <2>4 DEF MarkUncertain, TypeOK
      <3>2. res[p].status # "RELEASED" /\ res[p].status # "SETTLED"
        BY <2>4, Zenon DEF MarkUncertain, Held, HeldStatuses
      <3>3. QED
        BY <1>1, <2>1, <3>1, <3>2, Zenon
    <2>5. ASSUME NEW f \in Fills, ApplyFill(f) PROVE Kept(o)
      <3>1. CASE o # Trade[f].order
        BY <1>1, <2>1, <2>5, <3>1, TradeFacts, FillWrites, SMTT(30) DEF TypeOK
      <3>2. CASE o = Trade[f].order
        <4>1. /\ order'[o].filled = CumulativeShares(f) /\ order[o].filled \in Nat
              /\ CumulativeShares(f) > order[o].filled
          BY <1>1, <2>5, <3>2, FilledOrder, TradeFacts, RowFacts DEF OrderRow, CumulativeShares
        <4>2. order[o].status # "REJECTED"
          BY <1>1, <2>5, <3>2, RejectedStaysUnfilled, ZenonT(30) DEF ApplyFill
        <4>3. res[o].status = "RELEASED" => order[o].status = "CANCELLED"
          BY <1>1, <4>2 DEF HoldInv, Ending
        <4>4. res[o].status = "SETTLED" => res'[o].status = "SETTLED"
          <5>1. res[o].status = "SETTLED" => order[o].filled >= Intent[o].size
            BY <1>1, SMTT(30) DEF HoldInv, Ending
          <5>2. res[o].status = "SETTLED" => FillTarget(f) = "FILLED"
            BY <1>1, <3>2, <4>1, <5>1, FillTargets, FillNumbers, IntentFacts
          <5>3. res'[o] = ReservationAfterFill(f)
            BY <1>1, <2>5, <3>2, FillWrites, SMTT(30) DEF TypeOK
          <5>4. QED
            BY <1>1, <5>2, <5>3 DEF ReservationAfterFill, ReservationStatusAfterFill
        <4>5. QED
          BY <1>1, <4>1, <4>3, <4>4, SMTT(30)
      <3>3. QED
        BY <1>1, <3>1, <3>2, SMTT(30)
    <2>6. ASSUME NEW p \in Orders, Reconcile(p) PROVE Kept(o)
      <3>1. PICK c \in dead[p] : SettleReservation(p, c)
        BY <1>1, <2>6, SMTT(30) DEF Reconcile
      <3>2. res[p].status # "SETTLED"
        <4>1. c.filled \in Nat /\ res[p].settled \in Nat /\ c.filled < Intent[p].size
          BY <1>1, RowFacts DEF HoldInv, Ending, TypeOK, ReservationRow
        <4>2. QED
          BY <1>1, <3>1, <4>1, SettleWrites, IntentFacts, SMTT(30) DEF HoldInv, Ending
      <3>3. QED
        BY <1>1, <2>3, <3>1, <3>2
    <2>7. ASSUME NEW p \in Orders, NoFillRelease(p) PROVE Kept(o)
      BY <1>1, <2>3, <2>7, SMTT(30) DEF NoFillRelease, Held, HeldStatuses
    <2>8. QED
      BY <1>1, <2>1, <2>2, <2>4, <2>5, <2>6, <2>7 DEF Next, Advance, ObserveFill
  <1>2. TypeOK /\ HoldInv /\ [Next]_vars => [\A o \in Orders : Kept(o)]_vars
    BY <1>1
  <1>3. QED
    BY <1>2, HoldAlways, PTL DEF Spec, ReleasedReturnsOnlyByFill
=============================================================================
