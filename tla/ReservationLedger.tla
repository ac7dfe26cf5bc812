-------------------------- MODULE ReservationLedger --------------------------
(***************************************************************************)
(* The money side of one execution account: the transactions of            *)
(* adapter/postgres/reservation.go, fill_ledger.go, fill_ledger_positions  *)
(* and no_fill_release.go.  Every transaction takes the account row lock   *)
(* first, so each one is a single action here; a transaction that fails    *)
(* rolls back and is no step at all.                                       *)
(*                                                                         *)
(* Money is counted in the last digit PostgreSQL keeps of a numeric        *)
(* quotient, so that every amount is an integer and a division rounds.     *)
(* Cost basis and profit are left out.                                     *)
(***************************************************************************)
EXTENDS OrderState, Functions

CONSTANTS
    Orders,       \* the orders of the account
    Tokens,       \* the outcome tokens they trade
    Lots,         \* the position lots that exist at the start
    Fills,        \* fill_key of every fill the venue may report
    Intent,       \* Orders -> side, token, lot, size, unit, worst, immediate, improves
    Trade,        \* Fills  -> order, shares, gross, fee
    InitialCash,
    InitialLot,   \* Lots -> shares
    LotToken,     \* Lots -> token
    InitialShares, \* Tokens -> shares held at the start
    Reported      \* the fill statuses short of CONFIRMED the venue reports

Sides == {"BUY", "SELL"}
AllLots == Lots \cup Fills
FillStatuses == {"MATCHED", "MINED", "CONFIRMED", "RETRYING", "FAILED"}

\* The intents and trades are well formed.  A trade of a BUY never costs more
\* per share than the unit its reservation was computed from: the venue
\* executes inside the limit price and the fee stays inside the buffer.
ASSUME LedgerConstants ==
    /\ InitialCash \in Nat
    /\ InitialLot \in [Lots -> Nat]
    /\ LotToken \in [Lots -> Tokens]
    /\ InitialShares \in [Tokens -> Nat]
    /\ Intent \in [Orders -> [side : Sides, token : Tokens, lot : AllLots, size : Nat \ {0},
                              unit : Nat \ {0}, worst : Nat, immediate : BOOLEAN, improves : BOOLEAN]]
    /\ Trade \in [Fills -> [order : Orders, shares : Nat \ {0}, gross : Nat \ {0}, fee : Nat]]
    /\ Lots \cap Fills = {}
    /\ Reported \subseteq FillStatuses \ {"CONFIRMED"}
    /\ \A f \in Fills : Intent[Trade[f].order].side = "BUY" =>
          Trade[f].gross + Trade[f].fee <= Intent[Trade[f].order].unit * Trade[f].shares

\* The account starts with its lots adding up to its positions.
ASSUME LotsExplainPositions ==
    \A t \in Tokens :
        InitialShares[t] = SumFunctionOnSet(InitialLot, {l \in Lots : LotToken[l] = t})

VARIABLES
    order,     \* Orders -> the execution_orders row
    res,       \* Orders -> the asset_reservations row
    cash,      \* the execution_accounts row
    position,  \* Tokens -> the execution_positions row
    lot,       \* AllLots -> remaining_shares
    fill,      \* Fills -> the execution_fills row
    dead       \* Orders -> the REJECTED or CANCELLED rows a caller may hold a copy of

vars == <<order, res, cash, position, lot, fill, dead>>

\* Of a SELL, a trade brings in the gross less the fee; of a BUY it costs both.
NetCash(f) ==
    IF Intent[Trade[f].order].side = "BUY"
    THEN -(Trade[f].gross + Trade[f].fee) ELSE Trade[f].gross - Trade[f].fee

NoReservation == [status |-> "NONE", balance |-> 0, shares |-> 0,
                  settled |-> 0, notional |-> 0, fees |-> 0]

Init ==
    /\ order = [o \in Orders |-> [status |-> "RECEIVED", filled |-> 0, notional |-> 0,
                                  fees |-> 0, average |-> 0]]
    /\ res = [o \in Orders |-> NoReservation]
    /\ cash = [total |-> InitialCash, available |-> InitialCash, reserved |-> 0]
    /\ lot = [l \in AllLots |-> IF l \in Lots THEN InitialLot[l] ELSE 0]
    /\ position = [t \in Tokens |-> [total |-> InitialShares[t], available |-> InitialShares[t],
                                     reserved |-> 0]]
    /\ fill = [f \in Fills |-> [status |-> "NONE", applied |-> FALSE]]
    /\ dead = [o \in Orders |-> {}]

-----------------------------------------------------------------------------
(* Helpers.                                                                *)

\* The statuses in which a reservation still freezes collateral.
HeldStatuses == {"ACTIVE", "RECONCILIATION_REQUIRED"}
Held(o) == res[o].status \in HeldStatuses

Buys(o) == Intent[o].side = "BUY"

\* The reservations that exclude another one of o: the same token on the BUY
\* side, the same lot on the SELL side.
Excludes(o, p) ==
    /\ Intent[o].side = Intent[p].side
    /\ IF Buys(o) THEN Intent[o].token = Intent[p].token ELSE Intent[o].lot = Intent[p].lot

\* Variant: a rival whose fate is uncertain is overlooked.
RivalsActiveOnly(o) == {p \in Orders \ {o} : res[p].status = "ACTIVE" /\ Excludes(o, p)}

Rivals(o) == {p \in Orders \ {o} : Held(p) /\ Excludes(o, p)}

\* A numeric quotient, rounded half up to the last digit kept.
Quotient(a, b) == (2 * a + b) \div (2 * b)

\* What is left of the requested shares after a cumulative fill.
Unfilled(o, filled) == IF filled < Intent[o].size THEN Intent[o].size - filled ELSE 0

\* The cash an open remainder of a BUY freezes.
Collateral(o, shares) == IF Buys(o) THEN Intent[o].unit * shares ELSE 0

\* asset_reservations_buy_spend_within_reserve: what a BUY has spent together
\* with what it still freezes stays within the initial reservation.
WithinReserve(o, r) ==
    Buys(o) => r.notional + r.fees + r.balance <= Intent[o].unit * Intent[o].size

\* Part of the available cash or shares is frozen; some are gained.
Freeze(r, n) == [total |-> r.total, available |-> r.available - n, reserved |-> r.reserved + n]
Gain(r, n) == [total |-> r.total + n, available |-> r.available + n, reserved |-> r.reserved]

\* The rows a caller may keep a copy of once the order is REJECTED or CANCELLED.
Bury(o) ==
    [dead EXCEPT ![o] = IF order'[o].status \in {"REJECTED", "CANCELLED"}
                        THEN @ \cup {[filled |-> order'[o].filled, average |-> order'[o].average]} ELSE @]

TokenOfLot(l) == IF l \in Lots THEN LotToken[l] ELSE Intent[Trade[l].order].token

\* The shares of a token its lots account for.
LotShares(t) == SumFunctionOnSet(lot, {l \in AllLots : TokenOfLot(l) = t})

-----------------------------------------------------------------------------
(* Reserve: freeze the cash of a BUY or the shares of a SELL.              *)

\* The balance or the shares are available in full.
Affordable(o) ==
    IF Buys(o)
    THEN cash.available >= Collateral(o, Intent[o].size)
    ELSE /\ lot[Intent[o].lot] >= Intent[o].size
         /\ TokenOfLot(Intent[o].lot) = Intent[o].token
         /\ position[Intent[o].token].available >= Intent[o].size

Reserve(o) ==
    /\ order[o].status = "VALIDATING"
    /\ res[o].status = "NONE"
    /\ Rivals(o) = {}
    /\ Affordable(o)
    /\ LET amount == Collateral(o, Intent[o].size)
           shares == IF Buys(o) THEN 0 ELSE Intent[o].size
       IN /\ cash' = Freeze(cash, amount)
          /\ position' = [position EXCEPT ![Intent[o].token] = Freeze(@, shares)]
          /\ res' = [res EXCEPT ![o] = [NoReservation EXCEPT !.status = "ACTIVE",
                                                             !.balance = amount, !.shares = shares]]
    /\ UNCHANGED <<order, lot, fill, dead>>

-----------------------------------------------------------------------------
(* Reconcile: settle the difference between an order and its reservation   *)
(* and release what is left.  The caller passes the order as it read it: a *)
(* fill may have been booked since.                                        *)

\* Variant: a copy older than the reservation is accepted.
ReconcilableStale(o, c) ==
    /\ res[o].status # "NONE"
    /\ c.filled <= Intent[o].size
    /\ c.average * c.filled >= 0

\* reconcileReservationTx refuses to move a reservation backward, in shares or
\* in the notional it computes from the average price.
Reconcilable(o, c) ==
    /\ res[o].status # "NONE"
    /\ c.filled >= res[o].settled
    /\ c.filled <= Intent[o].size
    /\ c.average * c.filled >= res[o].notional

\* The settlement of a copy c whose status is REJECTED or CANCELLED.
SettleReservation(o, c) ==
    LET r      == res[o]
        delta  == c.average * c.filled - r.notional
        shares == c.filled - r.settled
        next   == [status |-> "RELEASED", balance |-> 0, shares |-> 0, settled |-> c.filled,
                   notional |-> c.average * c.filled, fees |-> r.fees]
    IN /\ Reconcilable(o, c)
       /\ WithinReserve(o, next)
       /\ res' = [res EXCEPT ![o] = next]
       /\ \/ /\ Buys(o)
             /\ cash.reserved >= r.balance
             /\ cash.total >= delta
             /\ cash.total - delta >= cash.reserved - r.balance
             /\ cash' = [total     |-> cash.total - delta,
                         reserved  |-> cash.reserved - r.balance,
                         available |-> (cash.total - delta) - (cash.reserved - r.balance)]
             /\ position' = [position EXCEPT ![Intent[o].token] = Gain(@, shares)]
          \/ LET p == position[Intent[o].token]
             IN /\ ~Buys(o)
                /\ p.total >= shares /\ p.reserved >= r.shares
                /\ p.total - shares >= p.reserved - r.shares
                /\ position' = [position EXCEPT ![Intent[o].token] =
                                  [total     |-> p.total - shares,
                                   reserved  |-> p.reserved - r.shares,
                                   available |-> (p.total - shares) - (p.reserved - r.shares)]]
                /\ cash' = Gain(cash, delta)

\* Every caller passes an order it read as REJECTED or CANCELLED.
Reconcile(o) ==
    /\ \E c \in dead[o] : SettleReservation(o, c)
    /\ UNCHANGED <<order, lot, fill, dead>>

\* Variant: a released reservation is marked as well.
MarkUncertainAlways(o) ==
    /\ res[o].status # "NONE"
    /\ res' = [res EXCEPT ![o].status = "RECONCILIATION_REQUIRED"]
    /\ UNCHANGED <<order, cash, position, lot, fill, dead>>

\* A reservation whose order's fate is unknown keeps its collateral.
MarkUncertain(o) ==
    /\ Held(o)
    /\ res' = [res EXCEPT ![o].status = "RECONCILIATION_REQUIRED"]
    /\ UNCHANGED <<order, cash, position, lot, fill, dead>>

\* applyOnce of the no-fill release: an UNKNOWN order the venue never accepted
\* is cancelled and its reservation released in one transaction.
NoFillRelease(o) ==
    /\ order[o].status = "UNKNOWN"
    /\ order[o].filled = 0
    /\ Held(o) /\ res[o].settled = 0
    /\ \A f \in Fills : Trade[f].order = o => fill[f].status = "NONE"
    /\ order' = [order EXCEPT ![o].status = "CANCELLED"]
    /\ SettleReservation(o, order[o])
    /\ dead' = Bury(o)
    /\ UNCHANGED <<lot, fill>>

-----------------------------------------------------------------------------
(* FillLedger.Record: one observation of one trade.                        *)

FillCanTransitionTo(s, t) ==
    \/ t = s \/ s = "NONE"
    \/ s = "MATCHED" /\ t \in {"MINED", "RETRYING", "CONFIRMED", "FAILED"}
    \/ s = "MINED" /\ t \in {"RETRYING", "CONFIRMED", "FAILED"}
    \/ s = "RETRYING" /\ t \in {"MATCHED", "MINED", "CONFIRMED", "FAILED"}

\* Variant: a fill that was already applied is recorded again.
RecordableAgain(f, s) ==
    /\ order[Trade[f].order].status \notin PreSubmit
    /\ FillCanTransitionTo(fill[f].status, s)

\* The order carries its venue order id from SUBMITTING on, and a trade of an
\* order without one belongs to no order.
Recordable(f, s) ==
    /\ order[Trade[f].order].status \notin PreSubmit
    /\ FillCanTransitionTo(fill[f].status, s)
    /\ ~fill[f].applied

\* A trade that is not final is only remembered.
ObserveFill(f, s) ==
    /\ Recordable(f, s)
    /\ fill' = [fill EXCEPT ![f].status = s]
    /\ UNCHANGED <<order, res, cash, position, lot, dead>>

CumulativeShares(f) == order[Trade[f].order].filled + Trade[f].shares

\* The status the confirmed trade leaves its order in.
FillTarget(f) ==
    LET o == Trade[f].order
    IN IF CumulativeShares(f) >= Intent[o].size THEN "FILLED"
       ELSE IF order[o].status = "MANUAL_REVIEW" THEN "MANUAL_REVIEW"
       ELSE IF order[o].status = "CANCELLED" \/ Intent[o].immediate THEN "CANCELLED"
       ELSE "PARTIALLY_FILLED"

FillTransitionAllowed(f) ==
    LET o == Trade[f].order
    IN FillEdgesAllowed(order[o].status, FillTarget(f), CumulativeShares(f), Intent[o].size, Intent[o].improves)

\* Shares beyond the requested size are accepted only of a price improvement
\* that cost no more than the order was allowed to cost.
FillWithinSize(f) ==
    LET o == Trade[f].order
        notional == order[o].notional + Trade[f].gross
    IN \/ CumulativeShares(f) <= Intent[o].size
       \/ /\ Intent[o].improves
          /\ notional <= Intent[o].size * Intent[o].worst
          /\ notional + order[o].fees + Trade[f].fee <= Intent[o].unit * Intent[o].size

\* Variant: a partial fill of a cancelled order counts as its end.
ReservationStatusAfterFillReleasing(target) ==
    CASE target = "FILLED"        -> "SETTLED"
      [] target = "CANCELLED"     -> "RELEASED"
      [] target = "MANUAL_REVIEW" -> "RECONCILIATION_REQUIRED"
      [] OTHER                    -> "ACTIVE"

\* A cancelled order is not final for its reservation: the remainder stays
\* frozen, or is frozen again, until the cancellation is finalized.
ReservationStatusAfterFill(target) ==
    CASE target = "FILLED"                          -> "SETTLED"
      [] target \in {"CANCELLED", "MANUAL_REVIEW"}  -> "RECONCILIATION_REQUIRED"
      [] OTHER                                      -> "ACTIVE"

ReservationAfterFill(f) ==
    LET o == Trade[f].order
        left == IF FillTarget(f) = "FILLED" THEN 0 ELSE Unfilled(o, CumulativeShares(f))
    IN [status   |-> ReservationStatusAfterFill(FillTarget(f)),
        balance  |-> Collateral(o, left),
        shares   |-> IF Buys(o) THEN 0 ELSE left,
        settled  |-> Intent[o].size - Unfilled(o, CumulativeShares(f)),
        notional |-> order[o].notional + Trade[f].gross,
        fees     |-> order[o].fees + Trade[f].fee]

\* The account can carry the trade: the checks of applyBuy and applySell, the
\* unique index over held reservations, and the spending cap.
FillCovered(f) ==
    LET o == Trade[f].order
        r == ReservationAfterFill(f)
        p == position[Intent[o].token]
    IN /\ res[o].status # "NONE"
       /\ WithinReserve(o, r)
       /\ r.status \in HeldStatuses => Rivals(o) = {}
       /\ IF Buys(o)
          THEN /\ cash.reserved >= res[o].balance
               /\ cash.total + NetCash(f) >= 0
               /\ cash.total + NetCash(f) >= cash.reserved - res[o].balance + r.balance
          ELSE /\ NetCash(f) >= 0
               /\ lot[Intent[o].lot] >= Trade[f].shares
               /\ LotShares(Intent[o].token) = p.total
               /\ p.total >= Trade[f].shares /\ p.reserved >= res[o].shares
               /\ p.total - Trade[f].shares >= p.reserved - res[o].shares + r.shares

\* Variant: the cost of the trade is taken out of the hold, not the hold itself.
ApplyBuySpendingHold(f) ==
    LET o == Trade[f].order
        total == cash.total + NetCash(f)
        reserved == cash.reserved + NetCash(f)
    IN /\ Buys(o)
       /\ cash' = [total |-> total, reserved |-> reserved, available |-> total - reserved]
       /\ position' = [position EXCEPT ![Intent[o].token] = Gain(@, Trade[f].shares)]
       /\ lot' = [lot EXCEPT ![f] = Trade[f].shares]

ApplyBuy(f) ==
    LET o == Trade[f].order
        total == cash.total + NetCash(f)
        reserved == cash.reserved - res[o].balance + ReservationAfterFill(f).balance
    IN /\ Buys(o)
       /\ cash' = [total |-> total, reserved |-> reserved, available |-> total - reserved]
       /\ position' = [position EXCEPT ![Intent[o].token] = Gain(@, Trade[f].shares)]
       /\ lot' = [lot EXCEPT ![f] = Trade[f].shares]

ApplySell(f) ==
    LET o == Trade[f].order
        p == position[Intent[o].token]
        total == p.total - Trade[f].shares
        reserved == p.reserved - res[o].shares + ReservationAfterFill(f).shares
    IN /\ ~Buys(o)
       /\ position' = [position EXCEPT ![Intent[o].token] =
                         [total |-> total, reserved |-> reserved, available |-> total - reserved]]
       /\ cash' = Gain(cash, NetCash(f))
       /\ lot' = [lot EXCEPT ![Intent[o].lot] = @ - Trade[f].shares]

ApplyFill(f) ==
    LET o == Trade[f].order
        notional == order[o].notional + Trade[f].gross
    IN /\ Recordable(f, "CONFIRMED")
       /\ FillWithinSize(f)
       /\ FillTransitionAllowed(f)
       /\ FillCovered(f)
       /\ ApplyBuy(f) \/ ApplySell(f)
       /\ res' = [res EXCEPT ![o] = ReservationAfterFill(f)]
       /\ order' = [order EXCEPT ![o] =
                      [status   |-> FillTarget(f),
                       filled   |-> CumulativeShares(f),
                       notional |-> notional,
                       fees     |-> @.fees + Trade[f].fee,
                       average  |-> Quotient(notional, CumulativeShares(f))]]
       /\ fill' = [fill EXCEPT ![f] = [status |-> "CONFIRMED", applied |-> TRUE]]
       /\ dead' = Bury(o)

-----------------------------------------------------------------------------
\* A transition the execution service persists without touching amounts.  It
\* marks an order RESERVED only after Reserve returned.
Advance(o, t) ==
    /\ t # order[o].status
    /\ CanTransitionTo(order[o].status, t)
    /\ FillStateAllows(t, order[o].filled, Intent[o].size, Intent[o].improves)
    /\ t = "RESERVED" => Held(o)
    /\ order' = [order EXCEPT ![o].status = t]
    /\ dead' = Bury(o)
    /\ UNCHANGED <<res, cash, position, lot, fill>>

Next ==
    \/ \E o \in Orders : \/ Reserve(o) \/ Reconcile(o) \/ MarkUncertain(o) \/ NoFillRelease(o)
                         \/ \E t \in OrderStatuses : Advance(o, t)
    \/ \E f \in Fills : ApplyFill(f) \/ \E s \in Reported : ObserveFill(f, s)

Spec == Init /\ [][Next]_vars
-----------------------------------------------------------------------------
(* Properties.                                                             *)

\* The columns of an account or a position, with the identity the schema states.
BalanceRow == {r \in [total : Nat, available : Nat, reserved : Nat] : r.total = r.available + r.reserved}

OrderRow == [status : OrderStatuses, filled : Nat, notional : Nat, fees : Nat, average : Nat]
ReservationRow == [status : HeldStatuses \cup {"NONE", "RELEASED", "SETTLED"}, balance : Nat,
                   shares : Nat, settled : Nat, notional : Nat, fees : Nat]

\* Every row has its columns and meets the CHECKs of the schema: no transaction
\* drives a balance, a position or a lot below zero, and total is available plus
\* reserved after each of them.
TypeOK ==
    /\ order \in [Orders -> OrderRow]
    /\ res \in [Orders -> ReservationRow]
    /\ cash \in BalanceRow
    /\ position \in [Tokens -> BalanceRow]
    /\ lot \in [AllLots -> Nat]
    /\ fill \in [Fills -> [status : FillStatuses \cup {"NONE"}, applied : BOOLEAN]]
    /\ dead \in [Orders -> SUBSET [filled : Nat, average : Nat]]

\* The collateral a reservation freezes is exactly what its unfilled remainder
\* may still cost (targetReservationAmounts, reconcileReservationTx): a held
\* reservation freezes the unit price of every unfilled share of a BUY and every
\* unfilled share of a SELL, one that is no longer held freezes nothing.
HoldCoversRemainder ==
    \A o \in Orders :
        IF Held(o)
        THEN /\ res[o].settled = order[o].filled
             /\ res[o].balance = Collateral(o, Intent[o].size - order[o].filled)
             /\ res[o].shares = IF Buys(o) THEN 0 ELSE Intent[o].size - order[o].filled
        ELSE res[o].balance = 0 /\ res[o].shares = 0

\* reserved_balance and reserved_shares are the sums of the holds: a release or
\* a fill gives back its own hold, never another order's.
HoldsExplainReserved ==
    /\ cash.reserved = SumFunction([o \in Orders |-> res[o].balance])
    /\ \A t \in Tokens : position[t].reserved =
          SumFunctionOnSet([o \in Orders |-> res[o].shares], {o \in Orders : Intent[o].token = t})

\* At no time do two held reservations compete for one token (BUY) or one lot
\* (SELL), an uncertain reservation and one revived by a late fill included.
SameDirectionExclusive ==
    \A o, p \in Orders : o # p /\ Held(o) /\ Held(p) => ~Excludes(o, p)

\* The lots of a token always add up to its position, which is what lets the
\* next SELL settle (lockTargetSellLot refuses a position its lots do not explain).
LotsExplainShares == \A t \in Tokens : LotShares(t) = position[t].total

TradeSum(g(_), S) == SumFunctionOnSet([f \in Fills |-> g(f)], S)
SpentOn(f) == Trade[f].gross + Trade[f].fee
EarnedBy(f) == Trade[f].gross - Trade[f].fee

\* The cash balance moved by exactly the confirmed trades, each of them once
\* whatever was redelivered and in whatever order: releasing a cancelled
\* remainder only unfreezes it (docs/asset-reservations.md:135).
CashExplained ==
    cash.total = InitialCash
        + TradeSum(EarnedBy, {f \in Fills : fill[f].applied /\ ~Buys(Trade[f].order)})
        - TradeSum(SpentOn, {f \in Fills : fill[f].applied /\ Buys(Trade[f].order)})

\* A confirmed trade that fits a held reservation can always be booked: the
\* account never reaches a state in which BUY_FILL_EXCEEDS_PROTECTED_BALANCE or
\* SELL_SETTLEMENT_POSITION_MISMATCH refuses a trade its own hold was made for.
ProtectedFillApplies ==
    \A f \in Fills :
        LET o == Trade[f].order
        IN Held(o) /\ ~fill[f].applied /\ CumulativeShares(f) <= Intent[o].size => FillCovered(f)

\* Only a late confirmed trade of the cancelled order takes a released
\* reservation back into force, and a settled one never comes back.
ReleasedReturnsOnlyByFill ==
    [][\A o \in Orders :
        /\ res[o].status = "RELEASED" /\ res'[o].status \in HeldStatuses =>
               order[o].status = "CANCELLED" /\ order'[o].filled > order[o].filled
        /\ res[o].status = "SETTLED" => res'[o].status = "SETTLED"]_vars

\* docs/asset-reservations.md:143: the remainder of a cancelled order is
\* released once finality is reached.  Whatever the trades were, the settlement
\* a cancelled order asks for is one reconcileReservationTx accepts.
CancelledIsReleasable ==
    \A o \in Orders : order[o].status = "CANCELLED" /\ Held(o) => Reconcilable(o, order[o])
=============================================================================
