---------------------------- MODULE KalshiBooks ----------------------------
(***************************************************************************)
(* The cash and lots of one Kalshi account in one market, kept beside an   *)
(* exchange that moves the same money by itself.                           *)
(*                                                                         *)
(* Kalshi nets the two sides of a market (a YES and a NO leave together    *)
(* and pay one dollar) and settles it (winners are paid, the position      *)
(* disappears) without an order of ours.  The ledger repeats both: netting *)
(* inside the transaction that books a fill (kalshi_netting.go), the       *)
(* settlement in a periodic sweep (kalshisettlement, kalshi_settlement_    *)
(* store.go).  Money the ledger cannot explain, a deposit or a withdrawal, *)
(* is booked by overwriting the local cash with the exchange's: when the   *)
(* process starts (kalshi_account_sync.go) and by the sweep                *)
(* (kalshi_ledger_sync.go).  Three operator tools repair what the sweep    *)
(* refuses: kalshinetrepair, kalshisettlementreview and kalshirepair.      *)
(*                                                                         *)
(* Every local transaction takes the account's row lock, so each is one    *)
(* step; what a process read before it is kept in ksweep, kstart or ktool. *)
(* One unit of money is more than the drift threshold.                     *)
(***************************************************************************)
EXTENDS Integers, Sequences, FiniteSets, FiniteSetsExt, SequencesExt

CONSTANTS Sides,          \* the two sides of the market, YES and NO
          MaxTrades,      \* orders the account places
          TradeSizes,     \* contracts of an order
          TradePrices,    \* price of one contract; a pair pays Dollar
          Dollar,         \* what a pair, or a winning contract, pays
          OpeningCash,    \* exchange cash before the account is known locally
          MaxOpen,        \* orders open at one time
          MaxEvents,      \* restarts, sweeps, failed reads, tool runs, transfers,
                          \* escalations
          PositionCheck   \* KALSHI_POSITION_CHECK_ENABLED

ASSUME KalshiAssumption ==
    /\ IsFiniteSet(Sides) /\ Cardinality(Sides) = 2
    /\ MaxTrades \in Nat /\ Dollar \in Nat \ {0} /\ OpeningCash \in Nat
    /\ TradeSizes \subseteq Nat \ {0}
    /\ TradePrices \subseteq 1..(Dollar - 1)
    /\ PositionCheck \in BOOLEAN

VARIABLES exch,      \* the exchange: cash, net position, result, fills, transfers
          kbook,     \* the local ledger of the account
          ktrades,   \* the account's orders and their reservations
          kcheck,    \* kalshi_ledger_checks: the observation waiting to be
                     \* confirmed, if there is one
          ksweep,    \* the sweep in progress and what it has read
          kstart,    \* the startup synchronisation and what it has read
          ktool,     \* the operator tool in progress and its evidence
          kspent     \* events so far, up to MaxEvents

kalshiVars == <<exch, kbook, ktrades, kcheck, ksweep, kstart, ktool, kspent>>

TradeIds == 1..MaxTrades
Spend == kspent < MaxEvents /\ kspent' = kspent + 1
Nothing == "nothing"

Flip(side) == CHOOSE other \in Sides : other # side
Lesser(a, b) == IF a < b THEN a ELSE b
SumOver(S, f(_)) == FoldSet(LAMBDA x, acc : f(x) + acc, 0, S)

(***************************************************************************)
(* The local ledger                                                        *)
(***************************************************************************)
HeldTrades == {i \in TradeIds : ktrades[i].st = "held"}
\* An ACTIVE or RECONCILIATION_REQUIRED reservation, or an order that is not final.
KalshiBusy == HeldTrades # {}
ReservedCash ==
    SumOver({i \in HeldTrades : ktrades[i].buy}, LAMBDA i : ktrades[i].size * ktrades[i].price)
ReservedSides == {ktrades[i].side : i \in {j \in HeldTrades : ~ktrades[j].buy}}

LotsOf(b, side) == {i \in TradeIds : b.lots[i].shares > 0 /\ ktrades[i].side = side}
SharesOf(b, side) == SumOver(LotsOf(b, side), LAMBDA i : b.lots[i].shares)
BothSides(b) == \A side \in Sides : SharesOf(b, side) > 0
LocalNet(b) == [side \in Sides |-> Max({0, SharesOf(b, side) - SharesOf(b, Flip(side))})]

\* FIFO by the time the exchange matched the opening fill.
OlderLot(i, j) ==
    \E m, n \in DOMAIN exch.fills : m < n /\ exch.fills[m] = i /\ exch.fills[n] = j
\* i was applied to the ledger before j.
AppliedBefore(b, i, j) ==
    \E m, n \in DOMAIN b.applied : m < n /\ b.applied[m] = i /\ b.applied[n] = j

\* The closures of one netting: contracts taken from each lot, oldest opposite lot first.
NettingClosures(b, i, opposite) ==
    LET pairs == Lesser(b.lots[i].shares, SumOver(opposite, LAMBDA j : b.lots[j].shares))
        before(j) == SumOver({k \in opposite : OlderLot(k, j)}, LAMBDA k : b.lots[k].shares)
        taken(j) == IF j = i THEN pairs
                    ELSE Max({0, Lesser(b.lots[j].shares, pairs - before(j))})
    IN [j \in {k \in opposite \cup {i} : taken(k) > 0} |-> taken(j)]

\* Cost follows contracts; closing a whole lot takes its whole cost.
ClosedCost(lot, shares) ==
    IF shares = lot.shares THEN lot.cost ELSE (lot.cost * shares) \div lot.shares

\* Mutant: every closure gets its truncated part.
AllocatedCashTruncated(payout, cost) ==
    LET total == SumOver(DOMAIN cost, LAMBDA j : cost[j])
    IN [j \in DOMAIN cost |-> (payout * cost[j]) \div total]

\* The payout is split by cost; the largest closure takes the division's remainder.
AllocatedCash(payout, cost) ==
    LET total == SumOver(DOMAIN cost, LAMBDA j : cost[j])
        largest == CHOOSE j \in DOMAIN cost : \A k \in DOMAIN cost : cost[k] <= cost[j]
        part(j) == (payout * cost[j]) \div total
    IN [j \in DOMAIN cost |->
          IF j = largest
          THEN payout - SumOver(DOMAIN cost \ {largest}, LAMBDA k : part(k))
          ELSE part(j)]

\* Net the fill that opened lot i against the opposite lots the caller may use.
NetFill(b, i, opposite) ==
    LET closed == NettingClosures(b, i, opposite)
        pairs == closed[i]
        cost == [j \in DOMAIN closed |-> ClosedCost(b.lots[j], closed[j])]
        cash == AllocatedCash(pairs * Dollar, cost)
        profit == SumOver(DOMAIN closed, LAMBDA j : cash[j] - cost[j])
    IN IF opposite = {} \/ b.lots[i].shares = 0 THEN b
       ELSE [b EXCEPT !.cash = @ + pairs * Dollar,
                      !.version = @ + 1,
                      !.realized = @ + profit,
                      !.netted = @ \cup {i},
                      !.lots = [j \in TradeIds |->
                                  IF j \in DOMAIN closed
                                  THEN [shares |-> @[j].shares - closed[j],
                                        cost |-> @[j].cost - cost[j]]
                                  ELSE @[j]]]

\* Netting at booking time waits while an open SELL reserves the opposite side.
NetAtBooking(b, i) ==
    IF Flip(ktrades[i].side) \in ReservedSides THEN b
    ELSE NetFill(b, i, LotsOf(b, Flip(ktrades[i].side)))

\* The tools replay, in booking order, the BUY fills that have no netting event.
FillsToNet(b) == SelectSeq(b.applied, LAMBDA i : ktrades[i].buy /\ i \notin b.netted)
ReplayNetting(b) ==
    FoldSeq(LAMBDA i, acc :
              NetFill(acc, i, {j \in LotsOf(acc, Flip(ktrades[i].side)) : AppliedBefore(b, j, i)}),
            b, FillsToNet(b))

(***************************************************************************)
(* Settlement of the market against the ledger                             *)
(***************************************************************************)
\* The exchange's record of a settled market.
SettlementRecord == exch.record

\* Counts and revenue of the record agree with the locked holdings.
SettlementMatches(b, record) ==
    /\ \A side \in Sides : record.counts[side] = SharesOf(b, side)
    /\ record.revenue = Dollar * SharesOf(b, record.result)

\* Close every lot of the market; what the record pays beyond their cost is profit.
CloseHoldings(b, record) ==
    [b EXCEPT !.realized = @ + record.revenue - SumOver(TradeIds, LAMBDA i : b.lots[i].cost),
              !.lots = [i \in TradeIds |-> [shares |-> 0, cost |-> 0]]]

CreditSettlement(b, record) ==
    [b EXCEPT !.cash = @ + record.revenue, !.version = @ + 1]

SettleHoldings(b, record) == CreditSettlement(CloseHoldings(b, record), record)

\* The row of the settlement: applied, or held for an operator.
SettlementRow(b, status) == [b EXCEPT !.row = status]

Holds(b) == \E i \in TradeIds : b.lots[i].shares > 0

ApplyKalshiSettlement(b, record) ==
    IF \/ b.row # "none"              \* already applied, or held for review
       \/ ~Holds(b)                   \* no position
       \/ ReservedSides # {}          \* deferred: an order reserves shares
    THEN b
    ELSE IF SettlementMatches(b, record)
         THEN SettlementRow(SettleHoldings(b, record), "APPLIED")
         ELSE SettlementRow(b, "MANUAL_REVIEW")

(***************************************************************************)
(* Booking a difference                                                    *)
(***************************************************************************)
\* bookKalshiBalanceSync: the exchange's cash replaces the local cash.
BookBalanceSync(b, balance) ==
    [b EXCEPT !.synced = @ + balance - b.cash, !.cash = balance, !.version = @ + 1]

\* kalshiLedgerBusyReason: the two sides may legitimately differ right now.
LedgerIsBusy(b, seen) ==
    \/ KalshiBusy
    \/ b.version # seen.version
    \/ Holds(b) /\ b.row = "MANUAL_REVIEW"
    \/ seen.activity \/ seen.failed

\* compareKalshiPositions: markets with a settlement row are left out.
PositionsDiffer(b, seen) ==
    b.row = "none" /\ (LocalNet(b) # seen.net \/ BothSides(b))

\* A real difference that may be an unbooked netting payout or foreign trading.
DifferenceIsUnexplained(b, seen) ==
    \/ BothSides(b)
    \/ PositionCheck /\ (~seen.checked \/ PositionsDiffer(b, seen))

\* The waiting observation is exactly this one: same cash on both sides, same version.
Confirms(observed) == observed \in kcheck
NothingPending == {}

\* One locked check of what the sweep observed: skip, agree, remember, or book.
SyncKalshiLedger(seen) ==
    LET observed == [local |-> kbook.cash, exchange |-> seen.cash, version |-> kbook.version]
    IN IF LedgerIsBusy(kbook, seen) \/ DifferenceIsUnexplained(kbook, seen)
          \/ seen.cash = kbook.cash
       THEN kcheck' = NothingPending /\ UNCHANGED kbook
       ELSE IF ~Confirms(observed)
            THEN kcheck' = {observed} /\ UNCHANGED kbook
            ELSE kcheck' = NothingPending /\ kbook' = BookBalanceSync(kbook, seen.cash)

(***************************************************************************)
(* The exchange                                                            *)
(***************************************************************************)
Flat == [side \in Sides |-> 0]

\* The exchange fills an order in full.  Opposite contracts leave in pairs;
\* selling what netting already removed opens the other side instead.
ExchangeFills(i) ==
    LET t == ktrades[i]
        gains == IF t.buy THEN t.side ELSE Flip(t.side)
        met == Lesser(t.size, exch.net[Flip(gains)])
        cash == IF t.buy THEN Dollar * met - t.size * t.price
                ELSE t.size * t.price - Dollar * (t.size - met)
    IN /\ t.st = "held" /\ t.venue = "live"
       /\ exch.result = Nothing
       /\ exch.cash + cash >= 0
       /\ exch' = [exch EXCEPT !.cash = @ + cash, !.net[gains] = @ + t.size - met,
                               !.net[Flip(gains)] = @ - met,
                               !.fills = Append(@, i)]
       /\ ktrades' = [ktrades EXCEPT ![i].venue = "filled"]
       /\ UNCHANGED <<kbook, kcheck, ksweep, kstart, ktool, kspent>>

\* The market is determined: winners are paid and the position is gone.
ExchangeSettles(result) ==
    LET record == [result |-> result, counts |-> exch.net, revenue |-> Dollar * exch.net[result]]
    IN /\ exch.result = Nothing /\ exch.fills # <<>>
       /\ exch' = [exch EXCEPT !.result = result, !.record = record,
                               !.cash = @ + record.revenue, !.net = Flat]
       /\ UNCHANGED <<kbook, ktrades, kcheck, ksweep, kstart, ktool, kspent>>

\* A deposit or a withdrawal.
ExchangeTransfer(amount) ==
    /\ Spend
    /\ exch.cash + amount >= 0
    /\ exch' = [exch EXCEPT !.cash = @ + amount, !.moved = @ + amount,
                            !.totals = @ \cup {exch.moved + amount}]
    /\ UNCHANGED <<kbook, ktrades, kcheck, ksweep, kstart, ktool>>

(***************************************************************************)
(* Orders of the account                                                   *)
(***************************************************************************)
\* The startup synchronisation holds the row lock while it asks the exchange.
Unlocked == kstart.pc # "locked"
Running == kstart.pc = "up"
NextTrade == Cardinality({i \in TradeIds : ktrades[i].st # "none"}) + 1

\* A BUY holds its cost and changes the account's version.
ReserveBuy(side, size, price) ==
    LET i == NextTrade IN
    /\ Running /\ i \in TradeIds /\ Cardinality(HeldTrades) < MaxOpen
    /\ kbook.cash - ReservedCash >= size * price
    /\ ktrades' = [ktrades EXCEPT ![i] = [st |-> "held", venue |-> "live", side |-> side,
                     buy |-> TRUE, size |-> size, price |-> price, lot |-> 0, review |-> FALSE]]
    /\ kbook' = [kbook EXCEPT !.version = @ + 1]
    /\ UNCHANGED <<exch, kcheck, ksweep, kstart, ktool, kspent>>

\* A SELL holds the contracts of its lot; the account's version does not change.
ReserveSell(lot, price) ==
    LET i == NextTrade IN
    /\ Running /\ i \in TradeIds /\ Cardinality(HeldTrades) < MaxOpen
    /\ kbook.lots[lot].shares > 0
    /\ \A j \in HeldTrades : ktrades[j].lot # lot
    /\ ktrades' = [ktrades EXCEPT ![i] = [st |-> "held", venue |-> "live",
                     side |-> ktrades[lot].side, buy |-> FALSE,
                     size |-> kbook.lots[lot].shares, price |-> price, lot |-> lot,
                     review |-> FALSE]]
    /\ UNCHANGED <<exch, kbook, kcheck, ksweep, kstart, ktool, kspent>>

\* FillLedger.Record: cash, lot, reservation and netting in one transaction.
BookKalshiFill(i) ==
    LET t == ktrades[i]
        paid == t.size * t.price
        bought == [kbook EXCEPT !.cash = @ - paid, !.version = @ + 1,
                                !.applied = Append(@, i),
                                !.lots[i] = [shares |-> t.size, cost |-> paid]]
        sold == [kbook EXCEPT !.cash = @ + paid, !.version = @ + 1,
                              !.applied = Append(@, i),
                              !.realized = @ + paid - kbook.lots[t.lot].cost,
                              !.lots[t.lot] = [shares |-> 0, cost |-> 0]]
    IN /\ Running
       /\ t.st = "held" /\ t.venue = "filled"
       /\ ktrades' = [ktrades EXCEPT ![i].st = "done"]
       /\ kbook' = IF t.buy THEN NetAtBooking(bought, i) ELSE sold
       /\ UNCHANGED <<exch, kcheck, ksweep, kstart, ktool, kspent>>

\* The exchange reports that the order ended without a fill: its reservation is
\* released.  (Until it reports, a dead order is one that does not fill.)
ReleaseKalshiOrder(i) ==
    /\ Running
    /\ ktrades[i].st = "held" /\ ktrades[i].venue = "live" /\ ~ktrades[i].review
    /\ ktrades' = [ktrades EXCEPT ![i].st = "done", ![i].venue = "dead"]
    /\ kbook' = [kbook EXCEPT !.version = @ + 1]
    /\ UNCHANGED <<exch, kcheck, ksweep, kstart, ktool, kspent>>

\* Recovery gives up on an order: MANUAL_REVIEW keeps the reservation.
EscalateKalshiOrder(i) ==
    /\ Running
    /\ ktrades[i].st = "held" /\ ~ktrades[i].review
    /\ Spend
    /\ ktrades' = [ktrades EXCEPT ![i].review = TRUE]
    /\ UNCHANGED <<exch, kbook, kcheck, ksweep, kstart, ktool>>

\* kalshirepair asks the exchange about an order in review: it is cancelled, was
\* never filled, and its last change is older than the finality grace.
RepairEvidenceHolds(i) == ktrades[i].review /\ ktrades[i].venue = "live"

\* Released cash changes the account's version, released contracts do not.
ReleasedByRepair(b, i) == [b EXCEPT !.version = IF ktrades[i].buy THEN @ + 1 ELSE @]

RepairCancelledOrder(i) ==
    /\ Unlocked
    /\ ktrades[i].st = "held" /\ RepairEvidenceHolds(i)
    /\ ktrades' = [ktrades EXCEPT ![i].st = "done", ![i].venue = "dead"]
    /\ kbook' = ReleasedByRepair(kbook, i)
    /\ UNCHANGED <<exch, kcheck, ksweep, kstart, ktool, kspent>>

(***************************************************************************)
(* The sweep                                                               *)
(***************************************************************************)
NoReading == [version |-> 0, cash |-> 0, net |-> Flat, checked |-> FALSE,
              activity |-> FALSE, failed |-> FALSE, quiet |-> FALSE]
IdleSweep == [pc |-> "idle", seen |-> NoReading]

SweepSnapshot ==
    /\ Running /\ ksweep.pc = "idle" /\ Spend
    /\ ksweep' = [pc |-> "balance",
                  seen |-> [NoReading EXCEPT !.version = kbook.version, !.quiet = ~KalshiBusy]]
    /\ UNCHANGED <<exch, kbook, ktrades, kcheck, kstart, ktool>>

SweepBalance ==
    /\ Running /\ ksweep.pc = "balance"
    /\ ksweep' = [pc |-> IF PositionCheck /\ ksweep.seen.quiet THEN "positions" ELSE "records",
                  seen |-> [ksweep.seen EXCEPT !.cash = exch.cash]]
    /\ UNCHANGED <<exch, kbook, ktrades, kcheck, kstart, ktool, kspent>>

\* The positions are read, or the read fails and they stay unverified.
SweepPositions ==
    /\ Running /\ ksweep.pc = "positions"
    /\ \/ /\ ksweep' = [pc |-> "records",
                        seen |-> [ksweep.seen EXCEPT !.net = exch.net, !.checked = TRUE]]
          /\ UNCHANGED kspent
       \/ ksweep' = [ksweep EXCEPT !.pc = "records"] /\ Spend
    /\ UNCHANGED <<exch, kbook, ktrades, kcheck, kstart, ktool>>

\* OpenKalshiSettlementTickers: a held market without a settlement row is asked about.
MarketIsListed == Holds(kbook) /\ kbook.row = "none"

\* The exchange's record, which never changes once it is there, is read and applied.
SweepRecords ==
    /\ Running /\ ksweep.pc = "records"
    /\ LET seen == MarketIsListed /\ exch.result # Nothing
       IN /\ ksweep' = [ksweep EXCEPT !.pc = "sync", !.seen.activity = seen]
          /\ kbook' = IF seen THEN ApplyKalshiSettlement(kbook, SettlementRecord) ELSE kbook
    /\ UNCHANGED <<exch, ktrades, kcheck, kstart, ktool, kspent>>

\* The records of a listed market cannot be read.
SweepRecordsFail ==
    /\ Running /\ ksweep.pc = "records" /\ MarketIsListed
    /\ Spend
    /\ ksweep' = [ksweep EXCEPT !.pc = "sync", !.seen.failed = TRUE]
    /\ UNCHANGED <<exch, kbook, ktrades, kcheck, kstart, ktool>>

SweepSync ==
    /\ Running /\ ksweep.pc = "sync"
    /\ SyncKalshiLedger(ksweep.seen)
    /\ ksweep' = IdleSweep
    /\ UNCHANGED <<exch, ktrades, kstart, ktool, kspent>>

(***************************************************************************)
(* Start and crash of the process                                          *)
(***************************************************************************)
KalshiCrash ==
    /\ Running /\ Spend
    /\ kstart' = [pc |-> "down", cash |-> 0]
    /\ ksweep' = IdleSweep
    /\ UNCHANGED <<exch, kbook, ktrades, kcheck, ktool>>

\* Take the row lock, then read the exchange balance under it.
StartLocks ==
    /\ kstart.pc = "down"
    /\ kstart' = [pc |-> "locked", cash |-> exch.cash]
    /\ UNCHANGED <<exch, kbook, ktrades, kcheck, ksweep, ktool, kspent>>

\* Mutant: only settlements held for review defer, not the ones still unseen.
UnappliedSettlementInReview(b) == Holds(b) /\ b.row = "MANUAL_REVIEW"

\* A held market the exchange has settled and the ledger has not applied.
UnappliedSettlement(b) ==
    Holds(b) /\ (b.row = "MANUAL_REVIEW" \/ (b.row = "none" /\ exch.result # Nothing))

\* Insert a new account, defer, or replace the local cash.
StartBooks ==
    /\ kstart.pc = "locked"
    /\ kbook' = IF ~kbook.exists
                THEN [kbook EXCEPT !.exists = TRUE, !.cash = kstart.cash,
                                   !.synced = kstart.cash - OpeningCash]
                ELSE IF KalshiBusy \/ UnappliedSettlement(kbook) THEN kbook
                ELSE [BookBalanceSync(kbook, kstart.cash) EXCEPT
                        !.absorbed = @ \/ BothSides(kbook)]
    /\ kstart' = [pc |-> "up", cash |-> 0]
    /\ UNCHANGED <<exch, ktrades, kcheck, ksweep, ktool, kspent>>

(***************************************************************************)
(* The operator tools: evidence first, then one locked transaction         *)
(***************************************************************************)
\* A dry run rolls the same transaction back; --apply also needs the fingerprint the
\* dry run printed, and a run whose plan differs changes nothing.
IdleTool == [kind |-> "none", cash |-> 0, net |-> Flat]

\* The operator runs a tool on a market that needs it.
ToolReads(kind) ==
    /\ ktool.kind = "none" /\ kbook.exists /\ Spend
    /\ ktool' = [kind |-> kind, cash |-> exch.cash, net |-> exch.net]
    /\ UNCHANGED <<exch, kbook, ktrades, kcheck, ksweep, kstart>>

NettingToolReads == BothSides(kbook) /\ ToolReads("netting")

ReviewToolReads == kbook.row = "MANUAL_REVIEW" /\ ToolReads("review")

\* kalshinetrepair: the plan must leave one side, the exchange's net and its cash.
NettingPlanAgrees(plan) ==
    /\ kbook.row = "none"
    /\ ReservedSides = {}
    /\ ~BothSides(plan)
    /\ LocalNet(plan) = ktool.net
    /\ plan.cash = ktool.cash

NettingRepair ==
    LET plan == ReplayNetting(kbook) IN
    /\ Unlocked /\ ktool.kind = "netting"
    /\ kbook' = IF NettingPlanAgrees(plan) THEN plan ELSE kbook
    /\ ktool' = IdleTool
    /\ UNCHANGED <<exch, ktrades, kcheck, ksweep, kstart, kspent>>

\* The row held for review becomes the row the sweep would have written.
Reviewed(b) == [b EXCEPT !.row = "APPLIED"]

\* kalshisettlementreview: an idle market, equal fill sets (a settled market has no
\* more fills, so the exchange's list is the one the tool read), and after netting and
\* settlement the exchange's cash.
ReviewAgrees(netted, plan) ==
    /\ kbook.row = "MANUAL_REVIEW"
    /\ ktool.net = Flat
    /\ ~KalshiBusy
    /\ ToSet(exch.fills) = ToSet(kbook.applied)
    /\ Holds(netted)
    /\ SettlementMatches(netted, SettlementRecord)
    /\ plan.cash = ktool.cash

SettlementReview ==
    LET netted == ReplayNetting(kbook)
        plan == Reviewed(SettleHoldings(netted, SettlementRecord))
    IN /\ Unlocked /\ ktool.kind = "review"
       /\ kbook' = IF ReviewAgrees(netted, plan) THEN plan ELSE kbook
       /\ ktool' = IdleTool
       /\ UNCHANGED <<exch, ktrades, kcheck, ksweep, kstart, kspent>>

-----------------------------------------------------------------------------
\* A new account, or a running one whose exchange cash a transfer has moved.
NoTrade == [st |-> "none", venue |-> "live", side |-> Nothing, buy |-> TRUE, size |-> 0,
            price |-> 0, lot |-> 0, review |-> FALSE]

KalshiInit ==
    /\ \E moved \in {0, 1} :
         exch = [cash |-> OpeningCash + moved, net |-> Flat, result |-> Nothing,
                 record |-> Nothing, fills |-> <<>>, moved |-> moved, totals |-> {0, moved}]
    /\ kbook = [exists |-> exch.moved # 0, cash |-> OpeningCash, version |-> 1, synced |-> 0, realized |-> 0,
                lots |-> [i \in TradeIds |-> [shares |-> 0, cost |-> 0]],
                applied |-> <<>>, netted |-> {}, row |-> "none", absorbed |-> FALSE]
    /\ ktrades = [i \in TradeIds |-> NoTrade]
    /\ kcheck = NothingPending
    /\ ksweep = IdleSweep
    /\ kstart = [pc |-> IF kbook.exists THEN "up" ELSE "down", cash |-> 0]
    /\ ktool = IdleTool
    /\ kspent = 0

KalshiNext ==
    \/ \E i \in TradeIds :
         \/ ExchangeFills(i) \/ BookKalshiFill(i) \/ ReleaseKalshiOrder(i)
         \/ EscalateKalshiOrder(i) \/ RepairCancelledOrder(i)
    \/ \E result \in Sides : ExchangeSettles(result)
    \/ ExchangeTransfer(-1)
    \/ \E side \in Sides, size \in TradeSizes, price \in TradePrices :
         ReserveBuy(side, size, price)
    \/ \E lot \in TradeIds, price \in TradePrices : ReserveSell(lot, price)
    \/ SweepSnapshot \/ SweepBalance \/ SweepPositions
    \/ SweepRecords \/ SweepRecordsFail \/ SweepSync
    \/ KalshiCrash \/ StartLocks \/ StartBooks
    \/ NettingToolReads \/ ReviewToolReads \/ NettingRepair \/ SettlementReview

KalshiSpec == KalshiInit /\ [][KalshiNext]_kalshiVars

-----------------------------------------------------------------------------
(***************************************************************************)
(* Properties                                                              *)
(***************************************************************************)
KalshiTypeOK ==
    /\ exch.cash \in Nat /\ exch.net \in [Sides -> Nat]
    /\ kbook.cash \in Int /\ kbook.row \in {"none", "MANUAL_REVIEW", "APPLIED"}
    /\ \A i \in TradeIds : kbook.lots[i].shares \in Nat /\ kbook.lots[i].cost \in Nat
    /\ ktrades \in [TradeIds -> [st : {"none", "held", "done"}, venue : {"live", "filled", "dead"},
                      side : Sides \cup {Nothing}, buy : BOOLEAN, size : Nat, price : Nat,
                      lot : TradeIds \cup {0}, review : BOOLEAN]]
    /\ kstart.pc \in {"down", "locked", "up"}

\* What the exchange already did and the ledger will still book: fills not yet
\* applied, pairs not yet netted, winners not yet paid.
UnbookedFills == {i \in HeldTrades : ktrades[i].venue = "filled"}
SharesToCome(side) ==
    SharesOf(kbook, side)
      + SumOver({i \in UnbookedFills : ktrades[i].side = side},
                LAMBDA i : IF ktrades[i].buy THEN ktrades[i].size ELSE 0 - ktrades[i].size)
CashToCome ==
    SumOver(UnbookedFills, LAMBDA i : (IF ktrades[i].buy THEN -1 ELSE 1)
                                        * ktrades[i].size * ktrades[i].price)
      + Dollar * (IF exch.result # Nothing THEN SharesToCome(exch.result)
                  ELSE Min({SharesToCome(side) : side \in Sides}))

\* No money of the exchange is booked twice or lost.  What the syncs have booked is
\* what had been transferred when the balance was read, never a fill, a netting
\* payout or a settlement the ledger books as well; and local cash without it,
\* plus what the ledger will still book by itself, is the exchange's cash without
\* the transfers.  Every interleaving of fills, exchange netting and settlement
\* with the sweep (kalshisettlement.Sweep, SyncKalshiLedger), the starts and the
\* tools must keep it.  A start that overwrote the cash of an account holding both
\* sides is excepted: it books the netting payout as a transfer.
KalshiCashExplained ==
    kbook.exists =>
        /\ ~kbook.absorbed => kbook.synced \in exch.totals
        /\ kbook.cash - kbook.synced + CashToCome = exch.cash - exch.moved

\* The realized profit the ledger reports explains its cash: opening cash, synced
\* transfers and realized profit are the cash plus the cost of what is open, after
\* any netting, sale, settlement or review (allocateKalshiNettingCash splits a
\* payout over lots without losing the remainder).
KalshiProfitExplainsCash ==
    kbook.exists =>
        kbook.cash + SumOver(TradeIds, LAMBDA i : kbook.lots[i].cost)
          = OpeningCash + kbook.synced + kbook.realized

\* The books of a Kalshi account explain its money: the exchange's cash by what
\* was booked and what will be, and the booked cash by the realized profit
\* (BookKalshiFill, SweepSync, StartBooks and the tools together).
KalshiBooksExplained == KalshiTypeOK /\ KalshiCashExplained /\ KalshiProfitExplainsCash
=============================================================================
