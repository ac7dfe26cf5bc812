---------------------------- MODULE Reconciliation ----------------------------
(***************************************************************************)
(* One account's reconciliation: the run that compares orders, fills,      *)
(* positions and cash of the ledger with the venue and the chain           *)
(* (internal/service/reconciliation), the issues it opens and closes       *)
(* (internal/adapter/postgres/reconciliation_recorder.go) and the trading  *)
(* boundary an open issue imposes (internal/domain/reconciliation.go).     *)
(*                                                                         *)
(* The account trades one token, holds a position of a settled market that *)
(* is being redeemed, and owns a token with an unmanaged baseline.  The    *)
(* chain, the venue, the indexer and the other writers of the ledger move  *)
(* between the reads of a run.                                             *)
(***************************************************************************)
EXTENDS Integers, FiniteSets, Sequences, FiniteSetsExt

CONSTANTS Reconcilers,  \* service instances that may reconcile the account
          BuyOrders, SellOrders,   \* the account's orders, all on "traded"
          OrderSize,    \* shares, and cash, that a fill of an order moves
          SettledShares,\* shares of the settled position, worth as much cash
          Baseline,     \* unmanaged shares of "owned"
          DustLimit,    \* quantities up to it are missing from the indexer
          MaxForeign,   \* movements by somebody outside the system
          MaxMoves,    \* movements outside a run, and faults, together
          MaxRuns,      \* reconciliation runs
          MaxReconFaults \* failed reads and writes, cancelled and crashed runs

ASSUME ReconciliationConstants ==
    /\ BuyOrders \cap SellOrders = {}
    /\ {OrderSize, SettledShares, Baseline} \subseteq Nat \ {0}
    /\ {DustLimit, MaxForeign, MaxMoves, MaxRuns, MaxReconFaults} \subseteq Nat

VARIABLES
    funds,      \* what the wallet really holds: cash and shares
    index,      \* shares as the position source reports them
    ledger,     \* its cash and shares
    match,      \* per order, what the venue and the chain did with it
    localStatus, \* per order, its status in the ledger
    observed,   \* fills stored with a receipt that is not deep enough
    applied,    \* fills booked, in order
    redeem,     \* the redemption of the settled position
    foreign,    \* movements no ledger of the system accounts for
    chainCash,  \* the account has a chain cash cursor
    run,        \* per worker, the run in progress
    lease,      \* whose RUNNING row the account has
    leaseOld,   \* that row is past its lease
    issues,     \* open issues
    touched,    \* workers whose run overlapped a movement outside it
    reconFaults, \* faults so far
    moves,      \* movements outside a run so far
    runsStarted \* runs so far

worldVars == <<funds, index, match, redeem, foreign>>
bookVars == <<ledger, localStatus, observed, applied, chainCash>>
reconVars == <<funds, index, ledger, match, localStatus, observed, applied, redeem,
               foreign, chainCash, run, lease, leaseOld, issues, touched, reconFaults, moves,
               runsStarted>>

Orders == BuyOrders \cup SellOrders
Tokens == {"traded", "settled", "owned"}
None == "none"

CashOf(o) == IF o \in BuyOrders THEN -OrderSize ELSE OrderSize
Shares(o) == IF o \in BuyOrders THEN OrderSize ELSE -OrderSize
SumCash(S) == MapThenSumSet(CashOf, S)
SumShares(S) == MapThenSumSet(Shares, S)
Unmanaged(t) == IF t = "owned" THEN Baseline ELSE 0
Applied == {applied[i] : i \in 1..Len(applied)}
AppliedSince(n) == {applied[i] : i \in (n + 1)..Len(applied)}

(***************************************************************************)
(* Issues.  Two observations with one fingerprint are one row; the values  *)
(* of a balance drift are not part of it.                                  *)
(***************************************************************************)
Fingerprint(i) ==
    <<i.type, i.order, i.token, i.source,
      IF i.type = "BALANCE_DRIFT" THEN <<>> ELSE <<i.local, i.remote>>>>

NoIdentity(i) == i.token = None

ClassifyImpact(i) ==
    CASE i.resolution = "OBSERVED" -> "NONE"
      [] i.type = "BALANCE_DRIFT" -> IF i.resolution = "RETRY" THEN "NONE" ELSE "ACCOUNT"
      [] i.type = "UNATTRIBUTED_CASH_OUT" -> "ACCOUNT"
      [] NoIdentity(i) -> "ACCOUNT"
      [] OTHER -> IF i.order # None THEN "ORDER" ELSE "TOKEN"

AccountGated(open) == \E i \in open : ClassifyImpact(i) = "ACCOUNT"
TokenGated(open, t) ==
    \E i \in open : \/ ClassifyImpact(i) = "ACCOUNT"
                    \/ ClassifyImpact(i) \in {"ORDER", "TOKEN"} /\ i.token = t

NewIssue(w, type, resolution, source, o, t, loc, rem) ==
    [type |-> type, resolution |-> resolution, source |-> source, order |-> o,
     token |-> t, local |-> loc, remote |-> rem, by |-> w,
     since |-> run[w].appliedBefore,
     mined |-> {x \in Orders : match[x] \in {"mined", "final"}}]

OrderIssue(w, type, resolution, source, o) ==
    NewIssue(w, type, resolution, source, o, "traded", 0, 0)
SourceIssue(w, source) ==
    NewIssue(w, "SOURCE_UNAVAILABLE", "RETRY", source, None, None, 0, 0)

Merged(new) ==
    {i \in issues : \A j \in new : Fingerprint(i) # Fingerprint(j)} \cup new

Faults(n) ==
    /\ n > 0 => reconFaults + n <= MaxReconFaults /\ moves + reconFaults + n <= MaxMoves
    /\ reconFaults' = reconFaults + n

\* A re-observed row moves to the run that saw it again.  A failed write
\* leaves the issue out and makes the run fail.
RecordIssues(w, new, r, failures) ==
    \/ /\ Faults(failures)
       /\ issues' = Merged(new)
       /\ run' = [run EXCEPT ![w] = r]
    \/ /\ new # {} /\ Faults(failures + 1)
       /\ issues' = issues
       /\ run' = [run EXCEPT ![w] = [r EXCEPT !.broken = TRUE]]

-----------------------------------------------------------------------------
(***************************************************************************)
(* A run.                                                                  *)
(***************************************************************************)
NoRun == [phase |-> "idle"]

NewRun ==
    [phase |-> "evidence", appliedBefore |-> Len(applied), verified |-> {},
     cause |-> FALSE, broken |-> FALSE, hasLocal |-> FALSE,
     settledFills |-> {}, todo |-> {}, outcome |-> [o \in Orders |-> None], inFlight |-> FALSE,
     grace |-> FALSE, pending |-> {}, unresolved |-> {},
     boundKnown |-> TRUE, shares |-> ledger.shares, cash |-> 0]

ReconTypeOK ==
    /\ match \in [Orders -> {"none", "matched", "mined", "final", "cancelled"}]
    /\ localStatus \in [Orders -> {"NOID", "UNKNOWN", "LIVE", "CANCELLED", "FILLED"}]
    /\ observed \subseteq Orders /\ Applied \subseteq Orders
    /\ redeem \in {"none", "submitted", "landed", "confirmed", "applied", "old"}
    /\ lease \in Reconcilers \cup {None}
    /\ issues \subseteq [type : STRING, resolution : {"RETRY", "MANUAL", "OBSERVED"},
                         source : STRING, order : Orders \cup {None},
                         token : Tokens \cup {None}, local : Int, remote : Int,
                         by : Reconcilers \cup {"past"}, since : Nat,
                         mined : SUBSET Orders]

\* A row older than its lease is failed; a fresh one makes the insert fail.
StartRun(w) ==
    /\ run[w].phase = "idle"
    /\ lease = None \/ leaseOld
    /\ runsStarted < MaxRuns /\ runsStarted' = runsStarted + 1
    /\ lease' = w /\ leaseOld' = FALSE
    /\ issues' = {[i EXCEPT !.by = IF @ = w THEN "past" ELSE @] : i \in issues}
    /\ run' = [run EXCEPT ![w] = NewRun]
    /\ touched' = touched \ {w}
    /\ UNCHANGED <<worldVars, bookVars, reconFaults, moves>>

\* A wallet trade of no local order, and of no recorded disposition.
ExternalTradeIssues(w) ==
    {NewIssue(w, "EXTERNAL_TRADE", "MANUAL", "POLYMARKET_CLOB", None, t, 0, 0) : t \in foreign.traded}

\* An order is settled when every trade of it is confirmed and booked.
OrderSettledLocally(o) == localStatus[o] = "FILLED" /\ match[o] = "final" /\ o \in Applied

\* Ledger account and local orders: without them nothing is compared.
LoadLocalAuthorityFails(w) ==
    LET r == run[w] IN
    /\ r.phase = "evidence"
    /\ RecordIssues(w, {SourceIssue(w, "POSTGRES_ORDERS")},
                    [r EXCEPT !.phase = "finish", !.cause = TRUE], 1)
    /\ UNCHANGED <<worldVars, bookVars, lease, leaseOld, touched, moves, runsStarted>>

\* Open orders and trades of the wallet; the orders are then taken from what
\* could be read.
CollectVenueEvidence(w) ==
    LET r == run[w] IN
    /\ r.phase = "evidence"
    /\ \E trades \in BOOLEAN :
         RecordIssues(w,
            IF trades THEN ExternalTradeIssues(w) ELSE {SourceIssue(w, "CLOB_TRADES")},
            [r EXCEPT !.phase = "orders", !.hasLocal = TRUE, !.todo = Orders,
                      !.settledFills = IF trades THEN {o \in Orders : OrderSettledLocally(o)} ELSE {},
                      !.cause = ~trades,
                      !.verified = {"POSTGRES_ORDERS"} \cup (IF trades THEN {"CLOB_TRADES"} ELSE {})],
            IF trades THEN 0 ELSE 1)
    /\ UNCHANGED <<worldVars, bookVars, lease, leaseOld, touched, moves, runsStarted>>

\* What synchronising the fills of an order does to the ledger: a receipt that
\* is not deep enough is stored, a final one is booked once.
SyncOrderFills(o) ==
    /\ observed' = IF match[o] = "mined" THEN observed \cup {o}
                   ELSE IF match[o] = "final" THEN observed \ {o} ELSE observed
    /\ IF match[o] = "final" /\ o \notin Applied
       THEN /\ applied' = Append(applied, o)
            /\ ledger' = [cash |-> ledger.cash + CashOf(o),
                          shares |-> [ledger.shares EXCEPT !["traded"] = @ + Shares(o)]]
       ELSE UNCHANGED <<applied, ledger>>

\* The venue's answer: a fill, a cancellation, or the order is live.
Refreshed(o) ==
    CASE match[o] = "final" -> "FILLED"
      [] match[o] = "cancelled" -> "CANCELLED"
      [] OTHER -> "LIVE"

OrderDone(w, o, r, new, outcome, failures) ==
    RecordIssues(w, new, [r EXCEPT !.todo = @ \ {o}, !.outcome[o] = outcome,
        !.cause = @ \/ outcome = "failed",
        !.verified = IF outcome = "resolved" THEN @ \cup {o} ELSE @], failures)

\* No venue order id: the outcome of the submission is not known, and the
\* order is never sent again.
ReconcileUnsent(w, o) ==
    LET r == run[w] IN
    /\ r.phase = "orders" /\ o \in r.todo /\ localStatus[o] = "NOID"
    /\ RecordIssues(w, {OrderIssue(w, "SUBMIT_UNCONFIRMED", "MANUAL", "LOCAL_ORDER_STATE", o)},
                    [r EXCEPT !.todo = @ \ {o}], 0)
    /\ UNCHANGED <<worldVars, bookVars, lease, leaseOld, touched, moves, runsStarted>>

\* The recovery guard does not let the run work on the order now.
ReconcileDeferred(w, o) ==
    LET r == run[w] IN
    /\ r.phase = "orders" /\ o \in r.todo \ r.settledFills /\ localStatus[o] # "NOID"
    /\ OrderDone(w, o, r, {}, "skipped", 1)
    /\ UNCHANGED <<worldVars, bookVars, lease, leaseOld, touched, moves, runsStarted>>

\* A read of the venue or of the ledger failed.
ReconcileFailed(w, o) ==
    LET r == run[w] IN
    /\ r.phase = "orders" /\ o \in r.todo \ r.settledFills /\ localStatus[o] # "NOID"
    /\ OrderDone(w, o, r, {OrderIssue(w, "SOURCE_UNAVAILABLE", "RETRY", "CLOB_ORDER", o)}, "failed", 1)
    /\ UNCHANGED <<worldVars, bookVars, lease, leaseOld, touched, moves, runsStarted>>

\* Fills are synchronised, then the state is refreshed or the cancellation
\* finished, which needs complete fill evidence and its grace period.
ReconcileOrder(w, o) ==
    LET r == run[w]
        waiting == match[o] \in {"matched", "mined"}
    IN
    /\ r.phase = "orders" /\ o \in r.todo /\ localStatus[o] # "NOID"
    /\ IF o \in r.settledFills
       THEN /\ OrderDone(w, o, r, {}, "resolved", 0)
            /\ UNCHANGED <<ledger, observed, applied, localStatus>>
       ELSE /\ SyncOrderFills(o)
            /\ localStatus' = [localStatus EXCEPT ![o] =
                                  IF match[o] = "final" \/ @ # "CANCELLED" THEN Refreshed(o) ELSE @]
            /\ \/ OrderDone(w, o, r, {}, IF waiting THEN "waiting" ELSE "resolved", 0)
               \/ /\ Refreshed(o) = "CANCELLED"
                  /\ OrderDone(w, o, r, {}, "waiting", 0)
    /\ UNCHANGED <<worldVars, chainCash, lease, leaseOld, touched, moves, runsStarted>>

-----------------------------------------------------------------------------
(***************************************************************************)
(* What may have moved the chain ahead of the ledger: redemptions in       *)
(* flight, fills that wait for depth, orders that are still being          *)
(* recovered.                                                              *)
(***************************************************************************)
RedeemInFlight == redeem \in {"submitted", "landed", "confirmed"}

StalledRedemptionIssues(w, late) ==
    IF late /\ redeem = "confirmed"
    THEN {NewIssue(w, "REDEMPTION_APPLY_STALLED", "OBSERVED", "POSTGRES_REDEMPTIONS", None, "settled", 0, 0)}
    ELSE {}

StalledFillIssues(w, late) ==
    IF late THEN {OrderIssue(w, "FILL_FINALITY_STALLED", "MANUAL", "POLYGON_RECEIPT", o) : o \in observed}
    ELSE {}

\* A waiting order whose receipt is already stored is explained by that view.
Unresolved(r, pending) ==
    {o \in Orders : \/ r.outcome[o] \in {"skipped", "failed"}
                    \/ r.outcome[o] = "waiting" /\ o \notin pending}

RecoveryIssues(w, r, S, late) ==
    {OrderIssue(w, "ORDER_RECOVERY_PENDING", "RETRY", "ORDER_RECOVERY", o) :
        o \in {x \in S : \/ r.outcome[x] = "skipped"
                         \/ r.outcome[x] = "waiting" /\ late
                         \/ r.outcome[x] = "failed" /\ \A i \in issues : ~(i.by = w /\ i.order = x)}}
    \cup {OrderIssue(w, "ORDER_RECOVERY_STALLED", "MANUAL", "ORDER_RECOVERY", o) : o \in {x \in S : late}}

\* Without both views the assets are not compared in this run.
LoadViews(w) ==
    LET r == run[w] IN
    /\ r.phase = "orders" /\ r.todo = {}
    /\ \E failed \in SUBSET {"POSTGRES_REDEMPTIONS", "POSTGRES_FILLS"}, late, bound \in BOOLEAN :
         LET pending == IF "POSTGRES_FILLS" \in failed THEN {} ELSE observed
             unresolved == Unresolved(r, pending)
         IN RecordIssues(w,
              {SourceIssue(w, s) : s \in failed}
              \cup (IF "POSTGRES_REDEMPTIONS" \in failed THEN {} ELSE StalledRedemptionIssues(w, late))
              \cup (IF "POSTGRES_FILLS" \in failed THEN {} ELSE StalledFillIssues(w, late))
              \cup RecoveryIssues(w, r, unresolved, late),
              [r EXCEPT !.phase = IF failed = {} THEN "positions" ELSE "finish",
                        !.cause = @ \/ failed # {},
                        !.inFlight = RedeemInFlight, !.grace = redeem = "applied",
                        !.pending = pending, !.unresolved = unresolved, !.boundKnown = bound,
                        !.verified = @ \cup ({"POSTGRES_REDEMPTIONS", "POSTGRES_FILLS"} \ failed)],
              Cardinality(failed) + (IF bound THEN 0 ELSE 1) + (IF late THEN 1 ELSE 0))
    /\ UNCHANGED <<worldVars, bookVars, lease, leaseOld, touched, moves, runsStarted>>

-----------------------------------------------------------------------------
(***************************************************************************)
(* Positions.                                                              *)
(***************************************************************************)
\* The ledger side is read first; the position source answers later.
ReadPositions(w) ==
    LET r == run[w] IN
    /\ r.phase = "positions"
    /\ \/ RecordIssues(w, {SourceIssue(w, "POSTGRES_POSITIONS")}, [r EXCEPT !.phase = "balance", !.cause = TRUE], 1)
       \/ RecordIssues(w, {}, [r EXCEPT !.phase = "compare", !.shares = ledger.shares,
            !.verified = @ \cup {"POSTGRES_POSITIONS"}], 0)
    /\ UNCHANGED <<worldVars, bookVars, lease, leaseOld, touched, moves, runsStarted>>

TokenUnresolved(r, t) == t = "traded" /\ r.unresolved # {}
PendingDelta(r, t) == IF t = "traded" THEN SumShares(r.pending) ELSE 0
ExplainedByPendingFills(r, t, expected) ==
    /\ t = "traded" /\ r.pending # {}
    /\ expected + PendingDelta(r, t) = index[t]

\* The redemption is booked and the indexer still shows the burnt shares.
RedeemedAwaitingIndex(r, t) ==
    t = "settled" /\ r.grace /\ r.shares[t] = 0 /\ index[t] = SettledShares

AbsentIsRedeeming(r, t) == t = "settled" /\ r.inFlight

\* A quantity the indexer leaves out is read from the chain itself.
OmittedDust(r, t) ==
    LET expected == r.shares[t] + Unmanaged(t) IN
    index[t] = 0 /\ expected \in 1..DustLimit /\ (Unmanaged(t) = 0 \/ ~TokenUnresolved(r, t))

VerdictTrustsOmission(r, t) ==
    LET expected == r.shares[t] + Unmanaged(t) IN
    CASE TokenUnresolved(r, t) -> "skip"
      [] OTHER ->
           CASE OmittedDust(r, t) \/ index[t] = expected -> "verified"
             [] ~OmittedDust(r, t) /\ index[t] # expected /\ index[t] = 0 /\ AbsentIsRedeeming(r, t) -> "landed"
             [] OTHER -> "drift"

Verdict(r, t) ==
    LET expected == r.shares[t] + Unmanaged(t) IN
    CASE OmittedDust(r, t) -> IF funds.shares[t] = expected
                              THEN IF TokenUnresolved(r, t) THEN "skip" ELSE "verified"
                              ELSE "dustDrift"
      [] ~OmittedDust(r, t) /\ TokenUnresolved(r, t) -> "skip"
      [] OTHER ->
           CASE index[t] = expected -> "verified"
             [] index[t] # expected /\ index[t] = 0 /\ AbsentIsRedeeming(r, t) -> "landed"
             [] index[t] # expected /\ ExplainedByPendingFills(r, t, expected) -> "explained"
             [] index[t] # expected /\ RedeemedAwaitingIndex(r, t) -> "awaiting"
             [] OTHER -> "drift"

DriftType(t) == IF Unmanaged(t) > 0 THEN "EXTERNAL_POSITION_BASELINE_DRIFT" ELSE "POSITION_DRIFT"

PositionIssue(w, r, t) ==
    LET expected == r.shares[t] + Unmanaged(t) IN
    CASE Verdict(r, t) = "dustDrift" ->
            {NewIssue(w, DriftType(t), "MANUAL", "EVM_ERC1155_ETH_CALL", None, t, expected, funds.shares[t])}
      [] Verdict(r, t) = "awaiting" ->
            {NewIssue(w, "POSITION_DRIFT", "RETRY", "POLYMARKET_DATA_API", None, t, expected, index[t])}
      [] Verdict(r, t) = "drift" ->
            {NewIssue(w, DriftType(t), "MANUAL", "POLYMARKET_DATA_API", None, t, expected, index[t])}
      [] OTHER -> {}

\* The on-chain read of an omitted quantity may fail too: a token-scoped
\* issue, and the token is not compared.
DustUnread(w, r, t) ==
    NewIssue(w, "SOURCE_UNAVAILABLE", "RETRY", "EVM_ERC1155_ETH_CALL", None, t, 0, 0)

ComparePositions(w) ==
    LET r == run[w] IN
    /\ r.phase = "compare"
    /\ \/ RecordIssues(w, {SourceIssue(w, "EXTERNAL_POSITIONS")},
                       [r EXCEPT !.phase = "balance", !.cause = TRUE], 1)
       \/ \E unread \in SUBSET {t \in Tokens : OmittedDust(r, t)} :
            RecordIssues(w,
              UNION {PositionIssue(w, r, t) : t \in Tokens \ unread}
                \cup {DustUnread(w, r, t) : t \in unread},
              [r EXCEPT !.phase = "balance", !.cause = @ \/ unread # {},
                        !.verified = @ \cup {"EXTERNAL_POSITIONS"}
                            \cup {t \in Tokens \ unread : Verdict(r, t) = "verified"}], Cardinality(unread))
    /\ UNCHANGED <<worldVars, bookVars, lease, leaseOld, touched, moves, runsStarted>>

-----------------------------------------------------------------------------
(***************************************************************************)
(* Cash.                                                                   *)
(***************************************************************************)
ReadBalance(w) ==
    LET r == run[w] IN
    /\ r.phase = "balance"
    /\ \/ RecordIssues(w, {SourceIssue(w, "POSTGRES_LEDGER")}, [r EXCEPT !.phase = "finish", !.cause = TRUE], 1)
       \/ RecordIssues(w, {}, [r EXCEPT !.phase = "cash", !.cash = ledger.cash], 0)
    /\ UNCHANGED <<worldVars, bookVars, lease, leaseOld, touched, moves, runsStarted>>

ExplainedByRedemptions(r, expected) ==
    r.inFlight /\ expected + SettledShares = funds.cash

BalanceExplainedByPendingFills(r, expected) ==
    /\ r.pending # {}
    /\ LET projected == expected + SumCash(r.pending) IN
       projected = funds.cash \/ ExplainedByRedemptions(r, projected)

\* A BUY can have spent its reservation, a SELL received one unit a share.
ExplainedByUnresolved(r, expected) ==
    LET drift == funds.cash - (expected + SumCash(r.pending))
        open == {o \in r.unresolved : o \notin Applied}
    IN /\ r.unresolved # {} /\ r.boundKnown
       /\ drift >= SumCash(open \cap BuyOrders) /\ drift <= SumCash(open \cap SellOrders)

\* Unknown incoming cash is offset, never credited; unknown outgoing cash is
\* never an explanation.
ChainCashOffset == IF foreign.cash > 0 THEN foreign.cash ELSE 0

TransferIssues(w) ==
    IF foreign.cash > 0
    THEN {NewIssue(w, "UNATTRIBUTED_CASH_IN", "OBSERVED", "EVM_ERC20_TRANSFER_LOGS", None, None, 0, foreign.cash)}
    ELSE IF foreign.cash < 0
    THEN {NewIssue(w, "UNATTRIBUTED_CASH_OUT", "MANUAL", "EVM_ERC20_TRANSFER_LOGS", None, None, 0, foreign.cash)}
    ELSE {}

BalanceDrift(w, resolution, source, expected) ==
    NewIssue(w, "BALANCE_DRIFT", resolution, source, None, None, expected, funds.cash)

\* A drift that is visible ends the silent grace of the orders it is laid to.
AttributedIssues(w, r, expected) ==
    {BalanceDrift(w, "RETRY", "ORDER_RECOVERY", expected)} \cup
    {OrderIssue(w, "ORDER_RECOVERY_PENDING", "RETRY", "ORDER_RECOVERY", o) :
        o \in {x \in r.unresolved : \A i \in issues : ~(i.by = w /\ i.order = x)}}

BalanceIssues(w, r, expected) ==
    CASE \/ expected = funds.cash
         \/ ExplainedByRedemptions(r, expected)
         \/ BalanceExplainedByPendingFills(r, expected) -> {}
      [] OTHER ->
         IF ExplainedByUnresolved(r, expected) THEN AttributedIssues(w, r, expected)
         ELSE {BalanceDrift(w, IF chainCash /\ funds.cash > expected THEN "OBSERVED" ELSE "MANUAL",
                            "EVM_ERC20_ETH_CALL", expected)}

\* With a cursor the ledger total is read again, in the transaction that
\* books the transfers.
ReconcileBalance(w) ==
    LET r == run[w]
        expected == IF chainCash THEN ledger.cash + ChainCashOffset ELSE r.cash
        transfers == IF chainCash THEN TransferIssues(w) ELSE {}
        compared(v) == [r EXCEPT !.phase = "finish", !.verified = @ \cup v]
    IN
    /\ r.phase = "cash"
    /\ \/ RecordIssues(w, {SourceIssue(w, "EXTERNAL_BALANCE")},
                       [compared({"POSTGRES_LEDGER"}) EXCEPT !.cause = TRUE], 1)
       \/ /\ chainCash
          /\ RecordIssues(w, {SourceIssue(w, "EVM_ERC20_TRANSFER_LOGS")},
                          [compared({"POSTGRES_LEDGER", "EXTERNAL_BALANCE"}) EXCEPT !.cause = TRUE], 1)
       \/ RecordIssues(w, transfers \cup BalanceIssues(w, r, expected),
            compared({"POSTGRES_LEDGER", "EXTERNAL_BALANCE"}
                     \cup (IF chainCash THEN {"EVM_ERC20_TRANSFER_LOGS"} ELSE {})
                     \cup (IF expected = funds.cash THEN {"balance"} ELSE {})), 0)
    /\ UNCHANGED <<worldVars, bookVars, lease, leaseOld, touched, moves, runsStarted>>

-----------------------------------------------------------------------------
(***************************************************************************)
(* The end of a run: what its checks verified closes older issues.         *)
(***************************************************************************)
Again(w, type, t) == \E j \in issues : j.by = w /\ j.type = type /\ j.token = t

ResolvedByChainCash(w, r, i) ==
    /\ i.type = "BALANCE_DRIFT" /\ chainCash
    /\ {"balance", "EVM_ERC20_TRANSFER_LOGS"} \subseteq r.verified
    /\ ~Again(w, "BALANCE_DRIFT", None)

ResolvedByFillLag(w, r, i) ==
    /\ i.resolution = "MANUAL" /\ i.by # w
    /\ \/ /\ i.type = "BALANCE_DRIFT" /\ i.source = "EVM_ERC20_ETH_CALL"
          /\ "balance" \in r.verified
          /\ SumCash(AppliedSince(i.since) \cap i.mined) = i.remote - i.local
          /\ ~Again(w, i.type, None)
       \/ /\ i.type = "POSITION_DRIFT" /\ i.remote >= i.local
          /\ i.token \in r.verified /\ ledger.shares[i.token] = i.remote
          /\ i.token = "traded" /\ AppliedSince(i.since) # {}
          /\ ~Again(w, i.type, i.token)

\* Confirmed sells that were booked before the run explain the whole deficit.
ResolvedByRecoveredSell(w, r, i) ==
    LET fills == AppliedSince(i.since) \ AppliedSince(r.appliedBefore) IN
    /\ i.resolution = "MANUAL" /\ i.by # w /\ i.type = "POSITION_DRIFT"
    /\ i.source = "POLYMARKET_DATA_API"
    /\ i.token = "traded" /\ "traded" \in r.verified /\ i.local > i.remote
    /\ ledger.shares["traded"] = i.remote
    /\ ~Again(w, i.type, i.token)
    /\ fills \cap SellOrders # {}
    /\ SumShares(fills) = i.remote - i.local

\* The old remote value was a station on the path of booked fills.
ResolvedByTrajectory(w, r, i) ==
    LET from == i.since
        upto == r.appliedBefore
        After(n) == i.local + SumShares({applied[k] : k \in (from + 1)..n})
    IN
    /\ i.resolution = "MANUAL" /\ i.by # w /\ i.type = "POSITION_DRIFT"
    /\ i.source = "POLYMARKET_DATA_API"
    /\ i.token = "traded" /\ "traded" \in r.verified /\ i.local > i.remote
    /\ ledger.shares["traded"] # i.remote
    /\ \A j \in issues : ~(j.by = w /\ j.token = i.token)
    /\ upto = Len(applied)
    /\ \E n \in (from + 1)..upto : After(n) = i.remote
    /\ \E n \in (from + 1)..upto : applied[n] \in SellOrders
    /\ After(upto) = ledger.shares["traded"]

ResolvedByOrderOnly(w, r, i) ==
    /\ i.by # w /\ i.resolution = "RETRY"
    /\ i.order # None /\ i.order \in r.verified
    /\ \A j \in issues : ~(j.by = w /\ j.order = i.order)

ResolvedByVerification(w, r, i) ==
    /\ i.by # w
    /\ i.resolution = "RETRY" \/ i.type = "ORDER_RECOVERY_STALLED"
    /\ \/ i.order # None /\ i.order \in r.verified
       \/ i.order = None /\ i.type = "SOURCE_UNAVAILABLE" /\ i.source \in r.verified
       \/ i.type = "BALANCE_DRIFT" /\ "balance" \in r.verified
       \/ i.type = "POSITION_DRIFT" /\ i.token \in r.verified
       \/ /\ i.type = "SOURCE_UNAVAILABLE" /\ i.source = "EVM_ERC1155_ETH_CALL"
          /\ i.token \in r.verified
    /\ \A j \in issues : j.by = w =>
         /\ ~(i.order # None /\ j.order = i.order)
         /\ ~(/\ i.order = None /\ i.type = "SOURCE_UNAVAILABLE" /\ j.source = i.source
              /\ (i.token = None \/ j.token = None \/ j.token = i.token))
         /\ ~(i.type = "BALANCE_DRIFT" /\ j.type = "BALANCE_DRIFT")
         /\ ~(i.type = "POSITION_DRIFT" /\ j.token = i.token)

ResolvedByApplication(w, i) ==
    /\ i.type = "REDEMPTION_APPLY_STALLED" /\ i.by # w
    /\ redeem \in {"applied", "old"}
    /\ ~Again(w, i.type, i.token)

ResolvedIssues(w) ==
    LET r == run[w] IN
    {i \in issues : \/ ResolvedByChainCash(w, r, i) \/ ResolvedByFillLag(w, r, i)
                    \/ ResolvedByRecoveredSell(w, r, i) \/ ResolvedByTrajectory(w, r, i)
                    \/ ResolvedByVerification(w, r, i) \/ ResolvedByApplication(w, i)}

Failed(w) ==
    \/ run[w].cause /\ (run[w].broken \/ ~run[w].hasLocal)
    \/ run[w].broken

\* Only the run that still has the account's RUNNING row may end; one whose
\* row was expired by another worker closes nothing.
FinishRunUnlocked(w) ==
    /\ run[w].phase = "finish"
    /\ issues' = IF Failed(w) THEN issues ELSE issues \ ResolvedIssues(w)
    /\ lease' = IF lease = w THEN None ELSE lease
    /\ leaseOld' = IF lease = w THEN FALSE ELSE leaseOld
    /\ run' = [run EXCEPT ![w] = NoRun]
    /\ UNCHANGED <<worldVars, bookVars, touched, reconFaults, moves, runsStarted>>

FinishRun(w) ==
    /\ run[w].phase = "finish"
    /\ issues' = IF Failed(w) \/ lease # w THEN issues ELSE issues \ ResolvedIssues(w)
    /\ lease' = IF lease = w THEN None ELSE lease
    /\ leaseOld' = IF lease = w THEN FALSE ELSE leaseOld
    /\ run' = [run EXCEPT ![w] = NoRun]
    /\ UNCHANGED <<worldVars, bookVars, touched, reconFaults, moves, runsStarted>>

\* The caller's context ends: what was read is not a result.
CancelRun(w) ==
    /\ run[w].phase \notin {"idle", "finish"} /\ Faults(1)
    /\ run' = [run EXCEPT ![w] = [@ EXCEPT !.phase = "finish", !.broken = TRUE, !.cause = TRUE]]
    /\ UNCHANGED <<worldVars, bookVars, lease, leaseOld, issues, touched, moves, runsStarted>>

CrashRun(w) ==
    /\ run[w].phase # "idle" /\ Faults(1)
    /\ run' = [run EXCEPT ![w] = NoRun]
    /\ UNCHANGED <<worldVars, bookVars, lease, leaseOld, issues, touched, moves, runsStarted>>

LeaseAges ==
    /\ lease # None /\ ~leaseOld /\ leaseOld' = TRUE
    /\ Faults(IF run[lease].phase = "idle" THEN 0 ELSE 1)
    /\ UNCHANGED <<worldVars, bookVars, run, lease, issues, touched, moves, runsStarted>>

-----------------------------------------------------------------------------
(***************************************************************************)
(* Everything outside the run.                                             *)
(***************************************************************************)
Outside ==
    /\ moves + reconFaults < MaxMoves /\ moves' = moves + 1
    /\ touched' = touched \cup {w \in Reconcilers : run[w].phase # "idle"}
    /\ UNCHANGED <<chainCash, run, lease, leaseOld, issues, reconFaults, runsStarted>>

VenueMoves(o) ==
    /\ \/ match[o] = "none" /\ match' = [match EXCEPT ![o] = "matched"] /\ UNCHANGED funds
       \/ match[o] = "none" /\ match' = [match EXCEPT ![o] = "cancelled"] /\ UNCHANGED funds
       \/ /\ match[o] = "matched" /\ match' = [match EXCEPT ![o] = "mined"]
          /\ funds' = [cash |-> funds.cash + CashOf(o),
                       shares |-> [funds.shares EXCEPT !["traded"] = @ + Shares(o)]]
       \/ match[o] = "mined" /\ match' = [match EXCEPT ![o] = "final"] /\ UNCHANGED funds
    /\ Outside /\ UNCHANGED <<index, redeem, foreign, ledger, localStatus, observed, applied>>

\* The fill worker books fills between and during runs.
FillWorkerMoves(o) ==
    /\ localStatus[o] # "NOID" /\ match[o] \in {"mined", "final"}
    /\ SyncOrderFills(o)
    /\ <<observed', applied'>> # <<observed, applied>>
    /\ Outside /\ UNCHANGED <<worldVars, localStatus>>

Reported(n) == IF n <= DustLimit THEN 0 ELSE n
IndexerMoves(t) ==
    /\ index[t] # Reported(funds.shares[t])
    /\ index' = [index EXCEPT ![t] = Reported(funds.shares[t])]
    /\ Outside /\ UNCHANGED <<funds, match, redeem, foreign, ledger, localStatus, observed, applied>>

RedemptionMoves ==
    /\ \/ redeem = "none" /\ redeem' = "submitted" /\ UNCHANGED <<funds, ledger>>
       \/ /\ redeem = "submitted" /\ redeem' = "landed" /\ UNCHANGED ledger
          /\ funds' = [cash |-> funds.cash + SettledShares,
                       shares |-> [funds.shares EXCEPT !["settled"] = 0]]
       \/ redeem = "landed" /\ redeem' = "confirmed" /\ UNCHANGED <<funds, ledger>>
       \/ /\ redeem = "confirmed" /\ redeem' = "applied" /\ UNCHANGED funds
          /\ ledger' = [cash |-> ledger.cash + SettledShares,
                        shares |-> [ledger.shares EXCEPT !["settled"] = 0]]
       \/ redeem = "applied" /\ redeem' = "old" /\ UNCHANGED <<funds, ledger>>
    /\ Outside /\ UNCHANGED <<index, match, foreign, localStatus, observed, applied>>

\* The owner of the wallet pays money in or out, or disposes of a share, between
\* two runs.
SomebodyElseMoves ==
    /\ foreign.count < MaxForeign /\ \A w \in Reconcilers : run[w].phase = "idle"
    /\ \/ \E d \in {-1, 1} :
            /\ funds' = [funds EXCEPT !.cash = @ + d]
            /\ foreign' = [foreign EXCEPT !.count = @ + 1, !.cash = @ + d]
       \/ \E t \in Tokens, sold \in BOOLEAN :
            /\ funds.shares[t] > 0 /\ (t = "settled" => redeem = "none")
            /\ funds' = [funds EXCEPT !.shares[t] = @ - 1]
            /\ foreign' = [foreign EXCEPT !.count = @ + 1,
                              !.traded = IF sold THEN @ \cup {t} ELSE @]
    /\ Outside /\ UNCHANGED <<index, match, redeem, ledger, localStatus, observed, applied>>

ReconInit ==
    LET held == [t \in Tokens |-> CASE t = "traded" -> 2 * OrderSize
                                    [] t = "settled" -> SettledShares
                                    [] OTHER -> 0]
        onChain == [t \in Tokens |-> held[t] + Unmanaged(t)]
    IN /\ ledger = [cash |-> 4 * OrderSize, shares |-> held]
       /\ funds = [cash |-> 4 * OrderSize, shares |-> onChain]
       /\ index = [t \in Tokens |-> Reported(onChain[t])]
       /\ match \in [Orders -> {"none", "matched"}]
       /\ localStatus \in {f \in [Orders -> {"LIVE", "NOID"}] :
                              \A o \in Orders : f[o] = "NOID" => match[o] = "none"}
       /\ observed = {} /\ applied = <<>> /\ redeem \in {"none", "submitted"}
       /\ foreign = [count |-> 0, cash |-> 0, traded |-> {}]
       /\ chainCash \in BOOLEAN
       /\ run = [w \in Reconcilers |-> NoRun] /\ lease = None /\ leaseOld = FALSE
       /\ issues = {} /\ touched = {} /\ reconFaults = 0
       /\ moves = 0 /\ runsStarted = 0

WorkerNext(w) ==
    \/ StartRun(w) \/ LoadLocalAuthorityFails(w) \/ CollectVenueEvidence(w)
    \/ \E o \in Orders : \/ ReconcileUnsent(w, o) \/ ReconcileDeferred(w, o)
                         \/ ReconcileFailed(w, o) \/ ReconcileOrder(w, o)
    \/ LoadViews(w) \/ ReadPositions(w) \/ ComparePositions(w)
    \/ ReadBalance(w) \/ ReconcileBalance(w) \/ FinishRun(w)
    \/ CancelRun(w) \/ CrashRun(w)

ReconNext ==
    \/ \E w \in Reconcilers : WorkerNext(w)
    \/ LeaseAges
    \/ \E o \in Orders : VenueMoves(o) \/ FillWorkerMoves(o)
    \/ \E t \in Tokens : IndexerMoves(t)
    \/ RedemptionMoves
    \/ SomebodyElseMoves

ReconSpec == ReconInit /\ [][ReconNext]_reconVars

-----------------------------------------------------------------------------
(***************************************************************************)
(* Properties.                                                             *)
(***************************************************************************)
Quiet ==
    /\ \A o \in Orders : /\ match[o] \notin {"matched", "mined"}
                         /\ match[o] = "final" => o \in Applied
    /\ ~RedeemInFlight
    /\ \A t \in Tokens : index[t] = Reported(funds.shares[t])

\* Worker w ends a run that nothing outside it overlapped.
EndsUndisturbed(w) ==
    /\ run[w].phase = "finish" /\ run'[w].phase = "idle"
    /\ FinishRun(w)
    /\ w \notin touched /\ Quiet /\ lease = w /\ ~Failed(w)

\* Money and shares nobody can account for never pass a run unnoticed: a run
\* that ends without failing, while nothing is in flight and no order is left
\* unresolved, leaves the account gated when cash is missing, and a token gated
\* when its shares are not the ledger's plus the baseline
\* (reconcileBalance, comparePositions, CompleteWithState).
MissingMoneyIsGated ==
    [][\A w \in Reconcilers : EndsUndisturbed(w) /\ run[w].unresolved = {} =>
         /\ foreign.cash < 0 => AccountGated(issues')
         /\ \A t \in Tokens : funds.shares[t] # ledger.shares[t] + Unmanaged(t)
                => TokenGated(issues', t)]_reconVars

\* A drift that was only a matter of timing does not outlive it: once nothing
\* is in flight, a run in which every read succeeded leaves no account-wide
\* issue, unless somebody outside the system moved cash
\* (the resolvers of CompleteWithState, with a chain cash cursor).
CleanRunReopensAccount ==
    [][\A w \in Reconcilers :
         /\ EndsUndisturbed(w) /\ ~run[w].cause
         /\ chainCash /\ foreign.count = 0 /\ run[w].unresolved = {}
         => ~AccountGated(issues')]_reconVars

\* An open issue is closed only by the run in charge of the account, never by
\* a worker whose row another worker has already expired, and never by the run
\* that saw it itself (Start, CompleteWithState).
ClosedByRunInCharge ==
    [][\A i \in issues :
         (\A j \in issues' : Fingerprint(j) # Fingerprint(i)) =>
            \E w \in Reconcilers : run[w].phase = "finish" /\ lease = w /\ ~Failed(w) /\ FinishRun(w)]_reconVars

\* The verdict of an undisturbed run is right in both directions: missing money
\* closes the account, and nothing else does; and only the run in charge closes
\* an issue (reconcileBalance, comparePositions, CompleteWithState).
VerdictIsRight ==
    []ReconTypeOK /\ MissingMoneyIsGated /\ CleanRunReopensAccount /\ ClosedByRunInCharge
=============================================================================
