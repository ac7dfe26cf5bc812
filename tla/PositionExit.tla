----------------------------- MODULE PositionExit ------------------------------
(***************************************************************************)
(* The position exit job: internal/service/positionexit freezes one input  *)
(* per bound account and ten-minute boundary, asks the exit strategy about *)
(* every open lot in it, records the answer and submits the sells          *)
(* (internal/adapter/postgres/position_exit_recorder.go).  The job is      *)
(* started over HTTP, so two runs of one boundary, or of two boundaries,   *)
(* may overlap, and a run may be abandoned at any step.                    *)
(*                                                                         *)
(* A lot has a token and a market of its own.  What the job reads of them  *)
(* is the status of the market, of the book and of the price history.      *)
(* Shares are whole numbers.  The order path behind Submit is modelled by  *)
(* what the job relies on: a client order id is used once, and a sell      *)
(* holds its shares of the lot (ReservationLedger).                        *)
(***************************************************************************)
EXTENDS Integers, FiniteSets, Sequences, FiniteSetsExt

CONSTANTS Jobs,            \* runs that may be under way together
          AccountOrder,    \* the bound accounts in the order of normalizeBindings
          LotAccount,      \* lot -> account
          LotSize,         \* shares every lot starts with
          Boundaries,
          Decisions,       \* decision ids the strategy may give
          SourceAnswers,   \* what the sources may say of a token
          MaxStarts        \* bound: runs started

ExitLots == DOMAIN LotAccount
ExitAccounts == {AccountOrder[i] : i \in DOMAIN AccountOrder}
Statuses == [market : {"OPEN", "CLOSED", "NOT_FOUND"},
             book : {"OK", "EMPTY", "ABSENT", "OTHER_MARKET"},
             history : {"OK", "PARTIAL", "ABSENT", "OTHER_MARKET"}]

ASSUME ExitAssumption ==
    /\ LotSize \in Nat /\ MaxStarts \in Nat
    /\ SourceAnswers \subseteq Statuses
    /\ \A l \in ExitLots : LotAccount[l] \in ExitAccounts

VARIABLES exitRow,   \* per account and boundary, the recorded input and output
          job,       \* per job, what it has prepared and where it is
          lotLeft,   \* shares left in a lot
          exits,     \* sell orders created
          started
exitVars == <<exitRow, job, lotLeft, exits, started>>

------------------------------------------------------------------------------
(* The open lots of an account *)

ExitsHold(l) ==
    FoldSet(LAMBDA o, n : n + o.size, 0, {o \in exits : o.lot = l /\ o.status = "LIVE"})
AvailableOf(l) == lotLeft[l] - ExitsHold(l)

\* ListOpenPositionExitTrades: the open lots of the binding, each with what no
\* live sell holds.
OpenTrades(a) == [l \in {m \in ExitLots : LotAccount[m] = a /\ lotLeft[m] > 0} |-> AvailableOf(l)]

\* PositionExitTrade.Validate and validateInput: the lots are the account's own,
\* and there is one set of market data for each.
ValidTrade(a, l, available) == LotAccount[l] = a /\ available \in 0..LotSize
ValidExitInput(input) ==
    /\ DOMAIN input.data = DOMAIN input.trades
    /\ \A l \in DOMAIN input.trades : ValidTrade(input.account, l, input.trades[l])

------------------------------------------------------------------------------
(* The shared capture *)

\* captureMarketSnapshots, captureMarketData: a market that is not found, or a
\* book or history of another market, fails the capture for every account.
MarketsFound(answers, tokens) == \A l \in tokens : answers[l].market # "NOT_FOUND"
Alignable(answers, tokens) ==
    \A l \in tokens : answers[l].book # "OTHER_MARKET" /\ answers[l].history # "OTHER_MARKET"

\* alignBooks, alignHistories: what a source left out is MISSING.
Aligned(status) == IF status = "ABSENT" THEN "MISSING" ELSE status
MarketData(answer) == [market |-> answer.market, book |-> Aligned(answer.book),
                       history |-> Aligned(answer.history)]

------------------------------------------------------------------------------
(* The strategy's answer *)

\* requiredHoldReason: an unusable market, book or history forbids a sell and
\* names the reason of the hold.
RequiredHoldReason(data) ==
    CASE data.market # "OPEN" -> "MARKET_NOT_TRADABLE"
      [] data.market = "OPEN" /\ data.book # "OK" -> "INVALID_BOOK"
      [] data.market = "OPEN" /\ data.book = "OK" /\ data.history # "OK" -> "STALE_DATA"
      [] OTHER -> "NONE"

\* ValidPositionExitReason: the reasons a hold may give, of those the sources can
\* cause, and the strategy's own.
HoldReasons == {"HOLD_SIGNAL"} \cup
                 ({RequiredHoldReason(MarketData(x)) : x \in SourceAnswers} \ {"NONE"})
Evaluations == [action : {"HOLD"}, reason : HoldReasons, decision : Decisions]
                 \cup [action : {"SELL"}, size : 1..(LotSize + 1), atBestBid : BOOLEAN,
                       decision : Decisions]

\* buildSellIntent: at the captured best bid, within what the lot had available.
ValidSell(e, available) == e.atBestBid /\ e.size \in 1..available

\* validateResponse, one evaluation: what the input cannot support is held.
ValidEvaluation(e, data, available) ==
    \/ e.action = "HOLD" /\ RequiredHoldReason(data) \in {"NONE", e.reason}
    \/ e.action = "SELL" /\ RequiredHoldReason(data) = "NONE" /\ ValidSell(e, available)

\* validateResponse: one evaluation for each lot of the input, no decision id twice.
ValidExitResponse(answer, input) ==
    /\ DOMAIN answer = DOMAIN input.trades
    /\ \A l, m \in DOMAIN answer : answer[l].decision = answer[m].decision => l = m
    /\ \A l \in DOMAIN answer : ValidEvaluation(answer[l], input.data[l], input.trades[l])

Sells(answer) == {l \in DOMAIN answer : answer[l].action = "SELL"}

------------------------------------------------------------------------------
(* A run of the job *)

NoRow == [input |-> {}, output |-> {}]
IdleJob == [at |-> "IDLE", boundary |-> 0, turn |-> 0, stored |-> {}, fresh |-> {}, failed |-> {},
            asked |-> {}, answer |-> {}, todo |-> {}]

\* The binding whose turn it is, and the accounts after it.
TurnOf(j) == AccountOrder[job[j].turn]
Row(j) == exitRow[TurnOf(j)][job[j].boundary]
NextTurn(s) ==
    IF s.turn < Len(AccountOrder)
    THEN [s EXCEPT !.at = "TURN", !.turn = @ + 1, !.asked = {}, !.answer = {}, !.todo = {}]
    ELSE IdleJob

\* buildRequest: the frozen input, named by its content.
BuildRequest(a, answers) ==
    [account |-> a, trades |-> OpenTrades(a),
     data |-> [l \in DOMAIN OpenTrades(a) |-> MarketData(answers[l])]]

\* prepareBinding of every binding: a recorded input is taken as it is, an
\* account whose lots cannot be read fails alone, and the others read their
\* lots now.  Then the predictions and the shared capture of every token; when
\* they fail, so does every account that has no recorded input.
StartExitRun(j, b) ==
    /\ job[j].at = "IDLE" /\ started < MaxStarts
    /\ \E unreadable \in SUBSET ExitAccounts, answers \in [ExitLots -> SourceAnswers],
          predicted \in BOOLEAN :
          LET stored == {a \in ExitAccounts : exitRow[a][b].input # {}}
              fresh == ExitAccounts \ (stored \cup unreadable)
              tokens == UNION {DOMAIN OpenTrades(a) : a \in fresh}
              captured == predicted /\ MarketsFound(answers, tokens) /\ Alignable(answers, tokens)
          IN /\ unreadable \cap stored = {}
             /\ job' = [job EXCEPT ![j] =
                   [IdleJob EXCEPT !.at = "TURN", !.boundary = b, !.turn = 1, !.stored = stored,
                      !.failed = unreadable \cup (IF captured THEN {} ELSE fresh),
                      !.fresh = IF captured THEN {BuildRequest(a, answers) : a \in fresh} ELSE {}]]
    /\ started' = started + 1
    /\ UNCHANGED <<exitRow, lotLeft, exits>>

\* failedRun: the account is passed over, the run goes on.
PassFailed(j) ==
    /\ job[j].at = "TURN" /\ TurnOf(j) \in job[j].failed
    /\ job' = [job EXCEPT ![j] = NextTurn(@)]
    /\ UNCHANGED <<exitRow, lotLeft, exits, started>>

\* ClaimInput: the first input of a boundary is kept; another
\* one is a conflict and fails the account.
Proposed(j) == CHOOSE i \in job[j].fresh : i.account = TurnOf(j)
ClaimExitInput(j) ==
    /\ job[j].at = "TURN" /\ TurnOf(j) \notin job[j].failed
    /\ LET a == TurnOf(j)
           b == job[j].boundary
           mine == IF a \in job[j].stored THEN Row(j).input ELSE {Proposed(j)}
       IN IF Row(j).input \in {{}, mine} /\ \A i \in mine : ValidExitInput(i)
          THEN /\ exitRow' = [exitRow EXCEPT ![a][b].input = mine]
               /\ job' = [job EXCEPT ![j].at = "ASK", ![j].asked = mine]
          ELSE /\ job' = [job EXCEPT ![j] = NextTurn(@)]
               /\ UNCHANGED exitRow
    /\ UNCHANGED <<lotLeft, exits, started>>

\* runBinding: nothing to ask without lots; a recorded output is used again;
\* otherwise the strategy answers, and an invalid answer fails the account.
Asked(j) == CHOOSE i \in job[j].asked : TRUE
NoOpenTrades(j) ==
    /\ job[j].at = "ASK" /\ DOMAIN Asked(j).trades = {}
    /\ job' = [job EXCEPT ![j] = NextTurn(@)]
    /\ UNCHANGED <<exitRow, lotLeft, exits, started>>
ReadOutput(j) ==
    /\ job[j].at = "ASK" /\ DOMAIN Asked(j).trades # {} /\ Row(j).output # {}
    /\ job' = [job EXCEPT ![j].at = "VALIDATE", ![j].answer = Row(j).output]
    /\ UNCHANGED <<exitRow, lotLeft, exits, started>>
StrategyEvaluates(j) ==
    /\ job[j].at = "ASK" /\ DOMAIN Asked(j).trades # {} /\ Row(j).output = {}
    /\ \E answer \in [DOMAIN Asked(j).trades -> Evaluations] :
          job' = [job EXCEPT ![j] = IF ValidExitResponse(answer, Asked(j))
                                    THEN [@ EXCEPT !.at = "CLAIM", !.answer = {answer}]
                                    ELSE NextTurn(@)]
    /\ UNCHANGED <<exitRow, lotLeft, exits, started>>

\* ClaimOutput under the row's lock: the first answer is kept, another one is a
\* conflict and fails the account.
\* As a mutant: the newest answer replaces the recorded one.
ClaimExitOutputAnew(j) ==
    /\ job[j].at = "CLAIM"
    /\ exitRow' = [exitRow EXCEPT ![TurnOf(j)][job[j].boundary].output = job[j].answer]
    /\ job' = [job EXCEPT ![j].at = "VALIDATE"]
    /\ UNCHANGED <<lotLeft, exits, started>>
ClaimExitOutput(j) ==
    /\ job[j].at = "CLAIM"
    /\ IF Row(j).input = job[j].asked /\ Row(j).output \in {{}, job[j].answer}
       THEN /\ exitRow' = [exitRow EXCEPT ![TurnOf(j)][job[j].boundary].output = job[j].answer]
            /\ job' = [job EXCEPT ![j].at = "VALIDATE"]
       ELSE /\ job' = [job EXCEPT ![j] = NextTurn(@)]
            /\ UNCHANGED exitRow
    /\ UNCHANGED <<lotLeft, exits, started>>

\* validateResponse again, on what the record holds.
ValidateStored(j) ==
    /\ job[j].at = "VALIDATE"
    /\ LET answer == CHOOSE x \in job[j].answer : TRUE
       IN job' = [job EXCEPT ![j] = IF ValidExitResponse(answer, Asked(j)) /\ Sells(answer) # {}
                                    THEN [@ EXCEPT !.at = "SUBMIT", !.todo = Sells(answer)]
                                    ELSE NextTurn(@)]
    /\ UNCHANGED <<exitRow, lotLeft, exits, started>>

\* Submit of one intent: the client order id is made of the boundary, the lot
\* and the decision id.  A known id creates nothing; a sell that the lot no
\* longer covers is refused.  Either way the loop goes on.
SubmitExit(j) ==
    /\ job[j].at = "SUBMIT"
    /\ \E l \in job[j].todo :
          LET e == (CHOOSE x \in job[j].answer : TRUE)[l]
              id == <<job[j].boundary, l, e.decision>>
              known == \E o \in exits : o.id = id
          IN /\ exits' = IF known THEN exits
                         ELSE exits \cup {[id |-> id, lot |-> l, size |-> e.size,
                                 status |-> IF e.size <= AvailableOf(l) THEN "LIVE" ELSE "REJECTED"]}
             /\ job' = [job EXCEPT ![j] = IF job[j].todo = {l} THEN NextTurn(@)
                                          ELSE [@ EXCEPT !.todo = @ \ {l}]]
    /\ UNCHANGED <<exitRow, lotLeft, started>>

\* The request is cancelled or the process dies between two steps.
Abandon(j) ==
    /\ job[j].at # "IDLE"
    /\ job' = [job EXCEPT ![j] = IdleJob]
    /\ UNCHANGED <<exitRow, lotLeft, exits, started>>

\* A live sell ends: filled or killed as a whole (the strategy may only ask FOK;
\* what an IOC order on Kalshi fills in part is the ledger's matter).
SellEnds(o, filled) ==
    /\ o.status = "LIVE"
    /\ exits' = (exits \ {o}) \cup {[o EXCEPT !.status = IF filled THEN "FILLED" ELSE "CANCELLED"]}
    /\ lotLeft' = IF filled THEN [lotLeft EXCEPT ![o.lot] = @ - o.size] ELSE lotLeft
    /\ UNCHANGED <<exitRow, job, started>>

ExitInit ==
    /\ exitRow = [a \in ExitAccounts |-> [b \in Boundaries |-> NoRow]]
    /\ job = [j \in Jobs |-> IdleJob]
    /\ lotLeft = [l \in ExitLots |-> LotSize]
    /\ exits = {} /\ started = 0

ExitNext ==
    \/ \E j \in Jobs :
          \/ \E b \in Boundaries : StartExitRun(j, b)
          \/ PassFailed(j) \/ ClaimExitInput(j) \/ NoOpenTrades(j) \/ ReadOutput(j)
          \/ StrategyEvaluates(j) \/ ClaimExitOutput(j) \/ ValidateStored(j)
          \/ SubmitExit(j) \/ Abandon(j)
    \/ \E o \in exits, filled \in BOOLEAN : SellEnds(o, filled)

ExitSpec == ExitInit /\ [][ExitNext]_exitVars

------------------------------------------------------------------------------
(* Properties *)

\* However runs of a boundary overlap, fail or are started again, every sell
\* that was ever submitted is the one the recorded answer of its boundary gives
\* for its lot, and that answer was given for the recorded input, in which the
\* lot was tradable and had the shares.  So a lot is sold at most once for a
\* boundary, and the record explains every order (runBinding persists the
\* output before it submits).
ExitsFollowTheRecord ==
    \A o \in exits :
        LET row == exitRow[LotAccount[o.lot]][o.id[1]] IN
        \E input \in row.input, answer \in row.output :
            /\ o.lot \in Sells(answer)
            /\ answer[o.lot].decision = o.id[3] /\ answer[o.lot].size = o.size
            /\ RequiredHoldReason(input.data[o.lot]) = "NONE" /\ o.size <= input.trades[o.lot]
==============================================================================
