---------------------------- MODULE PriceHistory ----------------------------
(***************************************************************************)
(* The historical prices that value an account: which instants its lots    *)
(* require, the job that reads the missing ones from the venue, and the    *)
(* projections it keeps in the database.  One asset is modelled.           *)
(*                                                                         *)
(* Time is counted in ticks, Hour of them to an hour.  `market' is what    *)
(* happened at the venue: trades, whether it quotes a book and candles for *)
(* quiet hours, the resolution of its points, the tick it settles.  On     *)
(* Kalshi an observed price holds for an hour, or for as long as the full  *)
(* list of trades shows that none followed; that list is split between a   *)
(* live and an archive endpoint at `archive', which moves while it is read.*)
(***************************************************************************)
EXTENDS Integers, FiniteSets, Sequences, FiniteSetsExt, SequencesExt

CONSTANTS
    Hour,          \* ticks of an hour
    Deployed,      \* the tick from which runs are scheduled
    Horizon,       \* bound: the last tick
    HeldLots,      \* position lots: [account, open, shares, flows]
    Markets,       \* the histories the venue may have
    MaxSpan,       \* ticks a window may span (14 days)
    MaxWindows,    \* windows a run may read
    HistoryHands,  \* the workers of a run
    MaxUpsets,     \* bound: moves of the archive boundary, failed requests, runs cut short
    MaxPriceRuns   \* bound: runs

ASSUME PriceHistoryConstants ==
    /\ Hour \in Nat \ {0} /\ Horizon \in Nat /\ Deployed \in 0..Horizon /\ MaxSpan \in Nat
    /\ MaxWindows \in Nat \ {0} /\ MaxUpsets \in Nat /\ MaxPriceRuns \in Nat

VARIABLES market, hclock, archive, upsets, history, hrun, hand

historyVars == <<market, hclock, archive, upsets, history, hrun, hand>>

Ticks == 0..Horizon
HourOf(t) == t - (t % Hour)

-----------------------------------------------------------------------------
(* The instants that need a price.                                         *)

Shares(account, t) ==
    LET left(l) == l.shares - MapThenSumSet(LAMBDA f : f.shares, {f \in l.flows : f.at <= t})
    IN  MapThenSumSet(left, {l \in HeldLots : l.account = account /\ l.open <= t})

HeldBy(account, t) == Shares(account, t) > 0

\* The hours and the cash events of an account, and what it holds after each.
BuildRequirements(asOf) ==
    {t \in Ticks : /\ t < asOf
                   /\ \E a \in {l.account : l \in HeldLots} :
                        LET mine == {l \in HeldLots : l.account = a} IN
                        /\ HeldBy(a, t)
                        /\ \/ t % Hour = 0
                           \/ \E l \in mine : l.open = t \/ \E f \in l.flows : f.at = t}

\* Holding periods of the accounts, merged where they meet; one that only begins
\* now requires nothing yet.
HoldingTargets(asOf) ==
    LET held(t) == \E l \in HeldLots : HeldBy(l.account, t)
        starts  == {t \in Ticks : t < asOf /\ held(t) /\ (t = 0 \/ ~held(t - 1))}
        end(s)  == Min({asOf} \cup {t \in s..asOf : ~held(t)})
    IN  {[from |-> s, to |-> end(s)] : s \in starts}

RequiredTimes(w, asOf) == BuildRequirements(asOf) \cap (w.from .. w.to)

-----------------------------------------------------------------------------
(* A series: points by their tick, and the ticks of settlements.           *)

\* `until' is -1 without a no-trade proof; `fetched' orders observations.
NoPoint == [price |-> 0, src |-> "none", until |-> -1, fetched |-> -1]

Eligible(p) == p.src \notin {"none", "coarse"}

PriceAt(points, settled, at) ==
    LET before == {t \in 0..at : Eligible(points[t])}
        last   == Max(before)
    IN  CASE \E s \in settled : s <= at -> [ok |-> TRUE, at |-> Max({s \in settled : s <= at}), src |-> "settlement", price |-> market.pays]
          [] (\A s \in settled : s > at) /\ before # {}
                /\ (at - last <= Hour \/ points[last].until >= at) ->
                 [ok |-> TRUE, at |-> last, src |-> points[last].src, price |-> points[last].price]
          [] OTHER -> [ok |-> FALSE, at |-> 0, src |-> "none", price |-> 0]

Unpriced(points, settled, times) == {t \in times : ~PriceAt(points, settled, t).ok}

\* Local evidence of a payout has its own, later, effective time.
MergeSettlements(stored, local) == stored \cup local

-----------------------------------------------------------------------------
(* The projections.                                                        *)

SameAnchor(p, q) == p.price = q.price /\ p.src = q.src

Later(a, b) == IF a >= b THEN a ELSE b

SavePointNewest(stored, new) ==
    IF new.src # "none" /\ new.fetched >= stored.fetched THEN new ELSE stored

\* Proofs of one anchor are united; of two observations the newer one counts.
SavePoint(stored, new) ==
    CASE new.src = "none" -> stored
      [] new.src # "none" /\ SameAnchor(stored, new) ->
           [new EXCEPT !.until = Later(stored.until, new.until),
                       !.fetched = Later(stored.fetched, new.fetched)]
      [] OTHER -> IF new.fetched >= stored.fetched THEN new ELSE stored

\* Complete windows that touch become one; of the others the newest is kept.
SaveCoverage(rows, c) ==
    LET touching == {r \in rows.complete : r.to >= c.from /\ r.from <= c.to}
        from == Min({r.from : r \in touching} \cup {c.from})
        to   == Max({r.to : r \in touching} \cup {c.to})
        entry == [from |-> c.from, to |-> c.to, fetched |-> c.fetched]
    IN  CASE c.state = "complete" ->
               [rows EXCEPT !.complete =
                   {r \in @ : ~(r.to >= from /\ r.from <= to)}
                     \cup {[from |-> from, to |-> to, fetched |-> c.fetched]}]
          [] c.state = "hourly" ->
               IF \/ c.from > rows.hourly.from
                  \/ c.from = rows.hourly.from /\ c.fetched >= rows.hourly.fetched
               THEN [rows EXCEPT !.hourly = entry] ELSE rows
          [] OTHER -> IF c.fetched >= rows[c.state].fetched
                      THEN [rows EXCEPT ![c.state] = entry] ELSE rows

NoCoverage == [from |-> -1, to |-> -1, fetched |-> -1]

SaveSeries(points, settled, c) ==
    history' = [points   |-> [t \in Ticks |-> SavePoint(history.points[t], points[t])],
                settled  |-> history.settled \cup settled,
                coverage |-> SaveCoverage(history.coverage, c)]

\* The window, proofs that reach into it, and the newest eligible point before
\* it, which may hide an older proof.
LoadPoints(w) ==
    LET earlier == {t \in Ticks : t < w.from - Hour /\ Eligible(history.points[t])}
    IN  {t \in Ticks : /\ history.points[t].src # "none" /\ t <= w.to
                       /\ (t >= w.from - Hour \/ history.points[t].until >= w.from - Hour)}
          \cup (IF earlier = {} THEN {} ELSE {Max(earlier)})

LoadSettled(to) == {t \in history.settled : t <= to}

Load(windows) ==
    LET read == UNION {LoadPoints(w) : w \in windows}
    IN  [points  |-> [t \in Ticks |-> IF t \in read THEN history.points[t] ELSE NoPoint],
         settled |-> UNION {LoadSettled(w.to) : w \in windows}]

-----------------------------------------------------------------------------
(* Planning.                                                               *)

\* The newest completed hour is read even when an older point still prices it.
HourlyRefresh(data, now) ==
    LET hour == HourOf(now) mark == history.coverage.hourly IN
    /\ \E w \in HoldingTargets(now) : hour \in RequiredTimes(w, now)
    /\ \A s \in data.settled : s > hour
    /\ ~(PriceAt(data.points, data.settled, hour).ok
           /\ mark.from = hour /\ mark.fetched >= hour)

Window(times, refresh) ==
    [from |-> Min(times), to |-> Max(times), times |-> times, refresh |-> refresh]

Chunks(missing) ==
    LET cut[m \in SUBSET missing] ==
            IF m = {} THEN <<>>
            ELSE LET head == {t \in m : t <= Min(m) + MaxSpan}
                 IN  <<Window(head, FALSE)>> \o cut[m \ head]
    IN  cut[missing]

LastAttempt(w) ==
    LET rows == history.coverage.complete \cup
                {history.coverage.missing, history.coverage.error, history.coverage.hourly}
    IN  Max({-1} \cup {r.fetched : r \in {q \in rows : q.to >= w.from /\ q.from <= w.to}})

\* The windows not tried for longest come first.
OldestAttemptFirst(plan) ==
    LET order == SetToSortSeq(1..Len(plan), LAMBDA i, j :
                    \/ LastAttempt(plan[i]) < LastAttempt(plan[j])
                    \/ LastAttempt(plan[i]) = LastAttempt(plan[j]) /\ i < j)
    IN  [i \in 1..Len(plan) |-> plan[order[i]]]

PlanWindows(data, now) ==
    LET targets == SetToSortSeq(HoldingTargets(now), LAMBDA v, w : v.from < w.from)
        missing(w) == Unpriced(data.points, data.settled, RequiredTimes(w, now))
    IN  OldestAttemptFirst(
            (IF HourlyRefresh(data, now) THEN <<Window({HourOf(now)}, TRUE)>> ELSE <<>>)
              \o FlattenSeq([i \in 1..Len(targets) |-> Chunks(missing(targets[i]))]))

-----------------------------------------------------------------------------
(* Reading the venue.                                                      *)

Traded(t) == market.trades[t] > 0

LastTrade(t) == Max({-1} \cup {s \in 0..t : Traded(s)})

Obs(price, src, until) == [price |-> price, src |-> src, until |-> until, fetched |-> hclock]

\* The candle that ends with the hour h.
Candle(h) ==
    LET last == LastTrade(h) IN
    CASE last >= 0 /\ last > h - Hour  -> Obs(market.trades[last], "close", -1)
      [] last >= 0 /\ last <= h - Hour ->
           IF market.quiet THEN Obs(market.trades[last], "previous", -1) ELSE NoPoint
      [] last < 0 -> IF market.book THEN Obs(market.mid, "mid", -1) ELSE NoPoint

\* Those of the window, of the hour before it, and the newest one before that.
KalshiCandles(w) ==
    LET ends  == {h \in Ticks : h % Hour = 0 /\ Candle(h) # NoPoint}
        start == HourOf(w.from) - Hour
        prior == {h \in ends : h < start}
        read  == {h \in ends : h \in start..w.to} \cup (IF prior = {} THEN {} ELSE {Max(prior)})
    IN  [t \in Ticks |-> IF t \in read THEN Candle(t) ELSE NoPoint]

\* Required instants without a price, by the trade or candle they follow.
KalshiGaps(points, settled, times) ==
    LET anchor(t) == Max({-1} \cup {s \in 0..t : points[s].src # "none"})
        open == {t \in Unpriced(points, settled, times) :
                    anchor(t) >= 0 /\ points[anchor(t)].src # "mid"}
    IN  {[from |-> a, to |-> Max({t \in open : anchor(t) = a})] : a \in {anchor(t) : t \in open}}

\* Trades of the gap become points that hold until the next one.  The anchor
\* is stamped after them, and of two points at one instant the later stamped
\* one counts.
FillGap(points, g, trades) ==
    LET until(t) == Min({s \in trades : s > t} \cup {g.to})
        first    == Min(trades \cup {g.to})
    IN  [t \in Ticks |->
           CASE t = g.from -> [points[t] EXCEPT !.fetched = hclock,
                                 !.until = IF trades = {} THEN Later(@, first) ELSE first]
             [] t # g.from /\ t \in trades -> Obs(market.trades[t], "trade", until(t))
             [] OTHER -> points[t]]

\* Polymarket: the hourly buckets of the window and of the hour before it.
PMHistory(w) ==
    [t \in Ticks |-> IF /\ t % Hour = 0 /\ t \in (HourOf(w.from) - Hour)..w.to
                        /\ LastTrade(t) >= 0
                     THEN Obs(market.trades[LastTrade(t)], "pm", -1) ELSE NoPoint]

\* The last price at or before the instant.
PMAsOf(at) ==
    LET t == LastTrade(at)
    IN  [s \in Ticks |-> IF s = t THEN Obs(market.trades[s], IF market.coarse THEN "coarse" ELSE "pm", -1)
                         ELSE NoPoint]

Overlay(points, new) == [t \in Ticks |-> IF new[t].src = "none" THEN points[t] ELSE new[t]]

\* The settlement of the market, when the venue has finalized it.
VenueSettlement == IF market.settles <= hclock THEN {market.settles} ELSE {}

\* Every instant that is still unpriced is asked for, in order; the first one
\* that stays unpriced makes the source look for the settlement, once.
PMRequired(points, settled, times) ==
    LET order == SetToSortSeq(times, <)
        read[k \in 0..Len(order)] ==
            IF k = 0 THEN [points |-> points, settled |-> settled]
            ELSE LET d == read[k - 1]
                     p == Overlay(d.points, PMAsOf(order[k]))
                 IN  CASE PriceAt(d.points, d.settled, order[k]).ok -> d
                       [] ~PriceAt(d.points, d.settled, order[k]).ok ->
                            [points |-> p,
                             settled |-> IF PriceAt(p, d.settled, order[k]).ok THEN d.settled
                                         ELSE d.settled \cup VenueSettlement]
    IN  read[Len(order)]

-----------------------------------------------------------------------------
(* A run.                                                                  *)

NoData == [points |-> [t \in Ticks |-> NoPoint], settled |-> {}]

Free == [at |-> "idle", job |-> Window({0}, FALSE), points |-> NoData.points,
         settled |-> {}, gaps |-> {}, cut |-> 0, trades |-> {}, tries |-> 0, stamp |-> 0]

Resting == [on |-> FALSE, now |-> 0, data |-> NoData, jobs |-> <<>>, short |-> FALSE, ok |-> FALSE,
            runs |-> 0]

HistoryInit ==
    /\ market \in Markets /\ hclock = Deployed /\ archive = 0 /\ upsets = 0
    /\ history = [points |-> NoData.points, settled |-> {},
                  coverage |-> [complete |-> {}, missing |-> NoCoverage, error |-> NoCoverage, hourly |-> NoCoverage]]
    /\ hrun = Resting /\ hand = [w \in HistoryHands |-> Free]

HistoryTimePasses ==
    /\ hclock < Horizon /\ hclock' = hclock + 1
    /\ UNCHANGED <<market, archive, upsets, history, hrun, hand>>

Upset == upsets < MaxUpsets /\ upsets' = upsets + 1

ArchiveMoves ==
    /\ Upset
    /\ archive' \in (archive + 1)..hclock
    /\ UNCHANGED <<market, hclock, history, hrun, hand>>

\* What reconciliation recorded of the settlement, of a Polymarket position only.
LocalSettlements(now) ==
    {t \in {market.settles + 1} : ~market.kalshi /\ \E w \in HoldingTargets(now) : t <= w.to}

\* The lock, the targets, the stored series, the local settlements made
\* durable, and the plan.
RunBegins ==
    LET loaded == Load(HoldingTargets(hclock)) IN
    /\ ~hrun.on /\ hrun.runs < MaxPriceRuns
    /\ \E data \in {[loaded EXCEPT !.settled = MergeSettlements(@, LocalSettlements(hclock))]} :
       \E jobs \in {PlanWindows(data, hclock)} :
         hrun' = [on |-> TRUE, now |-> hclock, data |-> data, ok |-> TRUE,
                  jobs |-> SubSeq(jobs, 1, Min({Len(jobs), MaxWindows})),
                  short |-> Len(jobs) > MaxWindows, runs |-> hrun.runs + 1]
    /\ history' = [history EXCEPT !.settled = @ \cup LocalSettlements(hclock)]
    /\ UNCHANGED <<market, hclock, archive, upsets, hand>>

\* The requests before the trade lists; `need' is false when the seed prices
\* everything after all.
FetchWithSeries(ask) ==
    LET seed == hrun.data
        warm == \E t \in Ticks : seed.points[t].src # "none"
        base == IF ask.refresh THEN NoData.points ELSE seed.points
        need == ask.refresh \/ Unpriced(base, seed.settled, ask.times) # {}
        pm   == LET cold == IF warm \/ ask.refresh THEN base ELSE PMHistory(ask)
                    read == PMRequired(cold, seed.settled, ask.times)
                IN  [points |-> read.points, settled |-> read.settled, gaps |-> {}]
        kalshi == LET fresh   == ask.refresh \/ ~warm
                      points  == IF fresh THEN KalshiCandles(ask) ELSE base
                      settled == seed.settled \cup (IF fresh THEN VenueSettlement ELSE {})
                  IN  [points |-> points, settled |-> settled,
                       gaps |-> KalshiGaps(points, settled, ask.times)]
    IN  CASE ~need -> [points |-> base, settled |-> seed.settled, gaps |-> {}]
          [] need  -> IF market.kalshi THEN kalshi ELSE pm

TakeJob(w) ==
    /\ hrun.on /\ hand[w].at = "idle" /\ hrun.jobs # <<>>
    /\ \E read \in {FetchWithSeries(Head(hrun.jobs))} :
       hand' = [hand EXCEPT ![w] =
                  [Free EXCEPT !.at = IF read.gaps = {} THEN "save" ELSE "cutoff",
                               !.job = Head(hrun.jobs), !.points = read.points,
                               !.settled = read.settled, !.gaps = read.gaps, !.stamp = hclock]]
    /\ hrun' = [hrun EXCEPT !.jobs = Tail(@)]
    /\ UNCHANGED <<market, hclock, archive, upsets, history>>

Gap(w) == CHOOSE g \in hand[w].gaps : \A h \in hand[w].gaps : g.from <= h.from

ReadCutoff(w) ==
    /\ hand[w].at = "cutoff"
    /\ hand' = [hand EXCEPT ![w].at = "archived", ![w].cut = archive, ![w].trades = {}]
    /\ UNCHANGED <<market, hclock, archive, upsets, history, hrun>>

ReadArchived(w) ==
    /\ hand[w].at = "archived"
    /\ hand' = [hand EXCEPT ![w].at = "live",
                  ![w].trades = {t \in Gap(w).from..Gap(w).to :
                                    /\ Gap(w).from < hand[w].cut
                                    /\ Traded(t) /\ t <= hand[w].cut /\ t < archive}]
    /\ UNCHANGED <<market, hclock, archive, upsets, history, hrun>>

ReadLive(w) ==
    /\ hand[w].at = "live"
    /\ hand' = [hand EXCEPT ![w].at = "recheck",
                  ![w].trades = @ \cup {t \in Gap(w).from..Gap(w).to :
                                           Traded(t) /\ t >= hand[w].cut /\ t >= archive}]
    /\ UNCHANGED <<market, hclock, archive, upsets, history, hrun>>

\* The boundary is the same before and after, or the two lists are read again.
RecheckBlindly(w) ==
    /\ hand[w].at = "recheck"
    /\ LET left == hand[w].gaps \ {Gap(w)} IN
       hand' = [hand EXCEPT ![w].gaps = left, ![w].tries = 0, ![w].stamp = hclock,
                  ![w].at = IF left = {} THEN "save" ELSE "cutoff",
                  ![w].points = FillGap(@, Gap(w), hand[w].trades)]
    /\ UNCHANGED <<market, hclock, archive, upsets, history, hrun>>

RecheckCutoff(w) ==
    /\ hand[w].at = "recheck"
    /\ LET left == hand[w].gaps \ {Gap(w)} IN
       hand' = IF hand[w].cut = archive
               THEN [hand EXCEPT ![w].gaps = left, ![w].tries = 0, ![w].stamp = hclock,
                       ![w].at = IF left = {} THEN "save" ELSE "cutoff",
                       ![w].points = FillGap(@, Gap(w), hand[w].trades)]
               ELSE [hand EXCEPT ![w].tries = @ + 1,
                       ![w].at = IF hand[w].tries < 2 THEN "cutoff" ELSE "failed"]
    /\ UNCHANGED <<market, hclock, archive, upsets, history, hrun>>

RequestFails(w) ==
    /\ Upset /\ hand[w].at \notin {"idle", "failed"}
    /\ hand' = [hand EXCEPT ![w].at = "failed"]
    /\ UNCHANGED <<market, hclock, archive, history, hrun>>

\* What the window adds to the series it started from.
NewPoints(w) ==
    [t \in Ticks |-> IF ~hand[w].job.refresh /\ hand[w].points[t] = hrun.data.points[t]
                     THEN NoPoint ELSE hand[w].points[t]]

SaveResult(w) ==
    LET ask   == hand[w].job
        whole == Unpriced(hand[w].points, hand[w].settled, ask.times) = {}
        state == CASE ~whole -> "missing" [] whole -> IF ask.refresh THEN "hourly" ELSE "complete"
    IN  /\ hand[w].at = "save"
        /\ SaveSeries(NewPoints(w), hand[w].settled,
                [from |-> ask.from, to |-> ask.to, state |-> state, fetched |-> hand[w].stamp])
        /\ hrun' = [hrun EXCEPT !.ok = @ /\ whole]
        /\ hand' = [hand EXCEPT ![w] = Free]
        /\ UNCHANGED <<market, hclock, archive, upsets>>

\* The failure of a request is recorded, unless that fails too; that of Save is not.
SaveFailure(w, recorded) ==
    /\ hand[w].at = "failed"
    /\ history' = IF recorded
                  THEN [history EXCEPT !.coverage = SaveCoverage(@,
                          [from |-> hand[w].job.from, to |-> hand[w].job.to, state |-> "error", fetched |-> hclock])]
                  ELSE history
    /\ hrun' = [hrun EXCEPT !.ok = FALSE]
    /\ hand' = [hand EXCEPT ![w] = Free]
    /\ UNCHANGED <<market, hclock, archive, upsets>>

RunReturns ==
    /\ hrun.on /\ hrun.jobs = <<>> /\ \A w \in HistoryHands : hand[w].at = "idle"
    /\ hrun' = [hrun EXCEPT !.on = FALSE, !.data = NoData]
    /\ UNCHANGED <<market, hclock, archive, upsets, history, hand>>

\* The deadline, or the process dies: the lock goes with the session.
RunIsCut ==
    /\ Upset /\ hrun.on
    /\ hrun' = [Resting EXCEPT !.runs = hrun.runs] /\ hand' = [w \in HistoryHands |-> Free]
    /\ UNCHANGED <<market, hclock, archive, history>>

HistoryNext ==
    \/ HistoryTimePasses \/ ArchiveMoves
    \/ RunBegins \/ RunReturns \/ RunIsCut
    \/ \E w \in HistoryHands :
         \/ TakeJob(w) \/ ReadCutoff(w) \/ ReadArchived(w) \/ ReadLive(w) \/ RecheckCutoff(w)
         \/ RequestFails(w) \/ SaveResult(w)
         \/ \E recorded \in BOOLEAN : SaveFailure(w, recorded)

HistorySpec == HistoryInit /\ [][HistoryNext]_historyVars

-----------------------------------------------------------------------------

\* A stored price is the price of its instant: the last trade at or before it,
\* or the middle of a book without trades, never a later trade; and where it is
\* used beyond an hour no trade followed, however the archive boundary moved
\* while the trades were read, and however proofs of several reads were united.
PricesAreHistorical ==
    \A at \in 0..hclock :
        LET p == PriceAt(history.points, history.settled, at) IN
        p.ok /\ p.src # "settlement" =>
            /\ p.at <= at
            /\ p.src # "mid" => p.price = market.trades[LastTrade(p.at)]
            /\ at - p.at > Hour => p.src # "mid" /\ LastTrade(at) = LastTrade(p.at)

\* A run that returns without an error and defers nothing has priced every
\* instant that was due when it began, although its workers all start from the
\* series it read first and overwrite points of each other.  It is claimed where
\* the venue gives one resolution: of two that differ the newer one is kept.
SuccessMeansPriced ==
    ~market.coarse /\ ~hrun.on /\ hrun.ok /\ ~hrun.short =>
        Unpriced(history.points, history.settled, BuildRequirements(hrun.now)) = {}

\* Prices are those of their time, and a run that reports success left none out
\* (PriceAt, Save, fillKalshiGaps, Run).
HistoryIsSound == PricesAreHistorical /\ SuccessMeansPriced
=============================================================================
