-------------------------------- MODULE PreTrade --------------------------------
(***************************************************************************)
(* The checks an order passes between the strategy's decision and the      *)
(* venue: the strategy order rules of internal/service/decisioncycle, the  *)
(* guard (internal/adapter/risk or internal/service/riskcontrol), the      *)
(* market validators (internal/service/marketvalidation and                *)
(* internal/adapter/kalshi), the live-risk authorization inside the        *)
(* reservation (internal/adapter/postgres/live_risk.go) and the database   *)
(* trigger that judges the step to SUBMITTING (migrations/0042).           *)
(*                                                                         *)
(* Between any two of these steps operators stop or release trading,       *)
(* policies are replaced, reconciliation scans finish, the book moves and  *)
(* the process may die; Resume takes the order up again.                   *)
(*                                                                         *)
(* Prices are whole ticks of which One make a dollar; sizes are counted in *)
(* the finest unit a book quotes, SizeStep of them to the finest size an   *)
(* order may have and Share of them to a share.  Time is a small clock.    *)
(***************************************************************************)
EXTENDS Integers, Sequences, FiniteSets, FiniteSetsExt, TLC

CONSTANTS Intents,      \* order -> what the strategy asks for
          Views,        \* what the market sources may answer
          Guards,       \* the configured guard: "static", "hard"
          One, Share, SizeStep, NotionalStep, MinimumBuyNotional,
          FeeReserve,   \* fee reserved per share, in ticks
          Balance, Position,
          UniverseAge, BookAge, KalshiBookAge, PriceAge, SignalAge, StateAge, FutureSkew,
          MaxTickets,   \* bound: orders decided
          MaxTime,      \* bound: the clock
          MaxChanges,   \* bound: stops raised or lifted, policies replaced, scans
          MaxCrashes    \* bound: process deaths

Intended == DOMAIN Intents
TradingAccounts == {Intents[o].account : o \in Intended}
\* A Kalshi account has no policy, strategy binding or reconciliation run.
PolicedAccounts == {Intents[o].account : o \in {p \in Intended : Intents[p].venue # "kalshi"}}
Instruments == {Intents[o].token : o \in Intended}

ASSUME PreTradeAssumption ==
    /\ Share \in Nat \ {0} /\ SizeStep \in Nat \ {0} /\ Share % SizeStep = 0
    /\ MaxTime \in Nat /\ MaxChanges \in Nat /\ MaxCrashes \in Nat
    /\ Guards \subseteq {"static", "hard"} /\ Guards # {}

VARIABLES stops,      \* what forbids trading, as rows of the control tables
          policy,     \* account -> version of its risk policy
          scan,       \* account -> when the last reconciliation scan finished
          ticket,     \* order -> its row, its reservation and its worker
          time,
          changes,
          deaths
preTradeVars == <<stops, policy, scan, ticket, time, changes, deaths>>

------------------------------------------------------------------------------
(* What the strategy may ask for *)

\* Half a share rounds up.
RoundBuyShares(size) == Share * ((2 * size + Share) \div (2 * Share))
EffectiveSize(i) == IF i.side = "BUY" THEN RoundBuyShares(i.size) ELSE i.size
VenueTimeInForce(i) == IF i.venue = "kalshi" \/ i.side = "BUY" THEN "IOC" ELSE i.tif

Reachable(i, level) == IF i.side = "BUY" THEN level.price <= i.worst ELSE level.price >= i.worst
ProtectedPriceLiquidity(i, levels) ==
    MapThenSumSet(LAMBDA k : levels[k].size, {k \in DOMAIN levels : Reachable(i, levels[k])})

ValidFormat(i) == i.tif \in {"FOK", "IOC"} /\ i.size > 0 /\ i.size % SizeStep = 0 /\ i.worst \in 1..One

ProtectedPriceHolds(i, book) ==
    /\ book.tick > 0 /\ i.worst % book.tick = 0
    /\ book.asks # <<>> /\ i.worst >= book.asks[1].price

\* validateStrategyOrderForMarket on the frozen book.
ValidStrategyOrder(i, book) ==
    /\ ValidFormat(i)
    /\ EffectiveSize(i) > 0 /\ EffectiveSize(i) >= book.min
    /\ ProtectedPriceHolds(i, book)
    /\ IF VenueTimeInForce(i) = "IOC" THEN ProtectedPriceLiquidity(i, book.asks) > 0
       ELSE EffectiveSize(i) <= ProtectedPriceLiquidity(i, book.asks)
    /\ i.worst * EffectiveSize(i) >= MinimumBuyNotional
    /\ (i.worst * EffectiveSize(i)) % NotionalStep = 0

\* A sell is judged by its format alone.
ValidStrategyExitOrder(i) == ValidFormat(i)

------------------------------------------------------------------------------
(* The market validators *)

SortedLevels(levels, descending) ==
    /\ \A k \in DOMAIN levels : levels[k].price > 0 /\ levels[k].size > 0
    /\ \A k \in 2..Len(levels) : IF descending THEN levels[k - 1].price >= levels[k].price
                                 ELSE levels[k - 1].price <= levels[k].price
ValidBook(book) ==
    /\ book.status = "OK" => book.bids # <<>> /\ book.asks # <<>>
    /\ SortedLevels(book.bids, TRUE) /\ SortedLevels(book.asks, FALSE)

\* A sell may go ahead on an empty book.
BookAnswered(i, book) == book.status = "OK" \/ (i.side = "SELL" /\ book.status = "EMPTY")
NotCrossed(book) ==
    book.bids # <<>> /\ book.asks # <<>> => book.bids[1].price <= book.asks[1].price

WithinAge(at, now, age) == at <= now + FutureSkew /\ now - at <= age

MarketIdentity(i, market) == market.token = i.token /\ market.tick > 0
MarketTradable(market, now) ==
    WithinAge(now - market.age, now, UniverseAge) /\ market.state = "OPEN"
OutcomeMapping(market) ==
    /\ Len(market.outcomes) = 2
    /\ {market.outcomes[k].index : k \in 1..2} = {0, 1}
    /\ market.outcomes[1].token # market.outcomes[2].token
OutcomeMatches(i, market) ==
    \E k \in DOMAIN market.outcomes : market.outcomes[k] = [index |-> i.index, token |-> i.token]
PricesAligned(i, tick) == i.worst <= One /\ i.worst % tick = 0
WorstPriceHolds(i, book) == book.asks[1].price <= i.worst

FloorToStep(size) == SizeStep * (size \div SizeStep)

\* As a mutant: every ask counts, whatever its price.
ProtectedExecutableSizeOfAnyPrice(i, book) ==
    Min({FloorToStep(MapThenSumSet(LAMBDA k : book.asks[k].size, DOMAIN book.asks)), EffectiveSize(i)})
\* What an IOC buy can take right now, on the venue's size grid.
ProtectedExecutableSize(i, book) ==
    Min({FloorToStep(ProtectedPriceLiquidity(i, book.asks)), EffectiveSize(i)})
ExecutableSizeAccepted(size, book) == size > 0 /\ size >= book.min

PolymarketValidates(i, v) ==
    /\ v.market.found
    /\ MarketIdentity(i, v.market)
    /\ i.side = "BUY" => MarketTradable(v.market, time)
    /\ OutcomeMapping(v.market) /\ OutcomeMatches(i, v.market)
    /\ i.side = "BUY" => v.market.negRisk = i.negRisk
    /\ PricesAligned(i, v.market.tick)
    /\ BookAnswered(i, v.book) /\ ValidBook(v.book)
    /\ v.book.tick = v.market.tick
    /\ NotCrossed(v.book)
    /\ i.side = "BUY" => /\ WithinAge(time - v.book.age, time, BookAge)
                         /\ WorstPriceHolds(i, v.book)
                         /\ ExecutableSizeAccepted(ProtectedExecutableSize(i, v.book), v.book)

\* The strategy's reference price may not be worse than its own limit.
KalshiProtectionRange(i) == i.worst >= i.reference
\* Kalshi refuses a depth its contract grid cannot express instead of rounding.
KalshiExecutableSize(i, book) ==
    LET available == Min({ProtectedPriceLiquidity(i, book.asks), EffectiveSize(i)})
    IN IF available % SizeStep = 0 THEN available ELSE 0
KalshiDepthAwareLimit(i, book) ==
    /\ book.tick > 0 /\ i.worst % book.tick = 0 /\ EffectiveSize(i) > 0
    /\ i.side = "BUY" => /\ i.reference % book.tick = 0 /\ KalshiProtectionRange(i)
                         /\ WorstPriceHolds(i, book)
                         /\ ExecutableSizeAccepted(KalshiExecutableSize(i, book), book)
KalshiValidates(i, v) ==
    /\ BookAnswered(i, v.book)
    /\ v.book.status = "OK" => v.book.bids # <<>> /\ v.book.asks # <<>>
    /\ v.book.status = "EMPTY" => ValidBook(v.book)
    /\ i.side = "BUY" => WithinAge(time - v.book.sourceAge, time, KalshiBookAge)
    /\ KalshiDepthAwareLimit(i, v.book)

Validates(i, v) == IF i.venue = "kalshi" THEN KalshiValidates(i, v) ELSE PolymarketValidates(i, v)

\* MarketValidation: the capture time and, for an IOC buy, the executable size.
Evidence(i, v) ==
    [at |-> time - v.book.age,
     executable |-> IF i.side = "SELL" THEN 0
                    ELSE IF i.venue = "kalshi" THEN KalshiExecutableSize(i, v.book)
                    ELSE ProtectedExecutableSize(i, v.book),
     min |-> v.book.min, asks |-> v.book.asks]
NoEvidence == [at |-> 0, executable |-> 0, min |-> 0, asks |-> <<>>]

------------------------------------------------------------------------------
(* The reservation and its authorization *)

Unstarted == [status |-> "NONE", at |-> "away", resumed |-> FALSE, signal |-> 0,
              evidence |-> NoEvidence, hold |-> 0, under |-> 0, wire |-> 0]

PreTradeInit ==
    /\ stops \in {{}, {<<"LEGACY", a>> : a \in PolicedAccounts}}
    /\ policy = [a \in PolicedAccounts |-> 1]
    /\ scan = [a \in PolicedAccounts |-> 0]
    /\ ticket = [o \in Intended |-> Unstarted]
    /\ time = 0 /\ changes = 0 /\ deaths = 0

Reserving(side, key) ==
    {o \in Intended : ticket[o].hold > 0 /\ Intents[o].side = side /\ key \in {Intents[o].account, Intents[o].token}}
AvailableBalance(a) == Balance - MapThenSumSet(LAMBDA o : ticket[o].hold, Reserving("BUY", a))
AvailableShares(t) == Position - MapThenSumSet(LAMBDA o : ticket[o].hold, Reserving("SELL", t))

GlobalRiskControl == <<"GLOBAL">> \notin stops
\* A Polymarket account must be armed; a Kalshi account without a row is not paused.
LiveRiskControls(i, requireAccountControl) ==
    /\ <<"ACCOUNT", i.account>> \notin stops
    /\ <<"MARKET", i.token>> \notin stops
    /\ requireAccountControl => <<"UNARMED", i.account>> \notin stops
BindingAndControls(i) == <<"BINDING", i.account>> \notin stops /\ LiveRiskControls(i, TRUE)
PolicyEnabled(i) == <<"POLICY", i.account>> \notin stops
LiveRiskState(i) == WithinAge(scan[i.account], time, StateAge) /\ <<"ISSUE", i.account>> \notin stops
NoLegacyReservation(i) == <<"LEGACY", i.account>> \notin stops

HoldOf(i) == EffectiveSize(i) * IF i.side = "BUY" THEN i.worst + FeeReserve ELSE 1

\* authorizeLiveRisk; the order's own reservation, if there is one, is left out.
AuthorizeLiveRisk(o) ==
    LET i == Intents[o] IN
    /\ GlobalRiskControl /\ PolicyEnabled(i) /\ BindingAndControls(i)
    /\ i.side = "BUY" => /\ WithinAge(ticket[o].evidence.at, time, PriceAge)
                         /\ WithinAge(ticket[o].signal, time, SignalAge)
    /\ LiveRiskState(i) /\ NoLegacyReservation(i)
    /\ i.side = "BUY" => HoldOf(i) <= AvailableBalance(i.account)

AuthorizeKalshiOperatorControls(o) == GlobalRiskControl /\ LiveRiskControls(Intents[o], FALSE)

Authorized(o) == IF Intents[o].venue = "kalshi" THEN AuthorizeKalshiOperatorControls(o)
                 ELSE AuthorizeLiveRisk(o)

------------------------------------------------------------------------------
(* The guard *)

\* riskcontrol.Check on a snapshot read now.
HardRiskCheck(o) ==
    LET i == Intents[o] IN
    /\ GlobalRiskControl /\ LiveRiskControls(i, FALSE)
    /\ WithinAge(ticket[o].signal, time, SignalAge)
    /\ i.account \in PolicedAccounts => WithinAge(scan[i.account], time, StateAge)
    /\ Reserving(i.side, i.token) \ {o} = {}
    /\ IF i.side = "SELL" THEN i.size <= AvailableShares(i.token)
       ELSE i.worst * EffectiveSize(i) <= AvailableBalance(i.account)
\* The static guard turns away unprotected market orders; the strategy sends none.
GuardAccepts(g, o) == g = "hard" => HardRiskCheck(o)

------------------------------------------------------------------------------
(* Submit and Resume *)

Put(o, fields) == ticket' = [ticket EXCEPT ![o] = fields @@ @]
OnlyTicket == UNCHANGED <<stops, policy, scan, time, changes, deaths>>
Reject(o, next) == Put(o, [status |-> "REJECTED", at |-> next, evidence |-> NoEvidence])

\* The decision is recorded and delivered; Submit creates the order.
Decide(o) ==
    /\ ticket[o].status = "NONE"
    /\ Cardinality({p \in Intended : ticket[p].status # "NONE"}) < MaxTickets
    /\ IF Intents[o].side = "SELL" THEN ValidStrategyExitOrder(Intents[o])
       ELSE \E v \in Views : ValidStrategyOrder(Intents[o], v.book)
    /\ Put(o, [status |-> "VALIDATING", at |-> "guard", signal |-> time])
    /\ OnlyTicket

\* A rejection before the reservation leaves a reservation an earlier run made.
CheckGuard(o) ==
    /\ ticket[o].at = "guard"
    /\ \E g \in Guards : IF GuardAccepts(g, o) THEN Put(o, [at |-> "validate"]) ELSE Reject(o, "away")
    /\ OnlyTicket

ValidateMarket(o) ==
    /\ ticket[o].at = "validate"
    /\ \E v \in Views :
          IF Validates(Intents[o], v)
          THEN Put(o, [at |-> IF ticket[o].status = "RESERVED" THEN "submit" ELSE "reserve",
                       evidence |-> Evidence(Intents[o], v)])
          ELSE Reject(o, IF ticket[o].status = "RESERVED" THEN "release" ELSE "away")
    /\ OnlyTicket

\* Reserve: the account lock makes the check and the write one step.  An earlier
\* reservation is authorized again and must have been made under this policy.
ReserveExisting(o) ==
    /\ ticket[o].at = "reserve" /\ ticket[o].hold > 0
    /\ IF Authorized(o) /\ (Intents[o].venue = "kalshi" \/ ticket[o].under = policy[Intents[o].account])
       THEN Put(o, [at |-> "mark"]) ELSE Reject(o, "away")
    /\ OnlyTicket
ReserveNew(o) ==
    LET i == Intents[o] IN
    /\ ticket[o].at = "reserve" /\ ticket[o].hold = 0
    /\ IF /\ Reserving(i.side, i.token) = {} /\ Authorized(o)
          /\ HoldOf(i) <= IF i.side = "BUY" THEN AvailableBalance(i.account) ELSE AvailableShares(i.token)
       THEN Put(o, [at |-> "mark", hold |-> HoldOf(i),
                    under |-> IF i.venue = "kalshi" THEN 0 ELSE policy[i.account]])
       ELSE Reject(o, "away")
    /\ OnlyTicket

\* Submit goes on to the venue; Resume validates the market once more.
MarkReserved(o) ==
    /\ ticket[o].at = "mark"
    /\ Put(o, [status |-> "RESERVED", at |-> IF ticket[o].resumed THEN "validate" ELSE "submit"])
    /\ OnlyTicket

\* As a mutant: the trigger before migration 0042 let Kalshi orders through.
EnforceLiveOrderSubmitRiskUnlessKalshi(o) ==
    LET i == Intents[o] IN
    i.venue # "kalshi" =>
       /\ ticket[o].hold > 0 /\ ticket[o].under = policy[i.account]
       /\ stops \cap {<<"GLOBAL">>, <<"POLICY", i.account>>, <<"ACCOUNT", i.account>>,
                      <<"UNARMED", i.account>>, <<"BINDING", i.account>>, <<"MARKET", i.token>>,
                      <<"ISSUE", i.account>>} = {}
       /\ i.side = "BUY" => /\ WithinAge(ticket[o].evidence.at, time, PriceAge)
                            /\ WithinAge(ticket[o].signal, time, SignalAge)
       /\ WithinAge(scan[i.account], time, StateAge)
\* The trigger on the update to SUBMITTING.
EnforceLiveOrderSubmitRisk(o) ==
    LET i == Intents[o] IN
    IF i.venue = "kalshi"
    THEN stops \cap {<<"GLOBAL">>, <<"ACCOUNT", i.account>>, <<"MARKET", i.token>>} = {}
    ELSE /\ ticket[o].hold > 0 /\ ticket[o].under = policy[i.account]
         /\ stops \cap {<<"GLOBAL">>, <<"POLICY", i.account>>, <<"ACCOUNT", i.account>>,
                        <<"UNARMED", i.account>>, <<"BINDING", i.account>>, <<"MARKET", i.token>>,
                        <<"ISSUE", i.account>>} = {}
         /\ i.side = "BUY" => /\ WithinAge(ticket[o].evidence.at, time, PriceAge)
                              /\ WithinAge(ticket[o].signal, time, SignalAge)
         /\ WithinAge(scan[i.account], time, StateAge)

\* placementIntent: the wire carries the executable size of an IOC.
PlacementSize(i, evidence) ==
    IF VenueTimeInForce(i) # "IOC" \/ evidence.executable = 0 THEN EffectiveSize(i) ELSE evidence.executable

\* submitReserved up to the venue: the entry switch, then the attempt and its trigger.
StartSubmit(o) ==
    /\ ticket[o].at = "submit"
    /\ \E entryBlocked \in {FALSE, Intents[o].side = "BUY"} :
          IF ~entryBlocked /\ EnforceLiveOrderSubmitRisk(o)
          THEN Put(o, [status |-> "SUBMITTING", at |-> "place"]) ELSE Reject(o, "release")
    /\ OnlyTicket

Place(o) ==
    /\ ticket[o].at = "place"
    /\ Put(o, [at |-> "sent", wire |-> PlacementSize(Intents[o], ticket[o].evidence)])
    /\ OnlyTicket

ReleaseRejected(o) ==
    /\ ticket[o].at = "release"
    /\ Put(o, [at |-> "away", hold |-> 0])
    /\ OnlyTicket

\* The process dies; what it had not written is gone.
Die(o) ==
    /\ deaths < MaxCrashes /\ deaths' = deaths + 1
    /\ ticket[o].at \notin {"away", "sent"}
    /\ Put(o, [at |-> IF ticket[o].status = "SUBMITTING" THEN "sent" ELSE "away", resumed |-> FALSE])
    /\ UNCHANGED <<stops, policy, scan, time, changes>>

\* The sweep resumes an order that was never submitted.
ResumeOrder(o) ==
    /\ ticket[o].at = "away" /\ ticket[o].status \in {"VALIDATING", "RESERVED"}
    /\ Put(o, [at |-> IF ticket[o].status = "VALIDATING" THEN "guard" ELSE "validate", resumed |-> TRUE])
    /\ OnlyTicket

------------------------------------------------------------------------------
(* Operators, reconciliation and the clock *)

AllStops == {<<"GLOBAL">>} \cup {<<"MARKET", t>> : t \in Instruments}
            \cup ({"ACCOUNT"} \X TradingAccounts)
            \cup ({"UNARMED", "BINDING", "POLICY", "ISSUE"} \X PolicedAccounts)

Change(next) == changes < MaxChanges /\ changes' = changes + 1 /\ stops' = next /\ UNCHANGED <<ticket, time, deaths>>
RaiseStop == \E s \in AllStops \ stops : Change(stops \cup {s}) /\ UNCHANGED <<policy, scan>>
LiftStop == \E s \in stops : Change(stops \ {s}) /\ UNCHANGED <<policy, scan>>
ReplacePolicy == \E a \in PolicedAccounts :
    Change(stops) /\ policy' = [policy EXCEPT ![a] = @ + 1] /\ UNCHANGED scan
ScanFinishes == \E a \in PolicedAccounts :
    Change(stops \ {<<"ISSUE", a>>}) /\ scan' = [scan EXCEPT ![a] = time] /\ UNCHANGED policy
TimePasses == time < MaxTime /\ time' = time + 1 /\ UNCHANGED <<stops, policy, scan, ticket, changes, deaths>>

PreTradeNext ==
    \/ \E o \in Intended : \/ Decide(o) \/ CheckGuard(o) \/ ValidateMarket(o) \/ ReserveExisting(o)
                           \/ ReserveNew(o) \/ MarkReserved(o) \/ StartSubmit(o) \/ Place(o)
                           \/ ReleaseRejected(o) \/ Die(o) \/ ResumeOrder(o)
    \/ RaiseStop \/ LiftStop \/ ReplacePolicy \/ ScanFinishes \/ TimePasses

PreTradeSpec == PreTradeInit /\ [][PreTradeNext]_preTradeVars

------------------------------------------------------------------------------
(* Properties *)

\* What forbids an order of this kind to be sent, as the runbooks put it.
Forbidden(o) ==
    LET i == Intents[o] IN
    \/ stops \cap {<<"GLOBAL">>, <<"ACCOUNT", i.account>>, <<"MARKET", i.token>>} # {}
    \/ /\ i.venue # "kalshi"
       /\ \/ stops \cap ({"UNARMED", "BINDING", "POLICY", "ISSUE"} \X {i.account}) # {}
          \/ time - scan[i.account] > StateAge
          \/ i.side = "BUY" /\ time - ticket[o].signal > SignalAge

\* However long an order waited, and whatever was authorized when it was
\* reserved, it does not become SUBMITTING while trading is stopped for it, and
\* a Polymarket order only under the policy that authorized its reservation
\* (live_risk.go authorizeLiveRisk, Resume, enforce_live_order_submit_risk).
NoOrderPassesAStop ==
    [][\A o \in Intended : ticket[o].status # "SUBMITTING" /\ ticket'[o].status = "SUBMITTING" =>
          /\ ~Forbidden(o)
          /\ Intents[o].venue # "kalshi" => ticket[o].under = policy[Intents[o].account]]_preTradeVars

\* What a limit order of this size finds in the asks, best price first.
Taken(i, asks, size) ==
    LET left[k \in 0..Len(asks)] ==
            IF k = 0 THEN size
            ELSE IF asks[k].price > i.worst THEN left[k - 1]
            ELSE Max({0, left[k - 1] - asks[k].size})
    IN size - left[Len(asks)]

\* An IOC buy goes out with the largest size on the venue's grid that the book
\* last captured for it fills at once within the strategy's limit, never above
\* the strategy's size nor below the venue's minimum, so that nothing is left to
\* rest (protectedExecutableSize, validateKalshiDepthAwareLimit, placementIntent).
WireSizeFillsAtOnce ==
    \A o \in Intended : LET i == Intents[o] book == ticket[o].evidence.asks size == ticket[o].wire IN
       size > 0 /\ i.side = "BUY" =>
          /\ size \in ticket[o].evidence.min..EffectiveSize(i) /\ size % SizeStep = 0
          /\ Taken(i, book, size) = size
          /\ size < EffectiveSize(i) => Taken(i, book, size + SizeStep) < size + SizeStep
====
