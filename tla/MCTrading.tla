------------------------------- MODULE MCTrading -------------------------------
(* An order and what it meets on its way: its execution, the heartbeat        *)
(* session with the placement gates, the fees it reserves, and the decision   *)
(* cycle that asks for orders.                                                *)
(* The components share no state, so a behaviour moves one of them, chosen at *)
(* the start; the others rest in an initial state.                            *)
EXTENDS MCExecution, VenueSession, OrderFees, DecisionCycle

VARIABLE part

(* Two accounts of one model, two tokens.  The rows of a prediction view differ *)
(* in identity, revision, channel and freshness.                              *)
MCBindingOrder == <<"a", "b">>
MCVenueOf == [a |-> "PM", b |-> "PM"]
MCModelOf == [a |-> "m", b |-> "m"]
MCTokenVenue == [P |-> "PM", Q |-> "PM"]

Prediction(identity, revision, channel) ==
    [model |-> "m", token |-> "P", identity |-> identity, rev |-> revision,
     channel |-> channel, fresh |-> TRUE]

MCPredictionViews ==
    {[kind |-> "UNAVAILABLE", rows |-> <<>>, id |-> "s0"],
     [kind |-> "SNAPSHOT", id |-> "s1", rows |-> <<Prediction(1, 2, TRUE), Prediction(2, 1, TRUE)>>],
     [kind |-> "SNAPSHOT", id |-> "s2", rows |-> <<Prediction(1, 1, FALSE)>>]}

HeldLot(token, identity) == [ok |-> TRUE, lots |-> {[token |-> token, identity |-> identity]}]

MCLotViews ==
    {[ok |-> TRUE, lots |-> {}], [ok |-> FALSE, lots |-> {}],
     HeldLot("P", 2), HeldLot("Q", 1), HeldLot("Q", 2)}

MCBookViews == {"OK", "ABSENT", "VENUE_FAILED"}

Configuration(submit, entryOff, strategyOff) ==
    [submit |-> submit, excluded |-> {}, strategyOff |-> strategyOff, entryOff |-> entryOff,
     entryStop |-> FALSE, routed |-> {"a", "b"}, submitVenues |-> {"PM"}]

MCConfigurations ==
    {Configuration(TRUE, {}, {}), Configuration(TRUE, {"a"}, {}),
     Configuration(FALSE, {}, {}), Configuration(TRUE, {}, {"b"})}

MCGrosses == {200, 300, 500, 600, 700, 900, 1000, 1100, 1500, 1600, 2400}

MCSym == Symmetry

Only(name) == part = name /\ UNCHANGED part

TradingInit ==
    /\ part \in {"execution", "session", "fees", "cycle"}
    /\ Init /\ SessionInit /\ FeeInit /\ CycleInit
    /\ part # "session" => silence = 0 /\ order.side = "BUY"
    /\ part # "fees" => feeVenue.kind = "kalshi" /\ venueRate = 0
    /\ part # "cycle" => settings = Configuration(FALSE, {}, {})

TradingNext ==
    \/ Only("execution") /\ UNCHANGED <<sessionVars, feeVars, cycleVars>> /\ Next
    \/ Only("session") /\ UNCHANGED <<vars, feeVars, cycleVars>> /\ SessionNext
    \/ Only("fees") /\ UNCHANGED <<vars, sessionVars, cycleVars>> /\ FeeNext
    \/ Only("cycle") /\ UNCHANGED <<vars, sessionVars, feeVars>> /\ CycleNext

(* What rests need not be told apart, and what an idle worker remembers is    *)
(* dead.                                                                      *)
MCView ==
    CASE part = "execution" -> <<part, LiveState>>
      [] part = "session"   -> <<part, sessionVars>>
      [] part = "fees"      -> <<part, feeVars>>
      [] part = "cycle"     -> <<part, cycleVars>>

tradingVars == <<part, vars, sessionVars, feeVars, cycleVars>>

TradingSpec == TradingInit /\ [][TradingNext]_tradingVars
================================================================================
