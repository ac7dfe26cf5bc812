------------------------------- MODULE MCWorkers -------------------------------
(* The workers of a server: the delivery of recorded intents, the             *)
(* reconciliation run with its chain-cash sync, the calls to the Kalshi       *)
(* venue, the outbox and the reports to the strategy.                         *)
(* The components share no state, so a behaviour moves one of them, chosen at *)
(* the start; the others rest in an initial state.                            *)
EXTENDS MCDecisionDelivery, Reconciliation, ChainCash, KalshiVenue, Outbox, StrategyReports

CONSTANTS buy, mint

VARIABLE part

\* A purchase of this account, and the mint of a redemption.
MCShape ==
    [t \in Transfers |->
        [dir  |-> IF t = mint THEN "IN" ELSE "OUT",
         from |-> IF t = mint THEN "zero" ELSE "other",
         fill |-> t = buy]]

(* Capped, whole and refused IOC orders, fill-or-kill and resting ones, both  *)
(* directions and outcomes.                                                   *)
Ticket(side, outcome, tif, size, price, executable) ==
    [side |-> side, outcome |-> outcome, tif |-> tif, size |-> size, price |-> price,
     executable |-> executable]

MCTickets ==
    {Ticket("BUY", "YES", "IOC", 2, 3, 1), Ticket("BUY", "NO", "IOC", 2, 1, 0),
     Ticket("SELL", "NO", "IOC", 2, 2, 0), Ticket("SELL", "YES", "GTC", 2, 2, 0),
     Ticket("BUY", "NO", "FOK", 2, 1, 0), Ticket("SELL", "NO", "FOK", 2, 2, 0),
     Ticket("BUY", "YES", "IOC", 1, 3, 2)}

(* The processes also reconcile, sync and dispatch.                           *)
MCSym == MCSymmetry

Only(name) == part = name /\ UNCHANGED part

WorkersInit ==
    /\ part \in {"delivery", "reconciliation", "chain", "kalshi", "outbox", "reports"}
    /\ Init /\ ReconInit /\ ChainInit /\ KalshiVenueInit /\ OutboxInit /\ ReportInit
    /\ part # "reconciliation" =>
         /\ \A o \in Orders : match[o] = "none" /\ localStatus[o] = "LIVE"
         /\ redeem = "none" /\ ~chainCash
    /\ part # "kalshi" => kticket.tif = "GTC"
    /\ Cardinality({o \in Tracked : Revision(o) = 2}) = IF part = "reports" THEN 1 ELSE 0

\* The bounds of the others end their behaviours; a delivery never gets stuck.
Rests ==
    /\ part # "delivery"
    /\ UNCHANGED <<part, vars, reconVars, chainCashVars, kalshiVenueVars, outboxVars, reportVars>>

WorkersNext ==
    \/ /\ Only("delivery") /\ UNCHANGED <<reconVars, chainCashVars, kalshiVenueVars, outboxVars, reportVars>>
       /\ Next
    \/ /\ Only("reconciliation") /\ UNCHANGED <<vars, chainCashVars, kalshiVenueVars, outboxVars, reportVars>>
       /\ ReconNext
    \/ /\ Only("chain") /\ UNCHANGED <<vars, reconVars, kalshiVenueVars, outboxVars, reportVars>>
       /\ ChainNext
    \/ /\ Only("kalshi") /\ UNCHANGED <<vars, reconVars, chainCashVars, outboxVars, reportVars>>
       /\ KalshiVenueNext
    \/ /\ Only("outbox") /\ UNCHANGED <<vars, reconVars, chainCashVars, kalshiVenueVars, reportVars>>
       /\ OutboxNext
    \/ /\ Only("reports") /\ UNCHANGED <<vars, reconVars, chainCashVars, kalshiVenueVars, outboxVars>>
       /\ ReportNext
    \/ Rests

(* What rests need not be told apart.                                         *)
MCView ==
    CASE part = "delivery"       -> <<part, vars>>
      [] part = "reconciliation" -> <<part, reconVars>>
      [] part = "chain"          -> <<part, chainCashVars>>
      [] part = "kalshi"         -> <<part, kalshiVenueVars>>
      [] part = "outbox"         -> <<part, outboxVars>>
      [] part = "reports"        -> <<part, reportVars>>

workersVars == <<part, vars, reconVars, chainCashVars, kalshiVenueVars, outboxVars, reportVars>>

WorkersSpec == WorkersInit /\ [][WorkersNext]_workersVars
================================================================================
