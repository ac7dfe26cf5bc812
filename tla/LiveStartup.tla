----------------------------- MODULE LiveStartup -----------------------------
(***************************************************************************)
(* The live server from process start to serving, the maintenance registry *)
(* that keeps an account out of trading, the probe that lets it back, and  *)
(* the router every order passes.  Checks of shared dependencies end the   *)
(* process; a check of one account only puts that account in maintenance.  *)
(* The registry, the routes and the results live in memory and are lost    *)
(* with the process; the rows of the accounts survive it.                  *)
(*                                                                         *)
(* cmd/server/{main,live,kalshi_live,decision_cycle,account_maintenance,   *)
(* placement_readiness}.go, accountmaintenance/registry.go and             *)
(* executionrouter/service.go.                                             *)
(***************************************************************************)
EXTENDS Integers, FiniteSets, Sequences

CONSTANTS
  PolyAccounts,    \* accounts of the wallet file
  KalshiAccounts,  \* KALSHI rows of the decision cycle
  RouteStrategy,   \* KalshiAccounts -> the strategy configured for the account
  LegacyOf,        \* KalshiAccounts -> the Polymarket account it once rode on
  Strategies,
  MaxStartupFaults,       \* bound: changes of what is broken outside the process
  MaxStarts        \* bound: process starts

LiveAccounts == PolyAccounts \cup KalshiAccounts

ASSUME LiveStartupConstants ==
  /\ RouteStrategy \in [KalshiAccounts -> Strategies]
  /\ LegacyOf \in [KalshiAccounts -> PolyAccounts]
  /\ \A k, l \in KalshiAccounts : LegacyOf[k] = LegacyOf[l] => k = l
  /\ PolyAccounts \cap KalshiAccounts = {}
  /\ {MaxStartupFaults, MaxStarts} \subseteq Nat

VARIABLES
  stage,     \* how far the process has come
  todo,      \* accounts the current stage still has to look at
  broken,    \* account -> its checks that would fail now
  maint,     \* the registry: account -> reasons
  lastRun,   \* PolyAccounts -> result of the latest reconciliation of this process
  route,     \* KalshiAccounts -> route of this process
  account,   \* KalshiAccounts that have a row in execution_accounts
  beating,   \* PolyAccounts whose heartbeat gate is open
  passed,    \* PolyAccounts whose latest preflight of this process passed
  probe,     \* the account the maintenance probe is working on
  placed,    \* the last order handed to a venue
  startupFaults, starts

startupVars == <<stage, todo, broken, maint, lastRun, route, account, beating, passed,
                 probe, placed, startupFaults, starts>>

-----------------------------------------------------------------------------
(* The checks of an account, in the order the preflight makes them.        *)

PreflightOrder == <<"CLOB_AUTH", "FUNDING_UNAVAILABLE", "ALLOWANCE_MISSING",
                    "ELIGIBILITY_UNAVAILABLE", "NOT_ELIGIBLE">>

IsPreflightReason == {PreflightOrder[i] : i \in 1..Len(PreflightOrder)}

KalshiChecks == {"KEY", "REMOTE", "BOOKS"}

NoProbe == [of |-> "none"]
NoPlacement == [by |-> "none"]

\* preflightLiveAccount: read-only requests, the first failure is the result.
PreflightResult(a) ==
  LET failing == {i \in 1..Len(PreflightOrder) : PreflightOrder[i] \in broken[a]}
  IN  IF failing = {} THEN "pass"
      ELSE PreflightOrder[CHOOSE i \in failing : \A j \in failing : i <= j]

MaintenanceReason(a) == maint[a] # {}

Enter(reg, a, reason) == [reg EXCEPT ![a] = @ \cup {reason}]
Exit(reg, a, reasons) == [reg EXCEPT ![a] = @ \ reasons]

-----------------------------------------------------------------------------

\* Memory of a process that has just started.
Forgotten ==
  /\ todo' = {}
  /\ maint' = [a \in LiveAccounts |-> {}]
  /\ lastRun' = [a \in PolyAccounts |-> "none"]
  /\ route' = [k \in KalshiAccounts |-> "none"]
  /\ beating' = {}
  /\ passed' = {}
  /\ probe' = NoProbe
  /\ placed' = NoPlacement

StartupInit ==
  /\ stage = "down" /\ todo = {}
  /\ broken \in [LiveAccounts -> {{}}]
  /\ maint = [a \in LiveAccounts |-> {}]
  /\ lastRun = [a \in PolyAccounts |-> "none"]
  /\ route = [k \in KalshiAccounts |-> "none"]
  /\ account \in SUBSET KalshiAccounts
  /\ beating = {} /\ passed = {}
  /\ probe = NoProbe /\ placed = NoPlacement
  /\ startupFaults = 0 /\ starts = 0

\* A check of something fails or recovers.
CheckChanges(a, c) ==
  /\ startupFaults < MaxStartupFaults
  /\ startupFaults' = startupFaults + 1
  /\ broken' = [broken EXCEPT ![a] = IF c \in @ THEN @ \ {c} ELSE @ \cup {c}]
  /\ UNCHANGED <<stage, todo, maint, lastRun, route, account, beating, passed, probe, placed, starts>>

\* The process ends: a fatal check, the startup deadline, a signal or a crash.
ProcessEnds ==
  /\ stage # "down"
  /\ stage' = "down"
  /\ Forgotten
  /\ UNCHANGED <<broken, account, startupFaults, starts>>

-----------------------------------------------------------------------------
(* Startup.  Each step is taken when the one before it has succeeded.       *)

\* run: the configuration, the database and its schema.
OpenDatabase ==
  /\ stage = "down" /\ starts < MaxStarts
  /\ stage' = "wallets" /\ starts' = starts + 1
  /\ UNCHANGED <<todo, broken, maint, lastRun, route, account, beating, passed, probe, placed, startupFaults>>

\* The wallet file holds exactly the configured accounts.
LoadWallets ==
  /\ stage = "wallets"
  /\ stage' = "authorise"
  /\ UNCHANGED <<todo, broken, maint, lastRun, route, account, beating, passed, probe, placed, startupFaults, starts>>

\* Their enabled bindings are exactly the configured ones, no policy is
\* disabled and no account paused.
AuthorizeAccounts ==
  /\ stage = "authorise"
  /\ stage' = "protocol"
  /\ UNCHANGED <<todo, broken, maint, lastRun, route, account, beating, passed, probe, placed, startupFaults, starts>>

\* The protocol version and the clock of the venue.
PreflightProtocol ==
  /\ stage = "protocol"
  /\ stage' = "preflight" /\ todo' = PolyAccounts
  /\ UNCHANGED <<broken, maint, lastRun, route, account, beating, passed, probe, placed, startupFaults, starts>>

\* preflightLiveAccounts, one account.
PreflightAccount(a) ==
  /\ stage = "preflight" /\ a \in todo
  /\ LET result == PreflightResult(a)
     IN  IF result = "pass"
         THEN passed' = passed \cup {a} /\ maint' = maint
         ELSE passed' = passed \ {a} /\ maint' = Enter(maint, a, result)
  /\ todo' = todo \ {a}
  /\ UNCHANGED <<stage, broken, lastRun, route, account, beating, probe, placed, startupFaults, starts>>

\* The ledgers are bound to the wallets and their sums agree; the services are
\* put together.
BindLedgers ==
  /\ stage = "preflight" /\ todo = {}
  /\ stage' = "kalshi" /\ todo' = KalshiAccounts
  /\ UNCHANGED <<broken, maint, lastRun, route, account, beating, passed, probe, placed, startupFaults, starts>>

\* buildKalshiLiveRoute: without a client there is no route, without a remote
\* preflight an account that exists keeps a route for recovery only.
BuildRoute(k) ==
  CASE "KEY" \in broken[k] -> "none"
    [] "REMOTE" \in broken[k] /\ k \notin account -> "none"
    [] "REMOTE" \in broken[k] /\ k \in account -> "maintenance"
    [] OTHER -> "live"

\* composeKalshiExecution, one account.
ComposeKalshi(k) ==
  /\ stage = "kalshi" /\ k \in todo
  /\ route' = [route EXCEPT ![k] = BuildRoute(k)]
  /\ maint' = IF BuildRoute(k) = "live" THEN maint
              ELSE Enter(maint, k, "KALSHI_ROUTE_UNAVAILABLE")
  /\ account' = IF BuildRoute(k) = "live" THEN account \cup {k} ELSE account
  /\ todo' = todo \ {k}
  /\ UNCHANGED <<stage, broken, lastRun, beating, passed, probe, placed, startupFaults, starts>>

BindReconciliation ==
  /\ stage = "kalshi" /\ todo = {}
  /\ stage' = "sweep" /\ todo' = PolyAccounts
  /\ UNCHANGED <<broken, maint, lastRun, route, account, beating, passed, probe, placed, startupFaults, starts>>

\* The startup sweep and validateStartupReconciliation, one account: a run that
\* finished, with or without issues, or one that failed or never ran.
StartupSweep(a) ==
  /\ stage = "sweep" /\ a \in todo
  /\ \E result \in {"finished", "failed"} :
       /\ lastRun' = [lastRun EXCEPT ![a] = result]
       /\ maint' = IF result = "finished" THEN maint
                   ELSE Enter(maint, a, "STARTUP_RECONCILIATION_FAILED")
  /\ todo' = todo \ {a}
  /\ UNCHANGED <<stage, broken, route, account, beating, passed, probe, placed, startupFaults, starts>>

\* buildDecisionRunner: without Kalshi books no Kalshi account may trade.
BuildDecisionRunner ==
  /\ stage = "sweep" /\ todo = {}
  /\ stage' = "beat" /\ todo' = PolyAccounts
  /\ maint' = [a \in LiveAccounts |->
                 IF a \in KalshiAccounts /\ \E k \in KalshiAccounts : "BOOKS" \in broken[k]
                 THEN maint[a] \cup {"KALSHI_MARKET_DATA_UNAVAILABLE"} ELSE maint[a]]
  /\ UNCHANGED <<broken, lastRun, route, account, beating, passed, probe, placed, startupFaults, starts>>

\* The first heartbeat, the last step of the composition; its failure closes
\* the gate of the account and nothing else.
FirstHeartbeat(a) ==
  /\ stage = "beat" /\ a \in todo
  /\ beating' \in {beating, beating \cup {a}}
  /\ todo' = todo \ {a}
  /\ UNCHANGED <<stage, broken, maint, lastRun, route, account, passed, probe, placed, startupFaults, starts>>

\* startBackground: reconciliation and heartbeat first, then the decision
\* runner, which delivers the stored intents before it reports ready.
StartBackground ==
  /\ stage = "beat" /\ todo = {}
  /\ stage' = "recovery"
  /\ UNCHANGED <<todo, broken, maint, lastRun, route, account, beating, passed, probe, placed, startupFaults, starts>>

\* Then the probe, redemption and settlement, the coordinator and the API.
Serve ==
  /\ stage = "recovery"
  /\ stage' = "serving"
  /\ UNCHANGED <<todo, broken, maint, lastRun, route, account, beating, passed, probe, placed, startupFaults, starts>>

-----------------------------------------------------------------------------
(* The background loops.                                                    *)

Trading == stage \in {"recovery", "serving"}

HeartbeatTurns(a) ==
  /\ Trading
  /\ beating' = IF a \in beating THEN beating \ {a} ELSE beating \cup {a}
  /\ UNCHANGED <<stage, todo, broken, maint, lastRun, route, account, passed, probe, placed, startupFaults, starts>>

ScheduledRun(a) ==
  /\ Trading
  /\ \E result \in {"finished", "failed"} : lastRun' = [lastRun EXCEPT ![a] = result]
  /\ UNCHANGED <<stage, todo, broken, maint, route, account, beating, passed, probe, placed, startupFaults, starts>>

\* RunOnce, the entries of one account and the preflight it makes when one of
\* them is a preflight reason.
ProbeReads(a) ==
  /\ stage = "serving" /\ probe = NoProbe /\ MaintenanceReason(a)
  /\ LET reasons == maint[a] \cap IsPreflightReason
         result == IF reasons = {} THEN "skipped" ELSE PreflightResult(a)
     IN  /\ probe' = [of |-> a, old |-> reasons, result |-> result, step |-> "first"]
         /\ passed' = CASE result = "pass" -> passed \cup {a}
                        [] result = "skipped" -> passed
                        [] OTHER -> passed \ {a}
  /\ UNCHANGED <<stage, todo, broken, maint, lastRun, route, account, beating, placed, startupFaults, starts>>

\* probePreflight, the order it keeps: a failure that has moved to another
\* stage is entered before the old reasons are cleared.
ProbeOrderClearsFirst == <<"exit", "enter">>
ProbeOrder == <<"enter", "exit">>

ProbeStep(half) ==
  CASE probe.result = "pass" -> IF half = "exit" THEN Exit(maint, probe.of, probe.old) ELSE maint
    [] probe.result = "skipped" -> maint
    [] OTHER -> IF half = "enter" THEN Enter(maint, probe.of, probe.result)
                ELSE Exit(maint, probe.of, probe.old \ {probe.result})

ProbeApplies ==
  /\ probe # NoProbe /\ probe.step = "first"
  /\ maint' = ProbeStep(ProbeOrder[1])
  /\ probe' = [probe EXCEPT !.step = "second"]
  /\ UNCHANGED <<stage, todo, broken, lastRun, route, account, beating, passed, placed, startupFaults, starts>>

ReconciliationRecovered(a) == a \in PolyAccounts /\ lastRun[a] = "finished"

\* The second half, and the reason of the startup reconciliation.
ProbeFinishes ==
  /\ probe # NoProbe /\ probe.step = "second"
  /\ LET after == ProbeStep(ProbeOrder[2])
     IN  maint' = IF ReconciliationRecovered(probe.of)
                  THEN Exit(after, probe.of, {"STARTUP_RECONCILIATION_FAILED"}) ELSE after
  /\ probe' = NoProbe
  /\ UNCHANGED <<stage, todo, broken, lastRun, route, account, beating, passed, placed, startupFaults, starts>>

-----------------------------------------------------------------------------
(* The router.  An intent names a venue, an account and a strategy.         *)

LiveIntents == [venue : {"poly", "kalshi"}, account : LiveAccounts, strategy : Strategies]

\* As a mutant: the strategy of the route is not compared.
KalshiRouteOfAnyStrategy(i) ==
  {k \in KalshiAccounts :
     /\ route[k] # "none"
     /\ k = i.account \/ LegacyOf[k] = i.account}

\* kalshiRoute: the account itself, or the one a Polymarket account stands for.
KalshiRouteOf(i) ==
  {k \in KalshiAccounts :
     /\ route[k] # "none"
     /\ k = i.account \/ LegacyOf[k] = i.account
     /\ RouteStrategy[k] = i.strategy}

\* The placement gates of the Polymarket venue.
CheckPlacement(a) ==
  /\ ~MaintenanceReason(a)
  /\ lastRun[a] = "finished"
  /\ a \in beating

Submit(i) ==
  /\ Trading
  /\ \/ /\ i.venue = "poly"
        /\ i.account \notin KalshiAccounts
        /\ ~MaintenanceReason(i.account)
        /\ CheckPlacement(i.account)
        /\ placed' = [by |-> "submit", intent |-> i, on |-> i.account]
     \/ /\ i.venue = "kalshi"
        /\ \E k \in KalshiRouteOf(i) :
             /\ route[k] = "live" /\ ~MaintenanceReason(k)
             /\ placed' = [by |-> "submit", intent |-> i, on |-> k]
  /\ UNCHANGED <<stage, todo, broken, maint, lastRun, route, account, beating, passed, probe, startupFaults, starts>>

\* Resume of a stored order that has not reached its venue.  In maintenance it
\* is put off with an audited self-transition and nothing is sent.
Resume(a) ==
  /\ Trading
  /\ ~MaintenanceReason(a)
  /\ \/ a \in PolyAccounts /\ CheckPlacement(a)
     \/ a \in KalshiAccounts /\ route[a] = "live"
  /\ placed' = [by |-> "resume", on |-> a]
  /\ UNCHANGED <<stage, todo, broken, maint, lastRun, route, account, beating, passed, probe, startupFaults, starts>>

-----------------------------------------------------------------------------

StartupNext ==
  \/ \E a \in LiveAccounts, c \in IsPreflightReason \cup KalshiChecks :
       /\ c \in KalshiChecks <=> a \in KalshiAccounts
       /\ CheckChanges(a, c)
  \/ ProcessEnds
  \/ OpenDatabase \/ LoadWallets \/ AuthorizeAccounts \/ PreflightProtocol \/ BindLedgers \/ BindReconciliation
  \/ \E a \in PolyAccounts : PreflightAccount(a) \/ StartupSweep(a) \/ FirstHeartbeat(a)
                             \/ HeartbeatTurns(a) \/ ScheduledRun(a)
  \/ \E k \in KalshiAccounts : ComposeKalshi(k)
  \/ BuildDecisionRunner \/ StartBackground \/ Serve
  \/ \E a \in LiveAccounts : ProbeReads(a) \/ Resume(a)
  \/ ProbeApplies \/ ProbeFinishes
  \/ \E i \in LiveIntents : Submit(i)

StartupSpec == StartupInit /\ [][StartupNext]_startupVars

-----------------------------------------------------------------------------
(* Properties.                                                              *)

(* An account that may take new orders has passed the latest preflight this *)
(* process made of it, and a reconciliation of it has finished: neither the *)
(* order of startup nor the probe, which replaces one reason by another     *)
(* while orders are being submitted, ever leaves a gap.                     *)
OpenAccountsPassedTheirChecks ==
  \A a \in PolyAccounts :
    Trading /\ ~MaintenanceReason(a) => a \in passed /\ lastRun[a] # "none"

(* A Kalshi order is sent on a live route of its own strategy, and a        *)
(* Polymarket order never on a Kalshi account: the route is the only        *)
(* authorisation a Kalshi order has.                                        *)
OrdersKeepTheirRoute ==
  placed.by = "submit" =>
    IF placed.intent.venue = "kalshi"
    THEN placed.on \in KalshiAccounts /\ RouteStrategy[placed.on] = placed.intent.strategy
    ELSE placed.on \in PolyAccounts

(* New orders reach accounts that passed their checks, on a route of their  *)
(* own (startup, the probe, Submit and Resume of the router).               *)
OrdersMeetCheckedAccounts == OpenAccountsPassedTheirChecks /\ OrdersKeepTheirRoute
=============================================================================
