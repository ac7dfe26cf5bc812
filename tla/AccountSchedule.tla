---------------------------- MODULE AccountSchedule ----------------------------
(***************************************************************************)
(* Who may work on an execution account, and when: the reconciliation      *)
(* runner with its queues and its placement gate                           *)
(* (internal/service/reconciliation/runner.go), the bridge that keeps      *)
(* hints until the runner exists (internal/service/reconciliationtrigger), *)
(* and the decision runner whose order delivery shares the account slot    *)
(* (internal/service/decisionrunner/runner.go).  Time is a clock in units  *)
(* of the smallest interval that matters.                                  *)
(***************************************************************************)
EXTENDS Naturals, Sequences, FiniteSets, SequencesExt

CONSTANTS Accounts,
          BufferSize, RequestSize,    \* hints the bridge and the runner keep
          SweepInterval, AccountTimeout,
          DecisionInterval, StartupDelay, MaxStartLateness, CycleTimeout,
          DecisionLead, MaxDecisionDefer,
          MaxHints, MaxRestarts, MaxTime

ASSUME ScheduleConstants ==
    /\ {BufferSize, RequestSize, SweepInterval, AccountTimeout,
        MaxDecisionDefer} \subseteq Nat \ {0}
    /\ {DecisionInterval, MaxStartLateness, CycleTimeout} \subseteq Nat \ {0}
    /\ StartupDelay \in 0..(DecisionInterval - 1)
    /\ MaxStartLateness < DecisionInterval /\ CycleTimeout < DecisionInterval
    /\ {DecisionLead, MaxHints, MaxRestarts, MaxTime} \subseteq Nat

VARIABLES
    clock,
    boot,       \* "sweep" until every account was reconciled once, then "loop"
    bound, buffer, requests, queue,     \* hints on their way to an account
    worker,     \* per account, what its reconciliation worker does
    manual,     \* per account, an on-demand run
    slot,       \* per account, who holds it
    last,       \* per account, the result the placement gate looks at
    nextSweep,  \* when the next scheduled sweep is due
    cycle,      \* the decision runner
    started,    \* boundaries this process has started a cycle for
    dirty,      \* accounts with a hint no run has started after
    lost,       \* hints given up: a full channel, or no slot in time
    truth,      \* per account, the result of the run that ended last
    hints, restarts

scheduleVars == <<clock, boot, bound, buffer, requests, queue, worker, manual, slot, last,
                  nextSweep, cycle, started, dirty, lost, truth, hints, restarts>>
hintVars == <<bound, buffer, requests, hints>>
ghostVars == <<dirty, lost, truth>>

NoRequest == "none"
Triggers == {"STARTUP", "SCHEDULED", "IMMEDIATE"}
Free == [phase |-> "idle"]
NoResult == "NONE"

ScheduleTypeOK ==
    /\ clock \in 0..MaxTime /\ boot \in {"sweep", "loop"} /\ bound \in BOOLEAN
    /\ Len(buffer) <= BufferSize /\ Len(requests) <= RequestSize
    /\ queue \in [Accounts -> {NoRequest} \cup Triggers]
    /\ slot \in [Accounts -> {"free", "worker", "manual", "delivery"}]
    /\ last \in [Accounts -> {NoResult, "COMPLETED", "FAILED"}]
    /\ dirty \subseteq Accounts /\ lost \subseteq Accounts

-----------------------------------------------------------------------------
(***************************************************************************)
(* Hints.                                                                  *)
(***************************************************************************)
\* Before the runner exists hints are kept, one per account; afterwards they
\* go to the runner's channel, and a full channel drops them.
Hint(a) ==
    /\ hints < MaxHints /\ hints' = hints + 1
    /\ dirty' = dirty \cup {a}
    /\ IF bound
       THEN /\ requests' = IF Len(requests) < RequestSize THEN Append(requests, a) ELSE requests
            /\ lost' = IF Len(requests) < RequestSize THEN lost ELSE lost \cup {a}
            /\ UNCHANGED buffer
       ELSE /\ buffer' = IF Contains(buffer, a) \/ Len(buffer) = BufferSize THEN buffer
                         ELSE Append(buffer, a)
            /\ lost' = IF Contains(buffer, a) \/ Len(buffer) < BufferSize THEN lost
                       ELSE lost \cup {a}
            /\ UNCHANGED requests
    /\ UNCHANGED <<clock, boot, bound, queue, worker, manual, slot, last, nextSweep, cycle, started, truth, restarts>>

Bind ==
    /\ ~bound /\ bound' = TRUE
    /\ LET room == RequestSize - Len(requests)
           kept == SubSeq(buffer, 1, IF Len(buffer) < room THEN Len(buffer) ELSE room)
       IN /\ requests' = requests \o kept
          /\ lost' = lost \cup (ToSet(buffer) \ ToSet(kept))
    /\ buffer' = <<>>
    /\ UNCHANGED <<clock, boot, queue, worker, manual, slot, last, nextSweep,
                   cycle, started, dirty, truth, hints, restarts>>

-----------------------------------------------------------------------------
(***************************************************************************)
(* The reconciliation runner.                                              *)
(***************************************************************************)
\* The loop starts once the startup sweep is over.
BeginLoop ==
    /\ boot = "sweep" /\ \A a \in Accounts : worker[a].phase = "idle" /\ last[a] # NoResult
    /\ boot' = "loop" /\ nextSweep' = clock + SweepInterval
    /\ UNCHANGED <<clock, hintVars, queue, worker, manual, slot, last, cycle, started,
                   ghostVars, restarts>>

Enqueued(S, trigger) ==
    [a \in Accounts |-> IF a \in S /\ queue[a] = NoRequest THEN trigger ELSE queue[a]]

SweepDue ==
    /\ boot = "loop" /\ clock >= nextSweep
    /\ nextSweep' = clock + SweepInterval
    /\ queue' = Enqueued(Accounts, "SCHEDULED")
    /\ UNCHANGED <<clock, boot, hintVars, worker, manual, slot, last, cycle, started,
                   ghostVars, restarts>>

TakeRequest ==
    /\ boot = "loop" /\ requests # <<>>
    /\ requests' = Tail(requests)
    /\ queue' = Enqueued({Head(requests)}, "IMMEDIATE")
    /\ UNCHANGED <<clock, boot, bound, buffer, hints, worker, manual, slot, last, nextSweep,
                   cycle, started, ghostVars, restarts>>

\* A cycle runs, or its due time is within the lead and not long past.
DecisionBusy ==
    \/ cycle.phase = "running"
    \/ /\ cycle.phase = "waiting"
       /\ clock + DecisionLead >= cycle.due /\ clock < cycle.due + MaxStartLateness

Waiting(trigger) == [phase |-> "waiting", trigger |-> trigger, until |-> clock + AccountTimeout]

WorkerTakes(a) ==
    /\ boot = "loop" /\ worker[a].phase = "idle" /\ queue[a] # NoRequest
    /\ queue' = [queue EXCEPT ![a] = NoRequest]
    /\ worker' = [worker EXCEPT ![a] =
          IF queue[a] = "SCHEDULED" /\ DecisionBusy
          THEN [phase |-> "deferring", until |-> clock + MaxDecisionDefer]
          ELSE Waiting(queue[a])]
    /\ UNCHANGED <<clock, boot, hintVars, manual, slot, last, nextSweep, cycle,
                   started, ghostVars, restarts>>

\* A deferred sweep gives way to another trigger, swallows a second sweep, and
\* goes on when no cycle is near or it has waited long enough.
WorkerDefers(a) ==
    /\ worker[a].phase = "deferring"
    /\ \/ /\ queue[a] = "IMMEDIATE"
          /\ worker' = [worker EXCEPT ![a] = Waiting("IMMEDIATE")]
          /\ queue' = [queue EXCEPT ![a] = NoRequest]
       \/ /\ queue[a] # "IMMEDIATE"
          /\ queue' = [queue EXCEPT ![a] = NoRequest]
          /\ worker' = IF ~DecisionBusy \/ clock >= worker[a].until
                       THEN [worker EXCEPT ![a] = Waiting("SCHEDULED")] ELSE worker
    /\ <<worker', queue'>> # <<worker, queue>>
    /\ UNCHANGED <<clock, boot, hintVars, manual, slot, last, nextSweep, cycle,
                   started, ghostVars, restarts>>

WorkerAcquires(a) ==
    /\ worker[a].phase = "waiting" /\ slot[a] = "free"
    /\ worker' = [worker EXCEPT ![a].phase = "running"]
    /\ slot' = [slot EXCEPT ![a] = "worker"]
    /\ dirty' = dirty \ {a} /\ lost' = lost \ {a}
    /\ UNCHANGED <<clock, boot, hintVars, queue, manual, last, nextSweep, cycle,
                   started, truth, restarts>>

\* Nothing ran: the earlier result stays.
WorkerGivesUp(a) ==
    /\ worker[a].phase = "waiting" /\ clock >= worker[a].until /\ slot[a] # "free"
    /\ worker' = [worker EXCEPT ![a] = Free]
    /\ lost' = lost \cup ({a} \cap dirty)
    /\ UNCHANGED <<clock, boot, hintVars, queue, manual, slot, last, nextSweep, cycle,
                   started, dirty, truth, restarts>>

\* COMPLETED stands for every result without account-wide issues.
Result(until) == IF clock >= until THEN {"FAILED"} ELSE {"COMPLETED", "FAILED"}

\* As a mutant: the slot is given back before the result is remembered.
WorkerFinishesAndReleases(a) ==
    /\ worker[a].phase = "running"
    /\ \E r \in Result(worker[a].until) :
         /\ worker' = [worker EXCEPT ![a] = [phase |-> "finished", result |-> r]]
         /\ truth' = [truth EXCEPT ![a] = r]
    /\ slot' = [slot EXCEPT ![a] = "free"]
    /\ UNCHANGED <<clock, boot, hintVars, queue, manual, last, nextSweep,
                   cycle, started, dirty, lost, restarts>>

\* The service returned; its result is in the worker's hands.
WorkerFinishes(a) ==
    /\ worker[a].phase = "running"
    /\ \E r \in Result(worker[a].until) :
         /\ worker' = [worker EXCEPT ![a] = [phase |-> "finished", result |-> r]]
         /\ truth' = [truth EXCEPT ![a] = r]
    /\ UNCHANGED <<clock, boot, hintVars, queue, manual, slot, last, nextSweep,
                   cycle, started, dirty, lost, restarts>>

\* As a mutant: a hint that came in meanwhile is taken for served.
WorkerRemembersAndDrains(a) ==
    /\ worker[a].phase = "finished"
    /\ last' = [last EXCEPT ![a] = worker[a].result]
    /\ slot' = [slot EXCEPT ![a] = "free"]
    /\ worker' = [worker EXCEPT ![a] = Free]
    /\ queue' = [queue EXCEPT ![a] = NoRequest]
    /\ UNCHANGED <<clock, boot, hintVars, manual, nextSweep, cycle,
                   started, ghostVars, restarts>>

\* It is remembered before the slot is given back.
WorkerRemembers(a) ==
    /\ worker[a].phase = "finished"
    /\ last' = [last EXCEPT ![a] = worker[a].result]
    /\ slot' = [slot EXCEPT ![a] = "free"]
    /\ worker' = [worker EXCEPT ![a] = Free]
    /\ UNCHANGED <<clock, boot, hintVars, queue, manual, nextSweep, cycle,
                   started, ghostVars, restarts>>

\* An on-demand run goes through the same slot and the same bookkeeping.
ManualAcquires(a) ==
    /\ manual[a].phase = "idle" /\ slot[a] = "free" /\ boot = "loop"
    /\ manual' = [manual EXCEPT ![a] = [phase |-> "running", until |-> clock + AccountTimeout]]
    /\ slot' = [slot EXCEPT ![a] = "manual"]
    /\ dirty' = dirty \ {a} /\ lost' = lost \ {a}
    /\ UNCHANGED <<clock, boot, hintVars, queue, worker, last, nextSweep, cycle,
                   started, truth, restarts>>

ManualEnds(a) ==
    /\ manual[a].phase = "running"
    /\ \E r \in Result(manual[a].until) :
         /\ last' = [last EXCEPT ![a] = r] /\ truth' = [truth EXCEPT ![a] = r]
    /\ manual' = [manual EXCEPT ![a] = Free]
    /\ slot' = [slot EXCEPT ![a] = "free"]
    /\ UNCHANGED <<clock, boot, hintVars, queue, worker, nextSweep, cycle, started,
                   dirty, lost, restarts>>

\* CheckAccount: the last result has no account-wide issues, and the loop runs.
\* The age limits on both are left out.
GateOpen(a) == last[a] = "COMPLETED" /\ boot = "loop"

-----------------------------------------------------------------------------
(***************************************************************************)
(* The decision runner.                                                    *)
(***************************************************************************)
\* As a mutant: the boundary scheduled before is forgotten.
NextBoundaryForgetful(now, before) ==
    LET current == now - (now % DecisionInterval)
    IN IF current + StartupDelay < now THEN current + DecisionInterval ELSE current

\* The boundary under way while its due time is ahead, else the next one; never
\* one that was scheduled before.
NextBoundary(now, before) ==
    LET current == now - (now % DecisionInterval)
        upcoming == IF current + StartupDelay < now THEN current + DecisionInterval ELSE current
    IN IF before # <<>> /\ upcoming <= before[1] THEN before[1] + DecisionInterval ELSE upcoming

Schedule ==
    /\ cycle.phase = "idle" /\ boot = "loop" /\ bound
    /\ LET boundary == NextBoundary(clock, cycle.before) IN
       cycle' = [phase |-> "waiting", boundary |-> boundary, due |-> boundary + StartupDelay,
                 before |-> <<boundary>>, until |-> 0]
    /\ UNCHANGED <<clock, boot, hintVars, queue, worker, manual, slot, last, nextSweep, started, ghostVars, restarts>>

\* A runner that wakes too late skips the boundary.
Wake ==
    /\ cycle.phase = "waiting" /\ clock >= cycle.due
    /\ IF clock > cycle.due + MaxStartLateness
       THEN cycle' = [cycle EXCEPT !.phase = "idle"] /\ UNCHANGED started
       ELSE /\ cycle' = [cycle EXCEPT !.phase = "running", !.until = clock + CycleTimeout]
            /\ started' = Append(started, [boundary |-> cycle.boundary, at |-> clock])
    /\ UNCHANGED <<clock, boot, hintVars, queue, worker, manual, slot, last, nextSweep, ghostVars, restarts>>

DeliveryAcquires(a) ==
    /\ cycle.phase = "running" /\ clock < cycle.until /\ slot[a] = "free"
    /\ slot' = [slot EXCEPT ![a] = "delivery"]
    /\ UNCHANGED <<clock, boot, hintVars, queue, worker, manual, last, nextSweep,
                   cycle, started, ghostVars, restarts>>

DeliveryEnds(a) ==
    /\ slot[a] = "delivery" /\ slot' = [slot EXCEPT ![a] = "free"]
    /\ UNCHANGED <<clock, boot, hintVars, queue, worker, manual, last, nextSweep,
                   cycle, started, ghostVars, restarts>>

CycleEnds ==
    /\ cycle.phase = "running" /\ \A a \in Accounts : slot[a] # "delivery"
    /\ cycle' = [cycle EXCEPT !.phase = "idle"]
    /\ UNCHANGED <<clock, boot, hintVars, queue, worker, manual, slot, last, nextSweep, started, ghostVars, restarts>>

-----------------------------------------------------------------------------
Tick ==
    /\ clock < MaxTime /\ clock' = clock + 1
    /\ UNCHANGED <<boot, hintVars, queue, worker, manual, slot, last, nextSweep,
                   cycle, started, ghostVars, restarts>>

Fresh ==
    /\ boot' = "sweep" /\ bound' = FALSE /\ buffer' = <<>> /\ requests' = <<>>
    /\ queue' = [a \in Accounts |-> NoRequest]
    /\ manual' = [a \in Accounts |-> Free]
    /\ slot' = [a \in Accounts |-> "free"]
    /\ last' = [a \in Accounts |-> NoResult] /\ truth' = last'
    /\ nextSweep' = 0
    /\ cycle' = [phase |-> "idle", boundary |-> 0, due |-> 0, before |-> <<>>, until |-> 0]
    /\ started' = <<>> /\ lost' = {}

\* A new process begins with the startup sweep; every hint of the old one is
\* in the orders that sweep scans.
Restart ==
    /\ restarts < MaxRestarts /\ restarts' = restarts + 1
    /\ Fresh
    /\ worker' = [a \in Accounts |-> [Waiting("STARTUP") EXCEPT !.until = clock + AccountTimeout]]
    /\ UNCHANGED <<clock, dirty, hints>>

ScheduleInit ==
    /\ clock = 0 /\ boot = "sweep" /\ bound = FALSE /\ buffer = <<>> /\ requests = <<>>
    /\ queue = [a \in Accounts |-> NoRequest]
    /\ worker = [a \in Accounts |-> [phase |-> "waiting", trigger |-> "STARTUP", until |-> AccountTimeout]]
    /\ manual = [a \in Accounts |-> Free]
    /\ slot = [a \in Accounts |-> "free"]
    /\ last = [a \in Accounts |-> NoResult] /\ truth = last
    /\ nextSweep = 0
    /\ cycle = [phase |-> "idle", boundary |-> 0, due |-> 0, before |-> <<>>, until |-> 0]
    /\ started = <<>> /\ dirty = {} /\ lost = {} /\ hints = 0 /\ restarts = 0

ScheduleNext ==
    \/ \E a \in Accounts :
         \/ Hint(a) \/ WorkerTakes(a) \/ WorkerDefers(a) \/ WorkerAcquires(a) \/ WorkerGivesUp(a)
         \/ WorkerFinishes(a) \/ WorkerRemembers(a) \/ ManualAcquires(a) \/ ManualEnds(a)
         \/ DeliveryAcquires(a) \/ DeliveryEnds(a)
    \/ Bind \/ BeginLoop \/ SweepDue \/ TakeRequest \/ Schedule \/ Wake \/ CycleEnds
    \/ Tick \/ Restart

ScheduleSpec == ScheduleInit /\ [][ScheduleNext]_scheduleVars

-----------------------------------------------------------------------------
\* "Dropping duplicate focus hints loses no work": a hinted account that no run
\* has started on since is still on its way to one, in the bridge, the channel,
\* the account's queue or its worker.  Only a full channel, or a slot that was
\* not free in time, gives a hint up to the next sweep (Trigger, enqueue,
\* yieldToDecisionCycle, runAccount).
HintIsCovered ==
    \A a \in dirty \ lost :
        \/ Contains(buffer, a) \/ Contains(requests, a) \/ queue[a] # NoRequest
        \/ worker[a].phase \in {"deferring", "waiting"}

\* Whenever nobody holds an account the placement gate judges the run that
\* ended last, not an earlier one whose result was stored late (runAccount,
\* remember, RunAccount, AcquireExecutionAccount).
GateJudgesLastRun ==
    \A a \in Accounts :
        slot[a] # "worker" /\ boot = "loop" => (GateOpen(a) <=> truth[a] = "COMPLETED")

\* Within a process every decision boundary is started at most once, in order,
\* and inside its lateness window; missed boundaries are skipped, not replayed
\* (nextSchedule, runLoop).
BoundariesNeverReplayed ==
    \A i \in 1..Len(started) :
        /\ started[i].at >= started[i].boundary + StartupDelay
        /\ started[i].at <= started[i].boundary + StartupDelay + MaxStartLateness
        /\ i > 1 => started[i].boundary > started[i - 1].boundary

\* No reason to reconcile is lost: a hint leads to a run that starts after it,
\* and the gate is judged by the last run (the queue, the workers, Finish); and
\* no decision boundary is started late or again (nextSchedule).
RunsAreKept == ScheduleTypeOK /\ HintIsCovered /\ GateJudgesLastRun /\ BoundariesNeverReplayed
=============================================================================
