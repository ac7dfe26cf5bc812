-------------------------- MODULE DecisionDelivery --------------------------
(***************************************************************************)
(* Delivery of strategy intents of one account to the execution service:   *)
(* the rows of strategy_order_intent_deliveries, the cycle that stores and *)
(* delivers them (internal/service/decisioncycle), and its recovery after  *)
(* a crash or at the next boundary.                                        *)
(*                                                                         *)
(* Intents are numbered in the order the strategy ranked them, which is    *)
(* the order of a claim (created_at, cycle_id, sequence_no).  A batch      *)
(* submits several of them at once; turns keep the reservations in order.  *)
(***************************************************************************)
EXTENDS Naturals, FiniteSets

CONSTANTS
    Processes,
    Count,      \* number of intents
    CycleOf,    \* Intents -> the cycle that produced it
    Cost,       \* Intents -> the cash its order reserves
    Cash,       \* cash of the account
    Refusable,  \* intents that hard risk or market validation may refuse
    Routed,     \* intents whose venue route accepts submissions
    Cohort,     \* intents that recovery selects (account and side)
    Slots,      \* deliveryConcurrency
    BatchLimit, \* defaultDeliveryBatch
    MaxAttempts, \* bound: claims of an intent
    MaxFaults   \* bound: crashes, failed calls and expired contexts

Intents == 1..Count

ASSUME DeliveryConstants ==
    /\ Count \in Nat /\ CycleOf \in [Intents -> Nat \ {0}] /\ Cost \in [Intents -> Nat]
    /\ Cash \in Nat /\ Refusable \subseteq Intents /\ Routed \subseteq Intents
    /\ Cohort \subseteq Intents /\ Slots \in Nat \ {0} /\ BatchLimit \in Nat \ {0}
    /\ MaxAttempts \in Nat /\ MaxFaults \in Nat

VARIABLES
    row,       \* Intents -> the delivery row
    order,     \* Intents -> status of the order with its client_order_id
    placed,    \* Intents -> how many placements the venue was sent
    cash,
    issued,    \* the last cycle whose output was stored
    proc,      \* Processes -> the loop of the decision runner
    job,       \* Processes -> Intents -> the delivery in hand
    released,  \* Processes -> intents whose reservation turn is over
    faults

vars == <<row, order, placed, cash, issued, proc, job, released, faults>>
execution == <<order, placed, cash>>
local == <<proc, job, released>>

Open == {"PENDING", "SUBMITTING"}
Completed == {"SUBMITTED", "FAILED", "UNKNOWN"}
OrderStatus == {"NONE", "VALIDATING", "RESERVED", "SENT", "UNKNOWN", "REJECTED"}

NoRow == [status |-> "NONE", attempt |-> 0, stale |-> FALSE]
NoJob == [at |-> "none", attempt |-> 0, seen |-> "NONE", failed |-> FALSE]
NoJobs == [i \in Intents |-> NoJob]
Down == [at |-> "down", mode |-> "startup", cycle |-> 0, blocked |-> FALSE, ended |-> FALSE]

Init ==
    /\ row = [i \in Intents |-> NoRow]
    /\ order = [i \in Intents |-> "NONE"]
    /\ placed = [i \in Intents |-> 0]
    /\ cash = Cash /\ issued = 0 /\ faults = 0
    /\ proc = [p \in Processes |-> Down]
    /\ job = [p \in Processes |-> NoJobs]
    /\ released = [p \in Processes |-> {}]

Fault == faults < MaxFaults /\ faults' = faults + 1

At(p, label) == proc[p].at = label
Loop(p, next) == proc' = [proc EXCEPT ![p] = next]
Goto(p, label) == Loop(p, [proc[p] EXCEPT !.at = label])

\* What the last delivery of a pass leads to.  An unfinished delivery fails the
\* startup, or the cycle before it decides anything.
After(p, blocked) ==
    Loop(p, [proc[p] EXCEPT !.blocked = blocked,
        !.at = CASE proc[p].mode = "startup" -> IF blocked THEN "down" ELSE "ready"
                 [] proc[p].mode = "recover" -> IF blocked THEN "ready" ELSE "decide"
                 [] OTHER -> "ready"])

-----------------------------------------------------------------------------
(* The loop of the runner: startup recovery, then a pass per boundary.     *)

Start(p) ==
    /\ At(p, "down")
    /\ Loop(p, [Down EXCEPT !.at = "requeue"])
    /\ UNCHANGED <<row, execution, issued, job, released, faults>>

Boundary(p) ==
    /\ At(p, "ready")
    /\ Loop(p, [Down EXCEPT !.at = "requeue", !.mode = "recover"])
    /\ UNCHANGED <<row, execution, issued, job, released, faults>>

\* Variant: the startup waits for the lease like any other pass.
ExpiredPatient(p, i) == row[i].stale

\* claimed_at <= cutoff: at startup every claim, else one older than a cycle.
Expired(p, i) == proc[p].mode = "startup" \/ row[i].stale

\* Variant: a delivery without a known result is retried.
RequeuedUnknown(p) ==
    {i \in Cohort : \/ row[i].status = "SUBMITTING" /\ Expired(p, i)
                    \/ row[i].status = "UNKNOWN" /\ row[i].attempt < MaxAttempts}

Requeued(p) ==
    {i \in Cohort : row[i].status = "SUBMITTING" /\ Expired(p, i) /\ row[i].attempt < MaxAttempts}

RequeueStaleSubmitting(p) ==
    /\ At(p, "requeue")
    /\ row' = [i \in Intents |->
                 IF i \in Requeued(p) THEN [row[i] EXCEPT !.status = "PENDING", !.stale = FALSE] ELSE row[i]]
    /\ Goto(p, "claim")
    /\ UNCHANGED <<execution, issued, job, released, faults>>

\* A cycle claims the intents it stored itself, recovery those of its cohorts.
Claimable(p) ==
    {i \in Intents : /\ row[i].status = "PENDING"
                     /\ IF proc[p].mode = "cycle" THEN CycleOf[i] = proc[p].cycle ELSE i \in Cohort}

\* ORDER BY ... LIMIT.
FirstOf(S) == {i \in S : Cardinality({j \in S : j <= i}) <= BatchLimit}

ClaimPendingIntents(p) ==
    LET batch == FirstOf(Claimable(p))
    IN /\ At(p, "claim") /\ ~proc[p].ended /\ batch # {}
       /\ row' = [i \in Intents |->
                    IF i \in batch
                    THEN [status |-> "SUBMITTING", attempt |-> row[i].attempt + 1, stale |-> FALSE]
                    ELSE row[i]]
       /\ job' = [job EXCEPT ![p] = [i \in Intents |->
                    IF i \in batch THEN [NoJob EXCEPT !.at = "queued", !.attempt = row[i].attempt + 1]
                    ELSE NoJob]]
       /\ released' = [released EXCEPT ![p] = {}]
       /\ Goto(p, "batch")
       /\ UNCHANGED <<execution, issued, faults>>

NothingPending(p) ==
    /\ At(p, "claim") /\ ~proc[p].ended /\ Claimable(p) = {}
    /\ After(p, proc[p].blocked)
    /\ UNCHANGED <<row, execution, issued, job, released, faults>>

\* The requeue, the account gate or the claim fails.
PassFails(p) ==
    /\ proc[p].at \in {"requeue", "claim"}
    /\ IF proc[p].ended THEN UNCHANGED faults ELSE Fault
    /\ After(p, TRUE)
    /\ UNCHANGED <<row, execution, issued, job, released>>

\* ClaimOutput stores the output and its intents in one transaction, or finds
\* the output another run of this boundary stored.
Decide(p) ==
    /\ At(p, "decide") /\ ~proc[p].ended
    /\ \E c \in {issued, issued + 1} \ {0} :
         /\ \E i \in Intents : CycleOf[i] = c
         /\ issued' = c
         /\ row' = [i \in Intents |->
                      IF CycleOf[i] = c /\ c > issued THEN [NoRow EXCEPT !.status = "PENDING"] ELSE row[i]]
         /\ Loop(p, [proc[p] EXCEPT !.at = "claim", !.mode = "cycle", !.cycle = c])
    /\ UNCHANGED <<execution, job, released, faults>>

\* The cycle stores nothing: no input, no answer, or an answer it refuses.
DecidesNothing(p) ==
    /\ At(p, "decide")
    /\ Goto(p, "ready")
    /\ UNCHANGED <<row, execution, issued, job, released, faults>>

-----------------------------------------------------------------------------
(* A batch: deliveries started in rank order, Slots of them at a time.     *)

Batch(p) == {i \in Intents : job[p][i].at # "none"}
Running(p) == {i \in Batch(p) : job[p][i].at \notin {"queued", "done"}}

Step(p, i, next) == job' = [job EXCEPT ![p][i] = next]
Proceed(p, i, label) == Step(p, i, [job[p][i] EXCEPT !.at = label])
ReleaseTurn(p, i) == released' = [released EXCEPT ![p] = @ \cup {i}]

\* Submit returns: the deferred release of the turn runs, whatever happened.
Return(p, i, status, failed) ==
    /\ Step(p, i, [job[p][i] EXCEPT !.at = "complete", !.seen = status, !.failed = failed])
    /\ ReleaseTurn(p, i)

StartDelivery(p, i) ==
    /\ job[p][i].at = "queued" /\ Cardinality(Running(p)) < Slots
    /\ \A j \in Batch(p) : j < i => job[p][j].at # "queued"
    /\ IF i \in Routed THEN Proceed(p, i, "submit") /\ UNCHANGED released
       ELSE Proceed(p, i, "done") /\ ReleaseTurn(p, i)
    /\ UNCHANGED <<row, execution, issued, proc, faults>>

\* Variant: the intent is submitted without a look at what it became before.
SubmitBlindly(p, i) ==
    /\ job[p][i].at = "submit" /\ ~proc[p].ended
    /\ order' = [order EXCEPT ![i] = "VALIDATING"]
    /\ Proceed(p, i, "validate")
    /\ UNCHANGED <<released, row, placed, cash, issued, proc, faults>>

\* The order of a client_order_id is created once; a later submission is
\* answered with it as it is.
Submit(p, i) ==
    /\ job[p][i].at = "submit" /\ ~proc[p].ended
    /\ \/ /\ order[i] = "NONE"
          /\ order' = [order EXCEPT ![i] = "VALIDATING"]
          /\ Proceed(p, i, "validate") /\ UNCHANGED released
       \/ order[i] # "NONE" /\ Return(p, i, order[i], FALSE) /\ UNCHANGED order
    /\ UNCHANGED <<row, placed, cash, issued, proc, faults>>

\* The lookup or the creation fails: there is no order to answer with.
SubmitFails(p, i) ==
    /\ job[p][i].at = "submit"
    /\ IF proc[p].ended THEN UNCHANGED faults ELSE Fault
    /\ Return(p, i, "NONE", TRUE)
    /\ UNCHANGED <<row, execution, issued, proc>>

Validated(p, i) ==
    /\ job[p][i].at = "validate" /\ ~proc[p].ended
    /\ Proceed(p, i, "wait")
    /\ UNCHANGED <<row, execution, issued, proc, released, faults>>

\* Variant: a refused order keeps its turn.
RefusedKeepingTurn(p, i) ==
    /\ job[p][i].at = "validate" /\ ~proc[p].ended /\ i \in Refusable
    /\ order' = [order EXCEPT ![i] = "REJECTED"]
    /\ Step(p, i, [job[p][i] EXCEPT !.at = "complete", !.seen = "REJECTED", !.failed = TRUE])
    /\ UNCHANGED <<row, placed, cash, issued, proc, released, faults>>

\* Hard risk or market validation refuses the order before its turn has come.
Refused(p, i) ==
    /\ job[p][i].at = "validate" /\ ~proc[p].ended /\ i \in Refusable
    /\ order' = [order EXCEPT ![i] = "REJECTED"]
    /\ Return(p, i, "REJECTED", TRUE)
    /\ UNCHANGED <<row, placed, cash, issued, proc, faults>>

\* Variant: nobody waits.
TurnFreeAlways(p, i) == TRUE

\* The previous intent of the batch has released its turn.
TurnFree(p, i) ==
    \A j \in Batch(p) :
        (j < i /\ \A k \in Batch(p) : k < i => k <= j) => j \in released[p]

\* A reservation that the cash does not cover rejects the order.
Reserve(p, i) ==
    /\ job[p][i].at = "wait" /\ ~proc[p].ended /\ TurnFree(p, i)
    /\ \/ /\ Cost[i] <= cash
          /\ cash' = cash - Cost[i]
          /\ order' = [order EXCEPT ![i] = "RESERVED"]
          /\ Proceed(p, i, "place") /\ ReleaseTurn(p, i)
       \/ /\ Cost[i] > cash
          /\ order' = [order EXCEPT ![i] = "REJECTED"]
          /\ Return(p, i, "REJECTED", TRUE) /\ UNCHANGED cash
    /\ UNCHANGED <<row, placed, issued, proc, faults>>

\* What placing a reserved order leads to: the venue has it, may have it, or
\* refuses it; or the order is refused before anything is sent.
PlaceOrder(i, result, sent) ==
    /\ order' = [order EXCEPT ![i] = result]
    /\ placed' = [placed EXCEPT ![i] = IF sent THEN @ + 1 ELSE @]
    /\ cash' = IF result = "REJECTED" THEN cash + Cost[i] ELSE cash

Outcomes == {<<"SENT", TRUE>>, <<"UNKNOWN", TRUE>>, <<"REJECTED", TRUE>>, <<"REJECTED", FALSE>>}

Place(p, i) ==
    /\ job[p][i].at = "place" /\ ~proc[p].ended
    /\ \E o \in Outcomes : PlaceOrder(i, o[1], o[2]) /\ Return(p, i, o[1], o[1] # "SENT")
    /\ UNCHANGED <<row, issued, proc, faults>>

\* A write before the placement fails, or the context is over: the order stays
\* where it is and Submit answers with it and an error.
SubmitInterrupted(p, i) ==
    /\ job[p][i].at \in {"validate", "wait", "place"}
    /\ IF proc[p].ended THEN UNCHANGED faults ELSE job[p][i].at # "wait" /\ Fault
    /\ Return(p, i, order[i], TRUE)
    /\ UNCHANGED <<row, execution, issued, proc>>

\* Variant: the delivery takes over the status of the order.
CompletionRaw(status) == status

\* decisionIntentCompletion.
Completion(status) ==
    IF status = "REJECTED" THEN "FAILED" ELSE IF status = "UNKNOWN" THEN "UNKNOWN" ELSE "SUBMITTED"

\* Variant: any claim is good enough to complete the row.
HoldsAny(p, i) == row[i].status = "SUBMITTING"

\* The row is still the worker's claim: attempt_count is its fencing token.
Holds(p, i) == row[i].status = "SUBMITTING" /\ row[i].attempt = job[p][i].attempt

\* Whether a delivery is unfinished work for the pass.
Unfinished(p, i) == ~Holds(p, i) \/ (job[p][i].failed /\ Completion(job[p][i].seen) = "SUBMITTED")

CompleteIntent(p, i) ==
    /\ job[p][i].at = "complete" /\ ~proc[p].ended /\ job[p][i].seen # "NONE"
    /\ row' = IF Holds(p, i) THEN [row EXCEPT ![i].status = Completion(job[p][i].seen)] ELSE row
    /\ Loop(p, [proc[p] EXCEPT !.blocked = @ \/ Unfinished(p, i)])
    /\ Proceed(p, i, "done")
    /\ UNCHANGED <<execution, issued, released, faults>>

\* There is no order to record, or the write fails: the claim stays.
LeaveClaim(p, i) ==
    /\ job[p][i].at = "complete"
    /\ IF proc[p].ended \/ job[p][i].seen = "NONE" THEN UNCHANGED faults ELSE Fault
    /\ Loop(p, [proc[p] EXCEPT !.blocked = TRUE])
    /\ Proceed(p, i, "done")
    /\ UNCHANGED <<row, execution, issued, released>>

\* A full batch may have left more behind.
EndBatch(p) ==
    /\ At(p, "batch") /\ \A i \in Batch(p) : job[p][i].at = "done"
    /\ IF Cardinality(Batch(p)) < BatchLimit THEN After(p, proc[p].blocked) ELSE Goto(p, "claim")
    /\ job' = [job EXCEPT ![p] = NoJobs]
    /\ released' = [released EXCEPT ![p] = {}]
    /\ UNCHANGED <<row, execution, issued, faults>>

-----------------------------------------------------------------------------
(* The rest of the world.                                                  *)

\* The timeout of the pass: every call under its context fails from now on.
ContextEnds(p) ==
    /\ proc[p].at \notin {"down", "ready"} /\ ~proc[p].ended /\ Fault
    /\ Loop(p, [proc[p] EXCEPT !.ended = TRUE])
    /\ UNCHANGED <<row, execution, issued, job, released>>

Crash(p) ==
    /\ ~At(p, "down") /\ Fault
    /\ Loop(p, Down)
    /\ job' = [job EXCEPT ![p] = NoJobs]
    /\ released' = [released EXCEPT ![p] = {}]
    /\ UNCHANGED <<row, execution, issued>>

\* A claim grows older than a cycle may take.
Age(i) ==
    /\ row[i].status = "SUBMITTING" /\ ~row[i].stale
    /\ row' = [row EXCEPT ![i].stale = TRUE]
    /\ UNCHANGED <<execution, issued, local, faults>>

InHand(i) == \E p \in Processes : job[p][i].at \in {"validate", "wait", "place"}

\* Order recovery resumes an order that its submission left behind.
Resume(i) ==
    /\ ~InHand(i)
    /\ \/ /\ order[i] = "VALIDATING" /\ Cost[i] <= cash
          /\ order' = [order EXCEPT ![i] = "RESERVED"]
          /\ cash' = cash - Cost[i] /\ UNCHANGED placed
       \/ /\ order[i] = "VALIDATING" /\ (Cost[i] > cash \/ i \in Refusable)
          /\ order' = [order EXCEPT ![i] = "REJECTED"]
          /\ UNCHANGED <<placed, cash>>
       \/ order[i] = "RESERVED" /\ \E o \in Outcomes : PlaceOrder(i, o[1], o[2])
    /\ UNCHANGED <<row, issued, local, faults>>

\* Reconciliation finds out what became of the placement.
Resolve(i) ==
    /\ order[i] = "UNKNOWN"
    /\ \E result \in {"SENT", "REJECTED"} : PlaceOrder(i, result, FALSE)
    /\ UNCHANGED <<row, issued, local, faults>>

Deliver(p, i) ==
    \/ StartDelivery(p, i) \/ Submit(p, i) \/ SubmitFails(p, i) \/ Validated(p, i) \/ Refused(p, i)
    \/ Reserve(p, i) \/ Place(p, i) \/ SubmitInterrupted(p, i) \/ CompleteIntent(p, i) \/ LeaveClaim(p, i)

Run(p) ==
    \/ Start(p) \/ Boundary(p) \/ RequeueStaleSubmitting(p) \/ ClaimPendingIntents(p) \/ NothingPending(p)
    \/ PassFails(p) \/ Decide(p) \/ DecidesNothing(p) \/ EndBatch(p)

Next ==
    \/ \E p \in Processes : Run(p) \/ (\E i \in Intents : Deliver(p, i)) \/ ContextEnds(p) \/ Crash(p)
    \/ \E i \in Intents : Age(i) \/ Resume(i) \/ Resolve(i)

Spec == Init /\ [][Next]_vars

\* The process manager restarts a process, the loop and the deliveries go on,
\* and time passes.  What fails is bounded.
FairSpec ==
    /\ Spec
    /\ \A p \in Processes : WF_vars(Run(p)) /\ \A i \in Intents : WF_vars(Deliver(p, i))
    /\ \A i \in Intents : WF_vars(Age(i))

-----------------------------------------------------------------------------
(* Properties.                                                             *)

TypeOK ==
    /\ row \in [Intents -> [status : {"NONE"} \cup Open \cup Completed, attempt : Nat, stale : BOOLEAN]]
    /\ order \in [Intents -> OrderStatus] /\ placed \in [Intents -> Nat]
    /\ cash \in Nat /\ issued \in Nat /\ faults \in Nat
    /\ proc \in [Processes -> [at : {"down", "ready", "requeue", "claim", "batch", "decide"},
                               mode : {"startup", "recover", "cycle"}, cycle : Nat,
                               blocked : BOOLEAN, ended : BOOLEAN]]
    /\ job \in [Processes -> [Intents ->
                  [at : {"none", "queued", "submit", "validate", "wait", "place", "complete", "done"},
                   attempt : Nat, seen : OrderStatus, failed : BOOLEAN]]]
    /\ released \in [Processes -> SUBSET Intents]

\* However often a delivery is requeued, retried after a crash or submitted by
\* two processes, the venue is sent one placement of the intent.
NoSecondPlace == \A i \in Intents : placed[i] <= 1

\* Nobody completes a delivery over the head of the worker that claimed it last.
LastClaimDecides ==
    \A p \in Processes, i \in Intents :
        job[p][i].at \notin {"none", "done"} /\ job[p][i].attempt = row[i].attempt
            => row[i].status \in Open

\* A completed delivery is never claimed, requeued or completed again.
CompletionIsFinal == [][\A i \in Intents : row[i].status \in Completed => row'[i] = row[i]]_vars

\* In an undisturbed batch the cash cannot cover, no order is refused for lack
\* of cash that a lower ranked order of the same batch has taken before it.
RankedFirst ==
    [][\A p \in Processes : \A i, j \in Batch(p) :
         (faults = 0 /\ i < j /\ job[p][i].at = "wait" /\ order[i] = "VALIDATING" /\ order'[i] = "REJECTED")
            => order[j] \notin {"RESERVED", "SENT", "UNKNOWN"}]_vars

\* A process that has started up has left no delivery of its predecessor open.
StartupClearsLeases ==
    [][\A p \in Processes :
         (proc[p].mode = "startup" /\ ~At(p, "ready") /\ proc'[p].at = "ready")
            => \A i \in Intents : row'[i].status \notin Open]_vars

\* Every stored intent of a recovered cohort and an open route is delivered in
\* the end.
EveryIntentEnds ==
    \A i \in Cohort \cap Routed : (row[i].status \in Open) ~> (row[i].status \in Completed)

\* However claims overlap, are taken over or are retried, one of them decides:
\* the venue is sent one placement, and the last claim completes the delivery
\* (ClaimPendingIntents, CompleteIntent, Submit).
OneClaimDecides == TypeOK /\ NoSecondPlace /\ LastClaimDecides

\* A delivery pass takes its turns in order: better intents first, and after a
\* restart the claims of the dead process are free (ClaimPendingIntents,
\* RequeueStaleSubmitting).
TurnsAreKept == RankedFirst /\ StartupClearsLeases
=============================================================================
