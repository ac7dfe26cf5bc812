--------------------------- MODULE RecoveryLease ---------------------------
(***************************************************************************)
(* The recovery lease of one order: Guard.Run of                           *)
(* internal/service/orderrecovery over the PostgreSQL lease row, called at *)
(* once by the order coordinator and the reconciliation runs.              *)
(*                                                                         *)
(* Times are relative to the present: what is left of the lease and of the *)
(* backoff, and how much of its timeout an attempt has spent.  A worker    *)
(* reads its own clock, which is Offset[w] ahead of the true time, before  *)
(* it waits for the row.                                                   *)
(***************************************************************************)
EXTENDS Integers, FiniteSets

CONSTANTS
    Workers,
    Offset,        \* Workers -> how far ahead the worker's clock is
    TTL, Timeout, BaseBackoff, MaxBackoff, EscalateAfter, \* Policy
    Slack,         \* how long past its timeout an attempt may end and be recorded
    Nobody,        \* the empty holder
    MaxAttempts,   \* bound: failures counted
    MaxFaults,     \* bound: crashes and failed store calls
    MaxMoves       \* bound: writes of the order by others

ASSUME LeasePolicy ==
    /\ Offset \in [Workers -> Nat]
    /\ TTL \in Nat /\ Timeout \in Nat \ {0}
    /\ BaseBackoff \in Nat \ {0} /\ MaxBackoff \in Nat /\ BaseBackoff <= MaxBackoff
    /\ EscalateAfter \in Nat \ {0} /\ Slack \in Nat \ {0}
    /\ MaxAttempts \in Nat /\ MaxFaults \in Nat /\ MaxMoves \in Nat
    /\ Nobody \notin Workers

\* Normalize demands that the lease outlives an attempt.  Between workers whose
\* clocks differ it must do so by the difference.
ASSUME LeaseOutlivesAttempt == \A v, w \in Workers : Timeout + Offset[v] - Offset[w] < TTL

VARIABLES
    lease,   \* the row of order_recovery_leases
    pc,      \* Workers -> what the worker is doing
    fresh,   \* Workers -> the order it listed is still at its revision
    spent,   \* Workers -> time since the attempt last read the clock
    kind,    \* Workers -> the outcome to be recorded
    faults, moves

vars == <<lease, pc, fresh, spent, kind, faults, moves>>

Kinds == {"RESOLVED", "WAITING", "FAILED"}

\* No row, or a row nobody holds and that records no failure.
NoLease == [holder |-> Nobody, left |-> 0, attempts |-> 0, pending |-> FALSE, age |-> 0,
            retry |-> 0, escalated |-> FALSE]

Init ==
    /\ lease = NoLease
    /\ pc = [w \in Workers |-> "idle"]
    /\ fresh = [w \in Workers |-> FALSE]
    /\ spent = [w \in Workers |-> 0]
    /\ kind = [w \in Workers |-> "WAITING"]
    /\ faults = 0 /\ moves = 0

Fault == faults < MaxFaults /\ faults' = faults + 1

Goto(w, label) == pc' = [pc EXCEPT ![w] = label]

\* The attempt is over and its locals are gone.
Leave(w) ==
    /\ Goto(w, "idle")
    /\ fresh' = [fresh EXCEPT ![w] = FALSE]
    /\ spent' = [spent EXCEPT ![w] = 0]
    /\ kind' = [kind EXCEPT ![w] = "WAITING"]

\* Variant: a label shared by the workers identifies the holder.
TokenShared(w) == CHOOSE v \in Workers : TRUE

\* The holder string with its random nonce.  A worker runs one attempt at a
\* time and an attempt releases only what it acquired, so the worker stands
\* for the nonce.
Token(w) == w

\* The backoff after n failures: doubled each time, up to the maximum.
Backoff(n) ==
    LET backoff == BaseBackoff * 2^(n - 1)
    IN IF n < 1 THEN BaseBackoff
       ELSE IF backoff \in BaseBackoff..MaxBackoff THEN backoff ELSE MaxBackoff

-----------------------------------------------------------------------------
(* Acquire.                                                                *)

\* A sweep or a run lists the order.
ListOrder(w) ==
    /\ pc[w] = "idle"
    /\ Goto(w, "listed")
    /\ fresh' = [fresh EXCEPT ![w] = TRUE]
    /\ UNCHANGED <<lease, spent, kind, faults, moves>>

\* Run reads the clock and starts the timeout, then waits for the store.
StartAttempt(w) ==
    /\ pc[w] = "listed"
    /\ Goto(w, "acquiring")
    /\ spent' = [spent EXCEPT ![w] = 0]
    /\ UNCHANGED <<lease, fresh, kind, faults, moves>>

\* Variant: a lease is held until it is released.
HeldAtForEver(w) == lease.holder # Nobody

\* HeldAt and RetryDueAt, at the time the worker read.
HeldAt(w) == lease.holder # Nobody /\ lease.left + spent[w] > Offset[w]
RetryDueAt(w) == lease.retry + spent[w] <= Offset[w]

\* The row is locked for the whole decision: another holder, an order that has
\* moved since it was listed, and a backoff that is not over turn the attempt
\* away.
Acquirable(w) == ~HeldAt(w) /\ fresh[w] /\ RetryDueAt(w)

AcquiredLease(w) == [lease EXCEPT !.holder = Token(w), !.left = TTL - spent[w] + Offset[w]]

Acquire(w) ==
    /\ pc[w] = "acquiring" /\ spent[w] < Timeout /\ Acquirable(w)
    /\ lease' = AcquiredLease(w)
    /\ Goto(w, "working")
    /\ UNCHANGED <<fresh, spent, kind, faults, moves>>

Skip(w) ==
    /\ pc[w] = "acquiring" /\ spent[w] < Timeout /\ ~Acquirable(w)
    /\ Leave(w)
    /\ UNCHANGED <<lease, faults, moves>>

\* The store fails; the commit may have gone through.
AcquireFails(w) ==
    /\ pc[w] = "acquiring" /\ Fault
    /\ \/ UNCHANGED lease
       \/ spent[w] < Timeout /\ Acquirable(w) /\ lease' = AcquiredLease(w)
    /\ Leave(w)
    /\ UNCHANGED moves

\* The store does not answer in time.
AcquireTimesOut(w) ==
    /\ pc[w] = "acquiring" /\ spent[w] >= Timeout
    /\ Leave(w)
    /\ UNCHANGED <<lease, faults, moves>>

-----------------------------------------------------------------------------
(* The attempt and its release.                                            *)

\* The attempt may touch the order: its context has not expired.
Acting(w) == pc[w] = "working" /\ spent[w] < Timeout

\* The work writes the order; whoever listed it before has an old revision.
MoveOrder(w) ==
    /\ Acting(w) /\ moves < MaxMoves
    /\ moves' = moves + 1
    /\ fresh' = [v \in Workers |-> FALSE]
    /\ UNCHANGED <<lease, pc, spent, kind, faults>>

\* Work ends and the clock is read again.  An attempt whose context expired
\* has failed, whatever it returned.
FinishWork(w, k) ==
    /\ pc[w] = "working"
    /\ spent[w] >= Timeout => k = "FAILED"
    /\ kind' = [kind EXCEPT ![w] = k]
    /\ spent' = [spent EXCEPT ![w] = 0]
    /\ Goto(w, "releasing")
    /\ UNCHANGED <<lease, fresh, faults, moves>>

\* How long the order has been in recovery, and since when.  The clock was read
\* when the work ended, read units ago.
PendingSince(w, read) ==
    LET age == lease.age + Offset[w] - read
    IN IF lease.pending /\ age >= 0 THEN age ELSE 0

\* Variant: every attempt dates the recovery anew.
AgeRestarted(w, read) == read - Offset[w]

Age(w, read) == IF lease.pending THEN lease.age ELSE read - Offset[w]

Escalates(w, read) == lease.escalated \/ PendingSince(w, read) >= EscalateAfter

\* Variant: an attempt that only waits starts the recovery afresh.
NextLeaseForgetting(w) ==
    IF kind[w] \in {"RESOLVED", "WAITING"} THEN NoLease
    ELSE [NoLease EXCEPT !.pending = TRUE, !.attempts = lease.attempts + 1,
                         !.retry = Backoff(lease.attempts + 1) + Offset[w]]

\* The row a release leaves: none when the order is resolved, else the retry
\* schedule.  Escalated orders are retried at the longest backoff.
NextLease(w) ==
    IF kind[w] = "RESOLVED" THEN NoLease
    ELSE [holder    |-> Nobody,
          left      |-> 0,
          attempts  |-> IF kind[w] = "FAILED" /\ lease.attempts < MaxAttempts
                        THEN lease.attempts + 1 ELSE lease.attempts,
          pending   |-> TRUE,
          age       |-> Age(w, spent[w]),
          retry     |-> Offset[w] - spent[w] + (IF Escalates(w, spent[w]) THEN MaxBackoff
                                                ELSE IF kind[w] = "FAILED" THEN Backoff(lease.attempts + 1)
                                                ELSE BaseBackoff),
          escalated |-> Escalates(w, spent[w])]

\* A release of a lease that someone else has taken over is refused.
Release(w) ==
    /\ pc[w] = "releasing"
    /\ lease' = IF lease.holder = Token(w) THEN NextLease(w) ELSE lease
    /\ Leave(w)
    /\ UNCHANGED <<faults, moves>>

\* The server stops: the release keeps the order retryable at once.
Shutdown(w) ==
    /\ pc[w] = "working" /\ Fault
    /\ lease' = IF lease.holder = Token(w)
                THEN [lease EXCEPT !.holder = Nobody, !.left = 0, !.pending = TRUE,
                                   !.age = Age(w, 0), !.retry = Offset[w], !.escalated = Escalates(w, 0)]
                ELSE lease
    /\ Leave(w)
    /\ UNCHANGED moves

\* The process dies, or the store loses the release.
Crash(w) ==
    /\ pc[w] # "idle" /\ Fault
    /\ Leave(w)
    /\ UNCHANGED <<lease, moves>>

-----------------------------------------------------------------------------
(* The rest of the world.                                                  *)

\* Someone who needs no lease (a submission, a fill) writes the order.
OrderMoves ==
    /\ moves < MaxMoves
    /\ moves' = moves + 1
    /\ fresh' = [v \in Workers |-> FALSE]
    /\ UNCHANGED <<lease, pc, spent, kind, faults>>

Down(n) == IF n > -Timeout THEN n - 1 ELSE n

\* What the contexts of an attempt and of its release allow for, and Slack.
Limit(w) ==
    CASE pc[w] \in {"acquiring", "working"} -> Timeout + Slack
      [] pc[w] = "releasing" -> Slack
      [] OTHER -> 0

\* A unit of time passes.  Times long past are forgotten.
Tick ==
    /\ \A w \in Workers : Limit(w) > 0 => spent[w] < Limit(w)
    /\ lease' = [lease EXCEPT !.left = Down(@), !.retry = Down(@),
                              !.age = IF lease.pending /\ @ < EscalateAfter + Slack THEN @ + 1 ELSE @]
    /\ spent' = [w \in Workers |-> IF Limit(w) > 0 THEN spent[w] + 1 ELSE spent[w]]
    /\ UNCHANGED <<pc, fresh, kind, faults, moves>>

Run(w) ==
    \/ ListOrder(w) \/ StartAttempt(w) \/ Acquire(w) \/ Skip(w) \/ AcquireTimesOut(w)
    \/ (\E k \in Kinds : FinishWork(w, k)) \/ Release(w)

Next ==
    \/ \E w \in Workers : Run(w) \/ AcquireFails(w) \/ MoveOrder(w) \/ Shutdown(w) \/ Crash(w)
    \/ OrderMoves \/ Tick

Spec == Init /\ [][Next]_vars

\* The processes keep sweeping, time passes, and the store does not always let
\* an acquisition that it would grant, or a release that is still in time, run
\* into its timeout.
FairSpec ==
    /\ Spec /\ WF_vars(Tick)
    /\ SF_vars(\E w \in Workers : Acquire(w))
    /\ SF_vars(\E w \in Workers : lease.holder = Token(w) /\ Release(w))
    /\ \A w \in Workers : WF_vars(Run(w))

-----------------------------------------------------------------------------
(* Properties.                                                             *)

LeaseRow == [holder : Workers \cup {Nobody}, left : Int, attempts : Nat, pending : BOOLEAN,
             age : Int, retry : Int, escalated : BOOLEAN]

TypeOK ==
    /\ lease \in LeaseRow
    /\ pc \in [Workers -> {"idle", "listed", "acquiring", "working", "releasing"}]
    /\ fresh \in [Workers -> BOOLEAN]
    /\ spent \in [Workers -> Nat]
    /\ kind \in [Workers -> Kinds]
    /\ faults \in Nat /\ moves \in Nat

\* At most one worker recovers the order at a time: an attempt that may still
\* call the venue or write the order excludes every other one.
ExclusiveRecovery == \A v, w \in Workers : Acting(v) /\ Acting(w) => v = w

\* An attempt that is still acting holds the row, so its release will count.
ActingHolds == \A w \in Workers : Acting(w) => lease.holder = Token(w)

ScheduleKept ==
    /\ lease'.attempts >= lease.attempts
    /\ lease.pending => lease'.pending /\ lease'.age >= lease.age
    /\ lease.escalated => lease'.escalated

\* Only a resolved order's row is forgotten: no crash, failure, takeover or
\* restart takes back a counted failure, the age of the recovery or its
\* escalation.
ScheduleSurvives ==
    [][ \/ lease' = NoLease /\ \E w \in Workers : pc[w] = "releasing" /\ kind[w] = "RESOLVED"
        \/ ScheduleKept ]_vars

\* However attempts crash or lose their release, the order is attempted again.
KeepsBeingAttempted == []<>(\E w \in Workers : pc[w] = "working")

\* An order that is never resolved is escalated in the end.
StalledIsEscalated ==
    (lease.pending /\ [](\A w \in Workers : kind[w] # "RESOLVED")) ~> lease.escalated

\* Recovery never comes to a silent end: the order keeps being attempted until
\* it is resolved, and is escalated when it is not (Guard.Run, release).
RecoveryGoesOn == KeepsBeingAttempted /\ StalledIsEscalated
=============================================================================
