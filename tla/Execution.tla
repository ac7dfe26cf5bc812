----------------------------- MODULE Execution -----------------------------
(***************************************************************************)
(* The life of one order in the live composition: the calls Submit,        *)
(* Resume, Refresh, Cancel and FinalizeCancellation of                     *)
(* internal/service/execution, run by several workers at once (the API,    *)
(* the order coordinator, the reconciliation runner), the fill ledger and  *)
(* the reservation they write, and the venue they talk to.                 *)
(*                                                                         *)
(* A step of a worker is one database transaction or one venue request;    *)
(* anything may happen between two of them.  Writes of the order row are   *)
(* guarded by its revision: a worker whose copy is no longer fresh loses.  *)
(* Amounts are whole lots 0..Size; the accounting of money is in           *)
(* ReservationLedger.                                                      *)
(***************************************************************************)
EXTENDS OrderState, FiniteSets

CONSTANTS
    Workers,
    Size,         \* Intent.Size
    Kind,         \* "GTC", "IOC" (native) or "EMULATED" (IOC the service completes)
    Expiring,     \* the signed order carries a venue expiry
    MaxReconcile, \* maxReconcileAttempts
    MaxFaults,    \* bound: failed requests, transactions and crashes
    Retires,      \* bound: the venue forgets dead orders
    SlowScan      \* bound: the finality grace may end while trades are being read

Kinds == {"GTC", "IOC", "EMULATED"}

ASSUME ExecutionConstants ==
    /\ Size \in Nat \ {0}
    /\ MaxReconcile \in Nat \ {0}
    /\ MaxFaults \in Nat
    /\ Kind \in Kinds
    /\ Expiring \in BOOLEAN /\ Retires \in BOOLEAN /\ SlowScan \in BOOLEAN

VARIABLES
    status,    \* execution_orders.status, NONE before the row exists
    filled,    \* execution_orders.filled_size
    known,     \* the order history shows that the venue had the order
    aged,      \* the finality grace has passed since venue_last_observed_at
    res,       \* asset_reservations.status
    tries,     \* finished RECONCILE attempts that count, saturated at MaxReconcile
    venue,     \* the order at the venue
    matched, listed, confirmed, \* lots matched, in the trade feed, final in it
    expired,   \* the venue expiry and its grace have passed
    placed,    \* placement requests sent
    pc, job,   \* Workers -> the next step, the call it belongs to
    copy,      \* Workers -> the order as the worker read it
    seen,      \* Workers -> the last venue observation
    goal,      \* Workers -> the lots in the trade list being applied
    faults

row    == <<status, filled, known, aged>>
book   == <<venue, matched, listed, confirmed, expired>>
local  == <<job, copy, seen, goal>>
vars   == <<row, res, tries, book, placed, pc, local, faults>>

NoView == [state |-> "NONE", matched |-> 0]

Init ==
    /\ status = "NONE" /\ filled = 0 /\ known = FALSE /\ aged = FALSE
    /\ res = "NONE" /\ tries = 0
    /\ venue = "none" /\ matched = 0 /\ listed = 0 /\ confirmed = 0
    /\ expired = FALSE /\ placed = 0 /\ faults = 0
    /\ pc = [w \in Workers |-> "idle"]
    /\ job = [w \in Workers |-> "none"]
    /\ copy = [w \in Workers |-> [status |-> "NONE", filled |-> 0, fresh |-> FALSE]]
    /\ seen = [w \in Workers |-> NoView]
    /\ goal = [w \in Workers |-> 0]

-----------------------------------------------------------------------------
(* Helpers: the row, its copies and the reservation.                       *)

Held == res \in {"ACTIVE", "RECONCILIATION_REQUIRED"}

Saturated(n) == IF n < MaxReconcile THEN n + 1 ELSE n

Fault == faults < MaxFaults /\ faults' = faults + 1

Goto(w, next) == pc' = [pc EXCEPT ![w] = next]

Read(w) == copy' = [copy EXCEPT ![w] = [status |-> status, filled |-> filled, fresh |-> TRUE]]

\* The copies after worker w wrote status t at its revision.
Outdated(w, t) ==
    [v \in Workers |-> IF v = w THEN [copy[w] EXCEPT !.status = t]
                                ELSE [copy[v] EXCEPT !.fresh = FALSE]]

\* Variant: the revision of the row is not compared.
CanWriteStale(w, t) ==
    /\ CanTransitionTo(copy[w].status, t)
    /\ FillStateAllows(t, copy[w].filled, Size, FALSE)

\* The edge is legal and the revision and status of the row are the copy's.
CanWrite(w, t) ==
    /\ copy[w].fresh
    /\ CanTransitionTo(copy[w].status, t)
    /\ FillStateAllows(t, copy[w].filled, Size, FALSE)

\* The statuses a history may hold without proof that the venue had the order.
Unseen == PreSubmit \cup {"SUBMITTING", "UNKNOWN", "RECONCILING"}

\* One transition of the row: it succeeds, loses the race, fails, or commits
\* although its caller sees an error.  `stamps`: it records a venue observation.
Persist(w, t, stamps, ok, lost) ==
    /\ \/ /\ CanWrite(w, t) /\ status' = t /\ copy' = Outdated(w, t)
          /\ known' = (known \/ t \notin Unseen) /\ aged' = (aged /\ ~stamps)
          /\ Goto(w, ok) /\ UNCHANGED faults
       \/ /\ ~CanWrite(w, t)
          /\ Goto(w, lost) /\ UNCHANGED <<status, known, aged, copy, faults>>
       \/ /\ CanWrite(w, t) /\ Fault
          /\ Goto(w, lost) /\ UNCHANGED <<status, known, aged, copy>>
       \/ /\ CanWrite(w, t) /\ Fault /\ status' = t
          /\ copy' = [v \in Workers |-> [copy[v] EXCEPT !.fresh = FALSE]]
          /\ known' = (known \/ t \notin Unseen) /\ aged' = (aged /\ ~stamps)
          /\ Goto(w, lost)
    /\ UNCHANGED <<filled, res, book, placed, job, seen, goal>>

At(w, label) == pc[w] = label

\* A call j starts at a label, with nothing observed yet.
Begin(w, j, label) ==
    /\ job' = [job EXCEPT ![w] = j]
    /\ seen' = [seen EXCEPT ![w] = NoView]
    /\ goal' = [goal EXCEPT ![w] = 0]
    /\ Goto(w, label)
-----------------------------------------------------------------------------
(* Submit and Resume, up to the placement.                                 *)

\* Create claims the client order id; a replay finds the row and returns it.
Submit(w) ==
    /\ At(w, "idle") /\ status = "NONE"
    /\ status' = "RECEIVED"
    /\ copy' = [copy EXCEPT ![w] = [status |-> "RECEIVED", filled |-> 0, fresh |-> TRUE]]
    /\ Begin(w, "submit", "received")
    /\ UNCHANGED <<filled, known, aged, res, tries, book, placed, faults>>

Resume(w) ==
    /\ At(w, "idle") /\ status \in PreSubmit
    /\ Read(w)
    /\ Begin(w, "resume", CASE status = "RECEIVED"   -> "received"
                            [] status = "VALIDATING" -> "validating"
                            [] status = "RESERVED"   -> "revalidate")
    /\ UNCHANGED <<row, res, tries, book, placed, faults>>

BeginValidation(w) ==
    /\ At(w, "received")
    /\ Persist(w, "VALIDATING", FALSE, "validating", "idle")
    /\ UNCHANGED tries

\* Expiry, risk guard, market validation or the reservation itself refuse the
\* order: it will be rejected, and nothing is released.
RefuseOrder(w) ==
    /\ At(w, "validating")
    /\ Goto(w, "rejectOnly")
    /\ UNCHANGED <<row, res, tries, book, placed, local, faults>>

\* Reserve commits, or finds the reservation an earlier run left behind.
\* Failing, it may have committed all the same.
ReserveAssets(w) ==
    /\ At(w, "validating")
    /\ res' = IF res = "NONE" THEN "ACTIVE" ELSE res
    /\ \/ Goto(w, "persistReserved") /\ UNCHANGED faults
       \/ Goto(w, "rejectOnly") /\ Fault
    /\ UNCHANGED <<row, tries, book, placed, local>>

RejectOnly(w) ==
    /\ At(w, "rejectOnly")
    /\ Persist(w, "REJECTED", FALSE, "idle", "idle")
    /\ UNCHANGED tries

MarkReserved(w) ==
    /\ At(w, "persistReserved")
    /\ Persist(w, "RESERVED", FALSE, IF job[w] = "submit" THEN "submitReserved" ELSE "revalidate", "hold")
    /\ UNCHANGED tries

\* A resumed order is validated again; the new evidence is a self transition.
Revalidate(w) ==
    /\ At(w, "revalidate")
    /\ \/ Persist(w, "RESERVED", FALSE, "submitReserved", "idle")
       \/ Persist(w, "REJECTED", FALSE, "release", "idle")
    /\ UNCHANGED tries

\* The entry gate, PreparePlace or the live risk check of StartAttempt refuse.
RejectReserved(w) ==
    /\ At(w, "submitReserved")
    /\ Persist(w, "REJECTED", FALSE, "release", "hold")
    /\ UNCHANGED tries

\* StartAttempt records SUBMITTING before the request can be sent.
StartSubmit(w) ==
    /\ At(w, "submitReserved")
    /\ Persist(w, "SUBMITTING", FALSE, "place", "hold")
    /\ UNCHANGED tries

-----------------------------------------------------------------------------
(* The placement and its outcome.                                          *)

Place(w) ==
    /\ At(w, "place")
    /\ placed' = placed + 1
    /\ venue' = IF venue # "none" THEN venue ELSE IF expired THEN "refused" ELSE "flying"
    /\ Goto(w, "placing")
    /\ UNCHANGED <<row, res, tries, matched, listed, confirmed, expired, local, faults>>

\* What the venue may say of an order it has.  The matched size it reports may
\* be as old as the trade feed.
ReportedStates(n) ==
    IF venue = "cancelled" THEN {"CANCELLED"}
    ELSE IF venue = "refused" THEN {"REJECTED"}
    ELSE IF n = Size THEN {"FILLED"}
    ELSE IF n > 0 THEN {"PARTIALLY_FILLED"}
    ELSE {"ACKNOWLEDGED", "LIVE"}

Reports ==
    IF venue \in {"open", "cancelled", "filled", "refused"}
    THEN UNION {[state : ReportedStates(n), matched : {n}] : n \in {listed, matched}}
    ELSE {}

\* The trade feed accounts for every lot of the report.
DetailsComplete(r) == r.matched = 0 \/ confirmed = r.matched

Observe(w, r) == seen' = [seen EXCEPT ![w] = r]

\* Variant: a placement that times out is taken for a rejection.
PlaceReturnsRejected(w) ==
    /\ At(w, "placing") /\ Fault
    /\ Goto(w, "submitRejected")
    /\ UNCHANGED <<row, res, tries, book, placed, local>>

\* The request is answered, or it times out whatever became of it.
PlaceReturns(w) ==
    /\ At(w, "placing")
    /\ \/ \E r \in Reports : /\ Observe(w, r)
                             /\ Goto(w, IF r.state = "REJECTED" THEN "submitRejected" ELSE "acked")
                             /\ UNCHANGED faults
       \/ /\ Goto(w, "submitUnknown") /\ Fault /\ UNCHANGED seen
    /\ UNCHANGED <<row, res, tries, book, placed, job, copy, goal>>

FinishRejected(w) ==
    /\ At(w, "submitRejected")
    /\ Persist(w, "REJECTED", TRUE, "release", "idle")
    /\ UNCHANGED tries

FinishUnknown(w) ==
    /\ At(w, "submitUnknown")
    /\ Persist(w, "UNKNOWN", TRUE, "hold", "idle")
    /\ UNCHANGED tries

FinishAcknowledged(w) ==
    /\ At(w, "acked")
    /\ Persist(w, "ACKNOWLEDGED", TRUE, IF seen[w].state = "ACKNOWLEDGED" THEN "observed" ELSE "applyState", "hold")
    /\ UNCHANGED tries

\* statusForVenueObservation: only the ledger's fills make an order filled.
StatusFor(w) ==
    LET s == seen[w].state
    IN CASE s = "REJECTED" /\ copy[w].filled > 0 -> "UNKNOWN"
         [] s \in Working \cup {"FILLED"} ->
              IF copy[w].filled = Size THEN "FILLED"
              ELSE IF copy[w].filled > 0 THEN "PARTIALLY_FILLED"
              ELSE IF s = "ACKNOWLEDGED" THEN s ELSE "LIVE"
         [] OTHER -> s

ApplyVenueState(w) ==
    /\ At(w, "applyState")
    /\ Persist(w, StatusFor(w), TRUE, "observed", "forceUnknown")
    /\ UNCHANGED tries

ForceUnknown(w) ==
    /\ At(w, "forceUnknown")
    /\ Persist(w, "UNKNOWN", TRUE, "hold", "hold")
    /\ UNCHANGED tries

\* venueObservationNeedsFillSync.
NeedsSync(w) == seen[w].matched > 0 \/ seen[w].state \in {"PARTIALLY_FILLED", "FILLED", "CANCELLED"}

\* A worker that skips the fill synchronization settles on its copy.
AfterObservation(w) ==
    IF copy[w].status = "UNKNOWN" THEN "hold"
    ELSE IF job[w] # "refresh" THEN "idle"
    ELSE IF copy[w].status = "ACKNOWLEDGED" THEN "hold"
    ELSE IF copy[w].status = "REJECTED" THEN "release" ELSE "idle"

\* Variant: a partial fill is not recognized as a resting remainder.
CompletesIOCUnfilled(w) ==
    /\ Kind = "EMULATED"
    /\ seen[w].state \in Working \ {"PARTIALLY_FILLED"}
    /\ copy[w].status \in Working

\* completeEmulatedIOC: a resting remainder is cancelled by the service.
CompletesIOC(w) ==
    /\ Kind = "EMULATED"
    /\ seen[w].state \in Working
    /\ copy[w].status \in Working

\* The observation is stored; complete the IOC or look for its fills.
ActOnObservation(w) ==
    /\ At(w, "observed")
    /\ \/ /\ CompletesIOC(w)
          /\ Read(w)
          /\ job' = [job EXCEPT ![w] = "cancel"]
          /\ Goto(w, IF status \in Working THEN "cancelStart" ELSE "idle")
       \/ /\ ~CompletesIOC(w)
          /\ Goto(w, IF NeedsSync(w) THEN "sync" ELSE AfterObservation(w))
          /\ UNCHANGED <<job, copy>>
    /\ UNCHANGED <<row, res, tries, book, placed, seen, goal, faults>>
-----------------------------------------------------------------------------
(* SyncOrder and the fill ledger.                                          *)

\* Variant: trades that are not final are applied.
ListFillsUnconfirmed(w) ==
    /\ At(w, "sync")
    /\ goal' = [goal EXCEPT ![w] = listed]
    /\ Goto(w, "apply")
    /\ UNCHANGED <<row, res, tries, book, placed, job, copy, seen, faults>>

\* ListOrderFills answers with every trade in the feed, or fails while one of
\* them is not final; then nothing is applied.
ListFills(w) ==
    /\ At(w, "sync")
    /\ confirmed = listed
    /\ goal' = [goal EXCEPT ![w] = listed]
    /\ Goto(w, "apply")
    /\ UNCHANGED <<row, res, tries, book, placed, job, copy, seen, faults>>

\* The status a confirmed trade leaves the order in.
FillTarget ==
    IF filled + 1 = Size THEN "FILLED"
    ELSE IF status = "MANUAL_REVIEW" THEN "MANUAL_REVIEW"
    ELSE IF status = "CANCELLED" \/ Kind # "GTC" THEN "CANCELLED"
    ELSE "PARTIALLY_FILLED"

FillBookable == FillEdgesAllowed(status, FillTarget, filled + 1, Size, FALSE)

\* Record books one trade on the row as it is, whatever the worker's copy says.
\* The row moves from SUBMITTING or UNKNOWN to the fill in the same transaction.
ApplyFill(w) ==
    /\ At(w, "apply") /\ filled < goal[w] /\ FillBookable
    /\ filled' = filled + 1
    /\ status' = FillTarget
    /\ res' = CASE FillTarget = "FILLED" -> "SETTLED"
                [] FillTarget = "PARTIALLY_FILLED" -> "ACTIVE"
                [] OTHER -> "RECONCILIATION_REQUIRED"
    /\ known' = TRUE /\ aged' = FALSE
    /\ copy' = [v \in Workers |-> [copy[v] EXCEPT !.fresh = FALSE]]
    /\ job' = [job EXCEPT ![w] = IF @ = "retired" THEN "retiredApplied" ELSE @]
    /\ UNCHANGED <<tries, book, placed, pc, seen, goal, faults>>

\* authoritativeFillEvidencePending, on the row as reloaded.
EvidencePending(w) ==
    \/ seen[w].matched > filled
    \/ seen[w].state = "FILLED" /\ status # "FILLED"
    \/ /\ seen[w].state = "PARTIALLY_FILLED"
       /\ filled = 0 \/ status \notin {"PARTIALLY_FILLED", "FILLED", "CANCELLED"}

\* Variant: the grace period is not waited for.
FinalOnceSynced == TRUE

\* FinalizeCancellation may release: the grace has passed since the venue was
\* last observed.
GraceElapsed == aged

\* What each call does with the result e of the synchronization.
AfterSync(w, e) ==
    LET pending == e = "pending" \/ EvidencePending(w)
    IN CASE job[w] \in {"fills", "late"} -> "idle"
         [] job[w] = "missing" ->
              IF e # "complete" THEN "hold"
              ELSE IF status = "FILLED" THEN "idle" ELSE IF status = "UNKNOWN" THEN "resolve" ELSE "hold"
         [] job[w] = "details" ->
              IF pending /\ status # "UNKNOWN" THEN "markPending"
              ELSE IF pending \/ e = "failed" THEN "hold" ELSE "idle"
         [] job[w] = "final" ->
              IF e = "failed" \/ pending \/ seen[w].matched # filled THEN "hold"
              ELSE IF status = "FILLED" THEN "idle"
              ELSE IF status = "CANCELLED" /\ GraceElapsed THEN "release" ELSE "defer"
         [] job[w] \in {"retired", "retiredApplied"} ->
              IF e = "complete" /\ status = "FILLED" THEN "idle"
              ELSE IF /\ e = "complete" /\ status = "CANCELLED" /\ job[w] = "retired"
                      /\ goal[w] > 0 /\ goal[w] = filled THEN "release" ELSE "hold"
         [] OTHER ->
              IF e = "failed" THEN IF job[w] = "refresh" /\ status # "CANCELLED" THEN "markPending" ELSE "hold"
              ELSE IF pending /\ status # "CANCELLED" THEN "markPending"
              ELSE IF status \in {"UNKNOWN", "CANCELLED"} THEN "hold"
              ELSE IF job[w] # "refresh" THEN "idle"
              ELSE IF status = "ACKNOWLEDGED" THEN "hold"
              ELSE IF status = "REJECTED" THEN "release" ELSE "idle"

\* The synchronization ends and the order is reloaded.
EndSync(w) ==
    /\ \/ At(w, "apply") /\ filled >= goal[w] /\ Goto(w, AfterSync(w, "complete")) /\ UNCHANGED faults
       \/ At(w, "sync") /\ confirmed < listed /\ Goto(w, AfterSync(w, "pending")) /\ UNCHANGED faults
       \/ At(w, "apply") /\ filled < goal[w] /\ ~FillBookable /\ Goto(w, AfterSync(w, "failed")) /\ UNCHANGED faults
       \/ pc[w] \in {"sync", "apply"} /\ Fault /\ Goto(w, AfterSync(w, "failed"))
    /\ Read(w)
    /\ UNCHANGED <<row, res, tries, book, placed, job, seen, goal>>

\* The synchronization the reconciliation run makes before it refreshes an order.
SyncFills(w) ==
    /\ At(w, "idle") /\ status \notin PreSubmit \cup {"NONE"}
    /\ Begin(w, "fills", "sync")
    /\ UNCHANGED <<row, res, tries, book, placed, copy, faults>>

\* markFillEvidencePending: UNKNOWN, and the reservation is kept either way.
MarkPending(w) ==
    /\ At(w, "markPending")
    /\ Persist(w, "UNKNOWN", FALSE, "hold", "hold")
    /\ UNCHANGED tries

-----------------------------------------------------------------------------
(* The reservation.                                                        *)

Deferring == {"final", "retired", "retiredApplied"}

\* MarkUncertain; a call of FinalizeCancellation then records why it waits.
Hold(w) ==
    /\ At(w, "hold")
    /\ \/ res' = (IF Held THEN "RECONCILIATION_REQUIRED" ELSE res) /\ UNCHANGED faults
       \/ Fault /\ UNCHANGED res
    /\ Goto(w, IF job[w] \in Deferring THEN "defer" ELSE "idle")
    /\ UNCHANGED <<row, tries, book, placed, local>>

\* deferCancellationFinality: the same reason twice writes nothing.
Defer(w) ==
    /\ At(w, "defer")
    /\ \/ Persist(w, "CANCELLED", FALSE, "idle", "idle") /\ UNCHANGED tries
       \/ Goto(w, "idle") /\ UNCHANGED <<row, res, tries, book, placed, local, faults>>

\* reconcileReservationTx accepts a dead order whose fill is not behind the
\* reservation's.
Releasable(w) == res # "NONE" /\ copy[w].filled >= filled

Release(w) ==
    /\ At(w, "release")
    /\ \/ Releasable(w) /\ res' = "RELEASED" /\ Goto(w, "idle") /\ UNCHANGED faults
       \/ /\ ~Releasable(w)
          /\ Goto(w, IF job[w] \in Deferring \cup {"refresh"} THEN "hold" ELSE "idle")
          /\ UNCHANGED <<res, faults>>
       \/ /\ Fault /\ Releasable(w) /\ res' \in {res, "RELEASED"}
          /\ Goto(w, IF job[w] \in Deferring \cup {"refresh"} THEN "hold" ELSE "idle")
    /\ UNCHANGED <<row, tries, book, placed, local>>

-----------------------------------------------------------------------------
(* Refresh.                                                                *)

\* A placement still running in this process keeps recovery away.
SubmitInFlight == \E v \in Workers : pc[v] \in {"place", "placing"}

Refresh(w) ==
    /\ At(w, "idle")
    /\ status \in Working \cup {"SUBMITTING", "RECONCILING", "UNKNOWN", "CANCEL_PENDING"}
    /\ status = "SUBMITTING" => ~SubmitInFlight
    /\ Read(w)
    /\ Begin(w, "refresh",
             IF status \in {"SUBMITTING", "RECONCILING"} THEN "forceRefresh" ELSE "startReconcile")
    /\ UNCHANGED <<row, res, tries, book, placed, faults>>

ForceRefresh(w) ==
    /\ At(w, "forceRefresh")
    /\ Persist(w, "UNKNOWN", TRUE, "startReconcile", "idle")
    /\ UNCHANGED tries

StartReconcile(w) ==
    /\ At(w, "startReconcile")
    /\ Persist(w, "RECONCILING", FALSE, "getting", "idle")
    /\ UNCHANGED tries

\* RECONCILE attempts that are STARTED now, this worker's included.
Reading == {"getting", "getPending"}
AttemptCount == tries + Cardinality({v \in Workers : pc[v] \in Reading})

BudgetSpent == AttemptCount >= MaxReconcile

Absent == venue \in {"none", "flying", "refused", "gone"}

\* The venue has the order.
GetFound(w) ==
    /\ At(w, "getting")
    /\ \E r \in Reports : DetailsComplete(r) /\ Observe(w, r)
    /\ Goto(w, "finishGet")
    /\ tries' = Saturated(tries)
    /\ UNCHANGED <<row, res, book, placed, job, copy, goal, faults>>

\* It has the order but not yet the details of its trades.
GetPending(w) ==
    /\ At(w, "getting")
    /\ \E r \in Reports : ~DetailsComplete(r) /\ Observe(w, r)
    /\ Goto(w, "getPending")
    /\ UNCHANGED <<row, res, tries, book, placed, job, copy, goal, faults>>

\* It does not know the order (a 404, or the null of a retired order), or the
\* request failed (a 4xx, or no usable answer).  Of each pair only the first is
\* judged by the budget; both spend an attempt.
GetFails(w) ==
    /\ At(w, "getting")
    /\ \/ Absent /\ job' = [job EXCEPT ![w] = "missing"] /\ UNCHANGED faults
       \/ Fault /\ UNCHANGED job
    /\ \E judged \in BOOLEAN : Goto(w, IF judged /\ BudgetSpent THEN "giveUp" ELSE "getFailed")
    /\ tries' = Saturated(tries)
    /\ UNCHANGED <<row, res, book, placed, copy, seen, goal>>

FinishGet(w) ==
    /\ At(w, "finishGet")
    /\ Persist(w, StatusFor(w), TRUE, "observed", "hold")
    /\ UNCHANGED tries

GiveUp(w) ==
    /\ At(w, "giveUp")
    /\ Persist(w, "MANUAL_REVIEW", TRUE, "idle", "idle")
    /\ UNCHANGED tries

\* UNKNOWN; an order the venue does not know is looked for in the trade feed.
FinishFailed(w) ==
    /\ At(w, "getFailed")
    /\ Persist(w, "UNKNOWN", TRUE, IF job[w] = "missing" THEN "sync" ELSE "hold", "idle")
    /\ UNCHANGED tries

\* The attempt that ends without trade details does not count, unless its end
\* was not recorded.
FinishPending(w) ==
    /\ At(w, "getPending")
    /\ Persist(w, "UNKNOWN", TRUE, "details", "idle")
    /\ tries' = IF CanWrite(w, "UNKNOWN") /\ status' = "UNKNOWN" THEN tries ELSE Saturated(tries)

SyncDetails(w) ==
    /\ At(w, "details")
    /\ job' = [job EXCEPT ![w] = "details"]
    /\ Goto(w, "sync")
    /\ UNCHANGED <<row, res, tries, book, placed, copy, seen, goal, faults>>
-----------------------------------------------------------------------------
(* ResolveUnaccepted: an order the venue never accepted.                   *)

\* Variant: the expiry of the signed order is not awaited.
UnacceptedUnexpired == status = "UNKNOWN" /\ filled = 0 /\ Held /\ ~known /\ Absent /\ listed = 0

\* The history holds no proof of acceptance, the signed expiry has passed, the
\* venue does not know the order and neither its feed nor the chain has a trade.
Unaccepted ==
    /\ status = "UNKNOWN" /\ filled = 0 /\ Held /\ ~known
    /\ Expiring /\ expired
    /\ Absent /\ listed = 0

Evaluate(w) ==
    /\ At(w, "resolve")
    /\ Read(w)
    /\ Goto(w, IF Unaccepted THEN "applyRelease" ELSE "hold")
    /\ UNCHANGED <<row, res, tries, book, placed, job, seen, goal, faults>>

\* Apply cancels the order and releases the reservation in one transaction, on
\* the revision that was judged.
ApplyRelease(w) ==
    /\ At(w, "applyRelease")
    /\ \/ /\ copy[w].fresh /\ Held
          /\ status' = "CANCELLED" /\ res' = "RELEASED" /\ known' = TRUE
          /\ copy' = Outdated(w, "CANCELLED")
          /\ Goto(w, "idle") /\ UNCHANGED faults
       \/ /\ ~(copy[w].fresh /\ Held)
          /\ Goto(w, "hold") /\ UNCHANGED <<status, res, known, copy, faults>>
       \/ /\ Fault /\ Goto(w, "hold") /\ UNCHANGED <<status, res, known, copy>>
    /\ UNCHANGED <<filled, aged, tries, book, placed, job, seen, goal>>

-----------------------------------------------------------------------------
(* Cancel and FinalizeCancellation.                                        *)

Cancel(w) ==
    /\ At(w, "idle") /\ status \in Working
    /\ Read(w)
    /\ Begin(w, "cancel", "cancelStart")
    /\ UNCHANGED <<row, res, tries, book, placed, faults>>

StartCancel(w) ==
    /\ At(w, "cancelStart")
    /\ Persist(w, "CANCEL_PENDING", FALSE, "cancelling", "idle")
    /\ UNCHANGED tries

\* The venue cancels what still rests; the adapter then reads the order back.
\* A cancel it confirmed is believed before the trade details are complete.
CancelReturns(w) ==
    /\ At(w, "cancelling")
    /\ venue' = IF venue = "open" THEN "cancelled" ELSE venue
    /\ \/ /\ venue = "open"
          /\ \E n \in {listed, matched} : Observe(w, [state |-> "CANCELLED", matched |-> n])
          /\ Goto(w, "finishCancel") /\ UNCHANGED faults
       \/ /\ venue # "open"
          /\ \E r \in Reports : DetailsComplete(r) /\ Observe(w, r)
          /\ Goto(w, "finishCancel") /\ UNCHANGED faults
       \/ /\ venue # "open"
          /\ Absent \/ \E r \in Reports : ~DetailsComplete(r)
          /\ Goto(w, "cancelUnknown") /\ UNCHANGED <<seen, faults>>
       \/ /\ Fault /\ Goto(w, "cancelUnknown") /\ UNCHANGED seen
    /\ UNCHANGED <<row, res, tries, matched, listed, confirmed, expired, placed, job, copy, goal>>

\* The request never reached the venue.
CancelLost(w) ==
    /\ At(w, "cancelling") /\ Fault
    /\ Goto(w, "cancelUnknown")
    /\ UNCHANGED <<row, res, tries, book, placed, local>>

CancelTarget(w) == IF seen[w].state \in {"ACKNOWLEDGED", "REJECTED"} THEN "UNKNOWN" ELSE StatusFor(w)

FinishCancel(w) ==
    /\ At(w, "finishCancel")
    /\ Persist(w, CancelTarget(w), TRUE, "settleCancel", "hold")
    /\ UNCHANGED tries

FinishCancelUnknown(w) ==
    /\ At(w, "cancelUnknown")
    /\ Persist(w, "UNKNOWN", TRUE, "hold", "idle")
    /\ UNCHANGED tries

SettleCancel(w) ==
    /\ At(w, "settleCancel")
    /\ Goto(w, IF NeedsSync(w) THEN "sync" ELSE AfterObservation(w))
    /\ UNCHANGED <<row, res, tries, book, placed, local, faults>>

\* A released cancellation is only searched for late trades.
Finalize(w) ==
    /\ At(w, "idle") /\ status = "CANCELLED"
    /\ Read(w)
    /\ IF res = "RELEASED" THEN Begin(w, "late", "sync") ELSE Begin(w, "final", "finalGet")
    /\ UNCHANGED <<row, res, tries, book, placed, faults>>

\* Variant: every read of the order restarts the grace.
FinalGetRestarting(w) ==
    /\ At(w, "finalGet")
    /\ \/ \E r \in Reports : /\ DetailsComplete(r) /\ Observe(w, r) /\ UNCHANGED job
                             /\ Goto(w, IF r.state \in {"CANCELLED", "FILLED"} THEN "sync" ELSE "hold")
       \/ (Absent \/ \E r \in Reports : ~DetailsComplete(r)) /\ Goto(w, "hold") /\ UNCHANGED <<job, seen>>
    /\ aged' = FALSE
    /\ UNCHANGED <<status, filled, known, res, tries, book, placed, copy, goal, faults>>

\* The venue must say that the order is dead.  One it has retired is judged by
\* the trade feed alone, if anything was filled and the grace has passed.
FinalGet(w) ==
    /\ At(w, "finalGet")
    /\ \/ /\ \E r \in Reports : /\ DetailsComplete(r) /\ Observe(w, r)
                                /\ Goto(w, IF r.state \in {"CANCELLED", "FILLED"} THEN "sync" ELSE "hold")
          /\ UNCHANGED <<job, faults>>
       \/ /\ Absent
          /\ job' = [job EXCEPT ![w] = "retired"]
          /\ Goto(w, IF copy[w].filled > 0 /\ aged THEN "sync" ELSE "hold")
          /\ UNCHANGED <<seen, faults>>
       \/ /\ \E r \in Reports : ~DetailsComplete(r)
          /\ Goto(w, "hold") /\ UNCHANGED <<job, seen, faults>>
       \/ Fault /\ Goto(w, "hold") /\ UNCHANGED <<job, seen>>
    /\ UNCHANGED <<row, res, tries, book, placed, copy, goal>>

\* A worker dies; a reconciliation attempt it leaves STARTED counts for ever.
Crash(w) ==
    /\ pc[w] # "idle" /\ Fault
    /\ Goto(w, "idle")
    /\ tries' = IF pc[w] \in Reading THEN Saturated(tries) ELSE tries
    /\ UNCHANGED <<row, res, book, placed, local>>

-----------------------------------------------------------------------------
(* The venue and the passing of time.                                      *)

unmoved == <<row, res, tries, placed, pc, local, faults>>

Accept ==
    /\ venue = "flying"
    /\ \E n \in 0..Size :
        /\ matched' = n
        /\ venue' = IF n = Size THEN "filled" ELSE IF Kind = "IOC" THEN "cancelled" ELSE "open"
    /\ UNCHANGED <<listed, confirmed, expired, unmoved>>

Refuse == venue = "flying" /\ venue' = "refused" /\ UNCHANGED <<matched, listed, confirmed, expired, unmoved>>

Match ==
    /\ venue = "open"
    /\ matched' = matched + 1
    /\ venue' = IF matched + 1 = Size THEN "filled" ELSE "open"
    /\ UNCHANGED <<listed, confirmed, expired, unmoved>>

VenueCancel == venue = "open" /\ venue' = "cancelled" /\ UNCHANGED <<matched, listed, confirmed, expired, unmoved>>

List == listed < matched /\ listed' = listed + 1 /\ UNCHANGED <<venue, matched, confirmed, expired, unmoved>>

Confirm == confirmed < listed /\ confirmed' = confirmed + 1 /\ UNCHANGED <<venue, matched, listed, expired, unmoved>>

Retire ==
    /\ Retires /\ venue \in {"cancelled", "filled"} /\ listed = matched
    /\ venue' = "gone"
    /\ UNCHANGED <<matched, listed, confirmed, expired, unmoved>>

\* The signed expiry passes: the venue neither accepts nor keeps the order.
Expire ==
    /\ Expiring /\ ~expired /\ status \notin PreSubmit \cup {"NONE"}
    /\ expired' = TRUE
    /\ venue' = CASE venue = "flying" -> "refused" [] venue = "open" -> "cancelled" [] OTHER -> venue
    /\ UNCHANGED <<matched, listed, confirmed, unmoved>>

\* The finality grace is longer than the venue takes to list what it matched.
Age ==
    /\ status = "CANCELLED" /\ ~aged /\ listed = matched
    /\ SlowScan \/ \A w \in Workers : ~(job[w] = "final" /\ pc[w] \in {"sync", "apply"})
    /\ aged' = TRUE
    /\ UNCHANGED <<status, filled, known, res, tries, book, placed, pc, local, faults>>

-----------------------------------------------------------------------------
Calls(w) == Submit(w) \/ Resume(w) \/ Refresh(w) \/ Cancel(w) \/ Finalize(w) \/ SyncFills(w)

Submitting(w) ==
    \/ BeginValidation(w) \/ RefuseOrder(w) \/ ReserveAssets(w) \/ RejectOnly(w)
    \/ MarkReserved(w) \/ Revalidate(w) \/ RejectReserved(w) \/ StartSubmit(w)
    \/ Place(w) \/ PlaceReturns(w) \/ FinishRejected(w) \/ FinishUnknown(w)
    \/ FinishAcknowledged(w) \/ ApplyVenueState(w) \/ ForceUnknown(w) \/ ActOnObservation(w)

Synchronizing(w) == ListFills(w) \/ ApplyFill(w) \/ EndSync(w)

Settling(w) == MarkPending(w) \/ Hold(w) \/ Defer(w) \/ Release(w)

Reconciling(w) ==
    \/ ForceRefresh(w) \/ StartReconcile(w) \/ GetFound(w) \/ GetPending(w) \/ GetFails(w)
    \/ FinishGet(w) \/ GiveUp(w) \/ FinishFailed(w) \/ FinishPending(w) \/ SyncDetails(w)
    \/ Evaluate(w) \/ ApplyRelease(w)

Cancelling(w) ==
    \/ StartCancel(w) \/ CancelReturns(w) \/ CancelLost(w) \/ FinishCancel(w)
    \/ FinishCancelUnknown(w) \/ SettleCancel(w) \/ FinalGet(w)

Work(w) == Submitting(w) \/ Synchronizing(w) \/ Settling(w) \/ Reconciling(w) \/ Cancelling(w)

Venue == Accept \/ Refuse \/ Match \/ VenueCancel \/ List \/ Confirm \/ Retire

Next ==
    \/ \E w \in Workers : Calls(w) \/ Work(w) \/ Crash(w)
    \/ Venue \/ Expire \/ Age

Spec == Init /\ [][Next]_vars
\* What the processes keep doing: a started call ends or its worker dies, every
\* sweep of the order coordinator makes the call the order's status asks for,
\* the venue answers, lists and settles what it matched, and time passes (the
\* grace ends outside of a scan, unless SlowScan).
Fairness ==
    /\ \A w \in Workers :
        /\ WF_vars(Work(w))
        /\ SF_vars(Resume(w)) /\ SF_vars(Refresh(w)) /\ SF_vars(Finalize(w))
    /\ WF_vars(Accept \/ Refuse) /\ WF_vars(List) /\ WF_vars(Confirm)
    /\ SF_vars(Age) /\ WF_vars(Expire)

FairSpec == Spec /\ Fairness

-----------------------------------------------------------------------------
(* Properties.                                                             *)

Labels ==
    {"idle", "received", "validating", "rejectOnly", "persistReserved", "revalidate",
     "submitReserved", "place", "placing", "submitRejected", "submitUnknown", "acked",
     "applyState", "forceUnknown", "observed", "sync", "apply", "markPending", "hold",
     "defer", "release", "forceRefresh", "startReconcile", "getting", "getPending",
     "finishGet", "getFailed", "giveUp", "details", "resolve", "applyRelease",
     "cancelStart", "cancelling", "finishCancel", "cancelUnknown", "settleCancel", "finalGet"}

Jobs == {"none", "submit", "resume", "refresh", "missing", "details", "cancel", "final",
         "retired", "retiredApplied", "late", "fills"}

VenueStates == {"none", "flying", "open", "cancelled", "filled", "refused", "gone"}

\* Every variable keeps its type, and what is booked was confirmed in the feed,
\* which lists what was matched.
TypeOK ==
    /\ status \in OrderStatuses \cup {"NONE"}
    /\ filled \in 0..Size
    /\ known \in BOOLEAN /\ aged \in BOOLEAN /\ expired \in BOOLEAN
    /\ res \in {"NONE", "ACTIVE", "RECONCILIATION_REQUIRED", "RELEASED", "SETTLED"}
    /\ tries \in 0..MaxReconcile
    /\ venue \in VenueStates
    /\ matched \in 0..Size /\ listed \in 0..Size /\ confirmed \in 0..Size
    /\ filled <= confirmed /\ confirmed <= listed /\ listed <= matched
    /\ placed \in Nat /\ faults \in 0..MaxFaults
    /\ pc \in [Workers -> Labels]
    /\ job \in [Workers -> Jobs]
    /\ copy \in [Workers -> [status : OrderStatuses \cup {"NONE"}, filled : 0..Size, fresh : BOOLEAN]]
    /\ seen \in [Workers -> [state : OrderStatuses \cup {"NONE"}, matched : 0..Size]]
    /\ goal \in [Workers -> 0..Size]

\* The order may still execute, or has executed beyond what the ledger booked.
Exposed == venue \in {"flying", "open"} \/ matched > filled

\* Whatever crashes, retries and recoveries interleave, at most one placement
\* request is ever sent for a client order id.
AtMostOnePlacement == placed <= 1

\* The reservation is held as long as the venue can still execute the order or
\* has executed lots the ledger has not booked (Reconcile and ResolveUnaccepted
\* never release collateral too early).
CollateralCoversExposure == Exposed => Held

\* An order recorded as never accepted or completely filled has no life left
\* at the venue, and a filled one has consumed its reservation.
FinalStatusIsTrue ==
    /\ status \in PreSubmit \cup {"REJECTED", "FILLED"} => ~Exposed
    /\ status = "FILLED" => filled = Size /\ res = "SETTLED"

\* Once the row says that the placement may have been sent, no step takes the
\* order back to where Resume would send it again, and a terminal status is
\* left only by a fill.
HistoryIsOneWay ==
    [][ /\ status \notin PreSubmit \cup {"NONE"} => status' \notin PreSubmit \cup {"NONE"}
        /\ Terminal(status) /\ status' # status => status' = "FILLED" /\ filled' > filled ]_vars

\* The order has reached an end that needs no process any more: filled,
\* rejected, cancelled with its collateral back, or given to an operator.
Settled ==
    \/ status \in {"FILLED", "REJECTED", "MANUAL_REVIEW"}
    \/ status = "CANCELLED" /\ res = "RELEASED"

\* Every order with an expiry that the API accepted is eventually settled.
EventuallySettled == status = "RECEIVED" ~> Settled

\* docs/reconciliation.md: the collateral of a cancelled order is released once
\* the grace has passed and the trades were read again, so none was missed.
ReleaseMissesNoTrade == status = "CANCELLED" /\ res = "RELEASED" => matched = filled

\* service.go, completeEmulatedIOC: pending trade details never leave the
\* remainder of an emulated IOC on the book.
RemainderIsCancelled == venue = "open" ~> venue # "open"

\* The ledger row of an order follows the venue: every row has its columns, the
\* collateral covers what the venue may still match, and a final status is what
\* the venue did (Service.submit, refresh, reconcile).
LedgerFollowsVenue == TypeOK /\ CollateralCoversExposure /\ FinalStatusIsTrue
=============================================================================
