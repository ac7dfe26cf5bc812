-------------------------- MODULE StrategyReports --------------------------
(***************************************************************************)
(* What the strategy service is told about the orders it asked for:        *)
(* internal/service/strategyreport/reporter.go, the request it makes and   *)
(* the order rows it reads.  The strategy occupies a market when it decides*)
(* and releases it on a terminal report without a fill.                    *)
(*                                                                         *)
(* `orders' keeps every revision of an order row; a Sync reads the current *)
(* ones and posts them in batches while the orders move on.  A request may *)
(* be lost, may arrive although its answer is lost, and may arrive late.   *)
(***************************************************************************)
EXTENDS OrderState, FiniteSets, Sequences, FiniteSetsExt, SequencesExt

CONSTANTS
    Tracked,          \* BUY orders of a reported strategy that carry a decision
    ReportedSize,     \* Intent.Size
    Lookback,         \* ticks a change stays in view
    ScanLimit,        \* scanLimit
    ReportBatch,      \* MaxOrderReportsPerRequest
    DirectAttempts,   \* directAttempts
    MaxRevisions,     \* bound: revisions of the rows together
    MaxReportTime,    \* bound: ticks
    MaxReportFaults   \* bound: requests without an answer, and restarts

ASSUME StrategyReportsConstants ==
    /\ ReportedSize \in Nat \ {0} /\ Lookback \in Nat /\ ScanLimit \in Nat \ {0}
    /\ ReportBatch \in Nat \ {0} /\ DirectAttempts \in Nat \ {0}

VARIABLES
    orders,   \* Tracked -> the revisions of the row: [status, filled, priced, venueId, at]
    rclock,
    sent,     \* Reporter.sent: the revision known to be acknowledged, 0 without an entry
    pass,     \* the Sync under way or the one that ended last
    direct,   \* Tracked -> requests ReportNotSubmitted has made; DirectAttempts + 1 when over
    heard,    \* Tracked -> the report the strategy acts on
    late,     \* reports whose request was given up and has not arrived
    rfaults

reportVars == <<orders, rclock, sent, pass, direct, heard, late, rfaults>>

-----------------------------------------------------------------------------
(* Reports.                                                                *)

Revision(o) == Len(orders[o])

Row(o) == orders[o][Revision(o)]

\* The vocabulary of the strategy: a status, and what a fill makes of it.
ReportStatus(r) ==
    CASE r.status = "ACKNOWLEDGED" -> IF r.filled > 0 THEN "PARTIALLY_FILLED" ELSE "SUBMITTED"
      [] r.status \in {"LIVE", "CANCEL_PENDING", "PARTIALLY_FILLED"} ->
           IF r.filled > 0 THEN "PARTIALLY_FILLED" ELSE "OPEN"
      [] r.status = "FILLED" -> IF r.filled > 0 THEN "FILLED" ELSE "UNKNOWN"
      [] r.status = "CANCELLED" -> "CANCELLED"
      [] r.status = "REJECTED" -> IF r.venueId THEN "REJECTED" ELSE "NOT_SUBMITTED"
      [] OTHER -> "UNKNOWN"

\* Nothing is said before the venue may have the order, nor of a fill whose
\* price cannot be derived.
Reportable(r) ==
    /\ r.status \notin PreSubmit \cup {"SUBMITTING"}
    /\ r.filled > 0 => r.priced

ReportFromOrder(o, n) ==
    [order |-> o, seq |-> n, status |-> ReportStatus(orders[o][n]), filled |-> orders[o][n].filled]

NotSubmittedSeq == 1

NotSubmitted(o) == [order |-> o, seq |-> NotSubmittedSeq, status |-> "NOT_SUBMITTED", filled |-> 0]

\* The strategy acts on the highest sequence number of a decision; a lower or
\* a repeated one is answered with an error of its own.
Receive(before, reports) ==
    [o \in Tracked |->
        LET mine == {r \in reports : r.order = o /\ r.seq > before[o].seq}
        IN  IF mine = {} THEN before[o] ELSE CHOOSE r \in mine : \A q \in mine : q.seq <= r.seq]

-----------------------------------------------------------------------------

Unheard(o) == [order |-> o, seq |-> 0, status |-> "NONE", filled |-> 0]

Pending == [status |-> "SUBMITTING", filled |-> 0, priced |-> FALSE, venueId |-> FALSE, at |-> 0]

NoPass == [at |-> "idle", todo |-> <<>>, view |-> [o \in Tracked |-> 0]]

ReportInit ==
    /\ \E early \in SUBSET Tracked :
          orders = [o \in Tracked |->
                      <<[Pending EXCEPT !.status = "RECEIVED"], [Pending EXCEPT !.status = "VALIDATING"]>>
                        \o (IF o \in early THEN <<>>
                            ELSE <<[Pending EXCEPT !.status = "RESERVED"], Pending>>)]
    /\ rclock = 0 /\ rfaults = 0 /\ late = {}
    /\ sent = [o \in Tracked |-> 0] /\ pass = NoPass
    /\ direct = [o \in Tracked |-> 0]
    /\ heard = [o \in Tracked |-> Unheard(o)]

ReportTimePasses ==
    /\ rclock < MaxReportTime /\ rclock' = rclock + 1
    /\ UNCHANGED <<orders, sent, pass, direct, heard, late, rfaults>>

\* Any writer of the row: the edges of the order state machine, fills only grow.
OrderMoves(o) ==
    /\ MapThenSumSet(Revision, Tracked) < MaxRevisions
    /\ \E s \in OrderStatuses, n \in Row(o).filled .. ReportedSize, priced, venueId \in BOOLEAN :
          /\ CanTransitionTo(Row(o).status, s)
          /\ s # Row(o).status \/ n # Row(o).filled
          /\ FillStateAllows(s, n, ReportedSize, FALSE)
          /\ s \in PreSubmit \cup {"SUBMITTING"} => n = 0 /\ ~venueId
          /\ s \in Working \cup {"FILLED"} => venueId
          /\ Row(o).venueId => venueId
          /\ n = 0 => ~priced
          /\ orders' = [orders EXCEPT ![o] = Append(@,
                [status |-> s, filled |-> n, priced |-> priced, venueId |-> venueId, at |-> rclock])]
    /\ UNCHANGED <<rclock, sent, pass, direct, heard, late, rfaults>>

-----------------------------------------------------------------------------
(* Sync.                                                                   *)

\* The rows changed within the lookback, oldest change first, at most ScanLimit.
ListUpdatedSince ==
    LET inView == {o \in Tracked : Row(o).at >= rclock - Lookback}
        order  == SetToSortSeq(inView, LAMBDA p, q : Row(p).at < Row(q).at)
    IN  ToSet(SubSeq(order, 1, IF Len(order) < ScanLimit THEN Len(order) ELSE ScanLimit))

\* The read, the reports that are due, and the entries that leave memory.  A
\* read that fails changes nothing.
SyncReads ==
    LET read   == ListUpdatedSince
        due    == {o \in read : sent[o] < Revision(o) /\ Reportable(Row(o))}
        order  == SetToSortSeq(due, LAMBDA p, q : Row(p).at < Row(q).at)
    IN  /\ pass.at # "posting"
        /\ sent' = [o \in Tracked |-> IF o \in read THEN sent[o] ELSE 0]
        /\ pass' = [at   |-> IF due = {} THEN "done" ELSE "posting",
                    todo |-> [i \in 1..Len(order) |-> ReportFromOrder(order[i], Revision(order[i]))],
                    view |-> [o \in Tracked |->
                                IF o \in read /\ Reportable(Row(o)) THEN Revision(o) ELSE 0]]
        /\ UNCHANGED <<orders, rclock, direct, heard, late, rfaults>>

PostBatch == ToSet(SubSeq(pass.todo, 1, IF Len(pass.todo) < ReportBatch THEN Len(pass.todo) ELSE ReportBatch))

Rest == SubSeq(pass.todo, ReportBatch + 1, Len(pass.todo))

\* What an answer acknowledges: the revisions of the batch, also those refused.
AcknowledgeCurrent(batch) ==
    [o \in Tracked |-> IF \E r \in batch : r.order = o THEN Revision(o) ELSE sent[o]]

Acknowledge(batch) ==
    [o \in Tracked |-> IF \E r \in batch : r.order = o
                       THEN (CHOOSE r \in batch : r.order = o).seq ELSE sent[o]]

PostAnswered ==
    /\ pass.at = "posting"
    /\ heard' = Receive(heard, PostBatch)
    /\ sent' = Acknowledge(PostBatch)
    /\ pass' = [pass EXCEPT !.todo = Rest, !.at = IF Rest = <<>> THEN "done" ELSE "posting"]
    /\ UNCHANGED <<orders, rclock, direct, late, rfaults>>

\* No answer, or not one result for each report: the pass ends with an error.
PostFails(arrives) ==
    /\ pass.at = "posting"
    /\ rfaults < MaxReportFaults /\ rfaults' = rfaults + 1
    /\ heard' = IF arrives THEN Receive(heard, PostBatch) ELSE heard
    /\ late' \in IF arrives THEN {late} ELSE {late, late \cup PostBatch}
    /\ pass' = NoPass
    /\ UNCHANGED <<orders, rclock, sent, direct>>

LateArrives(r) ==
    /\ heard' = Receive(heard, {r}) /\ late' = late \ {r}
    /\ UNCHANGED <<orders, rclock, sent, pass, direct, rfaults>>

\* Another attempt of the cycle finds its response refused or entries blocked,
\* and says that the decision was not placed.
ReportNotSubmitted(o, answered, arrives) ==
    /\ direct[o] < DirectAttempts
    /\ answered => arrives
    /\ answered \/ rfaults < MaxReportFaults
    /\ rfaults' = IF answered THEN rfaults ELSE rfaults + 1
    /\ direct' = [direct EXCEPT ![o] = IF answered THEN DirectAttempts + 1 ELSE @ + 1]
    /\ heard' = IF arrives THEN Receive(heard, {NotSubmitted(o)}) ELSE heard
    /\ late' = IF arrives THEN late ELSE late \cup {NotSubmitted(o)}
    /\ UNCHANGED <<orders, rclock, sent, pass>>

ReporterRestarts ==
    /\ rfaults < MaxReportFaults /\ rfaults' = rfaults + 1
    /\ sent' = [o \in Tracked |-> 0] /\ pass' = NoPass
    /\ direct' = [o \in Tracked |-> IF direct[o] = 0 THEN 0 ELSE DirectAttempts + 1]
    /\ UNCHANGED <<orders, rclock, heard, late>>

ReportNext ==
    \/ ReportTimePasses \/ SyncReads \/ PostAnswered \/ ReporterRestarts
    \/ \E arrives \in BOOLEAN : PostFails(arrives)
    \/ \E o \in Tracked : OrderMoves(o)
    \/ \E o \in Tracked, answered, arrives \in BOOLEAN : ReportNotSubmitted(o, answered, arrives)
    \/ \E r \in late : LateArrives(r)

ReportSpec == ReportInit /\ [][ReportNext]_reportVars

-----------------------------------------------------------------------------

\* What the strategy acts on is a revision the order really had, whatever was
\* lost, repeated or late, and a market is released only by a revision that is
\* final without a fill, or before any report of the order; a NOT_SUBMITTED of
\* an earlier attempt never replaces a report of the order.  A Sync that ends
\* without an error has told it every revision its read saw, and no later Sync
\* is kept from telling a revision, although the orders move while it posts.
StrategyIsTold ==
    /\ \A o \in Tracked :
          /\ sent[o] <= heard[o].seq
          /\ heard[o].seq > NotSubmittedSeq =>
                /\ heard[o] = ReportFromOrder(o, heard[o].seq)
                /\ heard[o].filled = 0 /\ heard[o].status \in {"CANCELLED", "REJECTED", "NOT_SUBMITTED", "FILLED"}
                     => orders[o][heard[o].seq].status \in {"CANCELLED", "REJECTED"}
    /\ pass.at = "done" => \A o \in Tracked : heard[o].seq >= pass.view[o]
=============================================================================
