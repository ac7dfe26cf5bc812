--------------------------- MODULE HistoryProofs ----------------------------
(***************************************************************************)
(* The history of the order's row is one-way.  The second part states the  *)
(* invariant by which collateral covers exposure and what every step and   *)
(* every write of the row contribute to it; CollateralSteps and            *)
(* CollateralProofs go through the actions.                                *)
(***************************************************************************)
EXTENDS ExecutionProofs

\* Why a terminal status is left only by a fill: a copy that may write has the
\* filled size of the row, so FILLED is never written from an old size; an order
\* that is completely filled is FILLED; and the release of an unaccepted order
\* was judged on a copy that was not terminal.
OneWayInv ==
    /\ PlacementInv
    /\ \A w \in Workers : copy[w].fresh => copy[w].filled = filled
    /\ filled = Size => status = "FILLED"
    /\ status = "NONE" => filled = 0
    /\ \A w \in Workers : pc[w] = "applyRelease" => ~Terminal(copy[w].status)

Kept == Terminal(status) /\ status' # status => status' = "FILLED" /\ filled' > filled

Forward ==
    /\ \A v \in Workers : copy'[v].fresh => copy'[v].filled = filled'
    /\ filled' = Size => status' = "FILLED"
    /\ status' = "NONE" => status = "NONE" /\ filled' = filled
    /\ \A v \in Workers : pc'[v] = "applyRelease" => ~Terminal(copy'[v].status)
    /\ Kept

LEMMA ForwardKeeps ==
    ASSUME OneWayInv, PlacementInv', Forward
    PROVE  OneWayInv'
  BY DEF OneWayInv, Forward

\* The filled size of the copies after a write.
LEMMA WriterSize ==
    ASSUME TypeInv, NEW w \in Workers, NEW t \in Statuses
    PROVE  /\ \A v \in Workers : Outdated(w, t)[v].filled = copy[v].filled
           /\ \A v \in Workers : Outdated(w, t)[v].fresh => copy[v].fresh
  <1>1. ASSUME NEW c \in Copies
        PROVE  /\ [c EXCEPT !.status = t].filled = c.filled
               /\ [c EXCEPT !.fresh = FALSE].filled = c.filled
    BY Zenon DEF Copies
  <1>2. \A v \in Workers : Outdated(w, t)[v].filled = copy[v].filled
    BY <1>1, LocalFacts, Zenon DEF Outdated
  <1>3. ASSUME NEW v \in Workers, Outdated(w, t)[v].fresh
        PROVE  copy[v].fresh
    <2>1. v = w
      BY <1>3, WriterCopy
    <2>2. Outdated(w, t)[w] = [copy[w] EXCEPT !.status = t] /\ copy[w] \in Copies
      BY LocalFacts, Zenon DEF Outdated
    <2>3. [copy[w] EXCEPT !.status = t].fresh = copy[w].fresh
      BY <2>2, CopyFields
    <2>4. QED
      BY <1>3, <2>1, <2>2, <2>3, Zenon
  <1>4. QED
    BY <1>2, <1>3

\* A legal edge out of a terminal status leads to FILLED, and no write takes it:
\* the row would be FILLED already.
LEMMA TerminalIsKept ==
    ASSUME OneWayInv, NEW w \in Workers, NEW t \in Statuses, CanWrite(w, t)
    PROVE  /\ Terminal(status) => t = status
           /\ filled = Size => t = "FILLED"
           /\ t = "NONE" => status = "NONE"
  <1>1. copy[w].status = status /\ copy[w].filled = filled
    BY DEF CanWrite, OneWayInv, PlacementInv
  <1>2. filled \in Nat /\ Size \in Nat
    BY ExecutionConstants DEF OneWayInv, PlacementInv, TypeInv, TypeOK
  <1>3. CanTransitionTo(status, t) /\ (t = "FILLED" => filled = Size)
    BY <1>1, <1>2 DEF CanWrite, FillStateAllows
  <1>4. t = "NONE" => status = "NONE"
    BY <1>3, NoWayBack
  <1>5. QED
    BY <1>3, <1>4 DEF OneWayInv, CanTransitionTo, Successors, Terminal, TerminalStatuses

LEMMA WriteIsForward ==
    ASSUME OneWayInv, NEW w \in Workers, NEW t \in Statuses, NEW stamps, NEW ok, NEW lost,
           ok # "applyRelease", lost # "applyRelease", pc[w] # "applyRelease",
           Persist(w, t, stamps, ok, lost)
    PROVE  Forward
  <1>1. TypeInv /\ pc \in [Workers -> Labels] /\ filled' = filled
    BY LocalFacts DEF OneWayInv, PlacementInv, Persist
  <1>2. CASE /\ CanWrite(w, t) /\ status' = t /\ copy' = Outdated(w, t) /\ Goto(w, ok)
    <2>1. \A v \in Workers : copy'[v].fresh => copy'[v].filled = filled
      BY <1>1, <1>2, WriterSize DEF OneWayInv
    <2>2. \A v \in Workers : v # w => copy'[v].status = copy[v].status
      BY <1>1, <1>2, WriterCopy, SMTT(30)
    <2>3. \A v \in Workers : pc'[v] = "applyRelease" => v # w /\ pc[v] = "applyRelease"
      BY <1>1, <1>2 DEF Goto
    <2>4. QED
      BY <1>1, <1>2, <2>1, <2>2, <2>3, TerminalIsKept, SMTT(30) DEF OneWayInv, Forward, Kept
  <1>3. CASE Goto(w, lost) /\ UNCHANGED <<status, copy>>
    BY <1>1, <1>3 DEF OneWayInv, Forward, Kept, Goto
  <1>4. CASE /\ CanWrite(w, t) /\ status' = t /\ Goto(w, lost)
             /\ copy' = [v \in Workers |-> [copy[v] EXCEPT !.fresh = FALSE]]
    <2>1. \A v \in Workers : ~copy'[v].fresh /\ copy'[v].status = copy[v].status
      BY <1>1, <1>4, StaleCopies
    <2>2. \A v \in Workers : pc'[v] = "applyRelease" => pc[v] = "applyRelease"
      BY <1>1, <1>4 DEF Goto
    <2>3. /\ Kept /\ (filled' = Size => status' = "FILLED")
          /\ status' = "NONE" => status = "NONE" /\ filled' = filled
      BY <1>1, <1>4, TerminalIsKept DEF Kept
    <2>4. QED
      BY <2>1, <2>2, <2>3, Zenon DEF OneWayInv, Forward
  <1>5. QED
    BY <1>2, <1>3, <1>4 DEF Persist

LEMMA LocalIsForward ==
    ASSUME OneWayInv, NEW w \in Workers, NEW l, Goto(w, l), l # "applyRelease",
           UNCHANGED <<status, filled>>, UNCHANGED copy \/ Read(w)
    PROVE  Forward
  <1>1. TypeInv /\ pc \in [Workers -> Labels] /\ copy \in [Workers -> Copies]
    BY LocalFacts DEF OneWayInv, PlacementInv
  <1>2. CASE UNCHANGED copy
    BY <1>1, <1>2 DEF OneWayInv, Forward, Kept, Goto
  <1>3. CASE Read(w)
    BY <1>1, <1>3 DEF OneWayInv, Forward, Kept, Goto, Read
  <1>4. QED
    BY <1>2, <1>3

LEMMA NotToRelease ==
    ASSUME NEW w \in Workers, NEW e
    PROVE  AfterSync(w, e) # "applyRelease" /\ AfterObservation(w) # "applyRelease"
  BY DEF AfterSync, AfterObservation

LEMMA SubmittingForward ==
    ASSUME OneWayInv, NEW w \in Workers, Submitting(w)
    PROVE  Forward
  <1>0. TypeInv
    BY DEF OneWayInv, PlacementInv
  <1>1. CASE BeginValidation(w)
    BY <1>1, WriteIsForward, WriteNames, Zenon DEF BeginValidation, At
  <1>2. CASE RefuseOrder(w)
    BY <1>2, LocalIsForward DEF RefuseOrder, At, row, local
  <1>3. CASE ReserveAssets(w)
    BY <1>3, LocalIsForward DEF ReserveAssets, At, row, local
  <1>4. CASE RejectOnly(w)
    BY <1>4, WriteIsForward, WriteNames, Zenon DEF RejectOnly, At
  <1>5. CASE MarkReserved(w)
    BY <1>5, WriteIsForward, WriteNames, Zenon DEF MarkReserved, At
  <1>6. CASE Revalidate(w)
    BY <1>6, WriteIsForward, WriteNames, Zenon DEF Revalidate, At
  <1>7. CASE RejectReserved(w)
    BY <1>7, WriteIsForward, WriteNames, Zenon DEF RejectReserved, At
  <1>8. CASE PlaceReturns(w)
    BY <1>8, LocalIsForward DEF PlaceReturns, At, row, local
  <1>9. CASE FinishRejected(w)
    BY <1>9, WriteIsForward, WriteNames, Zenon DEF FinishRejected, At
  <1>10. CASE FinishUnknown(w)
    BY <1>10, WriteIsForward, WriteNames, Zenon DEF FinishUnknown, At
  <1>11. CASE FinishAcknowledged(w)
    BY <1>11, WriteIsForward, WriteNames, Zenon DEF FinishAcknowledged, At
  <1>12. CASE ApplyVenueState(w)
    BY <1>0, <1>12, WriteIsForward, WriteNames, TargetType, Zenon DEF ApplyVenueState, At
  <1>13. CASE ForceUnknown(w)
    BY <1>13, WriteIsForward, WriteNames, Zenon DEF ForceUnknown, At
  <1>14. CASE ActOnObservation(w)
    BY <1>14, LocalIsForward, NotToRelease DEF ActOnObservation, At, row, local
  <1>15. CASE StartSubmit(w)
    BY <1>15, WriteIsForward, WriteNames, Zenon DEF StartSubmit, At
  <1>16. CASE Place(w)
    BY <1>16, LocalIsForward DEF Place, row, local
  <1>17. QED
    BY <1>1, <1>2, <1>3, <1>4, <1>5, <1>6, <1>7, <1>8, <1>9, <1>10, <1>11, <1>12, <1>13, <1>14,
       <1>15, <1>16 DEF Submitting

LEMMA SynchronizingForward ==
    ASSUME OneWayInv, NEW w \in Workers, Synchronizing(w)
    PROVE  Forward
  <1>0. TypeInv /\ filled \in Nat /\ Size \in Nat
    BY ExecutionConstants DEF OneWayInv, PlacementInv, TypeInv, TypeOK
  <1>1. CASE ListFills(w)
    BY <1>1, LocalIsForward DEF ListFills, At, row, local
  <1>2. CASE ApplyFill(w)
    <2>1. \A v \in Workers : ~copy'[v].fresh /\ copy'[v].status = copy[v].status
      BY <1>0, <1>2, StaleCopies DEF ApplyFill
    <2>2. filled' = filled + 1 /\ status' = FillTarget /\ FillBookable /\ UNCHANGED pc
      BY <1>2 DEF ApplyFill
    <2>3. (filled' = Size => status' = "FILLED") /\ status' # "NONE"
      BY <2>2 DEF FillTarget
    <2>4. Kept
      BY <1>0, <2>2 DEF Kept, FillTarget, FillBookable, FillEdgesAllowed, EntryStatus,
                        CanTransitionTo, Successors, Terminal, TerminalStatuses
    <2>5. QED
      BY <2>1, <2>2, <2>3, <2>4, Zenon DEF OneWayInv, Forward
  <1>3. CASE EndSync(w)
    <2>1. \E e : Goto(w, AfterSync(w, e))
      BY <1>3 DEF EndSync
    <2>2. QED
      BY <1>3, <2>1, LocalIsForward, NotToRelease, SMTT(30) DEF EndSync, At, row
  <1>4. QED
    BY <1>1, <1>2, <1>3 DEF Synchronizing

LEMMA SettlingForward ==
    ASSUME OneWayInv, NEW w \in Workers, Settling(w)
    PROVE  Forward
  <1>1. CASE MarkPending(w)
    BY <1>1, WriteIsForward, WriteNames, Zenon DEF MarkPending, At
  <1>2. CASE Hold(w)
    BY <1>2, LocalIsForward DEF Hold, At, row, local
  <1>3. CASE Defer(w)
    <2>1. CASE Persist(w, "CANCELLED", FALSE, "idle", "idle") /\ UNCHANGED tries
      BY <1>3, <2>1, WriteIsForward, WriteNames, Zenon DEF Defer, At
    <2>2. CASE Goto(w, "idle") /\ UNCHANGED <<row, res, tries, book, placed, local, faults>>
      BY <1>3, <2>2, LocalIsForward, SMTT(30) DEF Defer, At, row, local
    <2>3. QED
      BY <1>3, <2>1, <2>2, Zenon DEF Defer
  <1>4. CASE Release(w)
    BY <1>4, LocalIsForward DEF Release, At, row, local
  <1>5. QED
    BY <1>1, <1>2, <1>3, <1>4 DEF Settling

LEMMA ReconcilingForward ==
    ASSUME OneWayInv, NEW w \in Workers, Reconciling(w)
    PROVE  Forward
  <1>0. TypeInv /\ pc \in [Workers -> Labels] /\ copy \in [Workers -> Copies]
    BY LocalFacts DEF OneWayInv, PlacementInv
  <1>1. CASE ForceRefresh(w)
    BY <1>1, WriteIsForward, WriteNames, Zenon DEF ForceRefresh, At
  <1>2. CASE StartReconcile(w)
    BY <1>2, WriteIsForward, WriteNames, Zenon DEF StartReconcile, At
  <1>3. CASE GetFound(w)
    BY <1>3, LocalIsForward DEF GetFound, At, row, local
  <1>4. CASE GetPending(w)
    BY <1>4, LocalIsForward DEF GetPending, At, row, local
  <1>5. CASE GetFails(w)
    BY <1>5, LocalIsForward DEF GetFails, At, row, local
  <1>6. CASE FinishGet(w)
    BY <1>0, <1>6, WriteIsForward, WriteNames, TargetType, Zenon DEF FinishGet, At
  <1>7. CASE GiveUp(w)
    BY <1>7, WriteIsForward, WriteNames, Zenon DEF GiveUp, At
  <1>8. CASE FinishFailed(w)
    BY <1>8, WriteIsForward, WriteNames, Zenon DEF FinishFailed, At
  <1>9. CASE FinishPending(w)
    BY <1>9, WriteIsForward, WriteNames, Zenon DEF FinishPending, At
  <1>10. CASE SyncDetails(w)
    BY <1>10, LocalIsForward DEF SyncDetails, At, row, local
  <1>11. CASE Evaluate(w)
    <2>1. CASE ~Unaccepted
      BY <1>11, <2>1, LocalIsForward, SMTT(30) DEF Evaluate, row
    <2>2. CASE Unaccepted
      <3>1. /\ Goto(w, "applyRelease") /\ Read(w) /\ UNCHANGED <<status, filled>>
            /\ status = "UNKNOWN"
        BY <1>11, <2>2 DEF Evaluate, Unaccepted, row
      <3>2. QED
        BY <1>0, <3>1, SMTT(30) DEF Goto, Read, OneWayInv, Forward, Kept, Terminal, TerminalStatuses
    <2>3. QED
      BY <2>1, <2>2
  <1>12. CASE ApplyRelease(w)
    <2>1. CASE copy[w].fresh /\ copy' = Outdated(w, "CANCELLED") /\ status' = "CANCELLED" /\ Goto(w, "idle")
      <3>1. ~Terminal(status) /\ filled # Size /\ filled' = filled
        BY <1>12, <2>1 DEF ApplyRelease, At, OneWayInv, PlacementInv, Terminal, TerminalStatuses
      <3>2. \A v \in Workers : copy'[v].fresh => copy'[v].filled = filled
        BY <1>0, <2>1, WriterSize, WriteNames DEF OneWayInv
      <3>3. \A v \in Workers : v # w => copy'[v].status = copy[v].status
        BY <1>0, <2>1, WriterCopy, WriteNames, SMTT(30)
      <3>4. \A v \in Workers : pc'[v] = "applyRelease" => v # w /\ pc[v] = "applyRelease"
        BY <1>0, <2>1 DEF Goto
      <3>5. QED
        BY <2>1, <3>1, <3>2, <3>3, <3>4, SMTT(30) DEF OneWayInv, Forward, Kept
    <2>2. CASE UNCHANGED <<status, copy>> /\ Goto(w, "hold")
      BY <1>12, <2>2, LocalIsForward, Zenon DEF ApplyRelease
    <2>3. QED
      BY <1>12, <2>1, <2>2, SMTT(30) DEF ApplyRelease
  <1>13. QED
    BY <1>1, <1>2, <1>3, <1>4, <1>5, <1>6, <1>7, <1>8, <1>9, <1>10, <1>11, <1>12 DEF Reconciling

LEMMA CancellingForward ==
    ASSUME OneWayInv, NEW w \in Workers, Cancelling(w)
    PROVE  Forward
  <1>0. TypeInv
    BY DEF OneWayInv, PlacementInv
  <1>1. CASE StartCancel(w)
    BY <1>1, WriteIsForward, WriteNames, Zenon DEF StartCancel, At
  <1>2. CASE CancelReturns(w)
    BY <1>2, LocalIsForward DEF CancelReturns, At, row, local
  <1>3. CASE CancelLost(w)
    BY <1>3, LocalIsForward DEF CancelLost, At, row, local
  <1>4. CASE FinishCancel(w)
    BY <1>0, <1>4, WriteIsForward, WriteNames, TargetType, Zenon DEF FinishCancel, At
  <1>5. CASE FinishCancelUnknown(w)
    BY <1>5, WriteIsForward, WriteNames, ZenonT(30) DEF FinishCancelUnknown, At
  <1>6. CASE SettleCancel(w)
    BY <1>6, LocalIsForward, NotToRelease, SMTT(30) DEF SettleCancel, At, row, local
  <1>7. CASE FinalGet(w)
    BY <1>7, LocalIsForward DEF FinalGet, At, row, local
  <1>8. QED
    BY <1>1, <1>2, <1>3, <1>4, <1>5, <1>6, <1>7 DEF Cancelling

LEMMA EveryStepForward ==
    ASSUME OneWayInv, [Next]_vars
    PROVE  Forward
  <1>0. TypeInv /\ pc \in [Workers -> Labels] /\ copy \in [Workers -> Copies]
    BY LocalFacts DEF OneWayInv, PlacementInv
  <1>1. ASSUME NEW w \in Workers, Submit(w) PROVE Forward
    <2>1. /\ status = "NONE" /\ status' = "RECEIVED" /\ filled' = filled /\ filled # Size
          /\ filled = 0 /\ Goto(w, "received")
          /\ copy' = [copy EXCEPT ![w] = [status |-> "RECEIVED", filled |-> 0, fresh |-> TRUE]]
      BY <1>1, SMTT(30) DEF Submit, Begin, OneWayInv
    <2>2. QED
      BY <1>0, <2>1, SMTT(30) DEF OneWayInv, Forward, Kept, Goto, Terminal, TerminalStatuses
  <1>2. ASSUME NEW w \in Workers, Resume(w) \/ Refresh(w) \/ Cancel(w) \/ Finalize(w) \/ SyncFills(w)
        PROVE  Forward
    <2>1. \E l : Goto(w, l) /\ l # "applyRelease"
      BY <1>2 DEF Resume, Refresh, Cancel, Finalize, SyncFills, Begin, PreSubmit
    <2>2. UNCHANGED <<status, filled>> /\ (UNCHANGED copy \/ Read(w))
      BY <1>2 DEF Resume, Refresh, Cancel, Finalize, SyncFills, row
    <2>3. QED
      BY <2>1, <2>2, LocalIsForward
  <1>3. ASSUME NEW w \in Workers, Work(w) PROVE Forward
    BY <1>3, SubmittingForward, SynchronizingForward, SettlingForward, ReconcilingForward,
       CancellingForward DEF Work
  <1>4. ASSUME NEW w \in Workers, Crash(w) PROVE Forward
    BY <1>4, LocalIsForward, SMTT(30) DEF Crash, row, local
  <1>5. CASE Venue \/ Expire \/ Age \/ UNCHANGED vars
    <2>1. UNCHANGED <<status, filled, pc, copy>>
      BY <1>5 DEF Venue, Accept, Refuse, Match, VenueCancel, List, Confirm, Retire, Expire, Age,
                  unmoved, vars, row, local
    <2>2. QED
      BY <2>1 DEF OneWayInv, Forward, Kept
  <1>6. QED
    BY <1>1, <1>2, <1>3, <1>4, <1>5, SMTT(30) DEF Next, Calls

LEMMA OneWayInitially == Init => OneWayInv
  <1> SUFFICES ASSUME Init PROVE OneWayInv
    OBVIOUS
  <1>1. \A w \in Workers : ~copy[w].fresh /\ pc[w] = "idle"
    BY Zenon DEF Init
  <1>2. filled = 0 /\ Size # 0
    BY ExecutionConstants DEF Init
  <1>3. QED
    BY <1>1, <1>2, PlacementInvInit DEF OneWayInv

LEMMA OneWayNext == OneWayInv /\ [Next]_vars => OneWayInv'
  BY EveryStepForward, PlacementInvNext, ForwardKeeps DEF OneWayInv

\* Once the row says that the placement may have been sent, nothing returns the
\* order to where it would be sent.
LEMMA SentStaysSent ==
    ASSUME OneWayInv, [Next]_vars, status \notin Unsent
    PROVE  status' \notin Unsent
  <1>0. PlacementInv
    BY DEF OneWayInv
  <1>1. ASSUME NEW w \in Workers, Calls(w) PROVE status' = status
    BY <1>1 DEF Calls, Submit, Resume, Refresh, Cancel, Finalize, SyncFills, row, Unsent
  <1>2. ASSUME NEW w \in Workers, Work(w) PROVE status' \notin Unsent
    <2>1. CASE StartSubmit(w) \/ Place(w)
      <3>1. status' = status \/ status' = "SUBMITTING"
        BY <2>1, Zenon DEF StartSubmit, Persist, Place, row
      <3>2. QED
        BY <3>1 DEF Unsent, PreSubmit
    <2>2. CASE ~StartSubmit(w) /\ ~Place(w)
      <3>1. Safe
        BY <1>0, <1>2, <2>2, SubmittingSafe, SynchronizingSafe, SettlingSafe, ReconcilingSafe,
           CancellingSafe DEF Work
      <3>2. QED
        BY <3>1 DEF Safe
    <2>3. QED
      BY <2>1, <2>2
  <1>3. ASSUME NEW w \in Workers, Crash(w) PROVE status' = status
    BY <1>3 DEF Crash, row
  <1>4. CASE Venue \/ Expire \/ Age \/ UNCHANGED vars
    BY <1>4 DEF Venue, Accept, Refuse, Match, VenueCancel, List, Confirm, Retire, Expire, Age,
                unmoved, vars, row
  <1>5. QED
    BY <1>1, <1>2, <1>3, <1>4, SMTT(30) DEF Next

\* Whatever workers, sweeps, late fills, crashes and half-committed writes
\* interleave, no write from an old copy takes an order back before its
\* placement or out of a terminal status; only a fill does the latter
\* (order_repository.go, fill_ledger.go).
THEOREM OrderHistoryIsOneWay == Spec => HistoryIsOneWay
  <1>1. OneWayInv /\ [Next]_vars =>
          [ /\ status \notin PreSubmit \cup {"NONE"} => status' \notin PreSubmit \cup {"NONE"}
            /\ Terminal(status) /\ status' # status => status' = "FILLED" /\ filled' > filled ]_vars
    BY EveryStepForward, SentStaysSent DEF Forward, Kept, Unsent
  <1>2. QED
    BY <1>1, OneWayInitially, OneWayNext, PTL DEF Spec, HistoryIsOneWay

-----------------------------------------------------------------------------
(* Collateral covers exposure: the reservation of an order is held while   *)
(* the venue can still execute it or has executed more than was booked.    *)

\* The premise: the order is no emulated IOC, whose row may say CANCELLED over a
\* resting remainder, and the finality grace does not end within a scan.
Prompt == Kind # "EMULATED" /\ ~SlowScan

PreLabels == {"received", "validating", "rejectOnly", "persistReserved", "revalidate", "submitReserved"}
Ended == {"CANCELLED", "FILLED"}
Dead == venue \notin {"flying", "open"}

\* What the venue's states mean.
VenueFacts ==
    /\ placed = 0 => venue = "none"
    /\ venue = "gone" => listed = matched
    /\ venue = "refused" => matched = 0
    /\ expired => Dead
    /\ Kind = "IOC" => venue # "open"

\* What the status of the row says of the venue and of the reservation.
RowFacts ==
    /\ status = "REJECTED" => venue \in {"none", "refused"}
    /\ status = "CANCELLED" => Dead
    /\ status = "FILLED" => filled = Size /\ res = "SETTLED"
    /\ aged => status = "CANCELLED" /\ listed = matched
    /\ status = "RESERVED" => Held
    /\ status \in Unsent => res \in {"NONE", "ACTIVE", "RECONCILIATION_REQUIRED"}
    /\ CollateralCoversExposure

\* What a worker knows stays true: a dead order does not come back.
KnowledgeFacts(w) ==
    /\ seen[w].state = "REJECTED" => venue = "refused"
    /\ seen[w].state = "CANCELLED" => venue \in {"cancelled", "gone"}
    /\ copy[w].filled <= filled
    /\ copy[w].status = "REJECTED" => status = "REJECTED"

\* What a worker may rely on where it is in its call; the last two are the
\* grounds for a release.
StepFacts(w) ==
    /\ pc[w] \in PreLabels => copy[w].status \in PreSubmit
    /\ pc[w] = "persistReserved" => res # "NONE"
    /\ pc[w] = "revalidate" => copy[w].status = "RESERVED"
    /\ pc[w] = "submitRejected" => seen[w].state = "REJECTED"
    /\ pc[w] = "finalGet" => job[w] = "final"
    /\ pc[w] = "defer" => job[w] \in Deferring
    /\ job[w] \in Deferring => pc[w] \in {"idle", "finalGet", "sync", "apply", "hold", "defer", "release"}
    /\ job[w] \in Deferring /\ pc[w] # "idle" => status \in Ended /\ copy[w].status \in Ended
    /\ job[w] = "final" /\ pc[w] = "apply" /\ aged => goal[w] = matched
    /\ job[w] = "retired" /\ pc[w] \in {"sync", "apply"} => venue = "gone"
    /\ job[w] = "retired" /\ pc[w] = "apply" => goal[w] = matched
    /\ pc[w] = "release" => status = "REJECTED" \/ (status = "CANCELLED" /\ matched = filled)
    /\ pc[w] = "applyRelease" /\ copy[w].fresh =>
          expired /\ matched = 0 /\ copy[w].status = "UNKNOWN"

\* While the placement is about to be sent, nobody else can write the row.
Waits(v) ==
    \/ pc[v] \in {"idle", "hold"}
    \/ pc[v] \in {"sync", "apply"} /\ job[v] = "fills"
    \/ pc[v] \in PreLabels /\ ~copy[v].fresh

PlacementFacts ==
    /\ status \in Unsent => \A v \in Workers : pc[v] \in PreLabels \cup {"idle", "hold"}
    /\ \A w \in Workers : pc[w] = "place" =>
          /\ status = "SUBMITTING" /\ Held
          /\ \A v \in Workers : v # w => Waits(v)

CoverInv ==
    /\ Prompt /\ OneWayInv /\ VenueFacts /\ RowFacts /\ PlacementFacts
    /\ \A w \in Workers : KnowledgeFacts(w) /\ StepFacts(w)

\* A step that gives worker v nothing new; a step of w is one for all others.
Rests(v) ==
    /\ pc'[v] = pc[v] /\ job'[v] = job[v] /\ seen'[v] = seen[v] /\ goal'[v] = goal[v]
    /\ copy'[v].status = copy[v].status /\ copy'[v].filled = copy[v].filled
    /\ copy'[v].fresh => copy[v].fresh

OthersKept(w) == \A v \in Workers : v # w => Rests(v)

\* What no step undoes.
Steady ==
    /\ filled <= filled'
    /\ status = "REJECTED" => status' = "REJECTED"
    /\ status \in Ended => status' \in Ended /\ matched' = matched
    /\ status = "CANCELLED" /\ matched = filled => status' = "CANCELLED" /\ matched' = filled'
    /\ venue = "refused" => venue' = "refused"
    /\ venue \in {"cancelled", "gone"} => venue' \in {"cancelled", "gone"}
    /\ venue = "gone" => venue' = "gone"
    /\ expired => expired' /\ matched' = matched
    /\ res # "NONE" => res' # "NONE"

LEMMA CoverTypes ==
    ASSUME CoverInv
    PROVE  /\ TypeInv /\ PlacementInv /\ OneWayInv
           /\ pc \in [Workers -> Labels] /\ job \in [Workers -> Jobs]
           /\ copy \in [Workers -> Copies] /\ seen \in [Workers -> Views]
           /\ goal \in [Workers -> 0..Size] /\ \A v \in Workers : goal[v] <= confirmed
           /\ filled \in Nat /\ matched \in Nat /\ listed \in Nat /\ confirmed \in Nat /\ Size \in Nat
           /\ filled <= confirmed /\ confirmed <= listed /\ listed <= matched /\ matched <= Size
           /\ \A v \in Workers : copy[v].filled \in Nat
  <1>1. TypeInv /\ PlacementInv /\ OneWayInv
    BY DEF CoverInv, OneWayInv, PlacementInv
  <1>2. \A v \in Workers : copy[v].filled \in Nat
    <2>1. \A c \in Copies : c.filled \in Nat
      BY ExecutionConstants DEF Copies
    <2>2. QED
      BY <1>1, <2>1, LocalFacts
  <1>3. QED
    BY <1>1, <1>2, LocalFacts, ExecutionConstants DEF TypeInv, TypeOK

LEMMA RestsStays ==
    ASSUME CoverInv, OneWayInv', Steady, aged' => aged, NEW v \in Workers, Rests(v)
    PROVE  KnowledgeFacts(v)' /\ StepFacts(v)'
  <1>1. KnowledgeFacts(v) /\ StepFacts(v)
    BY DEF CoverInv
  <1>2. /\ pc'[v] = pc[v] /\ job'[v] = job[v] /\ seen'[v] = seen[v] /\ goal'[v] = goal[v]
        /\ copy'[v].status = copy[v].status /\ copy'[v].filled = copy[v].filled
        /\ copy'[v].fresh => copy[v].fresh
    BY DEF Rests
  <1>3. copy[v].filled <= filled'
    <2>1. filled' \in Nat
      BY ExecutionConstants DEF OneWayInv, PlacementInv, TypeInv, TypeOK
    <2>2. QED
      BY <1>1, <2>1, CoverTypes DEF KnowledgeFacts, Steady
  <1>4. KnowledgeFacts(v)'
    BY <1>1, <1>2, <1>3 DEF KnowledgeFacts, Steady
  <1>5. /\ job[v] = "final" /\ pc[v] = "apply" /\ aged => goal[v] = matched /\ matched' = matched
        /\ job[v] = "retired" /\ pc[v] = "apply" => goal[v] = matched /\ matched' = matched
    BY <1>1 DEF StepFacts, Steady, Deferring
  <1>6. QED
    BY <1>1, <1>2, <1>4, <1>5 DEF StepFacts, Steady

LEMMA CoverStep ==
    ASSUME CoverInv, OneWayInv', NEW w \in Workers, OthersKept(w), Steady, aged' => aged,
           VenueFacts', RowFacts', PlacementFacts', KnowledgeFacts(w)', StepFacts(w)'
    PROVE  CoverInv'
  <1>1. \A v \in Workers : KnowledgeFacts(v)' /\ StepFacts(v)'
    BY RestsStays DEF OthersKept
  <1>2. Prompt'
    BY DEF CoverInv, Prompt
  <1>3. QED
    BY <1>1, <1>2 DEF CoverInv

LEMMA PlacementKept ==
    ASSUME CoverInv, NEW w \in Workers, OthersKept(w), pc'[w] # "place",
           status' \in Unsent => status \in Unsent /\ pc'[w] \in PreLabels \cup {"idle", "hold"},
           \A x \in Workers : x # w /\ pc[x] = "place" => status' = "SUBMITTING" /\ Held' /\ Waits(w)'
    PROVE  PlacementFacts'
  <1>1. status' \in Unsent => \A v \in Workers : pc'[v] \in PreLabels \cup {"idle", "hold"}
    BY DEF CoverInv, PlacementFacts, OthersKept, Rests
  <1>2. ASSUME NEW x \in Workers, pc'[x] = "place"
        PROVE  /\ status' = "SUBMITTING" /\ Held'
               /\ \A v \in Workers : v # x => Waits(v)'
    <2>1. x # w /\ pc[x] = "place"
      BY <1>2 DEF OthersKept, Rests
    <2>2. ASSUME NEW v \in Workers, v # x PROVE Waits(v)'
      <3>1. CASE v = w
        BY <2>1, <3>1
      <3>2. CASE v # w
        <4>1. Waits(v)
          BY <2>1, <2>2 DEF CoverInv, PlacementFacts
        <4>2. /\ pc'[v] = pc[v] /\ job'[v] = job[v]
              /\ copy'[v].fresh => copy[v].fresh
          BY <3>2 DEF OthersKept, Rests
        <4>3. QED
          BY <4>1, <4>2 DEF Waits
      <3>3. QED
        BY <3>1, <3>2
    <2>3. QED
      BY <2>1, <2>2
  <1>3. QED
    BY <1>1, <1>2 DEF PlacementFacts

\* Past the early labels the placement is neither pending nor impending.
LEMMA LateLabel ==
    ASSUME CoverInv, NEW w \in Workers,
           pc[w] \notin PreLabels \cup {"idle", "hold", "sync", "apply", "place"}
    PROVE  status \notin Unsent /\ \A x \in Workers : pc[x] # "place"
  BY DEF CoverInv, PlacementFacts, Waits

\* A step of a worker that writes neither the row nor the venue.
LEMMA LocalCover ==
    ASSUME CoverInv, OneWayInv', NEW w \in Workers, NEW l, Goto(w, l), UNCHANGED <<row, book, placed>>,
           res' = res \/ (res \in {"NONE", "ACTIVE", "RECONCILIATION_REQUIRED"} /\ Held'),
           UNCHANGED copy \/ Read(w),
           \A v \in Workers : v # w => job'[v] = job[v] /\ seen'[v] = seen[v] /\ goal'[v] = goal[v],
           l # "place",
           status \in Unsent => l \in PreLabels \cup {"idle", "hold"},
           \A x \in Workers : x # w /\ pc[x] = "place" => Waits(w)',
           seen'[w].state = "REJECTED" => venue = "refused",
           seen'[w].state = "CANCELLED" => venue \in {"cancelled", "gone"},
           StepFacts(w)'
    PROVE  CoverInv'
  <1>1. /\ pc'[w] = l /\ \A v \in Workers : v # w => pc'[v] = pc[v]
        /\ \A v \in Workers : v # w => copy'[v] = copy[v]
        /\ copy'[w] = copy[w] \/ (copy'[w].status = status /\ copy'[w].filled = filled)
    BY CoverTypes DEF Goto, Read
  <1>2. /\ UNCHANGED <<status, filled, aged>> /\ UNCHANGED <<venue, matched, listed, confirmed, expired>>
        /\ placed' = placed
    BY DEF row, book
  <1>3. OthersKept(w)
    BY <1>1 DEF OthersKept, Rests
  <1>4. Steady /\ (aged' => aged)
    BY <1>2, CoverTypes DEF Steady, Held
  <1>5. VenueFacts'
    BY <1>2 DEF CoverInv, VenueFacts, Dead
  <1>6. RowFacts'
    BY <1>2 DEF CoverInv, RowFacts, Dead, Held, CollateralCoversExposure, Exposed, Unsent
  <1>7. KnowledgeFacts(w)'
    BY <1>1, <1>2, CoverTypes DEF CoverInv, KnowledgeFacts
  <1>8. PlacementFacts'
    <2>1. \A x \in Workers : x # w /\ pc[x] = "place" => status' = "SUBMITTING" /\ Held' /\ Waits(w)'
      BY <1>2, Zenon DEF CoverInv, PlacementFacts, Held
    <2>2. QED
      BY <1>1, <1>2, <1>3, <2>1, PlacementKept, Zenon
  <1>9. QED
    BY <1>3, <1>4, <1>5, <1>6, <1>7, <1>8, CoverStep

LEMMA StaleSize ==
    ASSUME TypeInv, copy' = [v \in Workers |-> [copy[v] EXCEPT !.fresh = FALSE]]
    PROVE  \A v \in Workers : copy'[v].filled = copy[v].filled
  <1>1. ASSUME NEW c \in Copies PROVE [c EXCEPT !.fresh = FALSE].filled = c.filled
    BY Zenon DEF Copies
  <1>2. QED
    BY <1>1, LocalFacts, Zenon

\* What a write that can happen means for the row.
LEMMA WriteFacts ==
    ASSUME CoverInv, NEW w \in Workers, NEW t \in Statuses, CanWrite(w, t)
    PROVE  /\ copy[w].fresh /\ copy[w].status = status /\ CanTransitionTo(status, t)
           /\ Terminal(status) => t = status
           /\ t = "FILLED" => status = "FILLED"
           /\ t \in Unsent => status \in Unsent
  <1>1. copy[w].fresh /\ copy[w].status = status /\ copy[w].filled = filled /\ CanTransitionTo(status, t)
    BY CoverTypes DEF CanWrite, OneWayInv, PlacementInv
  <1>2. t = "FILLED" => filled = Size
    BY <1>1, CoverTypes DEF CanWrite, FillStateAllows
  <1>3. QED
    BY <1>1, <1>2, NoWayBack, TerminalIsKept, CoverTypes DEF OneWayInv

\* A write to the row, whatever becomes of it.
LEMMA WriteCover ==
    ASSUME CoverInv, OneWayInv', NEW w \in Workers, NEW t \in Statuses, NEW stamps \in BOOLEAN,
           NEW ok, NEW lost, Persist(w, t, stamps, ok, lost),
           pc[w] \notin {"idle", "hold", "sync", "apply", "place", "finalGet", "release"},
           pc[w] = "defer" => ok = "idle" /\ lost = "idle",
           CanWrite(w, t) => /\ t = "REJECTED" => venue \in {"none", "refused"}
                             /\ t = "CANCELLED" => Dead
                             /\ pc[w] \in PreLabels /\ t = "RESERVED" => Held,
           lost \in {"idle", "hold", "forceUnknown"},
           pc[w] \in PreLabels => lost # "forceUnknown" /\ ok \in PreLabels \cup {"idle", "hold", "release"},
           ok \notin {"place", "apply", "submitRejected", "finalGet", "applyRelease", "persistReserved", "defer"},
           ok \in PreLabels => t \in PreSubmit, ok = "revalidate" => t = "RESERVED",
           ok = "release" => t = "REJECTED",
           ok = "sync" => job[w] = "missing"
    PROVE  CoverInv'
  <1> USE CoverTypes
  <1>1. /\ UNCHANGED <<filled, res, venue, matched, listed, confirmed, expired, placed, job, seen, goal>>
        /\ aged' => aged
        /\ \A v \in Workers : v # w => pc'[v] = pc[v]
    <2>1. UNCHANGED <<filled, res, venue, matched, listed, confirmed, expired, placed, job, seen, goal>>
      BY Zenon DEF Persist, book
    <2>2. aged' => aged
      BY Zenon DEF Persist
    <2>3. pc' = [pc EXCEPT ![w] = ok] \/ pc' = [pc EXCEPT ![w] = lost]
      BY Zenon DEF Persist, Goto
    <2>4. QED
      BY <2>1, <2>2, <2>3
  <1>2. \/ /\ CanWrite(w, t) /\ status' = t /\ pc'[w] = ok /\ copy'[w].status = t /\ copy'[w].filled = copy[w].filled
        \/ pc'[w] = lost /\ status' = status /\ copy' = copy
        \/ /\ CanWrite(w, t) /\ status' = t /\ pc'[w] = lost /\ ~copy'[w].fresh
           /\ copy'[w].status = copy[w].status /\ copy'[w].filled = copy[w].filled
    <2>1. CASE CanWrite(w, t) /\ status' = t /\ copy' = Outdated(w, t) /\ Goto(w, ok)
      BY <2>1, WriterCopy, WriterSize DEF Goto
    <2>2. CASE Goto(w, lost) /\ UNCHANGED <<status, copy>>
      BY <2>2 DEF Goto
    <2>3. CASE /\ CanWrite(w, t) /\ status' = t /\ Goto(w, lost)
               /\ copy' = [v \in Workers |-> [copy[v] EXCEPT !.fresh = FALSE]]
      <3>1. copy'[w].filled = copy[w].filled
        BY <2>3, StaleSize
      <3>2. QED
        BY <2>3, <3>1, StaleCopies DEF Goto
    <2>4. QED
      BY <2>1, <2>2, <2>3 DEF Persist
  <1>3. OthersKept(w)
    <2>1. \A v \in Workers : v # w => /\ copy'[v].status = copy[v].status /\ copy'[v].filled = copy[v].filled
                                      /\ copy'[v].fresh => copy[v].fresh
      <3>1. CASE copy' = Outdated(w, t)
        BY <3>1, WriterCopy, WriterSize
      <3>2. CASE copy' = copy
        BY <3>2
      <3>3. CASE copy' = [v \in Workers |-> [copy[v] EXCEPT !.fresh = FALSE]]
        BY <3>3, StaleCopies, StaleSize
      <3>4. QED
        BY <3>1, <3>2, <3>3, Zenon DEF Persist
    <2>2. QED
      BY <1>1, <2>1 DEF OthersKept, Rests
  <1>4. /\ Terminal(status) => status' = status
        /\ status' = "FILLED" => status = "FILLED"
        /\ status' \in Unsent => status \in Unsent
    BY <1>2, WriteFacts
  <1>5. Steady
    BY <1>1, <1>4 DEF Steady, Ended, Terminal, TerminalStatuses
  <1>6. VenueFacts'
    BY <1>1 DEF CoverInv, VenueFacts, Dead
  <1>7. RowFacts'
    <2>1. /\ status' = "REJECTED" => venue \in {"none", "refused"}
          /\ status' = "CANCELLED" => Dead
      BY <1>2 DEF CoverInv, RowFacts
    <2>2. aged' => status' = "CANCELLED" /\ listed = matched
      BY <1>1, <1>4 DEF CoverInv, RowFacts, Terminal, TerminalStatuses
    <2>3. status' = "RESERVED" => Held
      <3>1. CASE pc[w] \in PreLabels
        BY <1>2, <3>1 DEF CoverInv, RowFacts
      <3>2. CASE pc[w] \notin PreLabels
        BY <1>4, <3>2, LateLabel DEF Unsent, PreSubmit
      <3>3. QED
        BY <3>1, <3>2
    <2>4. QED
      BY <1>1, <1>4, <2>1, <2>2, <2>3 DEF CoverInv, RowFacts, Dead, Held, CollateralCoversExposure, Exposed, Unsent
  <1>8. KnowledgeFacts(w)'
    <2>1. copy'[w].filled = copy[w].filled
      BY <1>2
    <2>2. copy'[w].status = "REJECTED" => status' = "REJECTED"
      BY <1>2, <1>4 DEF CoverInv, KnowledgeFacts, Terminal, TerminalStatuses
    <2>3. QED
      BY <1>1, <2>1, <2>2 DEF CoverInv, KnowledgeFacts
  <1>9. StepFacts(w)'
    <2>1. pc[w] # "idle" /\ StepFacts(w)
      BY DEF CoverInv
    <2>2. pc'[w] \notin {"place", "apply", "submitRejected", "finalGet", "applyRelease", "persistReserved", "defer"}
      BY <1>2
    <2>3. /\ pc'[w] \in PreLabels => copy'[w].status \in PreSubmit
          /\ pc'[w] = "revalidate" => copy'[w].status = "RESERVED"
      BY <1>2 DEF PreLabels
    <2>4. pc'[w] = "release" => status' = "REJECTED"
      BY <1>2
    <2>5. pc'[w] = "sync" => job[w] = "missing"
      BY <1>2
    <2>6. job[w] \in Deferring => status' \in Ended /\ copy'[w].status \in Ended
      BY <1>2, <1>4, <2>1 DEF StepFacts, Ended, Terminal, TerminalStatuses
    <2>7. job[w] \in Deferring => pc'[w] = "idle"
      BY <1>2, <2>1 DEF StepFacts
    <2>8. QED
      BY <1>1, <2>2, <2>3, <2>4, <2>5, <2>6, <2>7 DEF StepFacts
  <1>10. PlacementFacts'
    <2>1. pc'[w] # "place"
      BY <1>2
    <2>2. status' \in Unsent => status \in Unsent /\ pc'[w] \in PreLabels \cup {"idle", "hold"}
      <3>1. CASE pc[w] \in PreLabels
        BY <1>2, <1>4, <3>1 DEF Unsent, PreSubmit
      <3>2. CASE pc[w] \notin PreLabels
        BY <1>4, <3>2, LateLabel
      <3>3. QED
        BY <3>1, <3>2
    <2>3. ASSUME NEW x \in Workers, x # w, pc[x] = "place"
          PROVE  status' = "SUBMITTING" /\ Held' /\ Waits(w)'
      <3>1. status = "SUBMITTING" /\ Held /\ Waits(w)
        BY <2>3 DEF CoverInv, PlacementFacts
      <3>2. pc[w] \in PreLabels /\ ~copy[w].fresh
        BY <3>1 DEF Waits
      <3>3. ~CanWrite(w, t)
        BY <3>2, Zenon DEF CanWrite
      <3>4. status' = status /\ pc'[w] = lost
        BY <1>2, <3>3
      <3>5. QED
        BY <1>1, <3>1, <3>2, <3>4, Zenon DEF Waits, Held
    <2>4. QED
      BY <1>3, <2>1, <2>2, <2>3, PlacementKept
  <1>11. QED
    BY <1>1, <1>3, <1>5, <1>6, <1>7, <1>8, <1>9, <1>10, CoverStep
=============================================================================
