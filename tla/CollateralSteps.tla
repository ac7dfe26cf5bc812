-------------------------- MODULE CollateralSteps ---------------------------
(***************************************************************************)
(* The steps of a worker keep CoverInv, the invariant of HistoryProofs: what*)
(* it writes, what it decides by itself, what it does with the reservation *)
(* and what it books.                                                      *)
(***************************************************************************)
EXTENDS HistoryProofs

\* What a venue report says of the venue.
LEMMA ReportFacts ==
    ASSUME NEW r \in Reports
    PROVE  /\ r.state = "REJECTED" => venue = "refused"
           /\ r.state = "CANCELLED" => venue = "cancelled"
  BY DEF Reports, ReportedStates

LEMMA TargetFacts ==
    ASSUME CoverInv, NEW w \in Workers, NEW t \in {StatusFor(w), CancelTarget(w)}
    PROVE  /\ t = "REJECTED" => venue \in {"none", "refused"}
           /\ t = "CANCELLED" => Dead
  <1>1. seen[w].state \in {"REJECTED", "CANCELLED"} => Dead /\ (seen[w].state = "REJECTED" => venue = "refused")
    BY DEF CoverInv, KnowledgeFacts, Dead
  <1>2. \A u \in {"REJECTED", "CANCELLED"} : StatusFor(w) = u => seen[w].state = u
    BY DEF StatusFor, Working
  <1>3. \A u \in {"REJECTED", "CANCELLED"} : CancelTarget(w) = u => seen[w].state = u
    BY <1>2 DEF CancelTarget
  <1>4. QED
    BY <1>1, <1>2, <1>3

LEMMA EarlyWrites ==
    ASSUME CoverInv, OneWayInv', NEW w \in Workers,
           BeginValidation(w) \/ RejectOnly(w) \/ MarkReserved(w) \/ Revalidate(w) \/ RejectReserved(w)
    PROVE  CoverInv'
  <1>1. pc[w] \in PreLabels => copy[w].status \in PreSubmit
    BY DEF CoverInv, StepFacts
  <1>2. ASSUME pc[w] \in PreLabels, NEW t \in Statuses, CanWrite(w, t)
        PROVE  /\ status \in Unsent /\ venue \in {"none", "refused"}
               /\ res \in {"NONE", "ACTIVE", "RECONCILIATION_REQUIRED"}
    <2>1. status \in Unsent
      BY <1>1, <1>2, WriteFacts DEF Unsent
    <2>2. placed = 0
      BY <2>1, CoverTypes DEF PlacementInv
    <2>3. QED
      BY <2>1, <2>2 DEF CoverInv, VenueFacts, RowFacts
  <1>3. CASE BeginValidation(w)
    BY <1>3, WriteCover, WriteNames, Zenon DEF BeginValidation, At, PreLabels, PreSubmit
  <1>4. CASE RejectOnly(w)
    <2>1. pc[w] = "rejectOnly" /\ Persist(w, "REJECTED", FALSE, "idle", "idle")
      BY <1>4, Zenon DEF RejectOnly, At
    <2>2. CanWrite(w, "REJECTED") => venue \in {"none", "refused"}
      BY <1>2, <2>1, WriteNames DEF PreLabels
    <2>3. QED
      BY <2>1, <2>2, WriteCover, WriteNames, Zenon DEF PreLabels
  <1>5. CASE MarkReserved(w)
    <2>1. pc[w] = "persistReserved" /\ res # "NONE"
      BY <1>5 DEF MarkReserved, At, CoverInv, StepFacts
    <2>2. CanWrite(w, "RESERVED") => Held
      BY <1>2, <2>1, WriteNames DEF PreLabels, Held
    <2>3. PICK ok \in {"submitReserved", "revalidate"} : Persist(w, "RESERVED", FALSE, ok, "hold")
      BY <1>5, Zenon DEF MarkReserved
    <2>4. QED
      BY <2>1, <2>2, <2>3, WriteCover, WriteNames, Zenon DEF PreLabels, PreSubmit
  <1>6. CASE Revalidate(w)
    <2>1. pc[w] = "revalidate"
      BY <1>6 DEF Revalidate, At
    <2>2. CanWrite(w, "REJECTED") => venue \in {"none", "refused"}
      BY <1>2, <2>1, WriteNames DEF PreLabels
    <2>3. CanWrite(w, "RESERVED") => Held
      <3>1. SUFFICES ASSUME CanWrite(w, "RESERVED") PROVE Held
        OBVIOUS
      <3>2. copy[w].status = status
        BY <3>1, WriteFacts, WriteNames
      <3>3. QED
        BY <2>1, <3>2 DEF CoverInv, StepFacts, RowFacts
    <2>4. CASE Persist(w, "RESERVED", FALSE, "submitReserved", "idle")
      BY <2>1, <2>3, <2>4, WriteCover, WriteNames, Zenon DEF PreLabels, PreSubmit
    <2>5. CASE Persist(w, "REJECTED", FALSE, "release", "idle")
      BY <2>1, <2>2, <2>5, WriteCover, WriteNames, Zenon DEF PreLabels
    <2>6. QED
      BY <1>6, <2>4, <2>5, Zenon DEF Revalidate
  <1>7. CASE RejectReserved(w)
    <2>1. pc[w] = "submitReserved" /\ Persist(w, "REJECTED", FALSE, "release", "hold")
      BY <1>7, Zenon DEF RejectReserved, At
    <2>2. CanWrite(w, "REJECTED") => venue \in {"none", "refused"}
      BY <1>2, <2>1, WriteNames DEF PreLabels
    <2>3. QED
      BY <2>1, <2>2, WriteCover, WriteNames, Zenon DEF PreLabels
  <1>8. QED
    BY <1>3, <1>4, <1>5, <1>6, <1>7

LEMMA LateWrites ==
    ASSUME CoverInv, OneWayInv', NEW w \in Workers,
           \/ FinishRejected(w) \/ FinishUnknown(w) \/ FinishAcknowledged(w) \/ ApplyVenueState(w)
           \/ ForceUnknown(w) \/ MarkPending(w) \/ ForceRefresh(w) \/ StartReconcile(w) \/ FinishGet(w)
           \/ GiveUp(w) \/ FinishFailed(w) \/ FinishPending(w) \/ StartCancel(w) \/ FinishCancel(w)
           \/ FinishCancelUnknown(w)
    PROVE  CoverInv'
  <1>0. StatusFor(w) \in Statuses /\ CancelTarget(w) \in Statuses
    BY CoverTypes, TargetType
  <1>a. pc[w] = "submitRejected" => venue = "refused"
    BY DEF CoverInv, StepFacts, KnowledgeFacts
  <1> USE WriteCover, WriteNames DEF At, PreLabels
  <1>1. CASE FinishRejected(w)
    BY <1>1, <1>a, Zenon DEF FinishRejected
  <1>2. CASE FinishUnknown(w)
    BY <1>2, Zenon DEF FinishUnknown
  <1>3. CASE FinishAcknowledged(w)
    <2>1. PICK ok \in {"observed", "applyState"} : Persist(w, "ACKNOWLEDGED", TRUE, ok, "hold")
      BY <1>3, Zenon DEF FinishAcknowledged
    <2>2. QED
      BY <1>3, <2>1, Zenon DEF FinishAcknowledged
  <1>4. CASE ApplyVenueState(w)
    BY <1>0, <1>4, TargetFacts, Zenon DEF ApplyVenueState
  <1>5. CASE ForceUnknown(w)
    BY <1>5, Zenon DEF ForceUnknown
  <1>6. CASE MarkPending(w)
    BY <1>6, Zenon DEF MarkPending
  <1>7. CASE ForceRefresh(w)
    BY <1>7, Zenon DEF ForceRefresh
  <1>8. CASE StartReconcile(w)
    BY <1>8, Zenon DEF StartReconcile
  <1>9. CASE FinishGet(w)
    BY <1>0, <1>9, TargetFacts, Zenon DEF FinishGet
  <1>10. CASE GiveUp(w)
    BY <1>10, Zenon DEF GiveUp
  <1>11. CASE FinishFailed(w)
    <2>1. PICK ok \in {"sync", "hold"} : Persist(w, "UNKNOWN", TRUE, ok, "idle") /\ (ok = "sync" => job[w] = "missing")
      BY <1>11, Zenon DEF FinishFailed
    <2>2. QED
      BY <1>11, <2>1, Zenon DEF FinishFailed
  <1>12. CASE FinishPending(w)
    BY <1>12, Zenon DEF FinishPending
  <1>13. CASE StartCancel(w)
    BY <1>13, Zenon DEF StartCancel
  <1>14. CASE FinishCancel(w)
    BY <1>0, <1>14, TargetFacts, Zenon DEF FinishCancel
  <1>15. CASE FinishCancelUnknown(w)
    BY <1>15, Zenon DEF FinishCancelUnknown
  <1>16. QED
    BY <1>1, <1>2, <1>3, <1>4, <1>5, <1>6, <1>7, <1>8, <1>9, <1>10, <1>11, <1>12, <1>13, <1>14, <1>15, Zenon

\* deferCancellationFinality writes CANCELLED over CANCELLED.
LEMMA DeferCover ==
    ASSUME CoverInv, OneWayInv', NEW w \in Workers, Defer(w)
    PROVE  CoverInv'
  <1>1. pc[w] = "defer" /\ job[w] \in Deferring /\ status \in Ended /\ copy[w].status \in Ended
    BY DEF Defer, At, CoverInv, StepFacts
  <1>2. CASE Persist(w, "CANCELLED", FALSE, "idle", "idle")
    <2>1. CanWrite(w, "CANCELLED") => Dead
      BY <1>1, WriteFacts, WriteNames DEF Ended, Terminal, TerminalStatuses, CoverInv, RowFacts
    <2>2. QED
      BY <1>1, <1>2, <2>1, WriteCover, WriteNames, Zenon DEF PreLabels
  <1>3. CASE Goto(w, "idle") /\ UNCHANGED <<row, res, tries, book, placed, local, faults>>
    <2>1. pc'[w] = "idle" /\ UNCHANGED <<job, copy, seen, goal>>
      BY <1>3, CoverTypes DEF Goto, local
    <2>2. StepFacts(w)' /\ Waits(w)'
      BY <2>1 DEF StepFacts, Waits, PreLabels
    <2>3. QED
      BY <1>3, <2>1, <2>2, LocalCover DEF CoverInv, KnowledgeFacts
  <1>4. QED
    BY <1>2, <1>3, Zenon DEF Defer

\* The worker stops: a crash, or the end of its call.
LEMMA StopCover ==
    ASSUME CoverInv, OneWayInv', NEW w \in Workers, Goto(w, "idle"), UNCHANGED <<row, res, book, placed, local>>
    PROVE  CoverInv'
  <1>1. pc'[w] = "idle" /\ UNCHANGED <<job, copy, seen, goal>>
    BY CoverTypes DEF Goto, local
  <1>2. StepFacts(w)' /\ Waits(w)'
    BY <1>1 DEF StepFacts, Waits, PreLabels
  <1>3. QED
    BY <1>1, <1>2, LocalCover, Zenon DEF CoverInv, KnowledgeFacts

\* A late step of a worker outside FinalizeCancellation.
LEMMA LateLocal ==
    ASSUME CoverInv, OneWayInv', NEW w \in Workers, NEW l, Goto(w, l), UNCHANGED <<row, res, book, placed>>,
           UNCHANGED copy \/ Read(w),
           \A v \in Workers : v # w => job'[v] = job[v] /\ seen'[v] = seen[v] /\ goal'[v] = goal[v],
           pc[w] \notin PreLabels \cup {"idle", "hold", "sync", "apply", "place", "finalGet", "defer", "release"},
           job'[w] \notin Deferring \/ job'[w] = job[w],
           l \notin PreLabels \cup {"place", "apply", "finalGet", "defer"},
           l = "submitRejected" => seen'[w].state = "REJECTED",
           l = "release" => copy[w].status = "REJECTED",
           l = "applyRelease" => Read(w) /\ expired /\ matched = 0 /\ status = "UNKNOWN",
           seen'[w].state = "REJECTED" => venue = "refused",
           seen'[w].state = "CANCELLED" => venue \in {"cancelled", "gone"}
    PROVE  CoverInv'
  <1>1. status \notin Unsent /\ \A x \in Workers : pc[x] # "place"
    BY LateLabel
  <1>2. job'[w] \notin Deferring
    BY DEF CoverInv, StepFacts
  <1>3. pc'[w] = l /\ (Read(w) => copy'[w].status = status)
    BY CoverTypes DEF Goto, Read
  <1>4. /\ UNCHANGED <<status, filled, matched, venue, expired>>
        /\ copy[w].status = "REJECTED" => status = "REJECTED"
    BY DEF row, book, CoverInv, KnowledgeFacts
  <1>5. StepFacts(w)'
    <2>1. l \notin PreLabels /\ l \notin {"persistReserved", "revalidate"}
      BY DEF PreLabels
    <2>2. job'[w] \notin {"final", "retired"}
      BY <1>2 DEF Deferring
    <2>3. QED
      BY <1>2, <1>3, <1>4, <2>1, <2>2 DEF StepFacts
  <1>6. QED
    BY <1>1, <1>5, LocalCover

\* Steps before the placement that write nothing.
LEMMA EarlyLocal ==
    ASSUME CoverInv, OneWayInv', NEW w \in Workers, RefuseOrder(w) \/ ReserveAssets(w)
    PROVE  CoverInv'
  <1>1. /\ pc[w] = "validating" /\ UNCHANGED <<row, book, placed, job, copy, seen, goal>>
        /\ res' = res \/ (res = "NONE" /\ res' = "ACTIVE")
    BY DEF RefuseOrder, ReserveAssets, At, local
  <1>2. PICK l \in {"rejectOnly", "persistReserved"} : Goto(w, l) /\ (l = "persistReserved" => res' # "NONE")
    BY DEF RefuseOrder, ReserveAssets
  <1>3. pc'[w] = l
    BY <1>2, CoverTypes DEF Goto
  <1>4. StepFacts(w)'
    BY <1>1, <1>2, <1>3 DEF CoverInv, StepFacts, PreLabels, row, book
  <1>5. \A x \in Workers : x # w /\ pc[x] = "place" => Waits(w)'
    BY <1>1, <1>2, <1>3 DEF CoverInv, PlacementFacts, Waits, PreLabels
  <1>6. QED
    BY <1>1, <1>2, <1>4, <1>5, LocalCover DEF CoverInv, KnowledgeFacts, Held, PreLabels

LEMMA LateLocals ==
    ASSUME CoverInv, OneWayInv', NEW w \in Workers,
           \/ PlaceReturns(w) \/ ActOnObservation(w) \/ GetFound(w) \/ GetPending(w) \/ GetFails(w)
           \/ SyncDetails(w) \/ Evaluate(w) \/ CancelLost(w) \/ SettleCancel(w)
    PROVE  CoverInv'
  <1>0. KnowledgeFacts(w) /\ seen \in [Workers -> Views] /\ job \in [Workers -> Jobs]
    BY CoverTypes DEF CoverInv
  <1>1. CASE PlaceReturns(w)
    <2>1. CASE \E r \in Reports : /\ Observe(w, r)
                                  /\ Goto(w, IF r.state = "REJECTED" THEN "submitRejected" ELSE "acked")
      <3>1. PICK r \in Reports, l \in {"submitRejected", "acked"} :
                /\ Observe(w, r) /\ Goto(w, l) /\ (l = "submitRejected" => r.state = "REJECTED")
        BY <2>1
      <3>2. seen'[w] = r /\ \A v \in Workers : v # w => seen'[v] = seen[v]
        BY <1>0, <3>1 DEF Observe
      <3>3. QED
        BY <1>1, <3>1, <3>2, ReportFacts, LateLocal DEF PlaceReturns, At, PreLabels
    <2>2. CASE Goto(w, "submitUnknown") /\ UNCHANGED seen
      BY <1>0, <1>1, <2>2, LateLocal DEF PlaceReturns, At, PreLabels, KnowledgeFacts
    <2>3. QED
      BY <1>1, <2>1, <2>2 DEF PlaceReturns
  <1>2. CASE ActOnObservation(w) \/ SettleCancel(w)
    <2>1. ~CompletesIOC(w)
      BY DEF CoverInv, Prompt, CompletesIOC
    <2>2. PICK l : /\ Goto(w, l) /\ l \in {"sync", "hold", "idle", "release"}
                   /\ l = "release" => copy[w].status = "REJECTED"
      BY <1>2, <2>1 DEF ActOnObservation, SettleCancel, AfterObservation
    <2>3. UNCHANGED <<row, res, book, placed, job, copy, seen, goal>> /\ pc[w] \in {"observed", "settleCancel"}
      BY <1>2, <2>1 DEF ActOnObservation, SettleCancel, At, local
    <2>4. QED
      BY <1>0, <2>2, <2>3, LateLocal DEF PreLabels, KnowledgeFacts
  <1>3. CASE GetFound(w) \/ GetPending(w)
    <2>1. PICK r \in Reports, l \in {"finishGet", "getPending"} : Observe(w, r) /\ Goto(w, l)
      BY <1>3 DEF GetFound, GetPending
    <2>2. seen'[w] = r /\ \A v \in Workers : v # w => seen'[v] = seen[v]
      BY <1>0, <2>1 DEF Observe
    <2>3. UNCHANGED <<row, res, book, placed, job, copy, goal>> /\ pc[w] = "getting"
      BY <1>3 DEF GetFound, GetPending, At
    <2>4. QED
      BY <2>1, <2>2, <2>3, ReportFacts, LateLocal DEF PreLabels
  <1>4. CASE GetFails(w) \/ SyncDetails(w) \/ CancelLost(w)
    <2>1. PICK l \in {"giveUp", "getFailed", "sync", "cancelUnknown"} : Goto(w, l)
      BY <1>4 DEF GetFails, SyncDetails, CancelLost
    <2>2. /\ UNCHANGED <<row, res, book, placed, copy, seen, goal>> /\ pc[w] \in {"getting", "details", "cancelling"}
          /\ job' = job \/ job' = [job EXCEPT ![w] = "missing"] \/ job' = [job EXCEPT ![w] = "details"]
      BY <1>4 DEF GetFails, SyncDetails, CancelLost, At, local
    <2>3. /\ \A v \in Workers : v # w => job'[v] = job[v]
          /\ job'[w] = job[w] \/ job'[w] \notin Deferring
      BY <1>0, <2>2 DEF Deferring
    <2>4. QED
      BY <1>0, <2>1, <2>2, <2>3, LateLocal DEF PreLabels, KnowledgeFacts
  <1>5. CASE Evaluate(w)
    <2>1. UNCHANGED <<row, res, book, placed, job, seen, goal>> /\ pc[w] = "resolve" /\ Read(w)
      BY <1>5 DEF Evaluate, At
    <2>2. CASE ~Unaccepted
      BY <1>0, <1>5, <2>1, <2>2, LateLocal, Zenon DEF Evaluate, PreLabels, KnowledgeFacts
    <2>3. CASE Unaccepted
      <3>1. expired /\ status = "UNKNOWN" /\ listed = 0 /\ venue \in {"none", "flying", "refused", "gone"}
        BY <2>3 DEF Unaccepted, Absent
      <3>2. matched = 0
        BY <3>1, CoverTypes DEF CoverInv, VenueFacts, TypeInv
      <3>3. QED
        BY <1>0, <1>5, <2>1, <2>3, <3>1, <3>2, LateLocal, Zenon DEF Evaluate, PreLabels, KnowledgeFacts
    <2>4. QED
      BY <2>2, <2>3
  <1>6. QED
    BY <1>1, <1>2, <1>3, <1>4, <1>5

LEMMA HoldCover ==
    ASSUME CoverInv, OneWayInv', NEW w \in Workers, Hold(w)
    PROVE  CoverInv'
  <1>1. /\ pc[w] = "hold" /\ UNCHANGED <<row, book, placed, job, copy, seen, goal>>
        /\ res' = res \/ (Held /\ Held')
    BY DEF Hold, At, local, Held
  <1>2. Goto(w, IF job[w] \in Deferring THEN "defer" ELSE "idle")
    BY DEF Hold
  <1>3. pc'[w] = IF job[w] \in Deferring THEN "defer" ELSE "idle"
    BY <1>2, CoverTypes DEF Goto
  <1>4. /\ StepFacts(w) /\ KnowledgeFacts(w)
        /\ job[w] \in Deferring => status \in Ended /\ copy[w].status \in Ended
    BY <1>1 DEF CoverInv, StepFacts
  <1>5. StepFacts(w)'
    BY <1>1, <1>3, <1>4 DEF StepFacts, PreLabels, row
  <1>6. job[w] \in Deferring => status \notin Unsent /\ \A x \in Workers : pc[x] # "place"
    BY <1>4 DEF Ended, Unsent, PreSubmit, CoverInv, PlacementFacts
  <1>7. \A x \in Workers : x # w /\ pc[x] = "place" => Waits(w)'
    BY <1>3, <1>6 DEF Waits
  <1>8. res' = res \/ (res \in {"NONE", "ACTIVE", "RECONCILIATION_REQUIRED"} /\ Held')
    BY <1>1 DEF Held
  <1>9. QED
    BY <1>1, <1>2, <1>4, <1>5, <1>6, <1>7, <1>8, LocalCover, SMTT(30) DEF KnowledgeFacts

\* Collateral goes back only where the order is dead and completely booked.
LEMMA ReleaseCover ==
    ASSUME CoverInv, OneWayInv', NEW w \in Workers, Release(w)
    PROVE  CoverInv'
  <1>1. /\ pc[w] = "release" /\ UNCHANGED <<row, book, placed, job, copy, seen, goal>>
        /\ res' = res \/ (res # "NONE" /\ res' = "RELEASED")
    BY DEF Release, At, local, Releasable
  <1>2. PICK l \in {"idle", "hold"} : Goto(w, l)
    BY DEF Release
  <1>3. pc'[w] = l /\ \A v \in Workers : v # w => pc'[v] = pc[v]
    BY <1>2, CoverTypes DEF Goto
  <1>4. status = "REJECTED" \/ (status = "CANCELLED" /\ matched = filled)
    BY <1>1 DEF CoverInv, StepFacts
  <1>5. ~Exposed
    <2>1. Dead /\ (status = "REJECTED" => matched = 0)
      BY <1>4, CoverTypes DEF CoverInv, RowFacts, VenueFacts, Dead, TypeInv
    <2>2. QED
      BY <1>4, <2>1, CoverTypes DEF Exposed, Dead
  <1>6. /\ UNCHANGED <<status, filled, aged, venue, matched, listed, confirmed, expired, placed>>
    BY <1>1 DEF row, book
  <1>7. OthersKept(w)
    BY <1>1, <1>3 DEF OthersKept, Rests
  <1>8. Steady /\ (aged' => aged)
    BY <1>1, <1>6, CoverTypes DEF Steady
  <1>9. VenueFacts'
    BY <1>6 DEF CoverInv, VenueFacts, Dead
  <1>10. RowFacts'
    BY <1>4, <1>5, <1>6 DEF CoverInv, RowFacts, Dead, Exposed, CollateralCoversExposure, Unsent, PreSubmit
  <1>11. KnowledgeFacts(w)'
    BY <1>1, <1>6 DEF CoverInv, KnowledgeFacts
  <1>12. StepFacts(w)'
    BY <1>1, <1>2, <1>3, <1>6 DEF CoverInv, StepFacts, PreLabels
  <1>13. PlacementFacts'
    BY <1>2, <1>3, <1>4, <1>6, <1>7, PlacementKept, Zenon DEF CoverInv, PlacementFacts, Unsent, PreSubmit
  <1>14. QED
    BY <1>7, <1>8, <1>9, <1>10, <1>11, <1>12, <1>13, CoverStep

LEMMA ListFillsCover ==
    ASSUME CoverInv, OneWayInv', NEW w \in Workers, ListFills(w)
    PROVE  CoverInv'
  <1>1. /\ pc[w] = "sync" /\ UNCHANGED <<row, res, book, placed, job, copy, seen>> /\ Goto(w, "apply")
        /\ goal' = [goal EXCEPT ![w] = listed]
    BY DEF ListFills, At
  <1>2. /\ pc'[w] = "apply" /\ goal'[w] = listed /\ \A v \in Workers : v # w => goal'[v] = goal[v]
        /\ UNCHANGED <<status, filled, aged, venue, matched, listed, expired>>
    BY <1>1, CoverTypes DEF Goto, row, book
  <1>3. StepFacts(w) /\ KnowledgeFacts(w) /\ (aged => listed = matched) /\ (venue = "gone" => listed = matched)
    BY DEF CoverInv, RowFacts, VenueFacts
  <1>4. StepFacts(w)'
    BY <1>1, <1>2, <1>3, Zenon DEF StepFacts, PreLabels
  <1>5. status \notin Unsent
    BY <1>1 DEF CoverInv, PlacementFacts, PreLabels
  <1>6. \A x \in Workers : x # w /\ pc[x] = "place" => Waits(w)'
    BY <1>1, <1>2, Zenon DEF CoverInv, PlacementFacts, Waits, PreLabels
  <1>7. QED
    BY <1>1, <1>2, <1>3, <1>4, <1>5, <1>6, LocalCover, Zenon DEF KnowledgeFacts

\* Where a synchronization leads, and what a release after it rests on.
LEMMA AfterSyncFacts ==
    ASSUME NEW w \in Workers, NEW e \in {"complete", "pending", "failed"}
    PROVE  LET l == AfterSync(w, e)
           IN  /\ l \in {"idle", "hold", "resolve", "markPending", "defer", "release"}
               /\ job[w] = "fills" => l = "idle"
               /\ job[w] \in Deferring => l \in {"idle", "hold", "defer", "release"}
               /\ l = "defer" => job[w] = "final"
               /\ l = "release" =>
                    \/ status = "REJECTED"
                    \/ job[w] = "final" /\ e = "complete" /\ status = "CANCELLED" /\ aged
                    \/ job[w] = "retired" /\ e = "complete" /\ status = "CANCELLED" /\ goal[w] = filled
  BY DEF AfterSync, Deferring, GraceElapsed

LEMMA EndSyncCover ==
    ASSUME CoverInv, OneWayInv', NEW w \in Workers, EndSync(w)
    PROVE  CoverInv'
  <1>1. PICK e \in {"complete", "pending", "failed"} :
            /\ Goto(w, AfterSync(w, e)) /\ pc[w] \in {"sync", "apply"}
            /\ e = "complete" => pc[w] = "apply" /\ filled >= goal[w]
    BY Zenon DEF EndSync, At
  <1>2. PICK l : l = AfterSync(w, e)
    OBVIOUS
  <1>3. /\ l \in {"idle", "hold", "resolve", "markPending", "defer", "release"}
        /\ job[w] = "fills" => l = "idle"
        /\ job[w] \in Deferring => l \in {"idle", "hold", "defer", "release"}
        /\ l = "defer" => job[w] = "final"
        /\ l = "release" =>
             \/ status = "REJECTED"
             \/ job[w] = "final" /\ e = "complete" /\ status = "CANCELLED" /\ aged
             \/ job[w] = "retired" /\ e = "complete" /\ status = "CANCELLED" /\ goal[w] = filled
    BY <1>2, AfterSyncFacts
  <1>4. Goto(w, l) /\ Read(w) /\ UNCHANGED <<row, res, book, placed, job, seen, goal>>
    BY <1>1, <1>2 DEF EndSync
  <1>5. /\ pc'[w] = l /\ copy'[w].status = status
        /\ UNCHANGED <<status, filled, aged, venue, matched, listed, expired>>
    BY <1>4, CoverTypes DEF Goto, Read, row, book
  <1>6. StepFacts(w) /\ KnowledgeFacts(w)
    BY DEF CoverInv
  <1>7. l = "release" => status = "REJECTED" \/ (status = "CANCELLED" /\ matched = filled)
    BY <1>1, <1>3, <1>6, CoverTypes DEF StepFacts
  <1>8. StepFacts(w)'
    <2>1. job[w] \in Deferring => status \in Ended
      BY <1>1, <1>6 DEF StepFacts
    <2>2. l \notin PreLabels
      BY <1>3 DEF PreLabels
    <2>3. l = "defer" => job[w] \in Deferring
      BY <1>3 DEF Deferring
    <2>4. QED
      BY <1>3, <1>4, <1>5, <1>7, <2>1, <2>2, <2>3 DEF StepFacts
  <1>9. status \notin Unsent
    BY <1>1 DEF CoverInv, PlacementFacts, PreLabels
  <1>10. \A x \in Workers : x # w /\ pc[x] = "place" => Waits(w)'
    BY <1>1, <1>3, <1>5 DEF CoverInv, PlacementFacts, Waits, PreLabels
  <1>11. QED
    BY <1>3, <1>4, <1>6, <1>8, <1>9, <1>10, LocalCover, ZenonT(40) DEF KnowledgeFacts

\* One trade is booked: an order that cancels itself is off the book, and a
\* completely filled one has nothing left to cover.
LEMMA ApplyFillCover ==
    ASSUME CoverInv, OneWayInv', NEW w \in Workers, ApplyFill(w)
    PROVE  CoverInv'
  <1>1. /\ pc[w] = "apply" /\ filled < goal[w] /\ FillBookable
        /\ filled' = filled + 1 /\ status' = FillTarget /\ aged' = FALSE
        /\ copy' = [v \in Workers |-> [copy[v] EXCEPT !.fresh = FALSE]]
        /\ job' = [job EXCEPT ![w] = IF @ = "retired" THEN "retiredApplied" ELSE @]
        /\ UNCHANGED <<venue, matched, listed, confirmed, expired, placed, pc, seen, goal>>
    BY DEF ApplyFill, At, book
  <1>2. res' = CASE FillTarget = "FILLED" -> "SETTLED"
                 [] FillTarget = "PARTIALLY_FILLED" -> "ACTIVE"
                 [] OTHER -> "RECONCILIATION_REQUIRED"
    BY DEF ApplyFill
  <1>3. filled < matched /\ filled < Size /\ filled + 1 <= matched /\ matched > 0
    BY <1>1, CoverTypes
  <1>4. venue \notin {"none", "flying", "refused"} /\ placed # 0
    BY <1>3, CoverTypes DEF CoverInv, VenueFacts, TypeInv
  <1>5. status \notin Unsent /\ \A x \in Workers : pc[x] # "place"
    BY <1>4, CoverTypes DEF PlacementInv
  <1>6. status # "REJECTED" /\ status # "FILLED"
    BY <1>3, <1>4, CoverTypes DEF CoverInv, RowFacts
  <1>7. /\ status' \in {"FILLED", "MANUAL_REVIEW", "CANCELLED", "PARTIALLY_FILLED"}
        /\ status' = "FILLED" <=> filled + 1 = Size
        /\ status = "CANCELLED" => status' \in Ended
        /\ status' = "CANCELLED" => status = "CANCELLED" \/ Kind # "GTC"
    BY <1>1 DEF FillTarget, Ended
  <1>8. status' = "CANCELLED" => Dead
    <2>1. Kind # "GTC" => Kind = "IOC"
      BY ExecutionConstants DEF CoverInv, Prompt, Kinds
    <2>2. QED
      BY <1>4, <1>7, <2>1 DEF CoverInv, VenueFacts, RowFacts, Dead
  <1>9. /\ status' = "FILLED" => res' = "SETTLED"
        /\ status' # "FILLED" => Held'
    BY <1>1, <1>2 DEF Held
  <1>10. \A v \in Workers : ~copy'[v].fresh /\ copy'[v].status = copy[v].status /\ copy'[v].filled = copy[v].filled
    BY <1>1, CoverTypes, StaleCopies, StaleSize
  <1>11. job'[w] # "retired" /\ (job'[w] \in Deferring => job[w] \in Deferring)
         /\ (job'[w] # job[w] => job'[w] = "retiredApplied") /\ \A v \in Workers : v # w => job'[v] = job[v]
    BY <1>1, CoverTypes DEF Deferring
  <1>12. OthersKept(w)
    BY <1>1, <1>10, <1>11 DEF OthersKept, Rests
  <1>13. Steady
    BY <1>1, <1>3, <1>6, <1>7, <1>9, CoverTypes DEF Steady, Ended, Held
  <1>14. VenueFacts'
    BY <1>1 DEF CoverInv, VenueFacts, Dead
  <1>15. RowFacts'
    <2>1. (Exposed => Held)'
      <3>1. CASE status' = "FILLED"
        <4>1. matched = Size /\ venue \notin {"flying", "open"} /\ filled' = Size
          BY <1>1, <1>3, <1>4, <1>7, <3>1, CoverTypes DEF TypeInv
        <4>2. QED
          BY <1>1, <4>1, CoverTypes DEF Exposed
      <3>2. CASE status' # "FILLED"
        BY <1>9, <3>2
      <3>3. QED
        BY <3>1, <3>2
    <2>2. QED
      BY <1>1, <1>7, <1>8, <1>9, <2>1 DEF RowFacts, Dead, CollateralCoversExposure, Unsent, PreSubmit
  <1>16. KnowledgeFacts(w)'
    BY <1>1, <1>6, <1>10, CoverTypes DEF CoverInv, KnowledgeFacts
  <1>17. StepFacts(w)'
    <2>1. StepFacts(w) /\ pc'[w] = "apply"
      BY <1>1 DEF CoverInv
    <2>2. job'[w] \in Deferring => status' \in Ended /\ copy'[w].status \in Ended
      BY <1>1, <1>6, <1>7, <1>10, <1>11, <2>1 DEF StepFacts, Ended
    <2>3. QED
      BY <1>1, <1>11, <2>1, <2>2 DEF StepFacts, PreLabels
  <1>18. PlacementFacts'
    BY <1>1, <1>5, <1>7, <1>12, PlacementKept DEF Unsent, PreSubmit
  <1>19. QED
    BY <1>1, <1>12, <1>13, <1>14, <1>15, <1>16, <1>17, <1>18, CoverStep

LEMMA ApplyReleaseCover ==
    ASSUME CoverInv, OneWayInv', NEW w \in Workers, ApplyRelease(w)
    PROVE  CoverInv'
  <1>1. /\ pc[w] = "applyRelease"
        /\ UNCHANGED <<filled, aged, venue, matched, listed, confirmed, expired, placed, job, seen, goal>>
    BY DEF ApplyRelease, At, book
  <1>2. status \notin Unsent /\ \A x \in Workers : pc[x] # "place"
    BY <1>1, LateLabel DEF PreLabels
  <1>3. job[w] \notin Deferring
    BY <1>1 DEF CoverInv, StepFacts
  <1>4. CASE /\ copy[w].fresh /\ status' = "CANCELLED" /\ res' = "RELEASED"
             /\ copy' = Outdated(w, "CANCELLED") /\ Goto(w, "idle")
    <2>1. /\ expired /\ matched = 0 /\ status = "UNKNOWN"
      BY <1>1, <1>4, CoverTypes, Zenon DEF CoverInv, StepFacts, PlacementInv
    <2>2. Dead /\ filled = 0 /\ ~aged
      BY <2>1, CoverTypes DEF CoverInv, VenueFacts, RowFacts
    <2>3. \A v \in Workers : v # w => ~copy'[v].fresh /\ copy'[v].status = copy[v].status
      BY <1>4, CoverTypes, WriterCopy, WriteNames
    <2>4. copy'[w].status = "CANCELLED" /\ \A v \in Workers : copy'[v].filled = copy[v].filled
      BY <1>4, CoverTypes, WriterCopy, WriterSize, WriteNames
    <2>5. pc'[w] = "idle" /\ \A v \in Workers : v # w => pc'[v] = pc[v]
      BY <1>4, CoverTypes DEF Goto
    <2>6. OthersKept(w)
      BY <1>1, <2>3, <2>4, <2>5 DEF OthersKept, Rests
    <2>7. Steady
      BY <1>1, <1>4, <2>1, CoverTypes DEF Steady, Ended
    <2>8. VenueFacts'
      BY <1>1 DEF CoverInv, VenueFacts, Dead
    <2>9. RowFacts'
      BY <1>1, <1>4, <2>1, <2>2 DEF RowFacts, Dead, CollateralCoversExposure, Exposed, Unsent, PreSubmit
    <2>10. KnowledgeFacts(w)'
      BY <1>1, <2>4 DEF CoverInv, KnowledgeFacts
    <2>11. StepFacts(w)'
      BY <1>1, <1>3, <2>5 DEF StepFacts, PreLabels
    <2>12. PlacementFacts'
      BY <1>2, <1>4, <2>5, <2>6, PlacementKept DEF Unsent, PreSubmit
    <2>13. QED
      BY <1>1, <2>6, <2>7, <2>8, <2>9, <2>10, <2>11, <2>12, CoverStep
  <1>5. CASE UNCHANGED <<status, res, known, copy>> /\ Goto(w, "hold")
    <2>1. UNCHANGED <<row, res, book, placed, job, copy, seen, goal>>
      BY <1>1, <1>5 DEF row, book
    <2>2. QED
      BY <1>1, <1>5, <2>1, LateLocal, Zenon DEF PreLabels, CoverInv, KnowledgeFacts
  <1>6. QED
    BY <1>4, <1>5, SMTT(30) DEF ApplyRelease
=============================================================================
