-------------------------- MODULE ExecutionProofs ---------------------------
(***************************************************************************)
(* The order's life, for any number of workers, any size, any budget of    *)
(* faults and every kind of order: the types, and the placement is sent at *)
(* most once.                                                              *)
(***************************************************************************)
EXTENDS Execution, TLAPS

Statuses == OrderStatuses \cup {"NONE"}
Copies == [status : Statuses, filled : 0..Size, fresh : BOOLEAN]
Views == [state : Statuses, matched : 0..Size]

\* What the types rest on: a trade list never holds more than was confirmed,
\* and an order on the book is not completely matched.
TypeInv ==
    /\ TypeOK
    /\ \A w \in Workers : goal[w] <= confirmed
    /\ venue = "open" => matched < Size
    /\ venue \in {"none", "flying"} => matched = 0

-----------------------------------------------------------------------------
(* Types.                                                                  *)

LEMMA TypeInvInit == Init => TypeInv
  <1> SUFFICES ASSUME Init PROVE TypeInv
    OBVIOUS
  <1>1. 0 \in 0..Size /\ 0 \in 0..MaxReconcile /\ 0 \in 0..MaxFaults /\ 0 \in Nat /\ 0 <= 0
    BY ExecutionConstants
  <1>2. copy \in [Workers -> Copies] /\ seen \in [Workers -> Views]
    BY <1>1, Zenon DEF Init, Copies, Views, Statuses, NoView
  <1>3. pc \in [Workers -> Labels] /\ job \in [Workers -> Jobs]
    BY DEF Init, Labels, Jobs
  <1>4. QED
    BY <1>1, <1>2, <1>3, Zenon DEF Init, TypeInv, TypeOK, VenueStates, Copies, Views, Statuses

\* The counters of failed reconciliations stay within their bound.
LEMMA SaturatedType ==
    ASSUME NEW n \in 0..MaxReconcile
    PROVE  Saturated(n) \in 0..MaxReconcile
  BY ExecutionConstants DEF Saturated

LEMMA OutdatedType ==
    ASSUME copy \in [Workers -> Copies], NEW w \in Workers, NEW t \in Statuses
    PROVE  /\ Outdated(w, t) \in [Workers -> Copies]
           /\ [v \in Workers |-> [copy[v] EXCEPT !.fresh = FALSE]] \in [Workers -> Copies]
  <1>1. ASSUME NEW c \in Copies
        PROVE  [c EXCEPT !.status = t] \in Copies /\ [c EXCEPT !.fresh = FALSE] \in Copies
    BY Zenon DEF Copies
  <1>2. \A v \in Workers : copy[v] \in Copies
    OBVIOUS
  <1> HIDE DEF Copies
  <1>3. QED
    BY <1>1, <1>2, Zenon DEF Outdated

LEMMA PersistType ==
    ASSUME TypeInv, NEW w \in Workers, NEW t \in Statuses, NEW stamps \in BOOLEAN,
           NEW ok \in Labels, NEW lost \in Labels, Persist(w, t, stamps, ok, lost),
           tries' \in 0..MaxReconcile
    PROVE  TypeInv'
  <1>1. copy \in [Workers -> Copies]
    BY DEF TypeInv, TypeOK, Copies, Statuses
  <1>2. /\ copy' = copy \/ copy' = Outdated(w, t)
           \/ copy' = [v \in Workers |-> [copy[v] EXCEPT !.fresh = FALSE]]
        /\ status' \in {status, t} /\ known' \in BOOLEAN /\ aged' \in BOOLEAN
        /\ pc' = [pc EXCEPT ![w] = ok] \/ pc' = [pc EXCEPT ![w] = lost]
        /\ faults' = faults \/ Fault
        /\ UNCHANGED <<filled, res, book, placed, job, seen, goal>>
    BY Zenon DEF Persist, Goto, TypeInv, TypeOK
  <1>3. copy' \in [Workers -> Copies]
    BY <1>1, <1>2, OutdatedType
  <1>4. pc' \in [Workers -> Labels]
    BY <1>2, Zenon DEF TypeInv, TypeOK
  <1>5. faults' \in 0..MaxFaults
    BY <1>2, ExecutionConstants DEF Fault, TypeInv, TypeOK
  <1>6. QED
    BY <1>2, <1>3, <1>4, <1>5 DEF TypeInv, TypeOK, book, Copies, Statuses

\* What a venue report, a copy and a reread order lead to.
LEMMA ReportsType ==
    ASSUME TypeInv, NEW r \in Reports
    PROVE  r \in Views
  <1>1. PICK n \in {listed, matched} : r \in [state : ReportedStates(n), matched : {n}]
    BY DEF Reports
  <1>2. ReportedStates(n) \subseteq Statuses
    BY DEF ReportedStates, Statuses, OrderStatuses, PreSubmit, Working, TerminalStatuses
  <1>3. n \in 0..Size
    BY DEF TypeInv, TypeOK
  <1>4. QED
    BY <1>1, <1>2, <1>3 DEF Views

LEMMA TargetType ==
    ASSUME TypeInv, NEW w \in Workers
    PROVE  StatusFor(w) \in Statuses /\ CancelTarget(w) \in Statuses
  <1>1. seen[w].state \in Statuses
    BY DEF TypeInv, TypeOK, Statuses
  <1>2. StatusFor(w) \in Statuses
    BY <1>1 DEF StatusFor, Statuses, OrderStatuses, Working, TerminalStatuses
  <1>3. QED
    BY <1>2 DEF CancelTarget, Statuses, OrderStatuses

LEMMA LabelType ==
    ASSUME NEW w \in Workers, NEW e
    PROVE  AfterSync(w, e) \in Labels /\ AfterObservation(w) \in Labels
  BY DEF AfterSync, AfterObservation, Labels

LEMMA ReadType ==
    ASSUME TypeInv, NEW w \in Workers, Read(w)
    PROVE  copy' \in [Workers -> Copies]
  <1>1. copy \in [Workers -> Copies] /\ status \in Statuses /\ filled \in 0..Size
    BY DEF TypeInv, TypeOK, Copies, Statuses
  <1>2. [status |-> status, filled |-> filled, fresh |-> TRUE] \in Copies
    BY <1>1, Zenon DEF Copies
  <1>3. QED
    BY <1>1, <1>2 DEF Read

LEMMA ObserveType ==
    ASSUME TypeInv, NEW w \in Workers, NEW r \in Views, Observe(w, r)
    PROVE  seen' \in [Workers -> Views]
  BY DEF TypeInv, TypeOK, Observe, Views, Statuses

LEMMA GotoType ==
    ASSUME TypeInv, NEW w \in Workers, NEW l \in Labels, Goto(w, l)
    PROVE  pc' \in [Workers -> Labels]
  BY DEF TypeInv, TypeOK, Goto

LEMMA FaultType ==
    ASSUME TypeInv, Fault
    PROVE  faults' \in 0..MaxFaults
  BY ExecutionConstants DEF TypeInv, TypeOK, Fault

LEMMA BeginType ==
    ASSUME TypeInv, NEW w \in Workers, NEW j \in Jobs, NEW l \in Labels, Begin(w, j, l),
           confirmed' = confirmed
    PROVE  /\ job' \in [Workers -> Jobs] /\ seen' \in [Workers -> Views]
           /\ goal' \in [Workers -> 0..Size] /\ \A v \in Workers : goal'[v] <= confirmed'
           /\ pc' \in [Workers -> Labels]
  <1>1. pc' \in [Workers -> Labels] /\ job' \in [Workers -> Jobs]
    BY DEF Begin, Goto, TypeInv, TypeOK
  <1>2. goal' \in [Workers -> 0..Size] /\ \A v \in Workers : goal'[v] <= confirmed'
    BY ExecutionConstants DEF Begin, TypeInv, TypeOK
  <1>3. NoView \in Views
    BY ExecutionConstants DEF NoView, Views, Statuses
  <1>4. seen' \in [Workers -> Views]
    BY <1>3 DEF Begin, TypeInv, TypeOK, Views, Statuses
  <1>5. QED
    BY <1>1, <1>2, <1>4

\* The labels and statuses the writing steps name.
LEMMA WriteNames ==
    /\ \A l \in {"idle", "validating", "submitReserved", "revalidate", "hold", "release", "place",
                 "observed", "applyState", "forceUnknown", "startReconcile", "getting", "sync",
                 "details", "cancelling", "settleCancel"} : l \in Labels
    /\ \A t \in {"VALIDATING", "REJECTED", "RESERVED", "SUBMITTING", "UNKNOWN", "ACKNOWLEDGED",
                 "CANCELLED", "RECONCILING", "MANUAL_REVIEW", "CANCEL_PENDING"} : t \in Statuses
  BY DEF Labels, Statuses, OrderStatuses, PreSubmit, Working, TerminalStatuses

LEMMA WriteType ==
    ASSUME TypeInv, NEW w \in Workers, NEW t \in Statuses, NEW stamps \in BOOLEAN,
           NEW ok \in Labels, NEW lost \in Labels, Persist(w, t, stamps, ok, lost),
           UNCHANGED tries
    PROVE  TypeInv'
  BY PersistType DEF TypeInv, TypeOK

\* A step of a worker that writes neither the order nor the venue.
LEMMA LocalType ==
    ASSUME TypeInv, UNCHANGED <<row, book, placed>>,
           res' \in {"NONE", "ACTIVE", "RECONCILIATION_REQUIRED", "RELEASED", "SETTLED"},
           tries' \in 0..MaxReconcile, faults' \in 0..MaxFaults,
           pc' \in [Workers -> Labels], job' \in [Workers -> Jobs], copy' \in [Workers -> Copies],
           seen' \in [Workers -> Views], goal' \in [Workers -> 0..Size],
           \A v \in Workers : goal'[v] <= confirmed
    PROVE  TypeInv'
  BY DEF TypeInv, TypeOK, row, book, Copies, Views, Statuses

\* What a worker's step that writes nothing may rely on.
LEMMA LocalFacts ==
    ASSUME TypeInv
    PROVE  /\ res \in {"NONE", "ACTIVE", "RECONCILIATION_REQUIRED", "RELEASED", "SETTLED"}
           /\ tries \in 0..MaxReconcile /\ faults \in 0..MaxFaults
           /\ pc \in [Workers -> Labels] /\ job \in [Workers -> Jobs]
           /\ copy \in [Workers -> Copies] /\ seen \in [Workers -> Views]
           /\ goal \in [Workers -> 0..Size] /\ \A v \in Workers : goal[v] <= confirmed
  BY DEF TypeInv, TypeOK, Copies, Views, Statuses

LEMMA CallsType ==
    ASSUME TypeInv, NEW w \in Workers, Calls(w)
    PROVE  TypeInv'
  <1> USE LocalFacts
  <1>1. CASE Submit(w)
    <2>1. /\ job' \in [Workers -> Jobs] /\ seen' \in [Workers -> Views]
          /\ goal' \in [Workers -> 0..Size] /\ \A v \in Workers : goal'[v] <= confirmed'
          /\ pc' \in [Workers -> Labels]
      BY <1>1, BeginType, ZenonT(30) DEF Submit, book, Jobs, Labels
    <2>2. "RECEIVED" \in Statuses /\ 0 \in 0..Size
      BY ExecutionConstants DEF Statuses, OrderStatuses, PreSubmit
    <2>3. [status |-> "RECEIVED", filled |-> 0, fresh |-> TRUE] \in Copies
      BY <2>2, Zenon DEF Copies
    <2>4. copy' \in [Workers -> Copies]
      BY <1>1, <2>3 DEF Submit
    <2>5. QED
      BY <1>1, <2>1, <2>2, <2>4, SMTT(30) DEF Submit, TypeInv, TypeOK, book, Copies, Views, Statuses
  <1>2. CASE Resume(w)
    <2>1. PICK l \in Labels : Begin(w, "resume", l)
      BY <1>2 DEF Resume, Labels, PreSubmit
    <2>2. QED
      BY <1>2, <2>1, BeginType, ReadType, LocalType DEF Resume, book, Jobs
  <1>3. CASE Refresh(w)
    <2>1. PICK l \in Labels : Begin(w, "refresh", l)
      BY <1>3 DEF Refresh, Labels
    <2>2. QED
      BY <1>3, <2>1, BeginType, ReadType, LocalType DEF Refresh, book, Jobs
  <1>4. CASE Cancel(w)
    <2>1. "cancelStart" \in Labels /\ "cancel" \in Jobs
      BY DEF Labels, Jobs
    <2>2. QED
      BY <1>4, <2>1, BeginType, ReadType, LocalType DEF Cancel, book
  <1>5. CASE Finalize(w)
    <2>1. PICK j \in Jobs, l \in Labels : Begin(w, j, l)
      BY <1>5 DEF Finalize, Labels, Jobs
    <2>2. QED
      BY <1>5, <2>1, BeginType, ReadType, LocalType DEF Finalize, book
  <1>6. CASE SyncFills(w)
    <2>1. "sync" \in Labels /\ "fills" \in Jobs
      BY DEF Labels, Jobs
    <2>2. QED
      BY <1>6, <2>1, BeginType, LocalType DEF SyncFills, book
  <1>7. QED
    BY <1>1, <1>2, <1>3, <1>4, <1>5, <1>6 DEF Calls

LEMMA SubmittingType ==
    ASSUME TypeInv, NEW w \in Workers, Submitting(w)
    PROVE  TypeInv'
  <1> USE LocalFacts
  <1>1. CASE BeginValidation(w)
    BY <1>1, WriteType, WriteNames, Zenon DEF BeginValidation
  <1>2. CASE RefuseOrder(w)
    BY <1>2, GotoType, LocalType, SMTT(30) DEF RefuseOrder, local, Labels
  <1>3. CASE ReserveAssets(w)
    BY <1>3, GotoType, FaultType, LocalType DEF ReserveAssets, local, Labels
  <1>4. CASE RejectOnly(w)
    BY <1>4, WriteType, WriteNames, Zenon DEF RejectOnly
  <1>5. CASE MarkReserved(w)
    BY <1>5, WriteType, WriteNames, Zenon DEF MarkReserved
  <1>6. CASE Revalidate(w)
    BY <1>6, WriteType, WriteNames, Zenon DEF Revalidate
  <1>7. CASE RejectReserved(w)
    BY <1>7, WriteType, WriteNames, Zenon DEF RejectReserved
  <1>8. CASE StartSubmit(w)
    BY <1>8, WriteType, WriteNames, Zenon DEF StartSubmit
  <1>9. CASE Place(w)
    <2>1. pc' \in [Workers -> Labels]
      BY <1>9, GotoType DEF Place, Labels
    <2>2. QED
      BY <1>9, <2>1, ExecutionConstants DEF Place, TypeInv, TypeOK, row, local, VenueStates
  <1>10. CASE PlaceReturns(w)
    <2>1. CASE \E r \in Reports : /\ Observe(w, r)
                                   /\ Goto(w, IF r.state = "REJECTED" THEN "submitRejected" ELSE "acked")
                                   /\ UNCHANGED faults
      <3>1. PICK r \in Reports : Observe(w, r) /\ (\E l \in Labels : Goto(w, l)) /\ UNCHANGED faults
        BY <2>1 DEF Labels
      <3>2. QED
        BY <1>10, <3>1, ReportsType, ObserveType, GotoType, LocalType DEF PlaceReturns
    <2>2. CASE Goto(w, "submitUnknown") /\ Fault /\ UNCHANGED seen
      BY <1>10, <2>2, GotoType, FaultType, LocalType DEF PlaceReturns, Labels
    <2>3. QED
      BY <1>10, <2>1, <2>2 DEF PlaceReturns
  <1>11. CASE FinishRejected(w)
    BY <1>11, WriteType, WriteNames, Zenon DEF FinishRejected
  <1>12. CASE FinishUnknown(w)
    BY <1>12, WriteType, WriteNames, Zenon DEF FinishUnknown
  <1>13. CASE FinishAcknowledged(w)
    BY <1>13, WriteType, WriteNames, Zenon DEF FinishAcknowledged
  <1>14. CASE ApplyVenueState(w)
    BY <1>14, WriteType, WriteNames, TargetType, Zenon DEF ApplyVenueState
  <1>15. CASE ForceUnknown(w)
    BY <1>15, WriteType, WriteNames, Zenon DEF ForceUnknown
  <1>16. CASE ActOnObservation(w)
    <2>1. \E l \in Labels : Goto(w, l)
      BY <1>16, LabelType DEF ActOnObservation, Labels
    <2>2. job' \in [Workers -> Jobs] /\ copy' \in [Workers -> Copies]
      BY <1>16, ReadType DEF ActOnObservation, Jobs
    <2>3. QED
      BY <1>16, <2>1, <2>2, GotoType, LocalType DEF ActOnObservation
  <1>17. QED
    BY <1>1, <1>2, <1>3, <1>4, <1>5, <1>6, <1>7, <1>8, <1>9, <1>10, <1>11, <1>12, <1>13, <1>14, <1>15, <1>16 DEF Submitting

LEMMA SynchronizingType ==
    ASSUME TypeInv, NEW w \in Workers, Synchronizing(w)
    PROVE  TypeInv'
  <1> USE LocalFacts
  <1>1. CASE ListFills(w)
    <2>1. goal' \in [Workers -> 0..Size] /\ \A v \in Workers : goal'[v] <= confirmed
      BY <1>1, ExecutionConstants DEF ListFills, TypeInv, TypeOK
    <2>2. QED
      BY <1>1, <2>1, GotoType, LocalType DEF ListFills, Labels
  <1>2. CASE ApplyFill(w)
    <2>1. filled + 1 \in 0..Size /\ filled + 1 <= confirmed
      BY <1>2, ExecutionConstants DEF ApplyFill, TypeInv, TypeOK
    <2>2. FillTarget \in Statuses
      BY DEF FillTarget, Statuses, OrderStatuses, Working, TerminalStatuses
    <2>3. copy' \in [Workers -> Copies]
      BY <1>2, <2>2, OutdatedType DEF ApplyFill
    <2>4. job' \in [Workers -> Jobs]
      BY <1>2 DEF ApplyFill, Jobs
    <2>5. res' \in {"NONE", "ACTIVE", "RECONCILIATION_REQUIRED", "RELEASED", "SETTLED"}
      BY <1>2 DEF ApplyFill
    <2>6. QED
      BY <1>2, <2>1, <2>2, <2>3, <2>4, <2>5, Zenon DEF ApplyFill, TypeInv, TypeOK, book, Copies, Views, Statuses
  <1>3. CASE EndSync(w)
    <2>1. (\E l \in Labels : Goto(w, l)) /\ faults' \in 0..MaxFaults
      BY <1>3, LabelType, FaultType DEF EndSync
    <2>2. QED
      BY <1>3, <2>1, GotoType, ReadType, LocalType DEF EndSync
  <1>4. QED
    BY <1>1, <1>2, <1>3, SMTT(30) DEF Synchronizing

LEMMA SettlingType ==
    ASSUME TypeInv, NEW w \in Workers, Settling(w)
    PROVE  TypeInv'
  <1> USE LocalFacts
  <1>1. CASE MarkPending(w)
    BY <1>1, WriteType, WriteNames, Zenon DEF MarkPending
  <1>2. CASE Hold(w)
    BY <1>2, GotoType, FaultType, LocalType DEF Hold, local, Labels
  <1>3. CASE Defer(w)
    <2>1. CASE Persist(w, "CANCELLED", FALSE, "idle", "idle") /\ UNCHANGED tries
      BY <2>1, WriteType, WriteNames, Zenon
    <2>2. CASE Goto(w, "idle") /\ UNCHANGED <<row, res, tries, book, placed, local, faults>>
      BY <2>2, GotoType, LocalType, SMTT(30) DEF local, Labels
    <2>3. QED
      BY <1>3, <2>1, <2>2, Zenon DEF Defer
  <1>4. CASE Release(w)
    BY <1>4, GotoType, FaultType, LocalType DEF Release, local, Labels
  <1>5. QED
    BY <1>1, <1>2, <1>3, <1>4 DEF Settling

LEMMA ReconcilingType ==
    ASSUME TypeInv, NEW w \in Workers, Reconciling(w)
    PROVE  TypeInv'
  <1> USE LocalFacts
  <1>1. CASE ForceRefresh(w)
    BY <1>1, WriteType, WriteNames, Zenon DEF ForceRefresh
  <1>2. CASE StartReconcile(w)
    BY <1>2, WriteType, WriteNames, Zenon DEF StartReconcile
  <1>3. CASE GetFound(w)
    <2>1. PICK r \in Reports : Observe(w, r)
      BY <1>3 DEF GetFound
    <2>2. tries' \in 0..MaxReconcile
      BY <1>3, SaturatedType, ExecutionConstants DEF GetFound
    <2>3. QED
      BY <1>3, <2>1, <2>2, ReportsType, ObserveType, GotoType, LocalType DEF GetFound, Labels
  <1>4. CASE GetPending(w)
    <2>1. PICK r \in Reports : Observe(w, r)
      BY <1>4 DEF GetPending
    <2>2. QED
      BY <1>4, <2>1, ReportsType, ObserveType, GotoType, LocalType DEF GetPending, Labels
  <1>5. CASE GetFails(w)
    <2>1. (\E l \in Labels : Goto(w, l)) /\ faults' \in 0..MaxFaults /\ job' \in [Workers -> Jobs]
      BY <1>5, FaultType DEF GetFails, Labels, Jobs
    <2>2. tries' \in 0..MaxReconcile
      BY <1>5, SaturatedType DEF GetFails
    <2>3. QED
      BY <1>5, <2>1, <2>2, GotoType, LocalType DEF GetFails
  <1>6. CASE FinishGet(w)
    BY <1>6, WriteType, WriteNames, TargetType, Zenon DEF FinishGet
  <1>7. CASE GiveUp(w)
    BY <1>7, WriteType, WriteNames, Zenon DEF GiveUp
  <1>8. CASE FinishFailed(w)
    BY <1>8, WriteType, WriteNames, Zenon DEF FinishFailed
  <1>9. CASE FinishPending(w)
    <2>1. tries' \in 0..MaxReconcile
      BY <1>9, SaturatedType DEF FinishPending
    <2>2. QED
      BY <1>9, <2>1, PersistType, WriteNames, Zenon DEF FinishPending
  <1>10. CASE SyncDetails(w)
    <2>1. job' \in [Workers -> Jobs]
      BY <1>10 DEF SyncDetails, Jobs
    <2>2. QED
      BY <1>10, <2>1, GotoType, LocalType DEF SyncDetails, Labels
  <1>11. CASE Evaluate(w)
    <2>1. \E l \in Labels : Goto(w, l)
      BY <1>11, SMTT(30) DEF Evaluate, Labels
    <2>2. QED
      BY <1>11, <2>1, GotoType, ReadType, LocalType DEF Evaluate
  <1>12. CASE ApplyRelease(w)
    <2>1. "CANCELLED" \in Statuses
      BY DEF Statuses, OrderStatuses, TerminalStatuses
    <2>2. /\ copy' \in [Workers -> Copies] /\ status' \in Statuses /\ known' \in BOOLEAN
          /\ res' \in {res, "RELEASED"} /\ faults' \in 0..MaxFaults /\ pc' \in [Workers -> Labels]
      <3>1. \/ copy' = Outdated(w, "CANCELLED") /\ status' = "CANCELLED" /\ known' = TRUE
            \/ UNCHANGED <<copy, status, known>>
        BY <1>12 DEF ApplyRelease
      <3>2. copy' \in [Workers -> Copies]
        BY <2>1, <3>1, OutdatedType
      <3>3. status' \in Statuses /\ known' \in BOOLEAN
        BY <2>1, <3>1, Zenon DEF TypeInv, TypeOK, Statuses
      <3>4. res' \in {res, "RELEASED"} /\ faults' \in 0..MaxFaults
        BY <1>12, FaultType DEF ApplyRelease
      <3>5. pc' \in [Workers -> Labels]
        BY <1>12, GotoType, WriteNames DEF ApplyRelease
      <3>6. QED
        BY <3>2, <3>3, <3>4, <3>5
    <2>3. QED
      BY <1>12, <2>2 DEF ApplyRelease, TypeInv, TypeOK, book, Copies, Views, Statuses
  <1>13. QED
    BY <1>1, <1>2, <1>3, <1>4, <1>5, <1>6, <1>7, <1>8, <1>9, <1>10, <1>11, <1>12 DEF Reconciling

LEMMA CancellingType ==
    ASSUME TypeInv, NEW w \in Workers, Cancelling(w)
    PROVE  TypeInv'
  <1> USE LocalFacts
  <1>1. CASE StartCancel(w)
    BY <1>1, WriteType, WriteNames, Zenon DEF StartCancel
  <1>2. CASE CancelReturns(w)
    <2>1. seen' \in [Workers -> Views]
      <3>1. CASE \E n \in {listed, matched} : Observe(w, [state |-> "CANCELLED", matched |-> n])
        <4>1. PICK n \in {listed, matched} : Observe(w, [state |-> "CANCELLED", matched |-> n])
          BY <3>1, SMTT(30)
        <4>2. [state |-> "CANCELLED", matched |-> n] \in Views
          BY DEF Views, Statuses, OrderStatuses, TerminalStatuses, TypeInv, TypeOK
        <4>3. QED
          BY <4>1, <4>2, ObserveType
      <3>2. CASE \E r \in Reports : Observe(w, r)
        BY <3>2, ReportsType, ObserveType
      <3>3. CASE UNCHANGED seen
        BY <3>3
      <3>4. QED
        BY <1>2, <3>1, <3>2, <3>3 DEF CancelReturns
    <2>2. (\E l \in Labels : Goto(w, l)) /\ faults' \in 0..MaxFaults
      BY <1>2, FaultType DEF CancelReturns, Labels
    <2>3. venue' = venue \/ venue' = "cancelled"
      BY <1>2 DEF CancelReturns
    <2>4. pc' \in [Workers -> Labels]
      BY <2>2, GotoType, SMTT(30)
    <2>5. QED
      BY <1>2, <2>1, <2>2, <2>3, <2>4 DEF CancelReturns, TypeInv, TypeOK, row, VenueStates, Copies, Views, Statuses
  <1>3. CASE CancelLost(w)
    BY <1>3, GotoType, FaultType, LocalType DEF CancelLost, local, Labels
  <1>4. CASE FinishCancel(w)
    BY <1>4, WriteType, WriteNames, TargetType, Zenon DEF FinishCancel
  <1>5. CASE FinishCancelUnknown(w)
    BY <1>5, WriteType, WriteNames, Zenon DEF FinishCancelUnknown
  <1>6. CASE SettleCancel(w)
    <2>1. \E l \in Labels : Goto(w, l)
      BY <1>6, LabelType DEF SettleCancel, Labels
    <2>2. QED
      BY <1>6, <2>1, GotoType, LocalType DEF SettleCancel, local
  <1>7. CASE FinalGet(w)
    <2>1. (\E l \in Labels : Goto(w, l)) /\ faults' \in 0..MaxFaults /\ job' \in [Workers -> Jobs]
      BY <1>7, FaultType DEF FinalGet, Labels, Jobs
    <2>2. seen' \in [Workers -> Views]
      BY <1>7, ReportsType, ObserveType, SMTT(30) DEF FinalGet
    <2>3. QED
      BY <1>7, <2>1, <2>2, GotoType, LocalType DEF FinalGet
  <1>8. QED
    BY <1>1, <1>2, <1>3, <1>4, <1>5, <1>6, <1>7 DEF Cancelling

LEMMA WorldType ==
    ASSUME TypeInv, Venue \/ Expire \/ Age
    PROVE  TypeInv'
  <1> USE ExecutionConstants DEF TypeInv, TypeOK, unmoved, row, local, VenueStates
  <1>1. CASE Accept
    BY <1>1, SMTT(30) DEF Accept
  <1>2. CASE Refuse \/ VenueCancel
    BY <1>2, SMTT(30) DEF Refuse, VenueCancel
  <1>3. CASE Match
    BY <1>3 DEF Match
  <1>4. CASE List
    BY <1>4 DEF List
  <1>5. CASE Confirm
    BY <1>5, SMTT(30) DEF Confirm
  <1>6. CASE Retire
    BY <1>6 DEF Retire
  <1>7. CASE Expire
    BY <1>7, SMTT(30) DEF Expire
  <1>8. CASE Age
    BY <1>8 DEF Age, book
  <1>9. QED
    BY <1>1, <1>2, <1>3, <1>4, <1>5, <1>6, <1>7, <1>8, ZenonT(30) DEF Venue

LEMMA TypeInvNext == TypeInv /\ [Next]_vars => TypeInv'
  <1> SUFFICES ASSUME TypeInv, [Next]_vars PROVE TypeInv'
    BY SMTT(30)
  <1>1. ASSUME NEW w \in Workers, Crash(w) PROVE TypeInv'
    BY <1>1, LocalFacts, GotoType, FaultType, SaturatedType, LocalType DEF Crash, local, Labels
  <1>2. ASSUME NEW w \in Workers, Work(w) PROVE TypeInv'
    BY <1>2, SubmittingType, SynchronizingType, SettlingType, ReconcilingType, CancellingType DEF Work
  <1>3. CASE UNCHANGED vars
    BY <1>3, LocalFacts, LocalType DEF vars, local
  <1>4. QED
    BY <1>1, <1>2, <1>3, CallsType, WorldType DEF Next

\* Every variable of the order's life keeps its type, and the ledger never books
\* more than the venue's feed has confirmed, listed and matched.
THEOREM ExecutionTypeCorrect == Spec => []TypeOK
  BY TypeInvInit, TypeInvNext, PTL DEF Spec, TypeInv

-----------------------------------------------------------------------------
(* One placement.                                                          *)

Unsent == PreSubmit \cup {"NONE"}

\* Why the placement is sent once: a copy that may write agrees with the row;
\* only a copy that says RESERVED reaches the placement; and while the row is in
\* an early status nothing was sent and nobody is about to send.
PlacementInv ==
    /\ TypeInv
    /\ \A w \in Workers : copy[w].fresh => copy[w].status = status
    /\ \A w \in Workers : pc[w] = "submitReserved" => copy[w].status = "RESERVED"
    /\ status = "NONE" => \A w \in Workers : pc[w] = "idle" /\ ~copy[w].fresh
    /\ status \in Unsent => placed = 0 /\ \A w \in Workers : pc[w] # "place"
    /\ \A w \in Workers : pc[w] = "place" => placed = 0 /\ \A v \in Workers : pc[v] = "place" => v = w
    /\ placed <= 1

\* A step that neither sends nor comes closer to sending.
Safe ==
    /\ placed' = placed
    /\ \A v \in Workers : copy'[v].fresh => copy'[v].status = status'
    /\ \A v \in Workers : pc'[v] = "submitReserved" => copy'[v].status = "RESERVED"
    /\ \A v \in Workers : pc'[v] = "place" => pc[v] = "place"
    /\ status' \in Unsent => status \in Unsent
    /\ status # "NONE" /\ status' # "NONE"

LEMMA SafeKeepsPlacement ==
    ASSUME PlacementInv, TypeInv', Safe
    PROVE  PlacementInv'
  BY DEF PlacementInv, Safe

\* The state machine has no way back to the statuses before the placement.
LEMMA NoWayBack ==
    ASSUME NEW s, NEW t, CanTransitionTo(s, t)
    PROVE  /\ s \notin Unsent => t \notin Unsent
           /\ s # "NONE" => t # "NONE"
  BY DEF CanTransitionTo, Successors, Unsent, PreSubmit

LEMMA CopyFields ==
    ASSUME NEW c \in Copies, NEW t
    PROVE  /\ [c EXCEPT !.status = t].fresh = c.fresh /\ [c EXCEPT !.status = t].status = t
           /\ [c EXCEPT !.fresh = FALSE].fresh = FALSE /\ [c EXCEPT !.fresh = FALSE].status = c.status
  BY Zenon DEF Copies

LEMMA WriterCopy ==
    ASSUME TypeInv, NEW w \in Workers, NEW t \in Statuses
    PROVE  /\ \A v \in Workers : v # w => ~Outdated(w, t)[v].fresh
           /\ \A v \in Workers : Outdated(w, t)[v].status = IF v = w THEN t ELSE copy[v].status
  <1>1. \A v \in Workers : v # w => ~Outdated(w, t)[v].fresh
    BY LocalFacts, CopyFields, Zenon DEF Outdated
  <1>2. \A v \in Workers : Outdated(w, t)[v].status = IF v = w THEN t ELSE copy[v].status
    BY LocalFacts, CopyFields DEF Outdated
  <1>3. QED
    BY <1>1, <1>2

LEMMA StaleCopies ==
    ASSUME TypeInv, copy' = [v \in Workers |-> [copy[v] EXCEPT !.fresh = FALSE]]
    PROVE  \A v \in Workers : ~copy'[v].fresh /\ copy'[v].status = copy[v].status
  BY LocalFacts, CopyFields, Zenon

LEMMA WriteIsSafe ==
    ASSUME PlacementInv, NEW w \in Workers, NEW t \in Statuses, NEW stamps, NEW ok, NEW lost,
           ok # "place", lost # "place", lost # "submitReserved",
           ok = "submitReserved" => t = "RESERVED",
           pc[w] # "idle", Persist(w, t, stamps, ok, lost)
    PROVE  Safe
  <1>1. TypeInv /\ pc \in [Workers -> Labels] /\ status # "NONE"
    BY LocalFacts DEF PlacementInv
  <1>2. CASE /\ CanWrite(w, t) /\ status' = t /\ copy' = Outdated(w, t) /\ Goto(w, ok)
    <2>1. \A v \in Workers : v # w => ~copy'[v].fresh
      BY <1>1, <1>2, WriterCopy, SMTT(30)
    <2>2. \A v \in Workers : copy'[v].status = IF v = w THEN t ELSE copy[v].status
      BY <1>1, <1>2, WriterCopy, SMTT(30)
    <2>3. (status \notin Unsent => t \notin Unsent) /\ t # "NONE"
      BY <1>1, <1>2, NoWayBack DEF CanWrite, PlacementInv
    <2>4. QED
      BY <1>1, <1>2, <2>1, <2>2, <2>3, SMTT(30) DEF PlacementInv, Safe, Persist, Goto
  <1>3. CASE Goto(w, lost) /\ UNCHANGED <<status, copy>>
    BY <1>1, <1>3 DEF PlacementInv, Safe, Persist, Goto
  <1>4. CASE /\ CanWrite(w, t) /\ status' = t /\ Goto(w, lost)
             /\ copy' = [v \in Workers |-> [copy[v] EXCEPT !.fresh = FALSE]]
    <2>1. \A v \in Workers : ~copy'[v].fresh /\ copy'[v].status = copy[v].status
      BY <1>1, <1>4, StaleCopies
    <2>2. (status \notin Unsent => t \notin Unsent) /\ t # "NONE"
      BY <1>1, <1>4, NoWayBack DEF CanWrite, PlacementInv
    <2>3. QED
      BY <1>1, <1>4, <2>1, <2>2, ZenonT(30) DEF PlacementInv, Safe, Persist, Goto
  <1>5. QED
    BY <1>2, <1>3, <1>4 DEF Persist

\* A step of a worker that leaves the order as it is.
LEMMA LocalIsSafe ==
    ASSUME PlacementInv, NEW w \in Workers, NEW l, Goto(w, l), l \notin {"place", "submitReserved"},
           UNCHANGED <<status, placed>>, UNCHANGED copy \/ Read(w), status # "NONE"
    PROVE  Safe
  <1>1. TypeInv /\ pc \in [Workers -> Labels] /\ copy \in [Workers -> Copies]
    BY LocalFacts DEF PlacementInv
  <1>2. QED
    BY <1>1 DEF PlacementInv, Safe, Goto, Read

\* Where a worker goes after a synchronization or an observation, it does not
\* place the order.
LEMMA NotToPlacement ==
    ASSUME NEW w \in Workers, NEW e
    PROVE  /\ AfterSync(w, e) \notin {"place", "submitReserved"}
           /\ AfterObservation(w) \notin {"place", "submitReserved"}
  BY DEF AfterSync, AfterObservation

LEMMA SubmittingSafe ==
    ASSUME PlacementInv, NEW w \in Workers, Submitting(w), ~StartSubmit(w), ~Place(w)
    PROVE  Safe
  <1>0. TypeInv /\ (pc[w] # "idle" => status # "NONE")
    BY DEF PlacementInv
  <1>1. CASE BeginValidation(w)
    BY <1>0, <1>1, WriteIsSafe, WriteNames, Zenon DEF BeginValidation, At
  <1>2. CASE RefuseOrder(w)
    BY <1>0, <1>2, LocalIsSafe DEF RefuseOrder, At, row, local
  <1>3. CASE ReserveAssets(w)
    BY <1>0, <1>3, LocalIsSafe DEF ReserveAssets, At, row, local
  <1>4. CASE RejectOnly(w)
    BY <1>0, <1>4, WriteIsSafe, WriteNames, Zenon DEF RejectOnly, At
  <1>5. CASE MarkReserved(w)
    BY <1>0, <1>5, WriteIsSafe, WriteNames, Zenon DEF MarkReserved, At
  <1>6. CASE Revalidate(w)
    BY <1>0, <1>6, WriteIsSafe, WriteNames, Zenon DEF Revalidate, At
  <1>7. CASE RejectReserved(w)
    BY <1>0, <1>7, WriteIsSafe, WriteNames, Zenon DEF RejectReserved, At
  <1>8. CASE PlaceReturns(w)
    BY <1>0, <1>8, LocalIsSafe DEF PlaceReturns, At, row, local
  <1>9. CASE FinishRejected(w)
    BY <1>0, <1>9, WriteIsSafe, WriteNames, Zenon DEF FinishRejected, At
  <1>10. CASE FinishUnknown(w)
    BY <1>0, <1>10, WriteIsSafe, WriteNames, Zenon DEF FinishUnknown, At
  <1>11. CASE FinishAcknowledged(w)
    BY <1>0, <1>11, WriteIsSafe, WriteNames, Zenon DEF FinishAcknowledged, At
  <1>12. CASE ApplyVenueState(w)
    BY <1>0, <1>12, WriteIsSafe, WriteNames, TargetType, Zenon DEF ApplyVenueState, At
  <1>13. CASE ForceUnknown(w)
    BY <1>0, <1>13, WriteIsSafe, WriteNames, Zenon DEF ForceUnknown, At
  <1>14. CASE ActOnObservation(w)
    BY <1>0, <1>14, LocalIsSafe, NotToPlacement DEF ActOnObservation, At, row, local
  <1>15. QED
    BY <1>1, <1>2, <1>3, <1>4, <1>5, <1>6, <1>7, <1>8, <1>9, <1>10, <1>11, <1>12, <1>13, <1>14 DEF Submitting

LEMMA SynchronizingSafe ==
    ASSUME PlacementInv, NEW w \in Workers, Synchronizing(w)
    PROVE  Safe
  <1>0. TypeInv /\ (pc[w] # "idle" => status # "NONE")
    BY DEF PlacementInv
  <1>1. CASE ListFills(w)
    BY <1>0, <1>1, LocalIsSafe DEF ListFills, At, row, local
  <1>2. CASE ApplyFill(w)
    <2>1. \A v \in Workers : ~copy'[v].fresh /\ copy'[v].status = copy[v].status
      BY <1>0, <1>2, StaleCopies DEF ApplyFill
    <2>2. status' \notin Unsent
      BY <1>2, SMTT(30) DEF ApplyFill, FillTarget, Unsent, PreSubmit
    <2>3. QED
      BY <1>0, <1>2, <2>1, <2>2, Zenon DEF ApplyFill, At, PlacementInv, Safe, Unsent
  <1>3. CASE EndSync(w)
    <2>1. \E e : Goto(w, AfterSync(w, e))
      BY <1>3 DEF EndSync
    <2>2. QED
      BY <1>0, <1>3, <2>1, LocalIsSafe, NotToPlacement, SMTT(30) DEF EndSync, At, row
  <1>4. QED
    BY <1>1, <1>2, <1>3 DEF Synchronizing

LEMMA SettlingSafe ==
    ASSUME PlacementInv, NEW w \in Workers, Settling(w)
    PROVE  Safe
  <1>0. TypeInv /\ (pc[w] # "idle" => status # "NONE")
    BY DEF PlacementInv
  <1>1. CASE MarkPending(w)
    BY <1>0, <1>1, WriteIsSafe, WriteNames, Zenon DEF MarkPending, At
  <1>2. CASE Hold(w)
    BY <1>0, <1>2, LocalIsSafe DEF Hold, At, row, local
  <1>3. CASE Defer(w)
    <2>1. CASE Persist(w, "CANCELLED", FALSE, "idle", "idle") /\ UNCHANGED tries
      BY <1>0, <1>3, <2>1, WriteIsSafe, WriteNames, Zenon DEF Defer, At
    <2>2. CASE Goto(w, "idle") /\ UNCHANGED <<row, res, tries, book, placed, local, faults>>
      BY <1>0, <1>3, <2>2, LocalIsSafe, SMTT(30) DEF Defer, At, row, local
    <2>3. QED
      BY <1>3, <2>1, <2>2, Zenon DEF Defer
  <1>4. CASE Release(w)
    BY <1>0, <1>4, LocalIsSafe DEF Release, At, row, local
  <1>5. QED
    BY <1>1, <1>2, <1>3, <1>4 DEF Settling

LEMMA ReconcilingSafe ==
    ASSUME PlacementInv, NEW w \in Workers, Reconciling(w)
    PROVE  Safe
  <1>0. TypeInv /\ (pc[w] # "idle" => status # "NONE")
    BY DEF PlacementInv
  <1>1. CASE ForceRefresh(w)
    BY <1>0, <1>1, WriteIsSafe, WriteNames, Zenon DEF ForceRefresh, At
  <1>2. CASE StartReconcile(w)
    BY <1>0, <1>2, WriteIsSafe, WriteNames, Zenon DEF StartReconcile, At
  <1>3. CASE GetFound(w)
    BY <1>0, <1>3, LocalIsSafe DEF GetFound, At, row, local
  <1>4. CASE GetPending(w)
    BY <1>0, <1>4, LocalIsSafe DEF GetPending, At, row, local
  <1>5. CASE GetFails(w)
    BY <1>0, <1>5, LocalIsSafe DEF GetFails, At, row, local
  <1>6. CASE FinishGet(w)
    BY <1>0, <1>6, WriteIsSafe, WriteNames, TargetType, Zenon DEF FinishGet, At
  <1>7. CASE GiveUp(w)
    BY <1>0, <1>7, WriteIsSafe, WriteNames, Zenon DEF GiveUp, At
  <1>8. CASE FinishFailed(w)
    BY <1>0, <1>8, WriteIsSafe, WriteNames, Zenon DEF FinishFailed, At
  <1>9. CASE FinishPending(w)
    BY <1>0, <1>9, WriteIsSafe, WriteNames, Zenon DEF FinishPending, At
  <1>10. CASE SyncDetails(w)
    BY <1>0, <1>10, LocalIsSafe DEF SyncDetails, At, row, local
  <1>11. CASE Evaluate(w)
    BY <1>0, <1>11, LocalIsSafe, SMTT(30) DEF Evaluate, At, row, local
  <1>12. CASE ApplyRelease(w)
    <2>1. CASE copy' = Outdated(w, "CANCELLED") /\ status' = "CANCELLED" /\ Goto(w, "idle")
      <3>1. /\ \A v \in Workers : v # w => ~copy'[v].fresh
            /\ \A v \in Workers : copy'[v].status = IF v = w THEN "CANCELLED" ELSE copy[v].status
        BY <1>0, <2>1, WriterCopy, WriteNames, SMTT(30)
      <3>2. QED
        BY <1>0, <1>12, <2>1, <3>1, LocalFacts, SMTT(30)
        DEF ApplyRelease, At, Goto, PlacementInv, Safe, Unsent, PreSubmit
    <2>2. CASE UNCHANGED <<status, copy>> /\ Goto(w, "hold")
      BY <1>0, <1>12, <2>2, LocalIsSafe, Zenon DEF ApplyRelease, At
    <2>3. QED
      BY <1>12, <2>1, <2>2, SMTT(30) DEF ApplyRelease
  <1>13. QED
    BY <1>1, <1>2, <1>3, <1>4, <1>5, <1>6, <1>7, <1>8, <1>9, <1>10, <1>11, <1>12 DEF Reconciling

LEMMA CancellingSafe ==
    ASSUME PlacementInv, NEW w \in Workers, Cancelling(w)
    PROVE  Safe
  <1>0. TypeInv /\ (pc[w] # "idle" => status # "NONE")
    BY DEF PlacementInv
  <1>1. CASE StartCancel(w)
    BY <1>0, <1>1, WriteIsSafe, WriteNames, Zenon DEF StartCancel, At
  <1>2. CASE CancelReturns(w)
    BY <1>0, <1>2, LocalIsSafe DEF CancelReturns, At, row, local
  <1>3. CASE CancelLost(w)
    BY <1>0, <1>3, LocalIsSafe DEF CancelLost, At, row, local
  <1>4. CASE FinishCancel(w)
    BY <1>0, <1>4, WriteIsSafe, WriteNames, TargetType, Zenon DEF FinishCancel, At
  <1>5. CASE FinishCancelUnknown(w)
    BY <1>0, <1>5, WriteIsSafe, WriteNames, ZenonT(30) DEF FinishCancelUnknown, At
  <1>6. CASE SettleCancel(w)
    BY <1>0, <1>6, LocalIsSafe, NotToPlacement, SMTT(30) DEF SettleCancel, At, row, local
  <1>7. CASE FinalGet(w)
    BY <1>0, <1>7, LocalIsSafe DEF FinalGet, At, row, local
  <1>8. QED
    BY <1>1, <1>2, <1>3, <1>4, <1>5, <1>6, <1>7 DEF Cancelling

LEMMA PlacementInvInit == Init => PlacementInv
  <1> SUFFICES ASSUME Init PROVE PlacementInv
    OBVIOUS
  <1>1. \A w \in Workers : ~copy[w].fresh /\ pc[w] = "idle"
    BY Zenon DEF Init
  <1>2. status = "NONE" /\ placed = 0
    BY DEF Init
  <1>3. QED
    BY <1>1, <1>2, TypeInvInit DEF PlacementInv

LEMMA PlacementInvNext == PlacementInv /\ [Next]_vars => PlacementInv'
  <1> SUFFICES ASSUME PlacementInv, [Next]_vars PROVE PlacementInv'
    OBVIOUS
  <1>0. TypeInv /\ TypeInv' /\ pc \in [Workers -> Labels] /\ copy \in [Workers -> Copies]
    BY TypeInvNext, LocalFacts, SMTT(30) DEF PlacementInv
  <1>1. ASSUME NEW w \in Workers, Submit(w) PROVE PlacementInv'
    BY <1>0, <1>1 DEF Submit, Begin, Goto, At, PlacementInv, Unsent, PreSubmit
  <1>2. ASSUME NEW w \in Workers, Resume(w) \/ Refresh(w) \/ Cancel(w) \/ Finalize(w) \/ SyncFills(w)
        PROVE  PlacementInv'
    <2>1. \E l : Goto(w, l) /\ l \notin {"place", "submitReserved"}
      BY <1>2 DEF Resume, Refresh, Cancel, Finalize, SyncFills, Begin, PreSubmit
    <2>2. UNCHANGED <<status, placed>> /\ (UNCHANGED copy \/ Read(w)) /\ status # "NONE"
      BY <1>2 DEF Resume, Refresh, Cancel, Finalize, SyncFills, row, PreSubmit, Working
    <2>3. QED
      BY <1>0, <2>1, <2>2, LocalIsSafe, SafeKeepsPlacement
  <1>3. ASSUME NEW w \in Workers, StartSubmit(w) PROVE PlacementInv'
    <2>1. status # "NONE" /\ copy[w].status = "RESERVED"
      BY <1>3, SMTT(30) DEF StartSubmit, At, PlacementInv
    <2>2. CASE /\ CanWrite(w, "SUBMITTING") /\ status' = "SUBMITTING"
               /\ copy' = Outdated(w, "SUBMITTING") /\ Goto(w, "place") /\ placed' = placed
      <3>1. status = "RESERVED" /\ placed = 0 /\ \A v \in Workers : pc[v] # "place"
        BY <2>1, <2>2, SMTT(30) DEF CanWrite, PlacementInv, Unsent, PreSubmit
      <3>2. /\ \A v \in Workers : v # w => ~copy'[v].fresh
            /\ \A v \in Workers : copy'[v].status = IF v = w THEN "SUBMITTING" ELSE copy[v].status
        BY <1>0, <2>2, WriterCopy, WriteNames
      <3>3. QED
        BY <1>0, <2>2, <3>1, <3>2, ZenonT(30) DEF Goto, PlacementInv, Unsent, PreSubmit
    <2>3. CASE Goto(w, "hold") /\ UNCHANGED <<status, copy, placed>>
      BY <1>0, <2>1, <2>3, LocalIsSafe, SafeKeepsPlacement
    <2>4. CASE /\ status' = "SUBMITTING" /\ Goto(w, "hold") /\ placed' = placed
               /\ copy' = [v \in Workers |-> [copy[v] EXCEPT !.fresh = FALSE]]
      <3>1. \A v \in Workers : ~copy'[v].fresh /\ copy'[v].status = copy[v].status
        BY <1>0, <2>4, StaleCopies, SMTT(30)
      <3>2. QED
        BY <1>0, <2>4, <3>1 DEF Goto, PlacementInv, Unsent, PreSubmit
    <2>5. QED
      BY <1>3, <2>2, <2>3, <2>4, SMTT(30) DEF StartSubmit, Persist
  <1>4. ASSUME NEW w \in Workers, Place(w) PROVE PlacementInv'
    BY <1>0, <1>4 DEF Place, At, Goto, PlacementInv, row, local, Unsent
  <1>5. ASSUME NEW w \in Workers, Work(w) PROVE PlacementInv'
    BY <1>0, <1>3, <1>4, <1>5, SubmittingSafe, SynchronizingSafe, SettlingSafe, ReconcilingSafe,
       CancellingSafe, SafeKeepsPlacement, SMTT(30) DEF Work
  <1>6. ASSUME NEW w \in Workers, Crash(w) PROVE PlacementInv'
    BY <1>0, <1>6, LocalIsSafe, SafeKeepsPlacement, SMTT(30) DEF Crash, PlacementInv, row, local
  <1>7. CASE Venue \/ Expire \/ Age \/ UNCHANGED vars
    <2>1. UNCHANGED <<status, placed, pc, copy>>
      BY <1>7 DEF Venue, Accept, Refuse, Match, VenueCancel, List, Confirm, Retire, Expire, Age,
                  unmoved, vars, row, local
    <2>2. QED
      BY <1>0, <2>1 DEF PlacementInv
  <1>8. QED
    BY <1>1, <1>2, <1>5, <1>6, <1>7, SMTT(30) DEF Next, Calls

\* However API calls, sweeps, recoveries, crashes and half-committed writes
\* interleave, at most one placement request is sent for an order.
THEOREM OnePlacement == Spec => []AtMostOnePlacement
  <1>1. PlacementInv => AtMostOnePlacement
    BY DEF PlacementInv, AtMostOnePlacement
  <1>2. QED
    BY <1>1, PlacementInvInit, PlacementInvNext, PTL DEF Spec
=============================================================================
