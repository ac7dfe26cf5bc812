-------------------------- MODULE CollateralProofs --------------------------
(***************************************************************************)
(* The remaining steps keep CoverInv, and so collateral is kept for exposed*)
(* orders and a release misses no trade, for any number of workers, any    *)
(* size and any budget of faults.  The premise Prompt leaves out the two   *)
(* cases in which the code does not keep this: an emulated IOC, whose row  *)
(* may say CANCELLED over a resting remainder, and a finality grace that   *)
(* ends within a scan of the trades.                                       *)
(***************************************************************************)
EXTENDS CollateralSteps

LEMMA CancelReturnsCover ==
    ASSUME CoverInv, OneWayInv', NEW w \in Workers, CancelReturns(w)
    PROVE  CoverInv'
  <1>1. /\ pc[w] = "cancelling" /\ venue' = IF venue = "open" THEN "cancelled" ELSE venue
        /\ UNCHANGED <<status, filled, aged, res, matched, listed, confirmed, expired, placed, job, copy, goal>>
    BY DEF CancelReturns, At, row
  <1>2. PICK l \in {"finishCancel", "cancelUnknown"} : Goto(w, l)
    BY DEF CancelReturns
  <1>3. pc'[w] = l /\ \A v \in Workers : v # w => pc'[v] = pc[v]
    BY <1>2, CoverTypes DEF Goto
  <1>4. status \notin Unsent /\ \A x \in Workers : pc[x] # "place"
    BY <1>1, LateLabel DEF PreLabels
  <1>5. /\ \A v \in Workers : v # w => seen'[v] = seen[v]
        /\ \/ seen'[w] = seen[w]
           \/ venue = "open" /\ seen'[w].state = "CANCELLED"
           \/ venue # "open" /\ \E r \in Reports : seen'[w] = r
    <2>1. CASE venue = "open" /\ \E n \in {listed, matched} : Observe(w, [state |-> "CANCELLED", matched |-> n])
      BY <2>1, CoverTypes DEF Observe
    <2>2. CASE venue # "open" /\ \E r \in Reports : Observe(w, r)
      BY <2>2, CoverTypes DEF Observe
    <2>3. CASE UNCHANGED seen
      BY <2>3
    <2>4. QED
      BY <2>1, <2>2, <2>3 DEF CancelReturns
  <1>6. OthersKept(w)
    BY <1>1, <1>3, <1>5 DEF OthersKept, Rests
  <1>7. Steady /\ (aged' => aged)
    BY <1>1, CoverTypes DEF Steady
  <1>8. VenueFacts'
    BY <1>1 DEF CoverInv, VenueFacts, Dead
  <1>9. RowFacts'
    BY <1>1 DEF CoverInv, RowFacts, Dead, Held, CollateralCoversExposure, Exposed, Unsent
  <1>10. KnowledgeFacts(w)'
    <2>1. /\ seen'[w].state = "REJECTED" => venue' = "refused"
          /\ seen'[w].state = "CANCELLED" => venue' \in {"cancelled", "gone"}
      BY <1>1, <1>5, ReportFacts DEF CoverInv, KnowledgeFacts
    <2>2. QED
      BY <1>1, <2>1 DEF CoverInv, KnowledgeFacts
  <1>11. StepFacts(w)'
    <2>1. job[w] \notin Deferring
      BY <1>1 DEF CoverInv, StepFacts
    <2>2. QED
      BY <1>1, <1>2, <1>3, <2>1 DEF StepFacts, PreLabels, Deferring
  <1>12. PlacementFacts'
    BY <1>1, <1>2, <1>3, <1>4, <1>6, PlacementKept
  <1>13. QED
    BY <1>6, <1>7, <1>8, <1>9, <1>10, <1>11, <1>12, CoverStep

LEMMA FinalGetCover ==
    ASSUME CoverInv, OneWayInv', NEW w \in Workers, FinalGet(w)
    PROVE  CoverInv'
  <1>1. pc[w] = "finalGet" /\ UNCHANGED <<row, res, book, placed, copy, goal>>
    BY DEF FinalGet, At
  <1>2. status \notin Unsent /\ \A x \in Workers : pc[x] # "place"
    BY <1>1, LateLabel DEF PreLabels
  <1>3. /\ StepFacts(w) /\ KnowledgeFacts(w) /\ job[w] = "final" /\ status \in Ended /\ copy[w].status \in Ended
    BY <1>1 DEF CoverInv, StepFacts, Deferring
  <1>4. /\ UNCHANGED <<status, filled, aged, venue, matched, listed, expired>>
    BY <1>1 DEF row, book
  <1>5. CASE \E r \in Reports : /\ DetailsComplete(r) /\ Observe(w, r) /\ UNCHANGED job
                                /\ Goto(w, IF r.state \in {"CANCELLED", "FILLED"} THEN "sync" ELSE "hold")
    <2>1. PICK r \in Reports, l \in {"sync", "hold"} : Observe(w, r) /\ Goto(w, l) /\ UNCHANGED job
      BY <1>5
    <2>2. /\ seen'[w] = r /\ (\A v \in Workers : v # w => seen'[v] = seen[v]) /\ pc'[w] = l
      BY <2>1, CoverTypes DEF Observe, Goto
    <2>3. StepFacts(w)'
      BY <1>1, <1>3, <1>4, <2>1, <2>2 DEF StepFacts, PreLabels
    <2>4. QED
      BY <1>1, <1>2, <2>1, <2>2, <2>3, ReportFacts, LocalCover
  <1>6. CASE /\ Absent /\ job' = [job EXCEPT ![w] = "retired"] /\ UNCHANGED seen
             /\ Goto(w, IF copy[w].filled > 0 /\ aged THEN "sync" ELSE "hold")
    <2>1. PICK l \in {"sync", "hold"} : Goto(w, l) /\ (l = "sync" => copy[w].filled > 0)
      BY <1>6
    <2>2. /\ job'[w] = "retired" /\ (\A v \in Workers : v # w => job'[v] = job[v]) /\ pc'[w] = l
      BY <1>6, <2>1, CoverTypes DEF Goto
    <2>3. l = "sync" => venue = "gone"
      <3>1. l = "sync" => matched > 0
        BY <1>3, <2>1, CoverTypes DEF KnowledgeFacts
      <3>2. QED
        BY <1>6, <3>1, CoverTypes DEF Absent, CoverInv, VenueFacts, TypeInv
    <2>4. StepFacts(w)'
      BY <1>1, <1>3, <1>4, <2>1, <2>2, <2>3 DEF StepFacts, PreLabels, Deferring
    <2>5. QED
      BY <1>1, <1>2, <1>3, <1>6, <2>1, <2>2, <2>4, LocalCover DEF KnowledgeFacts
  <1>7. CASE Goto(w, "hold") /\ UNCHANGED <<job, seen>>
    <2>1. pc'[w] = "hold"
      BY <1>7, CoverTypes DEF Goto
    <2>2. StepFacts(w)'
      BY <1>1, <1>3, <1>4, <1>7, <2>1 DEF StepFacts, PreLabels
    <2>3. QED
      BY <1>1, <1>2, <1>3, <1>7, <2>2, LocalCover DEF KnowledgeFacts
  <1>8. QED
    BY <1>5, <1>6, <1>7 DEF FinalGet

\* The row says SUBMITTING before the request can be sent, on held collateral,
\* and every other copy is outdated.
LEMMA StartSubmitCover ==
    ASSUME CoverInv, OneWayInv', NEW w \in Workers, StartSubmit(w)
    PROVE  CoverInv'
  <1>1. pc[w] = "submitReserved" /\ Persist(w, "SUBMITTING", FALSE, "place", "hold")
    BY Zenon DEF StartSubmit, At
  <1>2. CASE Persist(w, "SUBMITTING", FALSE, "hold", "hold")
    BY <1>1, <1>2, WriteCover, WriteNames, Zenon DEF PreLabels
  <1>3. CASE /\ CanWrite(w, "SUBMITTING") /\ status' = "SUBMITTING" /\ copy' = Outdated(w, "SUBMITTING")
             /\ aged' = (aged /\ ~FALSE) /\ Goto(w, "place")
    <2>1. UNCHANGED <<filled, res, venue, matched, listed, confirmed, expired, placed, job, seen, goal>>
      BY <1>1, Zenon DEF Persist, book
    <2>a. status' = "SUBMITTING" /\ (aged' => aged)
      BY <1>3, Zenon
    <2>2. copy[w].status = "RESERVED" /\ status = "RESERVED"
      BY <1>1, <1>3, CoverTypes, WriteFacts, WriteNames DEF PlacementInv
    <2>3. Held /\ ~aged
      BY <2>2 DEF CoverInv, RowFacts
    <2>4. \A v \in Workers : pc[v] \in PreLabels \cup {"idle", "hold"}
      BY <2>2 DEF CoverInv, PlacementFacts, Unsent, PreSubmit
    <2>5. pc'[w] = "place" /\ \A v \in Workers : v # w => pc'[v] = pc[v]
      BY <1>3, CoverTypes DEF Goto
    <2>6. /\ \A v \in Workers : v # w => ~copy'[v].fresh /\ copy'[v].status = copy[v].status
          /\ \A v \in Workers : copy'[v].filled = copy[v].filled
          /\ copy'[w].status = "SUBMITTING"
      BY <1>3, CoverTypes, WriterCopy, WriterSize, WriteNames
    <2>7. OthersKept(w)
      BY <2>1, <2>5, <2>6 DEF OthersKept, Rests
    <2>8. Steady /\ (aged' => aged)
      BY <2>a, <2>1, <2>2, CoverTypes DEF Steady, Ended
    <2>9. VenueFacts'
      BY <2>1 DEF CoverInv, VenueFacts, Dead
    <2>10. RowFacts'
      BY <2>a, <2>1, <2>3 DEF RowFacts, CollateralCoversExposure, Held, Unsent, PreSubmit
    <2>11. KnowledgeFacts(w)'
      BY <2>1, <2>6 DEF CoverInv, KnowledgeFacts
    <2>12. job[w] \notin Deferring
      BY <1>1 DEF CoverInv, StepFacts
    <2>13. StepFacts(w)'
      BY <2>1, <2>5, <2>12 DEF StepFacts, PreLabels, Deferring
    <2>14. \A v \in Workers : v # w => Waits(v)'
      BY <2>4, <2>5, <2>6 DEF Waits
    <2>15. \A x \in Workers : pc'[x] = "place" => x = w
      BY <2>4, <2>5 DEF PreLabels
    <2>16. Held'
      BY <2>1, <2>3 DEF Held
    <2>17. PlacementFacts'
      BY <1>3, <2>14, <2>15, <2>16 DEF PlacementFacts, Unsent, PreSubmit
    <2>18. QED
      BY <2>7, <2>8, <2>9, <2>10, <2>11, <2>13, <2>17, CoverStep
  <1>4. QED
    BY <1>1, <1>2, <1>3, Zenon DEF Persist

LEMMA PlaceCover ==
    ASSUME CoverInv, OneWayInv', NEW w \in Workers, Place(w)
    PROVE  CoverInv'
  <1>1. /\ pc[w] = "place" /\ placed' = placed + 1 /\ Goto(w, "placing")
        /\ venue' = IF venue # "none" THEN venue ELSE IF expired THEN "refused" ELSE "flying"
        /\ UNCHANGED <<status, filled, aged, res, matched, listed, confirmed, expired, job, copy, seen, goal>>
    BY DEF Place, At, row, local
  <1>2. placed = 0 /\ \A x \in Workers : x # w => pc[x] # "place"
    BY <1>1, CoverTypes DEF PlacementInv
  <1>3. venue = "none" /\ matched = 0
    BY <1>2, CoverTypes DEF CoverInv, VenueFacts, TypeInv
  <1>4. status = "SUBMITTING" /\ Held /\ ~aged
    BY <1>1 DEF CoverInv, PlacementFacts, RowFacts
  <1>5. pc'[w] = "placing" /\ \A v \in Workers : v # w => pc'[v] = pc[v]
    BY <1>1, CoverTypes DEF Goto
  <1>6. OthersKept(w)
    BY <1>1, <1>5 DEF OthersKept, Rests
  <1>7. Steady /\ (aged' => aged)
    BY <1>1, <1>3, <1>4, CoverTypes DEF Steady, Ended
  <1>8. VenueFacts'
    BY <1>1, <1>2, <1>3 DEF VenueFacts, Dead
  <1>9. RowFacts'
    BY <1>1, <1>4 DEF RowFacts, CollateralCoversExposure, Held, Unsent, PreSubmit
  <1>10. KnowledgeFacts(w)'
    BY <1>1, <1>3 DEF CoverInv, KnowledgeFacts
  <1>11. job[w] \notin Deferring
    BY <1>1 DEF CoverInv, StepFacts
  <1>12. StepFacts(w)'
    BY <1>1, <1>5, <1>11 DEF StepFacts, PreLabels, Deferring
  <1>13. PlacementFacts'
    BY <1>1, <1>2, <1>4, <1>5, <1>6, PlacementKept DEF Unsent, PreSubmit
  <1>14. QED
    BY <1>6, <1>7, <1>8, <1>9, <1>10, <1>12, <1>13, CoverStep

\* What the start of a call leaves.
LEMMA BeginFacts ==
    ASSUME CoverInv, NEW w \in Workers, NEW j, NEW l, Begin(w, j, l)
    PROVE  /\ pc'[w] = l /\ job'[w] = j /\ seen'[w].state = "NONE" /\ Goto(w, l)
           /\ \A v \in Workers : v # w =>
                pc'[v] = pc[v] /\ job'[v] = job[v] /\ seen'[v] = seen[v] /\ goal'[v] = goal[v]
  BY CoverTypes DEF Begin, Goto, NoView

LEMMA SubmitCover ==
    ASSUME CoverInv, OneWayInv', NEW w \in Workers, Submit(w)
    PROVE  CoverInv'
  <1>1. /\ status = "NONE" /\ status' = "RECEIVED" /\ Begin(w, "submit", "received")
        /\ copy' = [copy EXCEPT ![w] = [status |-> "RECEIVED", filled |-> 0, fresh |-> TRUE]]
        /\ UNCHANGED <<filled, aged, res, venue, matched, listed, confirmed, expired, placed>>
    BY DEF Submit, book
  <1>2. /\ pc'[w] = "received" /\ job'[w] = "submit" /\ seen'[w].state = "NONE"
        /\ \A v \in Workers : v # w =>
             pc'[v] = pc[v] /\ job'[v] = job[v] /\ seen'[v] = seen[v] /\ goal'[v] = goal[v]
    BY <1>1, BeginFacts
  <1>3. /\ copy'[w].status = "RECEIVED" /\ copy'[w].filled = 0 /\ \A v \in Workers : v # w => copy'[v] = copy[v]
    BY <1>1, CoverTypes
  <1>4. OthersKept(w)
    BY <1>2, <1>3 DEF OthersKept, Rests
  <1>5. \A v \in Workers : pc[v] = "idle"
    BY <1>1, CoverTypes DEF PlacementInv
  <1>6. Steady /\ (aged' => aged)
    BY <1>1, CoverTypes DEF Steady, Ended
  <1>7. VenueFacts'
    BY <1>1 DEF CoverInv, VenueFacts, Dead
  <1>8. RowFacts'
    BY <1>1 DEF CoverInv, RowFacts, Dead, Held, CollateralCoversExposure, Exposed, Unsent
  <1>9. KnowledgeFacts(w)'
    BY <1>1, <1>2, <1>3, CoverTypes DEF KnowledgeFacts
  <1>10. StepFacts(w)'
    BY <1>2, <1>3 DEF StepFacts, PreLabels, PreSubmit, Deferring
  <1>11. PlacementFacts'
    BY <1>1, <1>2, <1>4, <1>5, PlacementKept DEF Unsent, PreLabels
  <1>12. QED
    BY <1>4, <1>6, <1>7, <1>8, <1>9, <1>10, <1>11, CoverStep

LEMMA CallsCover ==
    ASSUME CoverInv, OneWayInv', NEW w \in Workers, Calls(w)
    PROVE  CoverInv'
  <1>1. CASE Resume(w)
    <2>1. PICK l \in {"received", "validating", "revalidate"} :
              Begin(w, "resume", l) /\ (l = "revalidate" => status = "RESERVED")
      BY <1>1 DEF Resume, PreSubmit
    <2>2. Read(w) /\ status \in PreSubmit /\ UNCHANGED <<row, res, book, placed>>
      BY <1>1 DEF Resume
    <2>3. /\ pc'[w] = l /\ job'[w] = "resume" /\ seen'[w].state = "NONE" /\ Goto(w, l)
          /\ \A v \in Workers : v # w => job'[v] = job[v] /\ seen'[v] = seen[v] /\ goal'[v] = goal[v]
      BY <2>1, BeginFacts
    <2>4. copy'[w].status = status
      BY <2>2, CoverTypes DEF Read
    <2>5. StepFacts(w)'
      BY <2>1, <2>2, <2>3, <2>4 DEF StepFacts, PreLabels, Deferring
    <2>6. \A x \in Workers : pc[x] # "place"
      BY <2>2, CoverTypes DEF PlacementInv, Unsent
    <2>7. QED
      BY <2>1, <2>2, <2>3, <2>5, <2>6, LocalCover DEF PreLabels
  <1>2. CASE Refresh(w) \/ Cancel(w)
    <2>1. PICK j \in {"refresh", "cancel"}, l \in {"forceRefresh", "startReconcile", "cancelStart"} : Begin(w, j, l)
      BY <1>2 DEF Refresh, Cancel
    <2>2. /\ Read(w) /\ UNCHANGED <<row, res, book, placed>> /\ status \notin Unsent
          /\ status = "SUBMITTING" => \A x \in Workers : pc[x] # "place"
      BY <1>2 DEF Refresh, Cancel, SubmitInFlight, Working, Unsent, PreSubmit
    <2>3. /\ pc'[w] = l /\ job'[w] = j /\ seen'[w].state = "NONE" /\ Goto(w, l)
          /\ \A v \in Workers : v # w => job'[v] = job[v] /\ seen'[v] = seen[v] /\ goal'[v] = goal[v]
      BY <2>1, BeginFacts
    <2>4. StepFacts(w)'
      BY <2>1, <2>3 DEF StepFacts, PreLabels, Deferring
    <2>5. \A x \in Workers : pc[x] # "place"
      BY <2>2 DEF CoverInv, PlacementFacts
    <2>6. QED
      BY <2>1, <2>2, <2>3, <2>4, <2>5, LocalCover
  <1>3. CASE Finalize(w)
    <2>1. PICK j, l : /\ Begin(w, j, l)
                      /\ (j = "late" /\ l = "sync") \/ (j = "final" /\ l = "finalGet")
      BY <1>3 DEF Finalize
    <2>2. Read(w) /\ status = "CANCELLED" /\ UNCHANGED <<row, res, book, placed>>
      BY <1>3 DEF Finalize
    <2>3. /\ pc'[w] = l /\ job'[w] = j /\ seen'[w].state = "NONE" /\ Goto(w, l)
          /\ \A v \in Workers : v # w => job'[v] = job[v] /\ seen'[v] = seen[v] /\ goal'[v] = goal[v]
      BY <2>1, BeginFacts
    <2>4. copy'[w].status = "CANCELLED" /\ status' = "CANCELLED"
      BY <2>2, CoverTypes DEF Read, row
    <2>5. StepFacts(w)'
      BY <2>1, <2>3, <2>4 DEF StepFacts, PreLabels, Deferring, Ended
    <2>6. \A x \in Workers : pc[x] # "place"
      BY <2>2 DEF CoverInv, PlacementFacts
    <2>7. QED
      BY <2>1, <2>2, <2>3, <2>5, <2>6, LocalCover, Zenon DEF Unsent, PreSubmit
  <1>4. CASE SyncFills(w)
    <2>1. Begin(w, "fills", "sync") /\ status \notin Unsent /\ UNCHANGED <<row, res, book, placed, copy>>
      BY <1>4 DEF SyncFills, Unsent
    <2>2. /\ pc'[w] = "sync" /\ job'[w] = "fills" /\ seen'[w].state = "NONE" /\ Goto(w, "sync")
          /\ \A v \in Workers : v # w => job'[v] = job[v] /\ seen'[v] = seen[v] /\ goal'[v] = goal[v]
      BY <2>1, BeginFacts, Zenon
    <2>3. StepFacts(w)' /\ Waits(w)'
      BY <2>2, Zenon DEF StepFacts, PreLabels, Deferring, Waits
    <2>4. QED
      BY <2>1, <2>2, <2>3, LocalCover, Zenon
  <1>5. QED
    BY <1>1, <1>2, <1>3, <1>4, SubmitCover DEF Calls

\* The venue and the clock move no worker.
LEMMA VenueCover ==
    ASSUME CoverInv, OneWayInv', Venue \/ Expire
    PROVE  CoverInv'
  <1>1. UNCHANGED <<status, filled, aged, res, placed, pc, job, copy, seen, goal>>
    BY DEF Venue, Accept, Refuse, Match, VenueCancel, List, Confirm, Retire, Expire, unmoved, row, local
  <1>2. /\ status = "REJECTED" => venue \in {"none", "refused"}
        /\ status = "CANCELLED" => venue \notin {"flying", "open"}
        /\ status = "FILLED" => venue \notin {"flying", "open"}
        /\ status \in Unsent => venue = "none"
        /\ expired => venue \notin {"flying", "open"}
        /\ aged => venue \notin {"flying", "open"} /\ listed = matched
        /\ venue \in {"flying", "open"} => Held
    <2>1. status = "FILLED" => matched = Size
      BY CoverTypes DEF CoverInv, RowFacts
    <2>2. status = "FILLED" => venue \notin {"flying", "open"}
      BY <2>1, CoverTypes, ExecutionConstants DEF TypeInv
    <2>3. status \in Unsent => venue = "none"
      BY CoverTypes DEF PlacementInv, CoverInv, VenueFacts
    <2>4. QED
      BY <2>2, <2>3 DEF CoverInv, VenueFacts, RowFacts, Dead, CollateralCoversExposure, Exposed
  <1>3. /\ Steady /\ VenueFacts'
        /\ venue' \in {"flying", "open"} => venue \in {"flying", "open"}
        /\ matched' = matched \/ venue \in {"flying", "open"}
        /\ venue \in {"none", "refused"} => venue' = venue
        /\ aged => listed' = matched'
    <2> USE CoverTypes, <1>1, <1>2 DEF CoverInv, VenueFacts, Steady, Dead, Ended
    <2>1. CASE Accept
      BY <2>1, SMTT(30) DEF Accept, TypeInv
    <2>2. CASE Refuse
      BY <2>2, SMTT(30) DEF Refuse, TypeInv
    <2>3. CASE Match
      BY <2>3, SMTT(30) DEF Match
    <2>4. CASE VenueCancel
      BY <2>4, SMTT(30) DEF VenueCancel
    <2>5. CASE List
      BY <2>5, SMTT(30) DEF List
    <2>6. CASE Confirm
      BY <2>6, SMTT(30) DEF Confirm
    <2>7. CASE Retire
      BY <2>7, SMTT(30) DEF Retire
    <2>8. CASE Expire
      BY <2>8, SMTT(30) DEF Expire, TypeInv
    <2>9. QED
      BY <2>1, <2>2, <2>3, <2>4, <2>5, <2>6, <2>7, <2>8, ZenonT(30) DEF Venue
  <1>4. RowFacts'
    BY <1>1, <1>2, <1>3 DEF CoverInv, RowFacts, Dead, Held, CollateralCoversExposure, Exposed, Unsent
  <1>5. \A v \in Workers : KnowledgeFacts(v)' /\ StepFacts(v)'
    BY <1>1, <1>3, RestsStays DEF Rests
  <1>6. PlacementFacts'
    BY <1>1 DEF CoverInv, PlacementFacts, Waits, Held
  <1>7. Prompt'
    BY DEF CoverInv, Prompt
  <1>8. QED
    BY <1>3, <1>4, <1>5, <1>6, <1>7 DEF CoverInv

\* The grace ends outside of a scan.
LEMMA AgeCover ==
    ASSUME CoverInv, OneWayInv', Age
    PROVE  CoverInv'
  <1>1. /\ UNCHANGED <<status, filled, res, placed, pc, job, copy, seen, goal>>
        /\ UNCHANGED <<venue, matched, listed, confirmed, expired>>
        /\ status = "CANCELLED" /\ listed = matched
    BY DEF Age, book, local
  <1>2. \A w \in Workers : ~(job[w] = "final" /\ pc[w] = "apply")
    BY DEF Age, CoverInv, Prompt
  <1>3. \A v \in Workers : KnowledgeFacts(v)' /\ StepFacts(v)'
    BY <1>1, <1>2 DEF CoverInv, KnowledgeFacts, StepFacts
  <1>4. Prompt' /\ VenueFacts' /\ PlacementFacts'
    BY <1>1 DEF CoverInv, Prompt, VenueFacts, PlacementFacts, Dead, Waits, Held
  <1>5. RowFacts'
    BY <1>1 DEF CoverInv, RowFacts, Dead, Held, CollateralCoversExposure, Exposed, Unsent
  <1>6. QED
    BY <1>3, <1>4, <1>5 DEF CoverInv

LEMMA CoverInit == Init /\ Prompt => CoverInv
  <1> SUFFICES ASSUME Init, Prompt PROVE CoverInv
    OBVIOUS
  <1>1. /\ status = "NONE" /\ filled = 0 /\ res = "NONE" /\ venue = "none" /\ matched = 0
        /\ ~aged /\ ~expired
    BY Zenon DEF Init
  <1>2. \A w \in Workers : /\ pc[w] = "idle" /\ job[w] = "none" /\ seen[w].state = "NONE"
                            /\ copy[w].status = "NONE" /\ copy[w].filled = 0
    BY DEF Init, NoView
  <1>3. VenueFacts /\ RowFacts
    BY <1>1 DEF VenueFacts, RowFacts, Dead, CollateralCoversExposure, Exposed
  <1>4. PlacementFacts
    BY <1>2 DEF PlacementFacts
  <1>5. \A w \in Workers : KnowledgeFacts(w) /\ StepFacts(w)
    BY <1>1, <1>2 DEF KnowledgeFacts, StepFacts, PreLabels, Deferring
  <1>6. QED
    BY <1>3, <1>4, <1>5, OneWayInitially DEF CoverInv

LEMMA CoverNext == CoverInv /\ [Next]_vars => CoverInv'
  <1> SUFFICES ASSUME CoverInv, [Next]_vars PROVE CoverInv'
    BY SMTT(30)
  <1>1. OneWayInv'
    BY OneWayNext DEF CoverInv
  <1>2. ASSUME NEW w \in Workers, Work(w) PROVE CoverInv'
    <2>1. CASE Submitting(w)
      BY <1>1, <2>1, EarlyWrites, LateWrites, EarlyLocal, LateLocals, StartSubmitCover, PlaceCover, Zenon
         DEF Submitting
    <2>2. CASE Synchronizing(w)
      BY <1>1, <2>2, ListFillsCover, ApplyFillCover, EndSyncCover, Zenon DEF Synchronizing
    <2>3. CASE Settling(w)
      BY <1>1, <2>3, LateWrites, HoldCover, DeferCover, ReleaseCover, Zenon DEF Settling
    <2>4. CASE Reconciling(w)
      BY <1>1, <2>4, LateWrites, LateLocals, ApplyReleaseCover, Zenon DEF Reconciling
    <2>5. CASE Cancelling(w)
      BY <1>1, <2>5, LateWrites, LateLocals, CancelReturnsCover, FinalGetCover, Zenon DEF Cancelling
    <2>6. QED
      BY <1>2, <2>1, <2>2, <2>3, <2>4, <2>5, Zenon DEF Work
  <1>3. ASSUME NEW w \in Workers, Crash(w) PROVE CoverInv'
    BY <1>1, <1>3, StopCover DEF Crash
  <1>4. CASE UNCHANGED vars
    <2>1. UNCHANGED <<status, filled, aged, res, venue, matched, listed, confirmed, expired, placed, pc, job, copy, seen, goal>>
      BY <1>4 DEF vars, row, book, local
    <2>2. VenueFacts' /\ RowFacts'
      BY <2>1 DEF CoverInv, VenueFacts, RowFacts, Dead, Held, CollateralCoversExposure, Exposed
    <2>3. ASSUME NEW w \in Workers PROVE KnowledgeFacts(w)' /\ StepFacts(w)'
      <3>1. KnowledgeFacts(w) /\ StepFacts(w)
        BY DEF CoverInv
      <3>2. QED
        BY <2>1, <3>1 DEF KnowledgeFacts, StepFacts
    <2>4. PlacementFacts'
      BY <2>1, Zenon DEF CoverInv, PlacementFacts, Held, Waits
    <2>5. QED
      BY <1>1, <2>2, <2>3, <2>4 DEF CoverInv, Prompt
  <1>5. QED
    BY <1>1, <1>2, <1>3, <1>4, CallsCover, VenueCover, AgeCover, ZenonT(30) DEF Next

LEMMA CoverImplies == CoverInv => LedgerFollowsVenue /\ ReleaseMissesNoTrade
  <1> SUFFICES ASSUME CoverInv PROVE LedgerFollowsVenue /\ ReleaseMissesNoTrade
    OBVIOUS
  <1>1. TypeOK /\ CollateralCoversExposure
    BY CoverTypes DEF TypeInv, CoverInv, RowFacts
  <1>2. status \in PreSubmit => ~Exposed
    BY CoverTypes DEF PlacementInv, TypeInv, Unsent, CoverInv, VenueFacts, Exposed
  <1>3. status = "REJECTED" => ~Exposed
    BY CoverTypes DEF TypeInv, CoverInv, VenueFacts, RowFacts, Exposed
  <1>4. status = "FILLED" => ~Exposed /\ filled = Size /\ res = "SETTLED"
    BY CoverTypes, ExecutionConstants DEF TypeInv, CoverInv, RowFacts, Exposed
  <1>5. ReleaseMissesNoTrade
    BY CoverTypes DEF CoverInv, RowFacts, CollateralCoversExposure, Exposed, Held, ReleaseMissesNoTrade
  <1>6. QED
    BY <1>1, <1>2, <1>3, <1>4, <1>5 DEF LedgerFollowsVenue, FinalStatusIsTrue

\* Unless the service emulates an IOC, or the finality grace ends within a scan
\* of the trades, the reservation is held as long as the venue may execute the
\* order or has executed lots that are not booked, and a row that says rejected
\* or filled is what the venue did: for any number of workers, any size and
\* any crashes (service.go, reservation.go, fill_ledger.go).
THEOREM CollateralIsKept == Prompt /\ Spec => []LedgerFollowsVenue
  <1>1. CoverInv => LedgerFollowsVenue
    BY CoverImplies
  <1>2. QED
    BY <1>1, CoverInit, CoverNext, PTL DEF Spec

\* Under the same premise FinalizeCancellation and ResolveUnaccepted release the
\* collateral of a cancelled order only after every trade of it was booked.
THEOREM ReleaseComesAfterTrades == Prompt /\ Spec => []ReleaseMissesNoTrade
  <1>1. CoverInv => ReleaseMissesNoTrade
    BY CoverImplies
  <1>2. QED
    BY <1>1, CoverInit, CoverNext, PTL DEF Spec
=============================================================================
