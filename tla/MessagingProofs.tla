-------------------------- MODULE MessagingProofs --------------------------
(***************************************************************************)
(* Messages in and messages out.  DecisionDelivery, for any number of      *)
(* deliveries and decisions: the gates do not compete, and what was        *)
(* completed stays completed.  Outbox, for every number of events and      *)
(* dispatchers, every batch size, lease and backoff: no event is lost and  *)
(* none is revived.                                                        *)
(***************************************************************************)
EXTENDS DecisionDelivery, Outbox, TLAPS

-----------------------------------------------------------------------------
(* Decision delivery.                                                      *)


Rows == [status : {"NONE"} \cup Open \cup Completed, attempt : Nat, stale : BOOLEAN]
Loops == [at : {"down", "ready", "requeue", "claim", "batch", "decide"},
          mode : {"startup", "recover", "cycle"}, cycle : Nat, blocked : BOOLEAN, ended : BOOLEAN]
Jobs == [at : {"none", "queued", "submit", "validate", "wait", "place", "complete", "done"},
         attempt : Nat, seen : OrderStatus, failed : BOOLEAN]

Busy(p, i) == job[p][i].at \in {"validate", "wait", "place"}
Active(p, i) == job[p][i].at \notin {"none", "done"}

\* A delivery between the creation of its order and the answer of the venue
\* finds the order where it left it.
OrderIsKept ==
  \A p \in Processes, i \in Intents :
    /\ job[p][i].at \in {"validate", "wait"} => order[i] = "VALIDATING"
    /\ job[p][i].at = "place" => order[i] = "RESERVED"

OneInHand == \A p, q \in Processes, i \in Intents : Busy(p, i) /\ Busy(q, i) => p = q

NotYetPlaced == \A i \in Intents : order[i] \in {"NONE", "VALIDATING", "RESERVED"} => placed[i] = 0

\* attempt_count is a fencing token: it never falls behind a delivery in hand,
\* and two deliveries of an intent have different ones.
Fenced ==
  \A p \in Processes, i \in Intents : Active(p, i) =>
    /\ 1 <= job[p][i].attempt /\ job[p][i].attempt <= row[i].attempt
    /\ \A q \in Processes : Active(q, i) /\ job[q][i].attempt = job[p][i].attempt => p = q

\* An intent has no row before the output of its cycle is stored.
Unissued == \A i \in Intents : CycleOf[i] > issued => row[i] = NoRow

DeliveryInv ==
  /\ TypeOK /\ OrderIsKept /\ OneInHand /\ NotYetPlaced /\ NoSecondPlace
  /\ Fenced /\ LastClaimDecides /\ Unissued

-----------------------------------------------------------------------------
(* Types.                                                                  *)

LEMMA Constants ==
  /\ CycleOf \in [Intents -> Nat] /\ Cost \in [Intents -> Nat] /\ Cash \in Nat
  /\ \A i \in Intents : CycleOf[i] > 0
  /\ MaxFaults \in Nat /\ Cohort \subseteq Intents
  BY DeliveryConstants

LEMMA Typed ==
  TypeOK <=> /\ row \in [Intents -> Rows] /\ order \in [Intents -> OrderStatus]
             /\ placed \in [Intents -> Nat] /\ cash \in Nat /\ issued \in Nat /\ faults \in Nat
             /\ proc \in [Processes -> Loops] /\ job \in [Processes -> [Intents -> Jobs]]
             /\ released \in [Processes -> SUBSET Intents]
  BY DEF TypeOK, Rows, Loops, Jobs

LEMMA RowUpdates ==
  ASSUME NEW r \in Rows
  PROVE  /\ \A status \in {"NONE"} \cup Open \cup Completed :
              /\ [r EXCEPT !.status = status] \in Rows
              /\ [r EXCEPT !.status = status].status = status
              /\ [r EXCEPT !.status = status].attempt = r.attempt
         /\ [r EXCEPT !.stale = TRUE] \in Rows
         /\ [r EXCEPT !.status = "PENDING", !.stale = FALSE] \in Rows
         /\ [r EXCEPT !.status = "PENDING", !.stale = FALSE].status = "PENDING"
         /\ [r EXCEPT !.status = "PENDING", !.stale = FALSE].attempt = r.attempt
  <1>1. "PENDING" \in {"NONE"} \cup Open \cup Completed
    BY DEF Open
  <1> QED
    BY <1>1, Zenon DEF Rows

LEMMA LoopUpdates ==
  ASSUME NEW l \in Loops
  PROVE  /\ \A at \in {"down", "ready", "requeue", "claim", "batch", "decide"} :
              /\ [l EXCEPT !.at = at] \in Loops
              /\ \A blocked \in BOOLEAN : [l EXCEPT !.blocked = blocked, !.at = at] \in Loops
         /\ [l EXCEPT !.at = "requeue", !.mode = "recover"] \in Loops
         /\ \A c \in Nat : [l EXCEPT !.at = "claim", !.mode = "cycle", !.cycle = c] \in Loops
         /\ \A blocked \in BOOLEAN : [l EXCEPT !.blocked = blocked] \in Loops
         /\ [l EXCEPT !.ended = TRUE] \in Loops
  BY Zenon DEF Loops

Labels == {"none", "queued", "submit", "validate", "wait", "place", "complete", "done"}

LEMMA JobProceeds ==
  ASSUME NEW j \in Jobs, NEW at \in Labels
  PROVE  /\ [j EXCEPT !.at = at] \in Jobs
         /\ [j EXCEPT !.at = at].at = at /\ [j EXCEPT !.at = at].attempt = j.attempt
  BY Zenon DEF Jobs, Labels

LEMMA JobClaims ==
  ASSUME NEW j \in Jobs, NEW n \in Nat
  PROVE  /\ [j EXCEPT !.at = "queued", !.attempt = n] \in Jobs
         /\ [j EXCEPT !.at = "queued", !.attempt = n].at = "queued"
         /\ [j EXCEPT !.at = "queued", !.attempt = n].attempt = n
  BY Zenon DEF Jobs

LEMMA Constructed ==
  /\ NoRow \in Rows /\ NoJob \in Jobs /\ Down \in Loops /\ NoJobs \in [Intents -> Jobs]
  /\ \A i \in Intents : NoJobs[i] = NoJob
  /\ NoRow.attempt = 0 /\ NoRow.status = "NONE" /\ NoJob.at = "none"
  BY DEF NoRow, NoJob, NoJobs, Down, Rows, Jobs, Loops, Open, Completed, OrderStatus

LEMMA Fields ==
  /\ \A r \in Rows : r.status \in {"NONE"} \cup Open \cup Completed /\ r.attempt \in Nat /\ r.stale \in BOOLEAN
  /\ \A j \in Jobs : /\ j.attempt \in Nat /\ j.seen \in OrderStatus
                     /\ j.at \in {"none", "queued", "submit", "validate", "wait", "place", "complete", "done"}
  /\ \A l \in Loops : l.blocked \in BOOLEAN /\ l.ended \in BOOLEAN
  BY DEF Rows, Jobs, Loops

\* A delivery of p moves on; every other one stays as it was.
Moves(p, i, at) ==
  /\ job' \in [Processes -> [Intents -> Jobs]]
  /\ job'[p][i].at = at /\ job'[p][i].attempt = job[p][i].attempt
  /\ \A q \in Processes, k \in Intents : q # p \/ k # i => job'[q][k] = job[q][k]

LEMMA StepMoves ==
  ASSUME TypeOK, NEW p \in Processes, NEW i \in Intents, NEW next \in Jobs, Step(p, i, next),
         next.attempt = job[p][i].attempt
  PROVE  Moves(p, i, next.at)
  <1>1. job \in [Processes -> [Intents -> Jobs]]
    BY Typed
  <1> QED
    BY <1>1 DEF Step, Moves

LEMMA ProceedMoves ==
  ASSUME TypeOK, NEW p \in Processes, NEW i \in Intents, NEW at \in Labels, Proceed(p, i, at)
  PROVE  Moves(p, i, at)
  <1> DEFINE next == [job[p][i] EXCEPT !.at = at]
  <1>1. job[p][i] \in Jobs
    BY Typed
  <1>2. next \in Jobs /\ next.at = at /\ next.attempt = job[p][i].attempt
    BY <1>1, JobProceeds
  <1>3. Step(p, i, next)
    BY DEF Proceed
  <1> HIDE DEF next
  <1> QED
    BY <1>2, <1>3, StepMoves

LEMMA ReturnMoves ==
  ASSUME TypeOK, NEW p \in Processes, NEW i \in Intents, NEW status \in OrderStatus,
         NEW failed \in BOOLEAN, Return(p, i, status, failed)
  PROVE  Moves(p, i, "complete") /\ released' \in [Processes -> SUBSET Intents]
  <1> DEFINE next == [job[p][i] EXCEPT !.at = "complete", !.seen = status, !.failed = failed]
  <1>1. job[p][i] \in Jobs /\ released \in [Processes -> SUBSET Intents]
    BY Typed
  <1>2. next \in Jobs /\ next.at = "complete" /\ next.attempt = job[p][i].attempt
    BY <1>1, Zenon DEF Jobs
  <1>3. Step(p, i, next) /\ ReleaseTurn(p, i)
    BY DEF Return
  <1> HIDE DEF next
  <1>4. Moves(p, i, "complete")
    BY <1>2, <1>3, StepMoves
  <1> QED
    BY <1>1, <1>3, <1>4 DEF ReleaseTurn

-----------------------------------------------------------------------------
(* Steps that leave the rows alone.                                        *)

LEMMA LoopSteps ==
  ASSUME TypeOK, NEW p \in Processes, NEW blocked \in BOOLEAN,
         NEW at \in {"down", "ready", "requeue", "claim", "batch", "decide"}
  PROVE  /\ Goto(p, at) => proc' \in [Processes -> Loops]
         /\ After(p, blocked) => proc' \in [Processes -> Loops]
         /\ \A l \in Loops : Loop(p, l) => proc' \in [Processes -> Loops]
         /\ proc[p] \in Loops /\ proc[p].blocked \in BOOLEAN
  <1>1. proc[p] \in Loops /\ proc[p].blocked \in BOOLEAN /\ proc \in [Processes -> Loops]
    BY Typed, Fields
  <1>2. \A l \in Loops : Loop(p, l) => proc' \in [Processes -> Loops]
    BY <1>1 DEF Loop
  <1>3. Goto(p, at) => proc' \in [Processes -> Loops]
    BY <1>1, <1>2, LoopUpdates, Zenon DEF Goto
  <1>4. ASSUME After(p, blocked) PROVE proc' \in [Processes -> Loops]
    <2> DEFINE next == CASE proc[p].mode = "startup" -> IF blocked THEN "down" ELSE "ready"
                         [] proc[p].mode = "recover" -> IF blocked THEN "ready" ELSE "decide"
                         [] OTHER -> "ready"
    <2>1. next \in {"down", "ready", "requeue", "claim", "batch", "decide"}
      OBVIOUS
    <2>2. Loop(p, [proc[p] EXCEPT !.blocked = blocked, !.at = next])
      BY <1>4 DEF After
    <2> HIDE DEF next
    <2> QED
      BY <1>1, <1>2, <2>1, <2>2, LoopUpdates, Zenon
  <1> QED
    BY <1>1, <1>2, <1>3, <1>4

\* The loop goes on, a pass fails or the context of a process ends.
LEMMA LoopKeeps ==
  ASSUME DeliveryInv, UNCHANGED <<row, order, placed, cash, issued, job, released>>,
         proc' \in [Processes -> Loops], faults' \in Nat
  PROVE  DeliveryInv'
  <1>1. TypeOK'
    BY Typed DEF DeliveryInv, TypeOK, Loops
  <1> QED
    BY <1>1 DEF DeliveryInv, OrderIsKept, OneInHand, NotYetPlaced, NoSecondPlace, Fenced,
                LastClaimDecides, Unissued, Busy, Active

\* A process forgets its batch.
LEMMA ForgetKeeps ==
  ASSUME DeliveryInv, NEW p \in Processes, UNCHANGED <<row, order, placed, cash, issued>>,
         proc' \in [Processes -> Loops], faults' \in Nat,
         job' = [job EXCEPT ![p] = NoJobs], released' = [released EXCEPT ![p] = {}]
  PROVE  DeliveryInv'
  <1>1. job \in [Processes -> [Intents -> Jobs]] /\ released \in [Processes -> SUBSET Intents] /\ TypeOK
    BY Typed DEF DeliveryInv
  <1>2. job' \in [Processes -> [Intents -> Jobs]] /\ released' \in [Processes -> SUBSET Intents]
    BY <1>1, Constructed
  <1>3. TypeOK'
    BY <1>1, <1>2 DEF TypeOK, Loops, Jobs
  <1>4. \A q \in Processes, i \in Intents :
          job'[q][i] = job[q][i] \/ job'[q][i].at = "none"
    BY <1>1, Constructed
  <1> QED
    BY <1>3, <1>4 DEF DeliveryInv, OrderIsKept, OneInHand, NotYetPlaced, NoSecondPlace, Fenced,
                      LastClaimDecides, Unissued, Busy, Active

-----------------------------------------------------------------------------
(* Steps of the rows: requeue, claim, output, age.                         *)

LEMMA RequeueKeeps ==
  ASSUME DeliveryInv, NEW p \in Processes, RequeueStaleSubmitting(p)
  PROVE  DeliveryInv'
  <1>1. /\ TypeOK /\ row \in [Intents -> Rows]
        /\ UNCHANGED <<order, placed, cash, issued, job, released, faults>> /\ Goto(p, "claim")
    BY Typed, Zenon DEF DeliveryInv, RequeueStaleSubmitting, execution
  <1>2. proc' \in [Processes -> Loops]
    BY <1>1, LoopSteps, Zenon
  <1>3. \A i \in Intents :
          \/ row'[i] = row[i]
          \/ /\ row[i].status = "SUBMITTING"
             /\ row'[i] = [row[i] EXCEPT !.status = "PENDING", !.stale = FALSE]
    BY <1>1, Zenon DEF RequeueStaleSubmitting, Requeued
  <1>4. ASSUME NEW i \in Intents
        PROVE  /\ row'[i] \in Rows
               /\ \/ row'[i] = row[i]
                  \/ /\ row[i].status = "SUBMITTING" /\ row'[i].status = "PENDING"
                     /\ row'[i].attempt = row[i].attempt
    <2> DEFINE r == row[i]
    <2>1. r \in Rows
      BY <1>1
    <2>2. row'[i] = r \/ (r.status = "SUBMITTING" /\ row'[i] = [r EXCEPT !.status = "PENDING", !.stale = FALSE])
      BY <1>3, Zenon
    <2> HIDE DEF r
    <2>3. /\ row'[i] \in Rows
          /\ row'[i] = r \/ (r.status = "SUBMITTING" /\ row'[i].status = "PENDING" /\ row'[i].attempt = r.attempt)
      BY <2>1, <2>2, RowUpdates, Zenon
    <2> QED
      BY <2>3 DEF r
  <1>5. row' \in [Intents -> Rows]
    BY <1>4, Zenon DEF RequeueStaleSubmitting
  <1>6. TypeOK'
    BY <1>1, <1>2, <1>5 DEF TypeOK, Rows, Loops
  <1>7. Fenced' /\ LastClaimDecides' /\ Unissued'
    BY <1>1, <1>4, Constructed DEF DeliveryInv, Fenced, LastClaimDecides, Unissued, Active, Open
  <1> QED
    BY <1>1, <1>6, <1>7 DEF DeliveryInv, OrderIsKept, OneInHand, NotYetPlaced, NoSecondPlace, Busy

LEMMA AgeKeeps ==
  ASSUME DeliveryInv, NEW i \in Intents, Age(i)
  PROVE  DeliveryInv'
  <1>1. /\ TypeOK /\ row \in [Intents -> Rows] /\ row[i].status = "SUBMITTING"
        /\ row' = [row EXCEPT ![i] = [row[i] EXCEPT !.stale = TRUE]]
        /\ UNCHANGED <<order, placed, cash, issued, proc, job, released, faults>>
    BY Typed DEF DeliveryInv, Age, execution, local
  <1>2. row' \in [Intents -> Rows]
    BY <1>1, RowUpdates, Zenon DEF Open
  <1>3. \A k \in Intents :
          row'[k].status = row[k].status /\ row'[k].attempt = row[k].attempt /\ (k # i => row'[k] = row[k])
    BY <1>1 DEF Rows
  <1>4. TypeOK'
    BY <1>1, <1>2 DEF TypeOK, Rows
  <1>5. Fenced' /\ LastClaimDecides' /\ Unissued'
    BY <1>1, <1>3, Constructed DEF DeliveryInv, Fenced, LastClaimDecides, Unissued, Active
  <1> QED
    BY <1>1, <1>4, <1>5 DEF DeliveryInv, OrderIsKept, OneInHand, NotYetPlaced, NoSecondPlace, Busy

\* A claim raises the fencing token of every row it takes.
LEMMA ClaimKeeps ==
  ASSUME DeliveryInv, NEW p \in Processes, ClaimPendingIntents(p)
  PROVE  DeliveryInv'
  <1> DEFINE batch == FirstOf(Claimable(p))
  <1>1. /\ TypeOK /\ row \in [Intents -> Rows] /\ job \in [Processes -> [Intents -> Jobs]]
        /\ released \in [Processes -> SUBSET Intents]
        /\ UNCHANGED <<order, placed, cash, issued, faults>> /\ Goto(p, "batch")
    BY Typed, Zenon DEF DeliveryInv, ClaimPendingIntents, execution
  <1>2. proc' \in [Processes -> Loops]
    BY <1>1, LoopSteps, Zenon
  <1>3. \A i \in batch : i \in Intents /\ row[i].status = "PENDING"
    BY DEF FirstOf, Claimable
  <1>4. /\ row' = [i \in Intents |->
                     IF i \in batch
                     THEN [status |-> "SUBMITTING", attempt |-> row[i].attempt + 1, stale |-> FALSE]
                     ELSE row[i]]
        /\ job' = [job EXCEPT ![p] = [i \in Intents |->
                     IF i \in batch THEN [NoJob EXCEPT !.at = "queued", !.attempt = row[i].attempt + 1]
                     ELSE NoJob]]
        /\ released' = [released EXCEPT ![p] = {}]
    BY Zenon DEF ClaimPendingIntents
  <1> HIDE DEF batch
  <1>5. \A i \in Intents : row[i].attempt \in Nat /\ row[i].attempt + 1 \in Nat
    BY <1>1, Fields
  <1>6. row' \in [Intents -> Rows]
    BY <1>1, <1>4, <1>5, Zenon DEF Rows, Open
  <1>7. \A i \in Intents :
          IF i \in batch THEN row'[i].status = "SUBMITTING" /\ row'[i].attempt = row[i].attempt + 1
          ELSE row'[i] = row[i]
    BY <1>4, Zenon
  <1>8. ASSUME NEW i \in Intents
        PROVE  /\ job'[p][i] \in Jobs
               /\ IF i \in batch THEN job'[p][i].at = "queued" /\ job'[p][i].attempt = row[i].attempt + 1
                  ELSE job'[p][i].at = "none"
    <2>1. job'[p][i] = IF i \in batch THEN [NoJob EXCEPT !.at = "queued", !.attempt = row[i].attempt + 1] ELSE NoJob
      BY <1>1, <1>4, Zenon
    <2> DEFINE n == row[i].attempt + 1
    <2>2. n \in Nat
      BY <1>5
    <2> HIDE DEF n
    <2>4. CASE i \in batch
      <3>1. job'[p][i] = [NoJob EXCEPT !.at = "queued", !.attempt = n]
        BY <2>1, <2>4 DEF n
      <3>2. job'[p][i] \in Jobs /\ job'[p][i].at = "queued" /\ job'[p][i].attempt = n
        <4> DEFINE claimed == [NoJob EXCEPT !.at = "queued", !.attempt = n]
        <4>1. NoJob \in Jobs
          BY Constructed
        <4>2. claimed \in Jobs /\ claimed.at = "queued" /\ claimed.attempt = n
          BY <2>2, <4>1, JobClaims, Zenon
        <4> QED
          BY <3>1, <4>2, Zenon
      <3> QED
        BY <2>4, <3>2 DEF n
    <2>3. CASE i \notin batch
      BY <2>1, <2>3, Constructed
    <2> QED
      BY <2>3, <2>4
  <1>9. job' \in [Processes -> [Intents -> Jobs]] /\ released' \in [Processes -> SUBSET Intents]
    BY <1>1, <1>4, <1>8, Zenon
  <1>10. \A q \in Processes : q # p => job'[q] = job[q]
    BY <1>1, <1>4, Zenon
  <1>11. TypeOK'
    BY <1>1, <1>2, <1>6, <1>9 DEF TypeOK, Rows, Loops, Jobs
  <1>12. ASSUME NEW q \in Processes, NEW i \in Intents, Active(q, i)'
         PROVE  /\ 1 <= job'[q][i].attempt /\ job'[q][i].attempt <= row'[i].attempt
                /\ job'[q][i].attempt = row'[i].attempt => row'[i].status \in Open
                /\ q # p => Active(q, i) /\ job'[q][i] = job[q][i] /\ (i \in batch => job'[q][i].attempt < row'[i].attempt)
                /\ q = p => i \in batch /\ job'[q][i].attempt = row'[i].attempt
    <2>1. CASE q = p
      BY <1>5, <1>7, <1>8, <1>12, <2>1 DEF Active, Open
    <2>2. CASE q # p
      <3>1. Active(q, i) /\ job'[q][i] = job[q][i] /\ job[q][i].attempt \in Nat
        BY <1>1, <1>10, <1>12, <2>2, Fields DEF Active
      <3> QED
        BY <1>3, <1>5, <1>7, <2>2, <3>1 DEF DeliveryInv, Fenced, LastClaimDecides, Active, Open
    <2> QED
      BY <2>1, <2>2
  <1>13. \A q, r \in Processes, i \in Intents :
           Active(q, i)' /\ Active(r, i)' /\ job'[q][i].attempt = job'[r][i].attempt => q = r
    <2> SUFFICES ASSUME NEW q \in Processes, NEW r \in Processes, NEW i \in Intents, Active(q, i)', Active(r, i)',
                        job'[q][i].attempt = job'[r][i].attempt
                 PROVE  q = r
      OBVIOUS
    <2>1. job'[q][i].attempt \in Nat /\ row'[i].attempt \in Nat
      BY <1>6, <1>9, Fields
    <2>2. CASE q # p /\ r # p
      BY <1>12, <2>2 DEF DeliveryInv, Fenced
    <2>3. CASE q = p \/ r = p
      BY <1>12, <2>1, <2>3
    <2> QED
      BY <2>2, <2>3
  <1>17. Fenced' /\ LastClaimDecides'
    BY <1>12, <1>13 DEF Fenced, LastClaimDecides, Active
  <1>14. Unissued'
    BY <1>1, <1>3, <1>7, Constructed DEF DeliveryInv, Unissued
  <1>15. \A q \in Processes, i \in Intents : Busy(q, i)' => Busy(q, i) /\ job'[q][i] = job[q][i]
    BY <1>8, <1>10 DEF Busy
  <1>16. OrderIsKept' /\ OneInHand' /\ NotYetPlaced' /\ NoSecondPlace'
    BY <1>1, <1>15 DEF DeliveryInv, OrderIsKept, OneInHand, NotYetPlaced, NoSecondPlace, Busy
  <1> QED
    BY <1>11, <1>14, <1>16, <1>17 DEF DeliveryInv

\* The output of a cycle gives its intents their rows, once.
LEMMA DecideKeeps ==
  ASSUME DeliveryInv, NEW p \in Processes, Decide(p)
  PROVE  DeliveryInv'
  <1>1. /\ TypeOK /\ row \in [Intents -> Rows] /\ issued \in Nat
        /\ UNCHANGED <<order, placed, cash, job, released, faults>>
    BY Typed DEF DeliveryInv, Decide, execution
  <1>2. PICK c \in {issued, issued + 1} \ {0} :
          /\ issued' = c
          /\ row' = [i \in Intents |->
                       IF CycleOf[i] = c /\ c > issued THEN [NoRow EXCEPT !.status = "PENDING"] ELSE row[i]]
          /\ Loop(p, [proc[p] EXCEPT !.at = "claim", !.mode = "cycle", !.cycle = c])
    BY Zenon DEF Decide
  <1>3. c \in Nat /\ c >= issued /\ c <= issued + 1
    BY <1>1, <1>2
  <1>4. proc' \in [Processes -> Loops]
    BY <1>1, <1>2, <1>3, LoopSteps, LoopUpdates, Zenon
  <1>5. [NoRow EXCEPT !.status = "PENDING"] \in Rows /\ [NoRow EXCEPT !.status = "PENDING"].attempt = 0
    BY Zenon DEF NoRow, Rows, Open
  <1>6. row' \in [Intents -> Rows]
    BY <1>1, <1>2, <1>5
  <1>7. TypeOK'
    BY <1>1, <1>2, <1>3, <1>4, <1>6, Zenon DEF TypeOK, Rows, Loops
  <1>8. \A i \in Intents :
          \/ row'[i] = row[i]
          \/ CycleOf[i] = c /\ c > issued /\ row[i] = NoRow /\ \A q \in Processes : ~Active(q, i)
    <2>1. \A q \in Processes, i \in Intents : Active(q, i) => job[q][i].attempt \in Nat /\ row[i] # NoRow
      BY Typed, Fields, Constructed DEF DeliveryInv, Fenced
    <2> QED
      BY <1>1, <1>2, <1>3, <2>1, Constants DEF DeliveryInv, Unissued
  <1>9. Fenced' /\ LastClaimDecides'
    BY <1>1, <1>8 DEF DeliveryInv, Fenced, LastClaimDecides, Active
  <1>10. Unissued'
    BY <1>1, <1>2, <1>3, <1>8, Constants, SMTT(30) DEF DeliveryInv, Unissued
  <1> QED
    BY <1>1, <1>7, <1>9, <1>10 DEF DeliveryInv, OrderIsKept, OneInHand, NotYetPlaced, NoSecondPlace, Busy

-----------------------------------------------------------------------------
(* Steps of a delivery.                                                    *)

\* A delivery that moves on keeps its claim, or ends.
LEMMA MovesKeepsClaims ==
  ASSUME DeliveryInv, NEW p \in Processes, NEW i \in Intents, NEW at \in Labels, Moves(p, i, at),
         Active(p, i), UNCHANGED <<row, issued>>
  PROVE  Fenced' /\ LastClaimDecides' /\ Unissued'
  <1>1. \A q \in Processes, k \in Intents :
          Active(q, k)' => Active(q, k) /\ job'[q][k].attempt = job[q][k].attempt
    BY DEF Moves, Active
  <1> QED
    BY <1>1 DEF DeliveryInv, Fenced, LastClaimDecides, Unissued, Active

\* It is out of hand, and the order is left as it was or as it ended.
LEMMA LetsGo ==
  ASSUME DeliveryInv, NEW p \in Processes, NEW i \in Intents, NEW at \in {"submit", "complete", "done"}, Moves(p, i, at),
         \/ UNCHANGED <<order, placed>>
         \/ /\ Busy(p, i) /\ \E status \in {"REJECTED", "SENT", "UNKNOWN"} : order' = [order EXCEPT ![i] = status]
            /\ \/ UNCHANGED placed
               \/ job[p][i].at = "place" /\ placed' = [placed EXCEPT ![i] = placed[i] + 1]
  PROVE  OrderIsKept' /\ OneInHand' /\ NotYetPlaced' /\ NoSecondPlace'
  <1>1. /\ order \in [Intents -> OrderStatus] /\ placed \in [Intents -> Nat]
    BY Typed DEF DeliveryInv
  <1>2. \A q \in Processes, k \in Intents : Busy(q, k)' =>
          Busy(q, k) /\ job'[q][k] = job[q][k] /\ (q # p \/ k # i)
    BY DEF Moves, Busy
  <1>3. OneInHand'
    BY <1>2 DEF DeliveryInv, OneInHand
  <1>4. OrderIsKept'
    <2>1. \A q \in Processes, k \in Intents : Busy(q, k)' => order'[k] = order[k]
      BY <1>1, <1>2 DEF DeliveryInv, OneInHand
    <2> QED
      BY <1>2, <2>1 DEF DeliveryInv, OrderIsKept, Busy
  <1>5. NotYetPlaced' /\ NoSecondPlace'
    BY <1>1 DEF DeliveryInv, NotYetPlaced, NoSecondPlace, OrderIsKept
  <1> QED
    BY <1>3, <1>4, <1>5

\* It goes on with its order, which nobody else has in hand.
LEMMA HoldsOn ==
  ASSUME DeliveryInv, NEW p \in Processes, NEW i \in Intents, NEW at \in {"validate", "wait", "place"}, Moves(p, i, at),
         Busy(p, i) \/ order[i] = "NONE", UNCHANGED placed,
         \/ order' = order /\ order[i] = "VALIDATING" /\ at # "place"
         \/ order' = [order EXCEPT ![i] = "VALIDATING"] /\ order[i] = "NONE" /\ at # "place"
         \/ order' = [order EXCEPT ![i] = "RESERVED"] /\ order[i] = "VALIDATING" /\ at = "place"
  PROVE  OrderIsKept' /\ OneInHand' /\ NotYetPlaced' /\ NoSecondPlace'
  <1>1. /\ order \in [Intents -> OrderStatus] /\ placed \in [Intents -> Nat]
    BY Typed DEF DeliveryInv
  <1>2. \A q \in Processes : Busy(q, i) => q = p
    BY DEF DeliveryInv, OneInHand, OrderIsKept, Busy
  <1>3. \A q \in Processes, k \in Intents : Busy(q, k)' =>
          (q = p /\ k = i) \/ (Busy(q, k) /\ job'[q][k] = job[q][k] /\ k # i)
    BY <1>2 DEF Moves, Busy
  <1>4. OneInHand'
    BY <1>2, <1>3 DEF DeliveryInv, OneInHand
  <1>5. OrderIsKept'
    BY <1>1, <1>3 DEF DeliveryInv, OrderIsKept, Busy, Moves
  <1>6. NotYetPlaced' /\ NoSecondPlace'
    BY <1>1 DEF DeliveryInv, NotYetPlaced, NoSecondPlace
  <1> QED
    BY <1>4, <1>5, <1>6

\* What every step of a delivery has in common.
DeliveryStep(p, i, at) ==
  /\ Moves(p, i, at) /\ released' \in [Processes -> SUBSET Intents]
  /\ faults' \in Nat /\ cash' \in Nat /\ order' \in [Intents -> OrderStatus] /\ placed' \in [Intents -> Nat]

LEMMA StepTyped ==
  ASSUME TypeOK, NEW p \in Processes, NEW i \in Intents, NEW at \in Labels, DeliveryStep(p, i, at),
         UNCHANGED issued, row' \in [Intents -> Rows], proc' \in [Processes -> Loops]
  PROVE  TypeOK'
  BY DEF DeliveryStep, Moves, TypeOK, Rows, Loops, Jobs

LEMMA StepKeeps ==
  ASSUME DeliveryInv, NEW p \in Processes, NEW i \in Intents, NEW at \in Labels, DeliveryStep(p, i, at),
         Active(p, i), UNCHANGED <<row, issued, proc>>,
         OrderIsKept' /\ OneInHand' /\ NotYetPlaced' /\ NoSecondPlace'
  PROVE  DeliveryInv'
  <1>1. TypeOK /\ row' \in [Intents -> Rows] /\ proc' \in [Processes -> Loops]
    BY Typed DEF DeliveryInv
  <1>2. TypeOK'
    BY <1>1, StepTyped, SMTT(30)
  <1> QED
    BY <1>2, MovesKeepsClaims DEF DeliveryInv, DeliveryStep


\* Until Submit creates the order, nothing but the delivery itself moves.
LEMMA StartKeeps ==
  ASSUME DeliveryInv, NEW p \in Processes, NEW i \in Intents, StartDelivery(p, i)
  PROVE  DeliveryInv'
  <1>1. /\ TypeOK /\ job[p][i].at = "queued" /\ released \in [Processes -> SUBSET Intents]
        /\ order \in [Intents -> OrderStatus] /\ placed \in [Intents -> Nat] /\ cash \in Nat /\ faults \in Nat
        /\ UNCHANGED <<row, order, placed, cash, issued, proc, faults>>
    BY Typed, SMTT(30) DEF DeliveryInv, StartDelivery, execution
  <1>2. PICK at \in {"submit", "complete", "done"} : Proceed(p, i, at)
    BY DEF StartDelivery
  <1>3. Moves(p, i, at)
    BY <1>1, <1>2, ProceedMoves DEF Labels
  <1>4. released' \in [Processes -> SUBSET Intents]
    BY <1>1 DEF StartDelivery, ReleaseTurn
  <1>5. DeliveryStep(p, i, at) /\ Active(p, i) /\ at \in Labels
    BY <1>1, <1>2, <1>3, <1>4 DEF DeliveryStep, Active, Labels
  <1>6. OrderIsKept' /\ OneInHand' /\ NotYetPlaced' /\ NoSecondPlace'
    BY <1>1, <1>2, <1>3, LetsGo
  <1> QED
    BY <1>1, <1>5, <1>6, StepKeeps

\* The call ends with an answer: the order is as it was.
LEMMA AnswerKeeps ==
  ASSUME DeliveryInv, NEW p \in Processes, NEW i \in Intents, NEW status \in OrderStatus, NEW failed \in BOOLEAN,
         Return(p, i, status, failed), Active(p, i), UNCHANGED <<row, order, placed, cash, issued, proc>>,
         faults' \in Nat
  PROVE  DeliveryInv'
  <1>1. /\ TypeOK /\ order \in [Intents -> OrderStatus] /\ placed \in [Intents -> Nat] /\ cash \in Nat
    BY Typed DEF DeliveryInv
  <1>2. Moves(p, i, "complete") /\ released' \in [Processes -> SUBSET Intents]
    BY <1>1, ReturnMoves
  <1>3. DeliveryStep(p, i, "complete") /\ "complete" \in Labels
    BY <1>1, <1>2 DEF DeliveryStep, Labels
  <1>4. OrderIsKept' /\ OneInHand' /\ NotYetPlaced' /\ NoSecondPlace'
    BY <1>2, LetsGo
  <1> QED
    BY <1>3, <1>4, StepKeeps

\* The call ends, and leaves the order refused, sent or unknown.
LEMMA OutcomeKeeps ==
  ASSUME DeliveryInv, NEW p \in Processes, NEW i \in Intents, NEW status \in {"REJECTED", "SENT", "UNKNOWN"},
         NEW failed \in BOOLEAN, Return(p, i, status, failed), Busy(p, i),
         order' = [order EXCEPT ![i] = status], cash' \in Nat,
         \/ UNCHANGED placed
         \/ job[p][i].at = "place" /\ placed' = [placed EXCEPT ![i] = placed[i] + 1],
         UNCHANGED <<row, issued, proc, faults>>
  PROVE  DeliveryInv'
  <1>1. /\ TypeOK /\ order \in [Intents -> OrderStatus] /\ placed \in [Intents -> Nat] /\ faults \in Nat
        /\ status \in OrderStatus
    BY Typed DEF DeliveryInv, OrderStatus
  <1>2. Moves(p, i, "complete") /\ released' \in [Processes -> SUBSET Intents]
    BY <1>1, ReturnMoves
  <1>3. order' \in [Intents -> OrderStatus] /\ placed' \in [Intents -> Nat]
    BY <1>1
  <1>4. DeliveryStep(p, i, "complete") /\ "complete" \in Labels /\ Active(p, i)
    BY <1>1, <1>2, <1>3 DEF DeliveryStep, Labels, Active, Busy
  <1>5. /\ \E result \in {"REJECTED", "SENT", "UNKNOWN"} : order' = [order EXCEPT ![i] = result]
        /\ "complete" \in {"submit", "complete", "done"}
    BY Zenon
  <1>6. OrderIsKept' /\ OneInHand' /\ NotYetPlaced' /\ NoSecondPlace'
    BY <1>2, <1>5, LetsGo, Zenon
  <1> QED
    BY <1>4, <1>6, StepKeeps

LEMMA SubmitKeeps ==
  ASSUME DeliveryInv, NEW p \in Processes, NEW i \in Intents, Submit(p, i)
  PROVE  DeliveryInv'
  <1>1. /\ TypeOK /\ released \in [Processes -> SUBSET Intents] /\ job[p][i].at = "submit"
        /\ order \in [Intents -> OrderStatus] /\ placed \in [Intents -> Nat] /\ cash \in Nat /\ faults \in Nat
        /\ UNCHANGED <<row, placed, cash, issued, proc, faults>>
    BY Typed DEF DeliveryInv, Submit
  <1>2. CASE order[i] # "NONE"
    <2>1. Return(p, i, order[i], FALSE) /\ UNCHANGED order
      BY <1>2, Zenon DEF Submit
    <2>2. order[i] \in OrderStatus /\ Active(p, i)
      BY <1>1 DEF Active
    <2>3. UNCHANGED <<row, order, placed, cash, issued, proc>> /\ faults' \in Nat
      BY <1>1, <2>1
    <2> QED
      BY <2>1, <2>2, <2>3, AnswerKeeps, Zenon
  <1>3. CASE order[i] = "NONE"
    <2>1. order' = [order EXCEPT ![i] = "VALIDATING"] /\ Proceed(p, i, "validate") /\ UNCHANGED released
      BY <1>3 DEF Submit
    <2>2. Moves(p, i, "validate")
      BY <1>1, <2>1, ProceedMoves DEF Labels
    <2>3. order' \in [Intents -> OrderStatus]
      BY <1>1, <2>1 DEF OrderStatus
    <2>4. DeliveryStep(p, i, "validate") /\ "validate" \in Labels /\ Active(p, i)
      BY <1>1, <2>1, <2>2, <2>3 DEF DeliveryStep, Labels, Active
    <2>5. OrderIsKept' /\ OneInHand' /\ NotYetPlaced' /\ NoSecondPlace'
      BY <1>1, <1>3, <2>1, <2>2, HoldsOn, Zenon
    <2> QED
      BY <1>1, <2>4, <2>5, StepKeeps
  <1> QED
    BY <1>2, <1>3

LEMMA FailureKeeps ==
  ASSUME DeliveryInv, NEW p \in Processes, NEW i \in Intents, SubmitFails(p, i) \/ SubmitInterrupted(p, i)
  PROVE  DeliveryInv'
  <1>1. order \in [Intents -> OrderStatus] /\ faults \in Nat /\ "NONE" \in OrderStatus
    BY Typed DEF DeliveryInv, OrderStatus
  <1>2. faults' = faults \/ faults' = faults + 1
    BY Zenon DEF SubmitFails, SubmitInterrupted, Fault
  <1>3. faults' \in Nat
    BY <1>1, <1>2
  <1>4. job[p][i].at = "submit" \/ job[p][i].at \in {"validate", "wait", "place"}
    BY Zenon DEF SubmitFails, SubmitInterrupted
  <1>5. UNCHANGED <<row, order, placed, cash, issued, proc>>
    BY Zenon DEF SubmitFails, SubmitInterrupted, execution
  <1>6. Return(p, i, "NONE", TRUE) \/ Return(p, i, order[i], TRUE)
    BY Zenon DEF SubmitFails, SubmitInterrupted
  <1>7. order[i] \in OrderStatus /\ Active(p, i)
    BY <1>1, <1>4 DEF Active
  <1> QED
    BY <1>1, <1>3, <1>5, <1>6, <1>7, AnswerKeeps, Zenon

LEMMA ValidatedKeeps ==
  ASSUME DeliveryInv, NEW p \in Processes, NEW i \in Intents, Validated(p, i)
  PROVE  DeliveryInv'
  <1>1. /\ TypeOK /\ released \in [Processes -> SUBSET Intents] /\ Busy(p, i) /\ order[i] = "VALIDATING"
        /\ order \in [Intents -> OrderStatus] /\ placed \in [Intents -> Nat] /\ cash \in Nat /\ faults \in Nat
        /\ UNCHANGED <<row, order, placed, cash, issued, proc, released, faults>>
    BY Typed, SMTT(30) DEF DeliveryInv, OrderIsKept, Validated, Busy, execution
  <1>2. Moves(p, i, "wait")
    BY <1>1, ProceedMoves DEF Validated, Labels
  <1>3. DeliveryStep(p, i, "wait") /\ "wait" \in Labels /\ Active(p, i)
    BY <1>1, <1>2 DEF DeliveryStep, Labels, Active, Busy
  <1>4. OrderIsKept' /\ OneInHand' /\ NotYetPlaced' /\ NoSecondPlace'
    BY <1>1, <1>2, HoldsOn
  <1> QED
    BY <1>1, <1>3, <1>4, StepKeeps

LEMMA RefusedKeeps ==
  ASSUME DeliveryInv, NEW p \in Processes, NEW i \in Intents, Refused(p, i)
  PROVE  DeliveryInv'
  <1>1. cash \in Nat /\ Busy(p, i)
    BY Typed DEF DeliveryInv, Refused, Busy
  <1>2. /\ Return(p, i, "REJECTED", TRUE) /\ order' = [order EXCEPT ![i] = "REJECTED"]
        /\ UNCHANGED placed /\ UNCHANGED cash /\ UNCHANGED <<row, issued, proc, faults>>
    BY Zenon DEF Refused
  <1>3. "REJECTED" \in {"REJECTED", "SENT", "UNKNOWN"} /\ TRUE \in BOOLEAN /\ cash' \in Nat
    BY <1>1, <1>2
  <1> QED
    BY <1>1, <1>2, <1>3, OutcomeKeeps, Zenon

LEMMA ReserveKeeps ==
  ASSUME DeliveryInv, NEW p \in Processes, NEW i \in Intents, Reserve(p, i)
  PROVE  DeliveryInv'
  <1>1. /\ TypeOK /\ released \in [Processes -> SUBSET Intents] /\ Busy(p, i) /\ order[i] = "VALIDATING"
        /\ order \in [Intents -> OrderStatus] /\ placed \in [Intents -> Nat] /\ cash \in Nat /\ faults \in Nat
        /\ UNCHANGED <<row, placed, issued, proc, faults>> /\ Cost[i] \in Nat
    BY Typed, Constants DEF DeliveryInv, OrderIsKept, Reserve, Busy
  <1>2. CASE Cost[i] > cash
    <2>1. Return(p, i, "REJECTED", TRUE) /\ order' = [order EXCEPT ![i] = "REJECTED"] /\ UNCHANGED cash
      <3>1. ~(Cost[i] <= cash)
        BY <1>1, <1>2
      <3> QED
        BY <3>1, Zenon DEF Reserve
    <2>2. /\ "REJECTED" \in {"REJECTED", "SENT", "UNKNOWN"} /\ TRUE \in BOOLEAN /\ cash' \in Nat
          /\ UNCHANGED <<row, issued, proc, faults>> /\ UNCHANGED placed
      BY <1>1, <2>1
    <2> QED
      BY <1>1, <2>1, <2>2, OutcomeKeeps, Zenon
  <1>3. CASE Cost[i] <= cash
    <2>1. /\ cash' = cash - Cost[i] /\ order' = [order EXCEPT ![i] = "RESERVED"]
          /\ Proceed(p, i, "place") /\ ReleaseTurn(p, i)
      <3>1. ~(Cost[i] > cash)
        BY <1>1, <1>3
      <3> QED
        BY <3>1, Zenon DEF Reserve
    <2>2. Moves(p, i, "place")
      BY <1>1, <2>1, ProceedMoves DEF Labels
    <2>3. /\ order' \in [Intents -> OrderStatus] /\ cash' \in Nat
          /\ released' \in [Processes -> SUBSET Intents]
      BY <1>1, <1>3, <2>1 DEF OrderStatus, ReleaseTurn
    <2>4. DeliveryStep(p, i, "place") /\ "place" \in Labels /\ Active(p, i)
      BY <1>1, <2>2, <2>3 DEF DeliveryStep, Labels, Active, Busy
    <2>5. OrderIsKept' /\ OneInHand' /\ NotYetPlaced' /\ NoSecondPlace'
      <3>1. "place" \in {"validate", "wait", "place"} /\ UNCHANGED placed
        BY <1>1
      <3> QED
        BY <1>1, <2>1, <2>2, <3>1, HoldsOn, Zenon
    <2> QED
      BY <1>1, <2>4, <2>5, StepKeeps
  <1> QED
    BY <1>1, <1>2, <1>3

\* What a placement leaves behind.
LEMMA Placements ==
  ASSUME TypeOK, NEW i \in Intents, NEW o \in Outcomes, PlaceOrder(i, o[1], o[2])
  PROVE  /\ o[1] \in {"REJECTED", "SENT", "UNKNOWN"}
         /\ order' = [order EXCEPT ![i] = o[1]] /\ order' \in [Intents -> OrderStatus] /\ cash' \in Nat
         /\ placed' \in [Intents -> Nat]
         /\ placed' = placed \/ placed' = [placed EXCEPT ![i] = placed[i] + 1]
  <1>1. order \in [Intents -> OrderStatus] /\ placed \in [Intents -> Nat] /\ cash \in Nat /\ Cost[i] \in Nat
    BY Typed, Constants
  <1>2. o[1] \in {"REJECTED", "SENT", "UNKNOWN"}
    <2>1. \E result \in {"REJECTED", "SENT", "UNKNOWN"}, sent \in BOOLEAN : o = <<result, sent>>
      BY Zenon DEF Outcomes
    <2>2. PICK result \in {"REJECTED", "SENT", "UNKNOWN"}, sent \in BOOLEAN : o = <<result, sent>>
      BY <2>1
    <2>3. o[1] = result
      BY <2>2
    <2> QED
      BY <2>3
  <1>3. order' = [order EXCEPT ![i] = o[1]] /\ (cash' = cash \/ cash' = cash + Cost[i])
    BY Zenon DEF PlaceOrder
  <1>4. placed' = [placed EXCEPT ![i] = placed[i]] \/ placed' = [placed EXCEPT ![i] = placed[i] + 1]
    BY Zenon DEF PlaceOrder
  <1>5. order' \in [Intents -> OrderStatus] /\ cash' \in Nat
    BY <1>1, <1>2, <1>3 DEF OrderStatus
  <1>6. placed' = placed \/ placed' = [placed EXCEPT ![i] = placed[i] + 1]
    BY <1>1, <1>4
  <1>7. placed' \in [Intents -> Nat]
    BY <1>1, <1>6
  <1> QED
    BY <1>2, <1>3, <1>5, <1>6, <1>7

LEMMA PlaceKeeps ==
  ASSUME DeliveryInv, NEW p \in Processes, NEW i \in Intents, Place(p, i)
  PROVE  DeliveryInv'
  <1>1. PICK o \in Outcomes : PlaceOrder(i, o[1], o[2]) /\ Return(p, i, o[1], o[1] # "SENT")
    BY Zenon DEF Place
  <1> DEFINE result == o[1] failed == result # "SENT"
  <1>2. failed \in BOOLEAN
    OBVIOUS
  <1>3. /\ result \in {"REJECTED", "SENT", "UNKNOWN"} /\ order' = [order EXCEPT ![i] = result] /\ cash' \in Nat
        /\ placed' = placed \/ placed' = [placed EXCEPT ![i] = placed[i] + 1]
    BY <1>1, Placements, Zenon DEF DeliveryInv
  <1>4. Return(p, i, result, failed)
    BY <1>1, Zenon
  <1>5. job[p][i].at = "place" /\ UNCHANGED <<row, issued, proc, faults>>
    BY Zenon DEF Place
  <1>6. Busy(p, i)
    BY <1>5 DEF Busy
  <1> HIDE DEF result, failed
  <1> QED
    BY <1>2, <1>3, <1>4, <1>5, <1>6, OutcomeKeeps, Zenon



\* The worker that holds the claim completes the row; nobody else's claim has
\* its attempt.
LEMMA CompleteKeeps ==
  ASSUME DeliveryInv, NEW p \in Processes, NEW i \in Intents, CompleteIntent(p, i)
  PROVE  DeliveryInv'
  <1>1. /\ TypeOK /\ row \in [Intents -> Rows] /\ released \in [Processes -> SUBSET Intents]
        /\ order \in [Intents -> OrderStatus] /\ placed \in [Intents -> Nat] /\ cash \in Nat /\ faults \in Nat
        /\ job \in [Processes -> [Intents -> Jobs]]
    BY Typed DEF DeliveryInv
  <1>2. /\ job[p][i].at = "complete" /\ Proceed(p, i, "done")
        /\ UNCHANGED <<order, placed, cash, issued, released, faults>>
    BY Zenon DEF CompleteIntent, execution
  <1>3. Moves(p, i, "done") /\ Active(p, i) /\ "done" \in Labels
    BY <1>1, <1>2, ProceedMoves DEF Labels, Active
  <1>4. proc' \in [Processes -> Loops]
    <2> DEFINE blocked == proc[p].blocked \/ Unfinished(p, i)
    <2>1. Loop(p, [proc[p] EXCEPT !.blocked = blocked])
      BY Zenon DEF CompleteIntent
    <2>2. blocked \in BOOLEAN
      OBVIOUS
    <2> HIDE DEF blocked
    <2>3. proc[p] \in Loops /\ \A l \in Loops : Loop(p, l) => proc' \in [Processes -> Loops]
      BY <1>1, LoopSteps, Zenon
    <2>4. [proc[p] EXCEPT !.blocked = blocked] \in Loops
      BY <2>2, <2>3, LoopUpdates, Zenon
    <2> QED
      BY <2>1, <2>3, <2>4
  <1>5. \/ row' = row
        \/ /\ Holds(p, i) /\ \E status \in Completed : row' = [row EXCEPT ![i] = [row[i] EXCEPT !.status = status]]
    <2>1. Completion(job[p][i].seen) \in Completed
      BY DEF Completion, Completed
    <2> DEFINE status == Completion(job[p][i].seen)
    <2>2. row' = row \/ (Holds(p, i) /\ row' = [row EXCEPT ![i] = [row[i] EXCEPT !.status = status]])
      BY Zenon DEF CompleteIntent
    <2> HIDE DEF status
    <2> QED
      BY <2>1, <2>2, Zenon DEF status
  <1>6. /\ row' \in [Intents -> Rows]
        /\ \A k \in Intents : /\ row'[k].attempt = row[k].attempt
                              /\ row'[k] = row[k] \/ (k = i /\ Holds(p, i))
    <2>1. CASE row' = row
      BY <1>1, <2>1
    <2>2. CASE Holds(p, i) /\ \E status \in Completed : row' = [row EXCEPT ![i] = [row[i] EXCEPT !.status = status]]
      <3>1. PICK status \in Completed : row' = [row EXCEPT ![i] = [row[i] EXCEPT !.status = status]]
        BY <2>2, Zenon
      <3> DEFINE next == [row[i] EXCEPT !.status = status]
      <3>2. next \in Rows /\ next.attempt = row[i].attempt
        BY <1>1, RowUpdates, Zenon
      <3>3. row' = [row EXCEPT ![i] = next]
        BY <3>1
      <3> HIDE DEF next
      <3> QED
        BY <1>1, <2>2, <3>2, <3>3
    <2> QED
      BY <1>5, <2>1, <2>2
  <1>7. DeliveryStep(p, i, "done") /\ UNCHANGED issued
    BY <1>1, <1>2, <1>3 DEF DeliveryStep
  <1>8. TypeOK'
    BY <1>1, <1>3, <1>4, <1>6, <1>7, StepTyped
  <1>9. OrderIsKept' /\ OneInHand' /\ NotYetPlaced' /\ NoSecondPlace'
    BY <1>2, <1>3, LetsGo
  <1>10. \A q \in Processes, k \in Intents :
           Active(q, k)' => Active(q, k) /\ job'[q][k].attempt = job[q][k].attempt /\ (q # p \/ k # i)
    BY <1>3, SMTT(30) DEF Moves, Active
  <1>11. Fenced'
    BY <1>6, <1>10, SMTT(30) DEF DeliveryInv, Fenced
  <1>12. \A q \in Processes : Active(q, i)' => (Holds(p, i) => job[q][i].attempt # row[i].attempt)
    BY <1>3, <1>10, SMTT(30) DEF DeliveryInv, Fenced, Holds
  <1>13. LastClaimDecides'
    BY <1>6, <1>10, <1>12, SMTT(30) DEF DeliveryInv, LastClaimDecides, Active
  <1>14. Unissued'
    BY <1>2, <1>6, Constructed DEF DeliveryInv, Unissued, Holds
  <1> QED
    BY <1>8, <1>9, <1>11, <1>13, <1>14 DEF DeliveryInv

LEMMA LeaveKeeps ==
  ASSUME DeliveryInv, NEW p \in Processes, NEW i \in Intents, LeaveClaim(p, i)
  PROVE  DeliveryInv'
  <1>1. /\ TypeOK /\ row \in [Intents -> Rows] /\ released \in [Processes -> SUBSET Intents]
        /\ order \in [Intents -> OrderStatus] /\ placed \in [Intents -> Nat] /\ cash \in Nat /\ faults \in Nat
    BY Typed DEF DeliveryInv
  <1>2. /\ job[p][i].at = "complete" /\ Proceed(p, i, "done") /\ UNCHANGED <<row, order, placed, cash, issued, released>>
        /\ faults' = faults \/ faults' = faults + 1
        /\ Loop(p, [proc[p] EXCEPT !.blocked = TRUE])
    BY Zenon DEF LeaveClaim, execution, Fault
  <1>3. Moves(p, i, "done") /\ Active(p, i) /\ "done" \in Labels
    BY <1>1, <1>2, ProceedMoves DEF Labels, Active
  <1>4. proc' \in [Processes -> Loops]
    <2>1. proc[p] \in Loops /\ \A l \in Loops : Loop(p, l) => proc' \in [Processes -> Loops]
      BY <1>1, LoopSteps, Zenon
    <2>2. TRUE \in BOOLEAN
      OBVIOUS
    <2>3. [proc[p] EXCEPT !.blocked = TRUE] \in Loops
      BY <2>1, <2>2, LoopUpdates, Zenon
    <2> QED
      BY <1>2, <2>1, <2>3, Zenon
  <1>5. DeliveryStep(p, i, "done") /\ UNCHANGED <<row, issued>>
    <2>1. faults' \in Nat
      BY <1>1, <1>2
    <2> QED
      BY <1>1, <1>2, <1>3, <2>1 DEF DeliveryStep
  <1>6. TypeOK'
    BY <1>1, <1>3, <1>4, <1>5, StepTyped
  <1>7. OrderIsKept' /\ OneInHand' /\ NotYetPlaced' /\ NoSecondPlace'
    BY <1>2, <1>3, LetsGo
  <1> QED
    BY <1>3, <1>5, <1>6, <1>7, MovesKeepsClaims DEF DeliveryInv

-----------------------------------------------------------------------------
(* Order recovery and reconciliation.                                      *)

\* An order that no delivery has in hand moves on.
LEMMA OrderMoves ==
  ASSUME DeliveryInv, NEW i \in Intents, UNCHANGED <<row, issued, proc, job, released, faults>>,
         \A p \in Processes : ~Busy(p, i), NEW status \in OrderStatus,
         order' = [order EXCEPT ![i] = status], cash' \in Nat,
         \/ UNCHANGED placed /\ (status = "RESERVED" => order[i] = "VALIDATING") /\ status \notin {"NONE", "VALIDATING"}
         \/ /\ order[i] = "RESERVED" /\ status \notin {"NONE", "VALIDATING", "RESERVED"}
            /\ placed' = [placed EXCEPT ![i] = placed[i] + 1]
  PROVE  DeliveryInv'
  <1>1. /\ order \in [Intents -> OrderStatus] /\ placed \in [Intents -> Nat] /\ TypeOK
    BY Typed DEF DeliveryInv
  <1>2. TypeOK'
    BY <1>1, SMTT(30) DEF TypeOK
  <1>3. OrderIsKept' /\ OneInHand' /\ Fenced' /\ LastClaimDecides' /\ Unissued'
    BY <1>1 DEF DeliveryInv, OrderIsKept, OneInHand, Fenced, LastClaimDecides, Unissued, Busy, Active
  <1>4. NotYetPlaced' /\ NoSecondPlace'
    BY <1>1 DEF DeliveryInv, NotYetPlaced, NoSecondPlace
  <1> QED
    BY <1>2, <1>3, <1>4 DEF DeliveryInv

LEMMA ResumeKeeps ==
  ASSUME DeliveryInv, NEW i \in Intents, Resume(i)
  PROVE  DeliveryInv'
  <1>1. /\ TypeOK /\ cash \in Nat /\ Cost[i] \in Nat
    BY Typed, Constants, SMTT(30) DEF DeliveryInv
  <1>2. \A p \in Processes : ~Busy(p, i)
    BY DEF Resume, InHand, Busy
  <1>3. UNCHANGED <<row, issued, proc, job, released, faults>>
    BY Zenon DEF Resume, local
  <1>4. CASE /\ order[i] = "VALIDATING" /\ Cost[i] <= cash /\ order' = [order EXCEPT ![i] = "RESERVED"]
             /\ cash' = cash - Cost[i] /\ UNCHANGED placed
    <2>1. "RESERVED" \in OrderStatus /\ cash' \in Nat
      BY <1>1, <1>4 DEF OrderStatus
    <2> QED
      BY <1>2, <1>3, <1>4, <2>1, OrderMoves, Zenon
  <1>5. CASE order[i] = "VALIDATING" /\ order' = [order EXCEPT ![i] = "REJECTED"] /\ UNCHANGED <<placed, cash>>
    <2>1. "REJECTED" \in OrderStatus /\ cash' \in Nat
      BY <1>1, <1>5 DEF OrderStatus
    <2> QED
      BY <1>2, <1>3, <1>5, <2>1, OrderMoves, Zenon
  <1>6. CASE order[i] = "RESERVED" /\ \E o \in Outcomes : PlaceOrder(i, o[1], o[2])
    <2>1. PICK o \in Outcomes : PlaceOrder(i, o[1], o[2])
      BY <1>6, Zenon
    <2> DEFINE result == o[1]
    <2>2. /\ result \in {"REJECTED", "SENT", "UNKNOWN"} /\ order' = [order EXCEPT ![i] = result] /\ cash' \in Nat
          /\ placed' = placed \/ placed' = [placed EXCEPT ![i] = placed[i] + 1]
      BY <1>1, <2>1, Placements, Zenon
    <2> HIDE DEF result
    <2>3. result \in OrderStatus
      BY <2>2 DEF OrderStatus
    <2> QED
      BY <1>2, <1>3, <1>6, <2>2, <2>3, OrderMoves, Zenon
  <1> QED
    BY <1>4, <1>5, <1>6, Zenon DEF Resume

LEMMA ResolveKeeps ==
  ASSUME DeliveryInv, NEW i \in Intents, Resolve(i)
  PROVE  DeliveryInv'
  <1>1. /\ TypeOK /\ cash \in Nat /\ Cost[i] \in Nat /\ placed \in [Intents -> Nat]
    BY Typed, Constants DEF DeliveryInv
  <1>2. order[i] = "UNKNOWN" /\ UNCHANGED <<row, issued, proc, job, released, faults>>
    BY Zenon DEF Resolve, local
  <1>3. \A p \in Processes : ~Busy(p, i)
    BY <1>2 DEF DeliveryInv, OrderIsKept, Busy
  <1>4. PICK result \in {"SENT", "REJECTED"} :
          /\ order' = [order EXCEPT ![i] = result] /\ placed' = [placed EXCEPT ![i] = placed[i]]
          /\ cash' = cash \/ cash' = cash + Cost[i]
    BY Zenon DEF Resolve, PlaceOrder
  <1>5. result \in OrderStatus /\ cash' \in Nat /\ UNCHANGED placed
    BY <1>1, <1>4 DEF OrderStatus
  <1> QED
    BY <1>2, <1>3, <1>4, <1>5, OrderMoves, Zenon


-----------------------------------------------------------------------------
(* The invariant and its theorems.                                         *)

LEMMA DeliveryInitially ==
  ASSUME Init
  PROVE  DeliveryInv
  <1>1. /\ row \in [Intents -> Rows] /\ order \in [Intents -> OrderStatus] /\ placed \in [Intents -> Nat]
        /\ cash \in Nat /\ issued \in Nat /\ faults \in Nat /\ proc \in [Processes -> Loops]
        /\ job \in [Processes -> [Intents -> Jobs]] /\ released \in [Processes -> SUBSET Intents]
    BY Constructed, Constants DEF Init, OrderStatus
  <1>2. \A p \in Processes, i \in Intents : ~Busy(p, i) /\ ~Active(p, i)
    BY Constructed DEF Init, Busy, Active
  <1>3. OrderIsKept /\ OneInHand /\ Fenced /\ LastClaimDecides
    BY <1>2 DEF OrderIsKept, OneInHand, Fenced, LastClaimDecides, Busy, Active
  <1>4. NotYetPlaced /\ NoSecondPlace /\ Unissued
    BY DEF Init, NotYetPlaced, NoSecondPlace, Unissued
  <1> QED
    BY <1>1, <1>3, <1>4, Typed DEF DeliveryInv

\* A step of the loop that touches neither rows nor deliveries.
LEMMA PassKeeps ==
  ASSUME DeliveryInv, NEW p \in Processes,
         Start(p) \/ Boundary(p) \/ NothingPending(p) \/ PassFails(p) \/ DecidesNothing(p) \/ ContextEnds(p)
  PROVE  DeliveryInv'
  <1>1. TypeOK /\ faults \in Nat /\ proc[p] \in Loops /\ proc[p].blocked \in BOOLEAN /\ TRUE \in BOOLEAN
    BY Typed, Fields DEF DeliveryInv
  <1>2. UNCHANGED <<row, order, placed, cash, issued, job, released>> /\ (faults' = faults \/ faults' = faults + 1)
    BY Zenon DEF Start, Boundary, NothingPending, PassFails, DecidesNothing, ContextEnds, execution, Fault
  <1>3. faults' \in Nat
    BY <1>1, <1>2
  <1>4. \/ \E l \in Loops : Loop(p, l)
        \/ \E blocked \in BOOLEAN : After(p, blocked)
        \/ Goto(p, "ready")
    <2>1. /\ [Down EXCEPT !.at = "requeue"] \in Loops /\ [Down EXCEPT !.at = "requeue", !.mode = "recover"] \in Loops
          /\ [proc[p] EXCEPT !.ended = TRUE] \in Loops
      BY <1>1, Constructed, LoopUpdates, Zenon
    <2> QED
      BY <1>1, <2>1, Zenon DEF Start, Boundary, NothingPending, PassFails, DecidesNothing, ContextEnds
  <1>5. proc' \in [Processes -> Loops]
    <2>1. "ready" \in {"down", "ready", "requeue", "claim", "batch", "decide"}
      OBVIOUS
    <2> QED
      BY <1>1, <1>4, <2>1, LoopSteps, Zenon
  <1> QED
    BY <1>2, <1>3, <1>5, LoopKeeps

LEMMA LeavesBatch ==
  ASSUME DeliveryInv, NEW p \in Processes, EndBatch(p) \/ Crash(p)
  PROVE  DeliveryInv'
  <1>1. TypeOK /\ faults \in Nat /\ proc[p].blocked \in BOOLEAN /\ Down \in Loops
    BY Typed, Fields, Constructed DEF DeliveryInv
  <1>2. /\ UNCHANGED <<row, order, placed, cash, issued>> /\ (faults' = faults \/ faults' = faults + 1)
        /\ job' = [job EXCEPT ![p] = NoJobs] /\ released' = [released EXCEPT ![p] = {}]
    BY Zenon DEF EndBatch, Crash, execution, Fault
  <1>3. Loop(p, Down) \/ After(p, proc[p].blocked) \/ Goto(p, "claim")
    BY Zenon DEF EndBatch, Crash
  <1>4. proc' \in [Processes -> Loops]
    <2>1. "claim" \in {"down", "ready", "requeue", "claim", "batch", "decide"}
      OBVIOUS
    <2> QED
      BY <1>1, <1>3, <2>1, LoopSteps, Zenon
  <1>5. faults' \in Nat
    BY <1>1, <1>2
  <1> QED
    BY <1>2, <1>4, <1>5, ForgetKeeps, Zenon

LEMMA DeliveryPreserved ==
  ASSUME DeliveryInv, [Next]_vars
  PROVE  DeliveryInv'
  <1>1. CASE UNCHANGED vars
    BY <1>1 DEF vars, DeliveryInv, TypeOK, OrderIsKept, OneInHand, NotYetPlaced, NoSecondPlace, Fenced,
                LastClaimDecides, Unissued, Busy, Active
  <1>2. ASSUME NEW p \in Processes, Run(p) PROVE DeliveryInv'
    BY <1>2, PassKeeps, RequeueKeeps, ClaimKeeps, DecideKeeps, LeavesBatch, Zenon DEF Run
  <1>3. ASSUME NEW p \in Processes, NEW i \in Intents, Deliver(p, i) PROVE DeliveryInv'
    BY <1>3, StartKeeps, SubmitKeeps, FailureKeeps, ValidatedKeeps, RefusedKeeps, ReserveKeeps, PlaceKeeps,
       CompleteKeeps, LeaveKeeps, Zenon DEF Deliver
  <1>4. ASSUME NEW p \in Processes, ContextEnds(p) \/ Crash(p) PROVE DeliveryInv'
    BY <1>4, PassKeeps, LeavesBatch, Zenon
  <1>5. ASSUME NEW i \in Intents, Age(i) \/ Resume(i) \/ Resolve(i) PROVE DeliveryInv'
    BY <1>5, AgeKeeps, ResumeKeeps, ResolveKeeps, Zenon
  <1> QED
    BY <1>1, <1>2, <1>3, <1>4, <1>5, Zenon DEF Next

LEMMA DeliveryInvariant == Spec => []DeliveryInv
  <1>1. Init => DeliveryInv
    BY DeliveryInitially
  <1>2. DeliveryInv /\ [Next]_vars => DeliveryInv'
    BY DeliveryPreserved
  <1> QED
    BY <1>1, <1>2, PTL DEF Spec

\* For any number of processes, intents, crashes, expired contexts and retries:
\* the venue is sent at most one placement of an intent, and whoever holds the
\* last claim of a row finds it open (ClaimPendingIntents, CompleteIntent,
\* Submit, and order recovery beside them).
THEOREM DeliveriesDoNotCompete == Spec => []OneClaimDecides
  <1>1. DeliveryInv => OneClaimDecides
    BY DEF DeliveryInv, OneClaimDecides
  <1> QED
    BY <1>1, DeliveryInvariant, PTL

\* A completed row is never claimed, requeued, aged, stored again or completed
\* a second time, by whichever process (CompleteIntent,
\* RequeueStaleSubmitting, ClaimPendingIntents, ClaimOutput).
THEOREM CompletedStaysCompleted == Spec => CompletionIsFinal
  <1> DEFINE Kept == \A i \in Intents : row[i].status \in Completed => row'[i] = row[i]
  <1>1. ASSUME DeliveryInv, [Next]_vars PROVE [Kept]_vars
    <2>1. row \in [Intents -> Rows] /\ issued \in Nat
      BY <1>1, Typed DEF DeliveryInv
    <2>2. ASSUME NEW p \in Processes, RequeueStaleSubmitting(p) PROVE Kept
      BY <2>2, Zenon DEF RequeueStaleSubmitting, Requeued, Completed
    <2>3. ASSUME NEW p \in Processes, ClaimPendingIntents(p) PROVE Kept
      BY <2>3, Zenon DEF ClaimPendingIntents, FirstOf, Claimable, Completed
    <2>4. ASSUME NEW p \in Processes, Decide(p) PROVE Kept
      <3>1. PICK c \in {issued, issued + 1} \ {0} :
              row' = [i \in Intents |->
                        IF CycleOf[i] = c /\ c > issued THEN [NoRow EXCEPT !.status = "PENDING"] ELSE row[i]]
        BY <2>4 DEF Decide
      <3>2. \A i \in Intents : CycleOf[i] > issued => row[i].status = "NONE"
        BY <1>1, Constructed DEF DeliveryInv, Unissued
      <3> QED
        BY <3>1, <3>2 DEF Completed
    <2>5. ASSUME NEW p \in Processes, NEW i \in Intents, CompleteIntent(p, i) PROVE Kept
      <3>1. row' = row \/ (Holds(p, i) /\ row' = [row EXCEPT ![i] = [row[i] EXCEPT !.status = Completion(job[p][i].seen)]])
        BY <2>5, Zenon DEF CompleteIntent
      <3> QED
        BY <2>1, <3>1 DEF Holds, Completed
    <2>6. ASSUME NEW i \in Intents, Age(i) PROVE Kept
      BY <2>1, <2>6 DEF Age, Completed
    <2>7. CASE UNCHANGED row
      BY <2>7
    <2>8. ASSUME NEW p \in Processes, Run(p) PROVE Kept
      <3>1. \/ RequeueStaleSubmitting(p) \/ ClaimPendingIntents(p) \/ Decide(p) \/ UNCHANGED row
        BY <2>8, Zenon DEF Run, Start, Boundary, NothingPending, PassFails, DecidesNothing, EndBatch
      <3> QED
        BY <2>2, <2>3, <2>4, <2>7, <3>1, Zenon
    <2>9. ASSUME NEW p \in Processes, NEW i \in Intents, Deliver(p, i) PROVE Kept
      <3>1. CompleteIntent(p, i) \/ UNCHANGED row
        BY <2>9, Zenon DEF Deliver, StartDelivery, Submit, SubmitFails, Validated, Refused, Reserve, Place,
                           SubmitInterrupted, LeaveClaim
      <3> QED
        BY <2>5, <2>7, <3>1, Zenon
    <2>10. ASSUME NEW p \in Processes, ContextEnds(p) \/ Crash(p) PROVE Kept
      <3>1. UNCHANGED row
        BY <2>10, Zenon DEF ContextEnds, Crash
      <3> QED
        BY <2>7, <3>1
    <2>11. ASSUME NEW i \in Intents, Age(i) \/ Resume(i) \/ Resolve(i) PROVE Kept
      <3>1. Age(i) \/ UNCHANGED row
        BY <2>11, Zenon DEF Resume, Resolve
      <3> QED
        BY <2>6, <2>7, <3>1, Zenon
    <2> HIDE DEF Kept
    <2> QED
      BY <1>1, <2>8, <2>9, <2>10, <2>11, Zenon DEF Next
  <1>2. DeliveryInv /\ [Next]_vars => [Kept]_vars
    BY <1>1
  <1> QED
    BY <1>2, DeliveryInvariant, PTL DEF Spec, CompletionIsFinal

-----------------------------------------------------------------------------
(* The outbox.                                                             *)

\* What a dispatcher is about to acknowledge has been accepted; this is what
\* makes NoEventIsLost inductive.
AcknowledgesDelivered ==
    \A d \in Dispatchers : dispatcher[d].step = "acknowledge" => dispatcher[d].event \subseteq delivered

OutboxInvariant == OutboxTypeOK /\ NoEventIsLost /\ AcknowledgesDelivered

\* However many attempts failed, the delay backoff computes is within MaxBackoff.
LEMMA BackoffIsBounded ==
    ASSUME NEW attempt
    PROVE  Backoff(attempt) \in Nat /\ Backoff(attempt) <= MaxBackoff
BY OutboxAssumption DEF Backoff

\* The end of an event leaves a well-formed dispatcher with nothing to acknowledge.
LEMMA AdvanceIsQuiet ==
    ASSUME OutboxTypeOK, AcknowledgesDelivered,
           NEW d \in Dispatchers, NEW e \in Events, Advance(d, e), delivered' = delivered
    PROVE  /\ dispatcher' \in [Dispatchers ->
                [batch : [Events -> Nat],
                 step : {"claim", "publish", "acknowledge", "reschedule"}, event : SUBSET Events]]
           /\ AcknowledgesDelivered'
<1> DEFINE rest == [dispatcher[d].batch EXCEPT ![e] = 0]
           next == [batch |-> rest, event |-> {},
                    step |-> IF \E f \in Events : rest[f] > 0 THEN "publish" ELSE "claim"]
<1>1. dispatcher' = [dispatcher EXCEPT ![d] = next]
  BY DEF Advance
<1>2. rest \in [Events -> Nat]
  BY DEF OutboxTypeOK
<1>3. /\ next.batch = rest /\ next.event = {} /\ next.step \in {"publish", "claim"}
      /\ next \in [batch : [Events -> Nat],
                   step : {"claim", "publish", "acknowledge", "reschedule"}, event : SUBSET Events]
  BY <1>2
<1> HIDE DEF next
<1>4. \A c \in Dispatchers : dispatcher'[c] = IF c = d THEN next ELSE dispatcher[c]
  BY <1>1 DEF OutboxTypeOK
<1>5. AcknowledgesDelivered'
  BY <1>3, <1>4 DEF AcknowledgesDelivered
<1> QED
  BY <1>1, <1>3, <1>5 DEF OutboxTypeOK

\* Every step keeps the invariant; one case per operation of outbox.go and
\* RunOnce.
LEMMA OutboxStep == OutboxInvariant /\ [OutboxNext]_outboxVars => OutboxInvariant'
<1> SUFFICES ASSUME OutboxInvariant, [OutboxNext]_outboxVars
             PROVE  OutboxInvariant'
  OBVIOUS
<1> USE OutboxAssumption DEF OutboxInvariant
<1>1. ASSUME NEW e \in Events, InsertOutbox(e)
      PROVE  OutboxInvariant'
  BY <1>1 DEF InsertOutbox, OutboxTypeOK, NoEventIsLost, AcknowledgesDelivered
<1>2. ASSUME NEW d \in Dispatchers, NEW batch \in SUBSET Events, ClaimEvents(d, batch)
      PROVE  OutboxInvariant'
  <2> DEFINE duty == [batch |-> [e \in Events |-> IF e \in batch THEN outbox[e].attempts + 1 ELSE 0],
                      step |-> "publish", event |-> {}]
  <2>1. duty \in [batch : [Events -> Nat],
                  step : {"claim", "publish", "acknowledge", "reschedule"}, event : SUBSET Events]
        /\ duty.step = "publish"
    BY DEF OutboxTypeOK
  <2> HIDE DEF duty
  <2>2. dispatcher' = [dispatcher EXCEPT ![d] = duty] /\ UNCHANGED <<delivered, halts>>
    BY <1>2 DEF ClaimEvents, duty
  <2>3. \A e \in Events : outbox'[e] = IF e \in batch
                                       THEN [status |-> "PENDING", due |-> ClaimLease,
                                             attempts |-> outbox[e].attempts + 1]
                                       ELSE outbox[e]
    BY <1>2 DEF ClaimEvents
  <2>4. outbox' \in [Events -> [status : {"ABSENT", "PENDING", "PUBLISHED"}, due : Nat, attempts : Nat]]
    BY <1>2 DEF ClaimEvents, OutboxTypeOK
  <2>5. OutboxTypeOK'
    BY <2>1, <2>2, <2>4 DEF OutboxTypeOK
  <2>6. NoEventIsLost'
    <3>1. ASSUME NEW e \in Events, e \in batch
          PROVE  outbox'[e].status = "PENDING" /\ outbox'[e].due <= ClaimLease
      <4>1. outbox'[e] = [status |-> "PENDING", due |-> ClaimLease, attempts |-> outbox[e].attempts + 1]
        BY <2>3, <3>1
      <4> QED
        BY <4>1
    <3>2. \A e \in Events \ batch : outbox'[e] = outbox[e]
      BY <2>3, Zenon
    <3> QED
      BY <2>2, <3>1, <3>2 DEF NoEventIsLost
  <2>7. AcknowledgesDelivered'
    BY <2>1, <2>2 DEF AcknowledgesDelivered, OutboxTypeOK
  <2> QED
    BY <2>5, <2>6, <2>7
<1>3. ASSUME NEW d \in Dispatchers, NEW e \in Events, Publish(d, e)
      PROVE  OutboxInvariant'
  BY <1>3, ZenonT(30) DEF Publish, OutboxTypeOK, NoEventIsLost, AcknowledgesDelivered
<1>4. ASSUME NEW d \in Dispatchers, NEW e \in Events, PublishFails(d, e)
      PROVE  OutboxInvariant'
  <2>1. delivered \subseteq delivered' /\ delivered' \subseteq Events
    BY <1>4 DEF PublishFails, OutboxTypeOK
  <2>2. /\ UNCHANGED <<outbox, halts>>
        /\ dispatcher' = [dispatcher EXCEPT ![d].step = "reschedule", ![d].event = {e}]
    BY <1>4 DEF PublishFails
  <2>3. OutboxTypeOK'
    <3>1. dispatcher' \in [Dispatchers ->
                [batch : [Events -> Nat],
                 step : {"claim", "publish", "acknowledge", "reschedule"}, event : SUBSET Events]]
      BY <2>2, ZenonT(30) DEF OutboxTypeOK
    <3> QED
      BY <2>1, <2>2, <3>1 DEF OutboxTypeOK
  <2>4. NoEventIsLost'
    BY <2>1, <2>2 DEF NoEventIsLost
  <2>5. AcknowledgesDelivered'
    BY <2>1, <2>2 DEF AcknowledgesDelivered, OutboxTypeOK
  <2> QED
    BY <2>3, <2>4, <2>5
<1>5. ASSUME NEW d \in Dispatchers, NEW e \in Events, MarkPublished(d, e)
      PROVE  OutboxInvariant'
  <2>1. e \in delivered
    BY <1>5 DEF MarkPublished, AcknowledgesDelivered
  <2>2. dispatcher' \in [Dispatchers ->
                [batch : [Events -> Nat],
                 step : {"claim", "publish", "acknowledge", "reschedule"}, event : SUBSET Events]]
        /\ AcknowledgesDelivered'
    BY <1>5, AdvanceIsQuiet DEF MarkPublished
  <2> QED
    BY <1>5, <2>1, <2>2, SMTT(30) DEF MarkPublished, OutboxTypeOK, NoEventIsLost
<1>6. ASSUME NEW d \in Dispatchers, NEW e \in Events, MarkFailed(d, e)
      PROVE  OutboxInvariant'
  <2> DEFINE b == Backoff(dispatcher[d].batch[e])
  <2>1. b \in Nat /\ b <= MaxBackoff
    BY BackoffIsBounded
  <2>2. outbox' = [outbox EXCEPT ![e].due = b] \/ outbox' = outbox
    BY <1>6 DEF MarkFailed
  <2> HIDE DEF b
  <2>3. dispatcher' \in [Dispatchers ->
                [batch : [Events -> Nat],
                 step : {"claim", "publish", "acknowledge", "reschedule"}, event : SUBSET Events]]
        /\ AcknowledgesDelivered'
    BY <1>6, AdvanceIsQuiet DEF MarkFailed
  <2>4. UNCHANGED <<delivered, halts>>
    BY <1>6 DEF MarkFailed
  <2>5. outbox' \in [Events -> [status : {"ABSENT", "PENDING", "PUBLISHED"}, due : Nat, attempts : Nat]]
    BY <2>1, <2>2, ZenonT(30) DEF OutboxTypeOK
  <2>6. \A f \in Events : /\ outbox'[f].status = outbox[f].status
                          /\ outbox'[f].due = outbox[f].due \/ outbox'[f].due <= MaxBackoff
    BY <2>1, <2>2 DEF OutboxTypeOK
  <2>7. NoEventIsLost'
    BY <2>4, <2>6 DEF NoEventIsLost
  <2> QED
    BY <2>3, <2>4, <2>5, <2>7 DEF OutboxTypeOK
<1>7. ASSUME NEW d \in Dispatchers, NEW e \in Events, MarkIsLost(d, e)
      PROVE  OutboxInvariant'
  <2>1. dispatcher' \in [Dispatchers ->
                [batch : [Events -> Nat],
                 step : {"claim", "publish", "acknowledge", "reschedule"}, event : SUBSET Events]]
        /\ AcknowledgesDelivered'
    BY <1>7, AdvanceIsQuiet DEF MarkIsLost
  <2> QED
    BY <1>7, <2>1 DEF MarkIsLost, OutboxTypeOK, NoEventIsLost
<1>8. ASSUME NEW d \in Dispatchers, DispatcherStops(d)
      PROVE  OutboxInvariant'
  BY <1>8 DEF DispatcherStops, Resting, OutboxTypeOK, NoEventIsLost, AcknowledgesDelivered
<1>9. CASE OutboxTimePasses
  <2>1. \A e \in Events :
           outbox'[e] = [outbox[e] EXCEPT !.due = IF outbox[e].due > 0 THEN outbox[e].due - 1 ELSE 0]
    BY <1>9 DEF OutboxTimePasses
  <2>2. \A e \in Events :
           /\ outbox'[e] \in [status : {"ABSENT", "PENDING", "PUBLISHED"}, due : Nat, attempts : Nat]
           /\ outbox'[e].status = outbox[e].status
           /\ outbox'[e].due <= outbox[e].due
    <3> SUFFICES ASSUME NEW e \in Events
                 PROVE  /\ outbox'[e] \in [status : {"ABSENT", "PENDING", "PUBLISHED"},
                                           due : Nat, attempts : Nat]
                        /\ outbox'[e].status = outbox[e].status
                        /\ outbox'[e].due <= outbox[e].due
      OBVIOUS
    <3> DEFINE left == IF outbox[e].due > 0 THEN outbox[e].due - 1 ELSE 0
    <3>1. outbox[e] \in [status : {"ABSENT", "PENDING", "PUBLISHED"}, due : Nat, attempts : Nat]
      BY DEF OutboxTypeOK
    <3>2. left \in Nat /\ left <= outbox[e].due
      BY <3>1
    <3>3. outbox'[e] = [outbox[e] EXCEPT !.due = left]
      BY <2>1
    <3> HIDE DEF left
    <3> QED
      BY <3>1, <3>2, <3>3
  <2>3. OutboxTypeOK'
    BY <1>9, <2>2, Zenon DEF OutboxTimePasses, OutboxTypeOK
  <2>4. NoEventIsLost'
    BY <1>9, <2>2 DEF OutboxTimePasses, NoEventIsLost, OutboxTypeOK
  <2>5. AcknowledgesDelivered'
    BY <1>9 DEF OutboxTimePasses, AcknowledgesDelivered
  <2> QED
    BY <2>3, <2>4, <2>5
<1>10. CASE UNCHANGED outboxVars
  BY <1>10 DEF outboxVars, OutboxTypeOK, NoEventIsLost, AcknowledgesDelivered
<1> QED
  BY <1>1, <1>2, <1>3, <1>4, <1>5, <1>6, <1>7, <1>8, <1>9, <1>10 DEF OutboxNext

LEMMA OutboxStart == OutboxInit => OutboxInvariant
BY OutboxAssumption
DEF OutboxInit, OutboxInvariant, OutboxTypeOK, NoEventIsLost, AcknowledgesDelivered, Resting

\* At least once: an event marked PUBLISHED was accepted by the publisher, and a
\* PENDING one is never postponed past the lease and the longest backoff, for
\* any number of overlapping dispatchers (outbox.go, outboxdispatcher/service.go).
THEOREM OutboxLosesNothing == OutboxSpec => []NoEventIsLost
<1>1. OutboxInvariant => NoEventIsLost
  BY DEF OutboxInvariant
<1> QED
  BY <1>1, OutboxStart, OutboxStep, PTL DEF OutboxSpec

\* No operation, a late MarkFailed of an expired claim included, takes a
\* published event back (the status='PENDING' condition of MarkFailed).
THEOREM OutboxPublishesForGood == OutboxSpec => PublicationIsFinal
<1> DEFINE Kept == \A e \in Events : outbox[e].status = "PUBLISHED" => outbox'[e].status = "PUBLISHED"
<1>1. OutboxInvariant /\ [OutboxNext]_outboxVars => [Kept]_outboxVars
  <2> SUFFICES ASSUME OutboxTypeOK, OutboxNext
               PROVE  Kept
    BY DEF OutboxInvariant
  <2>1. ASSUME NEW e \in Events, InsertOutbox(e) PROVE Kept
    BY <2>1 DEF InsertOutbox, OutboxTypeOK
  <2>2. ASSUME NEW d \in Dispatchers, NEW batch \in SUBSET Events, ClaimEvents(d, batch) PROVE Kept
    <3>1. \A e \in Events : outbox[e].status = "PUBLISHED" => e \notin batch
      BY <2>2 DEF ClaimEvents, Due
    <3> QED
      BY <2>2, <3>1 DEF ClaimEvents
  <2>3. ASSUME NEW d \in Dispatchers, NEW e \in Events,
               Publish(d, e) \/ PublishFails(d, e) \/ MarkPublished(d, e)
                 \/ MarkFailed(d, e) \/ MarkIsLost(d, e)
        PROVE  Kept
    <3>1. CASE Publish(d, e) \/ PublishFails(d, e) \/ MarkIsLost(d, e)
      BY <3>1 DEF Publish, PublishFails, MarkIsLost
    <3>2. CASE MarkPublished(d, e)
      BY <3>2 DEF MarkPublished, OutboxTypeOK
    <3>3. CASE MarkFailed(d, e)
      BY <3>3 DEF MarkFailed, OutboxTypeOK
    <3> QED
      BY <2>3, <3>1, <3>2, <3>3
  <2>4. ASSUME NEW d \in Dispatchers, DispatcherStops(d) PROVE Kept
    BY <2>4 DEF DispatcherStops
  <2>5. CASE OutboxTimePasses
    BY <2>5 DEF OutboxTimePasses, OutboxTypeOK
  <2> QED
    BY <2>1, <2>2, <2>3, <2>4, <2>5 DEF OutboxNext
<1> HIDE DEF Kept
<1>2. OutboxSpec => [][Kept]_outboxVars
  BY <1>1, OutboxStart, OutboxStep, PTL DEF OutboxSpec
<1> QED
  BY <1>2 DEF PublicationIsFinal, Kept
=============================================================================
