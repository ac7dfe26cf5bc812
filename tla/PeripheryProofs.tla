--------------------------- MODULE PeripheryProofs ---------------------------
(***************************************************************************)
(* Proofs about the components around the execution of an order: the lease *)
(* under which a worker recovers it, the session with the CLOB it is sent  *)
(* over, and the chain evidence on which its fills are booked.             *)
(***************************************************************************)
EXTENDS RecoveryLease, VenueSession, FillEvidence, TLAPS

-----------------------------------------------------------------------------
(* RecoveryLease: for every number of workers and every interleaving of    *)
(* claims, expiries and late results, recovery is exclusive.               *)

\* What an acting worker knows of the row: it is the holder, and the lease has
\* run for exactly as long as the attempt.
ActingOwns ==
    \A w \in Workers :
        Acting(w) => /\ lease.holder = Token(w)
                     /\ lease.left = TTL - spent[w] + Offset[w]

LeaseInv == TypeOK /\ ActingOwns

\* The backoff after any number of failures is a duration.
LEMMA BackoffType ==
    ASSUME NEW n \in Int
    PROVE  Backoff(n) \in Int
  BY LeasePolicy DEF Backoff

\* The row a release leaves is a row.
LEMMA NextLeaseType ==
    ASSUME TypeOK, NEW w \in Workers
    PROVE  /\ NextLease(w) \in LeaseRow
           /\ NextLease(w).holder = Nobody
  <1>1. lease \in LeaseRow /\ spent[w] \in Nat /\ Offset[w] \in Nat
    BY LeasePolicy DEF TypeOK
  <1>2. Backoff(lease.attempts + 1) \in Int
    BY <1>1, BackoffType DEF LeaseRow
  <1>3. NoLease \in LeaseRow /\ NoLease.holder = Nobody
    BY DEF NoLease, LeaseRow
  <1>4. Age(w, spent[w]) \in Int
    BY <1>1 DEF Age, LeaseRow
  <1>5. Escalates(w, spent[w]) \in BOOLEAN
    BY <1>1 DEF Escalates, LeaseRow
  <1>6. QED
    BY <1>1, <1>2, <1>3, <1>4, <1>5, LeasePolicy DEF NextLease, LeaseRow

\* A worker that is not acting leaves nothing to show.
LEMMA LeaveActing ==
    ASSUME TypeOK, NEW w \in Workers, Leave(w), NEW v \in Workers, Acting(v)'
    PROVE  v # w /\ Acting(v) /\ spent'[v] = spent[v]
  BY DEF TypeOK, Leave, Goto, Acting

LEMMA InitLease == Init => LeaseInv
  BY LeasePolicy DEF Init, LeaseInv, TypeOK, LeaseRow, ActingOwns, Acting, NoLease, Kinds

\* A lease whose worker is acting is held in the eyes of every other one.
LEMMA ActingIsHeld ==
    ASSUME LeaseInv, NEW v \in Workers, Acting(v), NEW w \in Workers
    PROVE  HeldAt(w)
  <1>1. spent[v] \in Nat /\ spent[w] \in Nat /\ Offset[v] \in Nat /\ Offset[w] \in Nat
    BY LeasePolicy DEF LeaseInv, TypeOK
  <1>2. lease.holder # Nobody /\ lease.left = TTL - spent[v] + Offset[v] /\ spent[v] < Timeout
    BY LeasePolicy DEF LeaseInv, ActingOwns, Acting, Token
  <1>3. Timeout + Offset[w] - Offset[v] < TTL
    BY LeaseOutlivesAttempt
  <1>4. QED
    BY <1>1, <1>2, <1>3, LeasePolicy DEF HeldAt

LEMMA NextLeaseInv == LeaseInv /\ [Next]_vars => LeaseInv'
  <1> SUFFICES ASSUME LeaseInv, [Next]_vars PROVE LeaseInv'
    OBVIOUS
  <1> USE DEF LeaseInv
  <1>1. ASSUME NEW w \in Workers, ListOrder(w) PROVE LeaseInv'
    BY <1>1 DEF ListOrder, Goto, TypeOK, ActingOwns, Acting, Token
  <1>2. ASSUME NEW w \in Workers, StartAttempt(w) PROVE LeaseInv'
    BY <1>2 DEF StartAttempt, Goto, TypeOK, ActingOwns, Acting, Token
  <1>3. ASSUME NEW w \in Workers, Acquirable(w), lease' = AcquiredLease(w)
        PROVE  /\ lease' \in LeaseRow
               /\ lease'.holder = w /\ lease'.left = TTL - spent[w] + Offset[w]
               /\ \A v \in Workers : ~Acting(v)
    <2>1. \A v \in Workers : ~Acting(v)
      BY <1>3, ActingIsHeld DEF Acquirable
    <2>2. lease \in LeaseRow /\ TTL - spent[w] + Offset[w] \in Int
      BY LeasePolicy DEF TypeOK
    <2>3. QED
      BY <1>3, <2>1, <2>2, Zenon DEF AcquiredLease, LeaseRow, Token
  <1>4. ASSUME NEW w \in Workers, Acquire(w) PROVE LeaseInv'
    <2>1. TypeOK'
      BY <1>3, <1>4 DEF Acquire, Goto, TypeOK
    <2>2. ActingOwns'
      BY <1>3, <1>4 DEF Acquire, Goto, TypeOK, ActingOwns, Acting, Token
    <2>3. QED
      BY <2>1, <2>2
  <1>5. ASSUME NEW w \in Workers, Leave(w), lease' = lease, faults' \in Nat, moves' \in Nat
        PROVE  LeaseInv'
    BY <1>5 DEF Leave, Goto, TypeOK, ActingOwns, Acting, Token, Kinds
  <1>6. ASSUME NEW w \in Workers, Skip(w) PROVE LeaseInv'
    BY <1>5, <1>6 DEF Skip, TypeOK
  <1>7. ASSUME NEW w \in Workers, AcquireFails(w) PROVE LeaseInv'
    <2>0. faults' \in Nat /\ moves' \in Nat /\ Leave(w)
      BY <1>7 DEF AcquireFails, Fault, TypeOK
    <2>1. CASE lease' = lease
      BY <1>5, <2>0, <2>1
    <2>2. CASE Acquirable(w) /\ lease' = AcquiredLease(w)
      <3>1. TypeOK'
        BY <1>3, <2>0, <2>2 DEF Leave, Goto, TypeOK, Kinds
      <3>2. ActingOwns'
        BY <1>3, <2>0, <2>2, LeaveActing DEF ActingOwns
      <3>3. QED
        BY <3>1, <3>2
    <2>3. QED
      BY <1>7, <2>1, <2>2 DEF AcquireFails
  <1>8. ASSUME NEW w \in Workers, AcquireTimesOut(w) PROVE LeaseInv'
    BY <1>5, <1>8 DEF AcquireTimesOut, TypeOK
  <1>9. ASSUME NEW w \in Workers, NEW k \in Kinds, FinishWork(w, k) PROVE LeaseInv'
    BY <1>9 DEF FinishWork, Goto, TypeOK, ActingOwns, Acting, Token
  <1>10. ASSUME NEW w \in Workers, lease.holder = Token(w), Leave(w), lease'.holder = Nobody,
                lease' \in LeaseRow,
                faults' \in Nat, moves' \in Nat
         PROVE  LeaseInv'
    <2>1. TypeOK'
      BY <1>10 DEF Leave, Goto, TypeOK, Kinds
    <2>2. ActingOwns'
      BY <1>10, LeaveActing DEF ActingOwns, Token
    <2>3. QED
      BY <2>1, <2>2
  <1>11. ASSUME NEW w \in Workers, Release(w) PROVE LeaseInv'
    <2>1. Leave(w) /\ faults' \in Nat /\ moves' \in Nat
      BY <1>11 DEF Release, TypeOK
    <2>2. CASE lease.holder = Token(w)
      BY <1>10, <1>11, <2>1, <2>2, NextLeaseType DEF Release
    <2>3. CASE lease.holder # Token(w)
      BY <1>5, <1>11, <2>1, <2>3 DEF Release
    <2>4. QED
      BY <2>2, <2>3
  <1>12. ASSUME NEW w \in Workers, Shutdown(w) PROVE LeaseInv'
    <2>1. Leave(w) /\ faults' \in Nat /\ moves' \in Nat
      BY <1>12 DEF Shutdown, Fault, TypeOK
    <2>2. CASE lease.holder = Token(w)
      <3>1. Age(w, 0) \in Int /\ Offset[w] \in Int
        BY LeasePolicy DEF Age, TypeOK, LeaseRow
      <3>2. Escalates(w, 0) \in BOOLEAN
        BY DEF Escalates, TypeOK, LeaseRow
      <3>3. lease' = [lease EXCEPT !.holder = Nobody, !.left = 0, !.pending = TRUE,
                                   !.age = Age(w, 0), !.retry = Offset[w], !.escalated = Escalates(w, 0)]
        BY <1>12, <2>2 DEF Shutdown
      <3>4. lease' \in LeaseRow
            /\ lease'.holder = Nobody
        <4>1. lease \in LeaseRow /\ 0 \in Int
          BY DEF TypeOK
        <4>2. QED
          BY <3>1, <3>2, <3>3, <4>1, Zenon DEF LeaseRow
      <3>5. QED
        BY <1>10, <2>1, <2>2, <3>4
    <2>3. CASE lease.holder # Token(w)
      BY <1>5, <1>12, <2>1, <2>3 DEF Shutdown
    <2>4. QED
      BY <2>2, <2>3
  <1>13. ASSUME NEW w \in Workers, Crash(w) PROVE LeaseInv'
    BY <1>5, <1>13 DEF Crash, Fault, TypeOK
  <1>14. ASSUME fresh' = [v \in Workers |-> FALSE], moves' = moves + 1,
                UNCHANGED <<lease, pc, spent, kind, faults>>
         PROVE  LeaseInv'
    BY <1>14 DEF TypeOK, ActingOwns, Acting, Token
  <1>15. ASSUME Tick PROVE LeaseInv'
    <2>1. /\ lease'.holder = lease.holder /\ lease'.left = Down(lease.left)
          /\ lease' \in LeaseRow
      <3> DEFINE aged == IF lease.pending /\ lease.age < EscalateAfter + Slack
                         THEN lease.age + 1 ELSE lease.age
      <3>1. lease \in LeaseRow
        BY DEF TypeOK
      <3>2. Down(lease.left) \in Int /\ Down(lease.retry) \in Int /\ aged \in Int
        BY <3>1, LeasePolicy DEF Down, LeaseRow
      <3>3. lease' = [lease EXCEPT !.left = Down(lease.left), !.retry = Down(lease.retry), !.age = aged]
        BY <1>15 DEF Tick
      <3> HIDE DEF aged
      <3>4. QED
        BY <3>1, <3>2, <3>3, Zenon DEF LeaseRow
    <2>2. spent' \in [Workers -> Nat]
      BY <1>15 DEF Tick, TypeOK
    <2>3. TypeOK'
      BY <1>15, <2>1, <2>2 DEF Tick, TypeOK
    <2>4. ASSUME NEW w \in Workers, Acting(w)'
          PROVE  lease'.holder = Token(w) /\ lease'.left = TTL - spent'[w] + Offset[w]
      <3>1. spent'[w] = spent[w] + 1 /\ spent[w] \in Nat /\ Acting(w)
        BY <1>15, <2>4, LeasePolicy DEF Tick, Acting, Limit, TypeOK
      <3>2. Timeout < TTL /\ Offset[w] \in Nat
        BY LeaseOutlivesAttempt, LeasePolicy
      <3>3. QED
        BY <2>1, <3>1, <3>2, LeasePolicy DEF ActingOwns, Down, Acting
    <2>5. QED
      BY <2>3, <2>4 DEF ActingOwns, Token
  <1>16. CASE UNCHANGED vars
    BY <1>16 DEF vars, TypeOK, ActingOwns, Acting, Token
  <1>17. QED
    BY <1>1, <1>2, <1>4, <1>6, <1>7, <1>8, <1>9, <1>11, <1>12, <1>13, <1>14, <1>15, <1>16
    DEF Next, Run, MoveOrder, OrderMoves

\* A step keeps the retry schedule unless it is the release of a resolved order.
LEMMA ScheduleStep ==
    ASSUME TypeOK, [Next]_vars
    PROVE  \/ lease' = NoLease /\ \E w \in Workers : pc[w] = "releasing" /\ kind[w] = "RESOLVED"
           \/ ScheduleKept
  <1>1. lease \in LeaseRow
    BY DEF TypeOK
  <1>2. ASSUME lease' = lease PROVE ScheduleKept
    BY <1>1, <1>2 DEF ScheduleKept, LeaseRow
  <1>3. ASSUME NEW w \in Workers, lease' = AcquiredLease(w) PROVE ScheduleKept
    BY <1>1, <1>3 DEF ScheduleKept, LeaseRow, AcquiredLease
  <1>4. ASSUME NEW w \in Workers, Release(w), kind[w] # "RESOLVED" PROVE ScheduleKept
    <2>1. CASE lease.holder # Token(w)
      BY <1>2, <1>4, <2>1 DEF Release
    <2>2. CASE lease.holder = Token(w)
      <3>1. lease' = NextLease(w)
        BY <1>4, <2>2 DEF Release
      <3>2. lease'.attempts >= lease.attempts
        BY <1>1, <1>4, <3>1 DEF NextLease, LeaseRow
      <3>3. lease.pending => lease'.pending /\ lease'.age >= lease.age
        BY <1>1, <1>4, <3>1 DEF NextLease, LeaseRow, Age
      <3>4. lease.escalated => lease'.escalated
        BY <1>1, <1>4, <3>1 DEF NextLease, LeaseRow, Escalates
      <3>5. QED
        BY <3>2, <3>3, <3>4 DEF ScheduleKept
    <2>3. QED
      BY <2>1, <2>2
  <1>5. ASSUME NEW w \in Workers, Release(w), kind[w] = "RESOLVED"
        PROVE  ScheduleKept \/ lease' = NoLease
    BY <1>2, <1>5 DEF Release, NextLease
  <1>6. ASSUME NEW w \in Workers, Shutdown(w) PROVE ScheduleKept
    BY <1>1, <1>2, <1>6 DEF Shutdown, ScheduleKept, LeaseRow, Age, Escalates
  <1>7. ASSUME Tick PROVE ScheduleKept
    BY <1>1, <1>7 DEF Tick, ScheduleKept, LeaseRow
  <1>8. ASSUME NEW w \in Workers, Run(w)
        PROVE  \/ lease' = NoLease /\ pc[w] = "releasing" /\ kind[w] = "RESOLVED"
               \/ ScheduleKept
    <2>1. ASSUME Release(w) PROVE pc[w] = "releasing"
      BY <2>1 DEF Release
    <2>2. QED
      BY <1>2, <1>3, <1>4, <1>5, <1>8, <2>1
      DEF Run, ListOrder, StartAttempt, Acquire, Skip, AcquireTimesOut, FinishWork
  <1>9. QED
    BY <1>2, <1>3, <1>6, <1>7, <1>8 DEF Next, AcquireFails, MoveOrder, Crash, OrderMoves, vars

\* Every reachable row and attempt of the recovery guard has its type.
THEOREM LeaseTypeCorrect == Spec => []TypeOK
  BY InitLease, NextLeaseInv, PTL DEF Spec, LeaseInv

\* Between the coordinator and any number of reconciliation runs, at most one
\* attempt at a time may act on an order, however late attempts and releases
\* come, as long as the lease outlives the timeout by the clocks' difference.
THEOREM RecoveryIsExclusive == Spec => []ExclusiveRecovery
  <1>1. LeaseInv => ExclusiveRecovery
    BY DEF LeaseInv, ActingOwns, ExclusiveRecovery, Token
  <1>2. QED
    BY <1>1, InitLease, NextLeaseInv, PTL DEF Spec

\* An attempt that may still act holds the row, so no other attempt's release
\* or takeover has freed it.
THEOREM ActingKeepsLease == Spec => []ActingHolds
  <1>1. LeaseInv => ActingHolds
    BY DEF LeaseInv, ActingOwns, ActingHolds
  <1>2. QED
    BY <1>1, InitLease, NextLeaseInv, PTL DEF Spec

\* No crash, takeover, failed or late release resets the backoff, the age or
\* the escalation of an order in recovery; only its resolution does.
THEOREM ScheduleIsDurable == Spec => ScheduleSurvives
  <1>1. LeaseInv /\ [Next]_vars
        => [ \/ lease' = NoLease /\ \E w \in Workers : pc[w] = "releasing" /\ kind[w] = "RESOLVED"
             \/ ScheduleKept ]_vars
    BY ScheduleStep DEF LeaseInv
  <1>2. QED
    BY <1>1, InitLease, NextLeaseInv, PTL DEF Spec, ScheduleSurvives

-----------------------------------------------------------------------------
(* VenueSession: for every timing the configuration allows, an open gate   *)
(* stands over a live session, and a refused order is nowhere.             *)

Heartbeats ==
  [phase : {"start", "run"}, tries : Nat, timer : 0..Interval, tick : BOOLEAN,
   id : BOOLEAN, err : BOOLEAN, age : 0..StaleAfter, looped : BOOLEAN]

SessionTypes ==
  /\ hb \in Heartbeats
  /\ beat \in [on : BOOLEAN, age : 0..CallTimeout, at : {"out", "counted", "invalid"}]
  /\ silence \in 0..DeadMan

\* The loop starts each call at its tick: the ticker tells the age of the call.
Cadence ==
  /\ hb.looped => hb.phase = "run"
  /\ hb.phase = "run" =>
       /\ hb.timer > 0
       /\ ~beat.on /\ hb.tick => hb.timer = Interval
       /\ beat.on /\ hb.tick => hb.timer = Interval /\ beat.age = Interval
       /\ beat.on /\ ~hb.tick => hb.timer = Interval - beat.age

\* What the venue counted is no older than the call; and while the gate is not
\* closed by a failure, no older than the tick that call belongs to.
CountedSince ==
  /\ beat.on /\ beat.at = "counted" => silence <= beat.age
  /\ hb.looped /\ ~hb.err =>
       /\ beat.on /\ beat.at # "counted" => silence <= Interval + beat.age
       /\ ~beat.on /\ hb.tick => silence <= Interval
       /\ ~beat.on /\ ~hb.tick => silence <= Interval - hb.timer

HeartbeatInv == SessionTypes /\ Cadence /\ CountedSince

Placements ==
  [side : {"BUY", "SELL"}, at : {"new", "prepared", "waiting", "sent", "done"},
   result : {"none", "placed", "rejected", "notSent", "ambiguous"}]

\* What a rejected placement rests on: before the POST leaves nothing is at
\* the venue, and an answer that will be read as a refusal comes from a refusal.
PlacementInv ==
  /\ order \in Placements
  /\ order.result # "none" => order.at = "done"
  /\ order.at \in {"new", "prepared", "waiting"} => wire = Nothing /\ ~held
  /\ wire \in [post : {"none", "out"},
               answer : {"none", "accepted", "acceptedNoId", "garbled", "refused", "4xx", "503mode", "5xx"}]
  /\ wire.post = "out" => wire.answer = "none" /\ ~held
  /\ wire.answer # "none" => order.at = "sent"
  /\ wire.answer \in {"refused", "4xx", "503mode"} => ~held
  /\ RefusalIsFinal

-----------------------------------------------------------------------------
(* The heartbeat.                                                          *)

LEMMA Timing ==
  /\ Interval \in Nat /\ Interval > 0 /\ StaleAfter \in Nat /\ StaleAfter > 0
  /\ CallTimeout \in Nat /\ CallTimeout > 0 /\ DeadMan \in Nat
  /\ CallTimeout <= Interval /\ Interval + CallTimeout < DeadMan
  BY VenueSessionConstants, HeartbeatTiming

\* The updates of the heartbeat record keep its type.
LEMMA HeartbeatUpdates ==
  ASSUME NEW h \in Heartbeats, NEW tries \in Nat, NEW timer \in 0..Interval,
         NEW age \in 0..StaleAfter, NEW tick \in BOOLEAN, NEW looped \in BOOLEAN
  PROVE  /\ [h EXCEPT !.tick = FALSE, !.tries = tries] \in Heartbeats
         /\ [h EXCEPT !.id = FALSE, !.err = TRUE] \in Heartbeats
         /\ [h EXCEPT !.id = TRUE, !.err = FALSE, !.age = age] \in Heartbeats
         /\ [h EXCEPT !.looped = looped] \in Heartbeats
         /\ [h EXCEPT !.timer = timer] \in Heartbeats
         /\ [h EXCEPT !.phase = "run", !.timer = timer] \in Heartbeats
         /\ [h EXCEPT !.age = age, !.tick = tick, !.timer = timer] \in Heartbeats
  BY Zenon DEF Heartbeats

LEMMA HeartbeatInitially == SessionInit => HeartbeatInv
  BY Timing
  DEF SessionInit, HeartbeatInv, SessionTypes, Heartbeats, Cadence, CountedSince, NoBeat

LEMMA BeatStartsKeeps == HeartbeatInv /\ BeatStarts => HeartbeatInv'
  <1> SUFFICES ASSUME HeartbeatInv, BeatStarts PROVE HeartbeatInv'
    OBVIOUS
  <1> DEFINE tries == IF hb.phase = "start" THEN hb.tries + 1 ELSE 0
  <1>1. tries \in Nat /\ hb \in Heartbeats
    BY DEF HeartbeatInv, SessionTypes, Heartbeats
  <1>2. hb' = [hb EXCEPT !.tick = FALSE, !.tries = tries]
    BY DEF BeatStarts
  <1> HIDE DEF tries
  <1>3. hb' \in Heartbeats
    <2>1. 0 \in 0..Interval /\ 0 \in 0..StaleAfter /\ TRUE \in BOOLEAN
      BY Timing
    <2> QED
      BY <1>1, <1>2, <2>1, HeartbeatUpdates, Zenon
  <1>4. /\ hb'.phase = hb.phase /\ hb'.timer = hb.timer /\ ~hb'.tick /\ hb'.looped = hb.looped
        /\ hb'.err = hb.err /\ hb.tick
        /\ ~beat.on /\ beat'.on /\ beat'.age = 0 /\ beat'.at = "out" /\ silence' = silence
    BY <1>1, <1>2 DEF BeatStarts, Heartbeats
  <1>5. beat' \in [on : BOOLEAN, age : 0..CallTimeout, at : {"out", "counted", "invalid"}]
    BY Timing DEF BeatStarts
  <1>6. Cadence' /\ CountedSince'
    BY <1>4, Timing DEF HeartbeatInv, SessionTypes, Heartbeats, Cadence, CountedSince
  <1> QED
    BY <1>3, <1>4, <1>5, <1>6 DEF HeartbeatInv, SessionTypes

LEMMA VenueCountsKeeps == HeartbeatInv /\ VenueCountsBeat => HeartbeatInv'
  BY Timing
  DEF VenueCountsBeat, HeartbeatInv, SessionTypes, Cadence, CountedSince

LEMMA BeatReturnsKeeps == HeartbeatInv /\ BeatReturns => HeartbeatInv'
  <1> SUFFICES ASSUME HeartbeatInv, BeatReturns PROVE HeartbeatInv'
    OBVIOUS
  <1>1. PICK ok \in BOOLEAN, invalid \in BOOLEAN :
          /\ hb' = Scheduled(IF ok THEN BeatSucceeded(hb) ELSE BeatFailed(hb), ok, invalid)
          /\ ok => beat.at = "counted"
    BY Zenon DEF BeatReturns
  <1> DEFINE h == IF ok THEN BeatSucceeded(hb) ELSE BeatFailed(hb)
  <1>2. hb \in Heartbeats /\ 0 \in 0..StaleAfter /\ Interval \in 0..Interval
    BY Timing DEF HeartbeatInv, SessionTypes
  <1>3. /\ h.phase = hb.phase /\ h.timer = hb.timer /\ h.tick = hb.tick
        /\ h.looped = hb.looped /\ h.err = ~ok
    BY <1>2, Zenon DEF BeatSucceeded, BeatFailed, Heartbeats
  <1>4. h \in Heartbeats
    BY <1>2, HeartbeatUpdates, Zenon DEF BeatSucceeded, BeatFailed
  <1> HIDE DEF h
  <1>5. hb' = Scheduled(h, ok, invalid)
    BY <1>1 DEF h
  <1>6. h.looped \in BOOLEAN
    BY <1>4, SMTT(30) DEF Heartbeats
  <1>7. hb' \in Heartbeats
    BY <1>2, <1>4, <1>5, <1>6, HeartbeatUpdates, Zenon DEF Scheduled
  <1>8. /\ hb'.tick = hb.tick /\ hb'.err = ~ok
        /\ hb.phase = "run" => /\ hb'.phase = "run" /\ hb'.timer = hb.timer
                               /\ hb'.looped = (hb.looped \/ ok)
        /\ hb.phase = "start" => /\ hb'.looped = hb.looped
                                 /\ hb'.phase = "run" => hb'.timer = Interval
    BY <1>3, <1>4, <1>5 DEF Scheduled, Heartbeats
  <1>9. beat.on /\ beat' = NoBeat /\ silence' = silence
    BY DEF BeatReturns
  <1>10. SessionTypes'
    BY <1>7, <1>9, Timing DEF HeartbeatInv, SessionTypes, NoBeat
  <1>11. Cadence'
    BY <1>2, <1>8, <1>9, Timing DEF HeartbeatInv, Cadence, NoBeat, Heartbeats
  <1>12. CountedSince'
    BY <1>1, <1>2, <1>8, <1>9, Timing
    DEF HeartbeatInv, SessionTypes, Cadence, CountedSince, NoBeat, Heartbeats
  <1> QED
    BY <1>10, <1>11, <1>12 DEF HeartbeatInv

LEMMA TimePassesKeeps == HeartbeatInv /\ TimePasses => HeartbeatInv'
  <1> SUFFICES ASSUME HeartbeatInv, TimePasses PROVE HeartbeatInv'
    OBVIOUS
  <1> DEFINE age == AtMost(hb.age + 1, StaleAfter)
             tick == hb.tick \/ hb.timer = 1
             timer == IF hb.timer # 1 THEN IF hb.timer = 0 THEN 0 ELSE hb.timer - 1
                      ELSE IF hb.phase = "run" THEN Interval ELSE 0
  <1>1. hb \in Heartbeats
    BY DEF HeartbeatInv, SessionTypes
  <1>2. hb' = [hb EXCEPT !.age = age, !.tick = tick, !.timer = timer]
    BY DEF TimePasses
  <1>3. age \in 0..StaleAfter /\ tick \in BOOLEAN /\ timer \in 0..Interval
    BY <1>1, Timing DEF Heartbeats, AtMost
  <1>4. /\ hb.timer = 1 /\ hb.phase = "run" => timer = Interval
        /\ hb.timer > 1 => timer = hb.timer - 1
        /\ tick <=> (hb.tick \/ hb.timer = 1)
    BY <1>1, Timing, SMTT(30) DEF Heartbeats
  <1> HIDE DEF age, tick, timer
  <1>5. hb' \in Heartbeats
    BY <1>1, <1>2, <1>3, HeartbeatUpdates, Timing, Zenon
  <1>6. /\ hb'.phase = hb.phase /\ hb'.looped = hb.looped /\ hb'.err = hb.err
        /\ hb'.tick = tick /\ hb'.timer = timer
    BY <1>1, <1>2 DEF Heartbeats
  <1>7. /\ beat' \in [on : BOOLEAN, age : 0..CallTimeout, at : {"out", "counted", "invalid"}]
        /\ beat'.on = beat.on /\ beat'.at = beat.at
        /\ beat.on => beat'.age = beat.age + 1 /\ beat.age < CallTimeout
    BY Timing DEF TimePasses, HeartbeatInv, SessionTypes
  <1>8. silence' \in 0..DeadMan /\ silence' <= silence + 1
    BY Timing DEF TimePasses, AtMost, HeartbeatInv, SessionTypes
  <1>9. ~(hb.tick /\ ~beat.on)
    BY DEF TimePasses
  <1>10. hb.timer \in 0..Interval /\ beat.age \in 0..CallTimeout /\ silence \in 0..DeadMan
    BY DEF HeartbeatInv, SessionTypes, Heartbeats
  <1>11. Cadence'
    BY <1>3, <1>4, <1>6, <1>7, <1>9, <1>10, Timing DEF HeartbeatInv, Cadence
  <1>12. CountedSince'
    BY <1>3, <1>4, <1>6, <1>7, <1>8, <1>9, <1>10, Timing DEF HeartbeatInv, Cadence, CountedSince
  <1> QED
    BY <1>5, <1>7, <1>8, <1>11, <1>12 DEF HeartbeatInv, SessionTypes

\* The other steps leave the heartbeat alone.
LEMMA HeartbeatPreserved == HeartbeatInv /\ [SessionNext]_sessionVars => HeartbeatInv'
  <1> SUFFICES ASSUME HeartbeatInv, [SessionNext]_sessionVars PROVE HeartbeatInv'
    OBVIOUS
  <1>1. CASE UNCHANGED <<hb, beat, silence>>
    BY <1>1 DEF HeartbeatInv, SessionTypes, Cadence, CountedSince
  <1>2. CASE BeatStarts \/ VenueCountsBeat \/ BeatReturns \/ TimePasses
    BY <1>2, BeatStartsKeeps, VenueCountsKeeps, BeatReturnsKeeps, TimePassesKeeps
  <1> QED
    BY <1>1, <1>2 DEF SessionNext, sessionVars, GateTurns, PreparePlace, PlacePrepared, SendOrder,
       LimiterGivesUp, VenueHandles, PostIsLost, AnswerArrives, AnswerIsLost

\* Once the loop has completed a heartbeat, an open gate (CheckAccount) means
\* that the venue's dead-man switch has not fired, for every interval, call
\* timeout and switch of the configured proportions.
THEOREM GateOverLiveSession == SessionSpec => []OpenGateHasLiveSession
  <1>1. HeartbeatInv => OpenGateHasLiveSession
    BY Timing DEF HeartbeatInv, SessionTypes, Heartbeats, Cadence, CountedSince, OpenGateHasLiveSession, HeartbeatOpen
  <1> QED
    BY <1>1, HeartbeatInitially, HeartbeatPreserved, PTL DEF SessionSpec

-----------------------------------------------------------------------------
(* The placement.                                                          *)

\* What becomes of the placement record: it advances, or it ends with a result.
Advances(at) == order' \in Placements /\ order'.at = at /\ order'.result = order.result
Ends(result) == order' \in Placements /\ order'.at = "done" /\ order'.result = result

LEMMA PlacementAdvances ==
  ASSUME order \in Placements, NEW at \in {"prepared", "waiting", "sent"}, order' = [order EXCEPT !.at = at]
  PROVE  Advances(at)
  BY Zenon DEF Placements, Advances

LEMMA PlacementEnds ==
  ASSUME order \in Placements, NEW result \in {"placed", "rejected", "notSent", "ambiguous"},
         order' = [order EXCEPT !.at = "done", !.result = result]
  PROVE  Ends(result)
  BY Zenon DEF Placements, Ends

LEMMA PlacementInitially == SessionInit => PlacementInv
  BY DEF SessionInit, PlacementInv, Placements, RefusalIsFinal, NewOrder, Nothing

LEMMA PlacementPreserved == PlacementInv /\ [SessionNext]_sessionVars => PlacementInv'
  <1> SUFFICES ASSUME PlacementInv, [SessionNext]_sessionVars PROVE PlacementInv'
    OBVIOUS
  <1> USE DEF PlacementInv, RefusalIsFinal, Nothing
  <1>1. CASE UNCHANGED <<order, wire, held>>
    BY <1>1
  <1>2. CASE PreparePlace
    <2>1. Advances("prepared") \/ Ends("rejected")
      BY <1>2, PlacementAdvances, PlacementEnds DEF PreparePlace
    <2> QED
      BY <1>2, <2>1 DEF PreparePlace, Advances, Ends
  <1>3. CASE PlacePrepared
    <2>1. Advances("waiting") \/ Ends("rejected")
      BY <1>3, PlacementAdvances, PlacementEnds DEF PlacePrepared
    <2> QED
      BY <1>3, <2>1 DEF PlacePrepared, Advances, Ends
  <1>4. CASE SendOrder
    <2>1. Advances("sent")
      BY <1>4, PlacementAdvances DEF SendOrder
    <2> QED
      BY <1>4, <2>1 DEF SendOrder, Advances
  <1>5. CASE LimiterGivesUp
    <2>1. Ends("notSent")
      BY <1>5, PlacementEnds DEF LimiterGivesUp
    <2> QED
      BY <1>5, <2>1 DEF LimiterGivesUp, Ends
  <1>6. CASE VenueHandles
    BY <1>6 DEF VenueHandles, Answers
  <1>7. CASE PostIsLost
    BY <1>7 DEF PostIsLost
  <1>8. CASE AnswerArrives
    <2>1. ResponseResult(wire.answer) \in {"placed", "rejected", "ambiguous"}
      BY DEF ResponseResult, MapHTTPError
    <2>2. Ends(ResponseResult(wire.answer))
      BY <1>8, <2>1, PlacementEnds, Zenon DEF AnswerArrives
    <2> QED
      BY <1>8, <2>2 DEF AnswerArrives, Ends, ResponseResult, MapHTTPError
  <1>9. CASE AnswerIsLost
    <2>1. Ends("ambiguous")
      BY <1>9, PlacementEnds DEF AnswerIsLost
    <2> QED
      BY <1>9, <2>1 DEF AnswerIsLost, Ends
  <1> QED
    BY <1>1, <1>2, <1>3, <1>4, <1>5, <1>6, <1>7, <1>8, <1>9, Zenon
    DEF SessionNext, sessionVars, BeatStarts, VenueCountsBeat, BeatReturns, TimePasses, GateTurns

\* A placement the client reports as rejected or never sent (mapHTTPError, the
\* gates, the limiter) is not at the venue and can no longer get there,
\* whatever was lost, late or answered by a server error.
THEOREM RefusedIsNowhere == SessionSpec => []RefusalIsFinal
  <1>1. PlacementInv => RefusalIsFinal
    BY DEF PlacementInv
  <1> QED
    BY <1>1, PlacementInitially, PlacementPreserved, PTL DEF SessionSpec

-----------------------------------------------------------------------------
(* FillEvidence: a booked fill stays on the chain, for any number of RPC   *)
(* nodes, any lag and any depth of reorganisation the required depth is    *)
(* chosen for (RequiredDepth > NodeLag + ReorgDepth), whichever node       *)
(* answers which read.                                                     *)

Steps == {"idle", "paging", "receipt", "head", "again", "confirm"}

\* What a reader holds; what its rows say does not matter here.
ReadingOK ==
    /\ DOMAIN reading = {"at", "row", "block", "height", "head"}
    /\ reading.at \in Steps
    /\ reading.block \in Nat /\ reading.height \in Nat /\ reading.head \in Nat

ChainOK ==
    /\ branch \in Seq(Nat) /\ inclusions \in Nat
    /\ views \in [RpcNodes -> Seq(Nat)]

\* Block b is at height h, deeper than a reorganisation reaches.
Settled(h, b) == h \in 1..Len(branch) /\ h + ReorgDepth <= Len(branch) /\ branch[h] = b

\* A node is at most NodeLag blocks behind, and what it has below the reach of
\* a reorganisation is what the chain has.
ViewsLag ==
    \A n \in RpcNodes :
        /\ Len(views[n]) <= Len(branch) /\ Len(branch) <= Len(views[n]) + NodeLag
        /\ \A h \in 1..Len(views[n]) : h + ReorgDepth <= Len(views[n]) => branch[h] = views[n][h]

\* The first head was a length of the chain, and the receipt that was seen
\* after it is settled if it is deep enough below that head.
ReadingIsSound ==
    /\ reading.at \in {"again", "confirm"} => reading.head <= Len(branch)
    /\ reading.at = "confirm" /\ reading.head - reading.height + 1 >= RequiredDepth
         => Settled(reading.height, reading.block)

BookedIsSettled == fillRow.status = "CONFIRMED" => \E h \in Nat : Settled(h, fillRow.block)

EvidenceInv == ChainOK /\ ReadingOK /\ ViewsLag /\ ReadingIsSound /\ BookedIsSettled

-----------------------------------------------------------------------------

LEMMA EvidenceInitially == EvidenceInit => EvidenceInv
  <1> SUFFICES ASSUME EvidenceInit PROVE EvidenceInv
    OBVIOUS
  <1>1. ChainOK /\ ViewsLag
    BY FillEvidenceConstants DEF EvidenceInit, ChainOK, ViewsLag
  <1>2. ReadingOK /\ ReadingIsSound
    BY DEF EvidenceInit, ReadingOK, ReadingIsSound, Unread, Steps
  <1>3. BookedIsSettled
    BY DEF EvidenceInit, BookedIsSettled, NoFill
  <1>4. QED
    BY <1>1, <1>2, <1>3 DEF EvidenceInv

\* Growing and reorganising leave a settled block where it is.
LEMMA SettledStays ==
    ASSUME ChainOK, MineBlock \/ ReplaceBlocks, NEW h, NEW b, Settled(h, b)
    PROVE  Settled(h, b)'
  <1>1. CASE MineBlock
    BY <1>1, FillEvidenceConstants DEF MineBlock, ChainOK, Settled
  <1>2. CASE ReplaceBlocks
    BY <1>2, FillEvidenceConstants, SMTT(30) DEF ReplaceBlocks, ChainOK, Settled
  <1>3. QED
    BY <1>1, <1>2

LEMMA ChainMoves ==
    ASSUME EvidenceInv, MineBlock \/ ReplaceBlocks
    PROVE  EvidenceInv'
  <1> USE FillEvidenceConstants
  <1>1. UNCHANGED <<views, reading, fillRow>> /\ ChainOK
    BY DEF MineBlock, ReplaceBlocks, EvidenceInv
  <1>2. ChainOK' /\ Len(branch) <= Len(branch')
        /\ \A n \in RpcNodes : Len(branch') <= Len(views[n]) + NodeLag
    <2>1. CASE MineBlock
      BY <2>1, <1>1 DEF MineBlock, ChainOK
    <2>2. CASE ReplaceBlocks
      <3>1. PICK k \in 1..ReorgDepth : branch' = [h \in 1..Len(branch) |->
                           IF h > Len(branch) - k THEN 0 ELSE branch[h]]
        BY <2>2 DEF ReplaceBlocks
      <3>2. branch' \in Seq(Nat) /\ Len(branch') = Len(branch)
        BY <3>1, <1>1 DEF ChainOK
      <3>3. QED
        BY <3>2, <2>2, <1>1 DEF ReplaceBlocks, ChainOK, EvidenceInv, ViewsLag
    <2>3. QED
      BY <2>1, <2>2
  <1>3. ViewsLag'
    <2> SUFFICES ASSUME NEW n \in RpcNodes
                 PROVE  /\ Len(views[n]) <= Len(branch') /\ Len(branch') <= Len(views[n]) + NodeLag
                        /\ \A h \in 1..Len(views[n]) :
                             h + ReorgDepth <= Len(views[n]) => branch'[h] = views[n][h]
      BY <1>1 DEF ViewsLag
    <2>1. views[n] \in Seq(Nat) /\ Len(views[n]) \in Nat /\ Len(branch) \in Nat /\ Len(branch') \in Nat
      BY <1>1, <1>2 DEF ChainOK
    <2>2. Len(views[n]) <= Len(branch)
      BY DEF EvidenceInv, ViewsLag
    <2>3. ASSUME NEW h \in 1..Len(views[n]), h + ReorgDepth <= Len(views[n])
          PROVE  branch'[h] = views[n][h]
      <3>1. Settled(h, views[n][h])
        BY <2>1, <2>2, <2>3 DEF EvidenceInv, ViewsLag, Settled
      <3>2. Settled(h, views[n][h])'
        BY <3>1, <1>1, SettledStays DEF Settled
      <3>3. QED
        BY <3>2, <1>1 DEF Settled
    <2>4. QED
      BY <1>2, <2>1, <2>2, <2>3
  <1>4. ReadingOK'
    BY <1>1 DEF EvidenceInv, ReadingOK
  <1>5. ReadingIsSound'
    <2>1. Len(branch) \in Nat /\ Len(branch') \in Nat /\ reading.head \in Nat
      BY <1>1, <1>2 DEF ChainOK, EvidenceInv, ReadingOK
    <2>2. reading.at \in {"again", "confirm"} => reading.head <= Len(branch')
      BY <1>2, <2>1 DEF EvidenceInv, ReadingIsSound
    <2>3. ASSUME Settled(reading.height, reading.block)
          PROVE  Settled(reading.height, reading.block)'
      <3>1. PICK h, b : h = reading.height /\ b = reading.block
        OBVIOUS
      <3>2. Settled(h, b)'
        BY <1>1, <2>3, <3>1, SettledStays
      <3>3. QED
        BY <1>1, <3>1, <3>2 DEF Settled
    <2>4. QED
      BY <1>1, <2>2, <2>3 DEF EvidenceInv, ReadingIsSound
  <1>6. BookedIsSettled'
    BY <1>1, SettledStays DEF EvidenceInv, BookedIsSettled, Settled
  <1>7. QED
    BY <1>2, <1>3, <1>4, <1>5, <1>6 DEF EvidenceInv

LEMMA NodeMoves ==
    ASSUME EvidenceInv, NEW n \in RpcNodes, NodeFollows(n)
    PROVE  EvidenceInv'
  <1>1. UNCHANGED <<branch, inclusions, reading, fillRow>> /\ views' = [views EXCEPT ![n] = branch]
    BY DEF NodeFollows
  <1>2. ChainOK'
    BY <1>1 DEF EvidenceInv, ChainOK
  <1>3. ViewsLag'
    BY <1>1, FillEvidenceConstants DEF EvidenceInv, ChainOK, ViewsLag
  <1>4. ReadingOK' /\ ReadingIsSound' /\ BookedIsSettled'
    BY <1>1 DEF EvidenceInv, ReadingOK, ReadingIsSound, BookedIsSettled, Settled
  <1>5. QED
    BY <1>2, <1>3, <1>4 DEF EvidenceInv

\* The reader and the venue leave the chain alone.
LEMMA ReaderMoves ==
    ASSUME EvidenceInv, UNCHANGED <<branch, inclusions, views>>,
           ReadingOK', ReadingIsSound', BookedIsSettled'
    PROVE  EvidenceInv'
  BY DEF EvidenceInv, ChainOK, ViewsLag

\* The empty reading claims nothing.
LEMMA Forgets ==
    ASSUME reading' = Unread
    PROVE  ReadingOK' /\ ReadingIsSound'
  BY DEF ReadingOK, ReadingIsSound, Unread, Steps

LEMMA BookedUntouched ==
    ASSUME EvidenceInv, UNCHANGED <<branch, fillRow>>
    PROVE  BookedIsSettled'
  BY DEF EvidenceInv, BookedIsSettled, Settled

LEMMA PagesKeep ==
    ASSUME EvidenceInv, ListFirstPage \/ (\E again \in BOOLEAN : ListLastPage(again)) \/ ScanFails
    PROVE  EvidenceInv'
  <1>1. UNCHANGED <<branch, inclusions, views, fillRow>>
    BY Zenon DEF ListFirstPage, ListLastPage, ScanFails
  <1>2. ReadingOK' /\ ReadingIsSound'
    <2>1. CASE ListFirstPage
      BY <2>1 DEF ListFirstPage, Unread, ReadingOK, ReadingIsSound, Steps
    <2>2. CASE \E again \in BOOLEAN : ListLastPage(again)
      <3>1. PICK r : reading' = Unread \/ reading' = [reading EXCEPT !.at = "receipt", !.row = r]
        BY <2>2, Zenon DEF ListLastPage
      <3>2. CASE reading' = [reading EXCEPT !.at = "receipt", !.row = r]
        <4>1. /\ DOMAIN reading' = DOMAIN reading /\ reading'.at = "receipt"
              /\ reading'.block = reading.block /\ reading'.height = reading.height
              /\ reading'.head = reading.head
          BY <3>2 DEF EvidenceInv, ReadingOK
        <4>2. QED
          BY <4>1 DEF EvidenceInv, ReadingOK, ReadingIsSound, Steps
      <3>3. QED
        BY <3>1, <3>2, Forgets
    <2>3. CASE ScanFails
      BY <2>3, Forgets DEF ScanFails
    <2>4. QED
      BY <2>1, <2>2, <2>3
  <1>3. QED
    BY <1>1, <1>2, BookedUntouched, ReaderMoves

LEMMA ReceiptKeeps ==
    ASSUME EvidenceInv, NEW n \in RpcNodes, ReadReceipt(n)
    PROVE  EvidenceInv'
  <1>1. UNCHANGED <<branch, inclusions, views, fillRow>>
    BY DEF ReadReceipt
  <1>2. CASE HoldsTrade(views[n]) = {}
    BY <1>1, <1>2, Forgets, BookedUntouched, ReaderMoves DEF ReadReceipt
  <1>3. CASE HoldsTrade(views[n]) # {}
    <2>1. PICK h \in HoldsTrade(views[n]) :
            reading' = [reading EXCEPT !.at = "head", !.height = h, !.block = views[n][h]]
      BY <1>3, Zenon DEF ReadReceipt
    <2>2. views[n] \in Seq(Nat) /\ h \in Nat /\ views[n][h] \in Nat
      BY <2>1 DEF EvidenceInv, ChainOK, HoldsTrade
    <2>3. ReadingOK' /\ ReadingIsSound'
      BY <2>1, <2>2 DEF EvidenceInv, ReadingOK, ReadingIsSound, Steps
    <2>4. QED
      BY <1>1, <2>3, BookedUntouched, ReaderMoves
  <1>4. QED
    BY <1>2, <1>3

LEMMA HeadKeeps ==
    ASSUME EvidenceInv, NEW n \in RpcNodes, ReadHead(n)
    PROVE  EvidenceInv'
  <1>1. UNCHANGED <<branch, inclusions, views, fillRow>>
    BY DEF ReadHead
  <1>2. reading' = Unread \/ reading' = [reading EXCEPT !.at = "again", !.head = Len(views[n])]
    BY DEF ReadHead
  <1>3. Len(views[n]) \in Nat /\ Len(views[n]) <= Len(branch)
    BY DEF EvidenceInv, ChainOK, ViewsLag
  <1>4. ReadingOK' /\ ReadingIsSound'
    <2>1. CASE reading' = Unread
      BY <2>1, Forgets
    <2>2. CASE reading' = [reading EXCEPT !.at = "again", !.head = Len(views[n])]
      BY <1>1, <1>3, <2>2 DEF EvidenceInv, ReadingOK, ReadingIsSound, Steps
    <2>3. QED
      BY <1>2, <2>1, <2>2
  <1>5. QED
    BY <1>1, <1>4, BookedUntouched, ReaderMoves

\* The second receipt is seen after the head was read: the node that shows it
\* is at most NodeLag behind, so a receipt deep enough below that head is below
\* the reach of a reorganisation in the node's own chain.
LEMMA AgainKeeps ==
    ASSUME EvidenceInv, NEW n \in RpcNodes, ReadReceiptAgain(n)
    PROVE  EvidenceInv'
  <1>1. UNCHANGED <<branch, inclusions, views, fillRow>>
    BY DEF ReadReceiptAgain
  <1>2. CASE reading' = Unread
    BY <1>1, <1>2, Forgets, BookedUntouched, ReaderMoves
  <1>3. CASE /\ reading.height \in HoldsTrade(views[n]) /\ views[n][reading.height] = reading.block
             /\ reading' = [reading EXCEPT !.at = "confirm"]
    <2>1. ReadingOK'
      BY <1>3 DEF EvidenceInv, ReadingOK, Steps
    <2>2. /\ reading'.at = "confirm" /\ reading'.head = reading.head
          /\ reading'.height = reading.height /\ reading'.block = reading.block
      BY <1>3 DEF EvidenceInv, ReadingOK
    <2>3. reading.head <= Len(branch)
      BY DEF ReadReceiptAgain, EvidenceInv, ReadingIsSound
    <2>4. /\ reading.height \in 1..Len(views[n]) /\ Len(views[n]) \in Nat /\ Len(branch) \in Nat
          /\ reading.head \in Nat /\ reading.height \in Nat
      BY <1>3 DEF EvidenceInv, ChainOK, ReadingOK, HoldsTrade
    <2>5. Len(views[n]) <= Len(branch) /\ Len(branch) <= Len(views[n]) + NodeLag
      BY DEF EvidenceInv, ViewsLag
    <2>6. ASSUME reading.head - reading.height + 1 >= RequiredDepth
          PROVE  Settled(reading.height, reading.block)
      <3>1. reading.height + ReorgDepth <= Len(views[n])
        BY <2>3, <2>4, <2>5, <2>6, FillEvidenceConstants
      <3>2. branch[reading.height] = reading.block
        BY <1>3, <2>4, <3>1 DEF EvidenceInv, ViewsLag
      <3>3. QED
        BY <2>4, <2>5, <3>1, <3>2, FillEvidenceConstants DEF Settled
    <2>7. ReadingIsSound'
      BY <1>1, <2>2, <2>3, <2>6 DEF ReadingIsSound, Settled
    <2>8. QED
      BY <1>1, <2>1, <2>7, BookedUntouched, ReaderMoves
  <1>4. QED
    BY <1>2, <1>3 DEF ReadReceiptAgain

\* The depth that is booked is counted from the lower of the two heads.
LEMMA BookingKeeps ==
    ASSUME EvidenceInv, NEW n \in RpcNodes, ReadHeadAgain(n)
    PROVE  EvidenceInv'
  <1>1. UNCHANGED <<branch, inclusions, views>> /\ reading' = Unread /\ reading.at = "confirm"
    BY DEF ReadHeadAgain
  <1>2. Len(views[n]) \in Nat /\ reading.head \in Nat /\ reading.height \in Nat
    BY DEF EvidenceInv, ChainOK, ReadingOK
  <1> DEFINE head == ConfirmedHead(reading.head, Len(views[n]))
             status == IF head - reading.height + 1 >= RequiredDepth THEN "CONFIRMED" ELSE "MINED"
  <1>3. head \in Nat /\ head <= reading.head
    BY <1>2 DEF ConfirmedHead
  <1>4. fillRow' = fillRow \/ fillRow' = [status |-> status, block |-> reading.block]
    BY DEF ReadHeadAgain
  <1>5. BookedIsSettled'
    <2>1. CASE fillRow' = fillRow
      BY <1>1, <2>1, BookedUntouched
    <2>2. CASE fillRow' = [status |-> status, block |-> reading.block] /\ status = "CONFIRMED"
      <3>1. reading.head - reading.height + 1 >= RequiredDepth
        BY <1>2, <1>3, <2>2, FillEvidenceConstants
      <3>2. Settled(reading.height, reading.block)
        BY <1>1, <3>1 DEF EvidenceInv, ReadingIsSound
      <3>3. QED
        BY <1>1, <1>2, <2>2, <3>2 DEF BookedIsSettled, Settled
    <2>3. CASE fillRow' = [status |-> status, block |-> reading.block] /\ status # "CONFIRMED"
      BY <2>3 DEF BookedIsSettled
    <2>4. QED
      BY <1>4, <2>1, <2>2, <2>3
  <1>6. QED
    BY <1>1, <1>5, Forgets, ReaderMoves

LEMMA EvidenceStep == EvidenceInv /\ [EvidenceNext]_evidenceVars => EvidenceInv'
  <1> SUFFICES ASSUME EvidenceInv, [EvidenceNext]_evidenceVars PROVE EvidenceInv'
    OBVIOUS
  <1>1. CASE \E t \in FillStatuses : VenueReports(t)
    <2>1. UNCHANGED <<branch, inclusions, views, reading, fillRow>>
      BY <1>1 DEF VenueReports
    <2>2. QED
      BY <2>1, BookedUntouched, ReaderMoves DEF EvidenceInv, ReadingOK, ReadingIsSound, Settled
  <1>2. CASE UNCHANGED evidenceVars
    BY <1>2, BookedUntouched, ReaderMoves
    DEF evidenceVars, EvidenceInv, ReadingOK, ReadingIsSound, Settled
  <1>3. QED
    BY <1>1, <1>2, ChainMoves, NodeMoves, PagesKeep, ReceiptKeeps, HeadKeeps, AgainKeeps,
       BookingKeeps DEF EvidenceNext

\* For every number of RPC nodes, every lag, every depth of reorganisation and
\* every required depth above their sum: the block of a fill that was booked as
\* CONFIRMED (order_filled_v2.go, fill_ledger.go) is in the canonical chain and
\* stays there.
THEOREM BookedFillIsFinal == EvidenceSpec => []BookedStaysOnChain
  <1>1. EvidenceInv => BookedStaysOnChain
    BY DEF EvidenceInv, BookedIsSettled, Settled, BookedStaysOnChain
  <1>2. QED
    BY <1>1, EvidenceInitially, EvidenceStep, PTL DEF EvidenceSpec

=============================================================================
