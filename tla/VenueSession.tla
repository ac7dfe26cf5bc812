---------------------------- MODULE VenueSession ----------------------------
(***************************************************************************)
(* One account's session with the CLOB: the heartbeat that keeps the       *)
(* venue's dead-man switch from cancelling its orders, the gates an order  *)
(* passes when it is prepared and again just before its bytes are sent,    *)
(* and what the client concludes from an answer, a status or silence.      *)
(*                                                                         *)
(* clobheartbeat/service.go, the placement decorators (placement_readiness,*)
(* geoblock, conditional_funding), trading_client.go, trading_errors.go.   *)
(* Time advances in whole steps; a due timer fires before time advances.   *)
(***************************************************************************)
EXTENDS Integers, FiniteSets

CONSTANTS
  Interval, StaleAfter, CallTimeout,  \* heartbeat timing of the service
  StartAttempts,                      \* attempts of the first heartbeat
  DeadMan,                            \* the venue cancels after this silence
  Burst,                              \* capacity of the token bucket
  MaxTurns                            \* bound: changes of the remote gates

ASSUME VenueSessionConstants ==
  /\ {Interval, StaleAfter, CallTimeout, DeadMan, StartAttempts, Burst, MaxTurns} \subseteq Nat \ {0}
  /\ Interval < StaleAfter /\ StaleAfter < DeadMan /\ CallTimeout < StaleAfter

\* The configured timing (5 s, 3 s, 10 s): a call is over before the next tick,
\* and a call that starts a tick late is over before the switch fires.
ASSUME HeartbeatTiming == CallTimeout <= Interval /\ Interval + CallTimeout < DeadMan

VARIABLES
  hb,        \* accountState and the loop that drives it
  beat,      \* the heartbeat call in flight
  silence,   \* time since the venue last counted a heartbeat
  gates,     \* remote gates that are open now
  turns,
  order,     \* the placement: where it is and what the client concluded
  wire,      \* the POST and its answer on the way
  held,      \* the venue holds the order
  bucket     \* tokens of the limiter

sessionVars == <<hb, beat, silence, gates, turns, order, wire, held, bucket>>

RemoteGates == {"readiness", "geoblock", "closedOnly", "funding"}
NoBeat == [on |-> FALSE, age |-> 0, at |-> "out"]
NewOrder == [side |-> "BUY", at |-> "new", result |-> "none"]
Nothing == [post |-> "none", answer |-> "none"]

AtMost(n, bound) == IF n > bound THEN bound ELSE n

SessionInit ==
  /\ hb = [phase |-> "start", tries |-> 0, timer |-> 0, tick |-> TRUE,
           id |-> FALSE, err |-> TRUE, age |-> StaleAfter, looped |-> FALSE]
  /\ beat = NoBeat
  /\ silence \in {0, DeadMan}  \* a stopped process may still hold a session
  /\ gates = RemoteGates /\ turns = 0
  /\ \E side \in {"BUY", "SELL"} : order = [NewOrder EXCEPT !.side = side]
  /\ wire = Nothing /\ held = FALSE
  /\ bucket = Burst

-----------------------------------------------------------------------------
(* The heartbeat.                                                           *)

\* beat: read the id and start the bounded call.  Start calls it at once and
\* again after a delay, Run at every tick.
BeatStarts ==
  /\ hb.tick /\ ~beat.on
  /\ beat' = [on |-> TRUE, age |-> 0, at |-> "out"]
  /\ hb' = [hb EXCEPT !.tick = FALSE, !.tries = IF hb.phase = "start" THEN @ + 1 ELSE 0]
  /\ UNCHANGED <<silence, gates, turns, order, wire, held, bucket>>

\* The venue counts a beat that continues its session, refuses another id
\* while that session lives, and opens a session when there is none.
VenueCountsBeat ==
  /\ beat.on /\ beat.at = "out"
  /\ IF hb.id <=> silence < DeadMan
     THEN beat' = [beat EXCEPT !.at = "counted"] /\ silence' = 0
     ELSE beat' = [beat EXCEPT !.at = "invalid"] /\ silence' = silence
  /\ UNCHANGED <<hb, gates, turns, order, wire, held, bucket>>

\* The state a finished call leaves: a failure closes the gate and drops the id.
BeatFailureIsTransient(h) == [h EXCEPT !.id = FALSE]
BeatFailed(h) == [h EXCEPT !.id = FALSE, !.err = TRUE]
BeatSucceeded(h) == [h EXCEPT !.id = TRUE, !.err = FALSE, !.age = 0]

\* Start gives up on anything but an invalid id; Run goes on in any case.
Scheduled(h, ok, invalid) ==
  IF h.phase = "run" THEN [h EXCEPT !.looped = @ \/ ok]
  ELSE IF ~ok /\ invalid /\ h.tries < StartAttempts
       THEN [h EXCEPT !.timer = Interval]
       ELSE [h EXCEPT !.phase = "run", !.timer = Interval]

BeatReturns ==
  /\ beat.on
  /\ \/ /\ beat.at = "counted"
        /\ hb' = Scheduled(BeatSucceeded(hb), TRUE, FALSE)
     \/ /\ beat.at = "invalid"
        /\ hb' = Scheduled(BeatFailed(hb), FALSE, TRUE)
     \/ hb' = Scheduled(BeatFailed(hb), FALSE, FALSE)
  /\ beat' = NoBeat
  /\ UNCHANGED <<silence, gates, turns, order, wire, held, bucket>>

\* Time passes when no timer is due: the call has its deadline, the ticker of
\* Run keeps one tick while a call is running, the bucket fills.
TimePasses ==
  /\ ~(hb.tick /\ ~beat.on)
  /\ beat.on => beat.age < CallTimeout
  /\ LET due == hb.timer = 1
     IN  hb' = [hb EXCEPT !.age = AtMost(@ + 1, StaleAfter),
                          !.tick = @ \/ due,
                          !.timer = IF ~due THEN IF @ = 0 THEN 0 ELSE @ - 1
                                    ELSE IF hb.phase = "run" THEN Interval ELSE 0]
  /\ beat' = IF beat.on THEN [beat EXCEPT !.age = @ + 1] ELSE beat
  /\ silence' = AtMost(silence + 1, DeadMan)
  /\ bucket' = AtMost(bucket + 1, Burst)
  /\ UNCHANGED <<gates, turns, order, wire, held>>

\* CheckAccount.
HeartbeatOpen == ~hb.err /\ hb.age < StaleAfter

-----------------------------------------------------------------------------
(* The gates.                                                               *)

GateTurns(g) ==
  /\ turns < MaxTurns /\ turns' = turns + 1
  /\ gates' = IF g \in gates THEN gates \ {g} ELSE gates \cup {g}
  /\ UNCHANGED <<hb, beat, silence, order, wire, held, bucket>>

\* checkPlace of every decorator, outermost first: readiness of the account,
\* the heartbeat, the location and the closed-only mode, and for a SELL the
\* balance and allowance of its token.  A read that fails closes the gate.
CheckPlace ==
  /\ "readiness" \in gates
  /\ HeartbeatOpen
  /\ {"geoblock", "closedOnly"} \subseteq gates
  /\ order.side = "SELL" => "funding" \in gates

\* PreparePlace validates and signs; it sends nothing.
PreparePlace ==
  /\ order.at = "new"
  /\ \/ /\ CheckPlace
        /\ order' = [order EXCEPT !.at = "prepared"]
     \/ /\ ~CheckPlace
        /\ order' = [order EXCEPT !.at = "done", !.result = "rejected"]
     \/ \* the protocol, tick size or market of the order has changed
        order' = [order EXCEPT !.at = "done", !.result = "rejected"]
  /\ UNCHANGED <<hb, beat, silence, gates, turns, wire, held, bucket>>

\* PlacePrepared: every gate again, then the limiter.
PlacePrepared ==
  /\ order.at = "prepared"
  /\ order' = IF CheckPlace THEN [order EXCEPT !.at = "waiting"]
              ELSE [order EXCEPT !.at = "done", !.result = "rejected"]
  /\ UNCHANGED <<hb, beat, silence, gates, turns, wire, held, bucket>>

\* do: a token, and the POST leaves; or the caller gives up before that.
SendOrder ==
  /\ order.at = "waiting" /\ bucket > 0
  /\ bucket' = bucket - 1
  /\ order' = [order EXCEPT !.at = "sent"]
  /\ wire' = [post |-> "out", answer |-> "none"]
  /\ UNCHANGED <<hb, beat, silence, gates, turns, held>>

LimiterGivesUp ==
  /\ order.at = "waiting"
  /\ order' = [order EXCEPT !.at = "done", !.result = "notSent"]
  /\ UNCHANGED <<hb, beat, silence, gates, turns, wire, held, bucket>>

-----------------------------------------------------------------------------
(* The venue and the answer.                                                *)

\* The venue takes the order or refuses it.  Both may be answered by a status
\* of 500 and above; a definite answer says what happened.
Answers(accepted) ==
  IF accepted THEN {"accepted", "acceptedNoId", "garbled", "5xx"}
  ELSE {"refused", "4xx", "503mode", "garbled", "5xx"}

VenueHandles ==
  /\ wire.post = "out"
  /\ \E accepted \in BOOLEAN, answer \in {"accepted", "acceptedNoId", "garbled", "refused", "4xx", "503mode", "5xx"} :
       /\ answer \in Answers(accepted)
       /\ held' = accepted
       /\ wire' = [post |-> "none", answer |-> IF order.at = "sent" THEN answer ELSE "none"]
  /\ UNCHANGED <<hb, beat, silence, gates, turns, order, bucket>>

PostIsLost ==
  /\ wire.post = "out"
  /\ wire' = Nothing
  /\ UNCHANGED <<hb, beat, silence, gates, turns, order, held, bucket>>

\* mapHTTPError for a POST.
MapHTTPErrorRejects(answer) == "rejected"
MapHTTPError(answer) == IF answer = "5xx" THEN "ambiguous" ELSE "rejected"

\* PlacePrepared, from the body of the answer or the status.
ResponseResult(answer) ==
  CASE answer = "accepted" -> "placed"
    [] answer = "refused" -> "rejected"
    [] answer \in {"acceptedNoId", "garbled"} -> "ambiguous"
    [] OTHER -> MapHTTPError(answer)

AnswerArrives ==
  /\ order.at = "sent" /\ wire.answer # "none"
  /\ order' = [order EXCEPT !.at = "done", !.result = ResponseResult(wire.answer)]
  /\ wire' = [wire EXCEPT !.answer = "none"]
  /\ UNCHANGED <<hb, beat, silence, gates, turns, held, bucket>>

\* The request times out or the answer breaks off; the POST may still arrive.
AnswerIsLost ==
  /\ order.at = "sent"
  /\ order' = [order EXCEPT !.at = "done", !.result = "ambiguous"]
  /\ wire' = [wire EXCEPT !.answer = "none"]
  /\ UNCHANGED <<hb, beat, silence, gates, turns, held, bucket>>

-----------------------------------------------------------------------------

SessionNext ==
  \/ BeatStarts \/ VenueCountsBeat \/ BeatReturns \/ TimePasses
  \/ \E g \in RemoteGates : GateTurns(g)
  \/ PreparePlace \/ PlacePrepared \/ SendOrder \/ LimiterGivesUp
  \/ VenueHandles \/ PostIsLost \/ AnswerArrives \/ AnswerIsLost

SessionSpec == SessionInit /\ [][SessionNext]_sessionVars

-----------------------------------------------------------------------------
(* Properties.                                                              *)

(* Once the loop has completed a heartbeat, the gate is closed before the   *)
(* venue's dead-man switch fires: success is stamped when the answer        *)
(* arrives, up to a call timeout after the venue counted the beat, and only *)
(* closing on the first failure makes up for that.                          *)
OpenGateHasLiveSession ==
  hb.looped /\ HeartbeatOpen => silence < DeadMan

(* An order reported as rejected or never sent is not at the venue and can  *)
(* no longer get there: its reservation is released on that report.         *)
RefusalIsFinal ==
  order.result \in {"rejected", "notSent"} => ~held /\ wire.post = "none"
=============================================================================
