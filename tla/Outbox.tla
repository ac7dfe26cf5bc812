-------------------------------- MODULE Outbox --------------------------------
(***************************************************************************)
(* The transactional outbox (internal/adapter/postgres/outbox.go) and its   *)
(* dispatchers (internal/service/outboxdispatcher/service.go).  An event is *)
(* written in the transaction of the fill, settlement or redemption it is   *)
(* about; dispatchers, possibly several, claim a batch of due events,       *)
(* publish them one by one and record each result.  A claim is a time, not  *)
(* an owner: nothing fences a dispatcher that outlives its lease.           *)
(*                                                                         *)
(* next_attempt_at is kept as `due', the time left until it (0 once past),  *)
(* so the clock itself is not part of the state.                            *)
(***************************************************************************)
EXTENDS Integers, FiniteSets

CONSTANTS
    Events,          \* event keys (topic and event_key)
    Dispatchers,     \* RunOnce calls that may overlap
    BatchSize,
    ClaimLease,
    BaseBackoff,
    MaxBackoff,
    MaxClaims,     \* bound: claims of one event
    MaxHalts         \* bound: dispatchers that die

ASSUME OutboxAssumption ==
    /\ BatchSize \in Nat \ {0} /\ ClaimLease \in Nat
    /\ BaseBackoff \in Nat \ {0} /\ MaxBackoff \in Nat /\ BaseBackoff <= MaxBackoff
    /\ MaxClaims \in Nat /\ MaxHalts \in Nat

VARIABLES
    outbox,       \* execution_outbox: [status, due, attempts] of each event
    dispatcher,   \* each RunOnce: [batch, step, event]
    delivered,    \* events the publisher has accepted at least once
    halts

outboxVars == <<outbox, dispatcher, delivered, halts>>

Resting == [batch |-> [e \in Events |-> 0], step |-> "claim", event |-> {}]

OutboxTypeOK ==
    /\ outbox \in [Events -> [status : {"ABSENT", "PENDING", "PUBLISHED"}, due : Nat, attempts : Nat]]
    /\ dispatcher \in [Dispatchers ->
         [batch : [Events -> Nat], step : {"claim", "publish", "acknowledge", "reschedule"},
          event : SUBSET Events]]
    /\ delivered \subseteq Events
    /\ halts \in Nat

\* The delay doubles with every attempt; backoff halts at MaxBackoff.
Doubled[attempt \in Nat] == IF attempt <= 1 THEN BaseBackoff ELSE 2 * Doubled[attempt - 1]

Backoff(attempt) == IF Doubled[attempt] \in 0..MaxBackoff THEN Doubled[attempt] ELSE MaxBackoff

\* insertOutbox, inside the transaction of the business change; a second
\* insertion of the same key does nothing.
InsertOutbox(e) ==
    /\ outbox[e].status = "ABSENT"
    /\ outbox' = [outbox EXCEPT ![e] = [status |-> "PENDING", due |-> 0, attempts |-> 0]]
    /\ UNCHANGED <<dispatcher, delivered, halts>>

Due == {e \in Events : outbox[e].status = "PENDING" /\ outbox[e].due = 0}

\* One statement claims and leases the batch; the attempt count read back
\* travels with each event.
ClaimEvents(d, batch) ==
    /\ dispatcher[d].step = "claim" /\ batch # {}
    /\ batch \subseteq Due
    /\ Cardinality(batch) <= BatchSize
    /\ \A e \in batch : outbox[e].attempts < MaxClaims
    /\ outbox' = [e \in Events |->
         IF e \in batch
         THEN [status |-> "PENDING", due |-> ClaimLease, attempts |-> outbox[e].attempts + 1]
         ELSE outbox[e]]
    /\ dispatcher' = [dispatcher EXCEPT ![d] =
         [batch |-> [e \in Events |-> IF e \in batch THEN outbox[e].attempts + 1 ELSE 0],
          step |-> "publish", event |-> {}]]
    /\ UNCHANGED <<delivered, halts>>

\* The step after an event: the next one of the batch or the end of RunOnce.
Advance(d, e) ==
    LET rest == [dispatcher[d].batch EXCEPT ![e] = 0]
    IN  dispatcher' = [dispatcher EXCEPT ![d] =
          [batch |-> rest, event |-> {},
           step |-> IF \E f \in Events : rest[f] > 0 THEN "publish" ELSE "claim"]]

Publish(d, e) ==
    /\ dispatcher[d].step = "publish" /\ dispatcher[d].batch[e] > 0
    /\ delivered' = delivered \cup {e}
    /\ dispatcher' = [dispatcher EXCEPT ![d].step = "acknowledge", ![d].event = {e}]
    /\ UNCHANGED <<outbox, halts>>

\* As a mutant: an error of the publisher is only counted.
PublishFailsQuietly(d, e) ==
    /\ dispatcher[d].step = "publish" /\ dispatcher[d].batch[e] > 0
    /\ dispatcher' = [dispatcher EXCEPT ![d].step = "acknowledge", ![d].event = {e}]
    /\ UNCHANGED <<outbox, delivered, halts>>

\* The publisher reports an error; it may have accepted the event all the same.
PublishFails(d, e) ==
    /\ dispatcher[d].step = "publish" /\ dispatcher[d].batch[e] > 0
    /\ dispatcher' = [dispatcher EXCEPT ![d].step = "reschedule", ![d].event = {e}]
    /\ delivered' \in {delivered, delivered \cup {e}}
    /\ UNCHANGED <<outbox, halts>>

\* Unconditional on the claim: whoever published the event may say so.
MarkPublished(d, e) ==
    /\ dispatcher[d].step = "acknowledge" /\ e \in dispatcher[d].event
    /\ outbox' = [outbox EXCEPT ![e].status = "PUBLISHED"]
    /\ Advance(d, e)
    /\ UNCHANGED <<delivered, halts>>

\* Only a PENDING event is rescheduled, from the attempts this claim read; a
\* later claim's lease is overwritten.  An event published meanwhile matches no
\* row: the error is reported and the batch goes on.
MarkFailed(d, e) ==
    /\ dispatcher[d].step = "reschedule" /\ e \in dispatcher[d].event
    /\ outbox' = IF outbox[e].status = "PENDING"
                 THEN [outbox EXCEPT ![e].due = Backoff(dispatcher[d].batch[e])]
                 ELSE outbox
    /\ Advance(d, e)
    /\ UNCHANGED <<delivered, halts>>

\* The statement that records the result fails; the batch goes on.
MarkIsLost(d, e) ==
    /\ dispatcher[d].step \in {"acknowledge", "reschedule"} /\ e \in dispatcher[d].event
    /\ Advance(d, e)
    /\ UNCHANGED <<outbox, delivered, halts>>

DispatcherStops(d) ==
    /\ dispatcher[d].step # "claim" /\ halts < MaxHalts
    /\ halts' = halts + 1
    /\ dispatcher' = [dispatcher EXCEPT ![d] = Resting]
    /\ UNCHANGED <<outbox, delivered>>

OutboxTimePasses ==
    /\ \E e \in Events : outbox[e].due > 0
    /\ outbox' = [e \in Events |->
         [outbox[e] EXCEPT !.due = IF outbox[e].due > 0 THEN outbox[e].due - 1 ELSE 0]]
    /\ UNCHANGED <<dispatcher, delivered, halts>>

OutboxInit ==
    /\ outbox = [e \in Events |-> [status |-> "ABSENT", due |-> 0, attempts |-> 0]]
    /\ dispatcher = [d \in Dispatchers |-> Resting]
    /\ delivered = {}
    /\ halts = 0

OutboxNext ==
    \/ \E e \in Events : InsertOutbox(e)
    \/ \E d \in Dispatchers, batch \in SUBSET Events : ClaimEvents(d, batch)
    \/ \E d \in Dispatchers, e \in Events :
         \/ Publish(d, e) \/ PublishFails(d, e)
         \/ MarkPublished(d, e) \/ MarkFailed(d, e) \/ MarkIsLost(d, e)
    \/ \E d \in Dispatchers : DispatcherStops(d)
    \/ OutboxTimePasses

OutboxSpec == OutboxInit /\ [][OutboxNext]_outboxVars

------------------------------------------------------------------------------
\* At least once: an event the outbox holds as PUBLISHED was accepted by the
\* publisher, and a PENDING one stays claimable, never further away than the
\* longer of the lease and the longest backoff, although overlapping
\* dispatchers overwrite each other's schedule without any fence.
NoEventIsLost ==
    \A e \in Events :
        /\ outbox[e].status = "PUBLISHED" => e \in delivered
        /\ outbox[e].status = "PENDING" =>
             outbox[e].due <= ClaimLease \/ outbox[e].due <= MaxBackoff

\* The outbox row moves one way: from PENDING to PUBLISHED and never back, so a
\* late MarkFailed cannot revive a published event.
PublicationIsFinal ==
    [][\A e \in Events : outbox[e].status = "PUBLISHED" => outbox'[e].status = "PUBLISHED"]_outboxVars
===============================================================================
