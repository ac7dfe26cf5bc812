----------------------------- MODULE KalshiVenue -----------------------------
(***************************************************************************)
(* The Kalshi adapter (internal/adapter/kalshi: client.go, venue.go,        *)
(* errors.go) between the execution service and the exchange: placing one   *)
(* order, reading it back, cancelling it and listing its fills, when any    *)
(* answer may be lost, refused by a gateway, delayed, incomplete, about      *)
(* another order, or older than what the exchange has already done.         *)
(*                                                                         *)
(* The exchange is external: it decides on the request once, matches, and   *)
(* shows its read endpoints a state that may lag behind.  An order is the   *)
(* record Remote; times are the exchange's own update counter.  Prices are  *)
(* in units of which Par make one dollar.                                   *)
(***************************************************************************)
EXTENDS Integers, Sequences, SequencesExt

CONSTANTS
    Tickets,       \* intents: [side, outcome, tif, size, price, executable]
    Par,           \* one dollar in price units
    MaxCalls       \* bound: reads, cancels and fill listings started

ASSUME KalshiVenueAssumption ==
    /\ Par \in Nat /\ Par > 1 /\ MaxCalls \in Nat
    /\ \A t \in Tickets :
         /\ t.side \in {"BUY", "SELL"} /\ t.outcome \in {"YES", "NO"}
         /\ t.tif \in {"IOC", "FOK", "GTC"} /\ t.size \in Nat \ {0}
         /\ t.price \in 1..(Par - 1) /\ t.executable \in Nat

VARIABLES
    kticket,   \* the intent of the order
    kx,        \* the order at the exchange, Absent until it is accepted
    kshown,    \* what the exchange's read endpoints show of it
    kpost,     \* the POST: "unsent" "invalid" "sent" "answered" "rejected"
    kpending,  \* the exchange holds the request and has not decided on it
    krefused,  \* the exchange decided against it
    kdelete,   \* the cancel in progress: "none" "sent" "done" "missed"
    klisting,  \* the fill listing in progress: [on, read] and the last result
    kanswer,   \* the adapter's last answer to the execution service
    kseen,     \* local.VenueLastObservedAt
    kcalls

kalshiVenueVars == <<kticket, kx, kshown, kpost, kpending, krefused, kdelete, klisting, kanswer, kseen, kcalls>>

------------------------------------------------------------------------------
(* Direction, price and size of the request.                                *)

\* The single YES book: buying NO is asking, at the complementary price.
CanonicalKalshiOrderIdentity(side, outcome, price) ==
    [book  |-> IF (side = "BUY") = (outcome = "YES") THEN "bid" ELSE "ask",
     price |-> IF outcome = "NO" THEN Par - price ELSE price]

\* As a mutant: a NO fill keeps the price of the YES book.
KalshiOutcomeFillPriceOfBook(outcome, yes) == yes

KalshiOutcomeFillPrice(outcome, yes) == IF outcome = "NO" THEN Par - yes ELSE yes

\* The depth cap applies to an IOC order that was validated against the book
\* (executable = 0: no evidence); it may not exceed the strategy's size.
DepthCapped(t) == t.tif = "IOC" /\ t.executable > 0

ValidPlacementIntent(t) == DepthCapped(t) => t.executable <= t.size

KalshiPlacementIntent(t) == IF DepthCapped(t) THEN t.executable ELSE t.size

\* The request PrepareOrder writes; sells are reduce-only.
PrepareOrder(t) ==
    LET identity == CanonicalKalshiOrderIdentity(t.side, t.outcome, t.price)
    IN  [book |-> identity.book, price |-> identity.price, tif |-> t.tif,
         count |-> KalshiPlacementIntent(t), reduceOnly |-> t.side = "SELL"]

Request == PrepareOrder(kticket)

------------------------------------------------------------------------------
(* The exchange (external).                                                 *)

Absent == [status |-> "absent", own |-> TRUE, initial |-> 0, filled |-> 0,
           remaining |-> 0, price |-> 0, at |-> 0, fills |-> << >>]

TerminalTicket(o) == o.status \in {"canceled", "executed"}

Accepted == kx.status # "absent"

\* The YES-book prices at which the order can trade: its own or better.
Tradable == {p \in 1..(Par - 1) :
                IF Request.book = "bid" THEN p <= Request.price ELSE p >= Request.price}

Opened(initial) ==
    [Absent EXCEPT !.status = IF initial = 0 THEN "canceled" ELSE "resting",
                   !.initial = initial, !.remaining = initial,
                   !.price = Request.price, !.at = 1]

Matched(o, p) ==
    [o EXCEPT !.filled = @ + 1, !.remaining = @ - 1, !.fills = Append(@, p), !.at = @ + 1,
              !.status = IF o.remaining = 1 THEN "executed" ELSE @]

MatchedWhole(o, p) ==
    [o EXCEPT !.status = "executed", !.filled = o.initial, !.remaining = 0, !.at = @ + 1,
              !.fills = [i \in 1..o.initial |-> p]]

Closed(o) == [o EXCEPT !.status = "canceled", !.remaining = 0, !.at = @ + 1]

InitialCounts == IF Request.reduceOnly THEN 0..Request.count ELSE {Request.count}

\* The request is decided once, before or after its answer has given up.
ExchangeAccepts ==
    /\ kpending /\ kpending' = FALSE
    /\ \E n \in InitialCounts, p \in Tradable :
         kx' = IF Request.tif = "FOK" /\ n > 0 THEN MatchedWhole(Opened(n), p) ELSE Opened(n)
    /\ UNCHANGED <<kticket, kshown, kpost, krefused, kdelete, klisting, kanswer, kseen, kcalls>>

ExchangeRefuses ==
    /\ kpending /\ kpending' = FALSE
    /\ krefused' = TRUE
    /\ UNCHANGED <<kticket, kx, kshown, kpost, kdelete, klisting, kanswer, kseen, kcalls>>

ExchangeMatches ==
    /\ kx.status = "resting"
    /\ \E p \in Tradable : kx' = Matched(kx, p)
    /\ UNCHANGED <<kticket, kshown, kpost, kpending, krefused, kdelete, klisting, kanswer, kseen, kcalls>>

\* The remainder of an IOC order; for a resting one, a pause or its expiry.
ExchangeCloses ==
    /\ kx.status = "resting"
    /\ kx' = Closed(kx)
    /\ UNCHANGED <<kticket, kshown, kpost, kpending, krefused, kdelete, klisting, kanswer, kseen, kcalls>>

ReadsCatchUp ==
    /\ kshown # kx
    /\ kshown' = kx
    /\ UNCHANGED <<kticket, kx, kpost, kpending, krefused, kdelete, klisting, kanswer, kseen, kcalls>>

------------------------------------------------------------------------------
(* Errors.                                                                  *)

FOKEvidence == {"409 fok", "400 fok"}

\* As a mutant: a conflict counts as a refusal.
MapKalshiHTTPErrorConflictRejects(mutating, status) ==
    IF mutating /\ status \in {"408", "500"} THEN "ambiguous"
    ELSE IF ~mutating /\ status \in {"408", "429", "500"} THEN "unavailable"
    ELSE "rejected"

MapKalshiHTTPError(mutating, status) ==
    IF mutating /\ status \in {"408", "409", "500"} THEN "ambiguous"
    ELSE IF ~mutating /\ status \in {"408", "429", "500"} THEN "unavailable"
    ELSE "rejected"

\* No usable answer: the connection failed, or the body was not readable JSON.
KalshiTransportFailure(mutating) == IF mutating THEN "ambiguous" ELSE "unavailable"

\* What doAuthenticated makes of an exchange that did not answer with 2xx.
DoAuthenticated(mutating, answer) ==
    IF answer = "lost" THEN KalshiTransportFailure(mutating)
    ELSE MapKalshiHTTPError(mutating, answer)

\* Evidence about fill-or-kill is no proof for an order of another kind.
ClassifyPreparedSubmitError(answer) ==
    IF answer \in FOKEvidence /\ Request.tif # "FOK" THEN "ambiguous"
    ELSE DoAuthenticated(TRUE, answer)

Answered(kind, state, filled, at) ==
    [kind |-> kind, state |-> state, filled |-> filled, at |-> at]

FailedWith(kind) == Answered(kind, "none", 0, kseen)

------------------------------------------------------------------------------
(* Placement.                                                               *)

\* PreparePlace refuses an intent it cannot map; nothing is sent.
PreparePlace ==
    /\ kpost = "unsent"
    /\ kpost' = IF ValidPlacementIntent(kticket) THEN "sent" ELSE "invalid"
    /\ kpending' = ValidPlacementIntent(kticket)
    /\ UNCHANGED <<kticket, kx, kshown, krefused, kdelete, klisting, kanswer, kseen, kcalls>>

ValidateSubmittedOrderCounts(filled, remaining) ==
    /\ filled \in 0..Request.count /\ remaining \in 0..Request.count
    /\ filled + remaining <= Request.count
    /\ Request.tif = "IOC" => remaining = 0
    /\ Request.tif = "FOK" =>
         /\ remaining = 0
         /\ Request.reduceOnly \/ filled = Request.count

SubmittedVenueOrder(filled, remaining) ==
    IF filled = kticket.size THEN "FILLED"
    ELSE IF kticket.tif = "IOC" \/ remaining = 0 THEN "CANCELLED"
    ELSE IF filled > 0 THEN "PARTIALLY_FILLED"
    ELSE "ACKNOWLEDGED"

\* A 2xx answer: the counts of the acknowledgement; "garbled" stands for an
\* acknowledgement with a missing field or of another client order id.
SubmitPrepared(garbled) ==
    IF garbled \/ ~ValidateSubmittedOrderCounts(kx.filled, kx.remaining)
    THEN FailedWith("ambiguous")
    ELSE Answered("order", SubmittedVenueOrder(kx.filled, kx.remaining), kx.filled, kx.at)

\* Which failures the exchange or a gateway can give: one that refused says
\* so; one that accepted, or has not decided, can only fail to answer or
\* report a conflict (a proxy repeated the request), never a plain refusal.
Failures ==
    IF krefused
    THEN {"400", "429", "500", "408", "lost"} \cup
         (IF Request.tif = "FOK" THEN FOKEvidence ELSE {})
    ELSE {"500", "408", "lost"} \cup
         (IF ~Accepted THEN {} ELSE {"409"} \cup
           (IF Request.tif = "FOK" THEN {} ELSE {"409 fok"}))

PlacePrepared ==
    /\ kpost = "sent"
    /\ \/ \E failure \in Failures :
            kanswer' = FailedWith(ClassifyPreparedSubmitError(failure))
       \/ /\ Accepted /\ (Request.tif # "GTC" => TerminalTicket(kx))
          /\ \E garbled \in BOOLEAN : kanswer' = SubmitPrepared(garbled)
    /\ kpost' = IF kanswer'.kind = "rejected" THEN "rejected" ELSE "answered"
    /\ kseen' = kanswer'.at
    /\ UNCHANGED <<kticket, kx, kshown, kpending, krefused, kdelete, klisting, kcalls>>

------------------------------------------------------------------------------
(* Reading the order back.                                                  *)

DecodeDetailedOrder(o) ==
    /\ o.status \in {"resting", "canceled", "executed"}
    /\ o.filled + o.remaining <= o.initial
    /\ o.status = "resting" => o.remaining > 0
    /\ o.status = "canceled" => o.remaining = 0 /\ (o.initial > 0 => o.filled # o.initial)
    /\ o.status = "executed" => o.remaining = 0 /\ o.filled = o.initial

ValidateRemoteOrderIdentity(o) ==
    /\ o.own /\ o.price = Request.price
    /\ IF Request.reduceOnly THEN o.initial <= Request.count ELSE o.initial = Request.count
    /\ Request.tif \in {"IOC", "FOK"} => TerminalTicket(o)

\* What a 2xx order detail can hold: the shown order, the shown order torn
\* between two updates (status of one, counts of the other), another order.
Details ==
    {kshown, [kshown EXCEPT !.status = kx.status], [kx EXCEPT !.status = kshown.status],
     [kshown EXCEPT !.own = FALSE]}

\* GetOrder: an order that is not shown yet is a 404, which is not a refusal
\* but an order that may become visible; nor is an unusable body a refusal.
GetOrder(detail) ==
    IF kshown.status = "absent" \/ ~DecodeDetailedOrder(detail) THEN "unavailable" ELSE "order"

ObservedVenueOrder(o) ==
    CASE o.status = "resting"  -> "LIVE"
      [] o.status = "executed" -> "FILLED"
      [] o.status = "canceled" -> "CANCELLED"

\* A finished order that executed less than the local size is cancelled; the
\* observation time never moves back.
MonotonicVenueObservation(o) ==
    Answered("order",
             IF TerminalTicket(o) /\ o.remaining = 0 /\ o.filled < kticket.size THEN "CANCELLED"
             ELSE ObservedVenueOrder(o),
             o.filled, IF o.at < kseen THEN kseen ELSE o.at)

\* By client order id (stored before the POST) the order is searched page by
\* page among the market's orders since shortly before it was created; a miss,
\* like a 404, is an order that may become visible.
FindOrderByClientOrderID == IF kshown.status = "absent" THEN "unavailable" ELSE "order"

\* remoteOrder: by client order id through the list, or by order id; an order
\* of another identity is an error that leaves everything as it was.
RemoteOrder(detail) ==
    IF FindOrderByClientOrderID # "order" \/ GetOrder(detail) # "order" THEN "unavailable"
    ELSE IF ~ValidateRemoteOrderIdentity(detail) THEN "error"
    ELSE "order"

Observe(answer) == kanswer' = answer /\ kseen' = answer.at

ReadFails ==
    \E failure \in {"400", "408", "429", "500", "lost"} :
        Observe(FailedWith(DoAuthenticated(FALSE, failure)))

Calling == kpost = "answered" /\ kdelete = "none" /\ kcalls < MaxCalls

Get ==
    /\ Calling /\ kcalls' = kcalls + 1
    /\ \/ ReadFails
       \/ \E detail \in Details :
            Observe(IF RemoteOrder(detail) = "order" THEN MonotonicVenueObservation(detail)
                    ELSE FailedWith(RemoteOrder(detail)))
    /\ UNCHANGED <<kticket, kx, kshown, kpost, kpending, krefused, kdelete, klisting>>

------------------------------------------------------------------------------
(* Cancellation: read, delete, read again.                                  *)

Cancel ==
    /\ Calling /\ kcalls' = kcalls + 1
    /\ \/ ReadFails /\ UNCHANGED kdelete
       \/ \E detail \in Details :
            IF RemoteOrder(detail) # "order"
            THEN Observe(FailedWith(RemoteOrder(detail))) /\ UNCHANGED kdelete
            ELSE IF MonotonicVenueObservation(detail).state \in {"CANCELLED", "FILLED"}
            THEN Observe(MonotonicVenueObservation(detail)) /\ UNCHANGED kdelete
            ELSE kdelete' = "sent" /\ UNCHANGED <<kanswer, kseen>>
    /\ UNCHANGED <<kticket, kx, kshown, kpost, kpending, krefused, klisting>>

\* External: a resting order is closed, a finished one is not found.
ExchangeCancels ==
    /\ kdelete = "sent"
    /\ IF kx.status = "resting" THEN kx' = Closed(kx) /\ kdelete' = "done"
                                ELSE UNCHANGED kx /\ kdelete' = "missed"
    /\ UNCHANGED <<kticket, kshown, kpost, kpending, krefused, klisting, kanswer, kseen, kcalls>>

\* The canonical order is read again; until it is terminal the outcome of the
\* cancel is unknown.
CancelledAgain(detail) ==
    IF GetOrder(detail) # "order" \/ ~TerminalTicket(detail) \/ ~ValidateRemoteOrderIdentity(detail)
    THEN FailedWith("ambiguous")
    ELSE MonotonicVenueObservation(detail)

\* CancelOrder's end: an error answer, an acknowledgement that is incomplete or
\* names another order, or a valid one followed by the second read.
CancelOrder ==
    /\ kdelete # "none"
    /\ kdelete' = "none"
    /\ \/ \E failure \in {"408", "500", "lost"} \cup (IF kdelete = "missed" THEN {"400"} ELSE {}) :
            Observe(FailedWith(DoAuthenticated(TRUE, failure)))
       \/ kdelete = "done" /\ Observe(FailedWith("ambiguous"))
       \/ /\ kdelete = "done"
          /\ \E detail \in Details : Observe(CancelledAgain(detail))
    /\ UNCHANGED <<kticket, kx, kshown, kpost, kpending, krefused, klisting, kcalls>>

------------------------------------------------------------------------------
(* The fills of the order, one page at a time.                              *)

StartListing ==
    /\ Calling /\ kcalls' = kcalls + 1 /\ ~klisting.on
    /\ klisting' = [on |-> TRUE, read |-> << >>, result |-> klisting.result]
    /\ UNCHANGED <<kticket, kx, kshown, kpost, kpending, krefused, kdelete, kanswer, kseen>>

OutcomeFills(fills) == [i \in 1..Len(fills) |-> KalshiOutcomeFillPrice(kticket.outcome, fills[i])]

\* One page (of one fill here) follows the pages read; the page after which no
\* cursor is left completes the list, which is then converted to the outcome.
ListFills ==
    /\ klisting.on
    /\ LET next == Len(klisting.read) + 1
       IN  IF next > Len(kshown.fills)
           THEN klisting' = [on |-> FALSE, read |-> << >>, result |-> OutcomeFills(klisting.read)]
           ELSE klisting' = [klisting EXCEPT !.read = Append(@, kshown.fills[next])]
    /\ UNCHANGED <<kticket, kx, kshown, kpost, kpending, krefused, kdelete, kanswer, kseen, kcalls>>

\* A failed page, a missing cursor or one that does not advance: no result.
ListFillsFails ==
    /\ klisting.on
    /\ klisting' = [klisting EXCEPT !.on = FALSE, !.read = << >>]
    /\ UNCHANGED <<kticket, kx, kshown, kpost, kpending, krefused, kdelete, kanswer, kseen, kcalls>>

------------------------------------------------------------------------------
KalshiVenueInit ==
    /\ kticket \in Tickets
    /\ kx = Absent /\ kshown = Absent
    /\ kpost = "unsent" /\ kpending = FALSE /\ krefused = FALSE /\ kdelete = "none"
    /\ klisting = [on |-> FALSE, read |-> << >>, result |-> << >>]
    /\ kanswer = [kind |-> "none", state |-> "none", filled |-> 0, at |-> 0]
    /\ kseen = 0 /\ kcalls = 0

KalshiVenueNext ==
    \/ PreparePlace \/ PlacePrepared \/ Get \/ Cancel \/ CancelOrder
    \/ StartListing \/ ListFills \/ ListFillsFails
    \/ ExchangeAccepts \/ ExchangeRefuses \/ ExchangeMatches \/ ExchangeCloses
    \/ ExchangeCancels \/ ReadsCatchUp

KalshiVenueSpec == KalshiVenueInit /\ [][KalshiVenueNext]_kalshiVenueVars

------------------------------------------------------------------------------
\* What the adapter says is true and stays true: a finished order (FILLED or
\* CANCELLED, on which the caller releases the hold) is finished at the
\* exchange with exactly that filled count, and FILLED means the local size; an
\* order of which the placement was rejected is never accepted, whatever was
\* lost, late, torn or repeated.
KalshiAnswersAreTrue ==
    /\ kanswer.kind = "order" /\ kanswer.state \in {"FILLED", "CANCELLED"} =>
         /\ TerminalTicket(kx) /\ kx.filled = kanswer.filled
         /\ kanswer.state = "FILLED" <=> kx.filled = kticket.size
    /\ kpost = "rejected" => ~Accepted /\ ~kpending

\* The fills handed to the fill ledger are priced in the outcome traded and are
\* never worse than the intent's limit, through the complement of the YES book
\* and back, and there are never more of them than the exchange executed.
KalshiFillsHonourTheLimit ==
    /\ Len(klisting.result) <= kx.filled
    /\ \A i \in 1..Len(klisting.result) :
         IF kticket.side = "BUY" THEN klisting.result[i] <= kticket.price
                                 ELSE klisting.result[i] >= kticket.price

\* What the Kalshi adapter reports can be booked as it stands: statuses and
\* rejections are true, and the fills are within the intent (kalshiOrderState,
\* MapKalshiHTTPError, ListOrderFills).
KalshiReportsAreTrue == KalshiAnswersAreTrue /\ KalshiFillsHonourTheLimit
==============================================================================
