----------------------------- MODULE OrderFees ------------------------------
(***************************************************************************)
(* The fee of a BUY from its reservation to its booking.  Validation reads *)
(* the venue's fee curve through a cache and holds the worst fee any fill  *)
(* below the worst price can cost; the venue charges what its curve says   *)
(* when the trade happens; booking reads the curve again, checks that the  *)
(* fee of the receipt is the curve's, and the fill processor checks it a   *)
(* second time at the price the fill is stored with.                       *)
(*                                                                         *)
(* Money is in mills, rates and stored prices in thousandths (the code     *)
(* keeps eighteen digits), quoted prices in tenths, the tick.  The fee     *)
(* exponent is one.                                                        *)
(***************************************************************************)
EXTENDS Integers

CONSTANTS
    Rates,      \* taker fee rates the venue may publish
    CapRate,    \* the configured fee cap, a rate
    FeeTTL,     \* feeScheduleTTL
    Sizes,      \* shares of an order
    Grosses     \* cash a receipt may show

ASSUME FeeConstants ==
    /\ Rates \subseteq Nat /\ CapRate \in Nat /\ CapRate % 10 = 0
    /\ FeeTTL \in Nat /\ Sizes \subseteq Nat \ {0} /\ Grosses \subseteq Nat \ {0}

VARIABLES feeVenue, venueRate, feeCache, feeOrder

feeVars == <<feeVenue, venueRate, feeCache, feeOrder>>

Uncached == [known |-> FALSE, rate |-> 0, age |-> 0]

NoFeeOrder == [at |-> "none"]

-----------------------------------------------------------------------------
(* Arithmetic.                                                             *)

FeeCeil(a, b) == (a + b - 1) \div b

\* The curve at price num/den, cut to a mill.
CalculateV2PlatformFee(shares, num, den, rate) ==
    (shares * rate * num * (den - num)) \div (den * den)

\* Kalshi rounds the balance change of a fill to a cent.
KalshiFee(shares, tenths, rate) ==
    10 * FeeCeil(shares * rate * tenths * (10 - tenths), 1000)

KalshiRoundingAllowance == 10

MaxBuyFeePerShareUnrounded(worst, rate, allowance) ==
    LET n == IF worst > 5 THEN 5 ELSE worst
    IN  FeeCeil(rate * n * (10 - n), 100)

\* The curve peaks at one half, so the worst point is not the worst price.
MaxBuyFeePerShare(worst, rate, allowance) ==
    LET n == IF worst > 5 THEN 5 ELSE worst
    IN  FeeCeil(rate * n * (10 - n), 100) + allowance

ValidateSettlementEventGross(shares, price, gross) ==
    LET off == shares * price - gross
    IN  off <= 50 * shares + 1 /\ -off <= 50 * shares + 1

-----------------------------------------------------------------------------
(* The cached schedule.  A read that fails keeps an expired schedule.      *)

FeeScheduleRead(answered) ==
    LET fresh == feeCache.known /\ feeCache.age <= FeeTTL
    IN  CASE fresh                    -> [known |-> TRUE, rate |-> feeCache.rate, cache |-> feeCache]
          [] ~fresh /\ answered       -> [known |-> TRUE, rate |-> venueRate,
                                          cache |-> [known |-> TRUE, rate |-> venueRate, age |-> 0]]
          [] OTHER                    -> [known |-> feeCache.known, rate |-> feeCache.rate,
                                          cache |-> feeCache]

\* The reserve is the fee curve's maximum, or the configured cap.
ResolveBuyFeeReserve(worst, read) ==
    IF read.known /\ ~feeVenue.builder
    THEN [source |-> "schedule",
          unit |-> worst * 100
                   + MaxBuyFeePerShare(worst, read.rate,
                        IF feeVenue.kind = "kalshi" THEN KalshiRoundingAllowance ELSE 0),
          rate |-> read.rate]
    ELSE [source |-> "cap", unit |-> worst * 100 + worst * (CapRate \div 10), rate |-> CapRate]

-----------------------------------------------------------------------------
FeeInit ==
    /\ feeVenue \in {[kind |-> "polymarket", builder |-> FALSE],
                     [kind |-> "polymarket", builder |-> TRUE],
                     [kind |-> "kalshi", builder |-> FALSE]}
    /\ venueRate \in Rates
    /\ feeCache = Uncached /\ feeOrder = NoFeeOrder

FeeClock ==
    /\ feeCache.known /\ feeCache.age <= FeeTTL
    /\ feeCache' = [feeCache EXCEPT !.age = @ + 1]
    /\ UNCHANGED <<feeVenue, venueRate, feeOrder>>

VenueSetsRate(r) ==
    /\ venueRate # r
    /\ venueRate' = r
    /\ UNCHANGED <<feeVenue, feeCache, feeOrder>>

ReserveFee(worst, shares, answered) ==
    /\ feeOrder.at = "none"
    /\ LET read == IF feeVenue.builder THEN [known |-> FALSE, rate |-> 0, cache |-> feeCache]
                   ELSE FeeScheduleRead(answered)
       IN  /\ feeCache' = read.cache
           /\ feeOrder' = [at |-> "held", worst |-> worst, shares |-> shares,
                           reserve |-> ResolveBuyFeeReserve(worst, read)]
    /\ UNCHANGED <<feeVenue, venueRate>>

\* The venue fills the order at or below its worst price.  Polymarket quotes
\* the price bucket of a fill whose cash is an exact quotient.
VenueFills(tenths, gross) ==
    /\ feeOrder.at = "held"
    /\ gross <= feeOrder.worst * 100 * feeOrder.shares
    /\ ValidateSettlementEventGross(feeOrder.shares, tenths * 100, gross)
    /\ feeVenue.kind = "kalshi" => gross = tenths * 100 * feeOrder.shares
    /\ feeOrder' = [at |-> "filled", shares |-> feeOrder.shares, reserve |-> feeOrder.reserve,
                    tenths |-> tenths, gross |-> gross, charged |-> venueRate,
                    fee |-> IF feeVenue.kind = "kalshi"
                            THEN KalshiFee(feeOrder.shares, tenths, venueRate)
                            ELSE CalculateV2PlatformFee(feeOrder.shares, gross,
                                                        1000 * feeOrder.shares, venueRate)]
    /\ UNCHANGED <<feeVenue, venueRate, feeCache>>

ApplyFillFeeEvidenceUnrounded(o, rate) ==
    CASE feeVenue.builder -> 0
      [] o.fee = CalculateV2PlatformFee(o.shares, o.tenths, 10, rate) -> o.tenths * 100
      [] o.fee # CalculateV2PlatformFee(o.shares, o.gross, 1000 * o.shares, rate) -> 0
      [] OTHER -> o.gross \div o.shares

\* The price a taker fill is stored with; 0 when its evidence is refused:
\* the builder's share is unknown, the fee is not the curve's at the display
\* price nor at the exact one, or the stored price would not reproduce it.
ApplyFillFeeEvidence(o, rate) ==
    LET stored == o.gross \div o.shares
    IN  CASE feeVenue.builder -> 0
          [] o.fee = CalculateV2PlatformFee(o.shares, o.tenths, 10, rate) -> o.tenths * 100
          [] o.fee # CalculateV2PlatformFee(o.shares, o.gross, 1000 * o.shares, rate) -> 0
          [] o.fee # CalculateV2PlatformFee(o.shares, stored, 1000, rate) -> 0
          [] OTHER -> stored

\* calculateMoney refuses what the stored price does not explain.
CalculateMoneyAccepts(o, price, rate) ==
    IF feeVenue.kind = "kalshi" THEN o.gross = o.shares * price
    ELSE /\ ValidateSettlementEventGross(o.shares, price, o.gross)
         /\ o.fee = CalculateV2PlatformFee(o.shares, price, 1000, rate)

BookFee(answered) ==
    /\ feeOrder.at = "filled"
    /\ LET read  == IF feeVenue.kind = "kalshi" THEN [known |-> TRUE, rate |-> 0, cache |-> feeCache]
                    ELSE FeeScheduleRead(answered)
           price == CASE feeVenue.kind = "kalshi" -> feeOrder.tenths * 100
                      [] ~read.known -> 0
                      [] OTHER -> ApplyFillFeeEvidence(feeOrder, read.rate)
       IN  /\ feeCache' = read.cache
           /\ feeOrder' = [feeOrder EXCEPT !.at =
                 CASE price = 0 -> "filled"
                   [] price > 0 /\ CalculateMoneyAccepts(feeOrder, price, read.rate) -> "booked"
                   [] OTHER -> "refused"]
    /\ UNCHANGED <<feeVenue, venueRate>>

FeeNext ==
    \/ FeeClock
    \/ \E r \in Rates : VenueSetsRate(r)
    \/ \E w \in 1..9, s \in Sizes, a \in BOOLEAN : ReserveFee(w, s, a)
    \/ \E t \in 1..9, g \in Grosses : VenueFills(t, g)
    \/ \E a \in BOOLEAN : BookFee(a)

FeeSpec == FeeInit /\ [][FeeNext]_feeVars

-----------------------------------------------------------------------------
(* What applyFillFeeEvidence accepts, calculateMoney books: the price it   *)
(* stores, cut to its digits, reproduces the fee and the cash of the       *)
(* receipt, so no fill with good evidence is refused later, which would    *)
(* leave its reservation frozen for ever.                                  *)
AcceptedFeesAreBookable == feeOrder.at # "refused"

(* The reservation of a BUY covers every fill: at any price up to the      *)
(* worst price, cash and fee together stay within what buyReserveUnitPrice *)
(* held, unless the venue raised its rate above the one the reservation    *)
(* was computed with.                                                      *)
ReserveCoversFill ==
    feeOrder.at \in {"filled", "booked"} /\ feeOrder.charged <= feeOrder.reserve.rate =>
        \/ feeOrder.gross + feeOrder.fee <= feeOrder.shares * feeOrder.reserve.unit
        \/ feeVenue.kind = "kalshi" /\ feeOrder.reserve.source = "cap"

(* Fee evidence fits what was reserved and what is booked: every accepted  *)
(* fee can be booked and stays within the hold (buyReserveUnitPrice,       *)
(* applyFillFeeEvidence, calculateMoney).                                  *)
FeesFitTheReserve == AcceptedFeesAreBookable /\ ReserveCoversFill
=============================================================================
