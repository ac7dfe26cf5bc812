---------------------------- MODULE AutoRedeem ----------------------------
(***************************************************************************)
(* Redemption of settled positions: the sweeps of                          *)
(* internal/service/autoredeem over the rows of polymarket_redemptions, a  *)
(* relayer that may lose, delay or execute what it was sent, a feed of     *)
(* redeem activity that lags, and the ledger the payout is booked in.      *)
(*                                                                         *)
(* A job is one submission attempt of a condition; its number stands for   *)
(* the relayer reference and for the transaction hash.  Every write of the *)
(* store is a compare-and-set on the status the sweep listed.              *)
(***************************************************************************)
EXTENDS Integers, Sequences, FiniteSets

CONSTANTS
    Conditions, Wallets, Sweepers,
    WalletOf,           \* Conditions -> Wallets
    Due,                \* Conditions -> shares times settlement price
    MaxSubmitAttempts,  \* failed submit calls before a person decides
    DeadlineBinds,      \* the ambiguity timeout outlasts a signed batch (600 s)
    PromptFeed,         \* the activity feed lags less than the ambiguity timeout
    Disturbances,       \* conditions whose position something else may change
    MaxAttempts,        \* bound: submission attempts of a condition
    MaxFaults           \* bound: crashes, failed store calls, failed reads

ASSUME RedeemConstants ==
    /\ WalletOf \in [Conditions -> Wallets] /\ Due \in [Conditions -> Nat]
    /\ MaxSubmitAttempts \in Nat \ {0} /\ MaxAttempts \in Nat /\ MaxFaults \in Nat
    /\ DeadlineBinds \in BOOLEAN /\ PromptFeed \in BOOLEAN
    /\ Disturbances \subseteq Conditions

VARIABLES
    row,       \* Conditions -> the redemption row
    failures,  \* Conditions -> recorded submit failures (append-only table)
    jobs,      \* Conditions -> sequence of submission attempts
    approved,  \* Wallets -> the adapter is approved on the chain
    sound,     \* Conditions -> the ledger's safety preconditions hold
    booked,    \* Conditions -> payouts credited to the account, in order
    sweep,     \* Sweepers -> the redemption in hand
    faults

vars == <<row, failures, jobs, approved, sound, booked, sweep, faults>>
store == <<row, failures, sound, booked>>
chain == <<jobs, approved>>

InFlight == {"APPROVAL_SUBMITTING", "APPROVAL_SUBMITTED", "REDEEM_SUBMITTING", "REDEEM_SUBMITTED"}
Closed == {"APPLIED", "MANUAL_REVIEW"}
Active == InFlight \cup {"READY", "CONFIRMED"}

\* Why a person is asked: the evidence, a failed store call, too many failed
\* submit calls, or a wait without an end.
Reasons == {"none", "evidence", "store", "exhausted", "timeout"}

\* waited: the ambiguity timeout has passed since submitting_at (submitted_at is
\* the same sweep's time); an absent timestamp counts as passed.
Row == [status: Active \cup Closed \cup {"NONE"}, waited: BOOLEAN, hash: Nat, payout: Nat,
        attempts: Nat, why: Reasons]

NoRow == [status |-> "NONE", waited |-> TRUE, hash |-> 0, payout |-> 0, attempts |-> 0, why |-> "none"]
Idle == [at |-> "idle"]

\* A job: what was asked, how far it got, the attempt during which it was mined
\* (what the window of the activity query tells apart), what it paid.
NewJob(kind) == [kind |-> kind, state |-> "unsent", era |-> 0, paid |-> 0, listed |-> FALSE]
Executed == {"mined", "final"}

Init ==
    /\ row = [c \in Conditions |-> NoRow]
    /\ failures = [c \in Conditions |-> 0]
    /\ jobs = [c \in Conditions |-> << >>]
    /\ approved \in [Wallets -> BOOLEAN]
    /\ sound = [c \in Conditions |-> TRUE]
    /\ booked = [c \in Conditions |-> << >>]
    /\ sweep = [w \in Sweepers |-> Idle]
    /\ faults = 0

Fault == faults < MaxFaults /\ faults' = faults + 1
Goto(w, task) == sweep' = [sweep EXCEPT ![w] = task]
At(w, label) == sweep[w].at = label
On(w) == sweep[w].on
Seen(w) == sweep[w].seen

(***************************************************************************)
(* The sweep: discover settled positions, list the due rows, take them one *)
(* by one.                                                                 *)
(***************************************************************************)
Discover(c) ==
    /\ row[c].status = "NONE"
    /\ row' = [row EXCEPT ![c].status = IF sound[c] THEN "READY" ELSE "MANUAL_REVIEW",
                          ![c].why = IF sound[c] THEN "none" ELSE "evidence"]
    /\ UNCHANGED <<failures, chain, sound, booked, sweep, faults>>

ListDue(w, c) ==
    /\ At(w, "idle")
    /\ row[c].status \in Active
    /\ Goto(w, [at |-> "process", on |-> c, seen |-> row[c]])
    /\ UNCHANGED <<store, chain, faults>>

\* The write a handler decided on, made in a step of its own.
Writes(w, to, hash, payout, why) ==
    Goto(w, [at |-> "write", on |-> On(w), seen |-> Seen(w),
             to |-> to, hash |-> hash, payout |-> payout, why |-> why])
Review(w, why) == Writes(w, "MANUAL_REVIEW", 0, 0, why)
Reset(w) == Writes(w, "READY", 0, 0, "none")
Retry(w) == Goto(w, Idle)

\* The columns a write sets; a review keeps the evidence of the row.
Stored(r, p) ==
    IF p.to = "MANUAL_REVIEW"
    THEN [r EXCEPT !.status = p.to, !.why = p.why]
    ELSE [r EXCEPT !.status = p.to, !.hash = p.hash, !.payout = p.payout, !.why = p.why,
                   !.waited = (p.to = "READY") \/ @]

\* Every status write of the store takes effect only on the listed status, and a
\* recorded transaction hash only gives way to itself.
Write(w) ==
    /\ At(w, "write")
    /\ LET c == On(w)
           p == sweep[w]
           swaps == /\ row[c].status = p.seen.status
                    /\ p.to = "CONFIRMED" => row[c].hash \in {0, p.hash}
       IN row' = IF swaps THEN [row EXCEPT ![c] = Stored(@, p)] ELSE row
    /\ Goto(w, Idle)
    /\ UNCHANGED <<failures, chain, sound, booked, faults>>

\* A failed read or write leaves the row to a later sweep; a crash loses the
\* redemption in hand.
Lost(w) ==
    /\ sweep[w] # Idle
    /\ Fault
    /\ Goto(w, Idle)
    /\ UNCHANGED <<store, chain>>

(***************************************************************************)
(* READY: read the approval, persist the intent, call the venue, record.   *)
(***************************************************************************)
ProcessReady(w) ==
    /\ At(w, "process") /\ Seen(w).status = "READY"
    /\ Goto(w, [at |-> "begin", on |-> On(w), seen |-> Seen(w),
                kind |-> IF approved[WalletOf[On(w)]] THEN "REDEEM" ELSE "APPROVAL"])
    /\ UNCHANGED <<store, chain, faults>>

\* Variant: only acknowledged submissions occupy the wallet.
WalletBusyAcknowledged(c) ==
    \E d \in Conditions \ {c} :
        WalletOf[d] = WalletOf[c] /\ row[d].status \in {"APPROVAL_SUBMITTED", "REDEEM_SUBMITTED"}

WalletBusy(c) ==
    \E d \in Conditions \ {c} : WalletOf[d] = WalletOf[c] /\ row[d].status \in InFlight

Submitting(kind) == IF kind = "APPROVAL" THEN "APPROVAL_SUBMITTING" ELSE "REDEEM_SUBMITTING"
Submitted(kind) == IF kind = "APPROVAL" THEN "APPROVAL_SUBMITTED" ELSE "REDEEM_SUBMITTED"

\* Variant: the attempt is not counted.
IntendUncounted(c, kind) ==
    /\ row[c].attempts < MaxAttempts
    /\ row' = [row EXCEPT ![c].status = Submitting(kind), ![c].waited = FALSE, ![c].why = "none"]
    /\ jobs' = [jobs EXCEPT ![c] = Append(@, NewJob(kind))]

Intend(c, kind) ==
    /\ row[c].attempts < MaxAttempts
    /\ row' = [row EXCEPT ![c].status = Submitting(kind), ![c].waited = FALSE,
                          ![c].attempts = @ + 1, ![c].why = "none"]
    /\ jobs' = [jobs EXCEPT ![c] = Append(@, NewJob(kind))]

Beginnable(c) == row[c].status = "READY" /\ sound[c]

\* The wallet check, the preconditions and the status are one serializable
\* transaction under the account lock.
BeginBusy(w) ==
    /\ At(w, "begin") /\ WalletBusy(On(w))
    /\ Goto(w, Idle)
    /\ UNCHANGED <<store, chain, faults>>

Begin(w) ==
    LET c == On(w) IN
    /\ At(w, "begin") /\ ~WalletBusy(c) /\ Beginnable(c)
    /\ Intend(c, sweep[w].kind)
    /\ Goto(w, [at |-> "submit", on |-> c, seen |-> row'[c], kind |-> sweep[w].kind])
    /\ UNCHANGED <<failures, approved, sound, booked, faults>>

BeginRefused(w) ==
    /\ At(w, "begin") /\ ~WalletBusy(On(w)) /\ ~Beginnable(On(w))
    /\ Review(w, "evidence")
    /\ UNCHANGED <<store, chain, faults>>

\* Any other error of the transaction, a lost commit answer included, is taken
\* for a failed precondition.
BeginFails(w) ==
    LET c == On(w) IN
    /\ At(w, "begin") /\ Fault
    /\ Review(w, "store")
    /\ \/ UNCHANGED <<row, jobs>>
       \/ ~WalletBusy(c) /\ Beginnable(c) /\ Intend(c, sweep[w].kind)
    /\ UNCHANGED <<failures, approved, sound, booked>>

\* The venue takes the job of this attempt.
Accept(w) == jobs' = [jobs EXCEPT ![On(w)][Seen(w).attempts].state = "pending"]

SubmitAccepted(w) ==
    /\ At(w, "submit")
    /\ Accept(w)
    /\ \E hash \in {0, Seen(w).attempts} : Writes(w, Submitted(sweep[w].kind), hash, 0, "none")
    /\ UNCHANGED <<store, approved, faults>>

\* NOT_SUBMITTED and REJECTED prove that nothing was accepted.
SubmitRefused(w) ==
    /\ At(w, "submit")
    /\ Goto(w, [at |-> "refused", on |-> On(w), seen |-> Seen(w)])
    /\ UNCHANGED <<store, chain, faults>>

SubmitAmbiguous(w) ==
    /\ At(w, "submit")
    /\ Goto(w, [at |-> "ambiguous", on |-> On(w), seen |-> Seen(w)])
    /\ Accept(w) \/ UNCHANGED jobs
    /\ UNCHANGED <<store, approved, faults>>

\* submitFailed: the failure is recorded first, then the outcome decides.
SubmitFailed(w) ==
    LET c == On(w) IN
    /\ sweep[w].at \in {"refused", "ambiguous"}
    /\ failures' = [failures EXCEPT ![c] = @ + 1]
    /\ IF At(w, "ambiguous") THEN Retry(w)
       ELSE IF failures'[c] >= MaxSubmitAttempts THEN Review(w, "exhausted")
       ELSE Reset(w)
    /\ UNCHANGED <<row, chain, sound, booked, faults>>

(***************************************************************************)
(* Recovery of an intent whose outcome is unknown.                         *)
(***************************************************************************)
\* resubmitOrReview: a wait that produced no evidence ends here.
ResubmitOrReview(w) ==
    IF failures[On(w)] >= MaxSubmitAttempts THEN Review(w, "exhausted") ELSE Reset(w)

RecoverApproval(w) ==
    /\ At(w, "process") /\ Seen(w).status = "APPROVAL_SUBMITTING"
    /\ IF approved[WalletOf[On(w)]] THEN Reset(w)
       ELSE IF Seen(w).waited THEN ResubmitOrReview(w)
       ELSE Retry(w)
    /\ UNCHANGED <<store, chain, faults>>

\* The redeem activity of the condition since the intent was persisted.
Activities(c, attempt) ==
    {k \in 1..Len(jobs[c]) : /\ jobs[c][k].kind = "REDEEM" /\ jobs[c][k].listed
                             /\ jobs[c][k].era >= attempt}

\* Variant: resubmitted as soon as no activity is found.
RecoverRedeemAtOnce(w) ==
    LET found == Activities(On(w), Seen(w).attempts) IN
    /\ At(w, "process") /\ Seen(w).status = "REDEEM_SUBMITTING"
    /\ IF found # {}
       THEN \E k \in found : Goto(w, [at |-> "receipt", on |-> On(w), seen |-> Seen(w), hash |-> k])
       ELSE ResubmitOrReview(w)
    /\ UNCHANGED <<store, chain, faults>>

RecoverRedeem(w) ==
    LET found == Activities(On(w), Seen(w).attempts) IN
    /\ At(w, "process") /\ Seen(w).status = "REDEEM_SUBMITTING"
    /\ IF Cardinality(found) > 1 THEN Review(w, "evidence")
       ELSE IF found # {}
            THEN \E k \in found : Goto(w, [at |-> "receipt", on |-> On(w), seen |-> Seen(w), hash |-> k])
       ELSE IF Seen(w).waited THEN ResubmitOrReview(w)
       ELSE Retry(w)
    /\ UNCHANGED <<store, chain, faults>>

(***************************************************************************)
(* A submission the venue acknowledged.                                    *)
(***************************************************************************)
Job(w) == jobs[On(w)][Seen(w).attempts]

\* Variant: the wait has no end.
PendingForEver(w) == Retry(w)

PendingOrReview(w) == IF Seen(w).waited THEN Review(w, "timeout") ELSE Retry(w)

ProcessApproval(w) ==
    /\ At(w, "process") /\ Seen(w).status = "APPROVAL_SUBMITTED"
    /\ IF Job(w).state = "failed" THEN Review(w, "evidence")
       ELSE IF Job(w).state \in Executed
            THEN IF approved[WalletOf[On(w)]] THEN Reset(w) ELSE Review(w, "evidence")
       ELSE PendingOrReview(w)
    /\ UNCHANGED <<store, chain, faults>>

\* The relayer need not name the transaction; a known hash is kept, a new one is
\* recorded before its receipt is read.
ProcessRedeem(w) ==
    LET c == On(w)
        a == Seen(w).attempts
        known == Seen(w).hash
        records == row[c].status = "REDEEM_SUBMITTED" /\ row[c].hash \in {0, a} IN
    /\ At(w, "process") /\ Seen(w).status = "REDEEM_SUBMITTED"
    /\ \E hash \in IF known = 0 THEN {0, a} ELSE {known} :
         /\ IF Job(w).state = "failed" THEN Review(w, "evidence")
            ELSE IF hash = 0 THEN PendingOrReview(w)
            ELSE IF known = 0 /\ ~records THEN Retry(w)
            ELSE Goto(w, [at |-> "receipt", on |-> c, seen |-> Seen(w), hash |-> hash])
         /\ row' = IF Job(w).state # "failed" /\ hash # 0 /\ known = 0 /\ records
                   THEN [row EXCEPT ![c].hash = hash] ELSE row
    /\ UNCHANGED <<failures, sound, booked, chain, faults>>

\* Variant: a receipt without its confirmations is enough.
ConfirmReceiptEarly(w) ==
    LET k == sweep[w].hash
        job == jobs[On(w)][k] IN
    /\ At(w, "receipt")
    /\ IF job.state = "failed" THEN Review(w, "evidence")
       ELSE IF job.state \in Executed THEN Writes(w, "CONFIRMED", k, job.paid, "none")
       ELSE PendingOrReview(w)
    /\ UNCHANGED <<store, chain, faults>>

\* confirmReceipt: only the finalized event of the exact adapter confirms.
ConfirmReceipt(w) ==
    LET k == sweep[w].hash
        job == jobs[On(w)][k] IN
    /\ At(w, "receipt")
    /\ IF job.state = "failed" THEN Review(w, "evidence")
       ELSE IF job.state = "final" THEN Writes(w, "CONFIRMED", k, job.paid, "none")
       ELSE PendingOrReview(w)
    /\ UNCHANGED <<store, chain, faults>>

ReceiptUnread(w) ==
    /\ At(w, "receipt") /\ Fault
    /\ PendingOrReview(w)
    /\ UNCHANGED <<store, chain>>

(***************************************************************************)
(* CONFIRMED: book the payout, close the position and the row at once.     *)
(***************************************************************************)
Bookable(c) == sound[c] /\ row[c].payout = Due[c]

ApplyRedemption(w) ==
    LET c == On(w) IN
    /\ At(w, "process") /\ Seen(w).status = "CONFIRMED"
    /\ row[c].status = "CONFIRMED" /\ Bookable(c)
    /\ row' = [row EXCEPT ![c].status = "APPLIED"]
    /\ booked' = [booked EXCEPT ![c] = Append(@, row[c].payout)]
    /\ Goto(w, Idle)
    /\ UNCHANGED <<failures, sound, chain, faults>>

\* Variant: booking that kept failing past the timeout is handed over.
ApplyRefusedLate(w) ==
    LET c == On(w) IN
    /\ At(w, "process") /\ Seen(w).status = "CONFIRMED"
    /\ ~(row[c].status = "CONFIRMED" /\ Bookable(c)) \/ Seen(w).waited
    /\ IF row[c].status = "APPLIED" THEN Goto(w, Idle) ELSE Review(w, "evidence")
    /\ UNCHANGED <<store, chain, faults>>

ApplyRefused(w) ==
    LET c == On(w) IN
    /\ At(w, "process") /\ Seen(w).status = "CONFIRMED"
    /\ ~(row[c].status = "CONFIRMED" /\ Bookable(c))
    /\ IF row[c].status = "APPLIED" THEN Goto(w, Idle) ELSE Review(w, "evidence")
    /\ UNCHANGED <<store, chain, faults>>

(***************************************************************************)
(* The surroundings: relayer, chain, activity feed, time, other writers.   *)
(***************************************************************************)
\* A batch cannot execute after its signed deadline.
Executable(c, k) ==
    /\ jobs[c][k].state = "pending"
    /\ DeadlineBinds => k = row[c].attempts /\ ~row[c].waited

\* The first redemption of a condition takes the whole balance.  One mined
\* between two attempts may fall in the five seconds the next query looks back.
Mine(c, k) ==
    /\ Executable(c, k)
    /\ \E era \in {row[c].attempts} \cup {row[c].attempts + 1 : s \in {row[c].status} \cap {"READY"}} :
         LET first == ~\E j \in 1..Len(jobs[c]) : jobs[c][j].kind = "REDEEM" /\ jobs[c][j].state \in Executed
             pays == jobs[c][k].kind = "REDEEM" /\ first IN
         jobs' = [jobs EXCEPT ![c][k].state = "mined", ![c][k].era = era,
                              ![c][k].paid = IF pays THEN Due[c] ELSE 0]
    /\ approved' = IF jobs[c][k].kind = "APPROVAL" THEN [approved EXCEPT ![WalletOf[c]] = TRUE]
                   ELSE approved
    /\ UNCHANGED <<store, sweep, faults>>

\* Enough confirmations, a place in the feed, or a refusal by relayer or chain.
Finalize(c, k) ==
    /\ jobs[c][k].state = "mined"
    /\ jobs' = [jobs EXCEPT ![c][k].state = "final"]
    /\ UNCHANGED <<store, approved, sweep, faults>>

ListActivity(c, k) ==
    /\ jobs[c][k].state \in Executed /\ jobs[c][k].kind = "REDEEM" /\ ~jobs[c][k].listed
    /\ jobs' = [jobs EXCEPT ![c][k].listed = TRUE]
    /\ UNCHANGED <<store, approved, sweep, faults>>

FailJob(c, k) ==
    /\ jobs[c][k].state = "pending"
    /\ jobs' = [jobs EXCEPT ![c][k].state = "failed"]
    /\ UNCHANGED <<store, approved, sweep, faults>>

Unlisted(c) ==
    \E k \in 1..Len(jobs[c]) :
        jobs[c][k].kind = "REDEEM" /\ jobs[c][k].state \in Executed /\ ~jobs[c][k].listed

Elapse(c) ==
    /\ row[c].status \in InFlight /\ ~row[c].waited
    /\ PromptFeed => ~Unlisted(c)
    /\ row' = [row EXCEPT ![c].waited = TRUE]
    /\ UNCHANGED <<failures, sound, booked, chain, sweep, faults>>

\* A late fill or an amended baseline changes the position of the condition.
Disturb(c) ==
    /\ c \in Disturbances /\ sound[c] /\ row[c].status # "APPLIED"
    /\ sound' = [sound EXCEPT ![c] = FALSE]
    /\ UNCHANGED <<row, failures, booked, chain, sweep, faults>>

Progress(w) ==
    \/ ProcessReady(w) \/ BeginBusy(w) \/ Begin(w)
    \/ SubmitAccepted(w) \/ SubmitRefused(w) \/ SubmitAmbiguous(w) \/ SubmitFailed(w)
    \/ RecoverApproval(w) \/ RecoverRedeem(w) \/ ProcessApproval(w) \/ ProcessRedeem(w)
    \/ ConfirmReceipt(w) \/ ApplyRedemption(w) \/ Write(w)

Chain(c) ==
    \E k \in 1..Len(jobs[c]) : Mine(c, k) \/ Finalize(c, k) \/ ListActivity(c, k) \/ FailJob(c, k)

\* Nobody changes the position and the service's own calls succeed.
Undisturbed ==
    \/ \E w \in Sweepers : (\E c \in Conditions : ListDue(w, c)) \/ Progress(w)
    \/ \E c \in Conditions : Discover(c) \/ Chain(c) \/ Elapse(c)

Next ==
    \/ Undisturbed
    \/ \E w \in Sweepers : \/ BeginRefused(w) \/ ApplyRefused(w)
                           \/ BeginFails(w) \/ ReceiptUnread(w) \/ Lost(w)
    \/ \E c \in Conditions : Disturb(c)

Spec == Init /\ [][Next]_vars

\* A running service sweeps for ever and takes the due rows in the order they
\* became due; time passes.  Nothing is assumed of relayer, chain or feed but that
\* a feed assumed prompt is.
FairSpec ==
    /\ Init /\ [][Undisturbed]_vars
    /\ \A w \in Sweepers : WF_vars(Progress(w))
    /\ \A w \in Sweepers, c \in Conditions : SF_vars(ListDue(w, c))
    /\ \A c \in Conditions : WF_vars(Discover(c)) /\ WF_vars(Elapse(c))

-----------------------------------------------------------------------------
Tasks ==
    {Idle} \cup [at: {"process", "refused", "ambiguous"}, on: Conditions, seen: Row]
    \cup [at: {"begin", "submit"}, on: Conditions, seen: Row, kind: {"APPROVAL", "REDEEM"}]
    \cup [at: {"receipt"}, on: Conditions, seen: Row, hash: Nat]
    \cup [at: {"write"}, on: Conditions, seen: Row, to: Active \cup Closed, hash: Nat,
          payout: Nat, why: Reasons]

\* Rows, jobs and the redemption each sweep has in hand are well formed; a row has
\* one job per counted attempt.
TypeOK ==
    /\ row \in [Conditions -> Row]
    /\ failures \in [Conditions -> Nat]
    /\ jobs \in [Conditions -> Seq([kind: {"APPROVAL", "REDEEM"},
                                    state: {"unsent", "pending", "mined", "final", "failed"},
                                    era: Nat, paid: Nat, listed: BOOLEAN])]
    /\ \A c \in Conditions : row[c].attempts = Len(jobs[c])
    /\ approved \in [Wallets -> BOOLEAN]
    /\ sound \in [Conditions -> BOOLEAN]
    /\ booked \in [Conditions -> Seq(Nat)]
    /\ sweep \in [Sweepers -> Tasks]
    /\ faults \in 0..MaxFaults

\* A wallet's nonce advances only when a batch executes, so two redemptions of one
\* wallet are never between intent and confirmation at the same time, whichever
\* sweeps run and wherever they crash (BeginRedemptionSubmission).
OneInFlightPerWallet ==
    \A c, d \in Conditions :
        /\ c # d /\ WalletOf[c] = WalletOf[d]
        /\ row[c].status \in InFlight
        => row[d].status \notin InFlight

\* The ledger is credited once per condition, with exactly what the position is
\* worth, when a finalized transaction of this condition has paid just that
\* (confirmReceipt, ApplyRedemption).
BookedMatchesChain ==
    \A c \in Conditions :
        /\ row[c].status # "APPLIED" => booked[c] = << >>
        /\ row[c].status = "APPLIED" =>
              /\ booked[c] = <<Due[c]>>
              /\ \E k \in 1..Len(jobs[c]) :
                    jobs[c][k].kind = "REDEEM" /\ jobs[c][k].state = "final" /\ jobs[c][k].paid = Due[c]

\* With an ambiguity timeout that outlasts the signed batch and the lag of the
\* feed, no crash, lost answer or resubmission lets a second redemption of a
\* condition execute beside or after the first (recoverRedeemSubmitting,
\* resubmitOrReview).
NoSecondRedemption ==
    \A c \in Conditions :
        Cardinality({k \in 1..Len(jobs[c]) :
            jobs[c][k].kind = "REDEEM" /\ (jobs[c][k].state \in Executed \/ Executable(c, k))}) <= 1

\* A confirmed redemption is handed to a person only if its evidence contradicts
\* the ledger, never because booking it kept failing (applyConfirmed).
ConfirmedIsNeverAbandoned ==
    [][\A c \in Conditions :
          row[c].status = "CONFIRMED" /\ row'[c].status # "CONFIRMED"
          => row'[c].status = "APPLIED" \/ ~Bookable(c)]_vars

\* Every wait has an end: each redemption is booked or handed to a person,
\* whatever relayer, chain and feed do (pendingOrReview, resubmitOrReview).
EveryRedemptionEnds == \A c \in Conditions : row[c].status = "READY" ~> row[c].status \in Closed

\* A condition is redeemed once and booked as the chain paid it (Sweep,
\* ConfirmReceipt, Apply).
RedeemedOnce == TypeOK /\ BookedMatchesChain /\ NoSecondRedemption
=============================================================================
