-------------------------- MODULE AutoRedeemProofs --------------------------
(***************************************************************************)
(* Redemptions: for any number of conditions, wallets, sweeps, crashes and *)
(* failed calls one redemption of a wallet is in flight, a confirmed one   *)
(* is not given up, and what is booked is what the chain paid.             *)
(***************************************************************************)
EXTENDS AutoRedeem, FiniteSetTheorems, TLAPS

Kinds == {"APPROVAL", "REDEEM"}
States == {"unsent", "pending", "mined", "final", "failed"}
JobSet == [kind : Kinds, state : States, era : Nat, paid : Nat, listed : BOOLEAN]
Labels == {"idle", "process", "refused", "ambiguous", "begin", "submit", "receipt", "write"}
Targets == {"READY", "MANUAL_REVIEW", "CONFIRMED", "APPROVAL_SUBMITTED", "REDEEM_SUBMITTED"}
Redeeming == {"REDEEM_SUBMITTING", "REDEEM_SUBMITTED"}
Approving == {"APPROVAL_SUBMITTING", "APPROVAL_SUBMITTED"}

(* Facts about rows R, jobs J and preconditions S, now or after a step.    *)

IsJob(J, c, k, kind) == k \in 1..Len(J[c]) /\ J[c][k].kind = kind
Paid(J, c, k, n) == IsJob(J, c, k, "REDEEM") /\ J[c][k].state = "final" /\ J[c][k].paid = n

\* What a row, or the copy a sweep has listed, says of the jobs is true.
Grounded(J, c, s) ==
  /\ s.attempts <= Len(J[c])
  /\ s.status \in Approving => IsJob(J, c, s.attempts, "APPROVAL")
  /\ s.status \in Redeeming => IsJob(J, c, s.attempts, "REDEEM")
  /\ s.status = "REDEEM_SUBMITTED" /\ s.hash # 0 => IsJob(J, c, s.hash, "REDEEM")
  /\ s.status = "CONFIRMED" => Paid(J, c, s.hash, s.payout)

\* A pending write follows from the status that was listed.
WriteOK(J, t) ==
  /\ t.to \in Targets
  /\ t.to = "CONFIRMED" => Paid(J, t.on, t.hash, t.payout) /\ t.seen.status \in Redeeming
  /\ t.to = "REDEEM_SUBMITTED" => /\ t.seen.status = "REDEEM_SUBMITTING"
                                  /\ t.hash # 0 => IsJob(J, t.on, t.hash, "REDEEM")
  /\ t.to = "APPROVAL_SUBMITTED" => t.seen.status = "APPROVAL_SUBMITTING"

\* A listed confirmation is still there or the row is closed; it is written over
\* only when it cannot be booked.
ConfirmedOK(R, S, t) ==
  t.seen.status = "CONFIRMED" =>
    /\ R[t.on].status \in {"CONFIRMED"} \cup Closed
    /\ t.at \in {"process", "write"}
    /\ t.at = "write" => /\ t.to = "MANUAL_REVIEW"
                         /\ R[t.on].status # "CONFIRMED" \/ ~S[t.on] \/ R[t.on].payout # Due[t.on]

TaskOK(R, J, S, t) ==
  t.at # "idle" =>
    /\ Grounded(J, t.on, t.seen) /\ t.seen.status \in Active
    /\ t.at = "begin" => t.seen.status = "READY"
    /\ t.at = "submit" => t.seen.status = Submitting(t.kind)
    /\ t.at \in {"refused", "ambiguous"} => t.seen.status \in InFlight
    /\ t.at = "receipt" => IsJob(J, t.on, t.hash, "REDEEM") /\ t.seen.status \in Redeeming
    /\ t.at = "write" => WriteOK(J, t)
    /\ ConfirmedOK(R, S, t)

RowsGrounded == \A c \in Conditions : Grounded(jobs, c, row[c])
TasksOK == \A w \in Sweepers : TaskOK(row, jobs, sound, sweep[w])

\* The job of an attempt is sent by the sweep that began it, once.
SubmitsOwn ==
  \A w \in Sweepers : At(w, "submit") =>
    /\ jobs[On(w)][Seen(w).attempts].state = "unsent"
    /\ \A v \in Sweepers \ {w} :
         At(v, "submit") => On(v) # On(w) \/ Seen(v).attempts # Seen(w).attempts

RedeemInv ==
  TypeOK /\ RowsGrounded /\ TasksOK /\ SubmitsOwn /\ OneInFlightPerWallet /\ BookedMatchesChain

(* What no step undoes.                                                    *)

JobsKeep(J, K) ==
  \A c \in Conditions :
    /\ Len(J[c]) <= Len(K[c])
    /\ \A k \in 1..Len(J[c]) :
         /\ K[c][k].kind = J[c][k].kind
         /\ J[c][k].state = "final" => K[c][k].state = "final" /\ K[c][k].paid = J[c][k].paid

RowsKeep(R, Q, S, T) ==
  \A c \in Conditions :
    /\ R[c].status \in Closed => Q[c].status \in Closed
    /\ R[c].status = "CONFIRMED" =>
         Q[c].status \in Closed \/ (Q[c].status = "CONFIRMED" /\ Q[c].payout = R[c].payout)
    /\ T[c] => S[c]

-----------------------------------------------------------------------------
(* Types.                                                                  *)

LEMMA Constants ==
  /\ WalletOf \in [Conditions -> Wallets] /\ Due \in [Conditions -> Nat]
  /\ MaxSubmitAttempts \in Nat /\ MaxFaults \in Nat
  BY RedeemConstants

LEMMA Typed ==
  TypeOK <=> /\ row \in [Conditions -> Row] /\ failures \in [Conditions -> Nat]
             /\ jobs \in [Conditions -> Seq(JobSet)]
             /\ \A c \in Conditions : row[c].attempts = Len(jobs[c])
             /\ approved \in [Wallets -> BOOLEAN] /\ sound \in [Conditions -> BOOLEAN]
             /\ booked \in [Conditions -> Seq(Nat)] /\ sweep \in [Sweepers -> Tasks]
             /\ faults \in 0..MaxFaults
  BY Zenon DEF TypeOK, JobSet, Kinds, States

LEMMA TaskFields ==
  ASSUME NEW t \in Tasks
  PROVE  /\ t.at \in Labels /\ (t.at = "idle" <=> t = Idle)
         /\ t.at # "idle" => t.on \in Conditions /\ t.seen \in Row
         /\ t.at \in {"begin", "submit"} => t.kind \in Kinds
         /\ t.at = "receipt" => t.hash \in Nat
         /\ t.at = "write" => t.hash \in Nat /\ t.payout \in Nat /\ t.why \in Reasons
  BY DEF Tasks, Idle, Labels, Kinds

LEMMA TaskBuilds ==
  ASSUME NEW c \in Conditions, NEW s \in Row
  PROVE  /\ Idle \in Tasks
         /\ \A at \in {"process", "refused", "ambiguous"} : [at |-> at, on |-> c, seen |-> s] \in Tasks
         /\ \A at \in {"begin", "submit"}, kind \in Kinds :
              [at |-> at, on |-> c, seen |-> s, kind |-> kind] \in Tasks
         /\ \A hash \in Nat : [at |-> "receipt", on |-> c, seen |-> s, hash |-> hash] \in Tasks
         /\ \A to \in Active \cup Closed, hash \in Nat, payout \in Nat, why \in Reasons :
              [at |-> "write", on |-> c, seen |-> s, to |-> to, hash |-> hash, payout |-> payout,
               why |-> why] \in Tasks
  BY Zenon DEF Tasks, Idle, Kinds

LEMMA RowFields ==
  \A r \in Row : /\ r.status \in Active \cup Closed \cup {"NONE"} /\ r.hash \in Nat /\ r.payout \in Nat
                 /\ r.attempts \in Nat /\ r.waited \in BOOLEAN
  BY DEF Row

LEMMA JobFields ==
  \A j \in JobSet : /\ j.kind \in Kinds /\ j.state \in States /\ j.era \in Nat /\ j.paid \in Nat
                    /\ j.listed \in BOOLEAN
  BY DEF JobSet

-----------------------------------------------------------------------------
(* What a step keeps of the facts.                                         *)

LEMMA JobKept ==
  ASSUME NEW J \in [Conditions -> Seq(JobSet)], NEW K \in [Conditions -> Seq(JobSet)], JobsKeep(J, K),
         NEW c \in Conditions, NEW k
  PROVE  /\ \A kind : IsJob(J, c, k, kind) => IsJob(K, c, k, kind)
         /\ \A n : Paid(J, c, k, n) => Paid(K, c, k, n)
  BY DEF JobsKeep, IsJob, Paid

LEMMA GroundKept ==
  ASSUME NEW J \in [Conditions -> Seq(JobSet)], NEW K \in [Conditions -> Seq(JobSet)], JobsKeep(J, K),
         NEW c \in Conditions, NEW s \in Row, Grounded(J, c, s)
  PROVE  Grounded(K, c, s)
  <1>1. s.attempts <= Len(K[c])
    BY RowFields DEF JobsKeep, Grounded
  <1> QED
    BY <1>1, JobKept, Zenon DEF Grounded

LEMMA TaskKept ==
  ASSUME NEW J \in [Conditions -> Seq(JobSet)], NEW K \in [Conditions -> Seq(JobSet)], JobsKeep(J, K),
         NEW R, NEW Q, NEW S, NEW T, RowsKeep(R, Q, S, T),
         NEW t \in Tasks, TaskOK(R, J, S, t)
  PROVE  TaskOK(Q, K, T, t)
  <1> SUFFICES ASSUME t.at # "idle" PROVE TaskOK(Q, K, T, t)
    BY Zenon DEF TaskOK
  <1>1. t.on \in Conditions /\ t.seen \in Row
    BY TaskFields
  <1>2. Grounded(K, t.on, t.seen)
    BY <1>1, GroundKept, Zenon DEF TaskOK
  <1>3. t.at = "write" => WriteOK(K, t)
    BY <1>1, JobKept, Zenon DEF TaskOK, WriteOK
  <1>4. t.at = "receipt" => IsJob(K, t.on, t.hash, "REDEEM")
    BY <1>1, JobKept, Zenon DEF TaskOK
  <1>5. ConfirmedOK(Q, T, t)
    BY <1>1 DEF TaskOK, ConfirmedOK, RowsKeep, Closed
  <1> QED
    BY <1>2, <1>3, <1>4, <1>5, Zenon DEF TaskOK

LEMMA Moved ==
  ASSUME RedeemInv, TypeOK', JobsKeep(jobs, jobs'), RowsKeep(row, row', sound, sound'),
         RowsGrounded', OneInFlightPerWallet', BookedMatchesChain', SubmitsOwn',
         \A w \in Sweepers : sweep'[w] = sweep[w] \/ TaskOK(row', jobs', sound', sweep'[w])
  PROVE  RedeemInv'
  <1>1. /\ jobs \in [Conditions -> Seq(JobSet)] /\ jobs' \in [Conditions -> Seq(JobSet)]
        /\ sweep \in [Sweepers -> Tasks]
    BY Zenon DEF RedeemInv, TypeOK, JobSet, Kinds, States
  <1>2. \A w \in Sweepers : TaskOK(row, jobs, sound, sweep[w]) /\ sweep[w] \in Tasks
    BY <1>1, Zenon DEF RedeemInv, TasksOK
  <1>3. \A w \in Sweepers : TaskOK(row', jobs', sound', sweep[w])
    BY <1>1, <1>2, TaskKept, Zenon
  <1>4. TasksOK'
    BY <1>3 DEF TasksOK
  <1> QED
    BY <1>4, Zenon DEF RedeemInv

\* The booked payouts stand while no row enters or leaves APPLIED.
LEMMA BookedKept ==
  ASSUME TypeOK, BookedMatchesChain, JobsKeep(jobs, jobs'), jobs' \in [Conditions -> Seq(JobSet)],
         booked' = booked,
         \A c \in Conditions : row'[c].status = "APPLIED" <=> row[c].status = "APPLIED"
  PROVE  BookedMatchesChain'
  <1> SUFFICES ASSUME NEW c \in Conditions
               PROVE  /\ row[c].status # "APPLIED" => booked[c] = << >>
                      /\ row[c].status = "APPLIED" =>
                           /\ booked[c] = <<Due[c]>>
                           /\ \E k \in 1..Len(jobs'[c]) :
                                /\ jobs'[c][k].kind = "REDEEM" /\ jobs'[c][k].state = "final"
                                /\ jobs'[c][k].paid = Due[c]
    BY DEF BookedMatchesChain
  <1>1. jobs \in [Conditions -> Seq(JobSet)]
    BY Typed, Zenon
  <1>2. row[c].status = "APPLIED" => \E k : Paid(jobs, c, k, Due[c])
    BY Zenon DEF BookedMatchesChain, Paid, IsJob
  <1>3. row[c].status = "APPLIED" => \E k : Paid(jobs', c, k, Due[c])
    BY <1>1, <1>2, JobKept, Zenon
  <1> QED
    BY <1>3, Zenon DEF BookedMatchesChain, Paid, IsJob

LEMMA Same ==
  ASSUME TypeOK
  PROVE  /\ UNCHANGED jobs => JobsKeep(jobs, jobs')
         /\ UNCHANGED <<row, sound>> => RowsKeep(row, row', sound, sound')
         /\ UNCHANGED <<row, jobs>> => (RowsGrounded <=> RowsGrounded')
         /\ UNCHANGED row => (OneInFlightPerWallet <=> OneInFlightPerWallet')
  <1>1. \A c \in Conditions : Len(jobs[c]) \in Nat
    BY Typed
  <1>2. UNCHANGED jobs => JobsKeep(jobs, jobs')
    BY <1>1 DEF JobsKeep
  <1>3. UNCHANGED <<row, sound>> => RowsKeep(row, row', sound, sound')
    BY Zenon DEF RowsKeep
  <1>4. UNCHANGED <<row, jobs>> => (RowsGrounded <=> RowsGrounded')
    BY DEF RowsGrounded
  <1>5. UNCHANGED row => (OneInFlightPerWallet <=> OneInFlightPerWallet')
    BY DEF OneInFlightPerWallet
  <1> QED
    BY <1>2, <1>3, <1>4, <1>5, Zenon

\* The sweep w takes up t and the others go on.
LEMMA Takes ==
  ASSUME TypeOK, NEW w \in Sweepers, NEW t \in Tasks, Goto(w, t)
  PROVE  /\ sweep' \in [Sweepers -> Tasks] /\ sweep'[w] = t
         /\ \A v \in Sweepers \ {w} : sweep'[v] = sweep[v]
  <1>1. sweep \in [Sweepers -> Tasks]
    BY Typed, ZenonT(30)
  <1> QED
    BY <1>1, Zenon DEF Goto

\* No sweep comes to submit, and the jobs of those that do are as they were.
LEMMA SubmitsKept ==
  ASSUME SubmitsOwn, sweep' \in [Sweepers -> Tasks],
         \A w \in Sweepers : sweep'[w].at = "submit" =>
            /\ sweep'[w] = sweep[w]
            /\ jobs'[On(w)][Seen(w).attempts].state = jobs[On(w)][Seen(w).attempts].state
  PROVE  SubmitsOwn'
  BY SMTT(30) DEF SubmitsOwn, At, On, Seen

\* A sweep decides; rows and jobs stay.
LEMMA TaskStep ==
  ASSUME RedeemInv, NEW w \in Sweepers, NEW t \in Tasks, TaskOK(row, jobs, sound, t), t.at # "submit",
         Goto(w, t), UNCHANGED <<row, jobs, approved, sound, booked>>,
         failures' \in [Conditions -> Nat], faults' \in 0..MaxFaults
  PROVE  RedeemInv'
  <1>1. TypeOK /\ SubmitsOwn /\ RowsGrounded /\ OneInFlightPerWallet /\ BookedMatchesChain
    BY Zenon DEF RedeemInv
  <1>2. /\ sweep' \in [Sweepers -> Tasks] /\ sweep'[w] = t
        /\ \A v \in Sweepers \ {w} : sweep'[v] = sweep[v]
    BY <1>1, Takes, Zenon
  <1>3. TypeOK'
    BY <1>1, <1>2, Zenon DEF TypeOK
  <1>4. SubmitsOwn'
    BY <1>1, <1>2, SubmitsKept, Zenon
  <1>5. BookedMatchesChain'
    BY <1>1 DEF BookedMatchesChain
  <1>6. \A v \in Sweepers : sweep'[v] = sweep[v] \/ TaskOK(row', jobs', sound', sweep'[v])
    BY <1>2, Zenon
  <1> QED
    BY <1>1, <1>3, <1>4, <1>5, <1>6, Same, Moved, Zenon


\* One job moves on; at most the sweep that sent it takes up something else.
LEMMA JobStep ==
  ASSUME RedeemInv, NEW c \in Conditions, NEW k \in 1..Len(jobs[c]), NEW j \in JobSet,
         j.kind = jobs[c][k].kind, jobs[c][k].state # "final" \/ (j.state = "final" /\ j.paid = jobs[c][k].paid),
         jobs' = [jobs EXCEPT ![c] = [jobs[c] EXCEPT ![k] = j]],
         UNCHANGED <<row, failures, sound, booked>>, approved' \in [Wallets -> BOOLEAN],
         faults' \in 0..MaxFaults, sweep' \in [Sweepers -> Tasks],
         \A v \in Sweepers :
           \/ sweep'[v] = sweep[v] /\ ~(At(v, "submit") /\ On(v) = c /\ Seen(v).attempts = k)
           \/ TaskOK(row, jobs, sound, sweep'[v]) /\ sweep'[v].at # "submit"
  PROVE  RedeemInv'
  <1>1. TypeOK /\ SubmitsOwn /\ RowsGrounded /\ TasksOK /\ OneInFlightPerWallet /\ BookedMatchesChain
    BY Zenon DEF RedeemInv
  <1>2. jobs \in [Conditions -> Seq(JobSet)] /\ row \in [Conditions -> Row] /\ sweep \in [Sweepers -> Tasks]
    BY <1>1, Typed, Zenon
  <1>3. jobs[c] \in Seq(JobSet) /\ Len(jobs[c]) \in Nat
    BY <1>2
  <1>4. /\ [jobs[c] EXCEPT ![k] = j] \in Seq(JobSet) /\ Len([jobs[c] EXCEPT ![k] = j]) = Len(jobs[c])
        /\ [jobs[c] EXCEPT ![k] = j][k] = j
        /\ \A i : i # k => [jobs[c] EXCEPT ![k] = j][i] = jobs[c][i]
    BY <1>3
  <1>5. /\ jobs' \in [Conditions -> Seq(JobSet)] /\ \A d \in Conditions : Len(jobs'[d]) = Len(jobs[d])
        /\ jobs'[c][k] = j
        /\ \A d \in Conditions : \A i \in 1..Len(jobs[d]) : d # c \/ i # k => jobs'[d][i] = jobs[d][i]
    BY <1>2, <1>4, Zenon
  <1>6. JobsKeep(jobs, jobs')
    <2>1. \A d \in Conditions : Len(jobs[d]) <= Len(jobs'[d])
      BY <1>2, <1>5
    <2> QED
      BY <1>5, <2>1, ZenonT(30) DEF JobsKeep
  <1>7. TypeOK'
    BY <1>1, <1>2, <1>5, Zenon DEF TypeOK, JobSet, Kinds, States
  <1>8. RowsGrounded'
    <2>1. \A d \in Conditions : Grounded(jobs', d, row[d])
      BY <1>1, <1>2, <1>5, <1>6, GroundKept, ZenonT(30) DEF RowsGrounded
    <2> QED
      BY <2>1, Zenon DEF RowsGrounded
  <1>9. BookedMatchesChain'
    BY <1>1, <1>5, <1>6, BookedKept, Zenon
  <1>10. SubmitsOwn'
    <2>1. ASSUME NEW v \in Sweepers, sweep'[v].at = "submit"
          PROVE  /\ sweep'[v] = sweep[v]
                 /\ jobs'[On(v)][Seen(v).attempts].state = jobs[On(v)][Seen(v).attempts].state
      <3>1. sweep'[v] = sweep[v] /\ At(v, "submit") /\ (On(v) # c \/ Seen(v).attempts # k)
        BY <2>1, Zenon DEF At
      <3>2. On(v) \in Conditions /\ Seen(v) \in Row
        BY <1>2, <3>1, TaskFields DEF At, On, Seen
      <3>3. Seen(v).attempts \in 1..Len(jobs[On(v)])
        <4>1. Seen(v).status = Submitting(sweep[v].kind) /\ Grounded(jobs, On(v), Seen(v))
          BY <1>1, <3>1, Zenon DEF TasksOK, TaskOK, At, On, Seen
        <4> QED
          BY <4>1, Zenon DEF Submitting, Grounded, IsJob, Approving, Redeeming
      <3> QED
        BY <1>5, <3>1, <3>2, <3>3, Zenon
    <2> QED
      BY <1>1, <2>1, SubmitsKept, Zenon
  <1>11. \A v \in Sweepers : sweep'[v] = sweep[v] \/ TaskOK(row', jobs', sound', sweep'[v])
    <2>1. RowsKeep(row, row', sound, sound')
      BY <1>1, Same, Zenon
    <2>2. ASSUME NEW u \in Tasks, TaskOK(row, jobs, sound, u) PROVE TaskOK(row', jobs', sound', u)
      BY <1>2, <1>5, <1>6, <2>1, <2>2, TaskKept, ZenonT(30)
    <2> QED
      BY <2>2, Zenon
  <1> QED
    BY <1>1, <1>6, <1>7, <1>8, <1>9, <1>10, <1>11, Same, Moved, Zenon

\* One row changes and no job does.
LEMMA RowStep ==
  ASSUME RedeemInv, NEW c \in Conditions, NEW r \in Row, r.attempts = row[c].attempts,
         row' = [row EXCEPT ![c] = r], Grounded(jobs, c, r), r.status \in InFlight => row[c].status \in InFlight,
         row[c].status \notin Closed,
         row[c].status = "CONFIRMED" =>
           r.status \in Closed \/ (r.status = "CONFIRMED" /\ r.payout = row[c].payout),
         UNCHANGED <<failures, jobs, approved, sound, faults>>,
         booked' \in [Conditions -> Seq(Nat)], BookedMatchesChain', sweep' \in [Sweepers -> Tasks],
         \A v \in Sweepers : \/ sweep'[v] = sweep[v]
                             \/ TaskOK(row', jobs, sound, sweep'[v]) /\ sweep'[v].at # "submit"
  PROVE  RedeemInv'
  <1>1. TypeOK /\ SubmitsOwn /\ RowsGrounded /\ TasksOK /\ OneInFlightPerWallet
    BY Zenon DEF RedeemInv
  <1>2. row \in [Conditions -> Row]
    BY <1>1, Typed, Zenon
  <1>3. /\ row' \in [Conditions -> Row] /\ row'[c] = r
        /\ \A d \in Conditions : d # c => row'[d] = row[d]
    BY <1>2, Zenon
  <1>4. TypeOK'
    BY <1>1, <1>3, Zenon DEF TypeOK
  <1>5. RowsKeep(row, row', sound, sound')
    BY <1>3, Zenon DEF RowsKeep
  <1>6. RowsGrounded'
    <2>1. \A d \in Conditions : Grounded(jobs, d, row'[d])
      BY <1>1, <1>3, Zenon DEF RowsGrounded
    <2> QED
      BY <2>1 DEF RowsGrounded
  <1>7. \A d \in Conditions : row'[d].status \in InFlight => row[d].status \in InFlight
    BY <1>3, Zenon
  <1>8. OneInFlightPerWallet'
    BY <1>1, <1>7 DEF OneInFlightPerWallet
  <1>9. SubmitsOwn'
    BY <1>1, SubmitsKept, Zenon
  <1>10. \A v \in Sweepers : sweep'[v] = sweep[v] \/ TaskOK(row', jobs', sound', sweep'[v])
    BY Zenon
  <1> QED
    BY <1>1, <1>4, <1>5, <1>6, <1>8, <1>9, <1>10, Same, Moved, Zenon


LEMMA IntentWrites ==
  ASSUME TypeOK, NEW c \in Conditions, NEW kind \in Kinds, Intend(c, kind)
  PROVE  /\ row' \in [Conditions -> Row] /\ row'[c].status = Submitting(kind)
         /\ row'[c].attempts = Len(jobs[c]) + 1 /\ row'[c].hash = row[c].hash /\ row'[c].waited = FALSE
         /\ \A d \in Conditions : d # c => row'[d] = row[d]
         /\ jobs' \in [Conditions -> Seq(JobSet)] /\ Len(jobs'[c]) = Len(jobs[c]) + 1
         /\ jobs'[c][Len(jobs[c]) + 1] = NewJob(kind)
         /\ \A i \in 1..Len(jobs[c]) : jobs'[c][i] = jobs[c][i]
         /\ \A d \in Conditions : d # c => jobs'[d] = jobs[d]
  <1>1. /\ row \in [Conditions -> Row] /\ jobs \in [Conditions -> Seq(JobSet)]
        /\ row[c].attempts = Len(jobs[c])
    BY Typed, Zenon
  <1>2. NewJob(kind) \in JobSet
    BY DEF NewJob, JobSet, Kinds, States
  <1>3. /\ Append(jobs[c], NewJob(kind)) \in Seq(JobSet) /\ Len(jobs[c]) \in Nat
        /\ Len(Append(jobs[c], NewJob(kind))) = Len(jobs[c]) + 1
        /\ Append(jobs[c], NewJob(kind))[Len(jobs[c]) + 1] = NewJob(kind)
        /\ \A i \in 1..Len(jobs[c]) : Append(jobs[c], NewJob(kind))[i] = jobs[c][i]
    BY <1>1, <1>2
  <1>4. /\ jobs' \in [Conditions -> Seq(JobSet)] /\ jobs'[c] = Append(jobs[c], NewJob(kind))
        /\ \A d \in Conditions : d # c => jobs'[d] = jobs[d]
    BY <1>1, <1>3, Zenon DEF Intend
  <1> DEFINE r == [row[c] EXCEPT !.status = Submitting(kind), !.waited = FALSE,
                                 !.attempts = row[c].attempts + 1, !.why = "none"]
  <1>5. row' = [row EXCEPT ![c] = r]
    BY <1>1, Zenon DEF Intend
  <1>6. /\ row[c] \in Row /\ row[c].attempts + 1 \in Nat /\ Submitting(kind) \in Active
        /\ "none" \in Reasons
    BY <1>1, <1>3 DEF Submitting, Active, InFlight, Reasons
  <1>7. /\ r \in Row /\ r.status = Submitting(kind) /\ r.attempts = row[c].attempts + 1
        /\ r.hash = row[c].hash /\ r.waited = FALSE
    BY <1>6, Zenon DEF Row
  <1>9. row' \in [Conditions -> Row] /\ row'[c] = r /\ \A d \in Conditions : d # c => row'[d] = row[d]
    BY <1>1, <1>5, <1>7, Zenon
  <1> HIDE DEF r
  <1> QED
    BY <1>1, <1>3, <1>4, <1>7, <1>9, Zenon

LEMMA IntentGrounds ==
  ASSUME TypeOK, NEW c \in Conditions, NEW kind \in Kinds, Intend(c, kind)
  PROVE  /\ JobsKeep(jobs, jobs') /\ Grounded(jobs', c, row'[c])
         /\ row'[c].status = Submitting(kind) /\ row'[c].status \in InFlight \ {"REDEEM_SUBMITTED"}
  <1>1. jobs \in [Conditions -> Seq(JobSet)]
    BY Typed, Zenon
  <1>2. \A d \in Conditions : Len(jobs[d]) \in Nat
    BY <1>1
  <1>3. /\ row'[c].status = Submitting(kind) /\ row'[c].attempts = Len(jobs[c]) + 1
        /\ \A d \in Conditions : d # c => jobs'[d] = jobs[d]
        /\ Len(jobs'[c]) = Len(jobs[c]) + 1
    BY IntentWrites, Zenon
  <1>4. JobsKeep(jobs, jobs')
    <2>1. \A d \in Conditions : Len(jobs[d]) <= Len(jobs'[d])
      BY <1>2, <1>3
    <2>2. \A d \in Conditions : \A k \in 1..Len(jobs[d]) : jobs'[d][k] = jobs[d][k]
      BY IntentWrites, Zenon
    <2> QED
      BY <2>1, <2>2, Zenon DEF JobsKeep
  <1>5. /\ row'[c].status \in InFlight \ {"REDEEM_SUBMITTED"}
        /\ kind = "APPROVAL" => row'[c].status = "APPROVAL_SUBMITTING"
        /\ kind = "REDEEM" => row'[c].status = "REDEEM_SUBMITTING"
    BY <1>3, Zenon DEF Submitting, InFlight, Kinds
  <1>6. IsJob(jobs', c, row'[c].attempts, kind)
    <2>1. Len(jobs[c]) + 1 \in 1..Len(jobs'[c])
      BY <1>2, <1>3
    <2>2. NewJob(kind).kind = kind
      BY DEF NewJob
    <2> QED
      BY <2>1, <2>2, IntentWrites, ZenonT(30) DEF IsJob
  <1>7. row'[c].attempts <= Len(jobs'[c])
    BY <1>2, <1>3
  <1>8. Grounded(jobs', c, row'[c])
    BY <1>5, <1>6, <1>7 DEF Grounded, Approving, Redeeming, Kinds, InFlight
  <1> QED
    BY <1>3, <1>4, <1>5, <1>8, Zenon

\* A new attempt begins on a wallet nobody else uses.
LEMMA IntentStep ==
  ASSUME RedeemInv, NEW c \in Conditions, NEW kind \in Kinds, NEW w \in Sweepers, NEW t \in Tasks,
         ~WalletBusy(c), row[c].status = "READY", Intend(c, kind), Goto(w, t),
         UNCHANGED <<failures, approved, sound, booked>>, faults' \in 0..MaxFaults,
         TaskOK(row', jobs', sound, t), t.at = "submit" => t.on = c /\ t.seen = row'[c]
  PROVE  RedeemInv'
  <1>1. TypeOK /\ SubmitsOwn /\ RowsGrounded /\ TasksOK /\ OneInFlightPerWallet /\ BookedMatchesChain
    BY Zenon DEF RedeemInv
  <1>2. jobs \in [Conditions -> Seq(JobSet)] /\ row \in [Conditions -> Row] /\ sweep \in [Sweepers -> Tasks]
    BY <1>1, Typed, Zenon
  <1>3. /\ sweep' \in [Sweepers -> Tasks] /\ sweep'[w] = t
        /\ \A v \in Sweepers \ {w} : sweep'[v] = sweep[v]
    BY <1>1, Takes, Zenon
  <1>4. Len(jobs[c]) \in Nat /\ \A d \in Conditions : row[d].attempts = Len(jobs[d]) /\ Len(jobs[d]) \in Nat
    BY <1>1, <1>2, Typed
  <1>15. /\ row'[c].status = Submitting(kind) /\ row'[c].attempts = Len(jobs[c]) + 1
         /\ \A d \in Conditions : d # c => row'[d] = row[d] /\ jobs'[d] = jobs[d]
         /\ Len(jobs'[c]) = Len(jobs[c]) + 1
    BY <1>1, IntentWrites, Zenon
  <1>5. JobsKeep(jobs, jobs')
    BY <1>1, IntentGrounds, Zenon
  <1>6. \A d \in Conditions : row'[d].attempts = Len(jobs'[d])
    BY <1>1, <1>4, IntentWrites, Zenon
  <1>7. TypeOK'
    BY <1>1, <1>3, <1>6, IntentWrites, Zenon DEF TypeOK, JobSet, Kinds, States
  <1>8. row'[c].status \in InFlight
    BY <1>1, IntentGrounds, Zenon
  <1>9. RowsKeep(row, row', sound, sound')
    BY <1>1, IntentWrites, Zenon DEF RowsKeep, Closed
  <1>10. RowsGrounded'
    <2>3. Grounded(jobs', c, row'[c])
      BY <1>1, IntentGrounds, Zenon
    <2>4. \A d \in Conditions : d # c => Grounded(jobs', d, row'[d])
      <3> SUFFICES ASSUME NEW d \in Conditions, d # c PROVE Grounded(jobs', d, row[d])
        BY <1>15
      <3>1. Grounded(jobs, d, row[d]) /\ row[d] \in Row
        BY <1>1, <1>2, Zenon DEF RowsGrounded
      <3>2. jobs' \in [Conditions -> Seq(JobSet)]
        BY <1>1, IntentWrites, Zenon
      <3> QED
        BY <1>2, <1>5, <3>1, <3>2, GroundKept, Zenon
    <2> QED
      BY <2>3, <2>4, Zenon DEF RowsGrounded
  <1>11. OneInFlightPerWallet'
    <2>1. \A d \in Conditions \ {c} : WalletOf[d] = WalletOf[c] => row[d].status \notin InFlight
      BY Zenon DEF WalletBusy
    <2> QED
      BY <1>1, <1>15, <2>1 DEF OneInFlightPerWallet
  <1>12. BookedMatchesChain'
    <2>1. \A d \in Conditions : row'[d].status = "APPLIED" <=> row[d].status = "APPLIED"
      BY <1>8, <1>15, Zenon DEF InFlight
    <2> QED
      BY <1>1, <1>5, <2>1, IntentWrites, BookedKept, Zenon
  <1>13. SubmitsOwn'
    <2>1. ASSUME NEW v \in Sweepers, v # w, sweep'[v].at = "submit"
          PROVE  /\ sweep'[v] = sweep[v] /\ On(v) \in Conditions /\ Seen(v).attempts \in 1..Len(jobs[On(v)])
                 /\ jobs'[On(v)][Seen(v).attempts].state = jobs[On(v)][Seen(v).attempts].state
                 /\ On(v) = c => Seen(v).attempts # Len(jobs[c]) + 1
      <3>1. sweep'[v] = sweep[v] /\ At(v, "submit")
        BY <1>3, <2>1, Zenon DEF At
      <3>2. On(v) \in Conditions /\ Seen(v) \in Row
        BY <1>2, <3>1, TaskFields DEF At, On, Seen
      <3>3. Seen(v).attempts \in 1..Len(jobs[On(v)])
        <4>1. Seen(v).status = Submitting(sweep[v].kind) /\ Grounded(jobs, On(v), Seen(v))
          BY <1>1, <3>1, Zenon DEF TasksOK, TaskOK, At, On, Seen
        <4> QED
          BY <4>1, Zenon DEF Submitting, Grounded, IsJob, Approving, Redeeming
      <3>4. jobs'[On(v)][Seen(v).attempts] = jobs[On(v)][Seen(v).attempts]
        BY <1>1, <3>2, <3>3, IntentWrites, Zenon
      <3>5. On(v) = c => Seen(v).attempts # Len(jobs[c]) + 1
        BY <1>4, <3>3
      <3> QED
        BY <3>1, <3>2, <3>3, <3>4, <3>5, Zenon
    <2>2. sweep'[w].at = "submit" =>
            /\ sweep'[w].on = c /\ sweep'[w].seen.attempts = Len(jobs[c]) + 1
            /\ jobs'[sweep'[w].on][sweep'[w].seen.attempts].state = "unsent"
      <3>1. NewJob(kind).state = "unsent"
        BY DEF NewJob
      <3> QED
        BY <1>1, <1>3, <3>1, IntentWrites, ZenonT(30)
    <2>3. ASSUME NEW v \in Sweepers, sweep'[v].at = "submit"
          PROVE  jobs'[sweep'[v].on][sweep'[v].seen.attempts].state = "unsent"
      BY <1>1, <2>1, <2>2, <2>3, Zenon DEF SubmitsOwn, At, On, Seen
    <2>4. ASSUME NEW v \in Sweepers, NEW u \in Sweepers \ {v}, sweep'[v].at = "submit", sweep'[u].at = "submit"
          PROVE  sweep'[u].on # sweep'[v].on \/ sweep'[u].seen.attempts # sweep'[v].seen.attempts
      <3>1. CASE v = w
        BY <2>1, <2>2, <2>4, <3>1, Zenon DEF On, Seen
      <3>2. CASE u = w
        BY <2>1, <2>2, <2>4, <3>2, Zenon DEF On, Seen
      <3>3. CASE v # w /\ u # w
        <4>1. sweep'[v] = sweep[v] /\ sweep'[u] = sweep[u]
          BY <2>1, <2>4, <3>3, Zenon
        <4> QED
          BY <1>1, <2>4, <4>1, ZenonT(30) DEF SubmitsOwn, At, On, Seen
      <3> QED
        BY <3>1, <3>2, <3>3, Zenon
    <2> QED
      BY <2>3, <2>4, Zenon DEF SubmitsOwn, At, On, Seen
  <1>14. \A v \in Sweepers : sweep'[v] = sweep[v] \/ TaskOK(row', jobs', sound', sweep'[v])
    BY <1>3, Zenon
  <1> QED
    BY <1>5, <1>7, <1>9, <1>10, <1>11, <1>12, <1>13, <1>14, Moved, Zenon


-----------------------------------------------------------------------------
(* The decisions of a sweep.                                               *)

LEMMA InHand ==
  ASSUME RedeemInv, NEW w \in Sweepers, sweep[w].at # "idle"
  PROVE  /\ On(w) \in Conditions /\ Seen(w) \in Row /\ sweep[w] \in Tasks
         /\ TaskOK(row, jobs, sound, sweep[w])
         /\ Grounded(jobs, On(w), Seen(w)) /\ Seen(w).status \in Active
         /\ ConfirmedOK(row, sound, sweep[w])
  <1>1. TypeOK /\ TasksOK
    BY Zenon DEF RedeemInv
  <1>2. sweep[w] \in Tasks
    BY <1>1, Typed, Zenon
  <1> QED
    BY <1>1, <1>2, TaskFields, Zenon DEF TasksOK, TaskOK, On, Seen

LEMMA IdleOK == Idle \in Tasks /\ Idle.at = "idle" /\ \A R, J, S : TaskOK(R, J, S, Idle)
  BY DEF Idle, Tasks, TaskOK

\* A pending write that names no new evidence.
LEMMA WriteTask ==
  ASSUME NEW R, NEW J, NEW S, NEW c \in Conditions, NEW s \in Row, Grounded(J, c, s), s.status \in Active,
         NEW to \in {"READY", "MANUAL_REVIEW"}, NEW why \in Reasons,
         s.status = "CONFIRMED" =>
           /\ to = "MANUAL_REVIEW" /\ R[c].status \in {"CONFIRMED"} \cup Closed
           /\ R[c].status # "CONFIRMED" \/ ~S[c] \/ R[c].payout # Due[c],
         NEW t, t = [at |-> "write", on |-> c, seen |-> s, to |-> to, hash |-> 0, payout |-> 0, why |-> why]
  PROVE  t \in Tasks /\ TaskOK(R, J, S, t) /\ t.at # "submit"
  <1>1. to \in Active \cup Closed
    BY DEF Active, Closed
  <1>2. t \in Tasks
    BY <1>1, TaskBuilds, Zenon
  <1>3. /\ t.at = "write" /\ t.on = c /\ t.seen = s /\ t.to = to
        /\ to # "CONFIRMED" /\ to # "REDEEM_SUBMITTED" /\ to # "APPROVAL_SUBMITTED" /\ to \in Targets
    BY DEF Targets
  <1>4. WriteOK(J, t)
    BY <1>3, Zenon DEF WriteOK
  <1>5. ConfirmedOK(R, S, t)
    BY <1>3, Zenon DEF ConfirmedOK
  <1> QED
    BY <1>2, <1>3, <1>4, <1>5 DEF TaskOK

LEMMA ReceiptTask ==
  ASSUME NEW R, NEW J, NEW S, NEW c \in Conditions, NEW s \in Row, Grounded(J, c, s), s.status \in Redeeming,
         NEW hash \in Nat, IsJob(J, c, hash, "REDEEM"),
         NEW t, t = [at |-> "receipt", on |-> c, seen |-> s, hash |-> hash]
  PROVE  t \in Tasks /\ TaskOK(R, J, S, t) /\ t.at # "submit"
  <1>1. t \in Tasks
    BY TaskBuilds, Zenon
  <1>2. /\ t.at = "receipt" /\ t.on = c /\ t.seen = s /\ t.hash = hash
        /\ s.status \in Active /\ s.status # "CONFIRMED"
    BY DEF Redeeming, Active, InFlight
  <1> QED
    BY <1>1, <1>2 DEF TaskOK, ConfirmedOK

\* The sweep gives the row up, asks for a reset or a review, or reads a receipt.
LEMMA Decides ==
  ASSUME RedeemInv, NEW w \in Sweepers, sweep[w].at # "idle",
         UNCHANGED <<row, jobs, approved, sound, booked>>,
         failures' \in [Conditions -> Nat], faults' \in 0..MaxFaults
  PROVE  /\ Goto(w, Idle) => RedeemInv'
         /\ Seen(w).status # "CONFIRMED" /\ Reset(w) => RedeemInv'
         /\ \A why \in Reasons :
              (Seen(w).status = "CONFIRMED" => ~(row[On(w)].status = "CONFIRMED" /\ Bookable(On(w))))
              => (Review(w, why) => RedeemInv')
         /\ \A hash \in Nat :
              IsJob(jobs, On(w), hash, "REDEEM") /\ Seen(w).status \in Redeeming
              => (Goto(w, [at |-> "receipt", on |-> On(w), seen |-> Seen(w), hash |-> hash]) => RedeemInv')
  <1>1. /\ On(w) \in Conditions /\ Seen(w) \in Row /\ Grounded(jobs, On(w), Seen(w))
        /\ Seen(w).status \in Active /\ ConfirmedOK(row, sound, sweep[w])
    BY InHand, Zenon
  <1>2. \A t \in Tasks : TaskOK(row, jobs, sound, t) /\ t.at # "submit" /\ Goto(w, t) => RedeemInv'
    BY TaskStep, Zenon
  <1>3. Goto(w, Idle) => RedeemInv'
    BY <1>2, IdleOK, Zenon
  <1>4. ASSUME Seen(w).status # "CONFIRMED", Reset(w) PROVE RedeemInv'
    <2>1. PICK t : t = [at |-> "write", on |-> On(w), seen |-> Seen(w), to |-> "READY", hash |-> 0,
                        payout |-> 0, why |-> "none"]
      BY Zenon
    <2>2. t \in Tasks /\ TaskOK(row, jobs, sound, t) /\ t.at # "submit"
      BY <1>1, <1>4, <2>1, WriteTask, Zenon DEF Reasons
    <2>3. Goto(w, t)
      BY <1>4, <2>1, Zenon DEF Reset, Writes
    <2> QED
      BY <1>2, <2>2, <2>3, Zenon
  <1>5. ASSUME NEW why \in Reasons, Review(w, why),
               Seen(w).status = "CONFIRMED" => ~(row[On(w)].status = "CONFIRMED" /\ Bookable(On(w)))
        PROVE  RedeemInv'
    <2>1. PICK t : t = [at |-> "write", on |-> On(w), seen |-> Seen(w), to |-> "MANUAL_REVIEW", hash |-> 0,
                        payout |-> 0, why |-> why]
      BY Zenon
    <2>2. Seen(w).status = "CONFIRMED" =>
            /\ row[On(w)].status \in {"CONFIRMED"} \cup Closed
            /\ row[On(w)].status # "CONFIRMED" \/ ~sound[On(w)] \/ row[On(w)].payout # Due[On(w)]
      BY <1>1, <1>5, Zenon DEF ConfirmedOK, On, Seen, Bookable
    <2>3. t \in Tasks /\ TaskOK(row, jobs, sound, t) /\ t.at # "submit"
      BY <1>1, <2>1, <2>2, WriteTask, Zenon
    <2>4. Goto(w, t)
      BY <1>5, <2>1, Zenon DEF Review, Writes
    <2> QED
      BY <1>2, <2>3, <2>4, Zenon
  <1>6. ASSUME NEW hash \in Nat, IsJob(jobs, On(w), hash, "REDEEM"), Seen(w).status \in Redeeming,
               Goto(w, [at |-> "receipt", on |-> On(w), seen |-> Seen(w), hash |-> hash])
        PROVE  RedeemInv'
    <2>1. PICK t : t = [at |-> "receipt", on |-> On(w), seen |-> Seen(w), hash |-> hash]
      BY Zenon
    <2>2. t \in Tasks /\ TaskOK(row, jobs, sound, t) /\ t.at # "submit"
      BY <1>1, <1>6, <2>1, ReceiptTask, Zenon
    <2> QED
      BY <1>2, <1>6, <2>1, <2>2, Zenon
  <1> QED
    BY <1>3, <1>4, <1>5, <1>6, Zenon


LEMMA ListDueKeeps ==
  ASSUME RedeemInv, NEW w \in Sweepers, NEW c \in Conditions, ListDue(w, c)
  PROVE  RedeemInv'
  <1>1. PICK t : t = [at |-> "process", on |-> c, seen |-> row[c]]
    BY Zenon
  <1>2. row[c] \in Row /\ Grounded(jobs, c, row[c]) /\ TypeOK
    BY Typed, Zenon DEF RedeemInv, RowsGrounded
  <1>3. t \in Tasks
    BY <1>1, <1>2, TaskBuilds, Zenon
  <1>4. TaskOK(row, jobs, sound, t) /\ t.at # "submit"
    BY <1>1, <1>2 DEF TaskOK, ConfirmedOK, ListDue
  <1>5. /\ Goto(w, t) /\ UNCHANGED <<row, jobs, approved, sound, booked>>
        /\ failures' \in [Conditions -> Nat] /\ faults' \in 0..MaxFaults
    BY <1>1, <1>2, Typed, Zenon DEF ListDue, store, chain
  <1> QED
    BY <1>3, <1>4, <1>5, TaskStep, Zenon

\* What the steps that only decide leave alone.
LEMMA Quiet ==
  ASSUME RedeemInv
  PROVE  /\ UNCHANGED <<store, chain, faults>> =>
              /\ UNCHANGED <<row, jobs, approved, sound, booked>>
              /\ failures' \in [Conditions -> Nat] /\ faults' \in 0..MaxFaults
         /\ Fault /\ UNCHANGED <<store, chain>> =>
              /\ UNCHANGED <<row, jobs, approved, sound, booked>>
              /\ failures' \in [Conditions -> Nat] /\ faults' \in 0..MaxFaults
  <1>1. failures \in [Conditions -> Nat] /\ faults \in 0..MaxFaults
    BY Typed, Zenon DEF RedeemInv
  <1>2. Fault => faults' \in 0..MaxFaults
    BY <1>1, Constants DEF Fault
  <1> QED
    BY <1>1, <1>2, Zenon DEF store, chain

LEMMA LostKeeps ==
  ASSUME RedeemInv, NEW w \in Sweepers, Lost(w)
  PROVE  RedeemInv'
  <1>1. sweep[w].at # "idle"
    <2>1. sweep[w] \in Tasks
      BY Typed, Zenon DEF RedeemInv
    <2> QED
      BY <2>1, TaskFields, Zenon DEF Lost
  <1> QED
    BY <1>1, Decides, Quiet, Zenon DEF Lost

LEMMA ProcessReadyKeeps ==
  ASSUME RedeemInv, NEW w \in Sweepers, ProcessReady(w)
  PROVE  RedeemInv'
  <1>1. PICK kind \in Kinds : kind = IF approved[WalletOf[On(w)]] THEN "REDEEM" ELSE "APPROVAL"
    BY Zenon DEF Kinds
  <1>2. PICK t : t = [at |-> "begin", on |-> On(w), seen |-> Seen(w), kind |-> kind]
    BY Zenon
  <1>3. sweep[w].at # "idle" /\ Seen(w).status = "READY"
    BY Zenon DEF ProcessReady, At
  <1>4. On(w) \in Conditions /\ Seen(w) \in Row /\ Grounded(jobs, On(w), Seen(w))
    BY <1>3, InHand, Zenon
  <1>5. t \in Tasks
    BY <1>2, <1>4, TaskBuilds, Zenon
  <1>6. TaskOK(row, jobs, sound, t) /\ t.at # "submit"
    BY <1>2, <1>3, <1>4 DEF TaskOK, ConfirmedOK, Active
  <1>7. Goto(w, t) /\ UNCHANGED <<store, chain, faults>>
    BY <1>1, <1>2, Zenon DEF ProcessReady
  <1> QED
    BY <1>5, <1>6, <1>7, Quiet, TaskStep, Zenon

LEMMA BeginBusyKeeps ==
  ASSUME RedeemInv, NEW w \in Sweepers, BeginBusy(w)
  PROVE  RedeemInv'
  BY Decides, Quiet, Zenon DEF BeginBusy, At

LEMMA BeginRefusedKeeps ==
  ASSUME RedeemInv, NEW w \in Sweepers, BeginRefused(w)
  PROVE  RedeemInv'
  <1>1. sweep[w].at # "idle" /\ sweep[w].at = "begin"
    BY Zenon DEF BeginRefused, At
  <1>2. Seen(w).status # "CONFIRMED"
    BY <1>1, InHand, Zenon DEF TaskOK, Seen
  <1> QED
    BY <1>1, <1>2, Decides, Quiet, Zenon DEF BeginRefused, Reasons

LEMMA SubmitRefusedKeeps ==
  ASSUME RedeemInv, NEW w \in Sweepers, SubmitRefused(w)
  PROVE  RedeemInv'
  <1>1. PICK t : t = [at |-> "refused", on |-> On(w), seen |-> Seen(w)]
    BY Zenon
  <1>2. sweep[w].at # "idle" /\ sweep[w].at = "submit"
    BY Zenon DEF SubmitRefused, At
  <1>3. /\ On(w) \in Conditions /\ Seen(w) \in Row /\ Grounded(jobs, On(w), Seen(w))
        /\ Seen(w).status = Submitting(sweep[w].kind)
    BY <1>2, InHand, Zenon DEF TaskOK, Seen
  <1>4. Seen(w).status \in InFlight \cap Active /\ Seen(w).status # "CONFIRMED"
    BY <1>3 DEF Submitting, InFlight, Active
  <1>5. t \in Tasks
    BY <1>1, <1>3, TaskBuilds, Zenon
  <1>6. TaskOK(row, jobs, sound, t) /\ t.at # "submit"
    BY <1>1, <1>3, <1>4 DEF TaskOK, ConfirmedOK
  <1>7. Goto(w, t) /\ UNCHANGED <<store, chain, faults>>
    BY <1>1, Zenon DEF SubmitRefused
  <1> QED
    BY <1>5, <1>6, <1>7, Quiet, TaskStep, Zenon

LEMMA SubmitFailedKeeps ==
  ASSUME RedeemInv, NEW w \in Sweepers, SubmitFailed(w)
  PROVE  RedeemInv'
  <1>1. sweep[w].at # "idle" /\ sweep[w].at \in {"refused", "ambiguous"}
    BY Zenon DEF SubmitFailed
  <1>2. On(w) \in Conditions /\ Seen(w).status # "CONFIRMED"
    <2>1. Seen(w).status \in InFlight /\ On(w) \in Conditions
      BY <1>1, InHand, Zenon DEF TaskOK, Seen
    <2> QED
      BY <2>1 DEF InFlight
  <1>3. failures \in [Conditions -> Nat] /\ faults \in 0..MaxFaults
    BY Typed, Zenon DEF RedeemInv
  <1>4. failures' \in [Conditions -> Nat]
    BY <1>2, <1>3 DEF SubmitFailed
  <1>5. UNCHANGED <<row, jobs, approved, sound, booked>> /\ faults' \in 0..MaxFaults
    BY <1>3, Zenon DEF SubmitFailed, chain
  <1>6. Goto(w, Idle) \/ Review(w, "exhausted") \/ Reset(w)
    BY Zenon DEF SubmitFailed, Retry
  <1>7. "exhausted" \in Reasons
    BY DEF Reasons
  <1> QED
    BY <1>1, <1>2, <1>4, <1>5, <1>6, <1>7, Decides, Zenon

LEMMA RecoverApprovalKeeps ==
  ASSUME RedeemInv, NEW w \in Sweepers, RecoverApproval(w)
  PROVE  RedeemInv'
  <1>1. sweep[w].at # "idle" /\ Seen(w).status # "CONFIRMED"
    BY Zenon DEF RecoverApproval, At
  <1>2. Goto(w, Idle) \/ Review(w, "exhausted") \/ Reset(w)
    BY Zenon DEF RecoverApproval, ResubmitOrReview, Retry
  <1>3. "exhausted" \in Reasons
    BY DEF Reasons
  <1> QED
    BY <1>1, <1>2, <1>3, Decides, Quiet, Zenon DEF RecoverApproval

LEMMA RecoverRedeemKeeps ==
  ASSUME RedeemInv, NEW w \in Sweepers, RecoverRedeem(w)
  PROVE  RedeemInv'
  <1>1. sweep[w].at # "idle" /\ Seen(w).status = "REDEEM_SUBMITTING"
    BY Zenon DEF RecoverRedeem, At
  <1>2. Seen(w).status # "CONFIRMED" /\ Seen(w).status \in Redeeming
    BY <1>1, Zenon DEF Redeeming
  <1>3. \/ Goto(w, Idle) \/ Review(w, "exhausted") \/ Review(w, "evidence") \/ Reset(w)
        \/ \E k \in Activities(On(w), Seen(w).attempts) :
             Goto(w, [at |-> "receipt", on |-> On(w), seen |-> Seen(w), hash |-> k])
    BY Zenon DEF RecoverRedeem, ResubmitOrReview, Retry
  <1>4. \A k \in Activities(On(w), Seen(w).attempts) : k \in Nat /\ IsJob(jobs, On(w), k, "REDEEM")
    BY DEF Activities, IsJob
  <1>5. "exhausted" \in Reasons /\ "evidence" \in Reasons
    BY DEF Reasons
  <1>6. UNCHANGED <<store, chain, faults>>
    BY Zenon DEF RecoverRedeem
  <1> QED
    BY <1>1, <1>2, <1>3, <1>4, <1>5, <1>6, Decides, Quiet, ZenonT(30)

\* A wait goes on or ends with a person.
LEMMA WaitKeeps ==
  ASSUME RedeemInv, NEW w \in Sweepers, sweep[w].at # "idle", Seen(w).status # "CONFIRMED",
         PendingOrReview(w) \/ Review(w, "evidence"),
         UNCHANGED <<row, jobs, approved, sound, booked>>,
         failures' \in [Conditions -> Nat], faults' \in 0..MaxFaults
  PROVE  RedeemInv'
  <1>1. Goto(w, Idle) \/ Review(w, "timeout") \/ Review(w, "evidence")
    BY Zenon DEF PendingOrReview, Retry
  <1>2. "timeout" \in Reasons /\ "evidence" \in Reasons
    BY DEF Reasons
  <1> QED
    BY <1>1, <1>2, Decides, Zenon

LEMMA ProcessApprovalKeeps ==
  ASSUME RedeemInv, NEW w \in Sweepers, ProcessApproval(w)
  PROVE  RedeemInv'
  <1>1. sweep[w].at # "idle" /\ Seen(w).status # "CONFIRMED"
    BY Zenon DEF ProcessApproval, At
  <1>2. PendingOrReview(w) \/ Review(w, "evidence") \/ Reset(w)
    BY Zenon DEF ProcessApproval
  <1>3. UNCHANGED <<store, chain, faults>>
    BY Zenon DEF ProcessApproval
  <1> QED
    BY <1>1, <1>2, <1>3, Decides, WaitKeeps, Quiet, Zenon

LEMMA ConfirmReceiptKeeps ==
  ASSUME RedeemInv, NEW w \in Sweepers, ConfirmReceipt(w)
  PROVE  RedeemInv'
  <1> DEFINE k == sweep[w].hash
             job == jobs[On(w)][k]
  <1>1. sweep[w].at # "idle" /\ sweep[w].at = "receipt"
    BY Zenon DEF ConfirmReceipt, At
  <1>2. /\ IsJob(jobs, On(w), k, "REDEEM") /\ Seen(w).status \in Redeeming /\ k \in Nat
        /\ On(w) \in Conditions /\ Seen(w) \in Row /\ Grounded(jobs, On(w), Seen(w))
    BY <1>1, InHand, TaskFields, Zenon DEF TaskOK, On, Seen
  <1>3. Seen(w).status # "CONFIRMED" /\ Seen(w).status \in Active
    BY <1>2 DEF Redeeming, Active, InFlight
  <1>4. UNCHANGED <<store, chain, faults>>
    BY Zenon DEF ConfirmReceipt
  <1>5. ASSUME job.state = "final", Writes(w, "CONFIRMED", k, job.paid, "none") PROVE RedeemInv'
    <2>1. PICK t : t = [at |-> "write", on |-> On(w), seen |-> Seen(w), to |-> "CONFIRMED", hash |-> k,
                        payout |-> job.paid, why |-> "none"]
      BY Zenon
    <2>2. job.paid \in Nat
      <3>1. jobs \in [Conditions -> Seq(JobSet)]
        BY Typed, Zenon DEF RedeemInv
      <3>2. job \in JobSet
        BY <1>2, <3>1 DEF IsJob
      <3> QED
        BY <3>2, JobFields, Zenon
    <2>3. Paid(jobs, On(w), k, job.paid)
      BY <1>2, <1>5, Zenon DEF Paid
    <2>4. "CONFIRMED" \in Active \cup Closed /\ "none" \in Reasons /\ "CONFIRMED" \in Targets
      BY DEF Active, Reasons, Targets
    <2>5. t \in Tasks
      BY <1>2, <2>1, <2>2, <2>4, TaskBuilds, ZenonT(30)
    <2> HIDE DEF job, k
    <2>6. /\ t.at = "write" /\ t.on = On(w) /\ t.seen = Seen(w) /\ t.to = "CONFIRMED" /\ t.hash = k
          /\ t.payout = job.paid
      BY <2>1
    <2>7. WriteOK(jobs, t)
      BY <1>2, <2>3, <2>4, <2>6, SMTT(30) DEF WriteOK
    <2>8. TaskOK(row, jobs, sound, t) /\ t.at # "submit"
      BY <1>2, <1>3, <2>6, <2>7 DEF TaskOK, ConfirmedOK
    <2>9. Goto(w, t)
      BY <1>5, <2>1, Zenon DEF Writes
    <2> QED
      BY <1>4, <2>5, <2>8, <2>9, Quiet, TaskStep, ZenonT(30)
  <1>6. \/ PendingOrReview(w) \/ Review(w, "evidence")
        \/ job.state = "final" /\ Writes(w, "CONFIRMED", k, job.paid, "none")
    BY Zenon DEF ConfirmReceipt
  <1> QED
    BY <1>1, <1>3, <1>4, <1>5, <1>6, WaitKeeps, Quiet, ZenonT(30)

LEMMA ReceiptUnreadKeeps ==
  ASSUME RedeemInv, NEW w \in Sweepers, ReceiptUnread(w)
  PROVE  RedeemInv'
  <1>1. sweep[w].at # "idle" /\ sweep[w].at = "receipt"
    BY Zenon DEF ReceiptUnread, At
  <1>2. Seen(w).status \in Redeeming
    BY <1>1, InHand, Zenon DEF TaskOK, Seen
  <1>3. Seen(w).status # "CONFIRMED"
    BY <1>2 DEF Redeeming
  <1> QED
    BY <1>1, <1>3, WaitKeeps, Quiet, Zenon DEF ReceiptUnread

LEMMA ApplyRefusedKeeps ==
  ASSUME RedeemInv, NEW w \in Sweepers, ApplyRefused(w)
  PROVE  RedeemInv'
  <1>1. sweep[w].at # "idle" /\ UNCHANGED <<store, chain, faults>>
    BY Zenon DEF ApplyRefused, At
  <1>2. /\ ~(row[On(w)].status = "CONFIRMED" /\ Bookable(On(w)))
        /\ Goto(w, Idle) \/ Review(w, "evidence")
    BY Zenon DEF ApplyRefused
  <1>3. "evidence" \in Reasons
    BY DEF Reasons
  <1> QED
    BY <1>1, <1>2, <1>3, Decides, Quiet, Zenon


-----------------------------------------------------------------------------
(* Jobs: the venue takes them, the chain executes or drops them.           *)

LEMMA Submits ==
  ASSUME RedeemInv, NEW w \in Sweepers, At(w, "submit")
  PROVE  /\ On(w) \in Conditions /\ Seen(w) \in Row /\ Grounded(jobs, On(w), Seen(w))
         /\ Seen(w).status = Submitting(sweep[w].kind) /\ sweep[w].kind \in Kinds
         /\ IsJob(jobs, On(w), Seen(w).attempts, sweep[w].kind)
         /\ jobs[On(w)][Seen(w).attempts].state = "unsent"
         /\ Seen(w).status \in InFlight \cap Active /\ Seen(w).status # "CONFIRMED"
         /\ \A v \in Sweepers \ {w} :
              ~(At(v, "submit") /\ On(v) = On(w) /\ Seen(v).attempts = Seen(w).attempts)
  <1>1. sweep[w].at # "idle" /\ sweep[w].at = "submit" /\ SubmitsOwn
    BY Zenon DEF At, RedeemInv
  <1>2. /\ On(w) \in Conditions /\ Seen(w) \in Row /\ Grounded(jobs, On(w), Seen(w))
        /\ Seen(w).status = Submitting(sweep[w].kind) /\ sweep[w].kind \in Kinds
    BY <1>1, InHand, TaskFields, Zenon DEF TaskOK, On, Seen
  <1>3. /\ Seen(w).status \in InFlight \cap Active /\ Seen(w).status # "CONFIRMED"
        /\ sweep[w].kind = "APPROVAL" => Seen(w).status \in Approving
        /\ sweep[w].kind = "REDEEM" => Seen(w).status \in Redeeming
    BY <1>2 DEF Submitting, InFlight, Active, Approving, Redeeming
  <1>4. IsJob(jobs, On(w), Seen(w).attempts, sweep[w].kind)
    BY <1>2, <1>3, Zenon DEF Grounded, Kinds
  <1> QED
    BY <1>1, <1>2, <1>3, <1>4, Zenon DEF SubmitsOwn

LEMMA AcceptKeeps ==
  ASSUME RedeemInv, NEW w \in Sweepers, At(w, "submit"), Accept(w), NEW t \in Tasks, Goto(w, t),
         TaskOK(row, jobs, sound, t), t.at # "submit", UNCHANGED <<store, approved, faults>>
  PROVE  RedeemInv'
  <1> DEFINE c == On(w)
             k == Seen(w).attempts
             j == [jobs[c][k] EXCEPT !.state = "pending"]
  <1>1. /\ TypeOK /\ jobs \in [Conditions -> Seq(JobSet)] /\ approved \in [Wallets -> BOOLEAN]
        /\ faults \in 0..MaxFaults
    BY Typed, Zenon DEF RedeemInv
  <1>2. /\ c \in Conditions /\ k \in 1..Len(jobs[c]) /\ jobs[c][k].state = "unsent"
        /\ \A v \in Sweepers \ {w} : ~(At(v, "submit") /\ On(v) = c /\ Seen(v).attempts = k)
    BY Submits, Zenon DEF IsJob
  <1>3. jobs[c][k] \in JobSet
    BY <1>1, <1>2
  <1>4. j \in JobSet /\ j.kind = jobs[c][k].kind
    BY <1>3, Zenon DEF JobSet, States
  <1>5. jobs' = [jobs EXCEPT ![c] = [jobs[c] EXCEPT ![k] = j]]
    BY Zenon DEF Accept
  <1>6. /\ sweep' \in [Sweepers -> Tasks] /\ sweep'[w] = t
        /\ \A v \in Sweepers \ {w} : sweep'[v] = sweep[v]
    BY <1>1, Takes, Zenon
  <1>7. UNCHANGED <<row, failures, sound, booked>> /\ approved' = approved /\ faults' = faults
    BY Zenon DEF store
  <1> HIDE DEF c, k, j
  <1>8. \A v \in Sweepers :
           \/ sweep'[v] = sweep[v] /\ ~(At(v, "submit") /\ On(v) = c /\ Seen(v).attempts = k)
           \/ TaskOK(row, jobs, sound, sweep'[v]) /\ sweep'[v].at # "submit"
    BY <1>2, <1>6, Zenon
  <1>9. jobs[c][k].state # "final"
    BY <1>2, Zenon
  <1> QED
    BY <1>1, <1>2, <1>4, <1>5, <1>6, <1>7, <1>8, <1>9, JobStep, ZenonT(30)

LEMMA SubmitAcceptedKeeps ==
  ASSUME RedeemInv, NEW w \in Sweepers, SubmitAccepted(w)
  PROVE  RedeemInv'
  <1>1. At(w, "submit") /\ Accept(w) /\ UNCHANGED <<store, approved, faults>>
    BY Zenon DEF SubmitAccepted
  <1>2. PICK hash \in {0, Seen(w).attempts} : Writes(w, Submitted(sweep[w].kind), hash, 0, "none")
    BY Zenon DEF SubmitAccepted
  <1>3. PICK t : t = [at |-> "write", on |-> On(w), seen |-> Seen(w), to |-> Submitted(sweep[w].kind),
                      hash |-> hash, payout |-> 0, why |-> "none"]
    BY Zenon
  <1>4. /\ On(w) \in Conditions /\ Seen(w) \in Row /\ Grounded(jobs, On(w), Seen(w))
        /\ Seen(w).status = Submitting(sweep[w].kind) /\ sweep[w].kind \in Kinds
        /\ IsJob(jobs, On(w), Seen(w).attempts, sweep[w].kind)
        /\ Seen(w).status \in Active /\ Seen(w).status # "CONFIRMED"
    BY <1>1, Submits, Zenon
  <1>5. hash \in Nat
    BY <1>4, RowFields
  <1>6. /\ Submitted(sweep[w].kind) \in Active \cup Closed /\ "none" \in Reasons
        /\ Submitted(sweep[w].kind) \in Targets /\ Submitted(sweep[w].kind) # "CONFIRMED"
        /\ Submitted(sweep[w].kind) = "REDEEM_SUBMITTED" =>
             sweep[w].kind = "REDEEM" /\ Seen(w).status = "REDEEM_SUBMITTING"
        /\ Submitted(sweep[w].kind) = "APPROVAL_SUBMITTED" => Seen(w).status = "APPROVAL_SUBMITTING"
    BY <1>4 DEF Active, InFlight, Closed, Reasons, Targets, Submitted, Submitting, Kinds
  <1>7. t \in Tasks
    BY <1>3, <1>4, <1>5, <1>6, TaskBuilds, ZenonT(30)
  <1>8. /\ t.at = "write" /\ t.on = On(w) /\ t.seen = Seen(w) /\ t.to = Submitted(sweep[w].kind)
        /\ t.hash = hash
    BY <1>3
  <1>9. WriteOK(jobs, t)
    BY <1>4, <1>6, <1>8, ZenonT(30) DEF WriteOK
  <1>10. TaskOK(row, jobs, sound, t) /\ t.at # "submit"
    BY <1>4, <1>8, <1>9 DEF TaskOK, ConfirmedOK
  <1>11. Goto(w, t)
    BY <1>2, <1>3, Zenon DEF Writes
  <1> QED
    BY <1>1, <1>7, <1>10, <1>11, AcceptKeeps, ZenonT(30)

LEMMA SubmitAmbiguousKeeps ==
  ASSUME RedeemInv, NEW w \in Sweepers, SubmitAmbiguous(w)
  PROVE  RedeemInv'
  <1>1. At(w, "submit") /\ UNCHANGED <<store, approved, faults>> /\ (Accept(w) \/ UNCHANGED jobs)
    BY Zenon DEF SubmitAmbiguous
  <1>2. PICK t : t = [at |-> "ambiguous", on |-> On(w), seen |-> Seen(w)]
    BY Zenon
  <1>3. /\ On(w) \in Conditions /\ Seen(w) \in Row /\ Grounded(jobs, On(w), Seen(w))
        /\ Seen(w).status \in InFlight /\ Seen(w).status \in Active /\ Seen(w).status # "CONFIRMED"
    BY <1>1, Submits, Zenon
  <1>4. t \in Tasks
    BY <1>2, <1>3, TaskBuilds, ZenonT(30)
  <1>5. TaskOK(row, jobs, sound, t) /\ t.at # "submit"
    BY <1>2, <1>3 DEF TaskOK, ConfirmedOK
  <1>6. Goto(w, t)
    BY <1>2, Zenon DEF SubmitAmbiguous
  <1>7. CASE Accept(w)
    BY <1>1, <1>4, <1>5, <1>6, <1>7, AcceptKeeps, ZenonT(30)
  <1>8. CASE UNCHANGED jobs
    BY <1>1, <1>4, <1>5, <1>6, <1>8, Quiet, TaskStep, ZenonT(30) DEF store, chain
  <1> QED
    BY <1>1, <1>7, <1>8, Zenon

\* The chain moves a job that was sent.
LEMMA ChainStep ==
  ASSUME RedeemInv, NEW c \in Conditions, NEW k \in 1..Len(jobs[c]), NEW j \in JobSet,
         jobs[c][k].state # "unsent",
         j.kind = jobs[c][k].kind, jobs[c][k].state # "final" \/ (j.state = "final" /\ j.paid = jobs[c][k].paid),
         jobs' = [jobs EXCEPT ![c] = [jobs[c] EXCEPT ![k] = j]],
         UNCHANGED <<store, sweep, faults>>, approved' \in [Wallets -> BOOLEAN]
  PROVE  RedeemInv'
  <1>1. sweep \in [Sweepers -> Tasks] /\ faults \in 0..MaxFaults /\ SubmitsOwn
    BY Typed, Zenon DEF RedeemInv
  <1>2. \A v \in Sweepers : sweep'[v] = sweep[v] /\ ~(At(v, "submit") /\ On(v) = c /\ Seen(v).attempts = k)
    BY <1>1, Zenon DEF SubmitsOwn
  <1>3. UNCHANGED <<row, failures, sound, booked>> /\ sweep' = sweep /\ faults' = faults
    BY Zenon DEF store
  <1> QED
    BY <1>1, <1>2, <1>3, JobStep, Zenon

LEMMA MineKeeps ==
  ASSUME RedeemInv, NEW c \in Conditions, NEW k \in 1..Len(jobs[c]), Mine(c, k)
  PROVE  RedeemInv'
  <1>1. /\ TypeOK /\ jobs \in [Conditions -> Seq(JobSet)] /\ approved \in [Wallets -> BOOLEAN]
        /\ row \in [Conditions -> Row]
    BY Typed, Zenon DEF RedeemInv
  <1>2. jobs[c][k] \in JobSet /\ row[c].attempts \in Nat /\ row[c].attempts + 1 \in Nat
    BY <1>1, RowFields
  <1>3. PICK era \in {row[c].attempts} \cup {row[c].attempts + 1 : s \in {row[c].status} \cap {"READY"}},
             paid \in {0, Due[c]} :
             jobs' = [jobs EXCEPT ![c][k].state = "mined", ![c][k].era = era, ![c][k].paid = paid]
    BY Zenon DEF Mine
  <1>4. era \in Nat /\ paid \in Nat
    BY <1>2, Constants
  <1> DEFINE j == [jobs[c][k] EXCEPT !.state = "mined", !.era = era, !.paid = paid]
  <1>5. j \in JobSet /\ j.kind = jobs[c][k].kind
    BY <1>2, <1>4, Zenon DEF JobSet, States
  <1>6. jobs' = [jobs EXCEPT ![c] = [jobs[c] EXCEPT ![k] = j]]
    BY <1>1, <1>2, <1>3, ZenonT(30)
  <1>7. jobs[c][k].state # "unsent" /\ jobs[c][k].state # "final"
    BY Zenon DEF Mine, Executable
  <1>8. approved' \in [Wallets -> BOOLEAN] /\ UNCHANGED <<store, sweep, faults>>
    BY <1>1, Zenon DEF Mine
  <1> HIDE DEF j
  <1> QED
    BY <1>5, <1>6, <1>7, <1>8, ChainStep, ZenonT(30)

LEMMA SentKeeps ==
  ASSUME RedeemInv, NEW c \in Conditions, NEW k \in 1..Len(jobs[c]),
         Finalize(c, k) \/ ListActivity(c, k) \/ FailJob(c, k)
  PROVE  RedeemInv'
  <1>1. jobs \in [Conditions -> Seq(JobSet)] /\ approved \in [Wallets -> BOOLEAN]
    BY Typed, Zenon DEF RedeemInv
  <1>2. jobs[c][k] \in JobSet
    BY <1>1
  <1>3. ASSUME NEW j \in JobSet, jobs' = [jobs EXCEPT ![c] = [jobs[c] EXCEPT ![k] = j]],
               j.kind = jobs[c][k].kind, jobs[c][k].state # "unsent",
               jobs[c][k].state # "final" \/ (j.state = "final" /\ j.paid = jobs[c][k].paid),
               UNCHANGED <<store, approved, sweep, faults>>
        PROVE  RedeemInv'
    BY <1>1, <1>3, ChainStep, ZenonT(30)
  <1>4. CASE Finalize(c, k)
    <2> DEFINE j == [jobs[c][k] EXCEPT !.state = "final"]
    <2>1. j \in JobSet /\ j.kind = jobs[c][k].kind
      BY <1>2, Zenon DEF JobSet, States
    <2>2. jobs' = [jobs EXCEPT ![c] = [jobs[c] EXCEPT ![k] = j]] /\ UNCHANGED <<store, approved, sweep, faults>>
      BY <1>4, Zenon DEF Finalize
    <2>3. jobs[c][k].state # "unsent" /\ jobs[c][k].state # "final"
      BY <1>4, Zenon DEF Finalize
    <2> HIDE DEF j
    <2> QED
      BY <1>3, <2>1, <2>2, <2>3, ZenonT(30)
  <1>5. CASE ListActivity(c, k)
    <2> DEFINE j == [jobs[c][k] EXCEPT !.listed = TRUE]
    <2>1. j \in JobSet /\ j.kind = jobs[c][k].kind /\ j.state = jobs[c][k].state /\ j.paid = jobs[c][k].paid
      BY <1>2, Zenon DEF JobSet
    <2>2. jobs' = [jobs EXCEPT ![c] = [jobs[c] EXCEPT ![k] = j]] /\ UNCHANGED <<store, approved, sweep, faults>>
      BY <1>5, Zenon DEF ListActivity
    <2>3. jobs[c][k].state # "unsent"
      BY <1>5, ZenonT(30) DEF ListActivity, Executed
    <2> HIDE DEF j
    <2> QED
      BY <1>3, <2>1, <2>2, <2>3, ZenonT(30)
  <1>6. CASE FailJob(c, k)
    <2> DEFINE j == [jobs[c][k] EXCEPT !.state = "failed"]
    <2>1. j \in JobSet /\ j.kind = jobs[c][k].kind
      BY <1>2, Zenon DEF JobSet, States
    <2>2. jobs' = [jobs EXCEPT ![c] = [jobs[c] EXCEPT ![k] = j]] /\ UNCHANGED <<store, approved, sweep, faults>>
      BY <1>6, Zenon DEF FailJob
    <2>3. jobs[c][k].state # "unsent" /\ jobs[c][k].state # "final"
      BY <1>6, Zenon DEF FailJob
    <2> HIDE DEF j
    <2> QED
      BY <1>3, <2>1, <2>2, <2>3, Zenon
  <1> QED
    BY <1>4, <1>5, <1>6, ZenonT(30)


-----------------------------------------------------------------------------
(* Rows.                                                                   *)

LEMMA BookedStands ==
  ASSUME RedeemInv, UNCHANGED <<jobs, booked>>,
         \A c \in Conditions : row'[c].status = "APPLIED" <=> row[c].status = "APPLIED"
  PROVE  BookedMatchesChain' /\ booked' \in [Conditions -> Seq(Nat)]
  <1>1. /\ TypeOK /\ BookedMatchesChain /\ jobs \in [Conditions -> Seq(JobSet)]
        /\ booked \in [Conditions -> Seq(Nat)]
    BY Typed, Zenon DEF RedeemInv
  <1>2. JobsKeep(jobs, jobs')
    BY <1>1, Same, Zenon
  <1> QED
    BY <1>1, <1>2, BookedKept, Zenon

\* A step that rewrites one row and leaves the payouts alone.
LEMMA RowWrite ==
  ASSUME RedeemInv, NEW c \in Conditions, NEW r \in Row, r.attempts = row[c].attempts,
         row' = [row EXCEPT ![c] = r], Grounded(jobs, c, r), r.status \in InFlight => row[c].status \in InFlight,
         row[c].status \notin Closed, r.status # "APPLIED",
         row[c].status = "CONFIRMED" =>
           r.status \in Closed \/ (r.status = "CONFIRMED" /\ r.payout = row[c].payout),
         UNCHANGED <<failures, jobs, approved, sound, booked, faults>>, sweep' \in [Sweepers -> Tasks],
         \A v \in Sweepers : \/ sweep'[v] = sweep[v]
                             \/ TaskOK(row', jobs, sound, sweep'[v]) /\ sweep'[v].at # "submit"
  PROVE  RedeemInv'
  <1>1. row \in [Conditions -> Row]
    BY Typed, Zenon DEF RedeemInv
  <1>2. \A d \in Conditions : row'[d].status = "APPLIED" <=> row[d].status = "APPLIED"
    BY <1>1, Zenon DEF Closed
  <1>3. BookedMatchesChain' /\ booked' \in [Conditions -> Seq(Nat)]
    BY <1>2, BookedStands, Zenon
  <1> QED
    BY <1>3, RowStep, Zenon

LEMMA StoredRow ==
  ASSUME NEW r \in Row, NEW p \in Tasks, p.at = "write", p.to \in Targets
  PROVE  /\ Stored(r, p) \in Row /\ Stored(r, p).status = p.to /\ Stored(r, p).attempts = r.attempts
         /\ p.to # "MANUAL_REVIEW" => Stored(r, p).hash = p.hash /\ Stored(r, p).payout = p.payout
  <1>1. p.hash \in Nat /\ p.payout \in Nat /\ p.why \in Reasons
    BY TaskFields
  <1>2. p.to \in Active \cup Closed \cup {"NONE"}
    BY DEF Targets, Active, InFlight, Closed
  <1>3. CASE p.to = "MANUAL_REVIEW"
    <2>1. Stored(r, p) = [r EXCEPT !.status = p.to, !.why = p.why]
      BY <1>3, Zenon DEF Stored
    <2> QED
      BY <1>1, <1>2, <1>3, <2>1, Zenon DEF Row
  <1>4. CASE p.to # "MANUAL_REVIEW"
    <2>1. PICK b \in BOOLEAN : b = ((p.to = "READY") \/ r.waited)
      BY Zenon
    <2>2. Stored(r, p) = [r EXCEPT !.status = p.to, !.hash = p.hash, !.payout = p.payout, !.why = p.why,
                                   !.waited = b]
      BY <1>4, <2>1, Zenon DEF Stored
    <2> QED
      BY <1>1, <1>2, <1>4, <2>1, <2>2, ZenonT(30) DEF Row
  <1> QED
    BY <1>3, <1>4, Zenon

LEMMA WriteKeeps ==
  ASSUME RedeemInv, NEW w \in Sweepers, Write(w)
  PROVE  RedeemInv'
  <1> DEFINE c == On(w)
             p == sweep[w]
             r == Stored(row[c], p)
  <1>1. sweep[w].at = "write" /\ sweep[w].at # "idle" /\ Goto(w, Idle)
    BY Zenon DEF Write, At
  <1>2. /\ c \in Conditions /\ p \in Tasks /\ WriteOK(jobs, p) /\ ConfirmedOK(row, sound, p)
        /\ Seen(w).status \in Active /\ p.on = c /\ p.seen = Seen(w)
    BY <1>1, InHand, Zenon DEF TaskOK, On, Seen
  <1>3. /\ TypeOK /\ row \in [Conditions -> Row] /\ RowsGrounded
        /\ failures \in [Conditions -> Nat] /\ faults \in 0..MaxFaults
    BY Typed, Zenon DEF RedeemInv
  <1>4. UNCHANGED <<failures, jobs, approved, sound, booked, faults>>
    BY Zenon DEF Write, chain
  <1>5. CASE row' = row
    BY <1>1, <1>3, <1>4, <1>5, Decides, Zenon
  <1>6. ASSUME row[c].status = Seen(w).status, row' = [row EXCEPT ![c] = r] PROVE RedeemInv'
    <2>1. /\ r \in Row /\ r.status = p.to /\ r.attempts = row[c].attempts
          /\ p.to # "MANUAL_REVIEW" => r.hash = p.hash /\ r.payout = p.payout
      BY <1>1, <1>2, <1>3, StoredRow, Zenon DEF WriteOK
    <2>2. Grounded(jobs, c, row[c]) /\ row[c] \in Row
      BY <1>2, <1>3, Zenon DEF RowsGrounded
    <2> HIDE DEF r, p
    <2>3. Grounded(jobs, c, r)
      <3>1. p.to \in Targets
        BY <1>2, Zenon DEF WriteOK
      <3>2. p.to = "CONFIRMED" => Paid(jobs, c, p.hash, p.payout)
        BY <1>2, Zenon DEF WriteOK
      <3>3. p.to = "REDEEM_SUBMITTED" =>
              /\ IsJob(jobs, c, row[c].attempts, "REDEEM")
              /\ p.hash # 0 => IsJob(jobs, c, p.hash, "REDEEM")
        BY <1>2, <1>6, <2>2, Zenon DEF WriteOK, Grounded, Redeeming
      <3>4. p.to = "APPROVAL_SUBMITTED" => IsJob(jobs, c, row[c].attempts, "APPROVAL")
        BY <1>2, <1>6, <2>2, Zenon DEF WriteOK, Grounded, Approving
      <3>5. r.attempts <= Len(jobs[c])
        BY <2>1, <2>2, Zenon DEF Grounded
      <3>6. r.status \in Approving => p.to = "APPROVAL_SUBMITTED"
        BY <2>1, <3>1 DEF Targets, Approving
      <3>7. r.status \in Redeeming => p.to = "REDEEM_SUBMITTED"
        BY <2>1, <3>1 DEF Targets, Redeeming
      <3> QED
        BY <2>1, <3>2, <3>3, <3>4, <3>5, <3>6, <3>7, ZenonT(30) DEF Grounded
    <2>4. r.status \in InFlight => row[c].status \in InFlight
      BY <1>2, <1>6, <2>1, Zenon DEF WriteOK, Targets, InFlight
    <2>5. row[c].status \notin Closed /\ r.status # "APPLIED"
      BY <1>2, <1>6, <2>1, ZenonT(30) DEF WriteOK, Targets, Closed, Active, InFlight
    <2>6. row[c].status = "CONFIRMED" => r.status \in Closed
      BY <1>1, <1>2, <1>6, <2>1, ZenonT(30) DEF ConfirmedOK, Closed, p
    <2>7. /\ sweep' \in [Sweepers -> Tasks]
          /\ \A v \in Sweepers : \/ sweep'[v] = sweep[v]
                                 \/ TaskOK(row', jobs, sound, sweep'[v]) /\ sweep'[v].at # "submit"
      BY <1>1, <1>3, Takes, IdleOK, ZenonT(30)
    <2> HIDE DEF c
    <2> QED
      BY <1>2, <1>4, <1>6, <2>1, <2>3, <2>4, <2>5, <2>6, <2>7, RowWrite, ZenonT(30)
  <1>7. row' = row \/ (row[c].status = Seen(w).status /\ row' = [row EXCEPT ![c] = r])
    BY Zenon DEF Write, Seen
  <1> QED
    BY <1>5, <1>6, <1>7, Zenon

LEMMA ProcessRedeemKeeps ==
  ASSUME RedeemInv, NEW w \in Sweepers, ProcessRedeem(w)
  PROVE  RedeemInv'
  <1> DEFINE c == On(w)
             a == Seen(w).attempts
             known == Seen(w).hash
             records == row[c].status = "REDEEM_SUBMITTED" /\ row[c].hash \in {0, a}
             receipt(h) == [at |-> "receipt", on |-> c, seen |-> Seen(w), hash |-> h]
  <1>1. sweep[w].at # "idle" /\ Seen(w).status = "REDEEM_SUBMITTED"
    BY Zenon DEF ProcessRedeem, At
  <1>2. c \in Conditions /\ Seen(w) \in Row /\ Grounded(jobs, c, Seen(w))
    BY <1>1, InHand, Zenon
  <1>3. /\ TypeOK /\ row \in [Conditions -> Row] /\ RowsGrounded
        /\ failures \in [Conditions -> Nat] /\ faults \in 0..MaxFaults
    BY Typed, Zenon DEF RedeemInv
  <1>4. UNCHANGED <<failures, jobs, approved, sound, booked, faults>>
    BY Zenon DEF ProcessRedeem, chain
  <1>5. /\ a \in Nat /\ known \in Nat /\ IsJob(jobs, c, a, "REDEEM")
        /\ known # 0 => IsJob(jobs, c, known, "REDEEM")
        /\ Seen(w).status \in Redeeming /\ Seen(w).status # "CONFIRMED"
    BY <1>1, <1>2, RowFields, Zenon DEF Grounded, Redeeming
  <1>6. \/ row' = row /\ (PendingOrReview(w) \/ Review(w, "evidence"))
        \/ row' = row /\ Retry(w)
        \/ \E h \in {a, known} : row' = row /\ h # 0 /\ Goto(w, receipt(h))
        \/ records /\ row' = [row EXCEPT ![c].hash = a] /\ Goto(w, receipt(a))
    BY Zenon DEF ProcessRedeem
  <1>7. CASE row' = row /\ (PendingOrReview(w) \/ Review(w, "evidence"))
    BY <1>1, <1>3, <1>4, <1>5, <1>7, WaitKeeps, ZenonT(30)
  <1>8. CASE row' = row /\ Retry(w)
    BY <1>1, <1>3, <1>4, <1>8, Decides, Zenon DEF Retry
  <1>9. ASSUME NEW h \in {a, known}, row' = row, h # 0, Goto(w, receipt(h)) PROVE RedeemInv'
    BY <1>1, <1>3, <1>4, <1>5, <1>9, Decides, ZenonT(30)
  <1>10. ASSUME records, row' = [row EXCEPT ![c].hash = a], Goto(w, receipt(a)) PROVE RedeemInv'
    <2> DEFINE r == [row[c] EXCEPT !.hash = a]
    <2>1. row[c] \in Row /\ Grounded(jobs, c, row[c])
      BY <1>2, <1>3, Zenon DEF RowsGrounded
    <2>2. /\ r \in Row /\ r.status = row[c].status /\ r.attempts = row[c].attempts /\ r.hash = a
      BY <1>5, <2>1, Zenon DEF Row
    <2>3. row' = [row EXCEPT ![c] = r]
      BY <1>10, Zenon
    <2> HIDE DEF r
    <2>4. r.status = "REDEEM_SUBMITTED" /\ row[c].status = "REDEEM_SUBMITTED"
      BY <1>10, <2>2, ZenonT(30)
    <2>5. Grounded(jobs, c, r)
      BY <1>5, <2>1, <2>2, <2>4 DEF Grounded, Approving, Redeeming
    <2>6. PICK t : t = receipt(a)
      BY Zenon
    <2>7. t \in Tasks /\ TaskOK(row', jobs, sound, t) /\ t.at # "submit"
      BY <1>2, <1>5, <2>6, ReceiptTask, Zenon
    <2>8. Goto(w, t)
      BY <1>10, <2>6, Zenon
    <2>9. /\ sweep' \in [Sweepers -> Tasks]
          /\ \A v \in Sweepers : \/ sweep'[v] = sweep[v]
                                 \/ TaskOK(row', jobs, sound, sweep'[v]) /\ sweep'[v].at # "submit"
      BY <1>3, <2>7, <2>8, Takes, ZenonT(30)
    <2>10. /\ r.status \in InFlight => row[c].status \in InFlight
           /\ row[c].status \notin Closed /\ r.status # "APPLIED" /\ row[c].status # "CONFIRMED"
      BY <2>4 DEF Closed
    <2> HIDE DEF c
    <2> QED
      BY <1>2, <1>4, <2>2, <2>3, <2>5, <2>9, <2>10, RowWrite, ZenonT(30)
  <1> QED
    BY <1>6, <1>7, <1>8, <1>9, <1>10, Zenon

LEMMA ApplyKeeps ==
  ASSUME RedeemInv, NEW w \in Sweepers, ApplyRedemption(w)
  PROVE  RedeemInv'
  <1> DEFINE c == On(w)
             r == [row[c] EXCEPT !.status = "APPLIED"]
  <1>1. /\ sweep[w].at # "idle" /\ row[c].status = "CONFIRMED" /\ Bookable(c) /\ Goto(w, Idle)
        /\ row' = [row EXCEPT ![c] = r] /\ booked' = [booked EXCEPT ![c] = Append(booked[c], row[c].payout)]
        /\ UNCHANGED <<failures, jobs, approved, sound, faults>>
    BY Zenon DEF ApplyRedemption, At, chain
  <1>2. c \in Conditions
    BY <1>1, InHand, Zenon
  <1>3. /\ TypeOK /\ row \in [Conditions -> Row] /\ RowsGrounded /\ BookedMatchesChain
        /\ booked \in [Conditions -> Seq(Nat)]
    BY Typed, Zenon DEF RedeemInv
  <1>4. row[c] \in Row /\ Grounded(jobs, c, row[c])
    BY <1>2, <1>3, Zenon DEF RowsGrounded
  <1>5. r \in Row /\ r.status = "APPLIED" /\ r.attempts = row[c].attempts
    BY <1>4, ZenonT(30) DEF Row, Closed
  <1> HIDE DEF r
  <1>6. Grounded(jobs, c, r)
    BY <1>4, <1>5, SMTT(30) DEF Grounded, Approving, Redeeming
  <1>7. booked[c] = << >> /\ row[c].payout = Due[c] /\ row[c].payout \in Nat
    BY <1>1, <1>2, <1>3, <1>4, RowFields, SMTT(30) DEF BookedMatchesChain, Bookable
  <1>8. Append(booked[c], row[c].payout) = <<Due[c]>> /\ <<Due[c]>> \in Seq(Nat)
    BY <1>7
  <1>9. booked' \in [Conditions -> Seq(Nat)] /\ booked'[c] = <<Due[c]>>
        /\ \A d \in Conditions : d # c => booked'[d] = booked[d]
    BY <1>1, <1>2, <1>3, <1>8, ZenonT(30)
  <1>10. row'[c].status = "APPLIED" /\ \A d \in Conditions : d # c => row'[d] = row[d]
    BY <1>1, <1>2, <1>3, <1>5, ZenonT(30)
  <1>11. \E k \in 1..Len(jobs[c]) :
            jobs[c][k].kind = "REDEEM" /\ jobs[c][k].state = "final" /\ jobs[c][k].paid = Due[c]
    BY <1>1, <1>4, <1>7, ZenonT(30) DEF Grounded, Paid, IsJob
  <1>12. BookedMatchesChain'
    <2>1. jobs' = jobs
      BY <1>1, Zenon
    <2> SUFFICES ASSUME NEW d \in Conditions
                 PROVE  /\ row'[d].status # "APPLIED" => booked'[d] = << >>
                        /\ row'[d].status = "APPLIED" =>
                             /\ booked'[d] = <<Due[d]>>
                             /\ \E k \in 1..Len(jobs[d]) :
                                  /\ jobs[d][k].kind = "REDEEM" /\ jobs[d][k].state = "final"
                                  /\ jobs[d][k].paid = Due[d]
      BY <2>1, Zenon DEF BookedMatchesChain
    <2>2. CASE d = c
      BY <1>9, <1>10, <1>11, <2>2, ZenonT(30)
    <2>3. CASE d # c
      BY <1>3, <1>9, <1>10, <2>3, ZenonT(30) DEF BookedMatchesChain
    <2> QED
      BY <2>2, <2>3, Zenon
  <1>13. /\ sweep' \in [Sweepers -> Tasks]
         /\ \A v \in Sweepers : \/ sweep'[v] = sweep[v]
                                \/ TaskOK(row', jobs, sound, sweep'[v]) /\ sweep'[v].at # "submit"
    BY <1>1, <1>3, Takes, IdleOK, ZenonT(30)
  <1>14. r.status \notin InFlight /\ r.status \in Closed /\ row[c].status \notin Closed
    BY <1>1, <1>5 DEF InFlight, Closed
  <1> HIDE DEF c
  <1> QED
    BY <1>1, <1>2, <1>5, <1>6, <1>9, <1>12, <1>13, <1>14, RowStep, ZenonT(30)

LEMMA RestKeeps ==
  ASSUME RedeemInv, NEW c \in Conditions, Elapse(c) \/ Discover(c)
  PROVE  RedeemInv'
  <1>1. /\ TypeOK /\ row \in [Conditions -> Row] /\ sweep \in [Sweepers -> Tasks] /\ RowsGrounded
    BY Typed, Zenon DEF RedeemInv
  <1>2. row[c] \in Row /\ Grounded(jobs, c, row[c])
    BY <1>1, Zenon DEF RowsGrounded
  <1>3. UNCHANGED <<failures, jobs, approved, sound, booked, faults>> /\ sweep' = sweep
    BY Zenon DEF Elapse, Discover, chain
  <1>4. CASE Elapse(c)
    <2> DEFINE r == [row[c] EXCEPT !.waited = TRUE]
    <2>1. /\ r \in Row /\ r.status = row[c].status /\ r.attempts = row[c].attempts
          /\ r.hash = row[c].hash /\ r.payout = row[c].payout
      BY <1>2, Zenon DEF Row
    <2>2. row' = [row EXCEPT ![c] = r] /\ row[c].status \in InFlight
      BY <1>4, Zenon DEF Elapse
    <2> HIDE DEF r
    <2>3. Grounded(jobs, c, r)
      BY <1>2, <2>1, Zenon DEF Grounded
    <2>4. row[c].status \notin Closed /\ r.status # "APPLIED"
      BY <2>1, <2>2 DEF InFlight, Closed
    <2> QED
      BY <1>1, <1>3, <2>1, <2>2, <2>3, <2>4, RowWrite, ZenonT(30)
  <1>5. CASE Discover(c)
    <2>1. PICK s \in {"READY", "MANUAL_REVIEW"}, why \in {"none", "evidence"} :
             row' = [row EXCEPT ![c].status = s, ![c].why = why]
      BY <1>5, Zenon DEF Discover
    <2> DEFINE r == [row[c] EXCEPT !.status = s, !.why = why]
    <2>2. s \in Active \cup Closed \cup {"NONE"} /\ why \in Reasons /\ s \notin InFlight /\ s # "APPLIED"
      BY DEF Active, Closed, Reasons, InFlight
    <2>3. r \in Row /\ r.status = s /\ r.attempts = row[c].attempts
      BY <1>2, <2>2, Zenon DEF Row
    <2>4. row' = [row EXCEPT ![c] = r]
      BY <2>1, Zenon
    <2> HIDE DEF r
    <2>5. Grounded(jobs, c, r)
      BY <1>2, <2>3 DEF Grounded, Approving, Redeeming
    <2>6. row[c].status \notin Closed /\ row[c].status # "CONFIRMED"
      BY <1>5, Zenon DEF Discover, Closed
    <2> QED
      BY <1>1, <1>3, <2>2, <2>3, <2>4, <2>5, <2>6, RowWrite, ZenonT(30)
  <1> QED
    BY <1>4, <1>5, Zenon


LEMMA BeginKeeps ==
  ASSUME RedeemInv, NEW w \in Sweepers, Begin(w)
  PROVE  RedeemInv'
  <1> DEFINE c == On(w)
             kind == sweep[w].kind
  <1>1. /\ sweep[w].at # "idle" /\ sweep[w].at = "begin" /\ ~WalletBusy(c) /\ row[c].status = "READY"
        /\ Intend(c, kind) /\ UNCHANGED <<failures, approved, sound, booked, faults>>
    BY Zenon DEF Begin, At, Beginnable
  <1>2. c \in Conditions /\ kind \in Kinds
    BY <1>1, InHand, TaskFields, Zenon
  <1>3. TypeOK /\ faults \in 0..MaxFaults
    BY Typed, Zenon DEF RedeemInv
  <1>4. PICK t : t = [at |-> "submit", on |-> c, seen |-> row'[c], kind |-> kind]
    BY Zenon
  <1>5. Goto(w, t)
    BY <1>4, Zenon DEF Begin
  <1>6. /\ row'[c] \in Row /\ Grounded(jobs', c, row'[c]) /\ row'[c].status = Submitting(kind)
        /\ row'[c].status \in InFlight
    BY <1>1, <1>2, <1>3, IntentWrites, IntentGrounds, ZenonT(30)
  <1>7. t \in Tasks
    BY <1>2, <1>4, <1>6, TaskBuilds, ZenonT(30)
  <1> HIDE DEF c, kind
  <1>8. t.at = "submit" /\ t.on = c /\ t.seen = row'[c] /\ t.kind = kind
    BY <1>4
  <1>9. row'[c].status \in Active /\ row'[c].status # "CONFIRMED"
    BY <1>6 DEF InFlight, Active
  <1>10. TaskOK(row', jobs', sound, t)
    BY <1>6, <1>8, <1>9 DEF TaskOK, ConfirmedOK
  <1> QED
    BY <1>1, <1>2, <1>3, <1>5, <1>7, <1>8, <1>10, IntentStep, ZenonT(30)

LEMMA BeginFailsKeeps ==
  ASSUME RedeemInv, NEW w \in Sweepers, BeginFails(w)
  PROVE  RedeemInv'
  <1> DEFINE c == On(w)
             kind == sweep[w].kind
  <1>1. /\ sweep[w].at # "idle" /\ sweep[w].at = "begin" /\ Fault /\ Review(w, "store")
        /\ UNCHANGED <<failures, approved, sound, booked>>
        /\ \/ UNCHANGED <<row, jobs>>
           \/ ~WalletBusy(c) /\ row[c].status = "READY" /\ Intend(c, kind)
    BY Zenon DEF BeginFails, At, Beginnable
  <1>2. /\ c \in Conditions /\ kind \in Kinds /\ Seen(w) \in Row /\ Grounded(jobs, c, Seen(w))
        /\ Seen(w).status = "READY"
    BY <1>1, InHand, TaskFields, Zenon DEF TaskOK, Seen
  <1>3. /\ TypeOK /\ faults \in 0..MaxFaults /\ failures \in [Conditions -> Nat]
        /\ jobs \in [Conditions -> Seq(JobSet)]
    BY Typed, Zenon DEF RedeemInv
  <1>4. faults' \in 0..MaxFaults
    BY <1>1, <1>3, Constants DEF Fault
  <1>5. "store" \in Reasons /\ Seen(w).status \in Active /\ Seen(w).status # "CONFIRMED"
    BY <1>2 DEF Reasons, Active
  <1>6. CASE UNCHANGED <<row, jobs>>
    BY <1>1, <1>3, <1>4, <1>5, <1>6, Decides, ZenonT(30)
  <1>7. CASE ~WalletBusy(c) /\ row[c].status = "READY" /\ Intend(c, kind)
    <2>1. PICK t : t = [at |-> "write", on |-> c, seen |-> Seen(w), to |-> "MANUAL_REVIEW", hash |-> 0,
                        payout |-> 0, why |-> "store"]
      BY Zenon
    <2>2. JobsKeep(jobs, jobs') /\ jobs' \in [Conditions -> Seq(JobSet)]
      BY <1>2, <1>3, <1>7, IntentGrounds, IntentWrites, ZenonT(30)
    <2>3. Grounded(jobs', c, Seen(w))
      BY <1>2, <1>3, <2>2, GroundKept, ZenonT(30)
    <2>4. t \in Tasks /\ TaskOK(row', jobs', sound, t) /\ t.at # "submit"
      BY <1>2, <1>5, <2>1, <2>3, WriteTask, ZenonT(30)
    <2>5. Goto(w, t)
      BY <1>1, <2>1, Zenon DEF Review, Writes
    <2> QED
      BY <1>1, <1>2, <1>4, <1>7, <2>4, <2>5, IntentStep, ZenonT(30)
  <1> QED
    BY <1>1, <1>6, <1>7, Zenon

LEMMA DisturbKeeps ==
  ASSUME RedeemInv, NEW c \in Conditions, Disturb(c)
  PROVE  RedeemInv'
  <1>1. /\ TypeOK /\ sound \in [Conditions -> BOOLEAN] /\ sweep \in [Sweepers -> Tasks] /\ SubmitsOwn
        /\ RowsGrounded /\ OneInFlightPerWallet /\ BookedMatchesChain
    BY Typed, Zenon DEF RedeemInv
  <1>2. /\ UNCHANGED <<row, failures, booked, jobs, approved, sweep, faults>>
        /\ sound' = [sound EXCEPT ![c] = FALSE]
    BY Zenon DEF Disturb, chain
  <1>3. sound' \in [Conditions -> BOOLEAN] /\ \A d \in Conditions : sound'[d] => sound[d]
    BY <1>1, <1>2, Zenon
  <1>4. TypeOK'
    BY <1>1, <1>2, <1>3, Zenon DEF TypeOK
  <1>5. RowsKeep(row, row', sound, sound')
    BY <1>2, <1>3, ZenonT(30) DEF RowsKeep
  <1>6. SubmitsOwn' /\ BookedMatchesChain'
    BY <1>1, <1>2 DEF SubmitsOwn, BookedMatchesChain, At, On, Seen
  <1>7. \A w \in Sweepers : sweep'[w] = sweep[w]
    BY <1>2, Zenon
  <1>8. JobsKeep(jobs, jobs') /\ RowsGrounded' /\ OneInFlightPerWallet'
    BY <1>1, <1>2, Same, Zenon
  <1> QED
    BY <1>4, <1>5, <1>6, <1>7, <1>8, Moved, ZenonT(30)

-----------------------------------------------------------------------------
(* The invariant, and what it says.                                        *)

LEMMA RedeemInitially == Init => RedeemInv
  <1> SUFFICES ASSUME Init PROVE RedeemInv
    OBVIOUS
  <1>1. NoRow \in Row
    BY DEF NoRow, Row, Active, Closed, InFlight, Reasons
  <1>2. /\ row \in [Conditions -> Row] /\ \A c \in Conditions : row[c] = NoRow
        /\ sweep \in [Sweepers -> Tasks] /\ \A w \in Sweepers : sweep[w] = Idle
    BY <1>1, IdleOK, Zenon DEF Init
  <1>3. NoRow.status = "NONE" /\ NoRow.attempts = 0
    BY DEF NoRow
  <1>4. /\ jobs \in [Conditions -> Seq(JobSet)] /\ booked \in [Conditions -> Seq(Nat)]
        /\ \A c \in Conditions : jobs[c] = << >> /\ Len(jobs[c]) = 0 /\ booked[c] = << >>
        /\ failures \in [Conditions -> Nat] /\ faults \in 0..MaxFaults
    BY Constants DEF Init
  <1>5. approved \in [Wallets -> BOOLEAN] /\ sound \in [Conditions -> BOOLEAN]
    BY Zenon DEF Init
  <1>6. \A c \in Conditions : row[c].attempts = Len(jobs[c])
    BY <1>2, <1>3, <1>4, ZenonT(30)
  <1>7. TypeOK
    BY <1>2, <1>4, <1>5, <1>6, Typed, ZenonT(30)
  <1>8. RowsGrounded
    BY <1>2, <1>3, <1>4 DEF RowsGrounded, Grounded, Approving, Redeeming
  <1>9. TasksOK
    BY <1>2, IdleOK, Zenon DEF TasksOK
  <1>10. SubmitsOwn
    BY <1>2, IdleOK, ZenonT(30) DEF SubmitsOwn, At
  <1>11. OneInFlightPerWallet /\ BookedMatchesChain
    BY <1>2, <1>3, <1>4 DEF OneInFlightPerWallet, BookedMatchesChain, InFlight
  <1> QED
    BY <1>7, <1>8, <1>9, <1>10, <1>11, ZenonT(30) DEF RedeemInv

LEMMA RedeemSteps == RedeemInv /\ [Next]_vars => RedeemInv'
  <1> SUFFICES ASSUME RedeemInv, [Next]_vars PROVE RedeemInv'
    OBVIOUS
  <1>1. ASSUME NEW w \in Sweepers, NEW c \in Conditions, ListDue(w, c) PROVE RedeemInv'
    BY <1>1, ListDueKeeps, Zenon
  <1>2. ASSUME NEW w \in Sweepers, Progress(w) PROVE RedeemInv'
    BY <1>2, ProcessReadyKeeps, BeginBusyKeeps, BeginKeeps, SubmitAcceptedKeeps, SubmitRefusedKeeps,
       SubmitAmbiguousKeeps, SubmitFailedKeeps, RecoverApprovalKeeps, RecoverRedeemKeeps,
       ProcessApprovalKeeps, ProcessRedeemKeeps, ConfirmReceiptKeeps, ApplyKeeps, WriteKeeps, ZenonT(30)
       DEF Progress
  <1>3. ASSUME NEW c \in Conditions, Chain(c) PROVE RedeemInv'
    BY <1>3, MineKeeps, SentKeeps, ZenonT(30) DEF Chain
  <1>4. ASSUME NEW c \in Conditions, Discover(c) \/ Elapse(c) PROVE RedeemInv'
    BY <1>4, RestKeeps, Zenon
  <1>5. ASSUME NEW w \in Sweepers,
               BeginRefused(w) \/ ApplyRefused(w) \/ BeginFails(w) \/ ReceiptUnread(w) \/ Lost(w)
        PROVE  RedeemInv'
    BY <1>5, BeginRefusedKeeps, ApplyRefusedKeeps, BeginFailsKeeps, ReceiptUnreadKeeps, LostKeeps, ZenonT(30)
  <1>6. ASSUME NEW c \in Conditions, Disturb(c) PROVE RedeemInv'
    BY <1>6, DisturbKeeps, ZenonT(30)
  <1>7. CASE UNCHANGED vars
    BY <1>7 DEF vars, RedeemInv, TypeOK, RowsGrounded, TasksOK, SubmitsOwn, OneInFlightPerWallet,
                BookedMatchesChain, At, On, Seen
  <1> QED
    BY <1>1, <1>2, <1>3, <1>4, <1>5, <1>6, <1>7, ZenonT(30) DEF Next, Undisturbed

LEMMA RedeemAlways == Spec => []RedeemInv
  BY RedeemInitially, RedeemSteps, PTL DEF Spec

\* However many sweeps run and wherever they crash, two redemptions of one wallet
\* are never between intent and confirmation together (BeginRedemptionSubmission).
THEOREM WalletsAreSerialized == Spec => []OneInFlightPerWallet
  <1>1. RedeemInv => OneInFlightPerWallet
    BY Zenon DEF RedeemInv
  <1> QED
    BY <1>1, RedeemAlways, PTL

\* Whatever is lost, repeated or delayed, the ledger is credited once and with
\* what a finalized transaction of the condition paid (confirmReceipt,
\* ApplyRedemption).
THEOREM PayoutsAreThoseOfTheChain == Spec => [](TypeOK /\ BookedMatchesChain)
  <1>1. RedeemInv => TypeOK /\ BookedMatchesChain
    BY Zenon DEF RedeemInv
  <1> QED
    BY <1>1, RedeemAlways, PTL

\* A confirmed redemption leaves CONFIRMED by being booked, or when its evidence
\* contradicts the ledger (applyConfirmed).
THEOREM ConfirmationsAreKept == Spec => ConfirmedIsNeverAbandoned
  <1> DEFINE Kept(c) == row[c].status = "CONFIRMED" /\ row'[c].status # "CONFIRMED"
                        => row'[c].status = "APPLIED" \/ ~Bookable(c)
  <1>1. ASSUME RedeemInv, [Next]_vars, NEW c \in Conditions PROVE Kept(c)
    <2> SUFFICES ASSUME row[c].status = "CONFIRMED", row'[c].status # "CONFIRMED", Bookable(c)
                 PROVE  row'[c].status = "APPLIED"
      BY Zenon
    <2>1. TypeOK /\ row \in [Conditions -> Row]
      BY <1>1, Typed, Zenon DEF RedeemInv
    <2>2. row' # row
      BY Zenon
    <2>3. ASSUME NEW w \in Sweepers, NEW d \in Conditions, ListDue(w, d) PROVE FALSE
      BY <2>2, <2>3, Zenon DEF ListDue, store
    <2>4. ASSUME NEW w \in Sweepers, Progress(w) PROVE row'[c].status = "APPLIED"
      <3>1. CASE Begin(w)
        <4>1. row[On(w)].status = "READY" /\ Intend(On(w), sweep[w].kind) /\ sweep[w].at = "begin"
          BY <3>1, Zenon DEF Begin, Beginnable, At
        <4>2. On(w) \in Conditions /\ sweep[w].kind \in Kinds
          BY <1>1, <4>1, InHand, TaskFields, ZenonT(30)
        <4>3. c # On(w)
          BY <4>1, Zenon
        <4> QED
          BY <2>1, <4>1, <4>2, <4>3, IntentWrites, ZenonT(30)
      <3>2. CASE ApplyRedemption(w)
        <4>1. /\ sweep[w].at # "idle" /\ row' = [row EXCEPT ![On(w)].status = "APPLIED"]
          BY <3>2, Zenon DEF ApplyRedemption, At
        <4>2. On(w) \in Conditions
          BY <1>1, <4>1, InHand, Zenon
        <4>3. CASE c # On(w)
          BY <2>1, <4>1, <4>2, <4>3, Zenon
        <4>4. CASE c = On(w)
          <5>1. row'[c] = [row[c] EXCEPT !.status = "APPLIED"] /\ row[c] \in Row
            BY <2>1, <4>1, <4>4, ZenonT(30)
          <5> QED
            BY <5>1, Zenon DEF Row
        <4> QED
          BY <4>3, <4>4, Zenon
      <3>3. CASE Write(w)
        <4>1. sweep[w].at = "write" /\ sweep[w].at # "idle"
          BY <3>3, Zenon DEF Write, At
        <4>2. On(w) \in Conditions /\ ConfirmedOK(row, sound, sweep[w])
          BY <1>1, <4>1, InHand, ZenonT(30)
        <4>3. /\ row[On(w)].status = sweep[w].seen.status
              /\ row' = [row EXCEPT ![On(w)] = Stored(row[On(w)], sweep[w])]
          BY <2>2, <3>3, Zenon DEF Write
        <4>4. c = On(w)
          BY <2>1, <4>3, Zenon
        <4> QED
          BY <4>1, <4>2, <4>3, <4>4, ZenonT(30) DEF ConfirmedOK, On, Bookable
      <3>4. CASE ProcessRedeem(w)
        <4>1. /\ sweep[w].at # "idle" /\ row[On(w)].status = "REDEEM_SUBMITTED"
              /\ \E hash : row' = [row EXCEPT ![On(w)].hash = hash]
          BY <2>2, <3>4, Zenon DEF ProcessRedeem, At
        <4>2. On(w) \in Conditions
          BY <1>1, <4>1, InHand, ZenonT(30)
        <4>3. c # On(w)
          BY <4>1, Zenon
        <4> QED
          BY <2>1, <4>1, <4>2, <4>3, Zenon
      <3>5. CASE \/ ProcessReady(w) \/ BeginBusy(w) \/ SubmitAccepted(w) \/ SubmitRefused(w)
                 \/ SubmitAmbiguous(w) \/ SubmitFailed(w) \/ RecoverApproval(w) \/ RecoverRedeem(w)
                 \/ ProcessApproval(w) \/ ConfirmReceipt(w)
        BY <2>2, <3>5, Zenon DEF ProcessReady, BeginBusy, SubmitAccepted, SubmitRefused, SubmitAmbiguous,
           SubmitFailed, RecoverApproval, RecoverRedeem, ProcessApproval, ConfirmReceipt, store
      <3> QED
        BY <2>4, <3>1, <3>2, <3>3, <3>4, <3>5, ZenonT(30) DEF Progress
    <2>5. ASSUME NEW d \in Conditions, Chain(d) PROVE FALSE
      BY <2>2, <2>5, Zenon DEF Chain, Mine, Finalize, ListActivity, FailJob, store
    <2>6. ASSUME NEW d \in Conditions, Discover(d) \/ Elapse(d) PROVE FALSE
      <3>1. row[d].status # "CONFIRMED"
        BY <2>6, Zenon DEF Discover, Elapse, InFlight
      <3>2. d # c
        BY <3>1, Zenon
      <3> QED
        BY <2>1, <2>6, <3>2, Zenon DEF Discover, Elapse
    <2>7. ASSUME NEW w \in Sweepers, BeginRefused(w) \/ ApplyRefused(w) \/ ReceiptUnread(w) \/ Lost(w)
          PROVE  FALSE
      BY <2>2, <2>7, Zenon DEF BeginRefused, ApplyRefused, ReceiptUnread, Lost, store
    <2>8. ASSUME NEW w \in Sweepers, BeginFails(w) PROVE FALSE
      <3>1. row[On(w)].status = "READY" /\ Intend(On(w), sweep[w].kind) /\ sweep[w].at = "begin"
        BY <2>2, <2>8, ZenonT(30) DEF BeginFails, Beginnable, At
      <3>2. On(w) \in Conditions /\ sweep[w].kind \in Kinds
        BY <1>1, <3>1, InHand, TaskFields, Zenon
      <3>3. c # On(w)
        BY <3>1, Zenon
      <3> QED
        BY <2>1, <3>1, <3>2, <3>3, IntentWrites, ZenonT(30)
    <2>9. ASSUME NEW d \in Conditions, Disturb(d) PROVE FALSE
      BY <2>2, <2>9, Zenon DEF Disturb
    <2>10. ~UNCHANGED vars
      BY <2>2 DEF vars
    <2> QED
      BY <1>1, <2>3, <2>4, <2>5, <2>6, <2>7, <2>8, <2>9, <2>10, ZenonT(30) DEF Next, Undisturbed
  <1>2. RedeemInv /\ [Next]_vars => [\A c \in Conditions : Kept(c)]_vars
    BY <1>1
  <1> QED
    BY <1>2, RedeemAlways, PTL DEF Spec, ConfirmedIsNeverAbandoned
=============================================================================
