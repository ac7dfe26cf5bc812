----------------------------- MODULE DecisionCycle -----------------------------
(***************************************************************************)
(* One decision boundary, attempted again after a failure or a restart:    *)
(* internal/service/decisioncycle freezes a shared capture of order books  *)
(* and one input per account, asks the strategy, and records its answer    *)
(* and the order intents that follow from it                               *)
(* (internal/adapter/postgres/decision_recorder.go and                     *)
(* orderbook_snapshot_recorder.go).  Delivery of the recorded intents is   *)
(* module DecisionDelivery.                                                *)
(*                                                                         *)
(* A market has one token here and a token's market identity (market,      *)
(* condition, outcome) is one value.  Everything read from outside, the    *)
(* predictions, the lots of an account, the books, is chosen at the step   *)
(* that reads it, so two attempts may see different worlds.                *)
(***************************************************************************)
EXTENDS Integers, Sequences, FiniteSets, SequencesExt

CONSTANTS BindingOrder,     \* the bound accounts, Polymarket before Kalshi
          VenueOf, ModelOf, \* of an account
          TokenVenue,       \* of a token
          PredictionViews,  \* what the prediction source may answer
          LotViews,         \* what the position source may answer for an account
          BookViews,        \* what the book source may answer for a token
          Configurations,   \* the settings a process may be started with
          MaxCycleAttempts

Bound == Range(BindingOrder)
Venues == Range(VenueOf)
MarketTokens == DOMAIN TokenVenue
NotRecorded == [recorded |-> FALSE]

\* normalizeBoundAccounts and New: the switches name bound accounts, some
\* account takes part, and some of those are sent to the strategy.
SubmissionEnabled(c) == Bound \ c.excluded
AskedAccounts(c) == SubmissionEnabled(c) \ c.strategyOff
Entering(c) == AskedAccounts(c) \ c.entryOff
ValidConfiguration(c) ==
    /\ c.excluded \cup c.strategyOff \cup c.entryOff \cup c.routed \subseteq Bound
    /\ SubmissionEnabled(c) # {} /\ AskedAccounts(c) # {}
EntryDisabled(c, a) == a \in c.entryOff \/ c.entryStop

ASSUME CycleConstants ==
    /\ VenueOf \in [Bound -> Venues] /\ DOMAIN ModelOf = Bound
    /\ IsInjective(BindingOrder) /\ MaxCycleAttempts \in Nat
    /\ \E c \in Configurations : ValidConfiguration(c)

VARIABLES settings,     \* of the running process
          position,     \* 0 between attempts, else the binding the cycle is at
          claimed,      \* the input of that binding is claimed, the strategy not yet heard
          frozen,       \* what this attempt read: inputs, books, snapshot id
          attempts,
          batch,        \* the recorded capture of the boundary
          bindingRun,   \* per account, the recorded input and output of the cycle
          deliveries    \* per account, the recorded order intents
cycleVars == <<settings, position, claimed, frozen, attempts, batch, bindingRun, deliveries>>
durable == <<batch, bindingRun, deliveries>>

------------------------------------------------------------------------------
(* Predictions *)

\* SelectEffectivePredictions keeps the newest revision per market and model;
\* two different rows of one age are an error when they meet.
NewerPrediction(p, q) == p.rev > q.rev
SamePayload(p, q) == p.identity = q.identity
KeepNewest(kept, p) ==
    LET same == {q \in kept.rows : q.model = p.model /\ q.token = p.token}
        older == {q \in same : NewerPrediction(p, q)}
    IN [ok |-> kept.ok /\ \A q \in same : p.rev = q.rev => SamePayload(p, q),
        rows |-> (kept.rows \ older) \cup (IF same = older THEN {p} ELSE {})]
MarketIdentitiesAgree(rows) ==
    \A p, q \in rows : p.token = q.token => p.identity = q.identity

\* selectAvailablePredictions: configured models only, the configured result
\* channel only, fresh rows only.
\* As a mutant: a result of the other channel counts.
UsableFromAnyChannel(c, p) == p.model \in {ModelOf[a] : a \in Entering(c)} /\ p.fresh
Usable(c, p) == p.model \in {ModelOf[a] : a \in Entering(c)} /\ p.channel /\ p.fresh
Selected(c, rows) == FoldLeft(KeepNewest, [ok |-> TRUE, rows |-> {}],
                              SelectSeq(rows, LAMBDA p : Usable(c, p)))

ValidSnapshot(view) == view.kind = "SNAPSHOT"

\* loadPredictions: an unavailable source makes the cycle exit-only under a
\* snapshot id of its own; a malformed answer fails the cycle.
Predictions(c, view) ==
    IF view.kind = "UNAVAILABLE"
    THEN [ok |-> TRUE, unavailable |-> TRUE, rows |-> {}, id |-> "unavailable"]
    ELSE LET kept == Selected(c, view.rows) IN
         [ok |-> ValidSnapshot(view) /\ kept.ok /\ MarketIdentitiesAgree(kept.rows),
          unavailable |-> FALSE, rows |-> kept.rows, id |-> view.id]

PredictionsForBinding(rows, a) ==
    {p \in rows : p.model = ModelOf[a] /\ TokenVenue[p.token] = VenueOf[a]}

------------------------------------------------------------------------------
(* Account inputs and the shared capture *)

TargetsOf(rows) == {[token |-> r.token, identity |-> r.identity] : r \in rows}
Conflicting(targets) ==
    \E s, t \in targets : s.token = t.token /\ s.identity # t.identity

\* loadAccountLots and buildInputTargets of one account.
AccountInput(c, rows, view, a) ==
    LET preds == IF EntryDisabled(c, a) THEN {} ELSE PredictionsForBinding(rows, a)
        targets == TargetsOf(preds) \cup view.lots
        readable == view.ok /\ \A t \in view.lots : TokenVenue[t.token] = VenueOf[a]
    IN [failure |-> IF ~readable THEN "positions"
                    ELSE IF Conflicting(targets) THEN "targets" ELSE "none",
        preds |-> preds, lots |-> view.lots, targets |-> targets]

PrepareAccountInputs(c, rows, views) ==
    [a \in AskedAccounts(c) \cap c.routed |-> AccountInput(c, rows, views[a], a)]
Healthy(inputs) == {a \in DOMAIN inputs : inputs[a].failure = "none"}

\* sharedTargets: a lot that contradicts a prediction excludes its account; two
\* lots that contradict each other exclude every account that holds the token.
EntrySources(c, accounts) == {VenueOf[a] : a \in Entering(c) \cap accounts}
PredictionTargets(c, rows) ==
    TargetsOf({p \in rows : TokenVenue[p.token] \in EntrySources(c, c.routed)})
Exclude(inputs, accounts) ==
    [a \in DOMAIN inputs |-> IF a \in accounts /\ inputs[a].failure = "none"
                             THEN [inputs[a] EXCEPT !.failure = "conflict"] ELSE inputs[a]]
AgainstPrediction(inputs, predicted) ==
    {a \in Healthy(inputs) : Conflicting(inputs[a].targets \cup predicted)}
DisputedTokens(inputs, predicted) ==
    {t \in MarketTokens :
        /\ ~\E p \in predicted : p.token = t
        /\ Conflicting({h \in UNION {inputs[a].targets : a \in Healthy(inputs)} : h.token = t})}
Holders(inputs, tokens) ==
    {a \in Healthy(inputs) : \E t \in inputs[a].targets : t.token \in tokens}
\* As a mutant: lots are compared with the predictions only.
SettleConflictsByPrediction(inputs, predicted) ==
    Exclude(inputs, AgainstPrediction(inputs, predicted))
SettleConflicts(inputs, predicted) ==
    LET first == Exclude(inputs, AgainstPrediction(inputs, predicted))
    IN Exclude(first, Holders(first, DisputedTokens(first, predicted)))
SharedTargets(c, inputs, predicted) ==
    {t \in predicted : TokenVenue[t.token] \in EntrySources(c, Healthy(inputs))}
        \cup UNION {inputs[a].targets : a \in Healthy(inputs)}

\* alignBooks: a token the source left out is MISSING, an unusable minimum size
\* is an ERROR book, and a book of another identity fails the cycle.
AlignedStatus(answer) ==
    CASE answer = "ABSENT" -> "MISSING"
      [] answer = "BAD_MINIMUM" -> "ERROR"
      [] OTHER -> answer
AlignBooks(targets, answer) ==
    {[token |-> t.token, identity |-> t.identity, status |-> AlignedStatus(answer[t.token])] :
        t \in targets}
DegradedVenues(books) == {TokenVenue[b.token] : b \in {x \in books : x.status = "VENUE_FAILED"}}
BooksForTargets(targets, books) == {b \in books : \E t \in targets : t.token = b.token}

------------------------------------------------------------------------------
(* The strategy's answer *)

\* What a strategy may answer: an action for every predicted token, exits for
\* lots, whether an exit repeats the decision id of a SUBMIT, and what, if
\* anything, is wrong with it.
Flaws == {"none", "identity", "evidence", "entry order", "exit order"}
ResponsesTo(input) ==
    {r \in [submit : SUBSET {p.token : p \in input.preds},
             exits : SUBSET {l.token : l \in input.lots},
             sharedId : BOOLEAN, flaw : Flaws] :
        /\ r.sharedId => r.submit # {} /\ r.exits # {}
        /\ r.flaw = "entry order" => r.submit # {}
        /\ r.flaw = "exit order" => r.exits # {}}
BookIsOK(input, t) == \E b \in input.books : b.token = t /\ b.status = "OK"

\* buildEntryIntent and buildExitIntent: only an entry needs an OK book.
ValidEntries(input, response) ==
    /\ response.flaw # "entry order"
    /\ \A t \in response.submit : BookIsOK(input, t)
ValidExits(response) == response.flaw # "exit order"
ValidEvidence(response) == response.flaw # "evidence"

\* validateResponseWithEntryPolicy: the recorded policy must be the one in
\* force, and a blocked SUBMIT is neither checked as an order nor turned into
\* an intent, nor does it reserve its decision id.
ValidResponse(input, response, block) ==
    /\ response.policy = block
    /\ response.flaw # "identity" /\ ValidEvidence(response) /\ ValidExits(response)
    /\ block = "" => ValidEntries(input, response) /\ ~response.sharedId
ResponseIntents(response, block) ==
    (IF block = "" THEN {<<"BUY", t>> : t \in response.submit} ELSE {})
        \cup {<<"SELL", t>> : t \in response.exits}

\* entryBlockReason in its order of priority; "" lets entries through.
EntryBlockReason(c, a) ==
    IF EntryDisabled(c, a) THEN "ENTRY_SUBMISSION_DISABLED"
    ELSE IF frozen.unavailable THEN "PREDICTION_SOURCE_UNAVAILABLE"
    ELSE IF frozen.inputs[a].preds = {} THEN "INCOMPLETE_MODEL_COVERAGE"
    ELSE ""

------------------------------------------------------------------------------
NothingFrozen == [ok |-> TRUE, unavailable |-> FALSE, id |-> "none", books |-> {},
                  inputs |-> [a \in {} |-> {}], views |-> [a \in {} |-> {}], predicted |-> {}]

CycleInit ==
    /\ settings \in {c \in Configurations : ValidConfiguration(c)}
    /\ position = 0 /\ claimed = FALSE /\ frozen = NothingFrozen
    /\ attempts = 0
    /\ batch = NotRecorded
    /\ bindingRun = [a \in Bound |-> NotRecorded]
    /\ deliveries = [a \in Bound |-> {}]

\* ClaimBatch: the first capture of a boundary is kept; another one is refused.
ClaimBatch(proposed) ==
    /\ batch \in {NotRecorded, proposed}
    /\ batch' = proposed

\* Run up to the claim of the capture.  Nothing is written before the claim, so
\* a failure on the way is an attempt without effect.
Capture(c, view, views, answer) ==
    LET preds == Predictions(c, view)
        predicted == PredictionTargets(c, preds.rows)
        inputs == SettleConflicts(PrepareAccountInputs(c, preds.rows, views), predicted)
        targets == SharedTargets(c, inputs, predicted)
    IN [ok |-> preds.ok /\ \A t \in targets : answer[t.token] # "OTHER_IDENTITY",
        id |-> preds.id, unavailable |-> preds.unavailable, inputs |-> inputs,
        books |-> AlignBooks(targets, answer), predicted |-> predicted,
        views |-> [a \in DOMAIN inputs |-> views[a]]]
Captures ==
    [c \in Configurations |->
        {Capture(c, view, views, answer) :
            view \in PredictionViews, views \in [Bound -> LotViews],
            answer \in [MarketTokens -> BookViews]}]

RunBoundary ==
    /\ position = 0 /\ attempts < MaxCycleAttempts
    /\ attempts' = attempts + 1
    /\ frozen' \in Captures[settings]
    /\ frozen'.ok
    /\ ClaimBatch([recorded |-> TRUE, id |-> frozen'.id, books |-> frozen'.books])
    /\ position' = 1
    /\ UNCHANGED <<settings, claimed, bindingRun, deliveries>>

\* The recovery of earlier deliveries, the sources or the claim fail the cycle.
RunFails ==
    /\ position = 0 /\ attempts < MaxCycleAttempts
    /\ attempts' = attempts + 1
    /\ UNCHANGED <<settings, position, claimed, frozen, durable>>

Here == BindingOrder[position]
AtBinding == position \in 1..Len(BindingOrder)
GoOn == position' = position + 1 /\ claimed' = FALSE

\* A binding that is switched off, cannot be routed, has no usable input or
\* trades on a venue without books is passed over; the next one is unaffected.
Passed(a) ==
    IF a \notin AskedAccounts(settings) \cap settings.routed THEN "switched off"
    ELSE IF frozen.inputs[a].failure # "none" THEN frozen.inputs[a].failure
    ELSE IF VenueOf[a] \in DegradedVenues(frozen.books) THEN "venue"
    ELSE "none"
PassOver ==
    /\ AtBinding /\ ~claimed /\ Passed(Here) # "none"
    /\ GoOn
    /\ UNCHANGED <<settings, frozen, attempts, durable>>

\* ClaimInput: the first input of a cycle is kept, and another one is refused.
ProposedInput(a) ==
    [id |-> frozen.id, preds |-> frozen.inputs[a].preds, lots |-> frozen.inputs[a].lots,
     books |-> BooksForTargets(frozen.inputs[a].targets, frozen.books)]
\* validateClaimedInput: one book for every token, of one identity.
ValidClaimedInput(input) ==
    LET targets == TargetsOf(input.preds) \cup input.lots IN
    ~Conflicting(targets) /\ TargetsOf(input.books) = targets
ClaimInput ==
    /\ AtBinding /\ ~claimed /\ Passed(Here) = "none"
    /\ LET kept == IF bindingRun[Here] # NotRecorded THEN bindingRun[Here]
                   ELSE [recorded |-> TRUE, input |-> ProposedInput(Here),
                         output |-> NotRecorded, submit |-> FALSE] IN
       /\ bindingRun' = [bindingRun EXCEPT ![Here] = kept]
       /\ IF kept.input = ProposedInput(Here) /\ ValidClaimedInput(kept.input)
          THEN claimed' = TRUE /\ UNCHANGED position
          ELSE GoOn
    /\ UNCHANGED <<settings, frozen, attempts, batch, deliveries>>

\* submissionIntents: intents of a venue that is not routed for submission are
\* reported as a dry run and not recorded for delivery.
Deliverable(c, a, intents) == IF VenueOf[a] \in c.submitVenues THEN intents ELSE {}

\* ClaimOutput stores the first answer with its intents in one transaction.  A
\* later answer is the same under the same submission switch, or a conflict;
\* neither writes anything.
\* As a mutant: a retry stores the answer it was given.
ClaimOutputAnew(a, answer, intents, submit) ==
    /\ bindingRun' = [bindingRun EXCEPT ![a].output = answer, ![a].submit = submit]
    /\ deliveries' = [deliveries EXCEPT ![a] = @ \cup IF submit THEN intents ELSE {}]
ClaimOutput(a, answer, intents, submit) ==
    IF bindingRun[a].output = NotRecorded
    THEN /\ bindingRun' = [bindingRun EXCEPT ![a].output = answer, ![a].submit = submit]
         /\ deliveries' = [deliveries EXCEPT ![a] = IF submit THEN intents ELSE {}]
    ELSE UNCHANGED <<bindingRun, deliveries>>

\* The strategy answers: a refused answer is reported back and recorded
\* nowhere, an accepted one is recorded with its intents.
StrategyAnswers ==
    /\ AtBinding /\ claimed
    /\ LET input == bindingRun[Here].input
           block == EntryBlockReason(settings, Here) IN
       \E r \in ResponsesTo(input) :
         LET answer == [recorded |-> TRUE, policy |-> block, submit |-> r.submit,
                        exits |-> r.exits, sharedId |-> r.sharedId, flaw |-> r.flaw]
             intents == Deliverable(settings, Here, ResponseIntents(answer, block))
         IN IF ValidResponse(input, answer, block)
            THEN ClaimOutput(Here, answer, intents, settings.submit)
            ELSE UNCHANGED <<bindingRun, deliveries>>
    /\ GoOn
    /\ UNCHANGED <<settings, frozen, attempts, batch>>

\* The strategy call or a write fails: only this account goes without.
BindingFails ==
    /\ AtBinding /\ (claimed \/ Passed(Here) = "none")
    /\ GoOn
    /\ UNCHANGED <<settings, frozen, attempts, durable>>

\* The cycle's own deadline: the remaining bindings are not run.
DeadlinePasses ==
    /\ AtBinding /\ position' = 0 /\ claimed' = FALSE /\ frozen' = NothingFrozen
    /\ UNCHANGED <<settings, attempts, durable>>

RunEnds ==
    /\ position = Len(BindingOrder) + 1
    /\ position' = 0 /\ frozen' = NothingFrozen
    /\ UNCHANGED <<settings, claimed, attempts, durable>>

\* A new process, perhaps with other settings, may attempt the boundary again.
CycleRestart ==
    /\ attempts \in 1..(MaxCycleAttempts - 1)
    /\ settings' \in {c \in Configurations : ValidConfiguration(c)}
    /\ position' = 0 /\ claimed' = FALSE /\ frozen' = NothingFrozen
    /\ UNCHANGED <<attempts, durable>>

CycleNext == \/ RunBoundary \/ RunFails \/ PassOver \/ ClaimInput \/ StrategyAnswers
             \/ BindingFails \/ DeadlinePasses \/ RunEnds \/ CycleRestart
CycleSpec == CycleInit /\ [][CycleNext]_cycleVars

------------------------------------------------------------------------------
\* However often a boundary is attempted, with whatever settings, lots, books
\* and answers: the intents recorded for an account are exactly those of its
\* one recorded answer, which was given to its one recorded input, whose books
\* are books of the one recorded capture (ClaimBatch, ClaimInput, ClaimOutput).
OneDecisionPerBoundary ==
    \A a \in Bound : deliveries[a] # {} =>
        /\ bindingRun[a].recorded /\ bindingRun[a].output # NotRecorded /\ bindingRun[a].submit
        /\ deliveries[a] = {<<"SELL", t>> : t \in bindingRun[a].output.exits} \cup
             (IF bindingRun[a].output.policy = ""
              THEN {<<"BUY", t>> : t \in bindingRun[a].output.submit} ELSE {})
        /\ bindingRun[a].input.books \subseteq batch.books

\* A BUY is recorded for delivery only when entries were open to the account,
\* its model predicted the token, and the shared capture holds an OK book of it
\* under the identity that was predicted (the entry gate of runBinding, also
\* when a later attempt finds the gate open that was shut, or shut that was open).
BuysPassTheEntryGate ==
    \A a \in Bound, t \in MarketTokens : <<"BUY", t>> \in deliveries[a] =>
        /\ bindingRun[a].output.policy = ""
        /\ \E p \in bindingRun[a].input.preds :
              /\ p.token = t /\ p.model = ModelOf[a] /\ p.channel /\ p.fresh
              /\ [token |-> t, identity |-> p.identity, status |-> "OK"] \in batch.books

\* An account is kept out for its input only when its own data is the reason:
\* its lots cannot be read, contradict a prediction, or contradict the lots of
\* another account that was itself readable; and for every account that is not
\* kept out the capture holds one book per token, of the identity the account
\* expects (prepareAccountInputs, sharedTargets, booksForTargets).
Contradicts(x, y) == \E s \in x, t \in y : s.token = t.token /\ s.identity # t.identity
ExclusionIsItsOwn ==
    position > 0 =>
      LET inputs == frozen.inputs IN
      \A a \in DOMAIN inputs :
        IF inputs[a].failure = "none"
        THEN \A t \in inputs[a].targets :
               {b.identity : b \in {x \in frozen.books : x.token = t.token}} = {t.identity}
        ELSE \/ ~frozen.views[a].ok
             \/ \E t \in inputs[a].lots : TokenVenue[t.token] # VenueOf[a]
             \/ Conflicting(inputs[a].lots)
             \/ Contradicts(inputs[a].lots, frozen.predicted \cup TargetsOf(inputs[a].preds))
             \/ \E b \in DOMAIN inputs \ {a} :
                  inputs[b].failure \in {"none", "conflict"}
                    /\ Contradicts(inputs[a].lots, inputs[b].lots)

\* The data of an account alone decides about it: it buys only what its own
\* model predicted through the entry gate, and it is kept out only for a reason
\* its own lots give (runBinding, prepareAccountInputs).
JudgedByItsOwnData == BuysPassTheEntryGate /\ ExclusionIsItsOwn

\* What is recorded for an account at a boundary is one decision, made on data
\* of its own (ClaimBatch, ClaimInput, ClaimOutput, prepareAccountInputs).
OneDecisionOfItsOwn == OneDecisionPerBoundary /\ JudgedByItsOwnData
================================================================================
