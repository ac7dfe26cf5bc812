------------------------------- MODULE ChainCash -------------------------------
(***************************************************************************)
(* The cash ledger read from the chain: internal/service/chaincash (Sync), *)
(* its store (internal/adapter/postgres/chain_cash_store.go), the log      *)
(* reader (internal/adapter/evmrpc/erc20_transfer_logs.go) and the tool    *)
(* that opens the ledger of an account (cmd/chaincashinit).  One account,  *)
(* one wallet; every transfer moves one unit.                              *)
(*                                                                         *)
(* The chain is a sequence of blocks, each a set of transfers touching the *)
(* wallet; its last Confirmations blocks may still be replaced.  The fill  *)
(* and redemption ledgers appear as the bookings they make (BookOwn).      *)
(***************************************************************************)
EXTENDS Naturals, Integers, Sequences, FiniteSets, FiniteSetsExt, SequencesExt

CONSTANTS Syncs,            \* reconciliation runs that may call Sync at once
          Transfers,        \* transfers that can reach the chain
          Shape,            \* [Transfers -> [dir, from, fill]]
          OwnMints,         \* mints that pay out this account's redemptions
          Confirmations, MaxBlocksPerRun,
          MaxHeight, MaxReorgs, MaxTransfers

ASSUME ChainCashConstants ==
    /\ Shape \in [Transfers -> [dir : {"IN", "OUT"},
                                from : {"exchange", "zero", "reward", "deposit", "other"},
                                fill : BOOLEAN]]
    /\ OwnMints \subseteq {t \in Transfers : Shape[t].from = "zero" /\ Shape[t].dir = "IN"
                                              /\ ~Shape[t].fill}
    /\ {Confirmations, MaxBlocksPerRun, MaxHeight} \subseteq Nat \ {0} /\ {MaxReorgs, MaxTransfers} \subseteq Nat

VARIABLES
    chain,      \* the blocks so far
    peak,       \* the height the chain has reached
    reorgs,
    hashes,     \* own redemptions whose transaction hash is stored
    recorded,   \* trades recorded as fills and not applied yet
    booked,     \* transfers the fill or redemption ledger has booked
    total,      \* the account's total balance
    changedAt,  \* the height at which a ledger last changed the total
    cursor,     \* [start, processed], or NoCursor; open: trades up to the start
                \* block that nobody had recorded when the ledger was opened
    rows,       \* the persisted transfers, with their classification
    credited,   \* the rows that carry an account event
    sync,       \* per run, how far its Sync is
    tool        \* the initialization tool

chainVars == <<chain, peak, reorgs>>
ledgerVars == <<hashes, recorded, booked, total, changedAt>>
cashVars == <<cursor, rows, credited>>
chainCashVars == <<chainVars, ledgerVars, cashVars, sync, tool>>

NoCursor == [start |-> 0, processed |-> 0, open |-> {}]
NoSync == [phase |-> "idle"]
NoTool == [phase |-> "idle"]

Height == Len(chain)
Signed(t) == IF Shape[t].dir = "IN" THEN 1 ELSE -1
SumSigned(T) == MapThenSumSet(Signed, T)
\* The transfers of the blocks from..to of the present chain.
Between(from, to) == UNION {chain[h] : h \in from..Min({to, Height})}
BalanceAt(h) == SumSigned(Between(1, h))
Final(t) == t \in Between(1, peak - Confirmations)

-----------------------------------------------------------------------------
(* Classification.                                                         *)
Credited(class) == class \in {"REWARD", "DEPOSIT"}
OwnedByOtherLedger(class) == class \in {"TRADE", "REDEMPTION"}

classifyOne(t, known) ==
    LET s == Shape[t]
    IN CASE s.from = "exchange" \/ s.fill -> "TRADE"
         [] s.dir = "OUT"                 -> "UNATTRIBUTED_OUT"
         [] s.from = "zero"               -> IF t \in known THEN "REDEMPTION" ELSE "UNATTRIBUTED_IN"
         [] s.from = "reward"             -> "REWARD"
         [] s.from = "deposit"            -> "DEPOSIT"
         [] OTHER                         -> "UNATTRIBUTED_IN"

\* ReadWalletLogs and classify: every transfer of the range, with its class now.
ReadClassified(from, to) == [t \in Between(from, to) |-> classifyOne(t, hashes)]

-----------------------------------------------------------------------------
(* The chain and the other ledgers.                                        *)
ChainInit ==
    /\ chain = <<>> /\ peak = 0 /\ reorgs = 0
    /\ hashes = {} /\ recorded = {} /\ booked = {} /\ total = 0 /\ changedAt = 0
    /\ cursor = NoCursor /\ rows = <<>> /\ credited = {}
    /\ sync = [w \in Syncs |-> NoSync] /\ tool = NoTool

Mine ==
    /\ Height < MaxHeight
    /\ \E T \in {{}} \cup {{t} : t \in Transfers \ Between(1, Height)} :
          /\ Cardinality(T \cup Between(1, Height)) <= MaxTransfers
          /\ chain' = Append(chain, T)
          /\ peak' = Max({peak, Height + 1})
    /\ UNCHANGED <<reorgs, ledgerVars, cashVars, sync, tool>>

\* The last block is replaced; runs in flight have read another fork.
Reorg ==
    /\ reorgs < MaxReorgs /\ Height > 0 /\ Height > peak - Confirmations
    /\ chain' = Front(chain) /\ reorgs' = reorgs + 1
    /\ sync' = [w \in Syncs |-> IF sync[w].phase \in {"idle", "done"} THEN sync[w]
                                 ELSE [sync[w] EXCEPT !.forked = TRUE]]
    /\ UNCHANGED <<peak, ledgerVars, cashVars, tool>>

Own(t) == Shape[t].from = "exchange" \/ Shape[t].fill \/ t \in OwnMints

\* The redemption service learns the hash of a payout; the execution service
\* records a trade before it is final.
LearnHash(t) ==
    /\ t \in (OwnMints \ hashes) \cap Between(1, Height)
    /\ hashes' = hashes \cup {t}
    /\ UNCHANGED <<chainVars, recorded, booked, total, changedAt, cashVars, sync, tool>>

RecordFill(t) ==
    /\ t \in Between(1, Height) \ (recorded \cup booked \cup OwnMints) /\ Own(t)
    /\ recorded' = recorded \cup {t}
    /\ UNCHANGED <<chainVars, hashes, booked, total, changedAt, cashVars, sync, tool>>

BookOwn(t) ==
    /\ t \in (recorded \cup hashes) \ booked /\ Final(t)
    /\ booked' = booked \cup {t} /\ recorded' = recorded \ {t}
    /\ total' = total + Signed(t) /\ changedAt' = Height
    /\ UNCHANGED <<chainVars, hashes, cashVars, sync, tool>>

-----------------------------------------------------------------------------
(* The transaction both Sync and the tool end in.                          *)
ReattributedNever(table) == table

\* reattributeRedemptionTransfers: a mint whose hash is known by now.
Reattributed(table) ==
    [t \in DOMAIN table |->
        IF table[t] = "UNATTRIBUTED_IN" /\ Shape[t].from = "zero" /\ t \in hashes
        THEN "REDEMPTION" ELSE table[t]]

\* insertChainCashTransfer: a row that exists already keeps its class.
Inserted(read) == rows @@ read

Creditable(table) == {t \in DOMAIN table : Credited(table[t])} \ credited

\* creditChainCashTransfers.
Credit(table) ==
    /\ credited' = credited \cup Creditable(table)
    /\ total' = total + Cardinality(Creditable(table))
    /\ changedAt' = IF Creditable(table) = {} THEN changedAt ELSE Height

\* readChainCashPosition, after the credits: what the offset still counts.
OffsetRows(table) == {t \in DOMAIN table : table[t] = "UNATTRIBUTED_IN"}

-----------------------------------------------------------------------------
(* Sync.                                                                   *)
\* The confirmed range is everything up to the snapshot.
SyncStartAtHead(w) ==
    /\ sync[w].phase = "idle" /\ cursor # NoCursor
    /\ Height > Confirmations /\ Height >= cursor.processed
    /\ sync' = [sync EXCEPT ![w] =
            [phase |-> "confirmed", from |-> cursor.processed,
             to |-> Min({Height, cursor.processed + MaxBlocksPerRun}),
             caughtUp |-> Height <= cursor.processed + MaxBlocksPerRun, snapshot |-> Height,
             balance |-> BalanceAt(Height), forked |-> FALSE,
             read |-> <<>>, pending |-> <<>>]]
    /\ UNCHANGED <<chainVars, ledgerVars, cashVars, tool>>

\* The balance snapshot the run compares with comes with the block it was read at.
SyncStart(w) ==
    /\ sync[w].phase = "idle" /\ cursor # NoCursor
    /\ Height > Confirmations /\ Height >= cursor.processed
    /\ LET confirmed == Height - Confirmations
           target == IF confirmed <= cursor.processed THEN cursor.processed
                     ELSE Min({confirmed, cursor.processed + MaxBlocksPerRun})
       IN sync' = [sync EXCEPT ![w] =
            [phase |-> "confirmed", from |-> cursor.processed, to |-> target,
             caughtUp |-> target >= confirmed, snapshot |-> Height,
             balance |-> BalanceAt(Height), forked |-> FALSE,
             read |-> <<>>, pending |-> <<>>]]
    /\ UNCHANGED <<chainVars, ledgerVars, cashVars, tool>>

SyncReadConfirmed(w) ==
    /\ sync[w].phase = "confirmed"
    /\ sync' = [sync EXCEPT ![w].phase = "pending",
                            ![w].read = ReadClassified(sync[w].from + 1, sync[w].to)]
    /\ UNCHANGED <<chainVars, ledgerVars, cashVars, tool>>

\* (target, snapshot] is read into memory only.
SyncReadPending(w) ==
    /\ sync[w].phase = "pending"
    /\ sync' = [sync EXCEPT ![w].phase = "apply",
                            ![w].pending = IF sync[w].caughtUp
                                           THEN ReadClassified(sync[w].to + 1, sync[w].snapshot)
                                           ELSE <<>>]
    /\ UNCHANGED <<chainVars, ledgerVars, cashVars, tool>>

\* An unconfirmed transfer counts unless another ledger books it or it is an outflow.
PendingCounted(pending) ==
    {t \in DOMAIN pending : ~OwnedByOtherLedger(pending[t]) /\ pending[t] # "UNATTRIBUTED_OUT"}

\* SyncResult: the expected balance is LedgerTotal + Offset.  The rest is what
\* the result is judged by: the snapshot, and what was booked when it was made.
SyncResult(s, table, ledgerTotal) ==
    [phase |-> "done", caughtUp |-> s.caughtUp, forked |-> s.forked,
     upTo |-> Between(1, s.snapshot), balance |-> s.balance, booked |-> booked,
     counted |-> OffsetRows(table), pending |-> PendingCounted(s.pending),
     expected |-> ledgerTotal + Cardinality(OffsetRows(table))
                              + Cardinality(PendingCounted(s.pending))]

\* ApplyChainCashRange under the account lock.
SyncApply(w) ==
    LET s == sync[w]
        table == Reattributed(Inserted(s.read))
    IN /\ s.phase = "apply" /\ cursor.processed = s.from
       /\ rows' = table /\ Credit(table)
       /\ cursor' = [cursor EXCEPT !.processed = s.to]
       /\ sync' = [sync EXCEPT ![w] = SyncResult(s, table, total')]
       /\ UNCHANGED <<chainVars, hashes, recorded, booked, tool>>

\* The run is over: with its result, or after a failed read, a cursor that moved
\* or a crash, when nothing has been written.
SyncReturns(w) ==
    /\ sync[w].phase # "idle"
    /\ sync' = [sync EXCEPT ![w] = NoSync]
    /\ UNCHANGED <<chainVars, ledgerVars, cashVars, tool>>

-----------------------------------------------------------------------------
(* chaincashinit.                                                          *)
\* collect: balances and transfers of final blocks, and the identity between them.
\* (A tool started when there is a cursor ends without effect: not enumerated.)
InitCollect(start) ==
    LET catchUp == Height - Confirmations
    IN /\ tool.phase = "idle" /\ cursor = NoCursor /\ Height > Confirmations /\ start \in 1..catchUp
       /\ BalanceAt(start) + SumSigned(Between(start + 1, catchUp)) = BalanceAt(catchUp)
       /\ tool' = [phase |-> "collected", start |-> start, catchUp |-> catchUp,
                   balance |-> BalanceAt(start), read |-> ReadClassified(start + 1, catchUp)]
       /\ UNCHANGED <<chainVars, ledgerVars, cashVars, sync>>

\* inspectInitialization: the reasons for which the tool refuses.
Initializable ==
    /\ total = tool.balance /\ changedAt < tool.start
    /\ recorded = {}
    /\ OwnMints \cap Between(1, Height) \subseteq booked
    /\ cursor = NoCursor

\* InitializeChainCashCursor: cursor, rows and credits in one transaction.
InitExecute ==
    /\ tool.phase = "collected"
    /\ IF Initializable
       THEN /\ cursor' = [start |-> tool.start, processed |-> tool.catchUp,
                           open |-> {t \in Between(1, tool.start) : Own(t)} \ booked]
            /\ rows' = Inserted(tool.read) /\ Credit(Inserted(tool.read))
       ELSE UNCHANGED <<cashVars, total, changedAt>>
    /\ tool' = NoTool
    /\ UNCHANGED <<chainVars, hashes, recorded, booked, sync>>

-----------------------------------------------------------------------------
ChainNext ==
    \/ Mine \/ Reorg
    \/ \E t \in Transfers : LearnHash(t) \/ RecordFill(t) \/ BookOwn(t)
    \/ \E w \in Syncs : \/ SyncStart(w) \/ SyncReadConfirmed(w) \/ SyncReadPending(w)
                        \/ SyncApply(w) \/ SyncReturns(w)
    \/ \E start \in 1..MaxHeight : InitCollect(start)
    \/ InitExecute

ChainSpec == ChainInit /\ [][ChainNext]_chainCashVars

(* The cursor tells the truth (ApplyChainCashRange, Sync,                  *)
(* InitializeChainCashCursor): whatever runs race, fail or read a fork     *)
(* that is replaced later, the persisted rows are exactly the transfers of *)
(* the blocks after the start block up to the processed one.               *)
NothingSkipped ==
    cursor # NoCursor => DOMAIN rows = Between(cursor.start + 1, cursor.processed)

(* What a caught-up Sync reports as the expected balance (LedgerTotal +    *)
(* Offset) differs from the balance of the snapshot only by cash the fill  *)
(* and redemption ledgers have yet to book, or booked beyond the snapshot, *)
(* by outflows nobody booked, and by trades that nobody had recorded when  *)
(* the ledger was opened; no reward, deposit or unattributed transfer is   *)
(* counted twice or forgotten, and the ledger was opened in agreement.     *)
(* Excluded: a payout counted as pending whose redemption is booked before *)
(* the range is applied, and a snapshot whose block was replaced.          *)
DriftIsExplained ==
    \A w \in Syncs : sync[w].phase = "done" =>
        LET view == sync[w]
            inFlight == {t \in view.upTo : Own(t)} \ (view.booked \cup view.counted \cup view.pending)
            ahead == view.booked \ view.upTo
            outflows == {t \in view.upTo \ Between(1, cursor.start) :
                            ~Own(t) /\ Shape[t].dir = "OUT"}
            twice == view.pending \cap view.booked
        IN view.caughtUp /\ ~view.forked =>
           view.balance - view.expected =
              SumSigned(inFlight) + SumSigned(outflows)
              - SumSigned(ahead) - SumSigned(twice) - SumSigned(cursor.open)

(* The chain explains the cash: no transfer is skipped and no drift is     *)
(* reported that the rows do not account for (Sync, ApplyChainCashRange).  *)
ChainCashIsExplained == NothingSkipped /\ DriftIsExplained
=============================================================================
