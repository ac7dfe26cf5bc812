----------------------------- MODULE WalletJournal -----------------------------
(* The operator commands that move money or grant allowances by transactions   *)
(* they sign themselves and record in a journal file:                          *)
(*   fund     cmd/wallet67fund      native coin, one source, nonces planned    *)
(*   approve  cmd/walletapprove     exact token allowances, may be already set *)
(*   deposit  cmd/walletdepositfund token transfers, all signed at the start   *)
(* A command may be killed, time out or stop at any error and is started again *)
(* by the operator.  A raw transaction that was sent may be lost, refused, or  *)
(* reach the node after the command has given up; a mined block may be undone  *)
(* until it has the confirmations the commands wait for.                       *)
(* A balance is the set of transactions that made it: two balances are equal   *)
(* exactly when the same transactions were applied.  Gas and fee amounts are   *)
(* one quote; decoding of RPC answers is left out.                             *)
EXTENDS Naturals, Sequences, FiniteSets

CONSTANTS Processes,       \* concurrent starts of the command
          EntryCount,      \* entries of the fixed plan
          Confirmations,   \* requiredConfirmations, 64 in the code
          Quotes,          \* fee quotes the node may give
          MaxForeign,      \* bound: transactions of others on these accounts
          MaxReorgs,       \* bound: undone blocks
          MaxHeight        \* bound: blocks

ASSUME WalletConstants ==
    /\ EntryCount \in Nat \ {0} /\ Confirmations \in Nat \ {0}
    /\ MaxForeign \in Nat /\ MaxReorgs \in Nat /\ MaxHeight \in Nat
    /\ 0 \notin Quotes

VARIABLES tool,        \* which command this is
          disk,        \* the journal file, << >> before it exists
          process,     \* each process: where it is, its entry, its journal
          wire,        \* raw transactions sent whose fate is open
          pool,        \* the node's mempool
          mined,       \* transactions in the chain: tx, block, success
          height,      \* latest block
          final,       \* last block that ever had Confirmations confirmations
          foreign, reorgs

walletVars == <<tool, disk, process, wire, pool, mined, height, final, foreign, reorgs>>
chainVars  == <<pool, mined, height, final, foreign, reorgs>>

Entries == 1..EntryCount
Exact   == 1          \* the fixed amount of the plan
Other   == 2          \* an allowance somebody else set

(* The account an entry spends from: the fixed targets of the plan. *)
Source(i) == IF tool = "deposit" THEN i ELSE 1

NoTx == [entry |-> 0, src |-> 0, nonce |-> 0, fee |-> 0]
Off  == [pc |-> "off", i |-> 0, mem |-> << >>]

WalletInit ==
    /\ tool \in {"fund", "approve", "deposit"}
    /\ disk = << >>
    /\ process = [p \in Processes |-> Off]
    /\ wire = {} /\ pool = {} /\ mined = {}
    /\ height = 0 /\ final = 0 /\ foreign = 0 /\ reorgs = 0

--------------------------------------------------------------------------------
(* The chain as a node shows it *)

LatestNonce(s) == Cardinality({m \in mined : m.tx.src = s})

(* readNonce: latest and pending nonce must agree. *)
NonceIs(s, n) == LatestNonce(s) = n /\ ~\E t \in pool : t.src = s

Receipts(t)  == {m \in mined : m.tx = t}
Succeeded(t) == \E m \in Receipts(t) : m.ok
Reverted(t)  == \E m \in Receipts(t) : ~m.ok

(* Transactions that changed the target of an entry, or used a source. *)
Received(i) == {m.tx : m \in {n \in mined : n.tx.entry = i /\ n.ok}}
Spent(s)    == {m.tx : m \in {n \in mined : n.tx.src = s}}

(* readAllowance: what the last successful transaction set. *)
Allowance(i) ==
    LET S == {m \in mined : m.tx.entry = i /\ m.ok}
    IN  IF S = {} THEN 0 ELSE (CHOOSE m \in S : \A n \in S : n.at <= m.at).sets

(* Buried deep enough to be called final; all three commands ask for 64.       *)
Deep(m) == height - m.at + 1 >= Confirmations

(* The receipt of a transaction, when its status, its sender and its one       *)
(* transfer or approval log are those the journal expects.                     *)
FundReceipt(t)    == {m \in Receipts(t) : m.ok}
ApproveReceipt(t) == {m \in Receipts(t) : m.ok /\ m.sets = Exact}
DepositReceipt(t) == {m \in Receipts(t) : m.ok}

Mine(t, ok) ==
    /\ t \in pool /\ t.nonce = LatestNonce(t.src) /\ height < MaxHeight
    /\ mined' = mined \cup {[tx |-> t, at |-> height + 1, ok |-> ok, sets |-> Exact]}
    /\ pool' = pool \ {t}
    /\ height' = height + 1
    /\ final' = IF height + 2 > final + Confirmations THEN height + 2 - Confirmations ELSE final
    /\ UNCHANGED <<tool, disk, process, wire, foreign, reorgs>>

(* A block without a transaction of these accounts. *)
EmptyBlock ==
    /\ height < MaxHeight
    /\ height' = height + 1
    /\ final' = IF height + 2 > final + Confirmations THEN height + 2 - Confirmations ELSE final
    /\ UNCHANGED <<tool, disk, process, wire, pool, mined, foreign, reorgs>>

(* Somebody else pays the recipient, uses the source account, or submits a      *)
(* permit for it.                                                              *)
ForeignTx(i, s, v) ==
    /\ foreign < MaxForeign /\ height < MaxHeight
    /\ s \in {0, Source(i)}
    /\ LET t == [entry |-> i, src |-> s, nonce |-> LatestNonce(s), fee |-> 0]
       IN  /\ mined' = mined \cup {[tx |-> t, at |-> height + 1, ok |-> TRUE, sets |-> v]}
           /\ pool' = {u \in pool : u.src # s \/ u.nonce # t.nonce}
    /\ height' = height + 1
    /\ final' = IF height + 2 > final + Confirmations THEN height + 2 - Confirmations ELSE final
    /\ foreign' = foreign + 1
    /\ UNCHANGED <<tool, disk, process, wire, reorgs>>

(* The last block is undone; its transactions return to the pool or are lost. *)
Reorg(back) ==
    /\ reorgs < MaxReorgs /\ height > final
    /\ reorgs' = reorgs + 1
    /\ height' = height - 1
    /\ mined' = {m \in mined : m.at # height}
    /\ pool' = IF back THEN pool \cup {m.tx : m \in mined \ mined'} ELSE pool
    /\ UNCHANGED <<tool, disk, process, wire, final, foreign>>

(* The node accepts or refuses a raw transaction that was on the wire, and it  *)
(* may forget one of its pool.  One that never leaves the wire is lost.        *)
Acceptable(t) == t.nonce >= LatestNonce(t.src) /\ t \notin pool /\ Receipts(t) = {}
Deliver(t) ==
    /\ t \in wire /\ wire' = wire \ {t}
    /\ pool' = IF Acceptable(t) THEN pool \cup {t} ELSE pool
    /\ UNCHANGED <<tool, disk, process, mined, height, final, foreign, reorgs>>
Drop(t) ==
    /\ t \in pool /\ pool' = pool \ {t}
    /\ UNCHANGED <<tool, disk, process, wire, mined, height, final, foreign, reorgs>>

ChainNext ==
    \/ EmptyBlock
    \/ \E t \in pool, ok \in BOOLEAN : Mine(t, ok)
    \/ \E i \in Entries, s \in {0} \cup Entries, v \in {Exact, Other} : ForeignTx(i, s, v)
    \/ \E back \in BOOLEAN : Reorg(back)
    \/ \E t \in wire \cup pool : Deliver(t) \/ Drop(t)

--------------------------------------------------------------------------------
(* Journal and process *)

At(p, pc)  == process[p].pc = pc
Current(p) == process[p].mem[process[p].i]
InEntry(p, st) == At(p, "entry") /\ process[p].i \in Entries /\ Current(p).st = st

(* The journal is saved before the process goes on: temporary file, rename. *)
Save(p, journal, i) ==
    /\ disk' = journal
    /\ process' = [process EXCEPT ![p] = [pc |-> "entry", i |-> i, mem |-> journal]]
Goto(p, pc) == process' = [process EXCEPT ![p].pc = pc]
NextEntry(p) == process' = [process EXCEPT ![p].i = @ + 1]
SetState(p, st) == [process[p].mem EXCEPT ![process[p].i].st = st]
SetSigned(p, t) == [process[p].mem EXCEPT ![process[p].i] = [st |-> "SIGNED", tx |-> t]]

(* An exclusive lock on the journal, in two of the three commands. *)
FundLock(p)    == \A q \in Processes : At(q, "off")
ApproveLock(p) == \A q \in Processes : At(q, "off")

(* Any RPC, file or signing error, a refused check, a timeout or a signal. *)
Exit(p) ==
    /\ ~At(p, "off")
    /\ process' = [process EXCEPT ![p] = Off]
    /\ UNCHANGED <<tool, disk, wire, chainVars>>

(* recoverSignedTransaction: a reverted receipt is an error. *)
Found(t)   == ~Reverted(t) /\ (Succeeded(t) \/ t \in pool)
Missing(t) == Receipts(t) = {} /\ t \notin pool

--------------------------------------------------------------------------------
(* cmd/wallet67fund *)

(* prepareInitialJournal: the approved prestate is the untouched one. *)
FundPrestate == NonceIs(1, 0) /\ Spent(1) = {} /\ \A i \in Entries : Received(i) = {}

FundStart(p) ==
    /\ tool = "fund" /\ At(p, "off") /\ FundLock(p)
    /\ IF disk = << >>
       THEN /\ FundPrestate
            /\ Save(p, [i \in Entries |-> [st |-> "PENDING", tx |-> NoTx]], 1)
       ELSE /\ \A i \in Entries : disk[i].st = "SIGNED" => ~Reverted(disk[i].tx)
            /\ Save(p, disk, 1)
    /\ UNCHANGED <<tool, wire, chainVars>>

(* requireExactSourceStageBalance: only the confirmed entries were spent. *)
StageBalanceExact(p, i) ==
    /\ \A k \in 1..(i - 1) : process[p].mem[k].st = "CONFIRMED"
    /\ Spent(1) = {process[p].mem[k].tx : k \in 1..(i - 1)}
    /\ ~\E t \in pool : t.src = 1

FundSign(p, fee) ==
    /\ tool = "fund" /\ InEntry(p, "PENDING")
    /\ LET i == process[p].i
           t == [entry |-> i, src |-> 1, nonce |-> i - 1, fee |-> fee]
       IN  /\ NonceIs(1, i - 1)
           /\ StageBalanceExact(p, i)
           /\ Received(i) = {}
           /\ Save(p, SetSigned(p, t), i)
    /\ UNCHANGED <<tool, wire, chainVars>>

FundUnsent(p) ==
    /\ tool = "fund" /\ InEntry(p, "SIGNED")
    /\ LET t == Current(p).tx IN Missing(t) /\ NonceIs(1, t.nonce)
    /\ StageBalanceExact(p, process[p].i)
    /\ Goto(p, "send")
    /\ UNCHANGED <<tool, disk, wire, chainVars>>

FundRebroadcast(p) ==
    /\ tool = "fund" /\ InEntry(p, "BROADCAST")
    /\ LET t == Current(p).tx IN Missing(t) /\ NonceIs(1, t.nonce)
    /\ Goto(p, "resend")
    /\ UNCHANGED <<tool, disk, wire, chainVars>>

(* waitForFinalReceipt: the receipt is read, its depth, and both once more.    *)
FundFinal(t) == \E m \in FundReceipt(t) : Deep(m)

FundConfirm(p) ==
    /\ tool = "fund" /\ InEntry(p, "BROADCAST")
    /\ FundFinal(Current(p).tx)
    /\ Received(process[p].i) = {Current(p).tx}
    /\ Save(p, SetState(p, "CONFIRMED"), process[p].i + 1)
    /\ UNCHANGED <<tool, wire, chainVars>>

FundRevalidate(p) ==
    /\ tool = "fund" /\ InEntry(p, "CONFIRMED")
    /\ FundFinal(Current(p).tx)
    /\ NextEntry(p)
    /\ UNCHANGED <<tool, disk, wire, chainVars>>

(* validateFinalBalanceDeltas *)
FundFinish(p) ==
    /\ tool = "fund" /\ At(p, "entry") /\ process[p].i > EntryCount
    /\ Spent(1) = {process[p].mem[k].tx : k \in Entries}
    /\ \A k \in Entries : Received(k) = {process[p].mem[k].tx}
    /\ process' = [process EXCEPT ![p] = Off]
    /\ UNCHANGED <<tool, disk, wire, chainVars>>

--------------------------------------------------------------------------------
(* cmd/walletapprove *)

ApproveStart(p) ==
    /\ tool = "approve" /\ At(p, "off") /\ ApproveLock(p)
    /\ LET j == IF disk = << >> THEN [i \in Entries |-> [st |-> "PENDING", tx |-> NoTx]] ELSE disk
       IN  /\ \A i \in Entries : j[i].st = "PENDING" => Allowance(i) # Other
           /\ Save(p, j, 1)
    /\ UNCHANGED <<tool, wire, chainVars>>

(* classifyInitialAllowance: exact is done, zero is to do, another is refused. *)
AlreadyApproved(i) == Allowance(i) = Exact
NotYetApproved(i)  == Allowance(i) = 0

ApproveAlready(p) ==
    /\ tool = "approve"
    /\ \/ InEntry(p, "PENDING") /\ AlreadyApproved(process[p].i)
          /\ Save(p, SetState(p, "ALREADY_APPROVED"), process[p].i + 1)
       \/ InEntry(p, "SIGNED") /\ Missing(Current(p).tx)
          /\ NonceIs(1, Current(p).tx.nonce) /\ AlreadyApproved(process[p].i)
          /\ Save(p, SetState(p, "SIGNED_NOT_BROADCAST_ALREADY_APPROVED"), process[p].i + 1)
    /\ UNCHANGED <<tool, wire, chainVars>>

ApproveSign(p, fee) ==
    /\ tool = "approve" /\ InEntry(p, "PENDING") /\ NotYetApproved(process[p].i)
    /\ \E n \in 0..MaxHeight :
          /\ NonceIs(1, n)
          /\ Save(p, SetSigned(p, [entry |-> process[p].i, src |-> 1, nonce |-> n, fee |-> fee]), process[p].i)
    /\ UNCHANGED <<tool, wire, chainVars>>

ApproveUnsent(p) ==
    /\ tool = "approve" /\ InEntry(p, "SIGNED")
    /\ LET t == Current(p).tx IN Missing(t) /\ NonceIs(1, t.nonce)
    /\ NotYetApproved(process[p].i)
    /\ Goto(p, "send")
    /\ UNCHANGED <<tool, disk, wire, chainVars>>

ApproveRebroadcast(p) ==
    /\ tool = "approve" /\ InEntry(p, "BROADCAST")
    /\ LET t == Current(p).tx IN Missing(t) /\ NonceIs(1, t.nonce)
    /\ NotYetApproved(process[p].i)
    /\ Goto(p, "resend")
    /\ UNCHANGED <<tool, disk, wire, chainVars>>

ApproveFinal(t) == \E m \in ApproveReceipt(t) : Deep(m)

ApproveConfirm(p) ==
    /\ tool = "approve" /\ InEntry(p, "BROADCAST")
    /\ ApproveFinal(Current(p).tx) /\ Allowance(process[p].i) = Exact
    /\ Save(p, SetState(p, "CONFIRMED"), process[p].i + 1)
    /\ UNCHANGED <<tool, wire, chainVars>>

ApproveRevalidate(p) ==
    /\ tool = "approve"
    /\ \/ InEntry(p, "CONFIRMED") /\ ApproveFinal(Current(p).tx)
       \/ InEntry(p, "ALREADY_APPROVED")
       \/ InEntry(p, "SIGNED_NOT_BROADCAST_ALREADY_APPROVED")
    /\ Allowance(process[p].i) = Exact
    /\ NextEntry(p)
    /\ UNCHANGED <<tool, disk, wire, chainVars>>

ApproveFinish(p) ==
    /\ tool = "approve" /\ At(p, "entry") /\ process[p].i > EntryCount
    /\ \A k \in Entries : Allowance(k) = Exact
    /\ process' = [process EXCEPT ![p] = Off]
    /\ UNCHANGED <<tool, disk, wire, chainVars>>

--------------------------------------------------------------------------------
(* cmd/walletdepositfund: no lock, every entry is signed when the journal is   *)
(* created, a transaction that vanished after the broadcast is not sent again. *)

(* requireUnchangedPrestate *)
DepositPrestate(i) == /\ NonceIs(Source(i), 0) /\ Spent(Source(i)) = {}
                      /\ Received(i) = {}

DepositStart(p, fee) ==
    /\ tool = "deposit" /\ At(p, "off")
    /\ IF disk = << >>
       THEN /\ \A i \in Entries : DepositPrestate(i)
            /\ Save(p, [i \in Entries |->
                         [st |-> "SIGNED", tx |-> [entry |-> i, src |-> i, nonce |-> 0, fee |-> fee]]], 1)
       ELSE Save(p, disk, 1)
    /\ UNCHANGED <<tool, wire, chainVars>>

DepositUnsent(p) ==
    /\ tool = "deposit" /\ InEntry(p, "SIGNED")
    /\ Missing(Current(p).tx) /\ DepositPrestate(process[p].i)
    /\ Goto(p, "send")
    /\ UNCHANGED <<tool, disk, wire, chainVars>>

(* verifyConfirmedBalances *)
DepositBalancesExact(p) ==
    /\ Spent(Source(process[p].i)) = {Current(p).tx}
    /\ Received(process[p].i) = {Current(p).tx}

(* As a mutant: a receipt in the latest block will do. *)
DepositFinalAtOnce(t) == DepositReceipt(t) # {}
DepositFinal(t) == \E m \in DepositReceipt(t) : Deep(m)

DepositConfirm(p) ==
    /\ tool = "deposit" /\ InEntry(p, "BROADCAST")
    /\ DepositFinal(Current(p).tx) /\ DepositBalancesExact(p)
    /\ Save(p, SetState(p, "CONFIRMED"), process[p].i + 1)
    /\ UNCHANGED <<tool, wire, chainVars>>

DepositRevalidate(p) ==
    /\ tool = "deposit" /\ InEntry(p, "CONFIRMED")
    /\ DepositFinal(Current(p).tx) /\ DepositBalancesExact(p)
    /\ NextEntry(p)
    /\ UNCHANGED <<tool, disk, wire, chainVars>>

--------------------------------------------------------------------------------
(* Sending, in all three commands *)

(* The signed transaction is found at the node: it was broadcast before. *)
Recover(p) ==
    /\ InEntry(p, "SIGNED")
    /\ LET t == Current(p).tx
       IN  Found(t) \/ (tool = "deposit" /\ ~Missing(t))
    /\ Goto(p, "broadcast")
    /\ UNCHANGED <<tool, disk, wire, chainVars>>

(* eth_sendRawTransaction is answered with the hash. *)
SendAccepted(p) ==
    /\ process[p].pc \in {"send", "resend"} /\ Acceptable(Current(p).tx)
    /\ pool' = pool \cup {Current(p).tx}
    /\ Goto(p, IF At(p, "send") THEN "broadcast" ELSE "entry")
    /\ UNCHANGED <<tool, disk, wire, mined, height, final, foreign, reorgs>>

(* It fails, yet the node may have it or may still get it: look it up once. *)
SendAmbiguous(p) ==
    /\ process[p].pc \in {"send", "resend"}
    /\ wire' = wire \cup {Current(p).tx}
    /\ process' = [process EXCEPT ![p] =
          IF tool # "deposit" /\ Found(Current(p).tx)
          THEN [@ EXCEPT !.pc = IF @ = "send" THEN "broadcast" ELSE "entry"]
          ELSE Off]
    /\ UNCHANGED <<tool, disk, chainVars>>

SaveBroadcast(p) ==
    /\ At(p, "broadcast")
    /\ Save(p, SetState(p, "BROADCAST"), process[p].i)
    /\ UNCHANGED <<tool, wire, chainVars>>

ToolNext(p) ==
    \/ Exit(p) \/ Recover(p) \/ SendAccepted(p) \/ SendAmbiguous(p) \/ SaveBroadcast(p)
    \/ FundStart(p) \/ FundUnsent(p) \/ FundRebroadcast(p) \/ FundConfirm(p)
    \/ FundRevalidate(p) \/ FundFinish(p)
    \/ ApproveStart(p) \/ ApproveAlready(p) \/ ApproveUnsent(p) \/ ApproveRebroadcast(p)
    \/ ApproveConfirm(p) \/ ApproveRevalidate(p) \/ ApproveFinish(p)
    \/ DepositUnsent(p) \/ DepositConfirm(p) \/ DepositRevalidate(p)
    \/ \E fee \in Quotes : FundSign(p, fee) \/ ApproveSign(p, fee) \/ DepositStart(p, fee)

WalletNext == ChainNext \/ \E p \in Processes : ToolNext(p)

WalletSpec == WalletInit /\ [][WalletNext]_walletVars

--------------------------------------------------------------------------------

(* The three commands implement the plan: counted in irreversible blocks,      *)
(* every payment is made at most once and in the order of the plan.            *)
Plan == INSTANCE OneShotPlan WITH
            PlanLength <- EntryCount,
            paid <- [i \in Entries |->
                Cardinality({m \in mined : m.tx.entry = i /\ m.tx.fee # 0 /\ m.ok /\ m.at <= final})]
PlanIsKept == Plan!PlanSpec
================================================================================
