---------------------------- MODULE FillEvidence ----------------------------
(***************************************************************************)
(* How a trade of an order becomes a booked fill: the rows the CLOB lists, *)
(* the receipt of the settlement transaction read through a pool of RPC    *)
(* nodes that lag and have not all seen the last reorganisation, the fee   *)
(* the receipt shows, and the fill row the ledger keeps.                   *)
(*                                                                         *)
(* A block is 0, or the number of the inclusion of the settlement          *)
(* transaction it holds: a transaction that a reorganisation drops and     *)
(* that is mined again sits in another block with another hash.  `branch'  *)
(* is the canonical chain, views[n] the chain node n serves.               *)
(***************************************************************************)
EXTENDS Integers, FiniteSets, Sequences

CONSTANTS
    RpcNodes,        \* the backends behind the RPC URL
    RequiredDepth,   \* requiredConfirmations
    ToleratedLag,    \* maxTolerableLatestBlockLag
    NodeLag,         \* no backend is more than this many blocks behind
    ReorgDepth,      \* no reorganisation replaces more than this many blocks
    MaxBlocks,       \* bound: length of the chain
    MaxInclusions,   \* bound: times the transaction is mined
    WireRows         \* the shapes in which the CLOB lists the trade

ASSUME FillEvidenceConstants ==
    /\ RequiredDepth \in Nat \ {0} /\ ToleratedLag \in Nat
    /\ NodeLag \in Nat /\ ReorgDepth \in Nat
    /\ RequiredDepth > NodeLag + ReorgDepth
    /\ MaxBlocks \in Nat /\ MaxInclusions \in Nat

VARIABLES branch, inclusions, views, trade, wireRow, mark, reading, fillRow

evidenceVars ==
    <<branch, inclusions, views, trade, wireRow, mark, reading, fillRow>>

Unread == [at |-> "idle", row |-> "none", block |-> 0, height |-> 0, head |-> 0]

NoFill == [status |-> "none", block |-> 0]

-----------------------------------------------------------------------------
(* The rows of the trade.                                                  *)

FillStatuses == {"MATCHED", "MINED", "RETRYING", "CONFIRMED", "FAILED"}

TerminalFill(s) == s \in {"CONFIRMED", "FAILED"}

MayBecome(s, t) ==
    \/ s = t
    \/ /\ ~TerminalFill(s)
       /\ t \in CASE s = "MATCHED"  -> FillStatuses \ {"MATCHED"}
                  [] s = "MINED"    -> {"RETRYING", "CONFIRMED", "FAILED"}
                  [] s = "RETRYING" -> FillStatuses \ {"RETRYING"}

OwnMakers(w) == {m \in w.makers : m.own}

\* "" is an order id the row omits; the empty set stands for the error.
AccountTradeComponents(w) ==
    LET makers == {m.order : m \in OwnMakers(w)}
        taker  == IF w.top THEN {w.taker} \ {""} ELSE {}
    IN  CASE "" \in makers     -> {}
          [] w.side = "TAKER"  -> taker
          [] w.side = "MAKER"  -> makers
          [] w.side = ""       -> taker \cup makers
          [] OTHER             -> {}

ListsOrder(w) == w.taker = "ours" \/ \E m \in w.makers : m.order = "ours"

OrderComponentOwned(w) == "ours" \in AccountTradeComponents(w)

\* "conflict" stands for the error of two terminal states.
PreferTradeObservation(s, t) ==
    CASE MayBecome(s, t) -> t
      [] ~MayBecome(s, t) /\ MayBecome(t, s) -> s
      [] OTHER -> "conflict"

-----------------------------------------------------------------------------
(* The chain and its nodes.                                                *)

HoldsTrade(c) == {h \in 1..Len(c) : c[h] > 0}

EvidenceInit ==
    /\ branch = <<0>> /\ inclusions = 0
    /\ views = [n \in RpcNodes |-> <<0>>]
    /\ trade = "MATCHED" /\ wireRow \in WireRows
    /\ mark = 0 /\ reading = Unread /\ fillRow = NoFill

\* A block is mined, with the transaction in it or not.
MineBlock ==
    /\ Len(branch) < MaxBlocks
    /\ \A n \in RpcNodes : Len(branch) + 1 - Len(views[n]) <= NodeLag
    /\ \E held \in {0, inclusions + 1} :
          /\ held > 0 => /\ HoldsTrade(branch) = {} /\ trade # "FAILED"
                         /\ inclusions < MaxInclusions
          /\ branch' = Append(branch, held)
          /\ inclusions' = IF held > 0 THEN held ELSE inclusions
    /\ UNCHANGED <<views, trade, wireRow, mark, reading, fillRow>>

\* The newest blocks are replaced by an empty branch of the same length.
ReplaceBlocks ==
    /\ \E k \in 1..ReorgDepth :
          /\ k < Len(branch)
          /\ HoldsTrade(branch) \cap (Len(branch) - k + 1)..Len(branch) # {}
          /\ branch' = [h \in 1..Len(branch) |->
                           IF h > Len(branch) - k THEN 0 ELSE branch[h]]
    /\ UNCHANGED <<inclusions, views, trade, wireRow, mark, reading, fillRow>>

NodeFollows(n) ==
    /\ views[n] # branch
    /\ views' = [views EXCEPT ![n] = branch]
    /\ UNCHANGED <<branch, inclusions, trade, wireRow, mark, reading, fillRow>>

\* The venue fails a trade only when its transaction can no longer be mined.
VenueReports(t) ==
    /\ trade # t /\ MayBecome(trade, t)
    /\ t \in {"MINED", "CONFIRMED"} => HoldsTrade(branch) # {}
    /\ t \in {"RETRYING", "FAILED"} => HoldsTrade(branch) = {}
    /\ trade' = t
    /\ UNCHANGED <<branch, inclusions, views, wireRow, mark, reading, fillRow>>

-----------------------------------------------------------------------------
(* ListOrderFills and the receipt it reads.                                *)

\* The first page; a row of an order of another wallet ends the scan.
ListFirstPage ==
    /\ reading.at = "idle" /\ fillRow.status # "CONFIRMED"
    /\ ListsOrder(wireRow) /\ OrderComponentOwned(wireRow)
    /\ reading' = [Unread EXCEPT !.at = "paging", !.row = trade]
    /\ UNCHANGED <<branch, inclusions, views, trade, wireRow, mark, fillRow>>

\* A later page may hold the trade again.  A scan whose trade is not
\* terminal ends in an error, one whose trade failed returns no fill.
ListLastPage(again) ==
    /\ reading.at = "paging"
    /\ LET row == IF again THEN PreferTradeObservation(reading.row, trade)
                           ELSE reading.row
       IN  reading' = IF row = "CONFIRMED"
                      THEN [reading EXCEPT !.at = "receipt", !.row = row]
                      ELSE Unread
    /\ UNCHANGED <<branch, inclusions, views, trade, wireRow, mark, fillRow>>

ReadReceipt(n) ==
    /\ reading.at = "receipt"
    /\ reading' = IF HoldsTrade(views[n]) = {} THEN Unread
                  ELSE LET h == CHOOSE x \in HoldsTrade(views[n]) : TRUE
                       IN  [reading EXCEPT !.at = "head", !.height = h,
                                           !.block = views[n][h]]
    /\ UNCHANGED <<branch, inclusions, views, trade, wireRow, mark, fillRow>>

Regressed(latest) == mark > 0 /\ latest < mark /\ mark - latest > ToleratedLag

ObserveLatestBlock(latest) ==
    mark' = IF ~Regressed(latest) /\ latest > mark THEN latest ELSE mark

ReadHead(n) ==
    /\ reading.at = "head"
    /\ LET latest == Len(views[n])
       IN  /\ ObserveLatestBlock(latest)
           /\ reading' = IF Regressed(latest) \/ latest < reading.height THEN Unread
                         ELSE [reading EXCEPT !.at = "again", !.head = latest]
    /\ UNCHANGED <<branch, inclusions, views, trade, wireRow, fillRow>>

ReadReceiptAgain(n) ==
    /\ reading.at = "again"
    /\ reading' = IF reading.height \in HoldsTrade(views[n])
                     /\ views[n][reading.height] = reading.block
                  THEN [reading EXCEPT !.at = "confirm"]
                  ELSE Unread
    /\ UNCHANGED <<branch, inclusions, views, trade, wireRow, mark, fillRow>>

ConfirmedHeadLatest(first, second) == second

ConfirmedHead(first, second) == IF first < second THEN first ELSE second

\* The second head, the depth, and the fill row of the ledger.  A receipt
\* that is too shallow is a MINED row; one that differs from the row of an
\* earlier receipt is a conflict and changes nothing.
ReadHeadAgain(n) ==
    /\ reading.at = "confirm"
    /\ LET latest == Len(views[n])
           head   == ConfirmedHead(reading.head, latest)
           fell   == latest < reading.head /\ reading.head - latest > ToleratedLag
           status == IF head - reading.height + 1 >= RequiredDepth
                     THEN "CONFIRMED" ELSE "MINED"
       IN  /\ IF fell THEN mark' = mark ELSE ObserveLatestBlock(latest)
           /\ fillRow' =
                 IF fell \/ Regressed(latest) \/ head < reading.height
                    \/ (fillRow.status # "none" /\ fillRow.block # reading.block)
                 THEN fillRow
                 ELSE [status |-> status, block |-> reading.block]
    /\ reading' = Unread
    /\ UNCHANGED <<branch, inclusions, views, trade, wireRow>>

\* A call fails, or times out, and with it the scan.
ScanFails ==
    /\ reading.at # "idle"
    /\ reading' = Unread
    /\ UNCHANGED <<branch, inclusions, views, trade, wireRow, mark, fillRow>>

EvidenceNext ==
    \/ MineBlock
    \/ ReplaceBlocks
    \/ \E n \in RpcNodes : NodeFollows(n)
    \/ \E t \in FillStatuses : VenueReports(t)
    \/ ListFirstPage
    \/ \E again \in BOOLEAN : ListLastPage(again)
    \/ \E n \in RpcNodes : ReadReceipt(n)
    \/ \E n \in RpcNodes : ReadHead(n)
    \/ \E n \in RpcNodes : ReadReceiptAgain(n)
    \/ \E n \in RpcNodes : ReadHeadAgain(n)
    \/ ScanFails

EvidenceSpec == EvidenceInit /\ [][EvidenceNext]_evidenceVars

-----------------------------------------------------------------------------
(* A fill that moved money stays on the chain.  Whatever node answers each *)
(* of the four reads, and however the chain grows or reorganises between   *)
(* them, the block of a CONFIRMED fill row is in the canonical chain: the  *)
(* depth is counted from a head read before the receipt was seen a second  *)
(* time, so a slow last read cannot make a shallow or an orphaned receipt  *)
(* look final.                                                             *)
BookedStaysOnChain ==
    fillRow.status = "CONFIRMED" =>
        \E h \in 1..Len(branch) : branch[h] = fillRow.block

=============================================================================
