----------------------------- MODULE OrderState -----------------------------
(***************************************************************************)
(* The order state machine shared by every writer of an order row:         *)
(* internal/domain/order.go (statuses and legal edges) and                 *)
(* internal/domain/orderstate/machine.go (the checks Apply makes on the    *)
(* cumulative fill before it accepts an edge).                             *)
(***************************************************************************)
EXTENDS Integers

\* Before any venue request of the order can exist.
PreSubmit == {"RECEIVED", "VALIDATING", "RESERVED"}

\* The venue accepted the order and it may still rest on the book.
Working == {"ACKNOWLEDGED", "LIVE", "PARTIALLY_FILLED"}

TerminalStatuses == {"FILLED", "CANCELLED", "REJECTED", "MANUAL_REVIEW"}

OrderStatuses ==
    PreSubmit \cup Working \cup TerminalStatuses
    \cup {"SUBMITTING", "CANCEL_PENDING", "UNKNOWN", "RECONCILING"}

Terminal(s) == s \in TerminalStatuses

\* The edges out of each status besides the self edge.
Successors(s) ==
    CASE s = "RECEIVED"         -> {"VALIDATING"}
      [] s = "VALIDATING"       -> {"RESERVED", "REJECTED"}
      [] s = "RESERVED"         -> {"SUBMITTING", "REJECTED"}
      [] s = "SUBMITTING"       -> {"ACKNOWLEDGED", "UNKNOWN", "REJECTED"}
      [] s = "ACKNOWLEDGED"     -> {"LIVE", "PARTIALLY_FILLED", "FILLED", "CANCELLED",
                                    "CANCEL_PENDING", "UNKNOWN", "RECONCILING"}
      [] s = "LIVE"             -> {"PARTIALLY_FILLED", "FILLED", "CANCELLED",
                                    "CANCEL_PENDING", "UNKNOWN", "RECONCILING"}
      [] s = "PARTIALLY_FILLED" -> {"FILLED", "CANCELLED", "CANCEL_PENDING",
                                    "UNKNOWN", "RECONCILING"}
      [] s = "CANCEL_PENDING"   -> {"CANCELLED", "LIVE", "PARTIALLY_FILLED", "FILLED",
                                    "UNKNOWN", "RECONCILING"}
      [] s = "UNKNOWN"          -> {"RECONCILING"}
      [] s = "RECONCILING"      -> {"ACKNOWLEDGED", "LIVE", "PARTIALLY_FILLED", "FILLED",
                                    "CANCELLED", "REJECTED", "UNKNOWN", "MANUAL_REVIEW"}
      [] s \in {"CANCELLED", "MANUAL_REVIEW"} -> {"FILLED"}
      [] OTHER                  -> {}

CanTransitionTo(s, t) == t = s \/ t \in Successors(s)

\* The status an order may be given with a cumulative fill of `filled` out of
\* `size`; `improves` is AllowsBuySharePriceImprovement, which lets the fill
\* exceed the size.
FillStateAllows(t, filled, size, improves) ==
    /\ t = "PARTIALLY_FILLED" => 0 < filled /\ filled < size
    /\ t = "FILLED" => filled = size \/ (filled > size /\ improves)
    /\ t = "REJECTED" => filled = 0

\* The fill ledger first acknowledges a submitted order, or starts to
\* reconcile an unknown one, in the transaction that books the fill.
EntryStatus(s) ==
    CASE s = "SUBMITTING" -> "ACKNOWLEDGED" [] s = "UNKNOWN" -> "RECONCILING" [] OTHER -> s

\* The edges by which a fill takes status s to t are legal; an immediate order
\* passes through PARTIALLY_FILLED before it is CANCELLED.
FillEdgesAllowed(s, t, filled, size, improves) ==
    LET entry == EntryStatus(s)
        first == IF t = "CANCELLED" /\ entry # "CANCELLED" THEN "PARTIALLY_FILLED" ELSE t
    IN CanTransitionTo(entry, first) /\ FillStateAllows(first, filled, size, improves)
=============================================================================
