--------------------------- MODULE OrderLifecycle ---------------------------
(***************************************************************************)
(* What an order promises to guest and hotel, without any of the machinery *)
(* that carries it out: the statuses of db/schema/orders.ts and            *)
(* db/schema/bookings.ts and the only ways they may move together.  Money  *)
(* is the set of receipts on file; nothing takes a receipt back here.      *)
(***************************************************************************)
CONSTANTS Lines, Receipts

VARIABLES order, line, money

lifecycle == <<order, line, money>>

Pending == {l \in Lines : line[l] = "pending_payment"}

Begin ==
    /\ order = "pending_payment"
    /\ line = [l \in Lines |-> "pending_payment"]
    /\ money = {}

TakeMoney ==
    /\ money' \in SUBSET Receipts
    /\ money \subseteq money'
    /\ UNCHANGED <<order, line>>

(* All pending lines are confirmed at once, and only with money on file. *)
Confirm ==
    /\ order = "pending_payment" /\ order' = "confirmed"
    /\ line' = [l \in Lines |-> IF l \in Pending THEN "confirmed" ELSE line[l]]
    /\ money' \in SUBSET Receipts
    /\ money \subseteq money' /\ money' # {}

(* The hold lapses: every line still pending gives its room back. *)
Release ==
    /\ order = "pending_payment" /\ order' = "cancelled"
    /\ line' = [l \in Lines |-> IF l \in Pending THEN "cancelled" ELSE line[l]]
    /\ UNCHANGED money

(* A line is cancelled; the order goes with its last line, never before. *)
CancelLine(l) ==
    /\ line[l] \in {"pending_payment", "confirmed"}
    /\ line' = [line EXCEPT ![l] = "cancelled"]
    /\ \/ UNCHANGED order
       \/ order' = "cancelled" /\ \A k \in Lines : line'[k] = "cancelled"
    /\ UNCHANGED money

Step == TakeMoney \/ Confirm \/ Release \/ \E l \in Lines : CancelLine(l)

Lifecycle == Begin /\ [][Step]_lifecycle
=============================================================================
