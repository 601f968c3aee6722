---------------------------- MODULE DiningOrders ----------------------------
(***************************************************************************)
(* Restaurant orders and their money (dining-orders.ts, dining-online.ts,  *)
(* dining-room-charge.ts, the clearing of a table in dining-checks.ts):    *)
(* the kitchen cooks an order while it is paid at the till, paid online,   *)
(* put on a guest's room bill, taken off it again, voided, refunded,       *)
(* cancelled or cleared away, by several members of staff at once.         *)
(*                                                                         *)
(* A transaction that locks the order's row first and decides by what it   *)
(* then reads is one action.  A handler that reads without a lock keeps    *)
(* what it read in its job.                                                *)
(***************************************************************************)
EXTENDS Integers

CONSTANTS
    Orders, NoOrder,
    Movements, NoMovement,  \* rows that cash_movements may get
    Charges, NoCharge,      \* rows that folio_charges may get for dining orders
    Stations,               \* kitchen stations that an order has dishes for
    Voiders,                \* voidDiningOrderPayment, voidDiningOrder
    Undoers,                \* undoDiningRoomCharge, the front desk's voidFolioCharge
    Guests,                 \* requestDiningCancellation
    Issuers,                \* issueDiningDocument
    Refunders,              \* recordDiningRefund
    Clearers,               \* forceClearCheck, one for each order of the table
    Total,                  \* what an order costs
    Checkouts               \* bound: payments PayMongo takes for one order

Handlers ==
    Voiders \union Undoers \union Guests \union Issuers \union Refunders \union Clearers

ASSUME NamesAssumption ==
    /\ NoOrder \notin Orders /\ NoMovement \notin Movements /\ NoCharge \notin Charges
    /\ Total \in Nat \ {0} /\ Checkouts \in Nat

VARIABLES
    status,     \* dining_orders.status, "none" before the order is placed
    pay,        \* dining_orders.payment_status
    method,     \* dining_orders.payment_method, "paymongo" or a till method
    entry,      \* dining_orders.cash_movement_id
    line,       \* dining_orders.folio_charge_id
    checkout,   \* orders with pay_mode "online"
    asked,      \* orders with cancel_requested_at
    online,     \* [Orders -> Nat]: paid rows of dining_payments
    refunded,   \* [Orders -> Nat]: the sum of its refund rows
    movement,   \* cash_movements: whose it is and how often it was reversed
    charge,     \* folio_charges: whose it is and whether it is voided
    receipt,    \* orders with an official receipt in force
    billOpen,   \* folios.status of the room bill is "open"
    stage,      \* [Orders -> [Stations -> ...]]: started_at and ready_at of the dishes
    forced,     \* orders with an audit entry dining_order.force_served
    job

money == <<pay, method, entry, line, online, refunded, movement, charge, receipt, billOpen>>
kitchen == <<status, checkout, asked, stage, forced>>
vars == <<kitchen, job, money>>

Status == {"none", "pending_payment", "pending_acceptance", "new", "preparing", "ready",
           "served", "cancelled"}
PaymentStatus == {"unpaid", "paid", "room_charged", "refunded"}
Methods == {"none", "till", "paymongo"}
DishStages == {"waiting", "started", "ready"}

Movement == [of : Orders \union {NoOrder}, reversed : Nat]
Charge == [of : Orders \union {NoOrder}, voided : BOOLEAN]

Steps == {"idle", "look", "open", "reverse", "receipt", "clear", "cancel", "cancelPaid",
          "undo", "unbill", "ask", "issue", "refund", "serve"}

Job == [at : Steps, order : Orders \union {NoOrder}, entry : Movements \union {NoMovement},
        line : Charges \union {NoCharge},
        cancels : BOOLEAN,      \* voidDiningOrder goes on to cancel the order
        amount : Nat, already : Nat]

Idle == [at |-> "idle", order |-> NoOrder, entry |-> NoMovement, line |-> NoCharge,
         cancels |-> FALSE, amount |-> 0, already |-> 0]

Init ==
    /\ status = [o \in Orders |-> "none"]
    /\ pay = [o \in Orders |-> "unpaid"]
    /\ method = [o \in Orders |-> "none"]
    /\ entry = [o \in Orders |-> NoMovement]
    /\ line = [o \in Orders |-> NoCharge]
    /\ checkout = {}
    /\ asked = {}
    /\ online = [o \in Orders |-> 0]
    /\ refunded = [o \in Orders |-> 0]
    /\ movement = [m \in Movements |-> [of |-> NoOrder, reversed |-> 0]]
    /\ charge = [c \in Charges |-> [of |-> NoOrder, voided |-> FALSE]]
    /\ receipt = {}
    /\ billOpen = TRUE
    /\ stage = [o \in Orders |-> [s \in Stations |-> "waiting"]]
    /\ forced = {}
    /\ job = [h \in Handlers |-> Idle]

----------------------------------------------------------------------------
\* ORDER_TRANSITIONS without "accepted", a step no page offers.
Transitions ==
    [none |-> {},
     pending_payment |-> {"new", "cancelled"},
     pending_acceptance |-> {"new", "cancelled"},
     new |-> {"preparing", "cancelled"},
     preparing |-> {"ready", "cancelled"},
     ready |-> {"served", "cancelled"},
     served |-> {},
     cancelled |-> {}]

CanMove(o, to) == to \in Transitions[status[o]]

Live(m, o) == movement[m].of = o /\ movement[m].reversed = 0
OnBill(c, o) == charge[c].of = o /\ ~charge[c].voided

\* createDiningOrder: staff, table QR, online to be paid on collection or online now.
PlaceOrder(o) ==
    /\ status[o] = "none"
    /\ \E s \in {"new", "pending_acceptance", "pending_payment"} :
           /\ status' = [status EXCEPT ![o] = s]
           /\ checkout' = IF s = "pending_payment" THEN checkout \union {o} ELSE checkout
    /\ UNCHANGED <<asked, stage, forced, job, money>>

\* Mutant: the step of ORDER_TRANSITIONS that the pages do not know.
AcceptOrderPlain(o) ==
    /\ status[o] = "pending_acceptance"
    /\ status' = [status EXCEPT ![o] = "accepted"]
    /\ UNCHANGED <<checkout, asked, stage, forced, job, money>>

\* acceptOrder
AcceptOrder(o) ==
    /\ status[o] = "pending_acceptance"
    /\ status' = [status EXCEPT ![o] = "new"]
    /\ UNCHANGED <<checkout, asked, stage, forced, job, money>>

\* declineOrder: a paid order stays paid, so that its refund is due.
DeclineOrder(o) ==
    /\ status[o] = "pending_acceptance"
    /\ status' = [status EXCEPT ![o] = "cancelled"]
    /\ UNCHANGED <<checkout, asked, stage, forced, job, money>>

\* Mutant: the order is ready as soon as one station is.
ReadyTooSoon(stages) ==
    IF \E s \in Stations : stages[s] = "ready" THEN "ready"
    ELSE IF \E s \in Stations : stages[s] # "waiting" THEN "preparing" ELSE "new"

\* orderStateFromStations
OrderState(stages) ==
    IF \A s \in Stations : stages[s] = "ready" THEN "ready"
    ELSE IF \E s \in Stations : stages[s] # "waiting" THEN "preparing" ELSE "new"

\* setStationStatus: one station, or all of them, start or finish their dishes.
StationWorks(o, mine, to) ==
    /\ status[o] \in {"new", "preparing"}
    /\ to = "ready" /\ status[o] = "new" => \A s \in mine : stage[o][s] # "waiting"
    /\ LET after == [s \in Stations |->
                        IF s \notin mine THEN stage[o][s]
                        ELSE IF to = "ready" \/ stage[o][s] = "ready" THEN "ready"
                        ELSE "started"]
       IN /\ stage' = [stage EXCEPT ![o] = after]
          /\ status' = [status EXCEPT ![o] =
                           IF OrderState(after) = "new" THEN @ ELSE OrderState(after)]
    /\ UNCHANGED <<checkout, asked, forced, job, money>>

\* setDiningOrderStatus: serving is the one move the pages make with it (forceClearCheck, below,
\* writes the status without it).
ServeOrder(o) ==
    /\ CanMove(o, "served")
    /\ status' = [status EXCEPT ![o] = "served"]
    /\ UNCHANGED <<checkout, asked, stage, forced, job, money>>

\* cancelDiningOrder
CancelOrder(o) ==
    /\ pay[o] = "unpaid"
    /\ CanMove(o, "cancelled")
    /\ status' = [status EXCEPT ![o] = "cancelled"]
    /\ UNCHANGED <<checkout, asked, stage, forced, job, money>>

\* cancelDiningOrderAsGuest
GuestCancels(o) ==
    /\ pay[o] = "unpaid"
    /\ status[o] \in {"pending_payment", "pending_acceptance", "new"}
    /\ status' = [status EXCEPT ![o] = "cancelled"]
    /\ UNCHANGED <<checkout, asked, stage, forced, job, money>>

\* respondToDiningCancellation looks at the request and the status, not at the payment.
RequestAnswered(o, approve) ==
    /\ o \in asked
    /\ approve => status[o] \in {"pending_acceptance", "new", "preparing"}
    /\ asked' = asked \ {o}
    /\ status' = IF approve THEN [status EXCEPT ![o] = "cancelled"] ELSE status
    /\ UNCHANGED <<checkout, stage, forced, job, money>>

\* expirePendingDiningOrders
ExpireOrder(o) ==
    /\ status[o] = "pending_payment"
    /\ status' = [status EXCEPT ![o] = "cancelled"]
    /\ UNCHANGED <<checkout, asked, stage, forced, job, money>>

----------------------------------------------------------------------------
Free(m) == movement[m].of = NoOrder

\* recordCashMovement for an order.
Posted(m, o) == movement' = [movement EXCEPT ![m].of = o]

\* payDiningOrder; what it read before its transaction is read again under the order's lock.  It
\* refuses cancelled orders and those not unpaid: that it is not called for one that waits for
\* its online payment is the board's doing, which does not list it, and no order returns to that.
PayOrder(o, m) ==
    /\ status[o] \notin {"none", "pending_payment", "cancelled"}
    /\ pay[o] = "unpaid"
    /\ Free(m)
    /\ Posted(m, o)
    /\ pay' = [pay EXCEPT ![o] = "paid"]
    /\ method' = [method EXCEPT ![o] = "till"]
    /\ entry' = [entry EXCEPT ![o] = m]
    /\ UNCHANGED <<kitchen, job, line, online, refunded, charge, receipt, billOpen>>

\* confirmDiningPayment; m = NoMovement when posting is off or refused.
OnlinePaid(o, m) ==
    /\ o \in checkout
    /\ online[o] < Checkouts
    /\ m # NoMovement => Free(m)
    /\ movement' = IF m = NoMovement THEN movement ELSE [movement EXCEPT ![m].of = o]
    /\ online' = [online EXCEPT ![o] = @ + 1]
    /\ IF status[o] # "pending_payment" /\ pay[o] = "paid"
       THEN UNCHANGED <<pay, method, entry>>
       ELSE /\ pay' = [pay EXCEPT ![o] = "paid"]
            /\ method' = [method EXCEPT ![o] = "paymongo"]
            /\ entry' = [entry EXCEPT ![o] = m]
    /\ IF status[o] = "pending_payment"
       THEN \E s \in {"pending_acceptance", "new"} : status' = [status EXCEPT ![o] = s]
       ELSE UNCHANGED status
    /\ UNCHANGED <<checkout, asked, stage, forced, job, line, refunded, charge, receipt, billOpen>>

\* chargeDiningOrderToRoom; a second live charge of an order breaks a unique index.
ChargeToRoom(o, c) ==
    /\ status[o] \notin {"none", "pending_payment", "cancelled"}
    /\ pay[o] = "unpaid"
    /\ billOpen
    /\ charge[c].of = NoOrder
    /\ \A d \in Charges : ~OnBill(d, o)
    /\ charge' = [charge EXCEPT ![c].of = o]
    /\ line' = [line EXCEPT ![o] = c]
    /\ pay' = [pay EXCEPT ![o] = "room_charged"]
    /\ UNCHANGED <<kitchen, job, method, entry, online, refunded, movement, receipt, billOpen>>

\* The guest settles the bill and checks out.
BillSettled ==
    /\ billOpen
    /\ billOpen' = FALSE
    /\ UNCHANGED <<kitchen, job, pay, method, entry, line, online, refunded, movement, charge, receipt>>

----------------------------------------------------------------------------
Does(h, j) == job' = [job EXCEPT ![h] = j]

\* voidDiningOrderPayment reads the order, ...
VoidRequested(v, o) ==
    /\ job[v] = Idle
    /\ pay[o] = "paid" /\ entry[o] # NoMovement
    /\ Does(v, [Idle EXCEPT !.at = "look", !.order = o, !.entry = entry[o]])
    /\ UNCHANGED <<kitchen, money>>

\* voidDiningOrder: money taken at the till is reversed before the order is cancelled, an
\* online payment stays on record for its refund.
OrderVoidRequested(v, o) ==
    /\ job[v] = Idle
    /\ CanMove(o, "cancelled")
    /\ \/ /\ pay[o] = "paid" /\ method[o] = "paymongo"
          /\ Does(v, [Idle EXCEPT !.at = "cancelPaid", !.order = o])
       \/ /\ pay[o] = "paid" /\ method[o] # "paymongo" /\ entry[o] # NoMovement
          /\ Does(v, [Idle EXCEPT !.at = "look", !.order = o, !.entry = entry[o],
                                  !.cancels = TRUE])
       \/ /\ pay[o] # "paid"
          /\ Does(v, [Idle EXCEPT !.at = "cancel", !.order = o])
    /\ UNCHANGED <<kitchen, money>>

Reversed(v) == movement[job[v].entry].reversed > 0

\* Mutant: the movement is reversed whether or not an earlier attempt did so.
VoidLooksAway(v) ==
    /\ job[v].at = "look"
    /\ Does(v, [job[v] EXCEPT !.at = "reverse"])
    /\ UNCHANGED <<kitchen, money>>

\* ... then whether an earlier attempt has reversed the movement, ...
VoidLooks(v) ==
    /\ job[v].at = "look"
    /\ Does(v, [job[v] EXCEPT !.at = IF Reversed(v) THEN "receipt" ELSE "open"])
    /\ UNCHANGED <<kitchen, money>>

\* ... voidCashMovement reads it again, ...
VoidOpens(v) ==
    /\ job[v].at = "open"
    /\ Does(v, IF Reversed(v) THEN Idle ELSE [job[v] EXCEPT !.at = "reverse"])
    /\ UNCHANGED <<kitchen, money>>

\* ... and reverses it by id, ...
VoidReverses(v) ==
    /\ job[v].at = "reverse"
    /\ movement' = [movement EXCEPT ![job[v].entry].reversed = @ + 1]
    /\ Does(v, [job[v] EXCEPT !.at = "receipt"])
    /\ UNCHANGED <<kitchen, pay, method, entry, line, online, refunded, charge, receipt, billOpen>>

\* ... the receipt is cancelled, or the failure to do so is logged, ...
VoidCancelsReceipt(v) ==
    /\ job[v].at = "receipt"
    /\ receipt' = receipt \ {job[v].order} \/ UNCHANGED receipt
    /\ Does(v, [job[v] EXCEPT !.at = "clear"])
    /\ UNCHANGED <<kitchen, pay, method, entry, line, online, refunded, movement, charge, billOpen>>

\* ... and the order is updated by id.
VoidClears(v) ==
    /\ job[v].at = "clear"
    /\ pay' = [pay EXCEPT ![job[v].order] = "unpaid"]
    /\ method' = [method EXCEPT ![job[v].order] = "none"]
    /\ entry' = [entry EXCEPT ![job[v].order] = NoMovement]
    /\ Does(v, IF job[v].cancels THEN [job[v] EXCEPT !.at = "cancel"] ELSE Idle)
    /\ UNCHANGED <<kitchen, line, online, refunded, movement, charge, receipt, billOpen>>

\* The cancelDiningOrder at the end of voidDiningOrder, under the order's lock; the branch
\* for online payments looks at the status alone.
VoidCancels(v) ==
    /\ job[v].at \in {"cancel", "cancelPaid"}
    /\ IF CanMove(job[v].order, "cancelled")
          /\ (job[v].at = "cancel" => pay[job[v].order] = "unpaid")
       THEN status' = [status EXCEPT ![job[v].order] = "cancelled"]
       ELSE UNCHANGED status
    /\ Does(v, Idle)
    /\ UNCHANGED <<checkout, asked, stage, forced, money>>

----------------------------------------------------------------------------
\* undoDiningRoomCharge checks the order and the bill; the front desk voids any charge.
UndoRequested(u, o) ==
    /\ job[u] = Idle
    /\ pay[o] = "room_charged" /\ line[o] # NoCharge /\ billOpen
    /\ Does(u, [Idle EXCEPT !.at = "undo", !.order = o, !.line = line[o]])
    /\ UNCHANGED <<kitchen, money>>

ChargeVoidRequested(u, c) ==
    /\ job[u] = Idle
    /\ charge[c].of # NoOrder
    /\ Does(u, [Idle EXCEPT !.at = "undo", !.order = charge[c].of, !.line = c])
    /\ UNCHANGED <<kitchen, money>>

\* voidFolioCharge reads the charge, ...
UndoOpens(u) ==
    /\ job[u].at = "undo"
    /\ Does(u, IF charge[job[u].line].voided THEN Idle ELSE [job[u] EXCEPT !.at = "unbill"])
    /\ UNCHANGED <<kitchen, money>>

\* Mutant: the order is left as it was.
UndoVoidsOnly(u) ==
    /\ job[u].at = "unbill"
    /\ charge' = [charge EXCEPT ![job[u].line].voided = TRUE]
    /\ Does(u, Idle)
    /\ UNCHANGED <<kitchen, pay, method, entry, line, online, refunded, movement, receipt, billOpen>>

\* ... voids it by id and resets the order if it is on a room bill, in one transaction.
UndoVoids(u) ==
    /\ job[u].at = "unbill"
    /\ charge' = [charge EXCEPT ![job[u].line].voided = TRUE]
    /\ IF pay[job[u].order] = "room_charged"
       THEN /\ pay' = [pay EXCEPT ![job[u].order] = "unpaid"]
            /\ line' = [line EXCEPT ![job[u].order] = NoCharge]
       ELSE UNCHANGED <<pay, line>>
    /\ Does(u, Idle)
    /\ UNCHANGED <<kitchen, method, entry, online, refunded, movement, receipt, billOpen>>

----------------------------------------------------------------------------
\* requestDiningCancellation reads the order and marks it by id.
GuestAsks(g, o) ==
    /\ job[g] = Idle
    /\ pay[o] = "paid" /\ o \notin asked
    /\ status[o] \in {"pending_acceptance", "new", "preparing"}
    /\ Does(g, [Idle EXCEPT !.at = "ask", !.order = o])
    /\ UNCHANGED <<kitchen, money>>

RequestSent(g) ==
    /\ job[g].at = "ask"
    /\ asked' = asked \union {job[g].order}
    /\ Does(g, Idle)
    /\ UNCHANGED <<status, checkout, stage, forced, money>>

\* issueDiningDocument of an official receipt: the order is read, the receipt inserted later.
ReceiptRequested(i, o) ==
    /\ job[i] = Idle
    /\ o \notin receipt
    /\ status[o] # "cancelled" /\ pay[o] = "paid"
    /\ Does(i, [Idle EXCEPT !.at = "issue", !.order = o])
    /\ UNCHANGED <<kitchen, money>>

ReceiptIssued(i) ==
    /\ job[i].at = "issue"
    /\ receipt' = receipt \union {job[i].order}
    /\ Does(i, Idle)
    /\ UNCHANGED <<kitchen, pay, method, entry, line, online, refunded, movement, charge, billOpen>>

\* recordDiningRefund: earlier refunds are summed before the transaction ...
RefundRequested(f, o, amount) ==
    /\ job[f] = Idle
    /\ pay[o] = "paid"
    /\ amount <= Total - refunded[o]
    /\ Does(f, [Idle EXCEPT !.at = "refund", !.order = o, !.amount = amount,
                            !.already = refunded[o]])
    /\ UNCHANGED <<kitchen, money>>

\* ... which checks only that the order is still paid.
RefundRecorded(f) ==
    /\ job[f].at = "refund"
    /\ LET o == job[f].order
       IN IF pay[o] = "paid"
          THEN /\ refunded' = [refunded EXCEPT ![o] = @ + job[f].amount]
               /\ pay' = [pay EXCEPT ![o] = IF job[f].already + job[f].amount >= Total
                                            THEN "refunded" ELSE "paid"]
               /\ asked' = asked \ {o}
          ELSE UNCHANGED <<refunded, pay, asked>>
    /\ Does(f, Idle)
    /\ UNCHANGED <<status, checkout, stage, forced, method, entry, line, online, movement, charge,
                   receipt, billOpen>>

\* forceClearCheck reads the orders on a table's check, without a lock: an unserved one that was
\* not paid goes to cancelDiningOrder (VoidCancels), ...
ClearRequested(k, o) ==
    /\ job[k] = Idle
    /\ status[o] \in {"new", "preparing", "ready"}
    /\ Does(k, [Idle EXCEPT !.at = IF pay[o] = "unpaid" THEN "cancel" ELSE "serve", !.order = o])
    /\ UNCHANGED <<kitchen, money>>

\* ... any other is served by id, whatever its dishes and whatever became of it meanwhile.
ClearServes(k) ==
    /\ job[k].at = "serve"
    /\ status' = [status EXCEPT ![job[k].order] = "served"]
    /\ forced' = forced \union {job[k].order}
    /\ Does(k, Idle)
    /\ UNCHANGED <<checkout, asked, stage, money>>

\* An exception or a restart: what was committed stays.
HandlerDies(h) ==
    /\ job[h] # Idle
    /\ Does(h, Idle)
    /\ UNCHANGED <<kitchen, money>>

VoidStep(v) ==
    \/ \E o \in Orders : VoidRequested(v, o) \/ OrderVoidRequested(v, o)
    \/ VoidLooks(v) \/ VoidOpens(v) \/ VoidReverses(v)
    \/ VoidCancelsReceipt(v) \/ VoidClears(v) \/ VoidCancels(v)

ClearStep(k) == ClearServes(k) \/ VoidCancels(k) \/ \E o \in Orders : ClearRequested(k, o)

UndoStep(u) ==
    \/ \E o \in Orders : UndoRequested(u, o)
    \/ \E c \in Charges : ChargeVoidRequested(u, c)
    \/ UndoOpens(u) \/ UndoVoids(u)

OrderStep(o) ==
    \/ PlaceOrder(o) \/ AcceptOrder(o) \/ DeclineOrder(o) \/ ServeOrder(o)
    \/ CancelOrder(o) \/ GuestCancels(o) \/ ExpireOrder(o)
    \/ \E approve \in BOOLEAN : RequestAnswered(o, approve)
    \/ \E mine \in {{s} : s \in Stations} \union {Stations}, to \in {"preparing", "ready"} :
           StationWorks(o, mine, to)
    \/ \E m \in Movements : PayOrder(o, m)
    \/ \E m \in Movements \union {NoMovement} : OnlinePaid(o, m)
    \/ \E c \in Charges : ChargeToRoom(o, c)

Next ==
    \/ \E o \in Orders : OrderStep(o)
    \/ BillSettled
    \/ \E v \in Voiders : VoidStep(v)
    \/ \E u \in Undoers : UndoStep(u)
    \/ \E g \in Guests : RequestSent(g) \/ \E o \in Orders : GuestAsks(g, o)
    \/ \E i \in Issuers : ReceiptIssued(i) \/ \E o \in Orders : ReceiptRequested(i, o)
    \/ \E f \in Refunders :
           RefundRecorded(f) \/ \E o \in Orders, a \in 1 .. Total : RefundRequested(f, o, a)
    \/ \E k \in Clearers : ClearStep(k)
    \/ \E h \in Handlers : HandlerDies(h)

Spec == Init /\ [][Next]_vars

----------------------------------------------------------------------------
TypeOK ==
    /\ status \in [Orders -> Status]
    /\ pay \in [Orders -> PaymentStatus]
    /\ method \in [Orders -> Methods]
    /\ entry \in [Orders -> Movements \union {NoMovement}]
    /\ line \in [Orders -> Charges \union {NoCharge}]
    /\ checkout \subseteq Orders /\ asked \subseteq Orders
    /\ online \in [Orders -> Nat]
    /\ refunded \in [Orders -> Nat]
    /\ movement \in [Movements -> Movement]
    /\ charge \in [Charges -> Charge]
    /\ receipt \subseteq Orders
    /\ billOpen \in BOOLEAN
    /\ stage \in [Orders -> [Stations -> DishStages]]
    /\ forced \subseteq Orders
    /\ job \in [Handlers -> Job]

\* While one person at a time corrects room bills, "the bill and the order never disagree"
\* (folio.ts:711): an order is on a room bill exactly when the bill has its charge.
BillAndOrderAgree ==
    \A o \in Orders :
        /\ pay[o] = "room_charged" => line[o] \in Charges /\ OnBill(line[o], o)
        /\ \A c \in Charges : OnBill(c, o) => pay[o] = "room_charged" /\ line[o] = c

\* While one manager at a time voids payments, and wherever a void stops half-way and is
\* repeated, no money in the ledger loses its order: what is booked for an order and not
\* reversed is the payment it shows, and nothing is reversed twice.
MoneyIsShown ==
    \A m \in Movements :
        /\ \A o \in Orders : Live(m, o) => pay[o] \in {"paid", "refunded"} /\ entry[o] = m
        /\ movement[m].reversed <= 1

\* However the stations' updates interleave with payments, voids, cancellations and the clearing
\* of tables, an order is ready only when every station has finished and new only while none has
\* begun, and one that is served unfinished was cleared away with its table by a manager, which
\* the audit log says of it (dining-orders.ts:417, dining-checks.ts:302-307).
ReadyIsCooked ==
    \A o \in Orders :
        /\ status[o] = "ready" => \A s \in Stations : stage[o][s] = "ready"
        /\ status[o] = "served" => o \in forced \/ \A s \in Stations : stage[o][s] = "ready"
        /\ status[o] = "new" => \A s \in Stations : stage[o][s] = "waiting"

----------------------------------------------------------------------------
\* What the code says of itself and does not keep.

\* "This order is charged to a room. Take it off the room bill first, then cancel it."
\* (dining-orders.ts:607)
CancelledIsOffTheBill ==
    \A o \in Orders, c \in Charges : status[o] = "cancelled" => ~OnBill(c, o)

\* "served and cancelled are final" (lib/dining-orders.ts:104).
FinalStaysFinal ==
    [][ \A o \in Orders :
          status[o] \in {"served", "cancelled"} => status'[o] = status[o] ]_vars

\* "No receipt may stay in force for money that was reversed" (dining-orders.ts:951).
ReceiptHasMoney ==
    \A o \in receipt : pay[o] # "unpaid" \/ \E v \in Voiders : job[v].order = o

\* "The refund can't exceed what was paid" (dining-online.ts:991).
RefundsAreCovered == \A o \in Orders : refunded[o] <= Total
=============================================================================
