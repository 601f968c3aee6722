------------------------ MODULE DiningOrders_proofs ------------------------
(***************************************************************************)
(* Proofs about DiningOrders, for any orders, stations, rows and handlers. *)
(* The kitchen's invariant holds however many members of staff correct     *)
(* payments and bills; the money's needs that no two do so at once.        *)
(***************************************************************************)
EXTENDS DiningOrders, TLAPS

VoidSteps == {"look", "open", "reverse", "receipt", "clear"}

\* What a job names exists.
JobsNamed ==
    \A h \in Handlers :
        /\ job[h].at \in VoidSteps =>
               h \in Voiders /\ job[h].order \in Orders /\ job[h].entry \in Movements
        /\ job[h].at \in {"cancel", "cancelPaid", "ask", "issue", "refund", "serve"} =>
               job[h].order \in Orders
        /\ job[h].at \in {"undo", "unbill"} =>
               h \in Undoers /\ job[h].order \in Orders /\ job[h].line \in Charges

\* No station has touched an order that the kitchen has not been given.
NotBegun ==
    \A o \in Orders :
        status[o] \in {"none", "pending_payment", "pending_acceptance"} =>
            \A s \in Stations : stage[o][s] = "waiting"

KitchenInv == TypeOK /\ JobsNamed /\ NotBegun /\ ReadyIsCooked

\* One manager at a time voids payments, one clerk at a time corrects room bills, and PayMongo
\* takes one payment for an order.
OneAtATime ==
    /\ \A v, w \in Voiders : v = w
    /\ \A u, w \in Undoers : u = w
    /\ Checkouts <= 1

\* An order that waits for its online payment has not been paid any other way.
NotYetPaid ==
    \A o \in Orders :
        /\ status[o] = "none" => o \notin checkout
        /\ o \notin checkout => online[o] = 0
        /\ status[o] = "pending_payment" => o \in checkout /\ online[o] = 0
        /\ o \in checkout /\ online[o] = 0 =>
               status[o] \in {"pending_payment", "cancelled"}
        /\ status[o] = "none" \/ (o \in checkout /\ online[o] = 0) => pay[o] = "unpaid"

\* An order that a manager is about to serve has come to the kitchen.
ClearsSound ==
    \A k \in Handlers : job[k].at = "serve" =>
        LET o == job[k].order IN status[o] # "none" /\ ~(o \in checkout /\ online[o] = 0)

\* An order points at a movement only while it shows a payment.
EntriesSound ==
    /\ \A o \in Orders : entry[o] # NoMovement =>
           /\ pay[o] \in {"paid", "refunded"}
           /\ movement[entry[o]].of = o
    /\ \A m \in Movements : Free(m) => movement[m].reversed = 0

\* What a manager keeps of the payment that is being voided.
VoidsSound ==
    \A v \in Handlers :
        /\ job[v].at \in VoidSteps => entry[job[v].order] = job[v].entry
        /\ job[v].at = "reverse" => ~Reversed(v)
        /\ job[v].at \in {"receipt", "clear"} => Reversed(v)

\* What a clerk keeps of the charge that is being taken off.
UndosSound ==
    /\ \A u \in Handlers :
           /\ job[u].at \in {"undo", "unbill"} => charge[job[u].line].of = job[u].order
           /\ job[u].at = "unbill" => ~charge[job[u].line].voided
    /\ \A c \in Charges : charge[c].of = NoOrder => ~charge[c].voided

MoneyInv ==
    /\ NotYetPaid /\ ClearsSound /\ EntriesSound /\ VoidsSound
    /\ MoneyIsShown /\ UndosSound /\ BillAndOrderAgree

IInv == KitchenInv /\ MoneyInv

----------------------------------------------------------------------------

\* A job that moves to another step is a job.
LEMMA JobMoves ==
    /\ Idle \in Job
    /\ \A j \in Job, s \in Steps : [j EXCEPT !.at = s] \in Job
  BY DEF Idle, Job, Steps


\* The table of transitions serves an order from "ready" alone.
LEMMA OnlyReadyIsServed ==
    ASSUME TypeOK, NEW o \in Orders, CanMove(o, "served")
    PROVE  status[o] = "ready"
<1>1. status[o] \in Status /\ "served" \in Transitions[status[o]]
  BY DEF TypeOK, CanMove
<1>. QED
  BY <1>1 DEF Status, Transitions

\* Every step keeps the rows and jobs well typed.
LEMMA TypeStep ==
    ASSUME KitchenInv, [Next]_vars
    PROVE  TypeOK'
<1>1. CASE UNCHANGED <<status, checkout, asked, stage, forced, job, pay, method, entry, line,
    online, refunded, movement, charge, receipt, billOpen>>
  BY <1>1 DEF KitchenInv, TypeOK, Status, PaymentStatus, Methods, DishStages, Movement,
      Charge, Job, Steps
<1>2. ASSUME NEW o \in Orders, PlaceOrder(o)
      PROVE  TypeOK'
  BY <1>2, NamesAssumption DEF PlaceOrder, TypeOK, Status, PaymentStatus, Methods,
      DishStages, Movement, Charge, Job, Steps, Handlers, KitchenInv, kitchen, money,
      Posted, Transitions, CanMove, OrderState, Live, OnBill, Free
<1>3. ASSUME NEW o \in Orders, AcceptOrder(o)
      PROVE  TypeOK'
  BY <1>3, NamesAssumption DEF AcceptOrder, TypeOK, Status, PaymentStatus, Methods,
      DishStages, Movement, Charge, Job, Steps, Handlers, KitchenInv, kitchen, money,
      Posted, Transitions, CanMove, OrderState, Live, OnBill, Free
<1>4. ASSUME NEW o \in Orders, DeclineOrder(o)
      PROVE  TypeOK'
  BY <1>4, NamesAssumption DEF DeclineOrder, TypeOK, Status, PaymentStatus, Methods,
      DishStages, Movement, Charge, Job, Steps, Handlers, KitchenInv, kitchen, money,
      Posted, Transitions, CanMove, OrderState, Live, OnBill, Free
<1>5. ASSUME NEW o \in Orders, ServeOrder(o)
      PROVE  TypeOK'
  BY <1>5, NamesAssumption DEF ServeOrder, TypeOK, Status, PaymentStatus, Methods,
      DishStages, Movement, Charge, Job, Steps, Handlers, KitchenInv, kitchen, money,
      Posted, Transitions, CanMove, OrderState, Live, OnBill, Free
<1>6. ASSUME NEW o \in Orders, CancelOrder(o)
      PROVE  TypeOK'
  BY <1>6, NamesAssumption DEF CancelOrder, TypeOK, Status, PaymentStatus, Methods,
      DishStages, Movement, Charge, Job, Steps, Handlers, KitchenInv, kitchen, money,
      Posted, Transitions, CanMove, OrderState, Live, OnBill, Free
<1>7. ASSUME NEW o \in Orders, GuestCancels(o)
      PROVE  TypeOK'
  BY <1>7, NamesAssumption DEF GuestCancels, TypeOK, Status, PaymentStatus, Methods,
      DishStages, Movement, Charge, Job, Steps, Handlers, KitchenInv, kitchen, money,
      Posted, Transitions, CanMove, OrderState, Live, OnBill, Free
<1>8. ASSUME NEW o \in Orders, ExpireOrder(o)
      PROVE  TypeOK'
  BY <1>8, NamesAssumption DEF ExpireOrder, TypeOK, Status, PaymentStatus, Methods,
      DishStages, Movement, Charge, Job, Steps, Handlers, KitchenInv, kitchen, money,
      Posted, Transitions, CanMove, OrderState, Live, OnBill, Free
<1>9. ASSUME NEW o \in Orders, NEW approve \in BOOLEAN, RequestAnswered(o, approve)
      PROVE  TypeOK'
  BY <1>9, NamesAssumption DEF RequestAnswered, TypeOK, Status, PaymentStatus, Methods,
      DishStages, Movement, Charge, Job, Steps, Handlers, KitchenInv, kitchen, money,
      Posted, Transitions, CanMove, OrderState, Live, OnBill, Free
<1>10. ASSUME NEW o \in Orders, NEW mine \in SUBSET Stations, NEW to \in {"preparing",
             "ready"}, StationWorks(o, mine, to)
      PROVE  TypeOK'
  BY <1>10, NamesAssumption DEF StationWorks, TypeOK, Status, PaymentStatus, Methods,
      DishStages, Movement, Charge, Job, Steps, Handlers, KitchenInv, kitchen, money,
      Posted, Transitions, CanMove, OrderState, Live, OnBill, Free
<1>11. ASSUME NEW o \in Orders, NEW m \in Movements, PayOrder(o, m)
      PROVE  TypeOK'
  <2>1. movement' \in [Movements -> Movement]
    BY <1>11 DEF PayOrder, Posted, TypeOK, KitchenInv, Movement
  <2>2. /\ pay' \in [Orders -> PaymentStatus] /\ method' \in [Orders -> Methods]
        /\ entry' \in [Orders -> Movements \union {NoMovement}]
    BY <1>11 DEF PayOrder, TypeOK, KitchenInv, PaymentStatus, Methods
  <2>. QED
    BY <1>11, <2>1, <2>2 DEF PayOrder, TypeOK, KitchenInv, kitchen
<1>12. ASSUME NEW o \in Orders, NEW m \in Movements \union {NoMovement}, OnlinePaid(o, m)
      PROVE  TypeOK'
  <2>1. movement' \in [Movements -> Movement] /\ online' \in [Orders -> Nat]
    BY <1>12 DEF OnlinePaid, TypeOK, KitchenInv, Movement, Free
  <2>2. /\ pay' \in [Orders -> PaymentStatus] /\ method' \in [Orders -> Methods]
        /\ entry' \in [Orders -> Movements \union {NoMovement}]
    BY <1>12 DEF OnlinePaid, TypeOK, KitchenInv, PaymentStatus, Methods
  <2>3. status' \in [Orders -> Status]
    BY <1>12 DEF OnlinePaid, TypeOK, KitchenInv, Status
  <2>. QED
    BY <1>12, <2>1, <2>2, <2>3 DEF OnlinePaid, TypeOK, KitchenInv
<1>13. ASSUME NEW o \in Orders, NEW c \in Charges, ChargeToRoom(o, c)
      PROVE  TypeOK'
  <2>1. charge' \in [Charges -> Charge]
    BY <1>13 DEF ChargeToRoom, TypeOK, KitchenInv, Charge
  <2>2. pay' \in [Orders -> PaymentStatus] /\ line' \in [Orders -> Charges \union {NoCharge}]
    BY <1>13 DEF ChargeToRoom, TypeOK, KitchenInv, PaymentStatus
  <2>. QED
    BY <1>13, <2>1, <2>2 DEF ChargeToRoom, TypeOK, KitchenInv, kitchen
<1>14. ASSUME BillSettled
      PROVE  TypeOK'
  BY <1>14, NamesAssumption DEF BillSettled, TypeOK, Status, PaymentStatus, Methods,
      DishStages, Movement, Charge, Job, Steps, Handlers, KitchenInv, kitchen, money,
      Posted, Transitions, CanMove, OrderState, Live, OnBill, Free
<1>15. ASSUME NEW v \in Voiders, NEW o \in Orders, VoidRequested(v, o)
      PROVE  TypeOK'
  <2>1. job' \in [Handlers -> Job]
    BY <1>15, NamesAssumption DEF VoidRequested, TypeOK, KitchenInv, Does, Handlers, Idle,
        Job, Steps, Charge
  <2>. QED
    BY <1>15, <2>1 DEF VoidRequested, TypeOK, KitchenInv, kitchen, money
<1>16. ASSUME NEW v \in Voiders, NEW o \in Orders, OrderVoidRequested(v, o)
      PROVE  TypeOK'
  <2>1. [Idle EXCEPT !.at = "cancelPaid", !.order = o] \in Job
    BY DEF Idle, Job, Steps
  <2>2. [Idle EXCEPT !.at = "cancel", !.order = o] \in Job
    BY DEF Idle, Job, Steps
  <2>3. entry[o] # NoMovement =>
            [Idle EXCEPT !.at = "look", !.order = o, !.entry = entry[o], !.cancels = TRUE]
                \in Job
    BY DEF Idle, Job, Steps, TypeOK, KitchenInv
  <2>4. job' \in [Handlers -> Job]
    BY <1>16, <2>1, <2>2, <2>3 DEF OrderVoidRequested, TypeOK, KitchenInv, Does, Handlers
  <2>. QED
    BY <1>16, <2>4 DEF OrderVoidRequested, TypeOK, KitchenInv, kitchen, money
<1>17. ASSUME NEW v \in Voiders, VoidLooks(v)
      PROVE  TypeOK'
  <2>1. job' \in [Handlers -> Job]
    BY <1>17, JobMoves DEF VoidLooks, TypeOK, KitchenInv, Does, Steps, Handlers
  <2>. QED
    BY <1>17, <2>1 DEF VoidLooks, TypeOK, Status, PaymentStatus, Methods, DishStages,
        Movement, Charge, KitchenInv, kitchen, money
<1>18. ASSUME NEW v \in Voiders, VoidOpens(v)
      PROVE  TypeOK'
  <2>1. job' \in [Handlers -> Job]
    BY <1>18, JobMoves DEF VoidOpens, TypeOK, KitchenInv, Does, Steps, Handlers
  <2>. QED
    BY <1>18, <2>1 DEF VoidOpens, TypeOK, Status, PaymentStatus, Methods, DishStages,
        Movement, Charge, KitchenInv, kitchen, money
<1>19. ASSUME NEW v \in Voiders, VoidReverses(v)
      PROVE  TypeOK'
  <2>1. job' \in [Handlers -> Job]
    BY <1>19, JobMoves DEF VoidReverses, TypeOK, KitchenInv, Does, Steps, Handlers
  <2>2. job[v].entry \in Movements
    BY <1>19 DEF VoidReverses, KitchenInv, JobsNamed, VoidSteps, Handlers
  <2>3. [movement[job[v].entry] EXCEPT !.reversed = @ + 1] \in Movement
    <3>1. movement[job[v].entry] \in Movement
      BY <2>2 DEF TypeOK, KitchenInv
    <3>. QED
      BY <3>1 DEF Movement
  <2>4. movement' = [movement EXCEPT ![job[v].entry] =
                          [movement[job[v].entry] EXCEPT !.reversed = @ + 1]]
    BY <1>19, <2>2 DEF VoidReverses
  <2>5. movement' \in [Movements -> Movement]
    BY <2>2, <2>3, <2>4 DEF TypeOK, KitchenInv
  <2>. QED
    BY <1>19, <2>1, <2>5 DEF VoidReverses, TypeOK, KitchenInv, kitchen
<1>20. ASSUME NEW v \in Voiders, VoidCancelsReceipt(v)
      PROVE  TypeOK'
  <2>1. job' \in [Handlers -> Job]
    BY <1>20, JobMoves DEF VoidCancelsReceipt, TypeOK, KitchenInv, Does, Steps, Handlers
  <2>. QED
    BY <1>20, <2>1 DEF VoidCancelsReceipt, TypeOK, Status, PaymentStatus, Methods,
        DishStages, Movement, Charge, KitchenInv, kitchen, money
<1>21. ASSUME NEW v \in Voiders, VoidClears(v)
      PROVE  TypeOK'
  <2>1. job' \in [Handlers -> Job]
    BY <1>21, JobMoves DEF VoidClears, TypeOK, KitchenInv, Does, Steps, Handlers
  <2>. QED
    BY <1>21, <2>1 DEF VoidClears, TypeOK, Status, PaymentStatus, Methods, DishStages,
        Movement, Charge, KitchenInv, kitchen, money
<1>22. ASSUME NEW v \in Voiders \union Clearers, VoidCancels(v)
      PROVE  TypeOK'
  <2>1. job' \in [Handlers -> Job]
    BY <1>22, JobMoves DEF VoidCancels, TypeOK, KitchenInv, Does, Steps, Handlers
  <2>. QED
    BY <1>22, <2>1 DEF VoidCancels, TypeOK, Status, PaymentStatus, Methods, DishStages,
        Movement, Charge, KitchenInv, kitchen, money
<1>23. ASSUME NEW u \in Undoers, NEW o \in Orders, UndoRequested(u, o)
      PROVE  TypeOK'
  <2>1. job' \in [Handlers -> Job]
    BY <1>23, NamesAssumption DEF UndoRequested, TypeOK, KitchenInv, Does, Handlers, Idle,
        Job, Steps, Charge
  <2>. QED
    BY <1>23, <2>1 DEF UndoRequested, TypeOK, KitchenInv, kitchen, money
<1>24. ASSUME NEW u \in Undoers, NEW c \in Charges, ChargeVoidRequested(u, c)
      PROVE  TypeOK'
  <2>1. job' \in [Handlers -> Job]
    BY <1>24, NamesAssumption DEF ChargeVoidRequested, TypeOK, KitchenInv, Does, Handlers,
        Idle, Job, Steps, Charge
  <2>. QED
    BY <1>24, <2>1 DEF ChargeVoidRequested, TypeOK, KitchenInv, kitchen, money
<1>25. ASSUME NEW u \in Undoers, UndoOpens(u)
      PROVE  TypeOK'
  <2>1. job' \in [Handlers -> Job]
    BY <1>25, JobMoves DEF UndoOpens, TypeOK, KitchenInv, Does, Steps, Handlers
  <2>. QED
    BY <1>25, <2>1 DEF UndoOpens, TypeOK, Status, PaymentStatus, Methods, DishStages,
        Movement, Charge, KitchenInv, kitchen, money
<1>26. ASSUME NEW u \in Undoers, UndoVoids(u)
      PROVE  TypeOK'
  <2>1. job' \in [Handlers -> Job]
    BY <1>26, JobMoves DEF UndoVoids, TypeOK, KitchenInv, Does, Steps, Handlers
  <2>. QED
    BY <1>26, <2>1 DEF UndoVoids, TypeOK, Status, PaymentStatus, Methods, DishStages,
        Movement, Charge, KitchenInv, kitchen, money, JobsNamed
<1>27. ASSUME NEW g \in Guests, NEW o \in Orders, GuestAsks(g, o)
      PROVE  TypeOK'
  <2>1. job' \in [Handlers -> Job]
    BY <1>27, NamesAssumption DEF GuestAsks, TypeOK, KitchenInv, Does, Handlers, Idle, Job,
        Steps, Charge
  <2>. QED
    BY <1>27, <2>1 DEF GuestAsks, TypeOK, KitchenInv, kitchen, money
<1>28. ASSUME NEW g \in Guests, RequestSent(g)
      PROVE  TypeOK'
  <2>1. job' \in [Handlers -> Job]
    BY <1>28, JobMoves DEF RequestSent, TypeOK, KitchenInv, Does, Steps, Handlers
  <2>. QED
    BY <1>28, <2>1 DEF RequestSent, TypeOK, Status, PaymentStatus, Methods, DishStages,
        Movement, Charge, KitchenInv, kitchen, money, JobsNamed, Handlers
<1>29. ASSUME NEW i \in Issuers, NEW o \in Orders, ReceiptRequested(i, o)
      PROVE  TypeOK'
  <2>1. job' \in [Handlers -> Job]
    BY <1>29, NamesAssumption DEF ReceiptRequested, TypeOK, KitchenInv, Does, Handlers,
        Idle, Job, Steps, Charge
  <2>. QED
    BY <1>29, <2>1 DEF ReceiptRequested, TypeOK, KitchenInv, kitchen, money
<1>30. ASSUME NEW i \in Issuers, ReceiptIssued(i)
      PROVE  TypeOK'
  <2>1. job' \in [Handlers -> Job]
    BY <1>30, JobMoves DEF ReceiptIssued, TypeOK, KitchenInv, Does, Steps, Handlers
  <2>. QED
    BY <1>30, <2>1 DEF ReceiptIssued, TypeOK, Status, PaymentStatus, Methods, DishStages,
        Movement, Charge, KitchenInv, kitchen, money, JobsNamed, Handlers
<1>31. ASSUME NEW f \in Refunders, NEW o \in Orders, NEW a \in 1 .. Total,
             RefundRequested(f, o, a)
      PROVE  TypeOK'
  <2>1. a \in Nat /\ refunded[o] \in Nat /\ f \in Handlers
    BY NamesAssumption DEF TypeOK, KitchenInv, Handlers
  <2>2. [Idle EXCEPT !.at = "refund", !.order = o, !.amount = a, !.already = refunded[o]]
      \in Job
    BY <2>1 DEF Idle, Job, Steps
  <2>3. job' \in [Handlers -> Job]
    BY <1>31, <2>1, <2>2 DEF RefundRequested, TypeOK, KitchenInv, Does
  <2>. QED
    BY <1>31, <2>3 DEF RefundRequested, TypeOK, KitchenInv, kitchen, money
<1>32. ASSUME NEW f \in Refunders, RefundRecorded(f)
      PROVE  TypeOK'
  <2>1. job[f] \in Job /\ f \in Handlers
    BY DEF TypeOK, KitchenInv, Handlers
  <2>2. job' \in [Handlers -> Job]
    BY <1>32, JobMoves DEF RefundRecorded, TypeOK, KitchenInv, Does, Steps, Handlers
  <2>3. refunded' \in [Orders -> Nat] /\ pay' \in [Orders -> PaymentStatus]
    <3>1. job[f].amount \in Nat /\ pay \in [Orders -> PaymentStatus] /\ refunded \in
        [Orders -> Nat]
      BY <2>1 DEF Job, TypeOK, KitchenInv
    <3>2. CASE pay[job[f].order] = "paid"
      BY <1>32, <3>1, <3>2 DEF RefundRecorded, PaymentStatus
    <3>3. CASE pay[job[f].order] # "paid"
      BY <1>32, <3>1, <3>3 DEF RefundRecorded
    <3>. QED
      BY <3>2, <3>3
  <2>. QED
    BY <1>32, <2>2, <2>3 DEF RefundRecorded, TypeOK, KitchenInv, kitchen, money
<1>33. ASSUME NEW h \in Handlers, HandlerDies(h)
      PROVE  TypeOK'
  <2>1. job' \in [Handlers -> Job]
    BY <1>33, JobMoves DEF HandlerDies, TypeOK, KitchenInv, Does, Steps, Handlers
  <2>. QED
    BY <1>33, <2>1 DEF HandlerDies, TypeOK, Status, PaymentStatus, Methods, DishStages,
        Movement, Charge, KitchenInv, kitchen, money
<1>34. ASSUME NEW o \in Orders, OrderStep(o) PROVE TypeOK'
  BY <1>1, <1>34, <1>2, <1>3, <1>4, <1>5, <1>6, <1>7, <1>8, <1>9, <1>10, <1>11, <1>12,
      <1>13 DEF OrderStep
<1>35. ASSUME NEW v \in Voiders, VoidStep(v) PROVE TypeOK'
  BY <1>1, <1>35, <1>15, <1>16, <1>17, <1>18, <1>19, <1>20, <1>21, <1>22 DEF VoidStep
<1>36. ASSUME NEW u \in Undoers, UndoStep(u) PROVE TypeOK'
  BY <1>1, <1>36, <1>23, <1>24, <1>25, <1>26 DEF UndoStep
<1>37. ASSUME NEW k \in Clearers, NEW o \in Orders, ClearRequested(k, o)
      PROVE  TypeOK'
  <2>1. /\ [Idle EXCEPT !.at = "cancel", !.order = o] \in Job
        /\ [Idle EXCEPT !.at = "serve", !.order = o] \in Job
    BY DEF Idle, Job, Steps
  <2>2. job' \in [Handlers -> Job]
    BY <1>37, <2>1 DEF ClearRequested, TypeOK, KitchenInv, Does, Handlers
  <2>. QED
    BY <1>37, <2>2 DEF ClearRequested, TypeOK, KitchenInv, kitchen, money
<1>38. ASSUME NEW k \in Clearers, ClearServes(k)
      PROVE  TypeOK'
  <2>1. job' \in [Handlers -> Job] /\ job[k].order \in Orders
    BY <1>38, JobMoves DEF ClearServes, TypeOK, KitchenInv, Does, JobsNamed, Handlers
  <2>. QED
    BY <1>38, <2>1 DEF ClearServes, TypeOK, KitchenInv, Status, money
<1>39. ASSUME NEW k \in Clearers, ClearStep(k) PROVE TypeOK'
  BY <1>1, <1>37, <1>38, <1>39, <1>22 DEF ClearStep
<1>. QED
  BY <1>1, <1>14, <1>27, <1>28, <1>29, <1>30, <1>31, <1>32, <1>33, <1>34, <1>35, <1>36, <1>39 DEF
      Next, vars, kitchen, money

\* Every step keeps what the jobs name in existence.
LEMMA NamedStep ==
    ASSUME KitchenInv, [Next]_vars
    PROVE  JobsNamed'
<1>1. CASE UNCHANGED <<job>>
  BY <1>1 DEF KitchenInv, JobsNamed
<1>2. ASSUME NEW v \in Voiders, NEW o \in Orders, VoidRequested(v, o)
      PROVE  JobsNamed'
  BY <1>2, NamesAssumption DEF VoidRequested, Does, Idle, TypeOK, Status, PaymentStatus,
      Methods, DishStages, Movement, Charge, Job, Steps, Handlers, KitchenInv, JobsNamed,
      VoidSteps
<1>3. ASSUME NEW v \in Voiders, NEW o \in Orders, OrderVoidRequested(v, o)
      PROVE  JobsNamed'
  <2>1. \A h \in Handlers \ {v} : job'[h] = job[h]
    BY <1>3 DEF OrderVoidRequested, Does, TypeOK, KitchenInv
  <2>2. \/ job'[v] = [Idle EXCEPT !.at = "cancelPaid", !.order = o]
        \/ job'[v] = [Idle EXCEPT !.at = "cancel", !.order = o]
        \/ /\ entry[o] # NoMovement
           /\ job'[v] = [Idle EXCEPT !.at = "look", !.order = o, !.entry = entry[o],
                                       !.cancels = TRUE]
    BY <1>3 DEF OrderVoidRequested, Does, TypeOK, KitchenInv, Handlers
  <2>3. /\ job'[v].order = o
        /\ \/ job'[v].at \in {"cancel", "cancelPaid"}
           \/ job'[v].at = "look" /\ job'[v].entry = entry[o] /\ entry[o] \in Movements
    BY <2>2 DEF Idle, TypeOK, KitchenInv
  <2>. QED
    BY <2>1, <2>3 DEF JobsNamed, KitchenInv, VoidSteps
<1>4. ASSUME NEW v \in Voiders, VoidLooks(v)
      PROVE  JobsNamed'
  BY <1>4, NamesAssumption DEF VoidLooks, Does, Idle, TypeOK, Status, PaymentStatus,
      Methods, DishStages, Movement, Charge, Job, Steps, Handlers, KitchenInv, JobsNamed,
      VoidSteps
<1>5. ASSUME NEW v \in Voiders, VoidOpens(v)
      PROVE  JobsNamed'
  BY <1>5, NamesAssumption DEF VoidOpens, Does, Idle, TypeOK, Status, PaymentStatus,
      Methods, DishStages, Movement, Charge, Job, Steps, Handlers, KitchenInv, JobsNamed,
      VoidSteps
<1>6. ASSUME NEW v \in Voiders, VoidReverses(v)
      PROVE  JobsNamed'
  BY <1>6, NamesAssumption DEF VoidReverses, Does, Idle, TypeOK, Status, PaymentStatus,
      Methods, DishStages, Movement, Charge, Job, Steps, Handlers, KitchenInv, JobsNamed,
      VoidSteps
<1>7. ASSUME NEW v \in Voiders, VoidCancelsReceipt(v)
      PROVE  JobsNamed'
  BY <1>7, NamesAssumption DEF VoidCancelsReceipt, Does, Idle, TypeOK, Status,
      PaymentStatus, Methods, DishStages, Movement, Charge, Job, Steps, Handlers,
      KitchenInv, JobsNamed, VoidSteps
<1>8. ASSUME NEW v \in Voiders, VoidClears(v)
      PROVE  JobsNamed'
  BY <1>8, NamesAssumption DEF VoidClears, Does, Idle, TypeOK, Status, PaymentStatus,
      Methods, DishStages, Movement, Charge, Job, Steps, Handlers, KitchenInv, JobsNamed,
      VoidSteps
<1>9. ASSUME NEW v \in Voiders \union Clearers, VoidCancels(v)
      PROVE  JobsNamed'
  BY <1>9, NamesAssumption DEF VoidCancels, Does, Idle, TypeOK, Status, PaymentStatus,
      Methods, DishStages, Movement, Charge, Job, Steps, Handlers, KitchenInv, JobsNamed,
      VoidSteps
<1>10. ASSUME NEW u \in Undoers, NEW o \in Orders, UndoRequested(u, o)
      PROVE  JobsNamed'
  BY <1>10, NamesAssumption DEF UndoRequested, Does, Idle, TypeOK, Status, PaymentStatus,
      Methods, DishStages, Movement, Charge, Job, Steps, Handlers, KitchenInv, JobsNamed,
      VoidSteps
<1>11. ASSUME NEW u \in Undoers, NEW c \in Charges, ChargeVoidRequested(u, c)
      PROVE  JobsNamed'
  BY <1>11, NamesAssumption DEF ChargeVoidRequested, Does, Idle, TypeOK, Status,
      PaymentStatus, Methods, DishStages, Movement, Charge, Job, Steps, Handlers,
      KitchenInv, JobsNamed, VoidSteps
<1>12. ASSUME NEW u \in Undoers, UndoOpens(u)
      PROVE  JobsNamed'
  BY <1>12, NamesAssumption DEF UndoOpens, Does, Idle, TypeOK, Status, PaymentStatus,
      Methods, DishStages, Movement, Charge, Job, Steps, Handlers, KitchenInv, JobsNamed,
      VoidSteps
<1>13. ASSUME NEW u \in Undoers, UndoVoids(u)
      PROVE  JobsNamed'
  BY <1>13, NamesAssumption DEF UndoVoids, Does, Idle, TypeOK, Status, PaymentStatus,
      Methods, DishStages, Movement, Charge, Job, Steps, Handlers, KitchenInv, JobsNamed,
      VoidSteps
<1>14. ASSUME NEW g \in Guests, NEW o \in Orders, GuestAsks(g, o)
      PROVE  JobsNamed'
  BY <1>14, NamesAssumption DEF GuestAsks, Does, Idle, TypeOK, Status, PaymentStatus,
      Methods, DishStages, Movement, Charge, Job, Steps, Handlers, KitchenInv, JobsNamed,
      VoidSteps
<1>15. ASSUME NEW g \in Guests, RequestSent(g)
      PROVE  JobsNamed'
  BY <1>15, NamesAssumption DEF RequestSent, Does, Idle, TypeOK, Status, PaymentStatus,
      Methods, DishStages, Movement, Charge, Job, Steps, Handlers, KitchenInv, JobsNamed,
      VoidSteps
<1>16. ASSUME NEW i \in Issuers, NEW o \in Orders, ReceiptRequested(i, o)
      PROVE  JobsNamed'
  BY <1>16, NamesAssumption DEF ReceiptRequested, Does, Idle, TypeOK, Status,
      PaymentStatus, Methods, DishStages, Movement, Charge, Job, Steps, Handlers,
      KitchenInv, JobsNamed, VoidSteps
<1>17. ASSUME NEW i \in Issuers, ReceiptIssued(i)
      PROVE  JobsNamed'
  BY <1>17, NamesAssumption DEF ReceiptIssued, Does, Idle, TypeOK, Status, PaymentStatus,
      Methods, DishStages, Movement, Charge, Job, Steps, Handlers, KitchenInv, JobsNamed,
      VoidSteps
<1>18. ASSUME NEW f \in Refunders, NEW o \in Orders, NEW a \in 1 .. Total,
             RefundRequested(f, o, a)
      PROVE  JobsNamed'
  BY <1>18, NamesAssumption DEF RefundRequested, Does, Idle, TypeOK, Status, PaymentStatus,
      Methods, DishStages, Movement, Charge, Job, Steps, Handlers, KitchenInv, JobsNamed,
      VoidSteps
<1>19. ASSUME NEW f \in Refunders, RefundRecorded(f)
      PROVE  JobsNamed'
  BY <1>19, NamesAssumption DEF RefundRecorded, Does, Idle, TypeOK, Status, PaymentStatus,
      Methods, DishStages, Movement, Charge, Job, Steps, Handlers, KitchenInv, JobsNamed,
      VoidSteps
<1>20. ASSUME NEW h \in Handlers, HandlerDies(h)
      PROVE  JobsNamed'
  BY <1>20, NamesAssumption DEF HandlerDies, Does, Idle, TypeOK, Status, PaymentStatus,
      Methods, DishStages, Movement, Charge, Job, Steps, Handlers, KitchenInv, JobsNamed,
      VoidSteps
<1>21. ASSUME NEW o \in Orders, PlaceOrder(o) \/ AcceptOrder(o) \/ DeclineOrder(o) \/
             ServeOrder(o) \/ CancelOrder(o) \/ GuestCancels(o) \/ ExpireOrder(o)
      PROVE  UNCHANGED <<job>>
  BY <1>21 DEF PlaceOrder, AcceptOrder, DeclineOrder, ServeOrder, CancelOrder,
      GuestCancels, ExpireOrder, kitchen, money
<1>22. ASSUME NEW o \in Orders, NEW approve \in BOOLEAN, RequestAnswered(o, approve)
      PROVE  UNCHANGED <<job>>
  BY <1>22 DEF RequestAnswered, kitchen, money
<1>23. ASSUME NEW o \in Orders, NEW mine \in SUBSET Stations, NEW to \in {"preparing",
             "ready"}, StationWorks(o, mine, to)
      PROVE  UNCHANGED <<job>>
  BY <1>23 DEF StationWorks, kitchen, money
<1>24. ASSUME NEW o \in Orders, NEW m \in Movements, PayOrder(o, m)
      PROVE  UNCHANGED <<job>>
  BY <1>24 DEF PayOrder, kitchen, money
<1>25. ASSUME NEW o \in Orders, NEW m \in Movements \union {NoMovement}, OnlinePaid(o, m)
      PROVE  UNCHANGED <<job>>
  BY <1>25 DEF OnlinePaid, kitchen, money
<1>26. ASSUME NEW o \in Orders, NEW c \in Charges, ChargeToRoom(o, c)
      PROVE  UNCHANGED <<job>>
  BY <1>26 DEF ChargeToRoom, kitchen, money
<1>27. ASSUME BillSettled
      PROVE  UNCHANGED <<job>>
  BY <1>27 DEF BillSettled, kitchen, money
<1>28. ASSUME NEW o \in Orders, OrderStep(o) PROVE JobsNamed'
  BY <1>1, <1>28, <1>21, <1>22, <1>23, <1>24, <1>25, <1>26 DEF OrderStep
<1>29. ASSUME NEW v \in Voiders, VoidStep(v) PROVE JobsNamed'
  BY <1>1, <1>29, <1>2, <1>3, <1>4, <1>5, <1>6, <1>7, <1>8, <1>9 DEF VoidStep
<1>30. ASSUME NEW u \in Undoers, UndoStep(u) PROVE JobsNamed'
  BY <1>1, <1>30, <1>10, <1>11, <1>12, <1>13 DEF UndoStep
<1>31. ASSUME NEW k \in Clearers, NEW o \in Orders, ClearRequested(k, o)
      PROVE  JobsNamed'
  BY <1>31, NamesAssumption DEF ClearRequested, Does, Idle, TypeOK, Job, Steps, Handlers, KitchenInv,
      JobsNamed, VoidSteps
<1>32. ASSUME NEW k \in Clearers, ClearServes(k)
      PROVE  JobsNamed'
  BY <1>32, NamesAssumption DEF ClearServes, Does, Idle, TypeOK, Job, Steps, Handlers, KitchenInv,
      JobsNamed, VoidSteps
<1>33. ASSUME NEW k \in Clearers, ClearStep(k) PROVE JobsNamed'
  BY <1>1, <1>31, <1>32, <1>33, <1>9 DEF ClearStep
<1>. QED
  BY <1>1, <1>14, <1>15, <1>16, <1>17, <1>18, <1>19, <1>20, <1>27, <1>28, <1>29, <1>30, <1>33 DEF
      Next, vars, kitchen, money

\* The stations' work and the order's status move together.
LEMMA CookedStep ==
    ASSUME KitchenInv, [Next]_vars
    PROVE  (NotBegun /\ ReadyIsCooked)'
<1>1. CASE UNCHANGED <<status, stage, forced>>
  BY <1>1 DEF KitchenInv, NotBegun, ReadyIsCooked
<1>2. ASSUME NEW o \in Orders, PlaceOrder(o)
      PROVE  (NotBegun /\ ReadyIsCooked)'
  BY <1>2, NamesAssumption DEF PlaceOrder, KitchenInv, TypeOK, Status, DishStages,
      JobsNamed, NotBegun, ReadyIsCooked, kitchen, money, Transitions, CanMove, OrderState
<1>3. ASSUME NEW o \in Orders, AcceptOrder(o)
      PROVE  (NotBegun /\ ReadyIsCooked)'
  BY <1>3, NamesAssumption DEF AcceptOrder, KitchenInv, TypeOK, Status, DishStages,
      JobsNamed, NotBegun, ReadyIsCooked, kitchen, money, Transitions, CanMove, OrderState
<1>4. ASSUME NEW o \in Orders, DeclineOrder(o)
      PROVE  (NotBegun /\ ReadyIsCooked)'
  BY <1>4, NamesAssumption DEF DeclineOrder, KitchenInv, TypeOK, Status, DishStages,
      JobsNamed, NotBegun, ReadyIsCooked, kitchen, money, Transitions, CanMove, OrderState
<1>5. ASSUME NEW o \in Orders, ServeOrder(o)
      PROVE  (NotBegun /\ ReadyIsCooked)'
  <2>1. status[o] = "ready"
    BY <1>5, OnlyReadyIsServed DEF ServeOrder, KitchenInv
  <2>2. \A p \in Orders : status'[p] = IF p = o THEN "served" ELSE status[p]
    BY <1>5 DEF ServeOrder, KitchenInv, TypeOK
  <2>3. UNCHANGED <<stage, forced>>
    BY <1>5 DEF ServeOrder
  <2>. QED
    BY <2>1, <2>2, <2>3 DEF KitchenInv, NotBegun, ReadyIsCooked
<1>6. ASSUME NEW o \in Orders, CancelOrder(o)
      PROVE  (NotBegun /\ ReadyIsCooked)'
  BY <1>6, NamesAssumption DEF CancelOrder, KitchenInv, TypeOK, Status, DishStages,
      JobsNamed, NotBegun, ReadyIsCooked, kitchen, money, Transitions, CanMove, OrderState
<1>7. ASSUME NEW o \in Orders, GuestCancels(o)
      PROVE  (NotBegun /\ ReadyIsCooked)'
  BY <1>7, NamesAssumption DEF GuestCancels, KitchenInv, TypeOK, Status, DishStages,
      JobsNamed, NotBegun, ReadyIsCooked, kitchen, money, Transitions, CanMove, OrderState
<1>8. ASSUME NEW o \in Orders, ExpireOrder(o)
      PROVE  (NotBegun /\ ReadyIsCooked)'
  BY <1>8, NamesAssumption DEF ExpireOrder, KitchenInv, TypeOK, Status, DishStages,
      JobsNamed, NotBegun, ReadyIsCooked, kitchen, money, Transitions, CanMove, OrderState
<1>9. ASSUME NEW o \in Orders, NEW approve \in BOOLEAN, RequestAnswered(o, approve)
      PROVE  (NotBegun /\ ReadyIsCooked)'
  BY <1>9, NamesAssumption DEF RequestAnswered, KitchenInv, TypeOK, Status, DishStages,
      JobsNamed, NotBegun, ReadyIsCooked, kitchen, money, Transitions, CanMove, OrderState
<1>10. ASSUME NEW o \in Orders, NEW mine \in SUBSET Stations, NEW to \in {"preparing",
             "ready"}, StationWorks(o, mine, to)
      PROVE  (NotBegun /\ ReadyIsCooked)'
  BY <1>10, NamesAssumption DEF StationWorks, KitchenInv, TypeOK, Status, DishStages,
      JobsNamed, NotBegun, ReadyIsCooked, kitchen, money, Transitions, CanMove, OrderState
<1>11. ASSUME NEW o \in Orders, NEW m \in Movements \union {NoMovement}, OnlinePaid(o, m)
      PROVE  (NotBegun /\ ReadyIsCooked)'
  <2>1. /\ stage' = stage /\ forced' = forced
        /\ \/ status' = status
           \/ /\ status[o] = "pending_payment"
              /\ \E s \in {"pending_acceptance", "new"} : status' = [status EXCEPT ![o] = s]
    BY <1>11 DEF OnlinePaid
  <2>2. status \in [Orders -> Status]
    BY DEF KitchenInv, TypeOK
  <2>3. CASE status' = status
    BY <2>1, <2>3 DEF KitchenInv, NotBegun, ReadyIsCooked
  <2>4. ASSUME NEW s \in {"pending_acceptance", "new"}, status[o] = "pending_payment",
               status' = [status EXCEPT ![o] = s]
        PROVE  (NotBegun /\ ReadyIsCooked)'
    <3>1. \A p \in Orders : status'[p] = IF p = o THEN s ELSE status[p]
      BY <2>2, <2>4
    <3>. QED
      BY <2>1, <2>4, <3>1 DEF KitchenInv, NotBegun, ReadyIsCooked
  <2>. QED
    BY <2>1, <2>3, <2>4
<1>12. ASSUME NEW v \in Voiders \union Clearers, VoidCancels(v)
      PROVE  (NotBegun /\ ReadyIsCooked)'
  <2>1. stage' = stage /\ forced' = forced /\ \A p \in Orders : status'[p] = status[p] \/ status'[p] = "cancelled"
    BY <1>12 DEF VoidCancels, TypeOK, KitchenInv, kitchen, money
  <2>. QED
    BY <2>1 DEF KitchenInv, NotBegun, ReadyIsCooked
<1>13. ASSUME NEW o \in Orders, NEW m \in Movements, PayOrder(o, m)
      PROVE  UNCHANGED <<status, stage, forced>>
  BY <1>13 DEF PayOrder, kitchen, money
<1>14. ASSUME NEW o \in Orders, NEW c \in Charges, ChargeToRoom(o, c)
      PROVE  UNCHANGED <<status, stage, forced>>
  BY <1>14 DEF ChargeToRoom, kitchen, money
<1>15. ASSUME BillSettled
      PROVE  UNCHANGED <<status, stage, forced>>
  BY <1>15 DEF BillSettled, kitchen, money
<1>16. ASSUME NEW v \in Voiders, NEW o \in Orders, VoidRequested(v, o) \/
             OrderVoidRequested(v, o)
      PROVE  UNCHANGED <<status, stage, forced>>
  BY <1>16 DEF VoidRequested, OrderVoidRequested, kitchen, money
<1>17. ASSUME NEW v \in Voiders, VoidLooks(v) \/ VoidOpens(v) \/ VoidReverses(v) \/
             VoidCancelsReceipt(v) \/ VoidClears(v)
      PROVE  UNCHANGED <<status, stage, forced>>
  BY <1>17 DEF VoidLooks, VoidOpens, VoidReverses, VoidCancelsReceipt, VoidClears, kitchen,
      money
<1>18. ASSUME NEW u \in Undoers, NEW o \in Orders, UndoRequested(u, o)
      PROVE  UNCHANGED <<status, stage, forced>>
  BY <1>18 DEF UndoRequested, kitchen, money
<1>19. ASSUME NEW u \in Undoers, NEW c \in Charges, ChargeVoidRequested(u, c)
      PROVE  UNCHANGED <<status, stage, forced>>
  BY <1>19 DEF ChargeVoidRequested, kitchen, money
<1>20. ASSUME NEW u \in Undoers, UndoOpens(u) \/ UndoVoids(u)
      PROVE  UNCHANGED <<status, stage, forced>>
  BY <1>20 DEF UndoOpens, UndoVoids, kitchen, money
<1>21. ASSUME NEW g \in Guests, NEW o \in Orders, GuestAsks(g, o)
      PROVE  UNCHANGED <<status, stage, forced>>
  BY <1>21 DEF GuestAsks, kitchen, money
<1>22. ASSUME NEW g \in Guests, RequestSent(g)
      PROVE  UNCHANGED <<status, stage, forced>>
  BY <1>22 DEF RequestSent, kitchen, money
<1>23. ASSUME NEW i \in Issuers, NEW o \in Orders, ReceiptRequested(i, o)
      PROVE  UNCHANGED <<status, stage, forced>>
  BY <1>23 DEF ReceiptRequested, kitchen, money
<1>24. ASSUME NEW i \in Issuers, ReceiptIssued(i)
      PROVE  UNCHANGED <<status, stage, forced>>
  BY <1>24 DEF ReceiptIssued, kitchen, money
<1>25. ASSUME NEW f \in Refunders, NEW o \in Orders, NEW a \in 1 .. Total,
             RefundRequested(f, o, a)
      PROVE  UNCHANGED <<status, stage, forced>>
  BY <1>25 DEF RefundRequested, kitchen, money
<1>26. ASSUME NEW f \in Refunders, RefundRecorded(f)
      PROVE  UNCHANGED <<status, stage, forced>>
  BY <1>26 DEF RefundRecorded, kitchen, money
<1>27. ASSUME NEW h \in Handlers, HandlerDies(h)
      PROVE  UNCHANGED <<status, stage, forced>>
  BY <1>27 DEF HandlerDies, kitchen, money
<1>28. ASSUME NEW o \in Orders, OrderStep(o) PROVE (NotBegun /\ ReadyIsCooked)'
  BY <1>1, <1>28, <1>2, <1>3, <1>4, <1>5, <1>6, <1>7, <1>8, <1>9, <1>10, <1>11, <1>13,
      <1>14 DEF OrderStep
<1>29. ASSUME NEW v \in Voiders, VoidStep(v) PROVE (NotBegun /\ ReadyIsCooked)'
  BY <1>1, <1>29, <1>12, <1>16, <1>17 DEF VoidStep
<1>30. ASSUME NEW u \in Undoers, UndoStep(u) PROVE (NotBegun /\ ReadyIsCooked)'
  BY <1>1, <1>30, <1>18, <1>19, <1>20 DEF UndoStep
<1>31. ASSUME NEW k \in Clearers, NEW o \in Orders, ClearRequested(k, o)
      PROVE  UNCHANGED <<status, stage, forced>>
  BY <1>31 DEF ClearRequested, kitchen, money
<1>32. ASSUME NEW k \in Clearers, ClearServes(k)
      PROVE  (NotBegun /\ ReadyIsCooked)'
  <2>1. /\ stage' = stage /\ forced' = forced \union {job[k].order}
        /\ \A p \in Orders : status'[p] = IF p = job[k].order THEN "served" ELSE status[p]
    BY <1>32 DEF ClearServes, TypeOK, KitchenInv
  <2>. QED
    BY <2>1 DEF KitchenInv, NotBegun, ReadyIsCooked
<1>33. ASSUME NEW k \in Clearers, ClearStep(k) PROVE (NotBegun /\ ReadyIsCooked)'
  BY <1>1, <1>31, <1>32, <1>33, <1>12 DEF ClearStep
<1>. QED
  BY <1>1, <1>15, <1>21, <1>22, <1>23, <1>24, <1>25, <1>26, <1>27, <1>28, <1>29, <1>30, <1>33 DEF
      Next, vars, kitchen, money

\* An order waiting for its online payment is not paid otherwise.
LEMMA NotYetPaidStep ==
    ASSUME IInv, OneAtATime, [Next]_vars
    PROVE  NotYetPaid'
<1>1. CASE UNCHANGED <<status, checkout, online, pay>>
  BY <1>1 DEF IInv, MoneyInv, NotYetPaid
<1>2. ASSUME NEW o \in Orders, PlaceOrder(o)
      PROVE  NotYetPaid'
  BY <1>2, NamesAssumption DEF PlaceOrder, IInv, OneAtATime, KitchenInv, TypeOK, JobsNamed,
      MoneyInv, Status, PaymentStatus, NotYetPaid, EntriesSound, VoidsSound, kitchen,
      money, Transitions, CanMove, OrderState, VoidSteps
<1>3. ASSUME NEW o \in Orders, AcceptOrder(o)
      PROVE  NotYetPaid'
  BY <1>3, NamesAssumption DEF AcceptOrder, IInv, OneAtATime, KitchenInv, TypeOK,
      JobsNamed, MoneyInv, Status, PaymentStatus, NotYetPaid, EntriesSound, VoidsSound,
      kitchen, money, Transitions, CanMove, OrderState, VoidSteps
<1>4. ASSUME NEW o \in Orders, DeclineOrder(o)
      PROVE  NotYetPaid'
  BY <1>4, NamesAssumption DEF DeclineOrder, IInv, OneAtATime, KitchenInv, TypeOK,
      JobsNamed, MoneyInv, Status, PaymentStatus, NotYetPaid, EntriesSound, VoidsSound,
      kitchen, money, Transitions, CanMove, OrderState, VoidSteps
<1>5. ASSUME NEW o \in Orders, ServeOrder(o)
      PROVE  NotYetPaid'
  <2>1. status[o] = "ready"
    BY <1>5, OnlyReadyIsServed DEF ServeOrder, IInv, KitchenInv
  <2>2. \A p \in Orders : status'[p] = IF p = o THEN "served" ELSE status[p]
    BY <1>5 DEF ServeOrder, IInv, KitchenInv, TypeOK
  <2>3. UNCHANGED <<checkout, online, pay>>
    BY <1>5 DEF ServeOrder, money
  <2>. QED
    BY <2>1, <2>2, <2>3 DEF IInv, MoneyInv, NotYetPaid
<1>6. ASSUME NEW o \in Orders, CancelOrder(o)
      PROVE  NotYetPaid'
  BY <1>6, NamesAssumption DEF CancelOrder, IInv, OneAtATime, KitchenInv, TypeOK,
      JobsNamed, MoneyInv, Status, PaymentStatus, NotYetPaid, EntriesSound, VoidsSound,
      kitchen, money, Transitions, CanMove, OrderState, VoidSteps
<1>7. ASSUME NEW o \in Orders, GuestCancels(o)
      PROVE  NotYetPaid'
  BY <1>7, NamesAssumption DEF GuestCancels, IInv, OneAtATime, KitchenInv, TypeOK,
      JobsNamed, MoneyInv, Status, PaymentStatus, NotYetPaid, EntriesSound, VoidsSound,
      kitchen, money, Transitions, CanMove, OrderState, VoidSteps
<1>8. ASSUME NEW o \in Orders, ExpireOrder(o)
      PROVE  NotYetPaid'
  BY <1>8, NamesAssumption DEF ExpireOrder, IInv, OneAtATime, KitchenInv, TypeOK,
      JobsNamed, MoneyInv, Status, PaymentStatus, NotYetPaid, EntriesSound, VoidsSound,
      kitchen, money, Transitions, CanMove, OrderState, VoidSteps
<1>9. ASSUME NEW o \in Orders, NEW approve \in BOOLEAN, RequestAnswered(o, approve)
      PROVE  NotYetPaid'
  BY <1>9, NamesAssumption DEF RequestAnswered, IInv, OneAtATime, KitchenInv, TypeOK,
      JobsNamed, MoneyInv, Status, PaymentStatus, NotYetPaid, EntriesSound, VoidsSound,
      kitchen, money, Transitions, CanMove, OrderState, VoidSteps
<1>10. ASSUME NEW o \in Orders, NEW mine \in SUBSET Stations, NEW to \in {"preparing",
             "ready"}, StationWorks(o, mine, to)
      PROVE  NotYetPaid'
  BY <1>10, NamesAssumption DEF StationWorks, IInv, OneAtATime, KitchenInv, TypeOK,
      JobsNamed, MoneyInv, Status, PaymentStatus, NotYetPaid, EntriesSound, VoidsSound,
      kitchen, money, Transitions, CanMove, OrderState, VoidSteps
<1>11. ASSUME NEW o \in Orders, NEW m \in Movements, PayOrder(o, m)
      PROVE  NotYetPaid'
  BY <1>11, NamesAssumption DEF PayOrder, IInv, OneAtATime, KitchenInv, TypeOK, JobsNamed,
      MoneyInv, Status, PaymentStatus, NotYetPaid, EntriesSound, VoidsSound, kitchen,
      money, Transitions, CanMove, OrderState, VoidSteps
<1>12. ASSUME NEW o \in Orders, NEW m \in Movements \union {NoMovement}, OnlinePaid(o, m)
      PROVE  NotYetPaid'
  BY <1>12, NamesAssumption DEF OnlinePaid, IInv, OneAtATime, KitchenInv, TypeOK,
      JobsNamed, MoneyInv, Status, PaymentStatus, NotYetPaid, EntriesSound, VoidsSound,
      kitchen, money, Transitions, CanMove, OrderState, VoidSteps
<1>13. ASSUME NEW o \in Orders, NEW c \in Charges, ChargeToRoom(o, c)
      PROVE  NotYetPaid'
  BY <1>13, NamesAssumption DEF ChargeToRoom, IInv, OneAtATime, KitchenInv, TypeOK,
      JobsNamed, MoneyInv, Status, PaymentStatus, NotYetPaid, EntriesSound, VoidsSound,
      kitchen, money, Transitions, CanMove, OrderState, VoidSteps
<1>14. ASSUME NEW v \in Voiders, VoidClears(v)
      PROVE  NotYetPaid'
  BY <1>14, NamesAssumption DEF VoidClears, IInv, OneAtATime, KitchenInv, TypeOK,
      JobsNamed, MoneyInv, Status, PaymentStatus, NotYetPaid, EntriesSound, VoidsSound,
      kitchen, money, Transitions, CanMove, OrderState, VoidSteps
<1>15. ASSUME NEW v \in Voiders \union Clearers, VoidCancels(v)
      PROVE  NotYetPaid'
  BY <1>15, NamesAssumption DEF VoidCancels, IInv, OneAtATime, KitchenInv, TypeOK,
      JobsNamed, MoneyInv, Status, PaymentStatus, NotYetPaid, EntriesSound, VoidsSound,
      kitchen, money, Transitions, CanMove, OrderState, VoidSteps
<1>16. ASSUME NEW u \in Undoers, UndoVoids(u)
      PROVE  NotYetPaid'
  BY <1>16, NamesAssumption DEF UndoVoids, IInv, OneAtATime, KitchenInv, TypeOK, JobsNamed,
      MoneyInv, Status, PaymentStatus, NotYetPaid, EntriesSound, VoidsSound, kitchen,
      money, Transitions, CanMove, OrderState, VoidSteps
<1>17. ASSUME NEW f \in Refunders, RefundRecorded(f)
      PROVE  NotYetPaid'
  BY <1>17, NamesAssumption DEF RefundRecorded, IInv, OneAtATime, KitchenInv, TypeOK,
      JobsNamed, MoneyInv, Status, PaymentStatus, NotYetPaid, EntriesSound, VoidsSound,
      kitchen, money, Transitions, CanMove, OrderState, VoidSteps
<1>18. ASSUME BillSettled
      PROVE  UNCHANGED <<status, checkout, online, pay>>
  BY <1>18 DEF BillSettled, kitchen, money
<1>19. ASSUME NEW v \in Voiders, NEW o \in Orders, VoidRequested(v, o) \/
             OrderVoidRequested(v, o)
      PROVE  UNCHANGED <<status, checkout, online, pay>>
  BY <1>19 DEF VoidRequested, OrderVoidRequested, kitchen, money
<1>20. ASSUME NEW v \in Voiders, VoidLooks(v) \/ VoidOpens(v) \/ VoidReverses(v) \/
             VoidCancelsReceipt(v)
      PROVE  UNCHANGED <<status, checkout, online, pay>>
  BY <1>20 DEF VoidLooks, VoidOpens, VoidReverses, VoidCancelsReceipt, kitchen, money
<1>21. ASSUME NEW u \in Undoers, NEW o \in Orders, UndoRequested(u, o)
      PROVE  UNCHANGED <<status, checkout, online, pay>>
  BY <1>21 DEF UndoRequested, kitchen, money
<1>22. ASSUME NEW u \in Undoers, NEW c \in Charges, ChargeVoidRequested(u, c)
      PROVE  UNCHANGED <<status, checkout, online, pay>>
  BY <1>22 DEF ChargeVoidRequested, kitchen, money
<1>23. ASSUME NEW u \in Undoers, UndoOpens(u)
      PROVE  UNCHANGED <<status, checkout, online, pay>>
  BY <1>23 DEF UndoOpens, kitchen, money
<1>24. ASSUME NEW g \in Guests, NEW o \in Orders, GuestAsks(g, o)
      PROVE  UNCHANGED <<status, checkout, online, pay>>
  BY <1>24 DEF GuestAsks, kitchen, money
<1>25. ASSUME NEW g \in Guests, RequestSent(g)
      PROVE  UNCHANGED <<status, checkout, online, pay>>
  BY <1>25 DEF RequestSent, kitchen, money
<1>26. ASSUME NEW i \in Issuers, NEW o \in Orders, ReceiptRequested(i, o)
      PROVE  UNCHANGED <<status, checkout, online, pay>>
  BY <1>26 DEF ReceiptRequested, kitchen, money
<1>27. ASSUME NEW i \in Issuers, ReceiptIssued(i)
      PROVE  UNCHANGED <<status, checkout, online, pay>>
  BY <1>27 DEF ReceiptIssued, kitchen, money
<1>28. ASSUME NEW f \in Refunders, NEW o \in Orders, NEW a \in 1 .. Total,
             RefundRequested(f, o, a)
      PROVE  UNCHANGED <<status, checkout, online, pay>>
  BY <1>28 DEF RefundRequested, kitchen, money
<1>29. ASSUME NEW h \in Handlers, HandlerDies(h)
      PROVE  UNCHANGED <<status, checkout, online, pay>>
  BY <1>29 DEF HandlerDies, kitchen, money
<1>30. ASSUME NEW o \in Orders, OrderStep(o) PROVE NotYetPaid'
  BY <1>1, <1>30, <1>2, <1>3, <1>4, <1>5, <1>6, <1>7, <1>8, <1>9, <1>10, <1>11, <1>12,
      <1>13 DEF OrderStep
<1>31. ASSUME NEW v \in Voiders, VoidStep(v) PROVE NotYetPaid'
  BY <1>1, <1>31, <1>14, <1>15, <1>19, <1>20 DEF VoidStep
<1>32. ASSUME NEW u \in Undoers, UndoStep(u) PROVE NotYetPaid'
  BY <1>1, <1>32, <1>16, <1>21, <1>22, <1>23 DEF UndoStep
<1>33. ASSUME NEW k \in Clearers, NEW o \in Orders, ClearRequested(k, o)
      PROVE  UNCHANGED <<status, checkout, online, pay>>
  BY <1>33 DEF ClearRequested, kitchen, money
<1>34. ASSUME NEW k \in Clearers, ClearServes(k)
      PROVE  NotYetPaid'
  <2>1. /\ job[k].order \in Orders /\ status[job[k].order] # "none"
        /\ ~(job[k].order \in checkout /\ online[job[k].order] = 0)
    BY <1>34 DEF ClearServes, IInv, KitchenInv, JobsNamed, MoneyInv, ClearsSound, Handlers
  <2>2. \A p \in Orders : status'[p] = IF p = job[k].order THEN "served" ELSE status[p]
    BY <1>34 DEF ClearServes, IInv, KitchenInv, TypeOK
  <2>3. UNCHANGED <<checkout, online, pay>>
    BY <1>34 DEF ClearServes, money
  <2>. QED
    BY <2>1, <2>2, <2>3 DEF IInv, MoneyInv, NotYetPaid
<1>35. ASSUME NEW k \in Clearers, ClearStep(k) PROVE NotYetPaid'
  BY <1>1, <1>33, <1>34, <1>35, <1>15 DEF ClearStep
<1>. QED
  BY <1>1, <1>17, <1>18, <1>24, <1>25, <1>26, <1>27, <1>28, <1>29, <1>30, <1>31, <1>32, <1>35 DEF
      Next, vars, kitchen, money

\* What a manager keeps of an order that is about to be served.
LEMMA ClearsStep ==
    ASSUME IInv, [Next]_vars
    PROVE  ClearsSound'
<1> DEFINE Started(o) == status[o] # "none" /\ ~(o \in checkout /\ online[o] = 0)
           Kept == (\A o \in Orders : Started(o) => Started(o)')
                   /\ \A h \in Handlers : job'[h].at = "serve" =>
                          /\ job'[h].order \in Orders
                          /\ \/ job[h].at = "serve" /\ job'[h].order = job[h].order
                             \/ Started(job'[h].order)
<1>1. Kept => ClearsSound'
  BY DEF IInv, KitchenInv, JobsNamed, MoneyInv, ClearsSound
<1>2. ASSUME UNCHANGED <<status, checkout, online, job>> PROVE Kept
  <2>1. \A o \in Orders : Started(o)' <=> Started(o)
    BY <1>2
  <2>2. \A h \in Handlers : job'[h] = job[h] /\ (job[h].at = "serve" => job[h].order \in Orders)
    BY <1>2 DEF IInv, KitchenInv, JobsNamed
  <2>. HIDE DEF Started
  <2>. QED
    BY <2>1, <2>2
<1>3. ASSUME NEW o \in Orders, PlaceOrder(o)
      PROVE  Kept
  BY <1>3 DEF PlaceOrder, IInv, KitchenInv, TypeOK, Status, JobsNamed, MoneyInv, NotYetPaid,
      VoidSteps, Handlers, kitchen, money
<1>4. ASSUME NEW o \in Orders, AcceptOrder(o)
      PROVE  Kept
  BY <1>4 DEF AcceptOrder, IInv, KitchenInv, TypeOK, Status, JobsNamed, MoneyInv, NotYetPaid,
      VoidSteps, Handlers, kitchen, money
<1>5. ASSUME NEW o \in Orders, DeclineOrder(o)
      PROVE  Kept
  BY <1>5 DEF DeclineOrder, IInv, KitchenInv, TypeOK, Status, JobsNamed, MoneyInv, NotYetPaid,
      VoidSteps, Handlers, kitchen, money
<1>6. ASSUME NEW o \in Orders, ServeOrder(o)
      PROVE  Kept
  BY <1>6 DEF ServeOrder, IInv, KitchenInv, TypeOK, Status, JobsNamed, MoneyInv, NotYetPaid,
      VoidSteps, Handlers, kitchen, money
<1>7. ASSUME NEW o \in Orders, CancelOrder(o)
      PROVE  Kept
  BY <1>7 DEF CancelOrder, IInv, KitchenInv, TypeOK, Status, JobsNamed, MoneyInv, NotYetPaid,
      VoidSteps, Handlers, kitchen, money
<1>8. ASSUME NEW o \in Orders, GuestCancels(o)
      PROVE  Kept
  BY <1>8 DEF GuestCancels, IInv, KitchenInv, TypeOK, Status, JobsNamed, MoneyInv, NotYetPaid,
      VoidSteps, Handlers, kitchen, money
<1>9. ASSUME NEW o \in Orders, ExpireOrder(o)
      PROVE  Kept
  BY <1>9 DEF ExpireOrder, IInv, KitchenInv, TypeOK, Status, JobsNamed, MoneyInv, NotYetPaid,
      VoidSteps, Handlers, kitchen, money
<1>10. ASSUME NEW o \in Orders, NEW approve \in BOOLEAN, RequestAnswered(o, approve)
      PROVE  Kept
  BY <1>10 DEF RequestAnswered, IInv, KitchenInv, TypeOK, Status, JobsNamed, MoneyInv,
      NotYetPaid, VoidSteps, Handlers, kitchen, money
<1>11. ASSUME NEW o \in Orders, NEW mine \in SUBSET Stations, NEW to \in {"preparing",
             "ready"}, StationWorks(o, mine, to)
      PROVE  Kept
  <2>1. /\ \A p \in Orders : status[p] # "none" => status'[p] # "none"
        /\ UNCHANGED <<checkout, online, job>>
    BY <1>11 DEF StationWorks, OrderState, IInv, KitchenInv, TypeOK, money
  <2>2. \A p \in Orders : Started(p) => Started(p)'
    BY <2>1
  <2>3. \A h \in Handlers : job'[h] = job[h] /\ (job[h].at = "serve" => job[h].order \in Orders)
    BY <2>1 DEF IInv, KitchenInv, JobsNamed
  <2>. HIDE DEF Started
  <2>. QED
    BY <2>2, <2>3
<1>12. ASSUME NEW o \in Orders, NEW m \in Movements \union {NoMovement}, OnlinePaid(o, m)
      PROVE  Kept
  BY <1>12 DEF OnlinePaid, IInv, KitchenInv, TypeOK, Status, JobsNamed, MoneyInv, NotYetPaid,
      VoidSteps, Handlers, kitchen, money
<1>13. ASSUME NEW v \in Voiders, NEW o \in Orders, VoidRequested(v, o)
      PROVE  Kept
  BY <1>13 DEF VoidRequested, Does, Idle, IInv, KitchenInv, TypeOK, Status, JobsNamed,
      MoneyInv, NotYetPaid, VoidSteps, Handlers, kitchen, money
<1>14. ASSUME NEW v \in Voiders, NEW o \in Orders, OrderVoidRequested(v, o)
      PROVE  Kept
  <2>1. UNCHANGED <<status, checkout, online>>
    BY <1>14 DEF OrderVoidRequested, kitchen, money
  <2>2. \A p \in Orders : Started(p) => Started(p)'
    BY <2>1
  <2>3. job'[v].at # "serve" /\ \A h \in Handlers \ {v} : job'[h] = job[h]
    <3>1. \E at \in {"cancelPaid", "cancel", "look"} :
              /\ job' = [job EXCEPT ![v] = job'[v]]
              /\ job'[v].at = at
      BY <1>14 DEF OrderVoidRequested, Does, Idle, IInv, KitchenInv, TypeOK, Handlers
    <3>. QED
      BY <3>1 DEF IInv, KitchenInv, TypeOK, Handlers
  <2>4. \A h \in Handlers : job[h].at = "serve" => job[h].order \in Orders
    BY DEF IInv, KitchenInv, JobsNamed
  <2>. HIDE DEF Started
  <2>. QED
    BY <2>2, <2>3, <2>4
<1>15. ASSUME NEW v \in Voiders, VoidLooks(v)
      PROVE  Kept
  BY <1>15 DEF VoidLooks, Does, Idle, IInv, KitchenInv, TypeOK, Status, JobsNamed, MoneyInv,
      NotYetPaid, VoidSteps, Handlers, kitchen, money
<1>16. ASSUME NEW v \in Voiders, VoidOpens(v)
      PROVE  Kept
  BY <1>16 DEF VoidOpens, Does, Idle, IInv, KitchenInv, TypeOK, Status, JobsNamed, MoneyInv,
      NotYetPaid, VoidSteps, Handlers, kitchen, money
<1>17. ASSUME NEW v \in Voiders, VoidReverses(v)
      PROVE  Kept
  BY <1>17 DEF VoidReverses, Does, Idle, IInv, KitchenInv, TypeOK, Status, JobsNamed,
      MoneyInv, NotYetPaid, VoidSteps, Handlers, kitchen, money
<1>18. ASSUME NEW v \in Voiders, VoidCancelsReceipt(v)
      PROVE  Kept
  BY <1>18 DEF VoidCancelsReceipt, Does, Idle, IInv, KitchenInv, TypeOK, Status, JobsNamed,
      MoneyInv, NotYetPaid, VoidSteps, Handlers, kitchen, money
<1>19. ASSUME NEW v \in Voiders, VoidClears(v)
      PROVE  Kept
  BY <1>19 DEF VoidClears, Does, Idle, IInv, KitchenInv, TypeOK, Status, JobsNamed, MoneyInv,
      NotYetPaid, VoidSteps, Handlers, kitchen, money
<1>20. ASSUME NEW v \in Voiders \union Clearers, VoidCancels(v)
      PROVE  Kept
  BY <1>20 DEF VoidCancels, Does, Idle, IInv, KitchenInv, TypeOK, Status, JobsNamed, MoneyInv,
      NotYetPaid, VoidSteps, Handlers, kitchen, money
<1>21. ASSUME NEW u \in Undoers, NEW o \in Orders, UndoRequested(u, o)
      PROVE  Kept
  BY <1>21 DEF UndoRequested, Does, Idle, IInv, KitchenInv, TypeOK, Status, JobsNamed,
      MoneyInv, NotYetPaid, VoidSteps, Handlers, kitchen, money
<1>22. ASSUME NEW u \in Undoers, NEW c \in Charges, ChargeVoidRequested(u, c)
      PROVE  Kept
  BY <1>22 DEF ChargeVoidRequested, Does, Idle, IInv, KitchenInv, TypeOK, Status, JobsNamed,
      MoneyInv, NotYetPaid, VoidSteps, Handlers, kitchen, money
<1>23. ASSUME NEW u \in Undoers, UndoOpens(u)
      PROVE  Kept
  BY <1>23 DEF UndoOpens, Does, Idle, IInv, KitchenInv, TypeOK, Status, JobsNamed, MoneyInv,
      NotYetPaid, VoidSteps, Handlers, kitchen, money
<1>24. ASSUME NEW u \in Undoers, UndoVoids(u)
      PROVE  Kept
  BY <1>24 DEF UndoVoids, Does, Idle, IInv, KitchenInv, TypeOK, Status, JobsNamed, MoneyInv,
      NotYetPaid, VoidSteps, Handlers, kitchen, money
<1>25. ASSUME NEW g \in Guests, NEW o \in Orders, GuestAsks(g, o)
      PROVE  Kept
  BY <1>25 DEF GuestAsks, Does, Idle, IInv, KitchenInv, TypeOK, Status, JobsNamed, MoneyInv,
      NotYetPaid, VoidSteps, Handlers, kitchen, money
<1>26. ASSUME NEW g \in Guests, RequestSent(g)
      PROVE  Kept
  BY <1>26 DEF RequestSent, Does, Idle, IInv, KitchenInv, TypeOK, Status, JobsNamed, MoneyInv,
      NotYetPaid, VoidSteps, Handlers, kitchen, money
<1>27. ASSUME NEW i \in Issuers, NEW o \in Orders, ReceiptRequested(i, o)
      PROVE  Kept
  BY <1>27 DEF ReceiptRequested, Does, Idle, IInv, KitchenInv, TypeOK, Status, JobsNamed,
      MoneyInv, NotYetPaid, VoidSteps, Handlers, kitchen, money
<1>28. ASSUME NEW i \in Issuers, ReceiptIssued(i)
      PROVE  Kept
  BY <1>28 DEF ReceiptIssued, Does, Idle, IInv, KitchenInv, TypeOK, Status, JobsNamed,
      MoneyInv, NotYetPaid, VoidSteps, Handlers, kitchen, money
<1>29. ASSUME NEW f \in Refunders, NEW o \in Orders, NEW a \in 1 .. Total, RefundRequested(f,
             o, a)
      PROVE  Kept
  BY <1>29 DEF RefundRequested, Does, Idle, IInv, KitchenInv, TypeOK, Status, JobsNamed,
      MoneyInv, NotYetPaid, VoidSteps, Handlers, kitchen, money
<1>30. ASSUME NEW f \in Refunders, RefundRecorded(f)
      PROVE  Kept
  BY <1>30 DEF RefundRecorded, Does, Idle, IInv, KitchenInv, TypeOK, Status, JobsNamed,
      MoneyInv, NotYetPaid, VoidSteps, Handlers, kitchen, money
<1>31. ASSUME NEW h \in Handlers, HandlerDies(h)
      PROVE  Kept
  BY <1>31 DEF HandlerDies, Does, Idle, IInv, KitchenInv, TypeOK, Status, JobsNamed, MoneyInv,
      NotYetPaid, VoidSteps, Handlers, kitchen, money
<1>32. ASSUME NEW k \in Clearers, NEW o \in Orders, ClearRequested(k, o)
      PROVE  Kept
  BY <1>32 DEF ClearRequested, Does, Idle, IInv, KitchenInv, TypeOK, Status, JobsNamed,
      MoneyInv, NotYetPaid, VoidSteps, Handlers, kitchen, money
<1>33. ASSUME NEW k \in Clearers, ClearServes(k)
      PROVE  Kept
  BY <1>33 DEF ClearServes, Does, Idle, IInv, KitchenInv, TypeOK, Status, JobsNamed, MoneyInv,
      NotYetPaid, VoidSteps, Handlers, kitchen, money
<1>. HIDE DEF Kept
<1>34. ASSUME NEW o \in Orders, NEW m \in Movements, PayOrder(o, m)
      PROVE  Kept
  BY <1>2, <1>34 DEF PayOrder, kitchen, money
<1>35. ASSUME NEW o \in Orders, NEW c \in Charges, ChargeToRoom(o, c)
      PROVE  Kept
  BY <1>2, <1>35 DEF ChargeToRoom, kitchen, money
<1>36. ASSUME BillSettled
      PROVE  Kept
  BY <1>2, <1>36 DEF BillSettled, kitchen, money
<1>37. ASSUME NEW o \in Orders, OrderStep(o) PROVE Kept
  BY <1>37, <1>3, <1>4, <1>5, <1>6, <1>7, <1>8, <1>9, <1>10, <1>11, <1>12, <1>34, <1>35 DEF
      OrderStep
<1>38. ASSUME NEW v \in Voiders, VoidStep(v) PROVE Kept
  BY <1>38, <1>13, <1>14, <1>15, <1>16, <1>17, <1>18, <1>19, <1>20 DEF VoidStep
<1>39. ASSUME NEW u \in Undoers, UndoStep(u) PROVE Kept
  BY <1>39, <1>21, <1>22, <1>23, <1>24 DEF UndoStep
<1>40. ASSUME NEW k \in Clearers, ClearStep(k) PROVE Kept
  BY <1>40, <1>20, <1>32, <1>33 DEF ClearStep
<1>. QED
  BY <1>1, <1>2, <1>25, <1>26, <1>27, <1>28, <1>29, <1>30, <1>31, <1>36, <1>37, <1>38, <1>39,
      <1>40 DEF Next, vars, kitchen, money

\* An order points at a movement of its own, and only while paid.
LEMMA EntriesStep ==
    ASSUME IInv, OneAtATime, [Next]_vars
    PROVE  EntriesSound'
<1>1. CASE UNCHANGED <<pay, entry, movement>>
  BY <1>1 DEF IInv, MoneyInv, EntriesSound, Free
<1>2. ASSUME NEW o \in Orders, NEW m \in Movements, PayOrder(o, m)
      PROVE  EntriesSound'
  BY <1>2, NamesAssumption DEF PayOrder, IInv, OneAtATime, KitchenInv, TypeOK, JobsNamed,
      MoneyInv, PaymentStatus, Movement, NotYetPaid, EntriesSound, VoidsSound,
      BillAndOrderAgree, kitchen, money, Free, Posted, VoidSteps
<1>3. ASSUME NEW o \in Orders, NEW m \in Movements \union {NoMovement}, OnlinePaid(o, m)
      PROVE  EntriesSound'
  <2>1. pay[o] = "unpaid" /\ o \in checkout /\ online[o] = 0
    <3>1. o \in checkout /\ online[o] < Checkouts
      BY <1>3 DEF OnlinePaid
    <3>2. online[o] \in Nat /\ Checkouts \in Nat /\ Checkouts <= 1
      BY NamesAssumption DEF OneAtATime, IInv, KitchenInv, TypeOK
    <3>3. online[o] = 0
      BY <3>1, <3>2
    <3>. QED
      BY <3>1, <3>3 DEF IInv, MoneyInv, NotYetPaid
  <2>2. pay' = [pay EXCEPT ![o] = "paid"] /\ entry' = [entry EXCEPT ![o] = m]
    BY <1>3, <2>1 DEF OnlinePaid
  <2>3. CASE m = NoMovement
    <3>1. movement' = movement
      BY <1>3, <2>3 DEF OnlinePaid
    <3>. QED
      BY <1>3, <2>1, <2>2, <2>3, <3>1, NamesAssumption DEF OnlinePaid, IInv, KitchenInv,
          TypeOK, JobsNamed, MoneyInv, PaymentStatus, Movement, Free, EntriesSound
  <2>4. CASE m \in Movements
    <3>1. Free(m) /\ movement' = [movement EXCEPT ![m].of = o]
      BY <1>3, <2>4, NamesAssumption DEF OnlinePaid
    <3>. QED
      BY <1>3, <2>1, <2>2, <2>4, <3>1, NamesAssumption DEF OnlinePaid, IInv, KitchenInv,
          TypeOK, JobsNamed, MoneyInv, PaymentStatus, Movement, Free, EntriesSound
  <2>. QED
    BY <2>3, <2>4
<1>4. ASSUME NEW o \in Orders, NEW c \in Charges, ChargeToRoom(o, c)
      PROVE  EntriesSound'
  BY <1>4, NamesAssumption DEF ChargeToRoom, IInv, OneAtATime, KitchenInv, TypeOK,
      JobsNamed, MoneyInv, PaymentStatus, Movement, NotYetPaid, EntriesSound, VoidsSound,
      BillAndOrderAgree, kitchen, money, Free, Posted, VoidSteps
<1>5. ASSUME NEW v \in Voiders, VoidReverses(v)
      PROVE  EntriesSound'
  <2>1. /\ job[v].entry \in Movements /\ job[v].order \in Orders
        /\ movement[job[v].entry].reversed = 0
        /\ movement[job[v].entry].of = job[v].order
        /\ entry[job[v].order] = job[v].entry
    BY <1>5, NamesAssumption DEF VoidReverses, IInv, KitchenInv, TypeOK, JobsNamed,
        MoneyInv, Movement, Handlers, VoidSteps, EntriesSound, VoidsSound, Reversed
  <2>2. \A m \in Movements : movement'[m].of = movement[m].of
        /\ movement'[m].reversed = IF m = job[v].entry THEN 1 ELSE movement[m].reversed
    BY <1>5, <2>1 DEF VoidReverses, IInv, KitchenInv, TypeOK, Movement
  <2>. QED
    BY <1>5, <2>1, <2>2, NamesAssumption DEF VoidReverses, IInv, KitchenInv, TypeOK,
        JobsNamed, MoneyInv, EntriesSound, Free
<1>6. ASSUME NEW v \in Voiders, VoidClears(v)
      PROVE  EntriesSound'
  BY <1>6, NamesAssumption DEF VoidClears, IInv, OneAtATime, KitchenInv, TypeOK, JobsNamed,
      MoneyInv, PaymentStatus, Movement, NotYetPaid, EntriesSound, VoidsSound,
      BillAndOrderAgree, kitchen, money, Free, Posted, VoidSteps
<1>7. ASSUME NEW u \in Undoers, UndoVoids(u)
      PROVE  EntriesSound'
  BY <1>7, NamesAssumption DEF UndoVoids, IInv, OneAtATime, KitchenInv, TypeOK, JobsNamed,
      MoneyInv, PaymentStatus, Movement, NotYetPaid, EntriesSound, VoidsSound,
      BillAndOrderAgree, kitchen, money, Free, Posted, VoidSteps
<1>8. ASSUME NEW f \in Refunders, RefundRecorded(f)
      PROVE  EntriesSound'
  BY <1>8, NamesAssumption DEF RefundRecorded, IInv, OneAtATime, KitchenInv, TypeOK,
      JobsNamed, MoneyInv, PaymentStatus, Movement, NotYetPaid, EntriesSound, VoidsSound,
      BillAndOrderAgree, kitchen, money, Free, Posted, VoidSteps
<1>9. ASSUME NEW o \in Orders, PlaceOrder(o) \/ AcceptOrder(o) \/ DeclineOrder(o) \/
             ServeOrder(o) \/ CancelOrder(o) \/ GuestCancels(o) \/ ExpireOrder(o)
      PROVE  UNCHANGED <<pay, entry, movement>>
  BY <1>9 DEF PlaceOrder, AcceptOrder, DeclineOrder, ServeOrder, CancelOrder, GuestCancels,
      ExpireOrder, kitchen, money
<1>10. ASSUME NEW o \in Orders, NEW approve \in BOOLEAN, RequestAnswered(o, approve)
      PROVE  UNCHANGED <<pay, entry, movement>>
  BY <1>10 DEF RequestAnswered, kitchen, money
<1>11. ASSUME NEW o \in Orders, NEW mine \in SUBSET Stations, NEW to \in {"preparing",
             "ready"}, StationWorks(o, mine, to)
      PROVE  UNCHANGED <<pay, entry, movement>>
  BY <1>11 DEF StationWorks, kitchen, money
<1>12. ASSUME BillSettled
      PROVE  UNCHANGED <<pay, entry, movement>>
  BY <1>12 DEF BillSettled, kitchen, money
<1>13. ASSUME NEW v \in Voiders, NEW o \in Orders, VoidRequested(v, o) \/
             OrderVoidRequested(v, o)
      PROVE  UNCHANGED <<pay, entry, movement>>
  BY <1>13 DEF VoidRequested, OrderVoidRequested, kitchen, money
<1>14. ASSUME NEW v \in Voiders \union Clearers, VoidLooks(v) \/ VoidOpens(v) \/
             VoidCancelsReceipt(v) \/ VoidCancels(v)
      PROVE  UNCHANGED <<pay, entry, movement>>
  BY <1>14 DEF VoidLooks, VoidOpens, VoidCancelsReceipt, VoidCancels, kitchen, money
<1>15. ASSUME NEW u \in Undoers, NEW o \in Orders, UndoRequested(u, o)
      PROVE  UNCHANGED <<pay, entry, movement>>
  BY <1>15 DEF UndoRequested, kitchen, money
<1>16. ASSUME NEW u \in Undoers, NEW c \in Charges, ChargeVoidRequested(u, c)
      PROVE  UNCHANGED <<pay, entry, movement>>
  BY <1>16 DEF ChargeVoidRequested, kitchen, money
<1>17. ASSUME NEW u \in Undoers, UndoOpens(u)
      PROVE  UNCHANGED <<pay, entry, movement>>
  BY <1>17 DEF UndoOpens, kitchen, money
<1>18. ASSUME NEW g \in Guests, NEW o \in Orders, GuestAsks(g, o)
      PROVE  UNCHANGED <<pay, entry, movement>>
  BY <1>18 DEF GuestAsks, kitchen, money
<1>19. ASSUME NEW g \in Guests, RequestSent(g)
      PROVE  UNCHANGED <<pay, entry, movement>>
  BY <1>19 DEF RequestSent, kitchen, money
<1>20. ASSUME NEW i \in Issuers, NEW o \in Orders, ReceiptRequested(i, o)
      PROVE  UNCHANGED <<pay, entry, movement>>
  BY <1>20 DEF ReceiptRequested, kitchen, money
<1>21. ASSUME NEW i \in Issuers, ReceiptIssued(i)
      PROVE  UNCHANGED <<pay, entry, movement>>
  BY <1>21 DEF ReceiptIssued, kitchen, money
<1>22. ASSUME NEW f \in Refunders, NEW o \in Orders, NEW a \in 1 .. Total,
             RefundRequested(f, o, a)
      PROVE  UNCHANGED <<pay, entry, movement>>
  BY <1>22 DEF RefundRequested, kitchen, money
<1>23. ASSUME NEW h \in Handlers, HandlerDies(h)
      PROVE  UNCHANGED <<pay, entry, movement>>
  BY <1>23 DEF HandlerDies, kitchen, money
<1>24. ASSUME NEW o \in Orders, OrderStep(o) PROVE EntriesSound'
  BY <1>1, <1>24, <1>2, <1>3, <1>4, <1>9, <1>10, <1>11 DEF OrderStep
<1>25. ASSUME NEW v \in Voiders, VoidStep(v) PROVE EntriesSound'
  BY <1>1, <1>25, <1>5, <1>6, <1>13, <1>14 DEF VoidStep
<1>26. ASSUME NEW u \in Undoers, UndoStep(u) PROVE EntriesSound'
  BY <1>1, <1>26, <1>7, <1>15, <1>16, <1>17 DEF UndoStep
<1>27. ASSUME NEW k \in Clearers, NEW o \in Orders, ClearRequested(k, o)
      PROVE  UNCHANGED <<pay, entry, movement>>
  BY <1>27 DEF ClearRequested, kitchen, money
<1>28. ASSUME NEW k \in Clearers, ClearServes(k)
      PROVE  UNCHANGED <<pay, entry, movement>>
  BY <1>28 DEF ClearServes, kitchen, money
<1>29. ASSUME NEW k \in Clearers, ClearStep(k) PROVE EntriesSound'
  BY <1>1, <1>27, <1>28, <1>29, <1>14 DEF ClearStep
<1>. QED
  BY <1>1, <1>8, <1>12, <1>18, <1>19, <1>20, <1>21, <1>22, <1>23, <1>24, <1>25, <1>26, <1>29 DEF
      Next, vars, kitchen, money

\* What a manager keeps of a payment stays true while it is voided.
LEMMA VoidsStep ==
    ASSUME IInv, OneAtATime, [Next]_vars
    PROVE  VoidsSound'
<1>1. CASE UNCHANGED <<job, entry, movement>>
  BY <1>1 DEF IInv, MoneyInv, VoidsSound, Reversed
<1>2. ASSUME NEW o \in Orders, NEW m \in Movements, PayOrder(o, m)
      PROVE  VoidsSound'
  <2>1. job' = job /\ entry[o] = NoMovement
    BY <1>2, NamesAssumption DEF PayOrder, IInv, KitchenInv, TypeOK, MoneyInv, EntriesSound
  <2>2. /\ \A p \in Orders \ {o} : entry'[p] = entry[p]
        /\ \A n \in Movements : movement'[n].reversed = movement[n].reversed
    BY <1>2 DEF PayOrder, Posted, IInv, KitchenInv, TypeOK, Movement
  <2>3. \A v \in Handlers : job[v].at \in VoidSteps =>
            job[v].order \in Orders \ {o} /\ job[v].entry \in Movements
    BY <2>1, NamesAssumption DEF IInv, KitchenInv, JobsNamed, MoneyInv, VoidsSound
  <2>. QED
    BY <2>1, <2>2, <2>3 DEF IInv, MoneyInv, VoidsSound, Reversed, VoidSteps
<1>3. ASSUME NEW o \in Orders, NEW m \in Movements \union {NoMovement}, OnlinePaid(o, m)
      PROVE  VoidsSound'
  <2>1. pay[o] = "unpaid" /\ o \in checkout /\ online[o] = 0
    <3>1. o \in checkout /\ online[o] < Checkouts
      BY <1>3 DEF OnlinePaid
    <3>2. online[o] \in Nat /\ Checkouts \in Nat /\ Checkouts <= 1
      BY NamesAssumption DEF OneAtATime, IInv, KitchenInv, TypeOK
    <3>3. online[o] = 0
      BY <3>1, <3>2
    <3>. QED
      BY <3>1, <3>3 DEF IInv, MoneyInv, NotYetPaid
  <2>2. pay' = [pay EXCEPT ![o] = "paid"] /\ entry' = [entry EXCEPT ![o] = m]
    BY <1>3, <2>1 DEF OnlinePaid
  <2>3. \A v \in Handlers : job[v].at \in VoidSteps => job[v].order # o /\ job[v].order \in
      Orders
    BY <2>1, NamesAssumption DEF IInv, KitchenInv, TypeOK, JobsNamed, MoneyInv, VoidsSound,
        EntriesSound, VoidSteps
  <2>4. \A n \in Movements : movement'[n].reversed = movement[n].reversed
    BY <1>3 DEF OnlinePaid, IInv, KitchenInv, TypeOK, Movement, Free
  <2>5. \A p \in Orders \ {o} : entry'[p] = entry[p]
    BY <2>2 DEF IInv, KitchenInv, TypeOK
  <2>6. \A v \in Handlers : job[v].at \in VoidSteps => job[v].entry \in Movements
    BY DEF IInv, KitchenInv, JobsNamed
  <2>. QED
    BY <1>3, <2>3, <2>4, <2>5, <2>6 DEF OnlinePaid, IInv, MoneyInv, VoidsSound, Reversed,
        VoidSteps
<1>4. ASSUME NEW v \in Voiders, NEW o \in Orders, VoidRequested(v, o)
      PROVE  VoidsSound'
  BY <1>4, NamesAssumption DEF VoidRequested, Does, Idle, IInv, OneAtATime, KitchenInv,
      TypeOK, JobsNamed, MoneyInv, Handlers, PaymentStatus, Movement, Job, Steps,
      NotYetPaid, EntriesSound, VoidsSound, kitchen, money, Free, Posted, VoidSteps,
      Reversed
<1>5. ASSUME NEW v \in Voiders, NEW o \in Orders, OrderVoidRequested(v, o)
      PROVE  VoidsSound'
  <2>1. \A h \in Handlers \ {v} : job'[h] = job[h]
    BY <1>5 DEF OrderVoidRequested, Does, IInv, TypeOK, KitchenInv
  <2>2. \/ job'[v] = [Idle EXCEPT !.at = "cancelPaid", !.order = o]
        \/ job'[v] = [Idle EXCEPT !.at = "cancel", !.order = o]
        \/ /\ entry[o] # NoMovement
           /\ job'[v] = [Idle EXCEPT !.at = "look", !.order = o, !.entry = entry[o],
                                       !.cancels = TRUE]
    BY <1>5 DEF OrderVoidRequested, Does, IInv, TypeOK, KitchenInv, Handlers
  <2>3. /\ job'[v].order = o
        /\ \/ job'[v].at \in {"cancel", "cancelPaid"}
           \/ job'[v].at = "look" /\ job'[v].entry = entry[o] /\ entry[o] \in Movements
    BY <2>2 DEF Idle, IInv, TypeOK, KitchenInv
  <2>. QED
    BY <1>5, <2>1, <2>3 DEF OrderVoidRequested, IInv, MoneyInv, VoidsSound, Reversed,
        VoidSteps, money
<1>6. ASSUME NEW v \in Voiders, VoidLooks(v)
      PROVE  VoidsSound'
  BY <1>6, NamesAssumption DEF VoidLooks, Does, Idle, IInv, OneAtATime, KitchenInv, TypeOK,
      JobsNamed, MoneyInv, Handlers, PaymentStatus, Movement, Job, Steps, NotYetPaid,
      EntriesSound, VoidsSound, kitchen, money, Free, Posted, VoidSteps, Reversed
<1>7. ASSUME NEW v \in Voiders, VoidOpens(v)
      PROVE  VoidsSound'
  BY <1>7, NamesAssumption DEF VoidOpens, Does, Idle, IInv, OneAtATime, KitchenInv, TypeOK,
      JobsNamed, MoneyInv, Handlers, PaymentStatus, Movement, Job, Steps, NotYetPaid,
      EntriesSound, VoidsSound, kitchen, money, Free, Posted, VoidSteps, Reversed
<1>8. ASSUME NEW v \in Voiders, VoidReverses(v)
      PROVE  VoidsSound'
  BY <1>8, NamesAssumption DEF VoidReverses, Does, Idle, IInv, OneAtATime, KitchenInv,
      TypeOK, JobsNamed, MoneyInv, Handlers, PaymentStatus, Movement, Job, Steps,
      NotYetPaid, EntriesSound, VoidsSound, kitchen, money, Free, Posted, VoidSteps,
      Reversed
<1>9. ASSUME NEW v \in Voiders, VoidCancelsReceipt(v)
      PROVE  VoidsSound'
  BY <1>9, NamesAssumption DEF VoidCancelsReceipt, Does, Idle, IInv, OneAtATime,
      KitchenInv, TypeOK, JobsNamed, MoneyInv, Handlers, PaymentStatus, Movement, Job,
      Steps, NotYetPaid, EntriesSound, VoidsSound, kitchen, money, Free, Posted, VoidSteps,
      Reversed
<1>10. ASSUME NEW v \in Voiders, VoidClears(v)
      PROVE  VoidsSound'
  BY <1>10, NamesAssumption DEF VoidClears, Does, Idle, IInv, OneAtATime, KitchenInv,
      TypeOK, JobsNamed, MoneyInv, Handlers, PaymentStatus, Movement, Job, Steps,
      NotYetPaid, EntriesSound, VoidsSound, kitchen, money, Free, Posted, VoidSteps,
      Reversed
<1>11. ASSUME NEW v \in Voiders \union Clearers, VoidCancels(v)
      PROVE  VoidsSound'
  BY <1>11, NamesAssumption DEF VoidCancels, Does, Idle, IInv, OneAtATime, KitchenInv,
      TypeOK, JobsNamed, MoneyInv, Handlers, PaymentStatus, Movement, Job, Steps,
      NotYetPaid, EntriesSound, VoidsSound, kitchen, money, Free, Posted, VoidSteps,
      Reversed
<1>12. ASSUME NEW u \in Undoers, NEW o \in Orders, UndoRequested(u, o)
      PROVE  VoidsSound'
  BY <1>12, NamesAssumption DEF UndoRequested, Does, Idle, IInv, OneAtATime, KitchenInv,
      TypeOK, JobsNamed, MoneyInv, Handlers, PaymentStatus, Movement, Job, Steps,
      NotYetPaid, EntriesSound, VoidsSound, kitchen, money, Free, Posted, VoidSteps,
      Reversed
<1>13. ASSUME NEW u \in Undoers, NEW c \in Charges, ChargeVoidRequested(u, c)
      PROVE  VoidsSound'
  BY <1>13, NamesAssumption DEF ChargeVoidRequested, Does, Idle, IInv, OneAtATime,
      KitchenInv, TypeOK, JobsNamed, MoneyInv, Handlers, PaymentStatus, Movement, Job,
      Steps, NotYetPaid, EntriesSound, VoidsSound, kitchen, money, Free, Posted, VoidSteps,
      Reversed
<1>14. ASSUME NEW u \in Undoers, UndoOpens(u)
      PROVE  VoidsSound'
  BY <1>14, NamesAssumption DEF UndoOpens, Does, Idle, IInv, OneAtATime, KitchenInv,
      TypeOK, JobsNamed, MoneyInv, Handlers, PaymentStatus, Movement, Job, Steps,
      NotYetPaid, EntriesSound, VoidsSound, kitchen, money, Free, Posted, VoidSteps,
      Reversed
<1>15. ASSUME NEW u \in Undoers, UndoVoids(u)
      PROVE  VoidsSound'
  BY <1>15, NamesAssumption DEF UndoVoids, Does, Idle, IInv, OneAtATime, KitchenInv,
      TypeOK, JobsNamed, MoneyInv, Handlers, PaymentStatus, Movement, Job, Steps,
      NotYetPaid, EntriesSound, VoidsSound, kitchen, money, Free, Posted, VoidSteps,
      Reversed
<1>16. ASSUME NEW g \in Guests, NEW o \in Orders, GuestAsks(g, o)
      PROVE  VoidsSound'
  BY <1>16, NamesAssumption DEF GuestAsks, Does, Idle, IInv, OneAtATime, KitchenInv,
      TypeOK, JobsNamed, MoneyInv, Handlers, PaymentStatus, Movement, Job, Steps,
      NotYetPaid, EntriesSound, VoidsSound, kitchen, money, Free, Posted, VoidSteps,
      Reversed
<1>17. ASSUME NEW g \in Guests, RequestSent(g)
      PROVE  VoidsSound'
  BY <1>17, NamesAssumption DEF RequestSent, Does, Idle, IInv, OneAtATime, KitchenInv,
      TypeOK, JobsNamed, MoneyInv, Handlers, PaymentStatus, Movement, Job, Steps,
      NotYetPaid, EntriesSound, VoidsSound, kitchen, money, Free, Posted, VoidSteps,
      Reversed
<1>18. ASSUME NEW i \in Issuers, NEW o \in Orders, ReceiptRequested(i, o)
      PROVE  VoidsSound'
  BY <1>18, NamesAssumption DEF ReceiptRequested, Does, Idle, IInv, OneAtATime, KitchenInv,
      TypeOK, JobsNamed, MoneyInv, Handlers, PaymentStatus, Movement, Job, Steps,
      NotYetPaid, EntriesSound, VoidsSound, kitchen, money, Free, Posted, VoidSteps,
      Reversed
<1>19. ASSUME NEW i \in Issuers, ReceiptIssued(i)
      PROVE  VoidsSound'
  BY <1>19, NamesAssumption DEF ReceiptIssued, Does, Idle, IInv, OneAtATime, KitchenInv,
      TypeOK, JobsNamed, MoneyInv, Handlers, PaymentStatus, Movement, Job, Steps,
      NotYetPaid, EntriesSound, VoidsSound, kitchen, money, Free, Posted, VoidSteps,
      Reversed
<1>20. ASSUME NEW f \in Refunders, NEW o \in Orders, NEW a \in 1 .. Total,
             RefundRequested(f, o, a)
      PROVE  VoidsSound'
  BY <1>20, NamesAssumption DEF RefundRequested, Does, Idle, IInv, OneAtATime, KitchenInv,
      TypeOK, JobsNamed, MoneyInv, Handlers, PaymentStatus, Movement, Job, Steps,
      NotYetPaid, EntriesSound, VoidsSound, kitchen, money, Free, Posted, VoidSteps,
      Reversed
<1>21. ASSUME NEW f \in Refunders, RefundRecorded(f)
      PROVE  VoidsSound'
  BY <1>21, NamesAssumption DEF RefundRecorded, Does, Idle, IInv, OneAtATime, KitchenInv,
      TypeOK, JobsNamed, MoneyInv, Handlers, PaymentStatus, Movement, Job, Steps,
      NotYetPaid, EntriesSound, VoidsSound, kitchen, money, Free, Posted, VoidSteps,
      Reversed
<1>22. ASSUME NEW h \in Handlers, HandlerDies(h)
      PROVE  VoidsSound'
  BY <1>22, NamesAssumption DEF HandlerDies, Does, Idle, IInv, OneAtATime, KitchenInv,
      TypeOK, JobsNamed, MoneyInv, Handlers, PaymentStatus, Movement, Job, Steps,
      NotYetPaid, EntriesSound, VoidsSound, kitchen, money, Free, Posted, VoidSteps,
      Reversed
<1>23. ASSUME NEW o \in Orders, PlaceOrder(o) \/ AcceptOrder(o) \/ DeclineOrder(o) \/
             ServeOrder(o) \/ CancelOrder(o) \/ GuestCancels(o) \/ ExpireOrder(o)
      PROVE  UNCHANGED <<job, entry, movement>>
  BY <1>23 DEF PlaceOrder, AcceptOrder, DeclineOrder, ServeOrder, CancelOrder,
      GuestCancels, ExpireOrder, kitchen, money
<1>24. ASSUME NEW o \in Orders, NEW approve \in BOOLEAN, RequestAnswered(o, approve)
      PROVE  UNCHANGED <<job, entry, movement>>
  BY <1>24 DEF RequestAnswered, kitchen, money
<1>25. ASSUME NEW o \in Orders, NEW mine \in SUBSET Stations, NEW to \in {"preparing",
             "ready"}, StationWorks(o, mine, to)
      PROVE  UNCHANGED <<job, entry, movement>>
  BY <1>25 DEF StationWorks, kitchen, money
<1>26. ASSUME NEW o \in Orders, NEW c \in Charges, ChargeToRoom(o, c)
      PROVE  UNCHANGED <<job, entry, movement>>
  BY <1>26 DEF ChargeToRoom, kitchen, money
<1>27. ASSUME BillSettled
      PROVE  UNCHANGED <<job, entry, movement>>
  BY <1>27 DEF BillSettled, kitchen, money
<1>28. ASSUME NEW o \in Orders, OrderStep(o) PROVE VoidsSound'
  BY <1>1, <1>28, <1>2, <1>3, <1>23, <1>24, <1>25, <1>26 DEF OrderStep
<1>29. ASSUME NEW v \in Voiders, VoidStep(v) PROVE VoidsSound'
  BY <1>1, <1>29, <1>4, <1>5, <1>6, <1>7, <1>8, <1>9, <1>10, <1>11 DEF VoidStep
<1>30. ASSUME NEW u \in Undoers, UndoStep(u) PROVE VoidsSound'
  BY <1>1, <1>30, <1>12, <1>13, <1>14, <1>15 DEF UndoStep
<1>31. ASSUME NEW k \in Clearers, NEW o \in Orders, ClearRequested(k, o)
      PROVE  VoidsSound'
  BY <1>31 DEF ClearRequested, Does, Idle, IInv, KitchenInv, TypeOK, MoneyInv, VoidsSound,
      VoidSteps, Reversed, money, Handlers
<1>32. ASSUME NEW k \in Clearers, ClearServes(k)
      PROVE  VoidsSound'
  BY <1>32 DEF ClearServes, Does, Idle, IInv, KitchenInv, TypeOK, MoneyInv, VoidsSound,
      VoidSteps, Reversed, money, Handlers
<1>33. ASSUME NEW k \in Clearers, ClearStep(k) PROVE VoidsSound'
  BY <1>1, <1>31, <1>32, <1>33, <1>11 DEF ClearStep
<1>. QED
  BY <1>1, <1>16, <1>17, <1>18, <1>19, <1>20, <1>21, <1>22, <1>27, <1>28, <1>29, <1>30, <1>33 DEF
      Next, vars, kitchen, money

\* Money in the ledger keeps its order.
LEMMA ShownStep ==
    ASSUME IInv, OneAtATime, [Next]_vars
    PROVE  MoneyIsShown'
<1>1. CASE UNCHANGED <<pay, entry, movement>>
  BY <1>1 DEF IInv, MoneyInv, MoneyIsShown, Live
<1>2. ASSUME NEW o \in Orders, NEW m \in Movements, PayOrder(o, m)
      PROVE  MoneyIsShown'
  <2>1. entry[o] = NoMovement /\ movement[m].reversed = 0
    BY <1>2 DEF PayOrder, Free, IInv, MoneyInv, EntriesSound
  <2>2. \A n \in Movements : movement'[n] = IF n = m THEN [movement[m] EXCEPT !.of = o]
      ELSE movement[n]
    BY <1>2 DEF PayOrder, Posted, IInv, KitchenInv, TypeOK
  <2>3. movement[m] \in Movement /\ movement'[m].of = o /\ movement'[m].reversed = 0
    BY <2>1, <2>2 DEF IInv, KitchenInv, TypeOK, Movement
  <2>4. pay'[o] = "paid" /\ entry'[o] = m /\ \A p \in Orders \ {o} : pay'[p] = pay[p] /\
      entry'[p] = entry[p]
    BY <1>2 DEF PayOrder, IInv, KitchenInv, TypeOK
  <2>5. \A n \in Movements : ~Live(n, o)
    BY <1>2 DEF PayOrder, IInv, MoneyInv, MoneyIsShown
  <2>. QED
    BY <2>2, <2>3, <2>4, <2>5 DEF Live, IInv, MoneyInv, MoneyIsShown
<1>3. ASSUME NEW o \in Orders, NEW m \in Movements \union {NoMovement}, OnlinePaid(o, m)
      PROVE  MoneyIsShown'
  <2>1. pay[o] = "unpaid" /\ o \in checkout /\ online[o] = 0
    <3>1. o \in checkout /\ online[o] < Checkouts
      BY <1>3 DEF OnlinePaid
    <3>2. online[o] \in Nat /\ Checkouts \in Nat /\ Checkouts <= 1
      BY NamesAssumption DEF OneAtATime, IInv, KitchenInv, TypeOK
    <3>3. online[o] = 0
      BY <3>1, <3>2
    <3>. QED
      BY <3>1, <3>3 DEF IInv, MoneyInv, NotYetPaid
  <2>2. pay' = [pay EXCEPT ![o] = "paid"] /\ entry' = [entry EXCEPT ![o] = m]
    BY <1>3, <2>1 DEF OnlinePaid
  <2>3. CASE m = NoMovement
    <3>1. movement' = movement
      BY <1>3, <2>3 DEF OnlinePaid
    <3>. QED
      BY <1>3, <2>1, <2>2, <2>3, <3>1, NamesAssumption DEF OnlinePaid, IInv, KitchenInv,
          TypeOK, JobsNamed, MoneyInv, PaymentStatus, Movement, Free, MoneyIsShown,
          EntriesSound, Live
  <2>4. CASE m \in Movements
    <3>1. Free(m) /\ movement' = [movement EXCEPT ![m].of = o]
      BY <1>3, <2>4, NamesAssumption DEF OnlinePaid
    <3>. QED
      BY <1>3, <2>1, <2>2, <2>4, <3>1, NamesAssumption DEF OnlinePaid, IInv, KitchenInv,
          TypeOK, JobsNamed, MoneyInv, PaymentStatus, Movement, Free, MoneyIsShown,
          EntriesSound, Live
  <2>. QED
    BY <2>3, <2>4
<1>4. ASSUME NEW o \in Orders, NEW c \in Charges, ChargeToRoom(o, c)
      PROVE  MoneyIsShown'
  BY <1>4, NamesAssumption DEF ChargeToRoom, IInv, OneAtATime, KitchenInv, TypeOK,
      JobsNamed, MoneyInv, PaymentStatus, Movement, NotYetPaid, EntriesSound, VoidsSound,
      MoneyIsShown, BillAndOrderAgree, kitchen, money, Free, Posted, Live, Reversed,
      VoidSteps
<1>5. ASSUME NEW v \in Voiders, VoidReverses(v)
      PROVE  MoneyIsShown'
  <2>1. /\ job[v].entry \in Movements /\ job[v].order \in Orders
        /\ movement[job[v].entry].reversed = 0
        /\ movement[job[v].entry].of = job[v].order
        /\ entry[job[v].order] = job[v].entry
    BY <1>5, NamesAssumption DEF VoidReverses, IInv, KitchenInv, TypeOK, JobsNamed,
        MoneyInv, Movement, Handlers, VoidSteps, EntriesSound, VoidsSound, Reversed
  <2>2. \A m \in Movements : movement'[m].of = movement[m].of
        /\ movement'[m].reversed = IF m = job[v].entry THEN 1 ELSE movement[m].reversed
    BY <1>5, <2>1 DEF VoidReverses, IInv, KitchenInv, TypeOK, Movement
  <2>. QED
    BY <1>5, <2>1, <2>2, NamesAssumption DEF VoidReverses, IInv, KitchenInv, TypeOK,
        JobsNamed, MoneyInv, MoneyIsShown, Live
<1>6. ASSUME NEW v \in Voiders, VoidClears(v)
      PROVE  MoneyIsShown'
  <2>1. /\ job[v].order \in Orders /\ job[v].entry \in Movements
        /\ entry[job[v].order] = job[v].entry
        /\ movement[job[v].entry].reversed # 0
    BY <1>6 DEF VoidClears, IInv, KitchenInv, TypeOK, Movement, JobsNamed, MoneyInv,
        VoidsSound, Reversed, Handlers, VoidSteps
  <2>2. \A m \in Movements : ~Live(m, job[v].order)
    BY <2>1 DEF IInv, MoneyInv, MoneyIsShown, Live
  <2>3. movement' = movement /\ \A p \in Orders \ {job[v].order} : pay'[p] = pay[p] /\
      entry'[p] = entry[p]
    BY <1>6, <2>1 DEF VoidClears, IInv, KitchenInv, TypeOK
  <2>. QED
    BY <2>2, <2>3 DEF Live, IInv, MoneyInv, MoneyIsShown
<1>7. ASSUME NEW u \in Undoers, UndoVoids(u)
      PROVE  MoneyIsShown'
  BY <1>7, NamesAssumption DEF UndoVoids, IInv, OneAtATime, KitchenInv, TypeOK, JobsNamed,
      MoneyInv, PaymentStatus, Movement, NotYetPaid, EntriesSound, VoidsSound,
      MoneyIsShown, BillAndOrderAgree, kitchen, money, Free, Posted, Live, Reversed,
      VoidSteps
<1>8. ASSUME NEW f \in Refunders, RefundRecorded(f)
      PROVE  MoneyIsShown'
  BY <1>8, NamesAssumption DEF RefundRecorded, IInv, OneAtATime, KitchenInv, TypeOK,
      JobsNamed, MoneyInv, PaymentStatus, Movement, NotYetPaid, EntriesSound, VoidsSound,
      MoneyIsShown, BillAndOrderAgree, kitchen, money, Free, Posted, Live, Reversed,
      VoidSteps
<1>9. ASSUME NEW o \in Orders, PlaceOrder(o) \/ AcceptOrder(o) \/ DeclineOrder(o) \/
             ServeOrder(o) \/ CancelOrder(o) \/ GuestCancels(o) \/ ExpireOrder(o)
      PROVE  UNCHANGED <<pay, entry, movement>>
  BY <1>9 DEF PlaceOrder, AcceptOrder, DeclineOrder, ServeOrder, CancelOrder, GuestCancels,
      ExpireOrder, kitchen, money
<1>10. ASSUME NEW o \in Orders, NEW approve \in BOOLEAN, RequestAnswered(o, approve)
      PROVE  UNCHANGED <<pay, entry, movement>>
  BY <1>10 DEF RequestAnswered, kitchen, money
<1>11. ASSUME NEW o \in Orders, NEW mine \in SUBSET Stations, NEW to \in {"preparing",
             "ready"}, StationWorks(o, mine, to)
      PROVE  UNCHANGED <<pay, entry, movement>>
  BY <1>11 DEF StationWorks, kitchen, money
<1>12. ASSUME BillSettled
      PROVE  UNCHANGED <<pay, entry, movement>>
  BY <1>12 DEF BillSettled, kitchen, money
<1>13. ASSUME NEW v \in Voiders, NEW o \in Orders, VoidRequested(v, o) \/
             OrderVoidRequested(v, o)
      PROVE  UNCHANGED <<pay, entry, movement>>
  BY <1>13 DEF VoidRequested, OrderVoidRequested, kitchen, money
<1>14. ASSUME NEW v \in Voiders \union Clearers, VoidLooks(v) \/ VoidOpens(v) \/
             VoidCancelsReceipt(v) \/ VoidCancels(v)
      PROVE  UNCHANGED <<pay, entry, movement>>
  BY <1>14 DEF VoidLooks, VoidOpens, VoidCancelsReceipt, VoidCancels, kitchen, money
<1>15. ASSUME NEW u \in Undoers, NEW o \in Orders, UndoRequested(u, o)
      PROVE  UNCHANGED <<pay, entry, movement>>
  BY <1>15 DEF UndoRequested, kitchen, money
<1>16. ASSUME NEW u \in Undoers, NEW c \in Charges, ChargeVoidRequested(u, c)
      PROVE  UNCHANGED <<pay, entry, movement>>
  BY <1>16 DEF ChargeVoidRequested, kitchen, money
<1>17. ASSUME NEW u \in Undoers, UndoOpens(u)
      PROVE  UNCHANGED <<pay, entry, movement>>
  BY <1>17 DEF UndoOpens, kitchen, money
<1>18. ASSUME NEW g \in Guests, NEW o \in Orders, GuestAsks(g, o)
      PROVE  UNCHANGED <<pay, entry, movement>>
  BY <1>18 DEF GuestAsks, kitchen, money
<1>19. ASSUME NEW g \in Guests, RequestSent(g)
      PROVE  UNCHANGED <<pay, entry, movement>>
  BY <1>19 DEF RequestSent, kitchen, money
<1>20. ASSUME NEW i \in Issuers, NEW o \in Orders, ReceiptRequested(i, o)
      PROVE  UNCHANGED <<pay, entry, movement>>
  BY <1>20 DEF ReceiptRequested, kitchen, money
<1>21. ASSUME NEW i \in Issuers, ReceiptIssued(i)
      PROVE  UNCHANGED <<pay, entry, movement>>
  BY <1>21 DEF ReceiptIssued, kitchen, money
<1>22. ASSUME NEW f \in Refunders, NEW o \in Orders, NEW a \in 1 .. Total,
             RefundRequested(f, o, a)
      PROVE  UNCHANGED <<pay, entry, movement>>
  BY <1>22 DEF RefundRequested, kitchen, money
<1>23. ASSUME NEW h \in Handlers, HandlerDies(h)
      PROVE  UNCHANGED <<pay, entry, movement>>
  BY <1>23 DEF HandlerDies, kitchen, money
<1>24. ASSUME NEW o \in Orders, OrderStep(o) PROVE MoneyIsShown'
  BY <1>1, <1>24, <1>2, <1>3, <1>4, <1>9, <1>10, <1>11 DEF OrderStep
<1>25. ASSUME NEW v \in Voiders, VoidStep(v) PROVE MoneyIsShown'
  BY <1>1, <1>25, <1>5, <1>6, <1>13, <1>14 DEF VoidStep
<1>26. ASSUME NEW u \in Undoers, UndoStep(u) PROVE MoneyIsShown'
  BY <1>1, <1>26, <1>7, <1>15, <1>16, <1>17 DEF UndoStep
<1>27. ASSUME NEW k \in Clearers, NEW o \in Orders, ClearRequested(k, o)
      PROVE  UNCHANGED <<pay, entry, movement>>
  BY <1>27 DEF ClearRequested, kitchen, money
<1>28. ASSUME NEW k \in Clearers, ClearServes(k)
      PROVE  UNCHANGED <<pay, entry, movement>>
  BY <1>28 DEF ClearServes, kitchen, money
<1>29. ASSUME NEW k \in Clearers, ClearStep(k) PROVE MoneyIsShown'
  BY <1>1, <1>27, <1>28, <1>29, <1>14 DEF ClearStep
<1>. QED
  BY <1>1, <1>8, <1>12, <1>18, <1>19, <1>20, <1>21, <1>22, <1>23, <1>24, <1>25, <1>26, <1>29 DEF
      Next, vars, kitchen, money

\* What a clerk keeps of a charge stays true while it is taken off.
LEMMA UndosStep ==
    ASSUME IInv, OneAtATime, [Next]_vars
    PROVE  UndosSound'
<1>1. CASE UNCHANGED <<job, charge>>
  BY <1>1 DEF IInv, MoneyInv, UndosSound
<1>2. ASSUME NEW o \in Orders, NEW c \in Charges, ChargeToRoom(o, c)
      PROVE  UndosSound'
  BY <1>2, NamesAssumption DEF ChargeToRoom, IInv, OneAtATime, KitchenInv, TypeOK,
      JobsNamed, MoneyInv, Handlers, Charge, Job, Steps, UndosSound, BillAndOrderAgree,
      OnBill, kitchen, money, VoidSteps
<1>3. ASSUME NEW v \in Voiders, NEW o \in Orders, VoidRequested(v, o)
      PROVE  UndosSound'
  BY <1>3, NamesAssumption DEF VoidRequested, Does, Idle, IInv, OneAtATime, KitchenInv,
      TypeOK, JobsNamed, MoneyInv, Handlers, Charge, Job, Steps, UndosSound,
      BillAndOrderAgree, OnBill, kitchen, money, VoidSteps
<1>4. ASSUME NEW v \in Voiders, NEW o \in Orders, OrderVoidRequested(v, o)
      PROVE  UndosSound'
  <2>1. \A h \in Handlers \ {v} : job'[h] = job[h]
    BY <1>4 DEF OrderVoidRequested, Does, IInv, TypeOK, KitchenInv
  <2>2. \/ job'[v] = [Idle EXCEPT !.at = "cancelPaid", !.order = o]
        \/ job'[v] = [Idle EXCEPT !.at = "cancel", !.order = o]
        \/ /\ entry[o] # NoMovement
           /\ job'[v] = [Idle EXCEPT !.at = "look", !.order = o, !.entry = entry[o],
                                       !.cancels = TRUE]
    BY <1>4 DEF OrderVoidRequested, Does, IInv, TypeOK, KitchenInv, Handlers
  <2>3. /\ job'[v].order = o
        /\ \/ job'[v].at \in {"cancel", "cancelPaid"}
           \/ job'[v].at = "look" /\ job'[v].entry = entry[o] /\ entry[o] \in Movements
    BY <2>2 DEF Idle, IInv, TypeOK, KitchenInv
  <2>. QED
    BY <1>4, <2>1, <2>3 DEF OrderVoidRequested, IInv, MoneyInv, UndosSound, money
<1>5. ASSUME NEW v \in Voiders, VoidLooks(v)
      PROVE  UndosSound'
  BY <1>5, NamesAssumption DEF VoidLooks, Does, Idle, IInv, OneAtATime, KitchenInv, TypeOK,
      JobsNamed, MoneyInv, Handlers, Charge, Job, Steps, UndosSound, BillAndOrderAgree,
      OnBill, kitchen, money, VoidSteps
<1>6. ASSUME NEW v \in Voiders, VoidOpens(v)
      PROVE  UndosSound'
  BY <1>6, NamesAssumption DEF VoidOpens, Does, Idle, IInv, OneAtATime, KitchenInv, TypeOK,
      JobsNamed, MoneyInv, Handlers, Charge, Job, Steps, UndosSound, BillAndOrderAgree,
      OnBill, kitchen, money, VoidSteps
<1>7. ASSUME NEW v \in Voiders, VoidReverses(v)
      PROVE  UndosSound'
  BY <1>7, NamesAssumption DEF VoidReverses, Does, Idle, IInv, OneAtATime, KitchenInv,
      TypeOK, JobsNamed, MoneyInv, Handlers, Charge, Job, Steps, UndosSound,
      BillAndOrderAgree, OnBill, kitchen, money, VoidSteps
<1>8. ASSUME NEW v \in Voiders, VoidCancelsReceipt(v)
      PROVE  UndosSound'
  BY <1>8, NamesAssumption DEF VoidCancelsReceipt, Does, Idle, IInv, OneAtATime,
      KitchenInv, TypeOK, JobsNamed, MoneyInv, Handlers, Charge, Job, Steps, UndosSound,
      BillAndOrderAgree, OnBill, kitchen, money, VoidSteps
<1>9. ASSUME NEW v \in Voiders, VoidClears(v)
      PROVE  UndosSound'
  BY <1>9, NamesAssumption DEF VoidClears, Does, Idle, IInv, OneAtATime, KitchenInv,
      TypeOK, JobsNamed, MoneyInv, Handlers, Charge, Job, Steps, UndosSound,
      BillAndOrderAgree, OnBill, kitchen, money, VoidSteps
<1>10. ASSUME NEW v \in Voiders \union Clearers, VoidCancels(v)
      PROVE  UndosSound'
  BY <1>10, NamesAssumption DEF VoidCancels, Does, Idle, IInv, OneAtATime, KitchenInv,
      TypeOK, JobsNamed, MoneyInv, Handlers, Charge, Job, Steps, UndosSound,
      BillAndOrderAgree, OnBill, kitchen, money, VoidSteps
<1>11. ASSUME NEW u \in Undoers, NEW o \in Orders, UndoRequested(u, o)
      PROVE  UndosSound'
  BY <1>11, NamesAssumption DEF UndoRequested, Does, Idle, IInv, OneAtATime, KitchenInv,
      TypeOK, JobsNamed, MoneyInv, Handlers, Charge, Job, Steps, UndosSound,
      BillAndOrderAgree, OnBill, kitchen, money, VoidSteps
<1>12. ASSUME NEW u \in Undoers, NEW c \in Charges, ChargeVoidRequested(u, c)
      PROVE  UndosSound'
  BY <1>12, NamesAssumption DEF ChargeVoidRequested, Does, Idle, IInv, OneAtATime,
      KitchenInv, TypeOK, JobsNamed, MoneyInv, Handlers, Charge, Job, Steps, UndosSound,
      BillAndOrderAgree, OnBill, kitchen, money, VoidSteps
<1>13. ASSUME NEW u \in Undoers, UndoOpens(u)
      PROVE  UndosSound'
  BY <1>13, NamesAssumption DEF UndoOpens, Does, Idle, IInv, OneAtATime, KitchenInv,
      TypeOK, JobsNamed, MoneyInv, Handlers, Charge, Job, Steps, UndosSound,
      BillAndOrderAgree, OnBill, kitchen, money, VoidSteps
<1>14. ASSUME NEW u \in Undoers, UndoVoids(u)
      PROVE  UndosSound'
  BY <1>14, NamesAssumption DEF UndoVoids, Does, Idle, IInv, OneAtATime, KitchenInv,
      TypeOK, JobsNamed, MoneyInv, Handlers, Charge, Job, Steps, UndosSound,
      BillAndOrderAgree, OnBill, kitchen, money, VoidSteps
<1>15. ASSUME NEW g \in Guests, NEW o \in Orders, GuestAsks(g, o)
      PROVE  UndosSound'
  BY <1>15, NamesAssumption DEF GuestAsks, Does, Idle, IInv, OneAtATime, KitchenInv,
      TypeOK, JobsNamed, MoneyInv, Handlers, Charge, Job, Steps, UndosSound,
      BillAndOrderAgree, OnBill, kitchen, money, VoidSteps
<1>16. ASSUME NEW g \in Guests, RequestSent(g)
      PROVE  UndosSound'
  BY <1>16, NamesAssumption DEF RequestSent, Does, Idle, IInv, OneAtATime, KitchenInv,
      TypeOK, JobsNamed, MoneyInv, Handlers, Charge, Job, Steps, UndosSound,
      BillAndOrderAgree, OnBill, kitchen, money, VoidSteps
<1>17. ASSUME NEW i \in Issuers, NEW o \in Orders, ReceiptRequested(i, o)
      PROVE  UndosSound'
  BY <1>17, NamesAssumption DEF ReceiptRequested, Does, Idle, IInv, OneAtATime, KitchenInv,
      TypeOK, JobsNamed, MoneyInv, Handlers, Charge, Job, Steps, UndosSound,
      BillAndOrderAgree, OnBill, kitchen, money, VoidSteps
<1>18. ASSUME NEW i \in Issuers, ReceiptIssued(i)
      PROVE  UndosSound'
  BY <1>18, NamesAssumption DEF ReceiptIssued, Does, Idle, IInv, OneAtATime, KitchenInv,
      TypeOK, JobsNamed, MoneyInv, Handlers, Charge, Job, Steps, UndosSound,
      BillAndOrderAgree, OnBill, kitchen, money, VoidSteps
<1>19. ASSUME NEW f \in Refunders, NEW o \in Orders, NEW a \in 1 .. Total,
             RefundRequested(f, o, a)
      PROVE  UndosSound'
  BY <1>19, NamesAssumption DEF RefundRequested, Does, Idle, IInv, OneAtATime, KitchenInv,
      TypeOK, JobsNamed, MoneyInv, Handlers, Charge, Job, Steps, UndosSound,
      BillAndOrderAgree, OnBill, kitchen, money, VoidSteps
<1>20. ASSUME NEW f \in Refunders, RefundRecorded(f)
      PROVE  UndosSound'
  BY <1>20, NamesAssumption DEF RefundRecorded, Does, Idle, IInv, OneAtATime, KitchenInv,
      TypeOK, JobsNamed, MoneyInv, Handlers, Charge, Job, Steps, UndosSound,
      BillAndOrderAgree, OnBill, kitchen, money, VoidSteps
<1>21. ASSUME NEW h \in Handlers, HandlerDies(h)
      PROVE  UndosSound'
  BY <1>21, NamesAssumption DEF HandlerDies, Does, Idle, IInv, OneAtATime, KitchenInv,
      TypeOK, JobsNamed, MoneyInv, Handlers, Charge, Job, Steps, UndosSound,
      BillAndOrderAgree, OnBill, kitchen, money, VoidSteps
<1>22. ASSUME NEW o \in Orders, PlaceOrder(o) \/ AcceptOrder(o) \/ DeclineOrder(o) \/
             ServeOrder(o) \/ CancelOrder(o) \/ GuestCancels(o) \/ ExpireOrder(o)
      PROVE  UNCHANGED <<job, charge>>
  BY <1>22 DEF PlaceOrder, AcceptOrder, DeclineOrder, ServeOrder, CancelOrder,
      GuestCancels, ExpireOrder, kitchen, money
<1>23. ASSUME NEW o \in Orders, NEW approve \in BOOLEAN, RequestAnswered(o, approve)
      PROVE  UNCHANGED <<job, charge>>
  BY <1>23 DEF RequestAnswered, kitchen, money
<1>24. ASSUME NEW o \in Orders, NEW mine \in SUBSET Stations, NEW to \in {"preparing",
             "ready"}, StationWorks(o, mine, to)
      PROVE  UNCHANGED <<job, charge>>
  BY <1>24 DEF StationWorks, kitchen, money
<1>25. ASSUME NEW o \in Orders, NEW m \in Movements, PayOrder(o, m)
      PROVE  UNCHANGED <<job, charge>>
  BY <1>25 DEF PayOrder, kitchen, money
<1>26. ASSUME NEW o \in Orders, NEW m \in Movements \union {NoMovement}, OnlinePaid(o, m)
      PROVE  UNCHANGED <<job, charge>>
  BY <1>26 DEF OnlinePaid, kitchen, money
<1>27. ASSUME BillSettled
      PROVE  UNCHANGED <<job, charge>>
  BY <1>27 DEF BillSettled, kitchen, money
<1>28. ASSUME NEW o \in Orders, OrderStep(o) PROVE UndosSound'
  BY <1>1, <1>28, <1>2, <1>22, <1>23, <1>24, <1>25, <1>26 DEF OrderStep
<1>29. ASSUME NEW v \in Voiders, VoidStep(v) PROVE UndosSound'
  BY <1>1, <1>29, <1>3, <1>4, <1>5, <1>6, <1>7, <1>8, <1>9, <1>10 DEF VoidStep
<1>30. ASSUME NEW u \in Undoers, UndoStep(u) PROVE UndosSound'
  BY <1>1, <1>30, <1>11, <1>12, <1>13, <1>14 DEF UndoStep
<1>31. ASSUME NEW k \in Clearers, NEW o \in Orders, ClearRequested(k, o)
      PROVE  UndosSound'
  BY <1>31 DEF ClearRequested, Does, Idle, IInv, KitchenInv, TypeOK, MoneyInv, UndosSound, money,
      Handlers
<1>32. ASSUME NEW k \in Clearers, ClearServes(k)
      PROVE  UndosSound'
  BY <1>32 DEF ClearServes, Does, Idle, IInv, KitchenInv, TypeOK, MoneyInv, UndosSound, money,
      Handlers
<1>33. ASSUME NEW k \in Clearers, ClearStep(k) PROVE UndosSound'
  BY <1>1, <1>31, <1>32, <1>33, <1>10 DEF ClearStep
<1>. QED
  BY <1>1, <1>15, <1>16, <1>17, <1>18, <1>19, <1>20, <1>21, <1>27, <1>28, <1>29, <1>30, <1>33 DEF
      Next, vars, kitchen, money

\* The room bill and the order stay in agreement.
LEMMA BillStep ==
    ASSUME IInv, OneAtATime, [Next]_vars
    PROVE  BillAndOrderAgree'
<1>1. CASE UNCHANGED <<pay, line, charge>>
  BY <1>1 DEF IInv, MoneyInv, BillAndOrderAgree, OnBill
<1>2. ASSUME NEW o \in Orders, NEW m \in Movements, PayOrder(o, m)
      PROVE  BillAndOrderAgree'
  BY <1>2, NamesAssumption DEF PayOrder, IInv, OneAtATime, KitchenInv, TypeOK, JobsNamed,
      MoneyInv, PaymentStatus, Charge, NotYetPaid, EntriesSound, VoidsSound, UndosSound,
      BillAndOrderAgree, OnBill, kitchen, money, VoidSteps
<1>3. ASSUME NEW o \in Orders, NEW m \in Movements \union {NoMovement}, OnlinePaid(o, m)
      PROVE  BillAndOrderAgree'
  <2>1. pay[o] = "unpaid" /\ o \in checkout /\ online[o] = 0
    <3>1. o \in checkout /\ online[o] < Checkouts
      BY <1>3 DEF OnlinePaid
    <3>2. online[o] \in Nat /\ Checkouts \in Nat /\ Checkouts <= 1
      BY NamesAssumption DEF OneAtATime, IInv, KitchenInv, TypeOK
    <3>3. online[o] = 0
      BY <3>1, <3>2
    <3>. QED
      BY <3>1, <3>3 DEF IInv, MoneyInv, NotYetPaid
  <2>2. pay' = [pay EXCEPT ![o] = "paid"] /\ entry' = [entry EXCEPT ![o] = m]
    BY <1>3, <2>1 DEF OnlinePaid
  <2>. QED
    BY <1>3, <2>1, <2>2 DEF OnlinePaid, IInv, KitchenInv, TypeOK, MoneyInv,
        BillAndOrderAgree, OnBill
<1>4. ASSUME NEW o \in Orders, NEW c \in Charges, ChargeToRoom(o, c)
      PROVE  BillAndOrderAgree'
  BY <1>4, NamesAssumption DEF ChargeToRoom, IInv, OneAtATime, KitchenInv, TypeOK,
      JobsNamed, MoneyInv, PaymentStatus, Charge, NotYetPaid, EntriesSound, VoidsSound,
      UndosSound, BillAndOrderAgree, OnBill, kitchen, money, VoidSteps
<1>5. ASSUME NEW v \in Voiders, VoidClears(v)
      PROVE  BillAndOrderAgree'
  <2>1. job[v].order \in Orders /\ pay[job[v].order] \in {"paid", "refunded"}
    BY <1>5, NamesAssumption DEF VoidClears, IInv, KitchenInv, TypeOK, JobsNamed, MoneyInv,
        VoidsSound, EntriesSound, Handlers, VoidSteps
  <2>2. charge' = charge /\ line' = line /\ pay' = [pay EXCEPT ![job[v].order] = "unpaid"]
    BY <1>5 DEF VoidClears
  <2>. QED
    BY <2>1, <2>2 DEF IInv, KitchenInv, TypeOK, MoneyInv, BillAndOrderAgree, OnBill
<1>6. ASSUME NEW u \in Undoers, UndoVoids(u)
      PROVE  BillAndOrderAgree'
  <2> DEFINE o == job[u].order  c == job[u].line
  <2>1. o \in Orders /\ c \in Charges /\ OnBill(c, o)
    BY <1>6 DEF UndoVoids, IInv, KitchenInv, TypeOK, JobsNamed, MoneyInv, UndosSound,
        Handlers, OnBill
  <2>2. pay[o] = "room_charged" /\ line[o] = c
    BY <2>1 DEF IInv, MoneyInv, BillAndOrderAgree
  <2>3. pay'[o] = "unpaid" /\ \A p \in Orders \ {o} : pay'[p] = pay[p] /\ line'[p] = line[p]
    BY <1>6, <2>1, <2>2 DEF UndoVoids, IInv, KitchenInv, TypeOK
  <2>4. charge'[c].voided /\ \A d \in Charges \ {c} : charge'[d] = charge[d]
    BY <1>6, <2>1 DEF UndoVoids, IInv, KitchenInv, TypeOK, Charge
  <2>5. \A d \in Charges, p \in Orders : (OnBill(d, p))' <=> d # c /\ OnBill(d, p)
    BY <1>6, <2>1, <2>4 DEF UndoVoids, OnBill, IInv, KitchenInv, TypeOK, Charge
  <2>. HIDE DEF o, c
  <2>. QED
    BY <2>1, <2>2, <2>3, <2>4, <2>5 DEF IInv, KitchenInv, TypeOK, MoneyInv,
        BillAndOrderAgree, OnBill
<1>7. ASSUME NEW f \in Refunders, RefundRecorded(f)
      PROVE  BillAndOrderAgree'
  BY <1>7, NamesAssumption DEF RefundRecorded, IInv, OneAtATime, KitchenInv, TypeOK,
      JobsNamed, MoneyInv, PaymentStatus, Charge, NotYetPaid, EntriesSound, VoidsSound,
      UndosSound, BillAndOrderAgree, OnBill, kitchen, money, VoidSteps
<1>8. ASSUME NEW o \in Orders, PlaceOrder(o) \/ AcceptOrder(o) \/ DeclineOrder(o) \/
             ServeOrder(o) \/ CancelOrder(o) \/ GuestCancels(o) \/ ExpireOrder(o)
      PROVE  UNCHANGED <<pay, line, charge>>
  BY <1>8 DEF PlaceOrder, AcceptOrder, DeclineOrder, ServeOrder, CancelOrder, GuestCancels,
      ExpireOrder, kitchen, money
<1>9. ASSUME NEW o \in Orders, NEW approve \in BOOLEAN, RequestAnswered(o, approve)
      PROVE  UNCHANGED <<pay, line, charge>>
  BY <1>9 DEF RequestAnswered, kitchen, money
<1>10. ASSUME NEW o \in Orders, NEW mine \in SUBSET Stations, NEW to \in {"preparing",
             "ready"}, StationWorks(o, mine, to)
      PROVE  UNCHANGED <<pay, line, charge>>
  BY <1>10 DEF StationWorks, kitchen, money
<1>11. ASSUME BillSettled
      PROVE  UNCHANGED <<pay, line, charge>>
  BY <1>11 DEF BillSettled, kitchen, money
<1>12. ASSUME NEW v \in Voiders, NEW o \in Orders, VoidRequested(v, o) \/
             OrderVoidRequested(v, o)
      PROVE  UNCHANGED <<pay, line, charge>>
  BY <1>12 DEF VoidRequested, OrderVoidRequested, kitchen, money
<1>13. ASSUME NEW v \in Voiders \union Clearers, VoidLooks(v) \/ VoidOpens(v) \/
             VoidReverses(v) \/ VoidCancelsReceipt(v) \/ VoidCancels(v)
      PROVE  UNCHANGED <<pay, line, charge>>
  BY <1>13 DEF VoidLooks, VoidOpens, VoidReverses, VoidCancelsReceipt, VoidCancels,
      kitchen, money
<1>14. ASSUME NEW u \in Undoers, NEW o \in Orders, UndoRequested(u, o)
      PROVE  UNCHANGED <<pay, line, charge>>
  BY <1>14 DEF UndoRequested, kitchen, money
<1>15. ASSUME NEW u \in Undoers, NEW c \in Charges, ChargeVoidRequested(u, c)
      PROVE  UNCHANGED <<pay, line, charge>>
  BY <1>15 DEF ChargeVoidRequested, kitchen, money
<1>16. ASSUME NEW u \in Undoers, UndoOpens(u)
      PROVE  UNCHANGED <<pay, line, charge>>
  BY <1>16 DEF UndoOpens, kitchen, money
<1>17. ASSUME NEW g \in Guests, NEW o \in Orders, GuestAsks(g, o)
      PROVE  UNCHANGED <<pay, line, charge>>
  BY <1>17 DEF GuestAsks, kitchen, money
<1>18. ASSUME NEW g \in Guests, RequestSent(g)
      PROVE  UNCHANGED <<pay, line, charge>>
  BY <1>18 DEF RequestSent, kitchen, money
<1>19. ASSUME NEW i \in Issuers, NEW o \in Orders, ReceiptRequested(i, o)
      PROVE  UNCHANGED <<pay, line, charge>>
  BY <1>19 DEF ReceiptRequested, kitchen, money
<1>20. ASSUME NEW i \in Issuers, ReceiptIssued(i)
      PROVE  UNCHANGED <<pay, line, charge>>
  BY <1>20 DEF ReceiptIssued, kitchen, money
<1>21. ASSUME NEW f \in Refunders, NEW o \in Orders, NEW a \in 1 .. Total,
             RefundRequested(f, o, a)
      PROVE  UNCHANGED <<pay, line, charge>>
  BY <1>21 DEF RefundRequested, kitchen, money
<1>22. ASSUME NEW h \in Handlers, HandlerDies(h)
      PROVE  UNCHANGED <<pay, line, charge>>
  BY <1>22 DEF HandlerDies, kitchen, money
<1>23. ASSUME NEW o \in Orders, OrderStep(o) PROVE BillAndOrderAgree'
  BY <1>1, <1>23, <1>2, <1>3, <1>4, <1>8, <1>9, <1>10 DEF OrderStep
<1>24. ASSUME NEW v \in Voiders, VoidStep(v) PROVE BillAndOrderAgree'
  BY <1>1, <1>24, <1>5, <1>12, <1>13 DEF VoidStep
<1>25. ASSUME NEW u \in Undoers, UndoStep(u) PROVE BillAndOrderAgree'
  BY <1>1, <1>25, <1>6, <1>14, <1>15, <1>16 DEF UndoStep
<1>26. ASSUME NEW k \in Clearers, NEW o \in Orders, ClearRequested(k, o)
      PROVE  UNCHANGED <<pay, line, charge>>
  BY <1>26 DEF ClearRequested, kitchen, money
<1>27. ASSUME NEW k \in Clearers, ClearServes(k)
      PROVE  UNCHANGED <<pay, line, charge>>
  BY <1>27 DEF ClearServes, kitchen, money
<1>28. ASSUME NEW k \in Clearers, ClearStep(k) PROVE BillAndOrderAgree'
  BY <1>1, <1>26, <1>27, <1>28, <1>13 DEF ClearStep
<1>. QED
  BY <1>1, <1>7, <1>11, <1>17, <1>18, <1>19, <1>20, <1>21, <1>22, <1>23, <1>24, <1>25, <1>28 DEF
      Next, vars, kitchen, money

----------------------------------------------------------------------------
\* The kitchen's invariant, for any number of handlers of each kind.
THEOREM KitchenInvariance == Spec => []KitchenInv
<1>1. Init => KitchenInv
  BY NamesAssumption DEF Init, KitchenInv, TypeOK, JobsNamed, VoidSteps, NotBegun, ReadyIsCooked,
     Status, PaymentStatus, Methods, DishStages, Movement, Charge, Job, Steps, Idle, Handlers
<1>2. KitchenInv /\ [Next]_vars => KitchenInv'
  BY TypeStep, NamedStep, CookedStep DEF KitchenInv
<1>. QED
  BY <1>1, <1>2, PTL DEF Spec

\* Every reachable state is well typed.
THEOREM TypeCorrect == Spec => []TypeOK
<1>1. KitchenInv => TypeOK
  BY DEF KitchenInv
<1>. QED
  BY <1>1, KitchenInvariance, PTL

\* ReadyIsCooked: no interleaving of stations, cashiers, guests and managers calls an order ready
\* that a station has not finished, or new that a station has begun, or serves it unfinished other
\* than by clearing its table, with the audit entry that says so.
THEOREM CookedBeforeReady == Spec => []ReadyIsCooked
<1>1. KitchenInv => ReadyIsCooked
  BY DEF KitchenInv
<1>. QED
  BY <1>1, KitchenInvariance, PTL

\* The money's invariant, while corrections are made one at a time.
THEOREM MoneyInvariance == ASSUME OneAtATime PROVE Spec => []IInv
<1>1. Init => IInv
  <2>1. SUFFICES ASSUME Init PROVE IInv
    OBVIOUS
  <2>2. KitchenInv
    BY <2>1, NamesAssumption DEF Init, KitchenInv, TypeOK, JobsNamed, VoidSteps, NotBegun,
       ReadyIsCooked, Status, PaymentStatus, Methods, DishStages, Movement, Charge, Job, Steps,
       Idle, Handlers
  <2>3. NotYetPaid /\ ClearsSound /\ EntriesSound /\ VoidsSound
    BY <2>1, NamesAssumption DEF Init, NotYetPaid, ClearsSound, EntriesSound, VoidsSound, VoidSteps, Idle, Free
  <2>4. MoneyIsShown /\ UndosSound /\ BillAndOrderAgree
    BY <2>1, NamesAssumption DEF Init, MoneyIsShown, UndosSound, BillAndOrderAgree, Live, OnBill,
       Idle
  <2>. QED
    BY <2>2, <2>3, <2>4 DEF IInv, MoneyInv
<1>2. IInv /\ [Next]_vars => IInv'
  <2>1. SUFFICES ASSUME IInv, [Next]_vars PROVE IInv'
    OBVIOUS
  <2>2. KitchenInv'
    BY <2>1, TypeStep, NamedStep, CookedStep DEF IInv, KitchenInv
  <2>3. MoneyInv'
    BY <2>1, OneAtATime, NotYetPaidStep, ClearsStep, EntriesStep, VoidsStep, ShownStep,
       UndosStep, BillStep DEF MoneyInv
  <2>. QED
    BY <2>2, <2>3 DEF IInv
<1>. QED
  BY <1>1, <1>2, PTL DEF Spec

\* MoneyIsShown: with one manager voiding at a time, whatever stops half-way and is repeated, the
\* ledger holds no money of an order that the order does not show, and reverses none twice.
THEOREM MoneyKeepsItsOrder == ASSUME OneAtATime PROVE Spec => []MoneyIsShown
<1>1. IInv => MoneyIsShown
  BY DEF IInv, MoneyInv
<1>. QED
  BY <1>1, MoneyInvariance, PTL

\* BillAndOrderAgree: with one clerk correcting bills at a time, an order is on a room bill exactly
\* when the bill has its charge.
THEOREM BillsAgree == ASSUME OneAtATime PROVE Spec => []BillAndOrderAgree
<1>1. IInv => BillAndOrderAgree
  BY DEF IInv, MoneyInv
<1>. QED
  BY <1>1, MoneyInvariance, PTL
=============================================================================
