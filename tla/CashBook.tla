------------------------------ MODULE CashBook ------------------------------
(***************************************************************************)
(* The hotel's cash (finance/cash.ts, shifts.ts, dayclose.ts, readings.ts): *)
(* movements in and out of its accounts with their journal entries, the    *)
(* cashier's shift on the drawer, the close of a business day and the       *)
(* Z-readings that run up the grand total.                                  *)
(*                                                                         *)
(* Every handler reads without locks what it decides by and writes in one  *)
(* transaction later: two steps, with its findings in between in its job.  *)
(***************************************************************************)
EXTENDS Integers, Sequences, FiniteSets, FiniteSetsExt, SequencesExt

CONSTANTS
    Tellers,                \* requests that move money and run shifts, at once
    Voiders,                \* requests that void movements
    DeskVoiders,            \* requests that void payments at the front desk
    Closers,                \* requests that close days and make Z-readings, and the nightly job
    Shifts, NoShift,        \* rows that cashier_shifts may get
    Drawer, Bank,           \* cash_accounts
    LastDay,                \* the business dates are 1 .. LastDay
    Amounts,                \* what is moved, counted or set as a float
    RequireShift,           \* settings.requireOpenShiftForCashPayment
    MaxMoves, MaxZs         \* bounds: rows of cash_movements and z_readings

Accounts == {Drawer, Bank}
Handlers == Tellers \union Voiders \union DeskVoiders \union Closers
Days == 1 .. LastDay

ASSUME CashAssumption ==
    /\ Drawer # Bank
    /\ NoShift \notin Shifts
    /\ LastDay \in Nat \ {0}
    /\ Amounts \subseteq Nat \ {0}
    /\ RequireShift \in BOOLEAN
    /\ MaxMoves \in Nat /\ MaxZs \in Nat

VARIABLES
    today,      \* businessDateFor
    moves,      \* cash_movements
    balance,    \* cash_accounts.current_balance_centavos
    ledger,     \* the sum of each account's journal lines
    shift,      \* cashier_shifts
    closed,     \* day_closes: "never", "closed" or "reopened"
    zs,         \* z_readings, as inserted
    job

book == <<moves, balance, ledger>>
vars == <<today, book, shift, closed, zs, job>>

Reasons == {"sale", "transfer", "event", "float", "count", "recovery"}
Move == [day : Days, account : Accounts, delta : Int, why : Reasons,
         rung : Shifts \union {NoShift},      \* shift_id
         source : Shifts \union {NoShift},    \* source_id, when it is a shift
         voided : BOOLEAN]

ShiftRow == [status : {"none", "open", "closed"}, day : Days, float : Nat,
             expected : Int, variance : Int,
             back : {"none", "owed", "collected", "written_off"}, amount : Nat]

Reading == [counter : Nat, day : Days, net : Int, prev : Int, new : Int]

Job == [at : {"idle", "move", "void", "desk_void", "float", "close", "collect", "day", "z", "number"},
        legs : Seq(Move),                     \* the movements about to be inserted
        row : Nat,                            \* the movement about to be voided
        shift : Shifts \union {NoShift}, expected : Int, variance : Int,
        day : Days, ever : BOOLEAN,
        counter : Nat, prev : Int, net : Int]

Idle == [at |-> "idle", legs |-> <<>>, row |-> 0, shift |-> NoShift, expected |-> 0,
         variance |-> 0, day |-> 1, ever |-> FALSE, counter |-> 0, prev |-> 0, net |-> 0]

NoShiftYet == [status |-> "none", day |-> 1, float |-> 0, expected |-> 0, variance |-> 0,
               back |-> "none", amount |-> 0]

Init ==
    /\ today = 1
    /\ moves = <<>>
    /\ balance = [a \in Accounts |-> 0]
    /\ ledger = [a \in Accounts |-> 0]
    /\ shift = [s \in Shifts |-> NoShiftYet]
    /\ closed = [d \in Days |-> "never"]
    /\ zs = <<>>
    /\ job = [h \in Handlers |-> Idle]

----------------------------------------------------------------------------
\* assertBusinessDateOpen, with lockOnDayClose on.
DayOpen(d) == closed[d] # "closed"

OpenShifts == {s \in Shifts : shift[s].status = "open"}

Leg(day, account, delta, why, rung, source) ==
    [day |-> day, account |-> account, delta |-> delta, why |-> why, rung |-> rung,
     source |-> source, voided |-> FALSE]

Does(h, j) == job' = [job EXCEPT ![h] = j]

Total(rows, counted) == MapThenSumSet(LAMBDA i : rows[i].delta, counted)

\* recordCashMovement inserts the row, moves the balance and posts a balanced journal entry.
Posted(legs) ==
    LET Effect(a) == Total(legs, {i \in DOMAIN legs : legs[i].account = a})
    IN /\ Len(moves) + Len(legs) <= MaxMoves
       /\ moves' = moves \o legs
       /\ balance' = [a \in Accounts |-> balance[a] + Effect(a)]
       /\ ledger' = [a \in Accounts |-> ledger[a] + Effect(a)]

Requested(h, legs) ==
    /\ job[h] = Idle
    /\ \A i \in DOMAIN legs : DayOpen(legs[i].day)
    /\ Does(h, [Idle EXCEPT !.at = "move", !.legs = legs])
    /\ UNCHANGED <<today, book, shift, closed, zs>>

\* recordPayment and the other sales: cash goes to the open shift of the drawer
\* (resolvePaymentAccount), anything else to the bank.
SaleRequested(h, amount) ==
    \/ \E s \in OpenShifts :
           Requested(h, <<Leg(today, Drawer, amount, "sale", s, NoShift)>>)
    \/ /\ OpenShifts = {} /\ ~RequireShift
       /\ Requested(h, <<Leg(today, Drawer, amount, "sale", NoShift, NoShift)>>)
    \/ Requested(h, <<Leg(today, Bank, amount, "sale", NoShift, NoShift)>>)

\* transferBetweenAccounts
TransferRequested(h, from, to, amount) ==
    /\ from # to
    /\ balance[from] >= amount
    /\ Requested(h, <<Leg(today, from, -amount, "transfer", NoShift, NoShift),
                      Leg(today, to, amount, "transfer", NoShift, NoShift)>>)

\* addShiftEvent: a payout or adjustment moves the drawer, a drop or pickup the bank as well.
EventRequested(h, s, delta, paired) ==
    /\ s \in OpenShifts
    /\ Requested(h,
           <<Leg(shift[s].day, Drawer, delta, "event", s, s)>>
               \o (IF paired THEN <<Leg(shift[s].day, Bank, -delta, "event", NoShift, s)>>
                   ELSE <<>>))

\* The transaction of a sale, transfer, event or float.
MovesPosted(h) ==
    /\ job[h].at = "move"
    /\ Posted(job[h].legs)
    /\ Does(h, Idle)
    /\ UNCHANGED <<today, shift, closed, zs>>

\* voidCashMovement, which the pages offer for sales and for entries made by hand.
VoidRequested(v, i) ==
    /\ job[v] = Idle
    /\ moves[i].why = "sale" /\ ~moves[i].voided
    /\ DayOpen(moves[i].day)
    /\ Does(v, [Idle EXCEPT !.at = "void", !.row = i])
    /\ UNCHANGED <<today, book, shift, closed, zs>>

\* Mutant: the reversing entry is posted, the balance forgotten.
MoveVoidedInLedger(v) ==
    /\ job[v].at = "void"
    /\ LET m == moves[job[v].row]
       IN /\ moves' = [moves EXCEPT ![job[v].row].voided = TRUE]
          /\ ledger' = [ledger EXCEPT ![m.account] = @ - m.delta]
    /\ Does(v, Idle)
    /\ UNCHANGED <<today, balance, shift, closed, zs>>

MoveVoided(v) ==
    /\ job[v].at = "void"
    /\ LET m == moves[job[v].row]
       IN /\ moves' = [moves EXCEPT ![job[v].row].voided = TRUE]
          /\ balance' = [balance EXCEPT ![m.account] = @ - m.delta]
          /\ ledger' = [ledger EXCEPT ![m.account] = @ - m.delta]
    /\ Does(v, Idle)
    /\ UNCHANGED <<today, shift, closed, zs>>

\* voidPayment: the desk voids a sale with its movements ...
PaymentVoidRequested(v, i) ==
    /\ job[v] = Idle
    /\ moves[i].why = "sale" /\ ~moves[i].voided
    /\ Does(v, [Idle EXCEPT !.at = "desk_void", !.row = i])
    /\ UNCHANGED <<today, book, shift, closed, zs>>

\* ... and takes the money off the account; nothing is posted, no day looked at.
PaymentVoided(v) ==
    /\ job[v].at = "desk_void"
    /\ LET m == moves[job[v].row]
       IN /\ moves' = [moves EXCEPT ![job[v].row].voided = TRUE]
          /\ balance' = [balance EXCEPT ![m.account] = @ - m.delta]
    /\ Does(v, Idle)
    /\ UNCHANGED <<today, ledger, shift, closed, zs>>

----------------------------------------------------------------------------
\* openShift; the partial unique index allows one open shift on the drawer.
OpenShift(h, s, float) ==
    /\ job[h] = Idle
    /\ shift[s].status = "none"
    /\ OpenShifts = {}
    /\ shift' = [shift EXCEPT ![s] = [NoShiftYet EXCEPT !.status = "open", !.day = today,
                                                        !.float = float]]
    /\ Does(h, IF float = 0 THEN Idle ELSE [Idle EXCEPT !.at = "float", !.shift = s])
    /\ UNCHANGED <<today, book, closed, zs>>

\* postOpeningFloat tops the drawer up from the bank, or leaves a note when it cannot.
FloatRequested(h) ==
    /\ job[h].at = "float"
    /\ LET s == job[h].shift
           held == IF balance[Drawer] > 0 THEN balance[Drawer] ELSE 0
           shortfall == shift[s].float - held
       IN Does(h, IF shortfall <= 0 \/ ~DayOpen(shift[s].day) THEN Idle
                  ELSE [Idle EXCEPT !.at = "move", !.legs =
                           <<Leg(shift[s].day, Bank, -shortfall, "float", NoShift, s),
                             Leg(shift[s].day, Drawer, shortfall, "float", NoShift, s)>>])
    /\ UNCHANGED <<today, book, shift, closed, zs>>

\* getShiftReconciliation
Rung(s) ==
    Total(moves, {i \in DOMAIN moves : /\ moves[i].rung = s /\ moves[i].account = Drawer
                                       /\ ~moves[i].voided})
Expected(s) == shift[s].float + Rung(s)

\* closeShift works out the variance from what it reads ...
CloseRequested(h, s, counted) ==
    /\ job[h] = Idle
    /\ s \in OpenShifts
    /\ counted # Expected(s) => DayOpen(shift[s].day)
    /\ Does(h, [Idle EXCEPT !.at = "close", !.shift = s, !.expected = Expected(s),
                            !.variance = counted - Expected(s)])
    /\ UNCHANGED <<today, book, shift, closed, zs>>

\* ... posts it and closes the shift by id.
ShiftClosed(h) ==
    /\ job[h].at = "close"
    /\ LET s == job[h].shift
           v == job[h].variance
       IN /\ IF v = 0 THEN UNCHANGED book
             ELSE Posted(<<Leg(shift[s].day, Drawer, v, "count", s, s)>>)
          /\ shift' = [shift EXCEPT ![s].status = "closed", ![s].variance = v,
                                    ![s].expected = job[h].expected]
    /\ Does(h, Idle)
    /\ UNCHANGED <<today, closed, zs>>

\* Mutant: the claim is stored with the sign of the variance.
ChargedBackSigned(s, amount) ==
    /\ shift[s].status = "closed" /\ shift[s].variance < 0
    /\ shift[s].back = "none"
    /\ amount <= -shift[s].variance
    /\ shift' = [shift EXCEPT ![s].back = "owed", ![s].amount = -amount]
    /\ UNCHANGED <<today, book, closed, zs, job>>

\* chargeBackShiftVariance reads the shift unlocked and marks it only if it is still unclaimed:
\* one step, but for a second closing in between (CountTwice.cfg), which would change the shortage
\* that caps the claim.
ChargedBack(s, amount) ==
    /\ shift[s].status = "closed" /\ shift[s].variance < 0
    /\ shift[s].back = "none"
    /\ amount <= -shift[s].variance
    /\ shift' = [shift EXCEPT ![s].back = "owed", ![s].amount = amount]
    /\ UNCHANGED <<today, book, closed, zs, job>>

\* writeOffShiftChargeback
WrittenOff(s) ==
    /\ shift[s].back = "owed"
    /\ shift' = [shift EXCEPT ![s].back = "written_off"]
    /\ UNCHANGED <<today, book, closed, zs, job>>

\* collectShiftChargeback reads the claim ...
CollectRequested(h, s) ==
    /\ job[h] = Idle
    /\ shift[s].back = "owed"
    /\ DayOpen(today)
    /\ Does(h, [Idle EXCEPT !.at = "collect", !.shift = s, !.day = today])
    /\ UNCHANGED <<today, book, shift, closed, zs>>

\* Mutant: the claim is not looked at again.
EverOwed(s) == shift[s].back # "none"

StillOwed(s) == shift[s].back = "owed"

\* ... and takes the money only if the claim, looked at again, is still owed.
Collected(h) ==
    /\ job[h].at = "collect"
    /\ LET s == job[h].shift
       IN IF StillOwed(s)
          THEN /\ Posted(<<Leg(job[h].day, Drawer, shift[s].amount, "recovery", NoShift, s)>>)
               /\ shift' = [shift EXCEPT ![s].back = "collected"]
          ELSE UNCHANGED <<book, shift>>
    /\ Does(h, Idle)
    /\ UNCHANGED <<today, closed, zs>>

----------------------------------------------------------------------------
\* runDayClose: by hand for any date up to today, or by the nightly job ...
DayCloseRequested(h, d) ==
    /\ job[h] = Idle
    /\ d <= today
    /\ DayOpen(d)
    /\ \A s \in OpenShifts : shift[s].day # d
    /\ Does(h, [Idle EXCEPT !.at = "day", !.day = d, !.ever = (closed[d] # "never")])
    /\ UNCHANGED <<today, book, shift, closed, zs>>

\* ... inserts the close, or updates it if the day was closed before; the unique index
\* stops a second insert.
DayClosed(h) ==
    /\ job[h].at = "day"
    /\ LET d == job[h].day
       IN IF job[h].ever \/ closed[d] = "never"
          THEN /\ closed' = [closed EXCEPT ![d] = "closed"]
               /\ Does(h, [Idle EXCEPT !.at = "z", !.day = d])
          ELSE /\ Does(h, Idle)
               /\ UNCHANGED closed
    /\ UNCHANGED <<today, book, shift, zs>>

\* reopenDayClose
DayReopened(d) ==
    /\ closed[d] = "closed"
    /\ closed' = [closed EXCEPT ![d] = "reopened"]
    /\ UNCHANGED <<today, book, shift, zs, job>>

\* The readings page makes a reading of a closed day.
ZRequested(h, d) ==
    /\ job[h] = Idle
    /\ closed[d] = "closed"
    /\ Does(h, [Idle EXCEPT !.at = "z", !.day = d])
    /\ UNCHANGED <<today, book, shift, closed, zs>>

NetSales(d) ==
    Total(moves, {i \in DOMAIN moves : moves[i].day = d /\ moves[i].why = "sale" /\ ~moves[i].voided})

\* latestZ: the reading with the highest counter.
Latest == CHOOSE z \in ToSet(zs) : \A y \in ToSet(zs) : y.counter <= z.counter
LastCounter == IF zs = <<>> THEN 0 ELSE Latest.counter
GrandTotal == IF zs = <<>> THEN 0 ELSE Latest.new

\* issueZReading reads the day's sales and the latest reading ...
ZComputed(h) ==
    /\ job[h].at = "z"
    /\ Does(h, [Idle EXCEPT !.at = "number", !.day = job[h].day, !.counter = LastCounter + 1,
                            !.prev = GrandTotal, !.net = NetSales(job[h].day)])
    /\ UNCHANGED <<today, book, shift, closed, zs>>

\* Mutant: no unique index on the counter.
CounterNeverTaken(n) == FALSE

CounterTaken(n) == \E z \in ToSet(zs) : z.counter = n

\* ... and inserts the next one, unless its counter is taken by then.
ZIssued(h) ==
    /\ job[h].at = "number"
    /\ LET j == job[h]
       IN zs' = IF CounterTaken(j.counter) THEN zs
                ELSE Append(zs, [counter |-> j.counter, day |-> j.day, net |-> j.net,
                                 prev |-> j.prev, new |-> j.prev + j.net])
    /\ Len(zs) < MaxZs
    /\ Does(h, Idle)
    /\ UNCHANGED <<today, book, shift, closed>>

----------------------------------------------------------------------------
\* The calendar.
NightPasses ==
    /\ today + 1 \in Days
    /\ today' = today + 1
    /\ UNCHANGED <<book, shift, closed, zs, job>>

\* An exception or a restart: the request and its open transaction are dropped.
HandlerDies(h) ==
    /\ job[h] # Idle
    /\ Does(h, Idle)
    /\ UNCHANGED <<today, book, shift, closed, zs>>

MoneyStep(h) ==
    \/ \E n \in Amounts :
           \/ SaleRequested(h, n)
           \/ \E from, to \in Accounts : TransferRequested(h, from, to, n)
           \/ \E s \in Shifts, delta \in {n, -n}, paired \in BOOLEAN :
                  EventRequested(h, s, delta, paired)
    \/ MovesPosted(h)

ShiftStep(h) ==
    \/ \E s \in Shifts, n \in Amounts \union {0} : OpenShift(h, s, n) \/ CloseRequested(h, s, n)
    \/ FloatRequested(h) \/ ShiftClosed(h)
    \/ \E s \in Shifts : CollectRequested(h, s)
    \/ Collected(h)

DayStep(h) ==
    \/ \E d \in Days : DayCloseRequested(h, d) \/ ZRequested(h, d)
    \/ DayClosed(h) \/ ZComputed(h) \/ ZIssued(h)

Next ==
    \/ \E h \in Tellers : MoneyStep(h) \/ ShiftStep(h)
    \/ \E h \in Closers : DayStep(h)
    \/ \E v \in Voiders : MoveVoided(v) \/ \E i \in DOMAIN moves : VoidRequested(v, i)
    \/ \E v \in DeskVoiders :
           PaymentVoided(v) \/ \E i \in DOMAIN moves : PaymentVoidRequested(v, i)
    \/ \E s \in Shifts : WrittenOff(s) \/ \E n \in Amounts : ChargedBack(s, n)
    \/ \E d \in Days : DayReopened(d)
    \/ NightPasses
    \/ \E h \in Handlers : HandlerDies(h)

Spec == Init /\ [][Next]_vars

----------------------------------------------------------------------------
TypeOK ==
    /\ today \in Days
    /\ moves \in Seq(Move)
    /\ balance \in [Accounts -> Int]
    /\ ledger \in [Accounts -> Int]
    /\ shift \in [Shifts -> ShiftRow]
    /\ closed \in [Days -> {"never", "closed", "reopened"}]
    /\ zs \in Seq(Reading)
    /\ job \in [Handlers -> Job]

\* While one person at a time voids movements and none voids payments, the balance kept with an
\* account, the balance of its ledger account and the sum of its movements in force agree,
\* whoever posts at once and whatever dies half-way (cash.ts:53-57).
AccountsAddUp ==
    \A a \in Accounts :
        /\ balance[a] = Total(moves, {i \in DOMAIN moves : moves[i].account = a /\ ~moves[i].voided})
        /\ ledger[a] = balance[a]

\* A shortage is collected once however many people press the button, never after it was
\* written off, and a claim marked collected has its money (shifts.ts:752-813).
RecoveredOnce ==
    \A s \in Shifts :
        Cardinality({i \in DOMAIN moves : moves[i].why = "recovery" /\ moves[i].source = s})
            = (IF shift[s].back = "collected" THEN 1 ELSE 0)

\* Closes of several days, repeated closes and readings made by hand may run at once and lose
\* against each other: the readings still count from one without a gap and each starts from the
\* grand total of the one before (schema/documents.ts, z_readings).
ZsChain ==
    \A i \in DOMAIN zs :
        /\ zs[i].counter = i
        /\ zs[i].prev = (IF i = 1 THEN 0 ELSE zs[i - 1].new)
        /\ zs[i].new = zs[i].prev + zs[i].net

----------------------------------------------------------------------------
\* What the code says of itself and does not keep.

\* "Never ... touch `currentBalanceCentavos` any other way" (cash.ts:54-56): the balance of an
\* account and of its ledger account agree.
LedgerKeepsUp == ledger = balance

\* A transfer is refused with "... only holds ... — not enough to transfer ..."
\* (cash.ts:284-288).
NoOverdraft ==
    [][\A h \in Tellers :
          job[h].at = "move" /\ job'[h].at = "idle" /\ moves' # moves /\ job[h].legs[1].why = "transfer" =>
              balance'[job[h].legs[1].account] >= 0]_vars

\* "... must never retroactively change a closed shift's own figures" (shifts.ts:749-750).
ClosedShiftKeepsFigures ==
    \A s \in Shifts : shift[s].status = "closed" =>
        shift[s].expected = Expected(s)
            - Total(moves, {i \in DOMAIN moves : moves[i].rung = s /\ moves[i].why = "count"})

\* "post the over/short so the drawer's running balance matches the count" (shifts.ts:596).
CountPostedOnce ==
    \A s \in Shifts :
        Cardinality({i \in DOMAIN moves : moves[i].why = "count" /\ moves[i].source = s}) <= 1

\* "Lock the day's sales into a Z-reading" (dayclose.ts:170): while a day stays closed its latest
\* reading says what it sold.
LockedIn ==
    \A i \in DOMAIN zs :
        /\ closed[zs[i].day] = "closed"
        /\ \A j \in DOMAIN zs : zs[j].day = zs[i].day => j <= i
        => zs[i].net = NetSales(zs[i].day)

\* "Idempotent per day-close" (readings.ts:376): a day that was closed once has one reading.
OneReadingPerClose ==
    \A i, j \in DOMAIN zs : zs[i].day = zs[j].day /\ zs[i].net = zs[j].net => i = j
=============================================================================
