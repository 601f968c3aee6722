# A formal model of the hotel booking system

This directory holds TLA+ specifications of the hotel application in
`apps/hotel` (SvelteKit, Drizzle, PostgreSQL, PayMongo), the TLC configurations
that model-check them, and proofs checked by TLAPS. Paths below are relative to
`src/apps/hotel/src/lib/server/` unless they start with `src/`.

## 1. The system

One deployment serves many hotels. Everything that must survive is in
PostgreSQL; the Node process keeps no state between requests, so concurrency is
between *handlers* (a page action, a webhook, a pg-boss job, a staff action)
that interleave at their database statements and at their calls to PayMongo.
All transactions run at READ COMMITTED. Some take advisory locks
(`pg_advisory_xact_lock`), many rely on guarded updates
(`UPDATE ... WHERE status = 'pending_payment'`), a few on unique indexes.

| Component | State | Operations | Talks to | Hard behaviour |
|---|---|---|---|---|
| Order lifecycle (`db/schema/orders.ts`, `bookings.ts`) | `orders.status`, `bookings.status`, `hall_bookings.status` | create, confirm, release, cancel, reinstate (the last in `RoomInventory` only) | everything | order and lines live in different rows |
| Online payment (`paymongo/*`, the review page's `pay`) | `payment_attempts`, `payments`, `orders.paymongo_checkout_session_id`; PayMongo's sessions | create session, webhook, verify, supersede | lifecycle, folio, mail | lost and repeated webhooks, crash between two writes, stale reads |
| Hold sweep (`orders.ts`) | none of its own | `expirePendingOrders` | payment (verify first), inventory | races the payment it is about to find |
| Manual overrides (`status-override.ts`) | none of its own | `manuallyConfirmOrder`, `reinstateBooking` | folio, inventory | several transactions in a row |
| Cancellation (`cancellation.ts`, `paymongo-refund.ts`) | refunds, adjustments | `cancelBooking`, `markNoShow`, `cancelOtaBooking` | PayMongo, folio, lifecycle | per-line locks, external refund before the transaction |
| Room inventory (`availability.ts`, details page, `booking-modify.ts`, `front-desk.ts`) | bookings' dates, `room_assignments` | sell, walk-in, modify, reinstate, check in and out | lifecycle | check-then-insert under different locks |
| Folio and ledger (`folio.ts`, `finance/payments.ts`) | `folios`, `folio_charges`, `payments`, `cash_movements` | charge, pay, void, refund | all money | balance read, then insert |
| Tax documents (`finance/documents.ts`) | `document_series`, `documents` | register a range, issue, spoil, cancel, replace, liquidation register | folio, dining | gapless numbers while inserts fail, replacement in four transactions |
| Cash book (`finance/cash.ts`, `shifts.ts`, `dayclose.ts`, `readings.ts`) | `cash_movements`, balances, journal, `cashier_shifts`, `day_closes`, `z_readings` | post, void, transfer, open and close a shift, close a day, read | all money | decided on unlocked reads, closed days and shifts |
| Receivables, expenses, reconciliation (`finance/*`) | their own tables | settle, approve, match | cash book | |
| Security deposits | `security_deposits` | hold, apply, release | folio | |
| Promo codes, pricing | `promo_codes`, redemptions | quote, redeem | checkout | a limit counted under the code's row lock |
| Dining (`dining-*.ts`, `kitchen.ts`) | dining orders, dishes, checks, reservations | order, cook, pay, room charge, void, refund, cancel | cash book, folio, tax documents | voids of several transactions, corrections by two desks |
| Housekeeping, messaging, support chat | their own tables | | front desk | |
| Jobs (`jobs/boss.ts`, `jobs/tasks.ts`) | pg-boss queues | `hold_sweep` (15 min), `payment_verify` (1 min), no-show, expenses, readings | payment, cancellation | overlapping runs |
| HR application (`src/apps/hr`, `src/packages/hr-core`) | its own database | payroll, leave, attendance | snapshot sync | mostly computation |

What makes each one correct is listed, with the line where it could go wrong, in
`PROJECT.json` under `hazards`.

Three hazards decide the design of the room inventory: sales lock the *room
type* (`room:<type>`), changes of dates lock the *booking* (`booking:<id>`),
check-in locks the *booking's check-in* and a *room* (`checkin:<id>`,
`room:<room>`), a walk-in that picks rooms locks them under another name
(`room-id:<room>`), and check-out and reinstatement lock nothing. What each
lock does and does not exclude is what `RoomInventory` is about.

## 2. Modules

### `OrderLifecycle`: what an order promises

The abstract specification. An order, its lines and the receipts on file move in
five ways only: money is taken; all pending lines are confirmed together and
with money on file; an unpaid hold is released with all its lines; one line is
cancelled; the order is cancelled with its last line. It has no handlers,
sessions or races.

### `OnlinePayment`: how it is carried out

One order with its `Lines`, the checkout `Sessions` PayMongo may create for it,
and any number of each handler:

| Handler | Code | Actions |
|---|---|---|
| `Webhooks` | `paymongo/webhook-handler.ts`, `confirm-room-payment.ts` | `WebhookArrives`, `CommitPayment`, `PaymentNotRecorded` |
| `Workers` | `runPaymentVerify`, `verifyOrderNow` on a page load (`paymongo/verify.ts`) | `WorkerStarts`, `Ask`, `ResolvePaid`, `CloseAttempt`, `WorkerEnds` |
| `Sweepers` | `expirePendingOrders` (`orders.ts`) | `SweepSelects`, `Ask` ..., `SweepKeeps`, `SweepReleases`, `SweepKillsSession` |
| `Guests` | the review page's `pay` action | `PayRequested`, `Ask` ..., `PayRedirected`, `PaySupersedes`, `CreateSession`, `BindSession`, `RecordAttempt` |
| `Desks` | `manuallyConfirmOrder` | `DeskStarts`, `DeskTakesPayment`, `DeskConfirms`, `DeskFails` |
| `Clerks` | `cancelBooking` | `CancelOpens`, `CancelFlips`, `CancelCommits`, `CancelKillsSession`, `CancelFails` |
| PayMongo and the browser | external | `GuestPays`, `SessionLapses` |

A transaction is two steps: what it reads with plain SELECTs (kept in the
handler's record, possibly stale by the time it is used) and its writes with the
commit. A guarded UPDATE re-evaluates its WHERE on committed rows, so it belongs
to the second step. `cancelBooking` also holds the row lock of its line while it
reads the sibling lines, so it has three steps, and `Held` blocks the others'
updates of that row meanwhile. `HandlerDies` drops a handler and its open
transaction at any step: committed rows and PayMongo's records stay.

The variables are the columns: `order`, `line`, `latest`
(`orders.paymongo_checkout_session_id`), `attempt` (`payment_attempts.status`),
`payments`, and abstractions of history rows (`flagged`: sessions noted "refund
required"; `announced`: who returned `confirmedNow`; `settled`: lines whose
cancellation dealt with the money). `gateway` is PayMongo's own record and
`link` the checkout URLs that reached the guest.

Abstractions: amounts, currencies, promo redemption and mails are left out, and
so is the dining scope of the same tables. The sweep's TTL and 24-hour limit,
`nextCheckAt` and the webhook's delay are nondeterministic moments. A 404 from
PayMongo counts as an expired session, as in the code. The batch of four parallel
checks of one worker run is covered by several `Workers`. A page load's
`verifyOrderNow` and the staff's "verify all" are Workers. A webhook for a payment
already on file commits nothing and is left out. The balance check and the insert of
`recordPayment` are one step of `DeskTakesPayment`. The branch of `cancelBooking`
that first refunds through PayMongo is left out. A deadlock between two
transactions, a unique violation and a lost connection are the `...Fails`,
`...Dies` and `PaymentNotRecorded` actions.

### `MCOnlinePayment`

Instances for TLC: symmetry over sessions, lines and clerks (never with liveness).

### `RoomInventory`: who has which room on which night

The rows are `status` and `stay` (`bookings`, `booking_rooms`), `assigned`
(`room_assignments`) and the business date `today`; `job` is what each handler
keeps between its steps.

| Handler | Code | Actions |
|---|---|---|
| `Shoppers` | `createOrder` of the guest's details page | `SaleOpens`, `TakeLock`, `RowsRead`, `CartChecked`, `CartRefused`, `CartBooked` |
| `Agents` | `createWalkInBooking` (`front-desk.ts`) | the same, with the desk's checks and picked rooms |
| `Porters` | `checkInBooking`, `checkOutBooking` | `CheckInReuses`, `CheckInPicks`, `CheckInCommits`, `CheckOutOpens`, `CheckOutCommits` |
| `Movers` | `modifyBookingStay` (`booking-modify.ts`) | `MovePlanned`, `MoveCommits` |
| `Overriders` | `reinstateBooking` (`status-override.ts`) | `ReinstateChecked`, `Reinstated` |
| `Clerks` | `cancelBooking`, `markNoShow` | `CancelBooking`, `MarkNoShow` |
| webhook, sweep, calendar | `confirm-room-payment.ts`, `orders.ts` | `PaymentConfirms`, `HoldReleased`, `NightPasses` |

A handler takes its locks, reads, and writes with its commit, as in
`OnlinePayment`. `TakeLock` takes one advisory lock at a time in `Rank` order (the
`sort()` of `lockKeysFor`), so lock waits are states; check-in's locks are
taken and tested with its read, because two porters never hold a part of what the
other waits for in another order. The four ways the code counts are kept apart:
`BlockingByDates` before check-in and `BlockingByRoom` afterwards,
`InventoryHeldUntil` for the type, `RoomHeldUntil` for the room, `Taken` for one
room. `Connected` counts the pool: a seller or mover holds one connection and
a search on `db` needs another.

Abstractions: a booking is one room, as both sellers create them; a search
of a seller is its two statements with a snapshot each, `RowsRead` and then `CartChecked` or
`CartRefused` (`availability.ts:292-318`: on the site on two connections and answered in either order,
at the desk on the transaction's connection and in the order written), but the searches for the lines of one cart
run together; for movers and overriders the two are one read (`Free`), as they overbook without such help; prices, rate plans (but for the branch that
skips the date check, `replan`), occupancy and extra beds are left out; so are function
halls, OTA bookings and rooms taken out of service. An order's status is implied by
its bookings'. Cancellation, no-show, release and payment are one guarded update each, as their
races among themselves are in `OnlinePayment`. A change of dates and its locks
are one read, check-out uses the business date of its commit, and the pool counts sellers
and movers only. Collisions of `hashtext` are ignored.

### `RoomInventory_proofs`, `RoomCapacity_proofs`, `Sums`, `MCRoomInventory`

The proofs (locks, movers and guests; then capacity; then what all sums need), and the carts and sort order of the instances. The mutants named in
comments are bugs the runs must notice; nothing else uses them.

### `Refunds`: the money of one booking

One confirmed booking with `Origins` online payments. The rows are `booking` (its status), `folio`,
`extra` (one charge beside the stay's), `settled` (the adjustments a cancellation or a no-show adds),
`rows` (`payments` written since) with their cash movements (`moved`); `refunds` and `events` are
PayMongo's side.

| Handler | Code | Actions |
|---|---|---|
| `Staff`, at the desk | `finance/payments.ts`, `folio.ts` | `PaymentRequested`, `PaymentTaken`, `ReturnRequested`, `Returned`, `PaymentVoided`, `ChargeAdded`, `ChargeVoided`, `FolioOpened` |
| `Staff`, cancelling | `cancelBooking`, `paymongo-refund.ts` | `CancelRequested`, `RefundAsked`, `RefundRecorded`, `FailureRecorded`, `CancelDecided`, `CancelCommitted` |
| `Staff`, and the nightly job | `markNoShow` | `NoShowDecided`, `NoShowCommitted` |
| `Hooks` | `payment.refund.updated` in `paymongo/webhook-handler.ts` | `HookReads`, `HookConfirms`, `HookPosts`, `HookFails` |
| PayMongo | external | `RefundSettles`; events are delivered late, never, or again |

The PayMongo refund is a loop of its own transactions before the cancellation's; the cancellation
takes the booking's advisory lock, flips the status and then reads the ledger on another
connection, so its decision and its commit are two steps and `MayEnd` keeps a second one out. The
fee, the write-off and the refund due are the code's arithmetic (`FeeKept`, `RefundDue`,
`noShowAdjustmentCentavos` in `NoShowCommitted`). Left out: several lines of one order, hall
bookings, OTA cancellation, senior and PWD discounts, allocations of one payment to several folios.

### `CashBook`: movements, shifts, days and readings

Two accounts (a drawer and a bank), the rows `moves`, `shift`, `closed` and `zs`, each account's
`balance` and the sum of its journal lines (`ledger`). A handler decides by unlocked reads and
writes in one transaction later.

| Handler | Code | Actions |
|---|---|---|
| `Tellers` | `recordPayment` and `cash.ts` | `SaleRequested`, `TransferRequested`, `EventRequested`, `MovesPosted` |
| `Tellers`, on a shift | `shifts.ts` | `OpenShift`, `FloatRequested`, `CloseRequested`, `ShiftClosed`, `ChargedBack`, `WrittenOff`, `CollectRequested`, `Collected` |
| `Voiders` | `voidCashMovement` | `VoidRequested`, `MoveVoided` |
| `DeskVoiders` | `voidPayment` | `PaymentVoidRequested`, `PaymentVoided` |
| `Closers` | `dayclose.ts`, `readings.ts`, the nightly job, the readings page | `DayCloseRequested`, `DayClosed`, `DayReopened`, `ZRequested`, `ZComputed`, `ZIssued` |

`DayOpen` is the day lock with `lockOnDayClose` on. A journal entry is its effect on the account of
the movement; the other side (sales, suspense) is not kept. VAT, discounts and document spans of
a reading are left out: `ChargedBack` is one step, though
`chargeBackShiftVariance` reads the shift before it marks it: the update asks again for an unclaimed shortage.
`NetSales` is what the chain of grand totals adds up. `MaxMoves` and `MaxZs` bound the rows.

### `Documents` and `SerialBook`: numbered tax documents

`SerialBook` is what the register of authorised numbers promises: within a series numbers are
consumed one after the other, each once, and an issued one may only become cancelled. `Documents`
carries it out with `document_series` (`status`, `next`), `documents` (`docs`, in the order of their
insertion) and handlers between their steps:

| Handler | Code | Actions |
|---|---|---|
| `Issuers` | `issueInvoice`, `issueOfficialReceipt`, `issueDiningDocument` | `IssueRequested`, `SeriesSeen`, `SeriesLocked`, `NoSerial`, `DocumentWritten`, `DocumentRefused` |
| `Spoilers` | `spoilSerial` | `SpoilRequested` and the same draw |
| `Cancellers` | `cancelDocument`, `cancelDiningReceipt` | `CancelRequested`, `CancelWritten`, `ReplacementFound`, `ReplacementDrawn`, `LinkedOld`, `LinkedNew` |
| staff | series page | `SeriesRegistered`, `SeriesSet` |

The `SELECT ... FOR UPDATE` of `allocateSerial` is two steps: the snapshot that finds the active row and
the row re-read once its lock is had, which may no longer be active. `Duplicate` is what the two
unique indexes refuse; the refused transaction takes the counter's bump back with it. What a
document says (its snapshot and PDF) is left out. `LiquidationRows` is the
report's loop as a recursive function (`Looked` is its body), checked against what each number became.

### `DiningOrders`: restaurant orders and their money

The rows are `status`, `pay`, `method`, `entry` (the cash movement), `line` (the folio charge) of an
order, `stage` (its dishes, one value per station), `forced` (the audit entry of a cleared table), `movement`, `charge`, `receipt`, `refunded` and whether the
room's folio is open.

| Handler | Code | Actions |
|---|---|---|
| kitchen, floor, guest | `dining-orders.ts`, `dining-online.ts` | `PlaceOrder`, `AcceptOrder`, `DeclineOrder`, `StationWorks`, `ServeOrder`, `CancelOrder`, `GuestCancels`, `RequestAnswered`, `ExpireOrder` |
| till, PayMongo, room bill | `payDiningOrder`, `confirmDiningPayment`, `dining-room-charge.ts` | `PayOrder`, `OnlinePaid`, `ChargeToRoom`, `BillSettled` |
| `Voiders` | `voidDiningOrderPayment`, `voidDiningOrder` | `VoidRequested`, `OrderVoidRequested`, `VoidLooks`, `VoidOpens`, `VoidReverses`, `VoidCancelsReceipt`, `VoidClears`, `VoidCancels` |
| `Undoers` | `undoDiningRoomCharge`, `voidFolioCharge` | `UndoRequested`, `ChargeVoidRequested`, `UndoOpens`, `UndoVoids` |
| `Clearers` | `forceClearCheck` (`dining-checks.ts`) | `ClearRequested`, `ClearServes`, `VoidCancels` |
| `Guests`, `Issuers`, `Refunders` | requests, receipts, refunds | `GuestAsks`, `RequestSent`, `ReceiptRequested`, `ReceiptIssued`, `RefundRequested`, `RefundRecorded` |

A transaction that locks the order's row first (`loadOrderForUpdate`) and decides by what it then
reads is one action. Add-ons, delivery, prices and messages are left out. Of a table's
check only its clearing is modelled, which serves paid orders by id and cancels unpaid ones: one `Clearers` stands
for one order of the table. The check's own row, its closing and its split bills are left out.

`PayOrder` excludes `pending_payment`, which `payDiningOrder` (786-826) does not: it refuses cancelled orders and
those not unpaid, and the till's board does not list an order that waits for its online payment (1148-1178). `ChargeToRoom` has
that guard in the code (`dining-room-charge.ts:202`). `MoneyIsShown` rests on the exclusion: a till payment taken
for such an order would lose its place to the online one (`dining-online.ts:517-530`).

`MCRefunds`, `MCCashBook`, `MCDocuments` and `MCDiningOrders` give the instances their symmetry and the
ranges of numbers.

## 3. Runs

Bounds: one order of one or two lines, because every cross-line property speaks of a
line and its order or of two lines; two sessions, because superseding and closing
siblings needs exactly a first and a second; one handler of each kind, two
clerks where siblings matter. Nothing in the code distinguishes a third line or
session from the second, and the proofs below cover any number of all of them.

| Run | Checks | Shows |
|---|---|---|
| `OrderDecided` | `LinesAgree`, `ConfirmedIsBacked`, `KeepsPromise` | webhook, guest check, sweep, desk and two clerks decide one order of two lines at once; every step is one of `OrderLifecycle` |
| `PaymentRecovery` | `TypeOK`, `RecordedOnce`, `PaidHasRow`, `PaidAttemptIsRecorded`, `WatchedIsRecorded` | two checkouts of one order found by webhook, worker and the guest's retry in every order, with crashes anywhere: nothing is recorded twice or lost from sight, and, with no reliance on webhooks, the worker gets every payment it still watches into the books |

Rooms: two nights, so that stays touch, overlap and differ; one to three rooms of one or
two types; as many bookings as rooms plus those that must be refused
(`Bookings` bounds the rows that may be created, `RowsLeft` keeps concurrent
carts within it); two of the handlers a property is about.

| Run | Checks | Shows |
|---|---|---|
| `RoomSales` | `TypeOK`, `NoOverbooking`, `SomebodyMoves`, `SaleEnds` | two shoppers and a walk-in desk, carts with both types in either order and with two lines of equal dates; holds lapse and payments confirm: never oversold, never all waiting, each sale comes to an end |
| `RoomStays` | `NoOverbooking`, `RoomTakenOnce` | two porters and a walk-in desk, no picked rooms, check-ins also between the two statements of a search: no night oversold, one guest per room and night |
| `RoomKept` | `GuestKeepsRoom`, `ClosedStayKeepsDates` | two porters, two movers, a clerk and an override on one booking: a guest in the house keeps the room, a cancelled or missed stay keeps its dates |

`NoOverbooking` and `RoomTakenOnce` are passed by the handlers whose locks were made
for them and violated as soon as one of the others is let in: the runs say what
the locks achieve, the further configurations below what they leave open. The runs therefore
leave out, on purpose, the overlapping carts, movers, overriders, picked rooms and check-ins beside the site's
sales of `OverlappingCart`, `ExtendedStay`, `RevivedBooking`, `PickedTwice` and `CheckInUnseen`. Overdue stays
occur in `RoomStays`, but both properties count nights by the dates on record. `PoolJam` has a pool of two and two shoppers for the pool of ten
(`db/index.ts`); `RoomSales` has connections to spare.

| Run | Checks | Shows |
|---|---|---|
| `RefundDesk` | `TypeOK`, `SettledOnce`, `RefundsAreReal`, `LeavesOnce`, `EndSettlesFolio` | two members of staff and one refund event at a time on one booking with two online payments, one of them QR Ph: the booking ends once, refunds on the books are real, leave the account once, and a settled folio is settled |
| `NoShowCredit` | `NoShowOwesNothing` (violated) | a stay paid in full whose folio nobody opened shows a credit after a no-show |
| `TillDay` | `TypeOK`, `AccountsAddUp`, `RecoveredOnce` | two tellers and a manager on a drawer with a shift: balances, ledger and movements agree, a shortage is recovered once |
| `ZReadings` | `ZsChain` | two closers on two days, closing, reopening and reading at once: the readings chain |
| `VoidAtDesk` | `LedgerKeepsUp` (violated) | a payment voided at the desk leaves its journal entry standing |
| `SerialsDrawn` | `TypeOK`, `SerialsAccounted`, `OneInForce`, `ReplacementIsLater`, `RegisterIsComplete`, `KeepsBook` | numbers without gaps or repeats, one document in force, replacements that lead forward, a complete register; every step is one of `SerialBook` |
| `OrderMoney` | `TypeOK`, `BillAndOrderAgree`, `MoneyIsShown`, `ReadyIsCooked` | one order cooked by two stations while six people correct its money, one of them clearing its table |

Bounds of these runs. *Refunds*: two online payments, because the refund loop has to spill
from one to the next, one paid by QR Ph and one not; two rows and two refunds let a cancellation be refunded,
fail and be tried by somebody else; a fee of nothing and of one, below and at the limits. *CashBook*:
one drawer and one shift, since the code allows one open shift per drawer; three movements hold a sale,
its count and its recovery; three readings hold two days and a day closed twice. *Documents*: two ranges, of two numbers and of one that does
not begin with its first form, so that a range runs out, is demoted and revived; one subject, since
subjects meet only at the counters; two cancellers, because replacing needs two to race. *DiningOrders*: one order, as its rows are locked one order at a time;
two movements and two charges, so that it can be paid or billed again after a void; two stations.

What each invariant needs. `LeavesOnce` needs one refund event at a time (the row's status is not looked
at again in the update): with two `Hooks` in `RefundDesk.cfg` it fails. `MoneyIsShown` needs one `Voiders`, and fails
with two, because the movement is reversed by id; with `Checkouts = 2` a second online payment
belongs to its `dining_payments` row and no longer to the order. `AccountsAddUp` needs one `Voiders` and no `DeskVoiders`
(`VoidAtDesk`). `EndSettlesFolio` speaks of a cancellation or no-show whose ledger is still
the one it read: payments taken in between are `PaidTwiceOver`'s subject. Where a property needs one handler of a kind, that is part of what it says and stands in its comment; the other bounds are sizes.
No fairness is assumed in these modules: none of their properties is a liveness property.

**Further configurations.** These are kept beside the standing runs, for a reader who
wants the trace; TLC finds each of them violated. The hazards they belong to name
them in `PROJECT.json`.

| Configuration | Violates | What the code says, and the trace |
|---|---|---|
| `GivesUp` | `NeverGivesUp` | `verify.ts:19-20`: superseding closes the row of a session that has just been paid |
| `LateMoney` | `LateMoneyIsFlagged` | `confirm-room-payment.ts:169-172`: a payment on an order released meanwhile is kept without the refund note |
| `TwoClerks` | `OrderDiesWithItsLines` | `cancellation.ts:411`: two cancellations of the last two lines leave the order open |
| `ManualRetry` | `ManualConfirmCanBeRetried` | `status-override.ts:45-46`: a half-done manual confirmation is refused when retried, because its deposit is already paid |
| `CancelPaid` | `PaidCancellationSettles` | `cancellation.ts:412-414`: a line confirmed between two reads of its cancellation is cancelled as unpaid |
| `OverlappingCart` | `NoOverbooking` | two overlapping, unequal stays in one cart pass separately (details page, 125-160) |
| `CheckInUnseen` | `NoOverbooking` | `availability.ts:292`: a booking checked in between the two statements of a guest's search is in neither answer |
| `ExtendedStay` | `NoOverbooking` | an extension locks the booking, a walk-in the room type: both take the last room |
| `RevivedBooking` | `NoOverbooking` | `status-override.ts:194-196`: a reinstatement's check is stale when it commits |
| `PoolJam` | `SomebodyMoves` | `availability.ts:221-222`: a pool full of shoppers, each waiting for a second connection |
| `PickedTwice` | `RoomTakenOnce` | `front-desk.ts:136-138`: check-in and walk-in lock the same room under two names |
| `MovedPick` | `AssignmentFollowsBooking` | `schema/room-assignments.ts:12-13`: a picked room's assignment keeps the old dates of a moved booking |
| `LateCheckIn` | `OnlyConfirmedCheckIn` | `front-desk.ts:151`: a booking cancelled after that read is checked in |
| `RetryRefused` | `FailureCanBeRetried` | `paymongo-refund.ts:220`: a refund that failed counts as given back |
| `RefundLost` | `RefundsStayRecorded` | `paymongo-refund.ts:116-117`: a stop between PayMongo's answer and the row loses the refund |
| `PaidTwiceOver` | `PaymentWithinBalance` | `finance/payments.ts:200-204`: two desks collect one balance |
| `Overdraft` | `NoOverdraft` | `finance/cash.ts:284-288`: two transfers each see the balance |
| `LateSale` | `ClosedShiftKeepsFigures` | `finance/shifts.ts:749-750`: a sale whose shift was resolved before it closed is rung on it afterwards |
| `CountTwice` | `CountPostedOnce` | `finance/shifts.ts:596`: a shift closed by two people posts its over/short twice |
| `LateOnClosedDay` | `LockedIn` | `finance/dayclose.ts:170`: a movement that passed the day lock commits after the day was read |
| `ZTwice` | `OneReadingPerClose` | `finance/readings.ts:376`: a day reopened and closed again adds its sales to the grand total twice |
| `BilledAndCancelled` | `CancelledIsOffTheBill` | `dining-orders.ts:607`: an approved guest cancellation leaves the room charge standing |
| `ReceiptKept` | `ReceiptHasMoney` | `dining-orders.ts:951`: a receipt issued while the payment is voided stays in force |
| `RefundedTwice` | `RefundsAreCovered` | `dining-online.ts:991`: two refunds, each within what was left |

Two more need no file of their own. `LateMoney.cfg` with `Sweepers = {}`, `Desks = {desk}` and the property
`AnnouncedByConfirmer` (`confirm-room-payment.ts:44-45`): a delivery that confirmed nothing mails the confirmation
again. `RefundedTwice.cfg` with `Clearers = {q1}`, `Refunders = {}` and the property `FinalStaysFinal`
(`lib/dining-orders.ts:104`): a cleared table's order is served over its cancellation.

Each of the two violated runs states what a comment of the code says; `PROJECT.json` quotes
the line. Deadlock checking is off where the system really stops: an order that is
decided, with every handler idle, has nothing left to do.

**Fairness.** `FairSpec` assumes only what `jobs/boss.ts` gives: `payment_verify`
runs every minute, so for each session the worker is started again and again on
it while its attempt is open (strong fairness, because other batches and
restarts disable it in between); PayMongo's answer, the recording commit and the
row updates succeed if they are tried again and again (strong fairness: they may
fail any finite number of times); a started run ends; a transaction that cannot commit
aborts. No fairness is assumed of webhooks, guests, sweeps, desks or clerks.
`WatchedIsRecorded` excludes attempts that were closed as superseded. Without that
exclusion it fails, for the same reason as `NeverGivesUp` (`GivesUp`): the `pay` action reads
"PayMongo did not answer" as "not paid" and supersedes the attempt.

## 4. Proofs

`OnlinePayment_proofs` proves, for any sets of lines, sessions and handlers, under the two
assumptions of `OnlinePayment` (`NoSession` is not a session; a handler is of one
kind):

| Theorem | States |
|---|---|
| `Invariance` | `Spec => []IInv` |
| `TypeCorrect`, `StatusesAgree`, `ConfirmationsAreBacked`, `PaymentsRecordedOnce`, `PaidSessionsHaveRows`, `AttemptsTellTheTruth` | the invariants of `PaymentRecovery` and `OrderDecided` |
| `ImplementsLifecycle` | `Spec => Promise!Lifecycle` |

None of the invariants is inductive alone. `IInv` adds what a handler remembers
between its steps: `HandlersSound` (a handler past "ask" works on a session
PayMongo has created, and one that resolves an attempt has its payment on file),
`LinksHaveRows` (a URL reaches the guest only after the attempt row exists,
which is why `PaidHasRow` survives a crash), `DesksSound` (a desk about to flip
has money on file for each line it will confirm) and `ClerksSound` (a clerk who
saw no live sibling really cancels the last line: lines never leave
"cancelled", so that stale read is safe in the one direction). The proof has one
lemma per group of actions (`BooksKept`, `HandlersKept`, `MoneyStep`, `DesksKept`,
`ClerksKept`, `HeldUntouched`, `StatusStep`) and one step per action in each. The refinement uses
`IInv` at each step: `StatusStep` gives the order and line moves, `MoneyGrows` the
receipts, `StepKeepsPromise` puts them together.

Only model-checked: `WatchedIsRecorded` (liveness).

`RoomInventory_proofs` proves, for any finite sets of types, rooms and bookings, any carts and any
number of handlers (assumptions `RoomsAssumption`, `CartsAssumption`, `RankAssumption`,
`HandlersAssumption`: keys sort strictly, carts have a line, a handler is of one kind):

| Theorem | States |
|---|---|
| `Invariance`, `TypeCorrect` | `Spec => []IInv`, `Spec => []TypeOK` |
| `SalesNeverStuck` | `Spec => []SomebodyMoves`, if the pool has a connection for each seller and mover (`EnoughConnections`; `PoolJam` shows that this is needed) |
| `GuestsKeepTheirRooms` | `Spec => GuestKeepsRoom` |
| `ClosedStaysKeepTheirDates` | `Spec => ClosedStayKeepsDates` |

`LocksSound` (a lock has one holder; what a seller still wants sorts after what
it holds) makes `SomebodyMoves` provable: follow each awaited lock to its holder
and the awaited keys strictly grow, which among finitely many keys cannot go on
(`MinimalSet`, from the well-founded order of finite subsets). The same lemma shows
that `NextLock` exists. `PortersSound` (a check-in about to commit is on a booking
not in the house and on nobody else's) gives `GuestKeepsRoom`. `MoversSound` and `OverridersSound`
(a mover past its read works on bookings that are neither cancelled nor missed, because their lock keeps the others out; a reinstatement brings back only such as were)
give `ClosedStayKeepsDates`.

`RoomCapacity_proofs` proves that the rooms suffice, for any rooms, carts, nights and number of
handlers. Its theorems carry hypotheses, because the code does not protect the rooms from
everybody; each hypothesis is followed by what happens without it.

| Theorem | States | Assuming |
|---|---|---|
| `RoomsNeverOverbooked` | `Spec => []NoOverbooking` | `NobodyElseBooks`: no mover (`ExtendedStay`), no overrider (`RevivedBooking`), and where there are porters, no shopper (`CheckInUnseen`) and no clerk (the clerk's cancellation frees the night, a seller counts it free, and the check-in that had read the booking as confirmed commits after all, as in `LateCheckIn`); `CartsApart`: overlapping lines of one type have equal dates on the site (`OverlappingCart`) and none overlap at the desk, where the lines of a cart are not added up |
| `CheckInsShareNoRoom` | `Spec => []RoomTakenOnce` | `NobodyPicks`: no cart names a room (`PickedTwice`); no mover (a change of dates that also changes the rate plan is not checked against the room, and one that is checked does not hold the room's lock until it commits) |
| `PicksShareNoRoom` | `Spec => []RoomTakenOnce` | `OnlyDeskPicks`: carts of the site name no room, nobody checks in (`PickedTwice`), moves or reinstates; `CartsApart` |

The inductive invariant of the first is `CapacityInv`. `CartsLocked`: a seller past `TakeLock` holds
the key of every type in its cart. `SearchCovers`: of the bookings that
block a line now, each was in a search's first answer or will be in its second, because the type's key keeps
others from joining meanwhile and, with the desk's order of the two statements, a booking checked in between them had
been seen among the first; on the site, without porters, no room is assigned and the order does not matter. `CommitsFit`: what a seller about to commit counted still fits,
line by line, because who could take a room of the type waits for the key, and everybody else who
moves meanwhile (a payment, a release, a check-in or check-out) does not add to the nights taken.
`BookedAsAssigned` and `PortersKnow` say why not: a check-in gives its room for the very dates the
booking was counted with. The step that commits a cart then needs arithmetic of sets: what the cart
adds to one night of one type is at most what `CartChecked` counted for any of its lines covering
that night (here alone this proof uses `CartsApart`; the third uses it because two lines of a cart may name one room). The second theorem keeps `RoomsAtCheckIn` (the room a check-in is
about to give is free for its dates and given by no other), the third `PicksFree` (the same of the
rooms picked in a cart).

`Sums` holds what these proofs and those of the money need. The folds of the community modules are
recursive functions whose summand is an operator, so no theorem of the library reaches them;
`Sum(v, S)` is the same fold with a function for a summand, its existence and its laws
(`SumUnfolds`, `SumOut`, `SumChanged`, `SumAppend`, `SumJoined`, `SumPart`) are proved from
`SmallestSet`: among the finite sets that would refute a law there is a smallest one, which one element
less no longer refutes. That takes the place of an induction rule, which cannot be used
here (it is parameterised by an operator); `AllUpTo` is its form for the numbers up to a bound.

`SaleEnds` is liveness and stays with TLC; its fairness is
that lock and connection queues are first come, first served, and that a handler waiting for neither
goes on (strong fairness of `SaleAdvances`).

The other proof modules cover any sets of rows, amounts and handlers, under the assumptions named
in their modules (`RangeAssumption`, `NamesAssumption`, `CashAssumption`, `RefundsAssumption`: ranges are
ranges, names are distinct, amounts are natural numbers).

| Module | Theorem | States |
|---|---|---|
| `Documents_proofs` | `TypeCorrect`, `NumbersHaveNoGaps`, `OneIsInForce`, `ReplacementsLeadForward` | `TypeOK`, `SerialsAccounted`, `OneInForce`, `ReplacementIsLater` |
| `Documents_proofs` | `ReportAccountsForEveryNumber` | `RegisterIsComplete` |
| `Documents_proofs` | `ImplementsBook` | `Spec => Register!Book`, the refinement |
| `DiningOrders_proofs` | `TypeCorrect`, `CookedBeforeReady` | `TypeOK`, `ReadyIsCooked` |
| `DiningOrders_proofs` | `MoneyKeepsItsOrder`, `BillsAgree` | `MoneyIsShown`, `BillAndOrderAgree`, assuming `OneAtATime` (one voider, one undoer, `Checkouts <= 1`) |
| `CashBook_proofs` | `TillTyped`, `ReadingsChain`, `ShortageRecoveredOnce` | `TypeOK`, `ZsChain`, `RecoveredOnce` |
| `CashBook_proofs` | `CashAddsUp` | `AccountsAddUp`, assuming `OneVoids` (one voider, no `DeskVoiders`) |
| `Refunds_proofs` | `MoneyTyped`, `OneEnd`, `BooksAreReal` | `TypeOK`, `SettledOnce`, `RefundsAreReal` |
| `Refunds_proofs` | `EndsSettled` | `Spec => EndSettlesFolio` |
| `Refunds_proofs` | `RefundsLeaveOnce` | `LeavesOnce`, assuming `OneHook` |

*Documents.* `WritersSound` (a handler holding a series' row has its next number, and holds it alone)
carries the counters; `LatestInForce` (the document in force is the last of its subject) is why a
replacement, found or drawn, is always later than what it replaces; `CancellersSound` keeps that for a
clerk between its four transactions. The report is proved right whatever the documents are: `Accounted`
is the invariant of its loop (the rows so far tile the range up to the open run, the run is of unused
numbers, and the last row is not), and `LoopExists` that the recursive function has a value
at every number of the range. The proof asks that ranges start above zero, as `createDocumentSeries` does
(`from < 1` is refused): the model marks "no run open" by zero where the code has null. *DiningOrders.* `CookedBeforeReady` covers the clearing
of tables: an order served unfinished has the manager's audit entry. `VoidsSound` says what a manager keeps of the
payment between the steps of a void, `UndosSound` the same of a clerk and a charge; both are only inductive
because nobody else voids, which is what `OneAtATime` assumes. *CashBook.* A computed reading
is kept in the invariant with its predecessor (`Continues`), and the unique index on the counter then decides
between two of them; `RInv` says which movements recover which shift. `TillInv` types what handlers
keep, a counted drawer and a computed reading among them, which are sums of movements. `BooksInv` says
that account, ledger and movements agree and that nobody is about to void a movement already voided:
that is what fails with a second voider, and `voidCashMovement` checks it before its transaction;
a payment voided at the desk breaks the ledger alone (`VoidAtDesk`). *Refunds.* `EInv`: at most one handler is ending the booking,
and only while it is confirmed. `RInv`: a handler about to record a refund has one PayMongo
was asked for and no row names (`JobsReal`), and an event about to confirm a row has succeeded (`EventsReal`).
`LInv` adds what has left the account. `MoneyInv` types amounts and ties a recorder to its row;
with it and `EInv`, `EndsSettled` computes the folio after the end from the folio before it: the
adjustment and the payout are appended to the sums the handler decided by, and what
it decided makes the balance zero.

Model-checked only: the liveness properties `WatchedIsRecorded` and `SaleEnds`. Liveness
under fairness is beyond the prover. Every other property a passing run checks is a theorem, though
`NoOverbooking`, `RoomTakenOnce`, `AccountsAddUp`, `LeavesOnce`, `MoneyIsShown`, `BillAndOrderAgree` and `SomebodyMoves`
only under the hypotheses above.

## 5. Not modelled, and the plan

First, on what is there: an abstract specification of the inventory (a calendar of rooms sold) that the
sellers implement, proved from `CapacityInv`; `EndSettlesFolio` for a cancellation through PayMongo, whose
refund is split over several payments.

Left out of the modules there are: function halls and OTA bookings (their own status columns and
cancellation), promo redemption, the allocation of one payment to several folios, table checks with
their split bills, dining reservations and deliveries, receivables, expenses and the
reconciliation with PayMongo's ledger.

Modules that could follow, in order:

1. *Table checks and reservations*: `ensureOpenCheck`, a check's orders paid together, deposits.
2. *Receivables*: a city ledger whose balance is the sum of its entries, settled and written off.
3. *Security deposits*, *housekeeping*.
4. *Function halls*: one hall per date under its own lock key.
5. Of the HR application only the payroll run's state machine has state worth
   modelling; its arithmetic is covered by its unit tests.

Not planned: promo codes (`assertPromoWithinLimits`, `promo-codes.ts:41-77`, locks the code's row and
counts inside the checkout's transaction, so redemptions are one after the other), storefront and staff pages, e-mail, PDF, uploads (pure input and
output), price arithmetic (tested directly), reports (queries).
