------------------------------- MODULE Refunds -------------------------------
(***************************************************************************)
(* The money of one confirmed booking (folio.ts, finance/payments.ts,      *)
(* cancellation.ts, paymongo-refund.ts, the refund events of the webhook):  *)
(* payments and refunds at the desk, extra charges, the cancellation with   *)
(* its refund by hand or through PayMongo, the no-show, and PayMongo's      *)
(* reports on the refunds it was asked for.                                 *)
(*                                                                         *)
(* The ledger is read without locks and the rows are written later, so most *)
(* handlers are two steps.  A PayMongo refund happens before the            *)
(* cancellation's transaction.                                              *)
(***************************************************************************)
EXTENDS Integers, Sequences, FiniteSets, SequencesExt

CONSTANTS
    Staff,                  \* requests at the desk and the no-show job
    Hooks,                  \* webhook requests that carry refund events
    Origins,                \* how many online payments the order has, oldest first
    Deposit,                \* the amount of each
    QrPh,                   \* those that were paid by QR Ph
    Price,                  \* bookings.total_centavos
    Fees, Amounts,          \* cancellation fees and payments staff may enter
    MaxRows, MaxRefunds     \* bounds: rows of payments, refunds at PayMongo

Online == 1 .. Origins
Handlers == Staff \union Hooks

ASSUME RefundsAssumption ==
    /\ Origins \in Nat /\ Deposit \in Nat \ {0} /\ Price \in Nat
    /\ QrPh \subseteq Online
    /\ Fees \subseteq Nat /\ Amounts \subseteq Nat \ {0}
    /\ Staff \intersect Hooks = {}
    /\ MaxRows \in Nat /\ MaxRefunds \in Nat

VARIABLES
    booking,    \* the line's status; cancelling the only line cancels the order
    folio,      \* folios.status
    extra,      \* a charge beside the stay's, of one
    settled,    \* the lines a cancellation or a no-show adds to the folio
    rows,       \* payments written since the booking was confirmed
    refunds,    \* what PayMongo was asked to refund
    events,     \* refund events it has sent, each delivered any number of times
    job

bill == <<booking, folio, extra, settled>>
vars == <<bill, rows, refunds, events, job>>

Row == [what : {"payment", "return", "cancellation", "refund"},
        amount : Int,                     \* negative when money goes back
        status : {"pending", "paid", "failed"}, voided : BOOLEAN,
        origin : Nat, refund : Nat,       \* refunds_payment_id, paymongo_refund_id
        moved : Nat]                      \* its cash movements

Refund == [origin : Nat, amount : Nat, status : {"processing", "succeeded", "failed"}]

Job == [at : {"idle", "pay", "return", "refund", "record", "record_failed", "decide",
              "cancel", "no_show", "confirm", "post", "fail"},
        amount : Int, how : {"desk", "paymongo"}, fee : Nat,
        left : [Online -> Nat], owed : Nat,       \* refundOrderViaPaymongo's loop
        charges : Int, paid : Int,                \* the ledger as the transaction read it
        row : Nat]

Idle == [at |-> "idle", amount |-> 0, how |-> "desk", fee |-> 0,
         left |-> [o \in Online |-> 0], owed |-> 0, charges |-> 0, paid |-> 0, row |-> 0]

Init ==
    /\ booking = "confirmed" /\ folio = "none" /\ extra = "none"
    /\ settled = <<>>
    /\ rows = <<>>
    /\ refunds = <<>>
    /\ events = {}
    /\ job = [h \in Handlers |-> Idle]

----------------------------------------------------------------------------
\* The ledger (loadOrderLedgers, lineChargesCentavos).

AtLeastZero(n) == IF n < 0 THEN 0 ELSE n
Least(m, n) == IF m < n THEN m ELSE n

Total(amounts) == MapThenSumSet(LAMBDA i : amounts[i], DOMAIN amounts)

FolioCharges == Price + (IF extra = "charged" THEN 1 ELSE 0) + Total(settled)

\* A line that has no folio yet is owed its price while the booking is alive.
Charges ==
    CASE folio # "none" -> FolioCharges
      [] folio = "none" /\ booking = "confirmed" -> Price
      [] OTHER -> 0

Paid ==
    Origins * Deposit
        + Total([i \in DOMAIN rows |->
                    IF rows[i].status = "paid" /\ ~rows[i].voided THEN rows[i].amount ELSE 0])

Balance == Charges - Paid

\* ensureFolio; folios.booking_id is unique.
Touched == IF folio = "none" THEN "open" ELSE folio

\* getFolioDetail, whenever somebody looks at the folio.
FolioOpened ==
    /\ folio = "none"
    /\ folio' = "open"
    /\ UNCHANGED <<booking, extra, settled, rows, refunds, events, job>>

Does(h, j) == job' = [job EXCEPT ![h] = j]

CashRow(what, amount) ==
    [what |-> what, amount |-> amount, status |-> "paid", voided |-> FALSE, origin |-> 0,
     refund |-> 0, moved |-> 1]

Written(r) == Len(rows) < MaxRows /\ rows' = Append(rows, r)

----------------------------------------------------------------------------
\* The desk.

\* recordPayment reads the balance of the folio ...
PaymentRequested(h, n) ==
    /\ job[h] = Idle
    /\ n <= FolioCharges - Paid
    /\ folio' = Touched
    /\ Does(h, [Idle EXCEPT !.at = "pay", !.amount = n])
    /\ UNCHANGED <<booking, extra, settled, rows, refunds, events>>

\* ... and takes the money.
PaymentTaken(h) ==
    /\ job[h].at = "pay"
    /\ Written(CashRow("payment", job[h].amount))
    /\ Does(h, Idle)
    /\ UNCHANGED <<bill, refunds, events>>

\* refundPayment reads the credit ...
ReturnRequested(h, n) ==
    /\ job[h] = Idle
    /\ n <= Paid - FolioCharges
    /\ folio' = Touched
    /\ Does(h, [Idle EXCEPT !.at = "return", !.amount = n])
    /\ UNCHANGED <<booking, extra, settled, rows, refunds, events>>

\* ... and pays it out.
Returned(h) ==
    /\ job[h].at = "return"
    /\ Written(CashRow("return", -job[h].amount))
    /\ Does(h, Idle)
    /\ UNCHANGED <<bill, refunds, events>>

\* voidPayment, which refuses PayMongo's rows.
PaymentVoided(i) ==
    /\ rows[i].what # "refund" /\ ~rows[i].voided
    /\ rows' = [rows EXCEPT ![i].voided = TRUE]
    /\ UNCHANGED <<bill, refunds, events, job>>

\* addAdHocCharge and the other charges.
ChargeAdded ==
    /\ extra = "none"
    /\ extra' = "charged" /\ folio' = Touched
    /\ UNCHANGED <<booking, settled, rows, refunds, events, job>>

\* voidFolioCharge
ChargeVoided ==
    /\ extra = "charged"
    /\ extra' = "voided"
    /\ UNCHANGED <<booking, folio, settled, rows, refunds, events, job>>

----------------------------------------------------------------------------
\* cancelBooking and refundOrderViaPaymongo.

\* Mutant: the fee is not limited by what was paid.
FeeAsEntered(fee, paid, charges) == Least(fee, AtLeastZero(charges))

\* The fee that is kept.
FeeKept(fee, paid, charges) ==
    Least(fee, Least(AtLeastZero(paid), AtLeastZero(charges)))

\* cancellationRefundCentavos, for the line alone.
RefundDue(fee, paid, charges) == AtLeastZero(paid - FeeKept(fee, paid, charges))

\* Mutant: what was refunded may exceed the payment.
RemainingSigned(o) ==
    Deposit - Total([i \in DOMAIN rows |->
        IF rows[i].what = "refund" /\ rows[i].origin = o THEN -rows[i].amount ELSE 0])

\* eligibleOriginPayments: every earlier refund counts, whatever became of it.
Remaining(o) == AtLeastZero(RemainingSigned(o))

\* Staff cancel with a fee.  For a PayMongo refund the amount is worked out and asked for first.
CancelRequested(h, fee, how) ==
    /\ job[h] = Idle
    /\ LET due == RefundDue(fee, Paid, Charges)
           j == [Idle EXCEPT !.how = how, !.fee = fee]
       IN IF how = "paymongo" /\ booking # "cancelled" /\ due > 0
          THEN /\ folio' = Touched
               /\ Does(h, [j EXCEPT !.at = "refund", !.owed = due,
                                    !.left = [o \in Online |-> Remaining(o)]])
          ELSE /\ Does(h, [j EXCEPT !.at = "decide"])
               /\ UNCHANGED folio
    /\ UNCHANGED <<booking, extra, settled, rows, refunds, events>>

\* What is kept of a cancellation from step to step.
Cancelling(h) == [Idle EXCEPT !.how = job[h].how, !.fee = job[h].fee]

NextOrigin(h) ==
    {o \in Online : job[h].left[o] > 0 /\ \A p \in Online : job[h].left[p] > 0 => o <= p}

\* PayMongo, asked for a refund, never gives back more than the payment.
Refundable(o) ==
    Deposit - Total([n \in DOMAIN refunds |->
        IF refunds[n].origin = o /\ refunds[n].status # "failed" THEN refunds[n].amount ELSE 0])

Asked(o, amount, status) ==
    /\ Len(refunds) < MaxRefunds
    /\ refunds' = Append(refunds, [origin |-> o, amount |-> amount, status |-> status])

\* The next chunk: accepted, accepted and failed at once, or declined; an exception ends the
\* request, also when no payment is left to refund.
RefundAsked(h) ==
    /\ job[h].at = "refund"
    /\ \/ \E o \in NextOrigin(h) :
              LET chunk == Least(job[h].owed, job[h].left[o])
                  j == [Cancelling(h) EXCEPT !.left = job[h].left, !.owed = job[h].owed,
                                             !.amount = chunk, !.row = Len(refunds) + 1]
              IN \/ /\ chunk <= Refundable(o)
                    /\ Asked(o, chunk, "processing")
                    /\ Does(h, [j EXCEPT !.at = "record"])
                 \/ /\ Asked(o, chunk, "failed")
                    /\ Does(h, [j EXCEPT !.at = "record_failed"])
       \/ /\ Does(h, Idle)
          /\ UNCHANGED refunds
    /\ UNCHANGED <<bill, rows, events>>

RefundRow(n, amount, status, moved) ==
    [what |-> "refund", amount |-> -amount, status |-> status, voided |-> FALSE,
     origin |-> refunds[n].origin, refund |-> n, moved |-> moved]

\* Each chunk gets its row at once; a QR Ph refund waits for the guest to claim it.
RefundRecorded(h) ==
    /\ job[h].at = "record"
    /\ LET j == job[h]
           o == refunds[j.row].origin
       IN /\ Written(IF o \in QrPh THEN RefundRow(j.row, j.amount, "pending", 0)
                     ELSE RefundRow(j.row, j.amount, "paid", 1))
          /\ Does(h, IF j.owed = j.amount THEN [Cancelling(h) EXCEPT !.at = "decide"]
                     ELSE [Cancelling(h) EXCEPT !.at = "refund", !.owed = j.owed - j.amount,
                                                !.left = [j.left EXCEPT ![o] = 0]])
    /\ UNCHANGED <<bill, refunds, events>>

FailureRecorded(h) ==
    /\ job[h].at = "record_failed"
    /\ Written(RefundRow(job[h].row, job[h].amount, "failed", 0))
    /\ Does(h, Idle)
    /\ UNCHANGED <<bill, refunds, events>>

\* Mutant: no lock on the booking and a flip that does not look at the status again.
MayEndUnlocked(h) == booking = "confirmed"

\* The advisory lock of the booking is free and the booking is still confirmed.
MayEnd(h) ==
    /\ booking = "confirmed"
    /\ \A g \in Handlers \ {h} : job[g].at \notin {"cancel", "no_show"}

\* The transaction takes the lock, flips the status and reads the ledger, outside itself ...
CancelDecided(h) ==
    /\ job[h].at = "decide"
    /\ IF MayEnd(h)
       THEN Does(h, [Cancelling(h) EXCEPT !.at = "cancel", !.charges = Charges, !.paid = Paid])
       ELSE booking # "confirmed" /\ Does(h, Idle)
    /\ UNCHANGED <<bill, rows, refunds, events>>

\* ... writes off what is not kept, pays out a refund by hand, closes the folio and commits.
CancelCommitted(h) ==
    /\ job[h].at = "cancel"
    /\ LET j == job[h]
           writeOff == j.charges - FeeKept(j.fee, j.paid, j.charges)
           due == RefundDue(j.fee, j.paid, j.charges)
       IN /\ booking' = "cancelled"
          /\ settled' = IF writeOff > 0 THEN Append(settled, -writeOff) ELSE settled
          /\ IF j.how = "desk" /\ due > 0 THEN Written(CashRow("cancellation", -due))
             ELSE UNCHANGED rows
          /\ folio' = IF folio = "none" /\ writeOff <= 0 /\ rows' = rows THEN folio
                      ELSE "closed"
    /\ Does(h, Idle)
    /\ UNCHANGED <<extra, refunds, events>>

\* markNoShow, under the same lock, by hand or by the nightly job.
NoShowDecided(h) ==
    /\ job[h] = Idle
    /\ MayEnd(h)
    /\ Does(h, [Idle EXCEPT !.at = "no_show", !.charges = Charges, !.paid = Paid])
    /\ UNCHANGED <<bill, rows, refunds, events>>

\* noShowAdjustmentCentavos: the hotel keeps what was paid.
NoShowCommitted(h) ==
    /\ job[h].at = "no_show"
    /\ LET adjustment == AtLeastZero(job[h].paid) - job[h].charges
       IN IF adjustment = 0 THEN UNCHANGED <<settled, folio>>
          ELSE /\ settled' = Append(settled, adjustment)
               /\ folio' = Touched
    /\ booking' = "no_show"
    /\ Does(h, Idle)
    /\ UNCHANGED <<extra, rows, refunds, events>>

----------------------------------------------------------------------------
\* PayMongo's refunds and their events.

\* A refund reaches the guest, or fails after it was accepted.
RefundSettles(n) ==
    /\ refunds[n].status = "processing"
    /\ \E status \in {"succeeded", "failed"} :
           /\ refunds' = [refunds EXCEPT ![n].status = status]
           /\ events' = events \union {[refund |-> n, status |-> status]}
    /\ UNCHANGED <<bill, rows, job>>

\* Mutant: any event about a pending refund confirms it.
ConfirmsPending(e, r) == r.status = "pending"

\* Mutant: a success is posted whatever the row says.
ConfirmsAlways(e, r) == e.status = "succeeded"

Confirms(e, r) == e.status = "succeeded" /\ r.status = "pending"

\* The handler of payment.refund.updated finds the row of the refund; without one, or with
\* nothing to change, it is done.
HookReads(k, e) ==
    /\ job[k] = Idle
    /\ \E i \in DOMAIN rows :
           /\ rows[i].refund = e.refund
           /\ \/ Confirms(e, rows[i]) /\ Does(k, [Idle EXCEPT !.at = "confirm", !.row = i])
              \/ e.status = "failed" /\ Does(k, [Idle EXCEPT !.at = "fail", !.row = i])
    /\ UNCHANGED <<bill, rows, refunds, events>>

HookConfirms(k) ==
    /\ job[k].at = "confirm"
    /\ rows' = [rows EXCEPT ![job[k].row].status = "paid"]
    /\ Does(k, [Idle EXCEPT !.at = "post", !.row = job[k].row])
    /\ UNCHANGED <<bill, refunds, events>>

\* The movement out of the undeposited funds; a failure is logged.
HookPosts(k) ==
    /\ job[k].at = "post"
    /\ \/ rows' = [rows EXCEPT ![job[k].row].moved = @ + 1]
       \/ UNCHANGED rows
    /\ Does(k, Idle)
    /\ UNCHANGED <<bill, refunds, events>>

HookFails(k) ==
    /\ job[k].at = "fail"
    /\ rows' = [rows EXCEPT ![job[k].row].status = "failed"]
    /\ Does(k, Idle)
    /\ UNCHANGED <<bill, refunds, events>>

\* An exception, a timeout or a restart.
HandlerDies(h) ==
    /\ job[h] # Idle
    /\ Does(h, Idle)
    /\ UNCHANGED <<bill, rows, refunds, events>>

----------------------------------------------------------------------------
DeskStep(h) ==
    \/ \E n \in Amounts : PaymentRequested(h, n) \/ ReturnRequested(h, n)
    \/ PaymentTaken(h) \/ Returned(h)

CancelStep(h) ==
    \/ \E fee \in Fees, how \in {"desk", "paymongo"} : CancelRequested(h, fee, how)
    \/ RefundAsked(h) \/ RefundRecorded(h) \/ FailureRecorded(h)
    \/ CancelDecided(h) \/ CancelCommitted(h)
    \/ NoShowDecided(h) \/ NoShowCommitted(h)

HookStep(k) ==
    \/ \E e \in events : HookReads(k, e)
    \/ HookConfirms(k) \/ HookPosts(k) \/ HookFails(k)

Next ==
    \/ \E h \in Staff : DeskStep(h) \/ CancelStep(h)
    \/ \E i \in DOMAIN rows : PaymentVoided(i)
    \/ FolioOpened \/ ChargeAdded \/ ChargeVoided
    \/ \E n \in DOMAIN refunds : RefundSettles(n)
    \/ \E k \in Hooks : HookStep(k)
    \/ \E h \in Handlers : HandlerDies(h)

Spec == Init /\ [][Next]_vars

----------------------------------------------------------------------------
TypeOK ==
    /\ booking \in {"confirmed", "cancelled", "no_show"}
    /\ folio \in {"none", "open", "closed"}
    /\ extra \in {"none", "charged", "voided"}
    /\ settled \in Seq(Int)
    /\ rows \in Seq(Row)
    /\ refunds \in Seq(Refund)
    /\ events \subseteq [refund : DOMAIN refunds, status : {"succeeded", "failed"}]
    /\ job \in [Handlers -> Job]

\* However many cancellations and no-shows of a booking run at once, one of them ends it: the
\* folio gets at most one settlement, a cancellation pays out at most once by hand, and neither
\* before the booking has ended (cancellation.ts, the lock and the guarded flip).
SettledOnce ==
    LET payouts == {i \in DOMAIN rows : rows[i].what = "cancellation"}
    IN /\ Len(settled) <= 1
       /\ \A i, k \in payouts : i = k
       /\ settled # <<>> => booking # "confirmed"
       /\ payouts # {} => booking = "cancelled"

\* Whatever is lost, repeated or late, a refund on the books is a refund PayMongo was asked for,
\* of the same payment and amount and under no other row; one that the guest has to claim is
\* shown as paid only when it was (refundOrderViaPaymongo, the refund events).
RefundsAreReal ==
    \A i \in DOMAIN rows : rows[i].what = "refund" =>
        LET r == rows[i]
        IN /\ r.refund \in DOMAIN refunds
           /\ r.origin = refunds[r.refund].origin /\ r.amount = -refunds[r.refund].amount
           /\ \A k \in DOMAIN rows : rows[k].refund = r.refund => k = i
           /\ r.origin \in QrPh /\ r.status = "paid" => refunds[r.refund].status = "succeeded"

\* While refund events are handled one at a time, a refund leaves the hotel's account once at
\* most, and not before PayMongo reports it when the guest has to claim it
\* (webhook-handler.ts:218-300).
LeavesOnce ==
    \A i \in DOMAIN rows :
        /\ rows[i].moved <= 1
        /\ rows[i].moved = 1 /\ rows[i].origin \in QrPh =>
               refunds[rows[i].refund].status = "succeeded"

\* h ends the booking, with nobody refunding elsewhere, and the ledger is still as h read it.
Ends(h) ==
    /\ job'[h] # job[h] /\ booking' # booking
    /\ job[h].at = "no_show" \/ (job[h].at = "cancel" /\ job[h].how = "desk")
    /\ job[h].charges = Charges /\ job[h].paid = Paid

\* A cancellation by hand, or a no-show, whose ledger is still the one it read leaves nothing
\* owed and no credit on the folio, whatever fee was entered and whatever was charged, voided
\* or paid before: "a negative folio adjustment brings the folio back to zero"
\* (cancellation.ts:411-415).
EndSettlesFolio ==
    [][\A h \in Staff : Ends(h) /\ folio' # "none" => Balance' = AtLeastZero(-Paid)]_vars

----------------------------------------------------------------------------
\* What the code says of itself and does not keep.

\* "Try again" (paymongo-refund.ts:220): a refund that failed leaves its payment refundable.
FailureCanBeRetried ==
    \A o \in Online :
        Remaining(o) = AtLeastZero(Deposit - Total([i \in DOMAIN rows |->
            IF rows[i].what = "refund" /\ rows[i].origin = o /\ rows[i].status # "failed"
            THEN -rows[i].amount ELSE 0]))

\* "whatever already succeeded stays recorded rather than lost" (paymongo-refund.ts:116-117).
RefundsStayRecorded ==
    \A n \in DOMAIN refunds :
        \/ \E i \in DOMAIN rows : rows[i].refund = n
        \/ \E h \in Staff : job[h].at \in {"record", "record_failed"} /\ job[h].row = n

\* "the room shows neither a refund due nor a balance owed" (cancellation.ts:821-825), also when
\* the stay was paid in full and nobody has opened its folio.
NoShowOwesNothing ==
    [][\A h \in Staff : Ends(h) /\ booking' = "no_show" => Balance' = AtLeastZero(-Paid)]_vars

\* A payment "may be anything from 1 centavo up to the current balance" (payments.ts:200-204).
PaymentWithinBalance ==
    [][\A h \in Staff : job[h].at = "pay" /\ rows' # rows /\ job'[h] # job[h] =>
          job[h].amount <= Balance]_vars
=============================================================================
