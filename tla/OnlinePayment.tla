--------------------------- MODULE OnlinePayment ---------------------------
(***************************************************************************)
(* One booking order of the hotel, from its unpaid hold to confirmation or *)
(* release: the hosted checkouts the guest pays through, and every handler *)
(* that may decide the order's fate at the same time.                      *)
(*                                                                         *)
(*   webhook   lib/server/paymongo/webhook-handler.ts, confirm-room-...    *)
(*   worker    the one-minute verify job and a page load (verify.ts)       *)
(*   sweeper   expirePendingOrders (orders.ts)                             *)
(*   guest     the review page's "pay" action                              *)
(*   desk      manuallyConfirmOrder (status-override.ts)                   *)
(*   clerk     cancelBooking (cancellation.ts), one line at a time         *)
(*                                                                         *)
(* The database is PostgreSQL at READ COMMITTED.  A transaction is two     *)
(* steps: what it READ first, and its writes with the commit.  A guarded   *)
(* UPDATE re-evaluates its WHERE against committed rows, so it belongs to  *)
(* the second step; a plain SELECT belongs to the first and may be stale.  *)
(* The tx of cancelBooking keeps a row lock while it reads sibling rows,   *)
(* so it has a step of its own between the two.                            *)
(***************************************************************************)
EXTENDS FiniteSets

CONSTANTS
    Lines,       \* the order's bookings (room or hall lines)
    Sessions,    \* checkout sessions PayMongo may create for this order
    NoSession,
    Webhooks, Workers, Sweepers, Guests, Desks, Clerks   \* request handlers

ASSUME NoSessionAssumption == NoSession \notin Sessions

ASSUME HandlersAssumption ==
    /\ Webhooks \cap (Workers \cup Sweepers \cup Guests) = {}
    /\ Workers \cap (Sweepers \cup Guests) = {}
    /\ Sweepers \cap Guests = {}
    /\ Sessions \cap Desks = {}

VARIABLES
    order,      \* orders.status
    line,       \* bookings.status of each line
    latest,     \* orders.paymongo_checkout_session_id
    attempt,    \* payment_attempts.status per session, "none" when no row
    payments,   \* paid PayMongo rows of payments
    deskPaid,   \* lines with a settlement recorded at the desk
    settled,    \* lines whose cancellation refunded or kept the money
    flagged,    \* sessions noted "refund required" in the order's history
    announced,  \* who reported confirmedNow (and mailed the confirmation)
    gateway,    \* PayMongo's own record of each session
    link,       \* sessions whose checkout URL reached the guest
    job,        \* progress of webhooks, workers, sweepers and guests
    desk,       \* progress of manual confirmations
    clerk       \* progress of cancellations

records == <<order, line, latest, attempt, payments, deskPaid, settled,
             flagged, announced>>
vars == <<records, gateway, link, job, desk, clerk>>

Checkers == Workers \cup Sweepers \cup Guests
Handlers == Webhooks \cup Checkers

OrderStatus   == {"pending_payment", "confirmed", "cancelled"}
AttemptStatus == {"none", "open", "paid", "expired"}
Routes        == {"webhook", "reconcile"}

PaymentRow == [session : Sessions, event : Routes]

Job == [pc : {"idle", "ask", "commit", "resolve", "close", "kill",
              "supersede", "create", "bind", "record"},
        cur : Sessions \cup {NoSession}, seen : OrderStatus,
        todo : SUBSET Sessions, sibs : SUBSET Sessions,
        paid : BOOLEAN, unknown : BOOLEAN, hold : Sessions \cup {NoSession}]

DeskJob == [pc : {"idle", "take"}, pend : SUBSET Lines, todo : SUBSET Lines]

ClerkJob == [pc : {"idle", "opened", "flipped", "kill"}, on : SUBSET Lines,
             seen : OrderStatus, live : BOOLEAN,
             hold : Sessions \cup {NoSession}]

IdleJob == [pc |-> "idle", cur |-> NoSession, seen |-> "pending_payment",
            todo |-> {}, sibs |-> {}, paid |-> FALSE, unknown |-> FALSE,
            hold |-> NoSession]
IdleDesk == [pc |-> "idle", pend |-> {}, todo |-> {}]
IdleClerk == [pc |-> "idle", on |-> {}, seen |-> "pending_payment",
              live |-> FALSE, hold |-> NoSession]

Init ==
    /\ order = "pending_payment"
    /\ line = [l \in Lines |-> "pending_payment"]
    /\ latest = NoSession
    /\ attempt = [s \in Sessions |-> "none"]
    /\ payments = {} /\ deskPaid = {} /\ settled = {}
    /\ flagged = {} /\ announced = {}
    /\ gateway = [s \in Sessions |-> "none"]
    /\ link = {}
    /\ job = [p \in Handlers |-> IdleJob]
    /\ desk = [d \in Desks |-> IdleDesk]
    /\ clerk = [c \in Clerks |-> IdleClerk]

-----------------------------------------------------------------------------
(* Shared vocabulary *)

Recorded(s) == \E row \in payments : row.session = s

Open == {s \in Sessions : attempt[s] = "open"}

PendingLines == {l \in Lines : line[l] = "pending_payment"}

(* Lines whose row a cancellation has updated but not yet committed. *)
Held == UNION {clerk[c].on : c \in {d \in Clerks : clerk[d].pc = "flipped"}}

(* Every still-pending line takes the status; the others are left alone. *)
PendingBecome(status) ==
    [l \in Lines |-> IF l \in PendingLines THEN status ELSE line[l]]

Set(p, r) == job' = [job EXCEPT ![p] = r]

(* PayMongo refuses to expire a paid session, and the call is best-effort. *)
TryExpire(s) ==
    \/ gateway' = [gateway EXCEPT ![s] = IF @ = "active" THEN "expired" ELSE @]
    \/ UNCHANGED gateway

-----------------------------------------------------------------------------
(* PayMongo and the guest's browser *)

GuestPays(s) ==
    /\ s \in link
    /\ gateway[s] = "active"
    /\ gateway' = [gateway EXCEPT ![s] = "paid"]
    /\ UNCHANGED <<records, link, job, desk, clerk>>

SessionLapses(s) ==
    /\ gateway[s] = "active"
    /\ gateway' = [gateway EXCEPT ![s] = "expired"]
    /\ UNCHANGED <<records, link, job, desk, clerk>>

-----------------------------------------------------------------------------
(* confirmRoomPayment: one transaction, entered by the webhook and by every *)
(* checker.  The order is read first; "commit" holds what was seen.         *)

(* checkout_session.payment.paid arrives, possibly late, twice or never. *)
WebhookArrives(w, s) ==
    /\ job[w].pc = "idle"
    /\ gateway[s] = "paid"
    /\ ~Recorded(s)
    /\ Set(w, [IdleJob EXCEPT !.pc = "commit", !.cur = s, !.seen = order])
    /\ UNCHANGED <<records, gateway, link, desk, clerk>>

(* The three ways the transaction ends once the payment row is in. *)
FlagForRefund(p) ==
    /\ job[p].seen = "cancelled"
    /\ flagged' = flagged \cup {job[p].cur}
    /\ UNCHANGED <<order, line, announced>>

LeaveOrder(p) ==
    /\ job[p].seen = "confirmed"
    /\ UNCHANGED <<order, line, announced, flagged>>

(* Mutant: the order is updated by id alone. *)
AdvanceAnyOrder(p) ==
    /\ job[p].seen = "pending_payment"
    /\ PendingLines \cap Held = {}
    /\ order' = "confirmed"
    /\ line' = PendingBecome("confirmed")
    /\ announced' = announced \cup {job[p].cur}
    /\ UNCHANGED flagged

(* The guarded update may match no row; its result is not looked at. *)
AdvanceOrder(p) ==
    /\ job[p].seen = "pending_payment"
    /\ PendingLines \cap Held = {}
    /\ order' = IF order = "pending_payment" THEN "confirmed" ELSE order
    /\ line' = PendingBecome("confirmed")
    /\ announced' = announced \cup {job[p].cur}
    /\ UNCHANGED flagged

(* Mutant: no unique index behind the earlier existence check. *)
InsertUnchecked(p) ==
    payments' = payments \cup
        {[session |-> job[p].cur,
          event |-> IF p \in Webhooks THEN "webhook" ELSE "reconcile"]}

(* Unique indexes on payments: one paid row per PayMongo payment. *)
InsertPayment(p) ==
    /\ ~Recorded(job[p].cur)
    /\ payments' = payments \cup
          {[session |-> job[p].cur,
            event |-> IF p \in Webhooks THEN "webhook" ELSE "reconcile"]}

AfterCommit(p) ==
    IF p \in Webhooks THEN IdleJob ELSE [job[p] EXCEPT !.pc = "resolve"]

CommitPayment(p) ==
    /\ job[p].pc = "commit"
    /\ InsertPayment(p)
    /\ FlagForRefund(p) \/ LeaveOrder(p) \/ AdvanceOrder(p)
    /\ Set(p, AfterCommit(p))
    /\ UNCHANGED <<latest, attempt, deskPaid, settled, gateway, link, desk,
                   clerk>>

(* Mutant: the attempt is resolved although recording failed. *)
ResolvedUnrecorded(p) ==
    /\ job[p].pc = "commit"
    /\ Set(p, AfterCommit(p))
    /\ UNCHANGED <<records, gateway, link, desk, clerk>>

(* The transaction aborts: a unique violation, a deadlock, a lost database *)
(* connection.  PayMongo redelivers; a checker leaves the attempt open.    *)
PaymentNotRecorded(p) ==
    /\ job[p].pc = "commit"
    /\ Set(p, IF p \in Webhooks THEN IdleJob
              ELSE [job[p] EXCEPT !.pc = "ask", !.cur = NoSession,
                                  !.seen = "pending_payment",
                                  !.unknown = TRUE, !.todo = @ \ {job[p].cur}])
    /\ UNCHANGED <<records, gateway, link, desk, clerk>>

-----------------------------------------------------------------------------
(* verifyAttempt, over the attempts a checker has claimed ("todo") *)

(* The row was resolved by somebody else in the meantime. *)
AlreadyResolved(p, s) ==
    /\ attempt[s] # "open"
    /\ Set(p, [job[p] EXCEPT !.todo = @ \ {s},
                             !.paid = @ \/ attempt[s] = "paid"])
    /\ UNCHANGED attempt

AnswerUnpaid(p, s) ==
    /\ attempt[s] = "open"
    /\ gateway[s] # "paid"
    /\ attempt' = IF gateway[s] = "active" THEN attempt
                  ELSE [attempt EXCEPT ![s] = "expired"]
    /\ Set(p, [job[p] EXCEPT !.todo = @ \ {s}])

(* Mutant: trusts the session's own status, still "active" once paid. *)
AnswerByStatus(p, s) ==
    /\ attempt[s] = "open"
    /\ gateway[s] = "paid"
    /\ Set(p, [job[p] EXCEPT !.todo = @ \ {s}])
    /\ UNCHANGED attempt

AnswerPaid(p, s) ==
    /\ attempt[s] = "open"
    /\ gateway[s] = "paid"
    /\ Set(p, [job[p] EXCEPT !.cur = s,
                 !.pc = IF Recorded(s) THEN "resolve" ELSE "commit",
                 !.seen = IF Recorded(s) THEN @ ELSE order])
    /\ UNCHANGED attempt

NoAnswer(p, s) ==
    /\ attempt[s] = "open"
    /\ Set(p, [job[p] EXCEPT !.todo = @ \ {s}, !.unknown = TRUE])
    /\ UNCHANGED attempt

Answered(p, s) ==
    AlreadyResolved(p, s) \/ AnswerUnpaid(p, s) \/ AnswerPaid(p, s)

Ask(p, s) ==
    /\ job[p].pc = "ask"
    /\ s \in job[p].todo
    /\ Answered(p, s) \/ NoAnswer(p, s)
    /\ UNCHANGED <<order, line, latest, payments, deskPaid, settled, flagged,
                   announced, gateway, link, desk, clerk>>

(* Where a checker goes once the attempts in "sibs" are closed. *)
AfterClosing(r) ==
    IF r.sibs # {} THEN r
    ELSE IF r.pc = "supersede" THEN [r EXCEPT !.pc = "create"]
    ELSE [r EXCEPT !.pc = "ask", !.cur = NoSession,
                   !.seen = "pending_payment", !.todo = @ \ {r.cur},
                   !.paid = TRUE]

ResolvePaid(p) ==
    /\ job[p].pc = "resolve"
    /\ attempt' = [attempt EXCEPT ![job[p].cur] = "paid"]
    /\ Set(p, AfterClosing([job[p] EXCEPT !.pc = "close",
                                          !.sibs = Open \ {job[p].cur}]))
    /\ UNCHANGED <<order, line, latest, payments, deskPaid, settled, flagged,
                   announced, gateway, link, desk, clerk>>

(* closeSiblings and supersedeOpenAttempts: whatever PayMongo answers, the *)
(* row is set to expired by id alone.                                      *)
CloseAttempt(p, s) ==
    /\ job[p].pc \in {"close", "supersede"}
    /\ s \in job[p].sibs
    /\ TryExpire(s)
    /\ attempt' = [attempt EXCEPT ![s] = "expired"]
    /\ Set(p, AfterClosing([job[p] EXCEPT !.sibs = @ \ {s}]))
    /\ UNCHANGED <<order, line, latest, payments, deskPaid, settled, flagged,
                   announced, link, desk, clerk>>

Asked(p) == job[p].pc = "ask" /\ job[p].todo = {}

-----------------------------------------------------------------------------
(* runPaymentVerify: "old" are attempts a cancelled order has had open for  *)
(* a week, "due" the ones whose next look has come.  A page load checks the *)
(* same way (verifyOrderNow).                                               *)

WorkerStarts(w, old, due) ==
    /\ job[w].pc = "idle"
    /\ old \subseteq Open /\ due \subseteq Open \ old
    /\ old # {} => order = "cancelled"
    /\ attempt' = [s \in Sessions |-> IF s \in old THEN "expired" ELSE attempt[s]]
    /\ Set(w, [IdleJob EXCEPT !.pc = "ask", !.todo = due])
    /\ UNCHANGED <<order, line, latest, payments, deskPaid, settled, flagged,
                   announced, gateway, link, desk, clerk>>

WorkerEnds(w) ==
    /\ Asked(w)
    /\ Set(w, IdleJob)
    /\ UNCHANGED <<records, gateway, link, desk, clerk>>

-----------------------------------------------------------------------------
(* expirePendingOrders, once the hold is older than the TTL *)

SweepSelects(p) ==
    /\ job[p].pc = "idle"
    /\ order = "pending_payment"
    /\ Set(p, [IdleJob EXCEPT !.pc = "ask", !.todo = Open, !.hold = latest])
    /\ UNCHANGED <<records, gateway, link, desk, clerk>>

(* A payment was found, PayMongo could not be asked, or the guarded update *)
(* found the order decided by somebody else.                               *)
SweepKeeps(p) ==
    /\ Asked(p)
    /\ job[p].paid \/ job[p].unknown \/ order # "pending_payment"
    /\ Set(p, IdleJob)
    /\ UNCHANGED <<records, gateway, link, desk, clerk>>

(* Mutant: the release does not cascade to the lines. *)
SweepReleasesOrderOnly(p) ==
    /\ Asked(p)
    /\ ~job[p].paid
    /\ order = "pending_payment"
    /\ order' = "cancelled"
    /\ Set(p, IdleJob)
    /\ UNCHANGED <<line, latest, attempt, payments, deskPaid, settled, flagged,
                   announced, gateway, link, desk, clerk>>

(* An unanswered check does not hold the room for more than a day. *)
SweepReleases(p) ==
    /\ Asked(p)
    /\ ~job[p].paid
    /\ order = "pending_payment"
    /\ PendingLines \cap Held = {}
    /\ order' = "cancelled"
    /\ line' = PendingBecome("cancelled")
    /\ Set(p, IF job[p].hold = NoSession THEN IdleJob
              ELSE [IdleJob EXCEPT !.pc = "kill", !.hold = job[p].hold])
    /\ UNCHANGED <<latest, attempt, payments, deskPaid, settled, flagged,
                   announced, gateway, link, desk, clerk>>

SweepKillsSession(p) ==
    /\ job[p].pc = "kill"
    /\ TryExpire(job[p].hold)
    /\ Set(p, IdleJob)
    /\ UNCHANGED <<records, link, desk, clerk>>

-----------------------------------------------------------------------------
(* The review page's pay action *)

PayRequested(g) ==
    /\ job[g].pc = "idle"
    /\ order = "pending_payment"
    /\ Set(g, [IdleJob EXCEPT !.pc = "ask", !.todo = Open])
    /\ UNCHANGED <<records, gateway, link, desk, clerk>>

(* Already paid, or sent back to a link that still works for this amount. *)
PayRedirected(g) ==
    /\ Asked(g)
    /\ job[g].paid \/ \E s \in Open : gateway[s] = "active"
    /\ Set(g, IdleJob)
    /\ UNCHANGED <<records, gateway, link, desk, clerk>>

(* Another amount, or the old link could not be looked up. *)
PaySupersedes(g) ==
    /\ Asked(g)
    /\ ~job[g].paid
    /\ Set(g, AfterClosing([job[g] EXCEPT !.pc = "supersede", !.sibs = Open]))
    /\ UNCHANGED <<records, gateway, link, desk, clerk>>

(* Mutant: the guest is sent to the checkout before its row is written. *)
CreateAndRedirect(g, s) ==
    /\ job[g].pc = "create"
    /\ gateway[s] = "none"
    /\ gateway' = [gateway EXCEPT ![s] = "active"]
    /\ link' = link \cup {s}
    /\ Set(g, [IdleJob EXCEPT !.pc = "bind", !.cur = s])
    /\ UNCHANGED <<records, desk, clerk>>

CreateSession(g, s) ==
    /\ job[g].pc = "create"
    /\ gateway[s] = "none"
    /\ gateway' = [gateway EXCEPT ![s] = "active"]
    /\ Set(g, [IdleJob EXCEPT !.pc = "bind", !.cur = s])
    /\ UNCHANGED <<records, link, desk, clerk>>

BindSession(g) ==
    /\ job[g].pc = "bind"
    /\ latest' = job[g].cur
    /\ Set(g, [job[g] EXCEPT !.pc = "record"])
    /\ UNCHANGED <<order, line, attempt, payments, deskPaid, settled, flagged,
                   announced, gateway, link, desk, clerk>>

(* Mutant: the row is written before PayMongo has handed back a session. *)
RecordEarly(g) ==
    /\ job[g].pc \in {"create", "record"}
    /\ attempt' = [attempt EXCEPT ![job[g].cur] = "open"]
    /\ link' = link \cup {job[g].cur}
    /\ Set(g, IdleJob)
    /\ UNCHANGED <<order, line, latest, payments, deskPaid, settled, flagged,
                   announced, gateway, desk, clerk>>

(* recordAttempt, then the redirect that hands the guest the URL. *)
RecordAttempt(g) ==
    /\ job[g].pc = "record"
    /\ attempt' = [attempt EXCEPT ![job[g].cur] = "open"]
    /\ link' = link \cup {job[g].cur}
    /\ Set(g, IdleJob)
    /\ UNCHANGED <<order, line, latest, payments, deskPaid, settled, flagged,
                   announced, gateway, desk, clerk>>

(* A restart or an exception anywhere drops the handler and its open        *)
(* transaction; committed rows and PayMongo's records stay.                 *)
HandlerDies(p) ==
    /\ job[p].pc # "idle"
    /\ Set(p, IdleJob)
    /\ UNCHANGED <<records, gateway, link, desk, clerk>>

-----------------------------------------------------------------------------
(* manuallyConfirmOrder: payments line by line, then one flip *)

(* Mutant: the status flip comes first, the payments are left for later. *)
DeskFlipsFirst(d) ==
    /\ desk[d].pc = "idle"
    /\ order = "pending_payment"
    /\ PendingLines # {}
    /\ desk' = [desk EXCEPT ![d] = [pc |-> "take", pend |-> PendingLines,
                                    todo |-> {}]]
    /\ UNCHANGED <<records, gateway, link, job, clerk>>

DeskStarts(d) ==
    /\ desk[d].pc = "idle"
    /\ order = "pending_payment"
    /\ PendingLines # {}
    /\ desk' = [desk EXCEPT ![d] = [pc |-> "take", pend |-> PendingLines,
                                    todo |-> PendingLines]]
    /\ UNCHANGED <<records, gateway, link, job, clerk>>

(* recordPayment refuses more than the line's balance: the whole total can *)
(* be taken only while nothing has been paid towards the line.             *)
OwesTotal(l) == l \notin deskPaid /\ payments = {}

DeskTakesPayment(d, l) ==
    /\ l \in desk[d].todo
    /\ OwesTotal(l)
    /\ deskPaid' = deskPaid \cup {l}
    /\ desk' = [desk EXCEPT ![d].todo = @ \ {l}]
    /\ UNCHANGED <<order, line, latest, attempt, payments, settled, flagged,
                   announced, gateway, link, job, clerk>>

DeskConfirms(d) ==
    /\ desk[d].pc = "take" /\ desk[d].todo = {}
    /\ order = "pending_payment"
    /\ desk[d].pend \subseteq PendingLines \ Held
    /\ order' = "confirmed"
    /\ line' = [l \in Lines |-> IF l \in desk[d].pend THEN "confirmed" ELSE line[l]]
    /\ announced' = announced \cup {d}
    /\ desk' = [desk EXCEPT ![d] = IdleDesk]
    /\ UNCHANGED <<latest, attempt, payments, deskPaid, settled, flagged,
                   gateway, link, job, clerk>>

(* No account or shift, no balance left, or something changed underneath:   *)
(* an error for the clerk.  Payments already taken stay.                    *)
DeskFails(d) ==
    /\ desk[d].pc = "take"
    /\ desk' = [desk EXCEPT ![d] = IdleDesk]
    /\ UNCHANGED <<records, gateway, link, job, clerk>>

-----------------------------------------------------------------------------
(* cancelBooking, under the advisory lock of its own line *)

CancelOpens(c, l) ==
    /\ clerk[c].pc = "idle"
    /\ \A d \in Clerks : clerk[d].pc \in {"opened", "flipped"} => l \notin clerk[d].on
    /\ clerk' = [clerk EXCEPT ![c] = [pc |-> "opened", on |-> {l},
                     seen |-> order, live |-> FALSE, hold |-> latest]]
    /\ UNCHANGED <<records, gateway, link, job, desk>>

(* The line is read and flipped; siblings are read as committed. *)
CancelFlips(c) ==
    /\ clerk[c].pc = "opened"
    /\ \A l \in clerk[c].on : line[l] \in {"pending_payment", "confirmed"}
    /\ clerk' = [clerk EXCEPT ![c].pc = "flipped",
                     ![c].live = \E l \in Lines \ clerk[c].on : line[l] # "cancelled"]
    /\ UNCHANGED <<records, gateway, link, job, desk>>

CancelCommits(c) ==
    /\ clerk[c].pc = "flipped"
    /\ line' = [l \in Lines |-> IF l \in clerk[c].on THEN "cancelled" ELSE line[l]]
    /\ order' = IF clerk[c].live \/ clerk[c].seen = "cancelled" THEN order ELSE "cancelled"
    /\ settled' = IF clerk[c].seen = "confirmed" THEN settled \cup clerk[c].on
                  ELSE settled
    /\ clerk' = [clerk EXCEPT ![c] =
                   IF clerk[c].seen = "pending_payment" /\ clerk[c].hold # NoSession
                   THEN [IdleClerk EXCEPT !.pc = "kill", !.hold = clerk[c].hold]
                   ELSE IdleClerk]
    /\ UNCHANGED <<latest, attempt, payments, deskPaid, flagged, announced,
                   gateway, link, job, desk>>

CancelKillsSession(c) ==
    /\ clerk[c].pc = "kill"
    /\ TryExpire(clerk[c].hold)
    /\ clerk' = [clerk EXCEPT ![c] = IdleClerk]
    /\ UNCHANGED <<records, link, job, desk>>

(* Refused, deadlocked or crashed: the transaction is rolled back. *)
CancelFails(c) ==
    /\ clerk[c].pc # "idle"
    /\ clerk' = [clerk EXCEPT ![c] = IdleClerk]
    /\ UNCHANGED <<records, gateway, link, job, desk>>

-----------------------------------------------------------------------------
Gateway == \E s \in Sessions : GuestPays(s) \/ SessionLapses(s)

Checker(p) ==
    \/ \E s \in Sessions : Ask(p, s) \/ CloseAttempt(p, s)
    \/ ResolvePaid(p)

Recording(p) == CommitPayment(p) \/ PaymentNotRecorded(p) \/ HandlerDies(p)

Webhook(w) == \E s \in Sessions : WebhookArrives(w, s)

Worker(w) ==
    \/ \E old, due \in SUBSET Sessions : WorkerStarts(w, old, due)
    \/ WorkerEnds(w)

Sweep(p) ==
    SweepSelects(p) \/ SweepKeeps(p) \/ SweepReleases(p) \/ SweepKillsSession(p)

Pay(g) ==
    \/ PayRequested(g) \/ PayRedirected(g) \/ PaySupersedes(g)
    \/ \E s \in Sessions : CreateSession(g, s)
    \/ BindSession(g) \/ RecordAttempt(g)

ManualConfirm(d) ==
    \/ DeskStarts(d) \/ DeskConfirms(d) \/ DeskFails(d)
    \/ \E l \in Lines : DeskTakesPayment(d, l)

Cancel(c) ==
    \/ \E l \in Lines : CancelOpens(c, l)
    \/ CancelFlips(c) \/ CancelCommits(c) \/ CancelKillsSession(c) \/ CancelFails(c)

Next ==
    \/ Gateway
    \/ \E p \in Handlers : Recording(p)
    \/ \E p \in Checkers : Checker(p)
    \/ \E w \in Webhooks : Webhook(w)
    \/ \E w \in Workers : Worker(w)
    \/ \E p \in Sweepers : Sweep(p)
    \/ \E g \in Guests : Pay(g)
    \/ \E d \in Desks : ManualConfirm(d)
    \/ \E c \in Clerks : Cancel(c)

Spec == Init /\ [][Next]_vars

(* The worker job is a recurring pg-boss job: it keeps being started, an     *)
(* attempt's nextCheckAt is at most 15 minutes away, and PayMongo and the    *)
(* database answer again and again even if they fail in between.  A         *)
(* transaction that cannot commit is aborted, it does not hang.             *)
WorkerFairness ==
    \A w \in Workers :
        /\ WF_vars(WorkerEnds(w))
        /\ SF_vars(ResolvePaid(w))
        /\ SF_vars(CommitPayment(w))
        /\ WF_vars(PaymentNotRecorded(w))
        /\ \A s \in Sessions :
              /\ SF_vars(\E due \in SUBSET Sessions : s \in due /\ WorkerStarts(w, {}, due))
              /\ SF_vars(Ask(w, s) /\ Answered(w, s))
              /\ SF_vars(CloseAttempt(w, s))

FairSpec == Spec /\ WorkerFairness

-----------------------------------------------------------------------------
(* What must hold *)

TypeOK ==
    /\ order \in OrderStatus
    /\ line \in [Lines -> OrderStatus]
    /\ latest \in Sessions \cup {NoSession}
    /\ attempt \in [Sessions -> AttemptStatus]
    /\ payments \subseteq PaymentRow
    /\ deskPaid \subseteq Lines /\ settled \subseteq Lines
    /\ flagged \subseteq Sessions
    /\ announced \subseteq Sessions \cup Desks
    /\ gateway \in [Sessions -> {"none", "active", "expired", "paid"}]
    /\ link \subseteq Sessions
    /\ job \in [Handlers -> Job]
    /\ desk \in [Desks -> DeskJob]
    /\ clerk \in [Clerks -> ClerkJob]

(* The order and its lines never disagree, whichever handlers interleave: a *)
(* released order keeps no room, a confirmed one leaves no line unpaid, an  *)
(* unpaid one has no confirmed line (confirm-room-payment.ts:203,           *)
(* orders.ts:119, cancellation.ts:740).                                     *)
LinesAgree ==
    \A l \in Lines :
        /\ order = "pending_payment" => line[l] # "confirmed"
        /\ order = "confirmed" => line[l] # "pending_payment"
        /\ order = "cancelled" => line[l] = "cancelled"

(* A line is only ever confirmed with money on file for it: an online       *)
(* payment for the order, or the desk's own settlement of that line         *)
(* (status-override.ts:44, "Payments are recorded before the status flip"). *)
ConfirmedIsBacked ==
    \A l \in Lines : line[l] = "confirmed" => payments # {} \/ l \in deskPaid

(* However many routes and retries find it, a PayMongo payment is recorded  *)
(* once, and nothing is recorded that PayMongo did not take                 *)
(* (confirm-room-payment.ts:26-29, schema/bookings.ts:318).                 *)
RecordedOnce ==
    \A row \in payments :
        /\ gateway[row.session] = "paid"
        /\ \A other \in payments : other.session = row.session => other = row

(* No payment exists at PayMongo without an attempt row that says whose it  *)
(* is, even though the session is created before the row and the server may *)
(* stop in between (attempts.ts:7-8).                                       *)
PaidHasRow == \A s \in Sessions : gateway[s] = "paid" => attempt[s] # "none"

(* An attempt marked paid has its payment in the books: it is never closed  *)
(* on the strength of an answer whose recording failed (verify.ts:201-219,  *)
(* schema/payment-attempts.ts:14).                                          *)
PaidAttemptIsRecorded == \A s \in Sessions : attempt[s] = "paid" => Recorded(s)

Receipt == [kind : {"online"}, on : PaymentRow] \cup [kind : {"desk"}, on : Lines]

Promise == INSTANCE OrderLifecycle WITH
    Receipts <- Receipt,
    money <- {[kind |-> "online", on |-> row] : row \in payments}
                 \cup {[kind |-> "desk", on |-> l] : l \in deskPaid}

(* Every handler's every step is one of the moves an order may make: it is   *)
(* confirmed as a whole and only with money, a released or cancelled line    *)
(* never comes back to life through a late payment or confirmation, and the  *)
(* order is cancelled only with its last line.                               *)
KeepsPromise == Promise!Lifecycle

(* A payment the hotel still watches for is in the books in the end though   *)
(* no webhook ever comes, servers die and PayMongo is often unreachable      *)
(* (verify.ts:12-14, 313-315), unless the attempt is closed as superseded or *)
(* as a week-old one of a cancelled order.                                   *)
WatchedIsRecorded ==
    \A s \in Sessions :
        gateway[s] = "paid" ~> (Recorded(s) \/ attempt[s] = "expired")

-----------------------------------------------------------------------------
(* What the repository says of itself and the code does not keep *)

(* "Never gives up on one that can still be paid" (verify.ts:20): while the  *)
(* order waits for payment, an attempt is only closed when its session is    *)
(* dead or its payment is in the books.                                      *)
NeverGivesUp ==
    order = "pending_payment" =>
        \A s \in Sessions : attempt[s] = "expired" =>
            gateway[s] = "expired" \/ Recorded(s)

(* A payment landing on a cancelled order is flagged for a staff refund      *)
(* (confirm-room-payment.ts:169-172).                                        *)
LateMoneyIsFlagged ==
    [][ payments' # payments /\ order = "cancelled" => flagged' # flagged ]_vars

(* confirmedNow is returned by the delivery that flipped the order, and so   *)
(* the confirmation goes out once (confirm-room-payment.ts:44-45).           *)
AnnouncedByConfirmer ==
    [][ announced' # announced => order # "confirmed" /\ order' = "confirmed" ]_vars

(* A manual confirmation that failed half way can be retried                 *)
(* (status-override.ts:45-46): no line still to be confirmed is left in a    *)
(* state that its own payment step refuses.                                  *)
ManualConfirmCanBeRetried ==
    (order = "pending_payment" /\ \A d \in Desks : desk[d].pc = "idle") =>
        \A l \in PendingLines : l \notin deskPaid

(* The order is cancelled "once no live line remains" (cancellation.ts:411). *)
OrderDiesWithItsLines ==
    (\A l \in Lines : line[l] = "cancelled") => order = "cancelled"

(* Cancelling a paid line settles its money (cancellation.ts:412-414).       *)
PaidCancellationSettles ==
    [][ \A l \in Lines :
          line[l] = "confirmed" /\ line'[l] = "cancelled" => l \in settled' ]_vars
=============================================================================
