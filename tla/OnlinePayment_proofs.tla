------------------------ MODULE OnlinePayment_proofs ------------------------
(***************************************************************************)
(* Proofs about OnlinePayment for any number of lines, sessions and        *)
(* concurrent handlers.                                                    *)
(***************************************************************************)
EXTENDS OnlinePayment, TLAPS

(* A transaction about to record or to resolve is about a session PayMongo *)
(* reports as paid, and resolves only what is in the books.                *)
Sound(r) ==
    /\ r.pc \in {"commit", "resolve"} => r.cur \in Sessions /\ gateway[r.cur] = "paid"
    /\ r.pc = "resolve" => Recorded(r.cur)
    /\ r.pc \in {"bind", "record"} => r.cur \in Sessions

HandlersSound == \A p \in Handlers : Sound(job[p])

(* The guest only holds links to sessions that have a row. *)
LinksHaveRows == \A s \in link : attempt[s] # "none"

(* A manual confirmation knows of every line still pending, and has taken   *)
(* the payment of those it has ticked off.                                  *)
DesksSound ==
    \A d \in Desks : desk[d].pc = "take" =>
        /\ PendingLines \subseteq desk[d].pend
        /\ desk[d].pend \ desk[d].todo \subseteq deskPaid
        /\ desk[d].pend # {}

(* A cancellation works on one line that no other one has locked; once the  *)
(* line's row is held it stays uncancelled, and siblings found cancelled    *)
(* stay cancelled.                                                          *)
ClerksSound ==
    \A c \in Clerks :
        /\ clerk[c].pc \in {"opened", "flipped"} =>
              /\ \E l \in Lines : clerk[c].on = {l}
              /\ \A d \in Clerks \ {c} : clerk[d].pc \in {"opened", "flipped"} =>
                    clerk[c].on \cap clerk[d].on = {}
        /\ clerk[c].pc = "flipped" =>
              /\ \A l \in clerk[c].on : line[l] # "cancelled"
              /\ ~clerk[c].live => \A l \in Lines \ clerk[c].on : line[l] = "cancelled"

IInv ==
    /\ TypeOK
    /\ HandlersSound
    /\ LinksHaveRows
    /\ DesksSound
    /\ ClerksSound
    /\ RecordedOnce
    /\ PaidHasRow
    /\ PaidAttemptIsRecorded
    /\ LinesAgree
    /\ ConfirmedIsBacked

-----------------------------------------------------------------------------
(* Types *)

(* Every step keeps the records, the gateway and every handler's progress   *)
(* within their types.                                                      *)
LEMMA TypeStep == IInv /\ [Next]_vars => TypeOK'
<1>. SUFFICES ASSUME IInv, [Next]_vars PROVE TypeOK'
  OBVIOUS
<1>. USE NoSessionAssumption DEF records, Set
<1>t. TypeOK
  BY DEF IInv
<1>i. IdleJob \in Job /\ IdleDesk \in DeskJob /\ IdleClerk \in ClerkJob
  BY DEF IdleJob, IdleDesk, IdleClerk, Job, DeskJob, ClerkJob, OrderStatus
<1>1. CASE Gateway
  BY <1>t, <1>1 DEF TypeOK, Gateway, GuestPays, SessionLapses
<1>2. ASSUME NEW p \in Handlers, CommitPayment(p) PROVE TypeOK'
  <2>1. job[p] \in Job /\ job[p].cur \in Sessions
    BY <1>t, <1>2 DEF TypeOK, IInv, HandlersSound, Sound, CommitPayment
  <2>2. AfterCommit(p) \in Job
    BY <2>1, <1>i DEF AfterCommit, Job
  <2>3. payments' \subseteq PaymentRow
    BY <1>t, <1>2, <2>1 DEF TypeOK, CommitPayment, InsertPayment, PaymentRow, Routes
  <2>4. order' \in OrderStatus /\ line' \in [Lines -> OrderStatus]
        /\ flagged' \subseteq Sessions /\ announced' \subseteq Sessions \cup Desks
    BY <1>t, <1>2, <2>1 DEF TypeOK, CommitPayment, FlagForRefund, LeaveOrder,
       AdvanceOrder, PendingBecome, OrderStatus
  <2>. QED
    BY <1>t, <1>2, <2>2, <2>3, <2>4 DEF TypeOK, CommitPayment
<1>3. ASSUME NEW p \in Handlers, PaymentNotRecorded(p) PROVE TypeOK'
  <2>1. job[p] \in Job
    BY <1>t DEF TypeOK
  <2>2. [job[p] EXCEPT !.pc = "ask", !.cur = NoSession,
                       !.seen = "pending_payment",
                       !.unknown = TRUE, !.todo = @ \ {job[p].cur}] \in Job
    BY <2>1 DEF Job, OrderStatus
  <2>3. job' \in [Handlers -> Job]
    BY <1>t, <1>i, <1>3, <2>2 DEF TypeOK, PaymentNotRecorded
  <2>. QED
    BY <1>t, <1>3, <2>3 DEF TypeOK, PaymentNotRecorded
<1>4. ASSUME NEW p \in Handlers, HandlerDies(p) PROVE TypeOK'
  BY <1>t, <1>i, <1>4 DEF TypeOK, HandlerDies
<1>5. ASSUME NEW p \in Checkers, NEW s \in Sessions, Ask(p, s) PROVE TypeOK'
  <2>1. p \in Handlers /\ job[p] \in Job
    BY <1>t, <1>5 DEF TypeOK, Handlers
  <2>2. CASE AnswerUnpaid(p, s)
    BY <1>t, <1>5, <2>1, <2>2 DEF TypeOK, Ask, AnswerUnpaid, Job, AttemptStatus
  <2>3. CASE AnswerPaid(p, s)
    BY <1>t, <1>5, <2>1, <2>3 DEF TypeOK, Ask, AnswerPaid, Job
  <2>4. CASE NoAnswer(p, s)
    BY <1>t, <1>5, <2>1, <2>4 DEF TypeOK, Ask, NoAnswer, Job
  <2>5. CASE AlreadyResolved(p, s)
    BY <1>t, <1>5, <2>1, <2>5 DEF TypeOK, Ask, AlreadyResolved, Job
  <2>. QED
    BY <1>5, <2>2, <2>3, <2>4, <2>5 DEF Ask, Answered
<1>6. ASSUME NEW r \in Job PROVE AfterClosing(r) \in Job
  BY <1>6 DEF AfterClosing, Job, OrderStatus
<1>7. ASSUME NEW p \in Checkers, NEW s \in Sessions, CloseAttempt(p, s) PROVE TypeOK'
  <2>1. p \in Handlers /\ [job[p] EXCEPT !.sibs = @ \ {s}] \in Job
    BY <1>t, <1>7 DEF TypeOK, Handlers, Job
  <2>. QED
    BY <1>t, <1>6, <1>7, <2>1 DEF TypeOK, CloseAttempt, TryExpire, AttemptStatus
<1>8. ASSUME NEW p \in Checkers, ResolvePaid(p) PROVE TypeOK'
  <2>0. p \in Handlers /\ job[p] \in Job
    BY <1>t DEF TypeOK, Handlers
  <2>1. [job[p] EXCEPT !.pc = "close", !.sibs = Open \ {job[p].cur}] \in Job
    BY <2>0 DEF Job, Open
  <2>2. attempt' \in [Sessions -> AttemptStatus]
    BY <1>t, <1>8 DEF TypeOK, ResolvePaid, AttemptStatus
  <2>3. job' \in [Handlers -> Job]
    BY <1>t, <1>6, <1>8, <2>0, <2>1 DEF TypeOK, ResolvePaid
  <2>. QED
    BY <1>t, <1>8, <2>2, <2>3 DEF TypeOK, ResolvePaid
<1>9. ASSUME NEW w \in Webhooks, NEW s \in Sessions, WebhookArrives(w, s) PROVE TypeOK'
  BY <1>t, <1>i, <1>9 DEF TypeOK, WebhookArrives, Job, Handlers
<1>10. ASSUME NEW w \in Workers, Worker(w) PROVE TypeOK'
  <2>1. w \in Handlers
    BY DEF Handlers, Checkers
  <2>2. ASSUME NEW old \in SUBSET Sessions, NEW due \in SUBSET Sessions,
               WorkerStarts(w, old, due) PROVE TypeOK'
    BY <1>t, <1>i, <2>1, <2>2 DEF TypeOK, WorkerStarts, Job, AttemptStatus
  <2>3. CASE WorkerEnds(w)
    BY <1>t, <1>i, <2>1, <2>3 DEF TypeOK, WorkerEnds
  <2>. QED
    BY <1>10, <2>2, <2>3 DEF Worker
<1>11. ASSUME NEW p \in Sweepers, Sweep(p) PROVE TypeOK'
  <2>1. p \in Handlers /\ job[p] \in Job
    BY <1>t DEF Handlers, Checkers, TypeOK
  <2>2. CASE SweepSelects(p)
    BY <1>t, <1>i, <2>1, <2>2 DEF TypeOK, SweepSelects, Job, Open
  <2>3. CASE SweepKeeps(p)
    BY <1>t, <1>i, <2>1, <2>3 DEF TypeOK, SweepKeeps
  <2>4. CASE SweepReleases(p)
    BY <1>t, <1>i, <2>1, <2>4 DEF TypeOK, SweepReleases, Job, PendingBecome, OrderStatus
  <2>5. CASE SweepKillsSession(p)
    BY <1>t, <1>i, <2>1, <2>5 DEF TypeOK, SweepKillsSession, TryExpire
  <2>. QED
    BY <1>11, <2>2, <2>3, <2>4, <2>5 DEF Sweep
<1>12. ASSUME NEW g \in Guests, Pay(g) PROVE TypeOK'
  <2>1. g \in Handlers /\ job[g] \in Job
    BY <1>t DEF Handlers, Checkers, TypeOK
  <2>2. CASE PayRequested(g)
    BY <1>t, <1>i, <2>1, <2>2 DEF TypeOK, PayRequested, Job, Open
  <2>3. CASE PayRedirected(g)
    BY <1>t, <1>i, <2>1, <2>3 DEF TypeOK, PayRedirected
  <2>4. CASE PaySupersedes(g)
    <3>1. [job[g] EXCEPT !.pc = "supersede", !.sibs = Open] \in Job
      BY <2>1 DEF Job, Open
    <3>. QED
      BY <1>t, <1>6, <2>1, <2>4, <3>1 DEF TypeOK, PaySupersedes
  <2>5. ASSUME NEW s \in Sessions, CreateSession(g, s) PROVE TypeOK'
    BY <1>t, <1>i, <2>1, <2>5 DEF TypeOK, CreateSession, Job
  <2>6. CASE BindSession(g)
    BY <1>t, <1>i, <2>1, <2>6 DEF TypeOK, BindSession, Job
  <2>7. CASE RecordAttempt(g)
    <3>1. job[g].cur \in Sessions
      BY <2>1, <2>7 DEF IInv, HandlersSound, Sound, RecordAttempt
    <3>. QED
      BY <1>t, <1>i, <2>1, <2>7, <3>1 DEF TypeOK, RecordAttempt, AttemptStatus
  <2>. QED
    BY <1>12, <2>2, <2>3, <2>4, <2>5, <2>6, <2>7 DEF Pay
<1>13. ASSUME NEW d \in Desks, ManualConfirm(d) PROVE TypeOK'
  <2>1. desk[d] \in DeskJob
    BY <1>t DEF TypeOK
  <2>2. CASE DeskStarts(d)
    BY <1>t, <2>1, <2>2 DEF TypeOK, DeskStarts, DeskJob, PendingLines
  <2>3. ASSUME NEW l \in Lines, DeskTakesPayment(d, l) PROVE TypeOK'
    BY <1>t, <2>1, <2>3 DEF TypeOK, DeskTakesPayment, DeskJob
  <2>4. CASE DeskConfirms(d)
    BY <1>t, <1>i, <2>1, <2>4 DEF TypeOK, DeskConfirms, OrderStatus
  <2>5. CASE DeskFails(d)
    BY <1>t, <1>i, <2>1, <2>5 DEF TypeOK, DeskFails
  <2>. QED
    BY <1>13, <2>2, <2>3, <2>4, <2>5 DEF ManualConfirm
<1>14. ASSUME NEW c \in Clerks, Cancel(c) PROVE TypeOK'
  <2>1. clerk[c] \in ClerkJob
    BY <1>t DEF TypeOK
  <2>2. ASSUME NEW l \in Lines, CancelOpens(c, l) PROVE TypeOK'
    BY <1>t, <2>1, <2>2 DEF TypeOK, CancelOpens, ClerkJob
  <2>3. CASE CancelFlips(c)
    BY <1>t, <2>1, <2>3 DEF TypeOK, CancelFlips, ClerkJob
  <2>4. CASE CancelCommits(c)
    BY <1>t, <1>i, <2>1, <2>4 DEF TypeOK, CancelCommits, ClerkJob, OrderStatus
  <2>5. CASE CancelKillsSession(c)
    BY <1>t, <1>i, <2>1, <2>5 DEF TypeOK, CancelKillsSession, TryExpire
  <2>6. CASE CancelFails(c)
    BY <1>t, <1>i, <2>1, <2>6 DEF TypeOK, CancelFails
  <2>. QED
    BY <1>14, <2>2, <2>3, <2>4, <2>5, <2>6 DEF Cancel
<1>15. CASE UNCHANGED vars
  BY <1>t, <1>15 DEF TypeOK, vars
<1>. QED
  BY <1>1, <1>2, <1>3, <1>4, <1>5, <1>7, <1>8, <1>9, <1>10, <1>11, <1>12, <1>13,
     <1>14, <1>15 DEF Next, Recording, Checker, Webhook

-----------------------------------------------------------------------------
(* Attempts, sessions and the books *)

Books == LinksHaveRows /\ RecordedOnce /\ PaidHasRow /\ PaidAttemptIsRecorded

(* A step that takes no money, forgets no row and resolves no attempt as    *)
(* paid leaves the books as sound as they were.                             *)
LEMMA BooksKept ==
    ASSUME TypeOK, Books, payments' = payments, link' = link,
           \A s \in Sessions : gateway'[s] = "paid" <=> gateway[s] = "paid",
           \A s \in Sessions : attempt[s] # "none" => attempt'[s] # "none",
           \A s \in Sessions : attempt'[s] = "paid" => attempt[s] = "paid"
    PROVE  Books'
<1>1. \A s \in Sessions : Recorded(s)' <=> Recorded(s)
  BY DEF Recorded
<1>. link \subseteq Sessions /\ payments \subseteq PaymentRow
  BY DEF TypeOK
<1>. \A row \in payments : row.session \in Sessions
  BY DEF PaymentRow
<1>2. LinksHaveRows'
  BY DEF Books, LinksHaveRows
<1>3. RecordedOnce'
  BY DEF Books, RecordedOnce
<1>4. PaidHasRow'
  BY DEF Books, PaidHasRow
<1>5. PaidAttemptIsRecorded'
  BY <1>1 DEF Books, PaidAttemptIsRecorded
<1>. QED
  BY <1>2, <1>3, <1>4, <1>5 DEF Books

(* A step that leaves the handlers alone, or moves one of them to a sound   *)
(* state, keeps all of them sound: what they rely on is never undone.       *)
LEMMA HandlersKept ==
    ASSUME TypeOK, HandlersSound, payments \subseteq payments',
           \A s \in Sessions : gateway[s] = "paid" => gateway'[s] = "paid",
           NEW p, job' \in [Handlers -> Job],
           \A q \in Handlers \ {p} : job'[q] = job[q],
           p \in Handlers => job'[p] = job[p] \/ Sound(job[p])'
    PROVE  HandlersSound'
<1>1. ASSUME NEW q \in Handlers, job'[q] = job[q] PROVE Sound(job[q])'
  BY <1>1 DEF HandlersSound, Sound, Recorded
<1>2. ASSUME NEW q \in Handlers PROVE Sound(job[q])'
  BY <1>1, <1>2
<1>. QED
  BY <1>2 DEF HandlersSound

(* No step of any handler records a payment PayMongo did not take or takes  *)
(* it twice, loses the row of a payment, or resolves what is not recorded.  *)
LEMMA MoneyStep == IInv /\ [Next]_vars => HandlersSound' /\ Books'
<1>. SUFFICES ASSUME IInv, [Next]_vars PROVE HandlersSound' /\ Books'
  OBVIOUS
<1>. USE DEF records, Set
<1>t. TypeOK /\ TypeOK' /\ HandlersSound /\ Books
  BY TypeStep DEF IInv, Books
<1>j. job' \in [Handlers -> Job] /\ job \in [Handlers -> Job]
  BY <1>t DEF TypeOK
<1>k. Checkers \subseteq Handlers /\ Webhooks \subseteq Handlers
      /\ Workers \subseteq Checkers /\ Sweepers \subseteq Checkers /\ Guests \subseteq Checkers
  BY DEF Handlers, Checkers
<1>1. ASSUME NEW s \in Sessions, GuestPays(s) PROVE HandlersSound' /\ Books'
  <2>1. HandlersSound'
    BY <1>t, <1>1 DEF GuestPays, HandlersSound, Sound, Recorded, TypeOK
  <2>2. LinksHaveRows' /\ PaidAttemptIsRecorded'
    BY <1>t, <1>1 DEF GuestPays, Books, LinksHaveRows, PaidAttemptIsRecorded, Recorded
  <2>3. PaidHasRow'
    BY <1>t, <1>1 DEF GuestPays, Books, LinksHaveRows, PaidHasRow, TypeOK
  <2>4. RecordedOnce'
    BY <1>t, <1>1 DEF GuestPays, Books, RecordedOnce, TypeOK, PaymentRow
  <2>. QED
    BY <2>1, <2>2, <2>3, <2>4 DEF Books
<1>2. ASSUME NEW s \in Sessions, SessionLapses(s) PROVE HandlersSound' /\ Books'
  <2>1. \A x \in Sessions : gateway'[x] = "paid" <=> gateway[x] = "paid"
    BY <1>t, <1>2 DEF SessionLapses, TypeOK
  <2>2. Books'
    BY <1>t, <1>2, <2>1, BooksKept DEF SessionLapses
  <2>3. HandlersSound'
    BY <1>t, <1>2, <2>1 DEF SessionLapses, HandlersSound, Sound, Recorded
  <2>. QED
    BY <2>2, <2>3
<1>3. ASSUME NEW p \in Handlers, CommitPayment(p) PROVE HandlersSound' /\ Books'
  <2>1. PICK cur \in Sessions : cur = job[p].cur
    BY <1>t, <1>3 DEF CommitPayment, HandlersSound, Sound
  <2>2. gateway[cur] = "paid" /\ ~Recorded(cur)
    BY <1>t, <1>3, <2>1 DEF CommitPayment, InsertPayment, HandlersSound, Sound
  <2>3. PICK row \in PaymentRow : row.session = cur /\ payments' = payments \cup {row}
    <3>. DEFINE r == [session |-> cur,
                      event |-> IF p \in Webhooks THEN "webhook" ELSE "reconcile"]
    <3>1. r \in PaymentRow /\ r.session = cur
      BY DEF PaymentRow, Routes
    <3>2. payments' = payments \cup {r}
      BY <1>3, <2>1 DEF CommitPayment, InsertPayment
    <3>. QED
      BY <3>1, <3>2
  <2>4. \A s \in Sessions : Recorded(s)' <=> Recorded(s) \/ s = cur
    BY <2>3 DEF Recorded
  <2>5. gateway' = gateway /\ attempt' = attempt /\ link' = link
    BY <1>3 DEF CommitPayment
  <2>6. Books'
    <3>1. LinksHaveRows' /\ PaidHasRow' /\ PaidAttemptIsRecorded'
      BY <1>t, <2>4, <2>5 DEF Books, LinksHaveRows, PaidHasRow, PaidAttemptIsRecorded
    <3>2. RecordedOnce'
      BY <1>t, <2>2, <2>3, <2>5 DEF Books, RecordedOnce, Recorded
    <3>. QED
      BY <3>1, <3>2 DEF Books
  <2>7. Sound(job[p])'
    <3>1. job'[p] = AfterCommit(p)
      BY <1>3, <1>j DEF CommitPayment
    <3>2. AfterCommit(p).pc \in {"idle", "resolve"}
          /\ (AfterCommit(p).pc = "resolve" => AfterCommit(p).cur = cur)
      BY <1>j, <2>1 DEF AfterCommit, IdleJob, Job
    <3>. QED
      BY <3>1, <3>2, <2>2, <2>4, <2>5 DEF Sound
  <2>8. payments \subseteq payments' /\ \A q \in Handlers \ {p} : job'[q] = job[q]
    BY <1>3, <1>j, <2>3 DEF CommitPayment
  <2>9. HandlersSound'
    BY <1>t, <1>j, <2>5, <2>7, <2>8, HandlersKept
  <2>. QED
    BY <2>6, <2>9
<1>b. ASSUME UNCHANGED <<payments, link>>,
             \A s \in Sessions : gateway'[s] = "paid" <=> gateway[s] = "paid",
             \A s \in Sessions : attempt[s] # "none" => attempt'[s] # "none",
             \A s \in Sessions : attempt'[s] = "paid" => attempt[s] = "paid",
             NEW p, \A q \in Handlers \ {p} : job'[q] = job[q],
             p \in Handlers => job'[p] = job[p] \/ Sound(job[p])'
      PROVE  HandlersSound' /\ Books'
  <2>1. Books'
    BY <1>t, <1>b, BooksKept
  <2>2. HandlersSound'
    BY <1>t, <1>j, <1>b, HandlersKept
  <2>. QED
    BY <2>1, <2>2
<1>s. ASSUME NEW p, job'[p].pc \notin {"commit", "resolve", "bind", "record"} PROVE Sound(job[p])'
  BY <1>s DEF Sound
<1>4. ASSUME NEW p \in Handlers, PaymentNotRecorded(p) \/ HandlerDies(p)
      PROVE  HandlersSound' /\ Books'
  <2>1. job'[p].pc \in {"idle", "ask"}
    <3>. DEFINE r == [job[p] EXCEPT !.pc = "ask", !.cur = NoSession,
                        !.seen = "pending_payment", !.unknown = TRUE,
                        !.todo = @ \ {job[p].cur}]
    <3>1. job[p] \in Job
      BY <1>j
    <3>2. r.pc = "ask" /\ IdleJob.pc = "idle"
      BY <3>1 DEF Job, IdleJob
    <3>3. job' = [job EXCEPT ![p] = IdleJob] \/ job' = [job EXCEPT ![p] = r]
      BY <1>4 DEF PaymentNotRecorded, HandlerDies
    <3>. HIDE DEF r
    <3>. QED
      BY <1>j, <3>2, <3>3
  <2>2. \A q \in Handlers \ {p} : job'[q] = job[q]
    BY <1>j, <1>4 DEF PaymentNotRecorded, HandlerDies
  <2>. QED
    BY <1>4, <1>b, <1>s, <2>1, <2>2 DEF PaymentNotRecorded, HandlerDies
<1>5. ASSUME NEW p \in Checkers, NEW s \in Sessions, Ask(p, s)
      PROVE  HandlersSound' /\ Books'
  <2>1. p \in Handlers /\ job[p] \in Job /\ UNCHANGED <<payments, link, gateway>>
    BY <1>j, <1>k, <1>5 DEF Ask
  <2>2. CASE AnswerPaid(p, s)
    <3>1. UNCHANGED attempt /\ \A q \in Handlers \ {p} : job'[q] = job[q]
      BY <1>j, <2>1, <2>2 DEF AnswerPaid
    <3>2. job'[p].cur = s /\ job'[p].pc = IF Recorded(s) THEN "resolve" ELSE "commit"
      BY <1>j, <2>1, <2>2 DEF AnswerPaid, Job
    <3>3. Sound(job[p])'
      BY <2>1, <2>2, <3>2 DEF AnswerPaid, Sound, Recorded
    <3>. QED
      BY <1>b, <2>1, <3>1, <3>3
  <2>3. CASE AlreadyResolved(p, s) \/ AnswerUnpaid(p, s) \/ NoAnswer(p, s)
    <3>0. PICK r \in Job : r.pc = "ask" /\ job' = [job EXCEPT ![p] = r]
      <4>1. CASE AlreadyResolved(p, s)
        BY <1>5, <2>1, <4>1 DEF Ask, AlreadyResolved, Job
      <4>2. CASE AnswerUnpaid(p, s)
        BY <1>5, <2>1, <4>2 DEF Ask, AnswerUnpaid, Job
      <4>3. CASE NoAnswer(p, s)
        BY <1>5, <2>1, <4>3 DEF Ask, NoAnswer, Job
      <4>. QED
        BY <2>3, <4>1, <4>2, <4>3
    <3>1. job'[p].pc = "ask" /\ \A q \in Handlers \ {p} : job'[q] = job[q]
      BY <1>j, <2>1, <3>0
    <3>2. \A x \in Sessions : attempt'[x] = attempt[x]
                               \/ (attempt[x] = "open" /\ attempt'[x] = "expired")
      BY <1>t, <2>3 DEF TypeOK, AlreadyResolved, AnswerUnpaid, NoAnswer
    <3>. QED
      BY <1>b, <1>s, <2>1, <3>1, <3>2
  <2>. QED
    BY <1>5, <2>2, <2>3 DEF Ask, Answered
<1>6. ASSUME NEW r \in Job, r.pc \in {"close", "supersede"}
      PROVE  AfterClosing(r).pc \in {"close", "supersede", "create", "ask"}
  BY <1>6 DEF AfterClosing, Job
<1>7. ASSUME NEW p \in Checkers, NEW s \in Sessions, CloseAttempt(p, s)
      PROVE  HandlersSound' /\ Books'
  <2>. DEFINE r == [job[p] EXCEPT !.sibs = @ \ {s}]
  <2>1. p \in Handlers /\ job[p] \in Job
    BY <1>j, <1>k
  <2>2. r \in Job /\ r.pc \in {"close", "supersede"}
    BY <1>7, <2>1 DEF CloseAttempt, Job
  <2>3. job' = [job EXCEPT ![p] = AfterClosing(r)]
    BY <1>7 DEF CloseAttempt
  <2>4. job'[p].pc \notin {"commit", "resolve", "bind", "record"}
        /\ \A q \in Handlers \ {p} : job'[q] = job[q]
    <3>. HIDE DEF r
    <3>. QED
      BY <1>6, <1>j, <2>1, <2>2, <2>3
  <2>5. \A x \in Sessions : attempt'[x] = attempt[x] \/ attempt'[x] = "expired"
    BY <1>t, <1>7 DEF CloseAttempt, TypeOK
  <2>6. \A x \in Sessions : gateway'[x] = "paid" <=> gateway[x] = "paid"
    BY <1>t, <1>7 DEF CloseAttempt, TryExpire, TypeOK
  <2>. QED
    BY <1>7, <1>b, <1>s, <2>4, <2>5, <2>6 DEF CloseAttempt
<1>8. ASSUME NEW p \in Checkers, ResolvePaid(p) PROVE HandlersSound' /\ Books'
  <2>. DEFINE r == [job[p] EXCEPT !.pc = "close", !.sibs = Open \ {job[p].cur}]
  <2>1. p \in Handlers /\ job[p] \in Job
    BY <1>j, <1>k
  <2>2. PICK cur \in Sessions : cur = job[p].cur /\ Recorded(cur)
    BY <1>t, <1>8, <2>1 DEF ResolvePaid, HandlersSound, Sound
  <2>3. r \in Job /\ r.pc = "close"
    BY <2>1 DEF Job, Open
  <2>4. job' = [job EXCEPT ![p] = AfterClosing(r)]
    BY <1>8 DEF ResolvePaid
  <2>5. job'[p].pc \notin {"commit", "resolve", "bind", "record"}
        /\ \A q \in Handlers \ {p} : job'[q] = job[q]
    <3>. HIDE DEF r
    <3>. QED
      BY <1>6, <1>j, <2>1, <2>3, <2>4
  <2>6. UNCHANGED <<payments, link, gateway>> /\ attempt' = [attempt EXCEPT ![cur] = "paid"]
    BY <1>8, <2>2 DEF ResolvePaid
  <2>7. HandlersSound'
    BY <1>j, <1>s, <1>t, <2>5, <2>6, HandlersKept
  <2>8. LinksHaveRows' /\ RecordedOnce' /\ PaidHasRow'
    BY <1>t, <2>6 DEF Books, LinksHaveRows, RecordedOnce, PaidHasRow, TypeOK
  <2>9. PaidAttemptIsRecorded'
    BY <1>t, <2>2, <2>6 DEF Books, PaidAttemptIsRecorded, Recorded, TypeOK
  <2>. QED
    BY <2>7, <2>8, <2>9 DEF Books
<1>9. ASSUME NEW w \in Webhooks, NEW s \in Sessions, WebhookArrives(w, s)
      PROVE  HandlersSound' /\ Books'
  <2>1. w \in Handlers /\ \A q \in Handlers \ {w} : job'[q] = job[q]
    BY <1>j, <1>k, <1>9 DEF WebhookArrives
  <2>2. job'[w].pc = "commit" /\ job'[w].cur = s
    BY <1>j, <1>9, <2>1 DEF WebhookArrives, IdleJob
  <2>3. Sound(job[w])'
    BY <1>9, <2>2 DEF WebhookArrives, Sound
  <2>. QED
    BY <1>9, <1>b, <2>1, <2>3 DEF WebhookArrives
<1>10. ASSUME NEW w \in Workers, Worker(w) PROVE HandlersSound' /\ Books'
  <2>1. w \in Handlers
    BY <1>k
  <2>2. CASE WorkerEnds(w)
    <3>1. job'[w].pc = "idle" /\ \A q \in Handlers \ {w} : job'[q] = job[q]
      BY <1>j, <2>1, <2>2 DEF WorkerEnds, IdleJob
    <3>. QED
      BY <1>b, <1>s, <2>2, <3>1 DEF WorkerEnds
  <2>3. ASSUME NEW old \in SUBSET Sessions, NEW due \in SUBSET Sessions,
               WorkerStarts(w, old, due)
        PROVE  HandlersSound' /\ Books'
    <3>1. job'[w].pc = "ask" /\ \A q \in Handlers \ {w} : job'[q] = job[q]
      BY <1>j, <2>1, <2>3 DEF WorkerStarts, IdleJob
    <3>2. \A x \in Sessions : attempt'[x] = attempt[x]
                               \/ (attempt[x] = "open" /\ attempt'[x] = "expired")
      BY <1>t, <2>3 DEF WorkerStarts, Open, TypeOK
    <3>. QED
      BY <1>b, <1>s, <2>3, <3>1, <3>2 DEF WorkerStarts
  <2>. QED
    BY <1>10, <2>2, <2>3 DEF Worker
<1>11. ASSUME NEW p \in Sweepers, Sweep(p) PROVE HandlersSound' /\ Books'
  <2>1. p \in Handlers
    BY <1>k
  <2>2. PICK r : job' = [job EXCEPT ![p] = r] /\ r.pc \in {"idle", "ask", "kill"}
    <3>1. CASE SweepSelects(p)
      <4>. DEFINE r == [IdleJob EXCEPT !.pc = "ask", !.todo = Open, !.hold = latest]
      <4>1. r.pc = "ask"
        BY DEF IdleJob
      <4>2. job' = [job EXCEPT ![p] = r]
        BY <3>1 DEF SweepSelects
      <4>. QED
        BY <4>1, <4>2
    <3>2. CASE SweepKeeps(p) \/ SweepKillsSession(p)
      BY <3>2 DEF SweepKeeps, SweepKillsSession, IdleJob
    <3>3. CASE SweepReleases(p)
      <4>. DEFINE r == IF job[p].hold = NoSession THEN IdleJob
                       ELSE [IdleJob EXCEPT !.pc = "kill", !.hold = job[p].hold]
      <4>1. r.pc \in {"idle", "kill"}
        BY DEF IdleJob
      <4>2. job' = [job EXCEPT ![p] = r]
        BY <3>3 DEF SweepReleases
      <4>. QED
        BY <4>1, <4>2
    <3>. QED
      BY <1>11, <3>1, <3>2, <3>3 DEF Sweep
  <2>3. job'[p].pc \notin {"commit", "resolve", "bind", "record"}
        /\ \A q \in Handlers \ {p} : job'[q] = job[q]
    BY <1>j, <2>1, <2>2
  <2>4. UNCHANGED <<payments, link, attempt>>
    BY <1>11 DEF Sweep, SweepSelects, SweepKeeps, SweepReleases, SweepKillsSession
  <2>5. \A x \in Sessions : gateway'[x] = "paid" <=> gateway[x] = "paid"
    BY <1>t, <1>11 DEF Sweep, SweepSelects, SweepKeeps, SweepReleases,
       SweepKillsSession, TryExpire, TypeOK
  <2>. QED
    BY <1>b, <1>s, <2>3, <2>4, <2>5
<1>12. ASSUME NEW g \in Guests, Pay(g) PROVE HandlersSound' /\ Books'
  <2>1. g \in Handlers /\ job[g] \in Job
    BY <1>j, <1>k
  <2>2. CASE PayRequested(g) \/ PayRedirected(g)
    <3>1. CASE PayRequested(g)
      <4>1. job'[g].pc = "ask" /\ \A q \in Handlers \ {g} : job'[q] = job[q]
        BY <1>j, <2>1, <3>1 DEF PayRequested, IdleJob
      <4>. QED
        BY <1>b, <1>s, <3>1, <4>1 DEF PayRequested
    <3>2. CASE PayRedirected(g)
      <4>1. job'[g].pc = "idle" /\ \A q \in Handlers \ {g} : job'[q] = job[q]
        BY <1>j, <2>1, <3>2 DEF PayRedirected, IdleJob
      <4>. QED
        BY <1>b, <1>s, <3>2, <4>1 DEF PayRedirected
    <3>. QED
      BY <2>2, <3>1, <3>2
  <2>3. CASE PaySupersedes(g)
    <3>. DEFINE r == [job[g] EXCEPT !.pc = "supersede", !.sibs = Open]
    <3>1. r \in Job /\ r.pc = "supersede" /\ job' = [job EXCEPT ![g] = AfterClosing(r)]
      BY <2>1, <2>3 DEF PaySupersedes, Job, Open
    <3>2. job'[g].pc \notin {"commit", "resolve", "bind", "record"}
          /\ \A q \in Handlers \ {g} : job'[q] = job[q]
      <4>. HIDE DEF r
      <4>. QED
        BY <1>6, <1>j, <2>1, <3>1
    <3>. QED
      BY <1>b, <1>s, <2>3, <3>2 DEF PaySupersedes
  <2>4. ASSUME NEW s \in Sessions, CreateSession(g, s) PROVE HandlersSound' /\ Books'
    <3>1. \A q \in Handlers \ {g} : job'[q] = job[q]
      BY <1>j, <2>1, <2>4 DEF CreateSession
    <3>0. job'[g].pc = "bind" /\ job'[g].cur = s
      BY <1>j, <2>1, <2>4 DEF CreateSession, IdleJob
    <3>3. Sound(job[g])'
      BY <3>0 DEF Sound
    <3>2. \A x \in Sessions : gateway'[x] = "paid" <=> gateway[x] = "paid"
      BY <1>t, <2>4 DEF CreateSession, TypeOK
    <3>. QED
      BY <1>b, <2>4, <3>1, <3>2, <3>3 DEF CreateSession
  <2>5. CASE BindSession(g)
    <3>1. job'[g] = [job[g] EXCEPT !.pc = "record"]
          /\ \A q \in Handlers \ {g} : job'[q] = job[q]
      BY <1>j, <2>1, <2>5 DEF BindSession
    <3>2. job'[g].pc = "record" /\ job'[g].cur \in Sessions
      BY <1>t, <2>1, <2>5, <3>1 DEF BindSession, HandlersSound, Sound, Job
    <3>3. Sound(job[g])'
      BY <3>2 DEF Sound
    <3>. QED
      BY <1>b, <2>5, <3>1, <3>3 DEF BindSession
  <2>6. CASE RecordAttempt(g)
    <3>1. PICK s \in Sessions : s = job[g].cur
      BY <1>t, <2>1, <2>6 DEF RecordAttempt, HandlersSound, Sound
    <3>2. UNCHANGED <<payments, gateway>> /\ link' = link \cup {s}
          /\ attempt' = [attempt EXCEPT ![s] = "open"]
      BY <2>6, <3>1 DEF RecordAttempt
    <3>3. job'[g].pc = "idle" /\ \A q \in Handlers \ {g} : job'[q] = job[q]
      BY <1>j, <2>1, <2>6 DEF RecordAttempt, IdleJob
    <3>4. HandlersSound'
      BY <1>j, <1>s, <1>t, <3>2, <3>3, HandlersKept
    <3>5. Books'
      BY <1>t, <3>2 DEF Books, LinksHaveRows, RecordedOnce, PaidHasRow,
         PaidAttemptIsRecorded, Recorded, TypeOK
    <3>. QED
      BY <3>4, <3>5
  <2>. QED
    BY <1>12, <2>2, <2>3, <2>4, <2>5, <2>6 DEF Pay
<1>13. ASSUME NEW d \in Desks, ManualConfirm(d) PROVE HandlersSound' /\ Books'
  <2>1. UNCHANGED <<payments, link, gateway, attempt, job>>
    BY <1>13 DEF ManualConfirm, DeskStarts, DeskTakesPayment, DeskConfirms, DeskFails
  <2>. QED
    BY <1>b, <2>1
<1>14. ASSUME NEW c \in Clerks, Cancel(c) PROVE HandlersSound' /\ Books'
  <2>1. UNCHANGED <<payments, link, attempt, job>>
    BY <1>14 DEF Cancel, CancelOpens, CancelFlips, CancelCommits, CancelKillsSession,
       CancelFails
  <2>2. \A x \in Sessions : gateway'[x] = "paid" <=> gateway[x] = "paid"
    BY <1>t, <1>14 DEF Cancel, CancelOpens, CancelFlips, CancelCommits,
       CancelKillsSession, CancelFails, TryExpire, TypeOK
  <2>. QED
    BY <1>b, <2>1, <2>2
<1>15. CASE UNCHANGED vars
  BY <1>b, <1>15 DEF vars
<1>. QED
  BY <1>1, <1>2, <1>3, <1>4, <1>5, <1>7, <1>8, <1>9, <1>10, <1>11, <1>12, <1>13,
     <1>14, <1>15 DEF Next, Gateway, Recording, Checker, Webhook

-----------------------------------------------------------------------------
(* The order and its lines *)

Statuses == DesksSound /\ ClerksSound /\ LinesAgree /\ ConfirmedIsBacked

(* What a manual confirmation knows stays true while no line becomes        *)
(* pending again and no desk payment is taken back.                         *)
LEMMA DesksKept ==
    ASSUME DesksSound, desk' = desk, deskPaid \subseteq deskPaid',
           PendingLines' \subseteq PendingLines
    PROVE  DesksSound'
BY DEF DesksSound

(* What a cancellation knows stays true while a cancelled line stays so and *)
(* the rows it holds are not touched.                                       *)
LEMMA ClerksKept ==
    ASSUME ClerksSound, clerk' = clerk,
           \A l \in Lines : line[l] = "cancelled" => line'[l] = "cancelled",
           \A l \in Lines \cap Held : line'[l] = line[l]
    PROVE  ClerksSound'
<1>1. ASSUME NEW c \in Clerks, clerk[c].pc = "flipped", NEW l \in clerk[c].on
      PROVE  l \in Lines \cap Held
  BY <1>1 DEF ClerksSound, Held
<1>. QED
  BY <1>1 DEF ClerksSound

(* A transaction about to flip pending lines waits for the rows a           *)
(* cancellation holds, so no held line is pending when it does.             *)
LEMMA HeldUntouched ==
    ASSUME NEW st, line' = PendingBecome(st), PendingLines \cap Held = {}
    PROVE  /\ \A l \in Lines \cap Held : line'[l] = line[l]
           /\ \A l \in Lines : line[l] = "cancelled" => line'[l] = "cancelled"
BY DEF PendingBecome, PendingLines

(* No step of any handler lets the order and its lines disagree, or         *)
(* confirms a line nobody paid for.                                         *)
LEMMA StatusStep == IInv /\ [Next]_vars => Statuses'
<1>. SUFFICES ASSUME IInv, [Next]_vars PROVE Statuses'
  OBVIOUS
<1>. USE DEF records, Set
<1>t. TypeOK /\ TypeOK' /\ HandlersSound /\ Statuses
  BY TypeStep DEF IInv, Statuses
<1>u. ASSUME UNCHANGED <<order, line, desk, clerk>>,
             payments \subseteq payments', deskPaid \subseteq deskPaid'
      PROVE  Statuses'
  <2>1. DesksSound'
    BY <1>t, <1>u, DesksKept DEF Statuses, PendingLines
  <2>2. ClerksSound'
    BY <1>t, <1>u, ClerksKept DEF Statuses
  <2>3. LinesAgree' /\ ConfirmedIsBacked'
    BY <1>t, <1>u DEF Statuses, LinesAgree, ConfirmedIsBacked
  <2>. QED
    BY <2>1, <2>2, <2>3 DEF Statuses
<1>1. ASSUME NEW p \in Handlers, CommitPayment(p) PROVE Statuses'
  <2>1. payments \subseteq payments' /\ payments' # {} /\ UNCHANGED <<deskPaid, desk, clerk>>
    BY <1>1 DEF CommitPayment, InsertPayment
  <2>2. CASE FlagForRefund(p) \/ LeaveOrder(p)
    BY <1>u, <2>1, <2>2 DEF FlagForRefund, LeaveOrder
  <2>3. CASE AdvanceOrder(p)
    <3>1. DesksSound'
      BY <1>t, <2>1, <2>3, DesksKept DEF Statuses, AdvanceOrder, PendingBecome, PendingLines
    <3>2. ClerksSound'
      BY <1>t, <2>1, <2>3, HeldUntouched, ClerksKept DEF Statuses, AdvanceOrder
    <3>3. LinesAgree'
      BY <1>t, <2>3 DEF Statuses, LinesAgree, AdvanceOrder, PendingBecome, PendingLines,
         TypeOK, OrderStatus
    <3>4. ConfirmedIsBacked'
      BY <2>1 DEF ConfirmedIsBacked
    <3>. QED
      BY <3>1, <3>2, <3>3, <3>4 DEF Statuses
  <2>. QED
    BY <1>1, <2>2, <2>3 DEF CommitPayment
<1>2. ASSUME NEW p \in Sweepers, SweepReleases(p) PROVE Statuses'
  <2>1. UNCHANGED <<payments, deskPaid, desk, clerk>>
    BY <1>2 DEF SweepReleases
  <2>2. DesksSound'
    BY <1>t, <1>2, <2>1, DesksKept DEF Statuses, SweepReleases, PendingBecome, PendingLines
  <2>3. ClerksSound'
    BY <1>t, <1>2, <2>1, HeldUntouched, ClerksKept DEF Statuses, SweepReleases
  <2>4. LinesAgree'
    BY <1>t, <1>2 DEF Statuses, LinesAgree, SweepReleases, PendingBecome, PendingLines,
       TypeOK, OrderStatus
  <2>5. ConfirmedIsBacked'
    BY <1>t, <1>2, <2>1 DEF Statuses, ConfirmedIsBacked, SweepReleases, PendingBecome
  <2>. QED
    BY <2>2, <2>3, <2>4, <2>5 DEF Statuses
<1>3. ASSUME NEW d \in Desks, ManualConfirm(d) PROVE Statuses'
  <2>1. UNCHANGED <<payments, clerk>> /\ desk \in [Desks -> DeskJob]
    BY <1>t, <1>3 DEF ManualConfirm, DeskStarts, DeskTakesPayment, DeskConfirms, DeskFails,
       TypeOK
  <2>a. ASSUME UNCHANGED <<order, line>>, deskPaid \subseteq deskPaid', DesksSound'
        PROVE  Statuses'
    <3>1. ClerksSound'
      BY <1>t, <2>1, <2>a, ClerksKept DEF Statuses
    <3>2. LinesAgree' /\ ConfirmedIsBacked'
      BY <1>t, <2>1, <2>a DEF Statuses, LinesAgree, ConfirmedIsBacked
    <3>. QED
      BY <2>a, <3>1, <3>2 DEF Statuses
  <2>2. CASE DeskStarts(d)
    <3>1. DesksSound'
      BY <1>t, <2>1, <2>2 DEF DeskStarts, Statuses, DesksSound, PendingLines
    <3>. QED
      BY <2>2, <2>a, <3>1 DEF DeskStarts
  <2>3. ASSUME NEW l \in Lines, DeskTakesPayment(d, l) PROVE Statuses'
    <3>1. DesksSound'
      BY <1>t, <2>1, <2>3 DEF DeskTakesPayment, Statuses, DesksSound, PendingLines, DeskJob
    <3>. QED
      BY <2>3, <2>a, <3>1 DEF DeskTakesPayment
  <2>4. CASE DeskConfirms(d)
    <3>1. PendingLines = desk[d].pend /\ desk[d].pend \subseteq deskPaid
          /\ desk[d].pend \cap Held = {} /\ UNCHANGED deskPaid /\ order = "pending_payment"
      BY <1>t, <2>4 DEF DeskConfirms, Statuses, DesksSound
    <3>2. line' = PendingBecome("confirmed") /\ order' = "confirmed"
      BY <2>4, <3>1 DEF DeskConfirms, PendingBecome
    <3>3. DesksSound'
      BY <1>t, <2>1, <2>4, <3>1, <3>2 DEF DeskConfirms, Statuses, DesksSound, PendingBecome,
         PendingLines, IdleDesk
    <3>4. ClerksSound'
      BY <1>t, <2>1, <3>1, <3>2, HeldUntouched, ClerksKept DEF Statuses
    <3>5. LinesAgree'
      BY <1>t, <3>2 DEF Statuses, LinesAgree, PendingBecome, PendingLines, TypeOK, OrderStatus
    <3>6. ConfirmedIsBacked'
      BY <1>t, <2>1, <3>1, <3>2 DEF Statuses, ConfirmedIsBacked, PendingBecome
    <3>. QED
      BY <3>3, <3>4, <3>5, <3>6 DEF Statuses
  <2>5. CASE DeskFails(d)
    <3>1. DesksSound'
      BY <1>t, <2>1, <2>5 DEF DeskFails, Statuses, DesksSound, PendingLines, IdleDesk
    <3>. QED
      BY <2>5, <2>a, <3>1 DEF DeskFails
  <2>. QED
    BY <1>3, <2>2, <2>3, <2>4, <2>5 DEF ManualConfirm
<1>4. ASSUME NEW c \in Clerks, Cancel(c) PROVE Statuses'
  <2>1. UNCHANGED <<payments, deskPaid, desk>> /\ clerk \in [Clerks -> ClerkJob]
    BY <1>t, <1>4 DEF Cancel, CancelOpens, CancelFlips, CancelCommits, CancelKillsSession,
       CancelFails, TypeOK
  <2>a. ASSUME UNCHANGED <<order, line>>, ClerksSound' PROVE Statuses'
    <3>1. DesksSound'
      BY <1>t, <2>1, <2>a, DesksKept DEF Statuses, PendingLines
    <3>2. LinesAgree' /\ ConfirmedIsBacked'
      BY <1>t, <2>1, <2>a DEF Statuses, LinesAgree, ConfirmedIsBacked
    <3>. QED
      BY <2>a, <3>1, <3>2 DEF Statuses
  <2>b. ASSUME UNCHANGED line, clerk' = [clerk EXCEPT ![c] = IdleClerk] PROVE ClerksSound'
    BY <1>t, <2>1, <2>b DEF Statuses, ClerksSound, IdleClerk
  <2>2. ASSUME NEW l \in Lines, CancelOpens(c, l) PROVE Statuses'
    <3>1. ClerksSound'
      BY <1>t, <2>1, <2>2 DEF CancelOpens, Statuses, ClerksSound
    <3>. QED
      BY <2>2, <2>a, <3>1 DEF CancelOpens
  <2>3. CASE CancelFlips(c)
    <3>1. /\ clerk'[c].pc = "flipped" /\ clerk'[c].on = clerk[c].on
          /\ clerk'[c].live = \E l \in Lines \ clerk[c].on : line[l] # "cancelled"
          /\ \A d \in Clerks \ {c} : clerk'[d] = clerk[d]
      BY <2>1, <2>3 DEF CancelFlips, ClerkJob
    <3>2. line' = line /\ clerk[c].pc = "opened"
          /\ \A l \in clerk[c].on : line[l] # "cancelled"
      BY <2>3 DEF CancelFlips
    <3>3. ~clerk'[c].live => \A l \in Lines \ clerk[c].on : line[l] = "cancelled"
      BY <3>1, Zenon
    <3>4. ASSUME NEW d \in Clerks, NEW e \in Clerks \ {d},
                 clerk'[d].pc \in {"opened", "flipped"}, clerk'[e].pc \in {"opened", "flipped"}
          PROVE  clerk'[d].on \cap clerk'[e].on = {}
      <4>1. /\ clerk'[d].on = clerk[d].on /\ clerk'[e].on = clerk[e].on
            /\ clerk[d].pc \in {"opened", "flipped"} /\ clerk[e].pc \in {"opened", "flipped"}
        BY <3>1, <3>2, <3>4
      <4>. QED
        BY <1>t, <3>4, <4>1 DEF Statuses, ClerksSound
    <3>5. ASSUME NEW d \in Clerks, clerk'[d].pc = "flipped"
          PROVE  /\ \A l \in clerk'[d].on : line'[l] # "cancelled"
                 /\ ~clerk'[d].live => \A l \in Lines \ clerk'[d].on : line'[l] = "cancelled"
      <4>1. CASE d = c
        BY <3>1, <3>2, <3>3, <4>1
      <4>2. CASE d # c
        BY <1>t, <3>1, <3>2, <3>5, <4>2 DEF Statuses, ClerksSound
      <4>. QED
        BY <4>1, <4>2
    <3>6. ASSUME NEW d \in Clerks, clerk'[d].pc \in {"opened", "flipped"}
          PROVE  \E l \in Lines : clerk'[d].on = {l}
      BY <1>t, <3>1, <3>2, <3>6 DEF Statuses, ClerksSound
    <3>7. ClerksSound'
      BY <3>4, <3>5, <3>6 DEF ClerksSound
    <3>. QED
      BY <2>3, <2>a, <3>7 DEF CancelFlips
  <2>4. CASE CancelCommits(c)
    <3>1. PICK l \in Lines : clerk[c].on = {l}
      BY <1>t, <2>4 DEF CancelCommits, Statuses, ClerksSound
    <3>2. line' = [k \in Lines |-> IF k = l THEN "cancelled" ELSE line[k]]
          /\ (order' = order \/ (~clerk[c].live /\ order' = "cancelled"))
      BY <2>4, <3>1 DEF CancelCommits
    <3>3. line[l] # "cancelled" /\ (~clerk[c].live => \A k \in Lines \ {l} : line[k] = "cancelled")
      BY <1>t, <2>4, <3>1 DEF CancelCommits, Statuses, ClerksSound
    <3>4. DesksSound'
      BY <1>t, <2>1, <3>2, DesksKept DEF Statuses, PendingLines
    <3>5. clerk'[c].pc \in {"idle", "kill"} /\ \A d \in Clerks \ {c} : clerk'[d] = clerk[d]
      <4>1. [IdleClerk EXCEPT !.pc = "kill", !.hold = clerk[c].hold].pc = "kill"
            /\ IdleClerk.pc = "idle"
        BY DEF IdleClerk
      <4>. QED
        BY <2>1, <2>4, <4>1 DEF CancelCommits
    <3>6. ASSUME NEW d \in Clerks \ {c}, clerk[d].pc \in {"opened", "flipped"}
          PROVE  l \notin clerk[d].on
      BY <1>t, <2>4, <3>1, <3>6 DEF CancelCommits, Statuses, ClerksSound
    <3>7. ClerksSound'
      BY <1>t, <3>2, <3>5, <3>6 DEF Statuses, ClerksSound
    <3>8. LinesAgree'
      BY <1>t, <3>2, <3>3 DEF Statuses, LinesAgree, TypeOK, OrderStatus
    <3>9. ConfirmedIsBacked'
      BY <1>t, <2>1, <3>2 DEF Statuses, ConfirmedIsBacked
    <3>. QED
      BY <3>4, <3>7, <3>8, <3>9 DEF Statuses
  <2>5. CASE CancelKillsSession(c) \/ CancelFails(c)
    BY <2>5, <2>a, <2>b DEF CancelKillsSession, CancelFails
  <2>. QED
    BY <1>4, <2>2, <2>3, <2>4, <2>5 DEF Cancel
<1>5. ASSUME NEW p \in Handlers, PaymentNotRecorded(p) \/ HandlerDies(p) PROVE Statuses'
  BY <1>5, <1>u DEF PaymentNotRecorded, HandlerDies
<1>6. ASSUME NEW p \in Checkers, Checker(p) PROVE Statuses'
  BY <1>6, <1>u DEF Checker, Ask, CloseAttempt, ResolvePaid
<1>7. CASE Gateway \/ \E w \in Webhooks : Webhook(w)
  BY <1>7, <1>u DEF Gateway, GuestPays, SessionLapses, Webhook, WebhookArrives
<1>8. ASSUME NEW w \in Workers, Worker(w) PROVE Statuses'
  BY <1>8, <1>u DEF Worker, WorkerStarts, WorkerEnds
<1>9. ASSUME NEW p \in Sweepers, SweepSelects(p) \/ SweepKeeps(p) \/ SweepKillsSession(p)
      PROVE  Statuses'
  BY <1>9, <1>u DEF SweepSelects, SweepKeeps, SweepKillsSession
<1>10. ASSUME NEW g \in Guests, Pay(g) PROVE Statuses'
  BY <1>10, <1>u DEF Pay, PayRequested, PayRedirected, PaySupersedes, CreateSession,
     BindSession, RecordAttempt
<1>11. CASE UNCHANGED vars
  BY <1>11, <1>u DEF vars
<1>. QED
  BY <1>1, <1>2, <1>3, <1>4, <1>5, <1>6, <1>7, <1>8, <1>9, <1>10, <1>11
  DEF Next, Recording, Sweep

-----------------------------------------------------------------------------
(* The invariant holds before any handler has run. *)
LEMMA Start == Init => IInv
<1>. SUFFICES ASSUME Init PROVE IInv
  OBVIOUS
<1>i. IdleJob \in Job /\ IdleDesk \in DeskJob /\ IdleClerk \in ClerkJob
      /\ IdleJob.pc = "idle" /\ IdleDesk.pc = "idle" /\ IdleClerk.pc = "idle"
  BY DEF IdleJob, IdleDesk, IdleClerk, Job, DeskJob, ClerkJob, OrderStatus
<1>1. TypeOK
  BY <1>i DEF Init, TypeOK, OrderStatus, AttemptStatus
<1>2. HandlersSound /\ DesksSound /\ ClerksSound
  BY <1>i DEF Init, HandlersSound, Sound, DesksSound, ClerksSound
<1>3. LinksHaveRows /\ RecordedOnce /\ PaidHasRow /\ PaidAttemptIsRecorded
  BY DEF Init, LinksHaveRows, RecordedOnce, PaidHasRow, PaidAttemptIsRecorded
<1>4. LinesAgree /\ ConfirmedIsBacked
  BY DEF Init, LinesAgree, ConfirmedIsBacked
<1>. QED
  BY <1>1, <1>2, <1>3, <1>4 DEF IInv

(* In every reachable state, however many lines, sessions and handlers:     *)
(* the records are well-typed and all handlers know only what is so.        *)
THEOREM Invariance == Spec => []IInv
<1>1. IInv /\ [Next]_vars => IInv'
  BY TypeStep, MoneyStep, StatusStep DEF IInv, Books, Statuses
<1>. QED
  BY Start, <1>1, PTL DEF Spec

(* Every record, job and session status keeps its type.                     *)
THEOREM TypeCorrect == Spec => []TypeOK
BY Invariance, PTL DEF IInv

(* The order and its lines never disagree, whichever of webhook, worker,    *)
(* sweep, guest, desk and clerk interleave (LinesAgree).                    *)
THEOREM StatusesAgree == Spec => []LinesAgree
BY Invariance, PTL DEF IInv

(* No line is confirmed without an online payment for the order or the      *)
(* desk's own settlement of that line.                                      *)
THEOREM ConfirmationsAreBacked == Spec => []ConfirmedIsBacked
BY Invariance, PTL DEF IInv

(* A PayMongo payment is in the books at most once and only if it was made. *)
THEOREM PaymentsRecordedOnce == Spec => []RecordedOnce
BY Invariance, PTL DEF IInv

(* Whatever PayMongo took has an attempt row, where the worker finds it.    *)
THEOREM PaidSessionsHaveRows == Spec => []PaidHasRow
BY Invariance, PTL DEF IInv

(* An attempt resolved as paid has its payment in the books.                *)
THEOREM AttemptsTellTheTruth == Spec => []PaidAttemptIsRecorded
BY Invariance, PTL DEF IInv

-----------------------------------------------------------------------------
(* The promise *)

Money == {[kind |-> "online", on |-> row] : row \in payments}
                  \cup {[kind |-> "desk", on |-> l] : l \in deskPaid}

(* Money on file is made of receipts, and grows with the payments and the   *)
(* desk's settlements.                                                      *)
LEMMA MoneyGrows ==
    ASSUME TypeOK', payments \subseteq payments', deskPaid \subseteq deskPaid'
    PROVE  Money' \in SUBSET Receipt /\ Money \subseteq Money'
BY DEF TypeOK, Money, Receipt

(* Every step of every handler is a move OrderLifecycle allows.             *)
LEMMA StepKeepsPromise ==
    IInv /\ IInv' /\ [Next]_vars => [Promise!Step]_(Promise!lifecycle)
<1>. SUFFICES ASSUME IInv, IInv', [Next]_vars PROVE [Promise!Step]_(Promise!lifecycle)
  OBVIOUS
<1>. USE DEF records, Set
<1>t. TypeOK /\ TypeOK' /\ LinesAgree /\ ClerksSound /\ DesksSound
  BY DEF IInv
<1>p. Promise!Pending = PendingLines
  BY DEF Promise!Pending, PendingLines
<1>u. ASSUME UNCHANGED <<order, line, payments, deskPaid>> PROVE [Promise!Step]_(Promise!lifecycle)
  BY <1>u DEF Promise!lifecycle
<1>m. ASSUME UNCHANGED <<order, line>>, payments \subseteq payments', deskPaid \subseteq deskPaid'
      PROVE  Promise!Step
  BY <1>m, <1>t, MoneyGrows DEF Promise!Step, Promise!TakeMoney, Money
<1>1. ASSUME NEW p \in Handlers, CommitPayment(p) PROVE Promise!Step
  <2>1. payments \subseteq payments' /\ payments' # {} /\ UNCHANGED deskPaid
    BY <1>1 DEF CommitPayment, InsertPayment
  <2>2. CASE UNCHANGED <<order, line>>
    BY <1>m, <2>1, <2>2
  <2>3. CASE AdvanceOrder(p) /\ order = "pending_payment"
    <3>1. Money' # {}
      BY <2>1 DEF Money
    <3>2. order' = "confirmed"
          /\ line' = [l \in Lines |-> IF l \in Promise!Pending THEN "confirmed" ELSE line[l]]
      BY <1>p, <2>3 DEF AdvanceOrder, PendingBecome
    <3>. QED
      BY <1>t, <2>1, <2>3, <3>1, <3>2, MoneyGrows DEF Promise!Step, Promise!Confirm, Money
  <2>4. CASE AdvanceOrder(p) /\ order # "pending_payment"
    <3>1. PendingLines = {}
      BY <1>t, <2>4 DEF LinesAgree, PendingLines, TypeOK, OrderStatus
    <3>2. UNCHANGED <<order, line>>
      BY <1>t, <2>4, <3>1 DEF AdvanceOrder, PendingBecome, TypeOK
    <3>. QED
      BY <2>2, <3>2
  <2>. QED
    BY <1>1, <2>2, <2>3, <2>4 DEF CommitPayment, FlagForRefund, LeaveOrder
<1>2. ASSUME NEW p \in Sweepers, SweepReleases(p) PROVE Promise!Step
  BY <1>p, <1>2 DEF SweepReleases, PendingBecome, Promise!Step, Promise!Release
<1>3. ASSUME NEW d \in Desks, NEW l \in Lines, DeskTakesPayment(d, l) PROVE Promise!Step
  BY <1>m, <1>3 DEF DeskTakesPayment
<1>4. ASSUME NEW d \in Desks, DeskConfirms(d) PROVE Promise!Step
  <2>1. PendingLines = desk[d].pend /\ desk[d].pend \subseteq deskPaid /\ desk[d].pend # {}
    BY <1>t, <1>4 DEF DeskConfirms, DesksSound
  <2>2. order = "pending_payment" /\ order' = "confirmed" /\ UNCHANGED <<payments, deskPaid>>
        /\ line' = [l \in Lines |-> IF l \in Promise!Pending THEN "confirmed" ELSE line[l]]
    BY <1>p, <1>4, <2>1 DEF DeskConfirms
  <2>3. Money' # {}
    BY <2>1, <2>2 DEF Money
  <2>. QED
    BY <1>t, <2>2, <2>3, MoneyGrows DEF Promise!Step, Promise!Confirm, Money
<1>5. ASSUME NEW c \in Clerks, CancelCommits(c) PROVE Promise!Step
  <2>1. PICK l \in Lines : clerk[c].on = {l} /\ line[l] # "cancelled"
                           /\ (~clerk[c].live => \A k \in Lines \ {l} : line[k] = "cancelled")
    BY <1>t, <1>5 DEF CancelCommits, ClerksSound
  <2>2. line' = [line EXCEPT ![l] = "cancelled"] /\ line[l] \in {"pending_payment", "confirmed"}
    <3>1. line' = [k \in Lines |-> IF k \in clerk[c].on THEN "cancelled" ELSE line[k]]
      BY <1>5 DEF CancelCommits
    <3>2. line \in [Lines -> OrderStatus]
      BY <1>t DEF TypeOK
    <3>. QED
      BY <2>1, <3>1, <3>2 DEF OrderStatus
  <2>3. UNCHANGED order \/ (order' = "cancelled" /\ \A k \in Lines : line'[k] = "cancelled")
    BY <1>t, <1>5, <2>1, <2>2 DEF CancelCommits, TypeOK
  <2>4. UNCHANGED <<payments, deskPaid>>
    BY <1>5 DEF CancelCommits
  <2>. QED
    BY <2>2, <2>3, <2>4 DEF Promise!Step, Promise!CancelLine
<1>6. ASSUME NEW p \in Handlers, PaymentNotRecorded(p) \/ HandlerDies(p)
      PROVE  [Promise!Step]_(Promise!lifecycle)
  BY <1>6, <1>u DEF PaymentNotRecorded, HandlerDies
<1>7. ASSUME NEW p \in Checkers, Checker(p) PROVE [Promise!Step]_(Promise!lifecycle)
  BY <1>7, <1>u DEF Checker, Ask, CloseAttempt, ResolvePaid
<1>8. CASE Gateway \/ \E w \in Webhooks : Webhook(w)
  BY <1>8, <1>u DEF Gateway, GuestPays, SessionLapses, Webhook, WebhookArrives
<1>9. ASSUME NEW w \in Workers, Worker(w) PROVE [Promise!Step]_(Promise!lifecycle)
  BY <1>9, <1>u DEF Worker, WorkerStarts, WorkerEnds
<1>10. ASSUME NEW p \in Sweepers, SweepSelects(p) \/ SweepKeeps(p) \/ SweepKillsSession(p)
       PROVE  [Promise!Step]_(Promise!lifecycle)
  BY <1>10, <1>u DEF SweepSelects, SweepKeeps, SweepKillsSession
<1>11. ASSUME NEW g \in Guests, Pay(g) PROVE [Promise!Step]_(Promise!lifecycle)
  BY <1>11, <1>u DEF Pay, PayRequested, PayRedirected, PaySupersedes, CreateSession,
     BindSession, RecordAttempt
<1>12. ASSUME NEW d \in Desks, DeskStarts(d) \/ DeskFails(d)
       PROVE  [Promise!Step]_(Promise!lifecycle)
  BY <1>12, <1>u DEF DeskStarts, DeskFails
<1>13. ASSUME NEW c \in Clerks,
              \/ \E l \in Lines : CancelOpens(c, l)
              \/ CancelFlips(c) \/ CancelKillsSession(c) \/ CancelFails(c)
       PROVE  [Promise!Step]_(Promise!lifecycle)
  BY <1>13, <1>u DEF CancelOpens, CancelFlips, CancelKillsSession, CancelFails
<1>14. CASE UNCHANGED vars
  BY <1>14, <1>u DEF vars
<1>. QED
  BY <1>1, <1>2, <1>3, <1>4, <1>5, <1>6, <1>7, <1>8, <1>9, <1>10, <1>11, <1>12, <1>13,
     <1>14 DEF Next, Recording, Sweep, ManualConfirm, Cancel

(* The whole machinery implements the order's life cycle: what guest and    *)
(* hotel were promised holds whatever fails and whoever races.              *)
THEOREM ImplementsLifecycle == Spec => KeepsPromise
<1>1. Init => Promise!Begin
  BY DEF Init, Promise!Begin
<1>2. IInv /\ IInv' /\ [Next]_vars => [Promise!Step]_(Promise!lifecycle)
  BY StepKeepsPromise
<1>. QED
  BY <1>1, <1>2, Invariance, PTL DEF Spec, KeepsPromise, Promise!Lifecycle
=============================================================================
