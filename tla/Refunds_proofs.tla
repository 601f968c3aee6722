--------------------------- MODULE Refunds_proofs ---------------------------
(***************************************************************************)
(* What holds of Refunds for any number of requests, payments and refunds.  *)
(***************************************************************************)
EXTENDS Refunds, Sums, SequenceTheorems, TLAPS

----------------------------------------------------------------------------
\* Rows, refunds and jobs.

\* Rows with fields of any value: what they add up to is not looked at.
RowOf(D) == [what : D, amount : D, status : D, voided : D, origin : D, refund : D, moved : D]
RefundOf(D) == [origin : D, amount : D, status : D]

RowsFine == \E D : rows \in Seq(RowOf(D))
RefundsFine == \E D : refunds \in Seq(RefundOf(D))

\* Jobs as the steps build them.
LEMMA JobBuilt ==
    ASSUME NEW h, NEW a, NEW m, NEW n, NEW x, NEW y, NEW l
    PROVE  /\ Idle.at = "idle"
           /\ [Idle EXCEPT !.at = a, !.amount = n].at = a
           /\ [Idle EXCEPT !.at = a, !.row = n].at = a
           /\ [Idle EXCEPT !.at = a, !.row = n].row = n
           /\ [Idle EXCEPT !.at = a, !.charges = m, !.paid = n].at = a
           /\ [[Idle EXCEPT !.how = m, !.fee = n] EXCEPT !.at = a, !.owed = x, !.left = l].at = a
           /\ [[Idle EXCEPT !.how = m, !.fee = n] EXCEPT !.at = a].at = a
           /\ [Cancelling(h) EXCEPT !.at = a].at = a
           /\ [Cancelling(h) EXCEPT !.at = a, !.owed = x, !.left = l].at = a
           /\ [Cancelling(h) EXCEPT !.at = a, !.charges = m, !.paid = n].at = a
           /\ [[Cancelling(h) EXCEPT !.left = l, !.owed = x, !.amount = n, !.row = y]
                  EXCEPT !.at = a].at = a
           /\ [[Cancelling(h) EXCEPT !.left = l, !.owed = x, !.amount = n, !.row = y]
                  EXCEPT !.at = a].row = y
           /\ [[Cancelling(h) EXCEPT !.left = l, !.owed = x, !.amount = n, !.row = y]
                  EXCEPT !.at = a].amount = n
BY DEF Idle, Cancelling

\* A row that is appended.
LEMMA RowAppended ==
    ASSUME RowsFine, NEW r, NEW D, r \in RowOf(D), rows' = Append(rows, r)
    PROVE  /\ RowsFine'
           /\ DOMAIN rows' = DOMAIN rows \union {Len(rows) + 1}
           /\ Len(rows) + 1 \notin DOMAIN rows
           /\ \A i \in DOMAIN rows : rows'[i] = rows[i]
           /\ rows'[Len(rows) + 1] = r
<1>1. PICK E : rows \in Seq(RowOf(E))
  BY DEF RowsFine
<1> DEFINE S == RowOf(D \union E)
<1>2. RowOf(D) \subseteq S /\ RowOf(E) \subseteq S
  BY DEF RowOf
<1> HIDE DEF S
<1>3. rows \in Seq(S) /\ r \in S
  BY <1>1, <1>2
<1>4. rows' \in Seq(S)
  BY <1>3
<1>5. RowsFine'
  BY <1>4 DEF RowsFine, S
<1> QED
  BY <1>3, <1>5

\* A row one of whose fields is set.
LEMMA RowEdited ==
    ASSUME RowsFine, NEW i, NEW v,
           \/ rows' = [rows EXCEPT ![i].status = v]
           \/ rows' = [rows EXCEPT ![i].moved = v]
           \/ rows' = [rows EXCEPT ![i].voided = v]
    PROVE  /\ RowsFine'
           /\ DOMAIN rows' = DOMAIN rows
           /\ \A k \in DOMAIN rows :
                  /\ rows'[k].what = rows[k].what
                  /\ rows'[k].amount = rows[k].amount
                  /\ rows'[k].origin = rows[k].origin
                  /\ rows'[k].refund = rows[k].refund
           /\ \A k \in DOMAIN rows : k # i => rows'[k] = rows[k]
           /\ i \in DOMAIN rows =>
                  /\ rows' = [rows EXCEPT ![i].status = v] =>
                         rows'[i].status = v /\ rows'[i].moved = rows[i].moved
                  /\ rows' = [rows EXCEPT ![i].moved = v] =>
                         rows'[i].moved = v /\ rows'[i].status = rows[i].status
                  /\ rows' = [rows EXCEPT ![i].voided = v] =>
                         rows'[i].moved = rows[i].moved /\ rows'[i].status = rows[i].status
<1>1. PICK D : rows \in Seq(RowOf(D))
  BY DEF RowsFine
<1> DEFINE S == RowOf(D \union {v})
<1>2. RowOf(D) \subseteq S
  BY DEF RowOf
<1>3. \A r \in RowOf(D) :
          /\ [r EXCEPT !.status = v] \in S
          /\ [r EXCEPT !.moved = v] \in S
          /\ [r EXCEPT !.voided = v] \in S
  BY DEF RowOf
<1>4. \A r \in RowOf(D) : \A q :
          q = [r EXCEPT !.status = v] \/ q = [r EXCEPT !.moved = v] \/ q = [r EXCEPT !.voided = v]
          => q.what = r.what /\ q.amount = r.amount /\ q.origin = r.origin /\ q.refund = r.refund
  BY DEF RowOf
<1>11. \A r \in RowOf(D) :
           /\ [r EXCEPT !.status = v].status = v /\ [r EXCEPT !.status = v].moved = r.moved
           /\ [r EXCEPT !.moved = v].moved = v /\ [r EXCEPT !.moved = v].status = r.status
           /\ [r EXCEPT !.voided = v].moved = r.moved
           /\ [r EXCEPT !.voided = v].status = r.status
  BY DEF RowOf
<1>5. /\ DOMAIN rows' = DOMAIN rows
      /\ \A k \in DOMAIN rows : k # i => rows'[k] = rows[k]
      /\ i \in DOMAIN rows =>
             \/ rows'[i] = [rows[i] EXCEPT !.status = v]
             \/ rows'[i] = [rows[i] EXCEPT !.moved = v]
             \/ rows'[i] = [rows[i] EXCEPT !.voided = v]
      /\ rows' = [k \in DOMAIN rows |-> rows'[k]]
  BY <1>1
<1>6. \A k \in DOMAIN rows : rows[k] \in RowOf(D)
  BY <1>1
<1>7. \A k \in DOMAIN rows : rows'[k] \in S
  BY <1>2, <1>3, <1>5, <1>6
<1> HIDE DEF S
<1>8. Len(rows) \in Nat /\ DOMAIN rows = 1 .. Len(rows)
  BY <1>1
<1>9. rows' \in Seq(S)
  BY <1>5, <1>7, <1>8
<1>10. RowsFine'
  BY <1>9 DEF RowsFine, S
<1>12. ASSUME i \in DOMAIN rows
       PROVE  /\ rows' = [rows EXCEPT ![i].status = v] =>
                     rows'[i].status = v /\ rows'[i].moved = rows[i].moved
              /\ rows' = [rows EXCEPT ![i].moved = v] =>
                     rows'[i].moved = v /\ rows'[i].status = rows[i].status
              /\ rows' = [rows EXCEPT ![i].voided = v] =>
                     rows'[i].moved = rows[i].moved /\ rows'[i].status = rows[i].status
  <2>1. rows[i] \in RowOf(D)
    BY <1>6, <1>12
  <2>2. ASSUME rows' = [rows EXCEPT ![i].status = v]
        PROVE  rows'[i].status = v /\ rows'[i].moved = rows[i].moved
    <3>1. rows'[i] = [rows[i] EXCEPT !.status = v]
      BY <1>1, <1>12, <2>2
    <3> QED
      BY <1>11, <2>1, <3>1
  <2>3. ASSUME rows' = [rows EXCEPT ![i].moved = v]
        PROVE  rows'[i].moved = v /\ rows'[i].status = rows[i].status
    <3>1. rows'[i] = [rows[i] EXCEPT !.moved = v]
      BY <1>1, <1>12, <2>3
    <3> QED
      BY <1>11, <2>1, <3>1
  <2>4. ASSUME rows' = [rows EXCEPT ![i].voided = v]
        PROVE  rows'[i].moved = rows[i].moved /\ rows'[i].status = rows[i].status
    <3>1. rows'[i] = [rows[i] EXCEPT !.voided = v]
      BY <1>1, <1>12, <2>4
    <3> QED
      BY <1>11, <2>1, <3>1
  <2> QED
    BY <2>2, <2>3, <2>4
<1> QED
  BY <1>4, <1>5, <1>6, <1>10, <1>12

----------------------------------------------------------------------------
\* The end of a booking.

Ending(h) == job[h].at \in {"cancel", "no_show"}
Payouts == {i \in DOMAIN rows : rows[i].what = "cancellation"}

EInv ==
    /\ RowsFine
    /\ DOMAIN job = Handlers
    /\ \A g, h \in Handlers : Ending(g) /\ Ending(h) => g = h
    /\ \A h \in Handlers : Ending(h) => booking = "confirmed"
    /\ settled = <<>> \/ \E n : settled = <<n>>
    /\ \A i, k \in Payouts : i = k
    /\ booking = "confirmed" => settled = <<>> /\ Payouts = {}
    /\ Payouts # {} => booking = "cancelled"

\* A step after which the booking stands as before and nobody new is ending it.
LEMMA EndUntouched ==
    ASSUME EInv, UNCHANGED <<booking, settled>>, RowsFine', Payouts' = Payouts,
           DOMAIN job' = Handlers, \A h \in Handlers : Ending(h)' => Ending(h)
    PROVE  EInv'
BY DEF EInv

\* A request that moves on, but not to end the booking.
LEMMA NotEnding ==
    ASSUME DOMAIN job = Handlers, NEW h \in Handlers, NEW j, Does(h, j),
           j.at \notin {"cancel", "no_show"}
    PROVE  DOMAIN job' = Handlers /\ \A g \in Handlers : Ending(g)' => Ending(g)
BY DEF Does, Ending

LEMMA JobsKept ==
    ASSUME DOMAIN job = Handlers, UNCHANGED job
    PROVE  DOMAIN job' = Handlers /\ \A g \in Handlers : Ending(g)' => Ending(g)
BY DEF Ending

\* Rows that are left alone, written or edited outside the cancellation.
LEMMA RowsKept ==
    ASSUME RowsFine, UNCHANGED rows
    PROVE  RowsFine' /\ Payouts' = Payouts
BY DEF RowsFine, Payouts

LEMMA RowWritten ==
    ASSUME RowsFine, NEW r, NEW D, r \in RowOf(D), Written(r), r.what # "cancellation"
    PROVE  RowsFine' /\ Payouts' = Payouts
<1>1. rows' = Append(rows, r)
  BY DEF Written
<1>2. /\ RowsFine'
      /\ DOMAIN rows' = DOMAIN rows \union {Len(rows) + 1}
      /\ Len(rows) + 1 \notin DOMAIN rows
      /\ \A i \in DOMAIN rows : rows'[i] = rows[i]
      /\ rows'[Len(rows) + 1] = r
  BY <1>1, RowAppended
<1> QED
  BY <1>2 DEF Payouts

LEMMA RowSet ==
    ASSUME RowsFine, NEW i, NEW v,
           \/ rows' = [rows EXCEPT ![i].status = v]
           \/ rows' = [rows EXCEPT ![i].moved = v]
           \/ rows' = [rows EXCEPT ![i].voided = v]
    PROVE  RowsFine' /\ Payouts' = Payouts
BY RowEdited DEF Payouts

LEMMA CashRowIsRow ==
    ASSUME NEW w, NEW n
    PROVE  /\ CashRow(w, n) \in RowOf({w, n, "paid", FALSE, 0, 1})
           /\ CashRow(w, n).what = w
           /\ CashRow(w, n).refund = 0
BY DEF CashRow, RowOf

LEMMA RefundRowIsRow ==
    ASSUME NEW n, NEW a, NEW s, NEW m
    PROVE  /\ RefundRow(n, a, s, m)
                  \in RowOf({"refund", -a, s, FALSE, refunds[n].origin, n, m})
           /\ RefundRow(n, a, s, m).what = "refund"
           /\ RefundRow(n, a, s, m).amount = -a
           /\ RefundRow(n, a, s, m).status = s
           /\ RefundRow(n, a, s, m).origin = refunds[n].origin
           /\ RefundRow(n, a, s, m).refund = n
           /\ RefundRow(n, a, s, m).moved = m
BY DEF RefundRow, RowOf

LEMMA CashRowWritten ==
    ASSUME RowsFine, NEW w, NEW n, w # "cancellation", Written(CashRow(w, n))
    PROVE  RowsFine' /\ Payouts' = Payouts
BY RowWritten, CashRowIsRow

LEMMA RefundRowWritten ==
    ASSUME RowsFine, NEW n, NEW a, NEW s, NEW m, Written(RefundRow(n, a, s, m))
    PROVE  RowsFine' /\ Payouts' = Payouts
<1> DEFINE r == RefundRow(n, a, s, m)
           D == {"refund", -a, s, FALSE, refunds[n].origin, n, m}
<1>1. r \in RowOf(D) /\ r.what = "refund"
  BY DEF RefundRow, RowOf
<1> HIDE DEF D
<1> QED
  BY <1>1, RowWritten

\* Every step keeps the booking's end its only one.
LEMMA EndStep == EInv /\ [Next]_vars => EInv'
<1> SUFFICES ASSUME EInv, [Next]_vars
             PROVE  EInv'
  OBVIOUS
<1>0. RowsFine /\ DOMAIN job = Handlers
  BY DEF EInv
<1> DEFINE Quiet == /\ UNCHANGED <<booking, settled>>
                    /\ RowsFine' /\ Payouts' = Payouts
                    /\ DOMAIN job' = Handlers /\ \A h \in Handlers : Ending(h)' => Ending(h)
<1>1. Quiet => EInv'
  BY EndUntouched
<1> HIDE DEF Quiet
<1>2. ASSUME NEW h \in Staff, DeskStep(h)
      PROVE  EInv'
  <2> h \in Handlers
    BY DEF Handlers
  <2>1. ASSUME NEW n \in Amounts, PaymentRequested(h, n) \/ ReturnRequested(h, n)
        PROVE  Quiet
    BY <1>0, <2>1, NotEnding, RowsKept DEF PaymentRequested, ReturnRequested, Idle, Quiet
  <2>2. CASE PaymentTaken(h)
    <3>1. Does(h, Idle) /\ Idle.at = "idle"
      BY <2>2, JobBuilt DEF PaymentTaken
    <3>2. RowsFine' /\ Payouts' = Payouts
      BY <1>0, <2>2, CashRowWritten DEF PaymentTaken
    <3> QED
      BY <1>0, <1>1, <2>2, <3>1, <3>2, NotEnding DEF PaymentTaken, bill, Quiet
  <2>3. CASE Returned(h)
    <3>1. Does(h, Idle) /\ Idle.at = "idle"
      BY <2>3, JobBuilt DEF Returned
    <3>2. RowsFine' /\ Payouts' = Payouts
      BY <1>0, <2>3, CashRowWritten DEF Returned
    <3> QED
      BY <1>0, <1>1, <2>3, <3>1, <3>2, NotEnding DEF Returned, bill, Quiet
  <2> QED
    BY <1>1, <1>2, <2>1, <2>2, <2>3 DEF DeskStep
<1>3. ASSUME NEW h \in Staff, CancelStep(h)
      PROVE  EInv'
  <2> h \in Handlers
    BY DEF Handlers
  <2>1. ASSUME NEW fee \in Fees, NEW how \in {"desk", "paymongo"}, CancelRequested(h, fee, how)
        PROVE  Quiet
    <3> DEFINE i == [Idle EXCEPT !.how = how, !.fee = fee]
               p == [i EXCEPT !.at = "refund", !.owed = RefundDue(fee, Paid, Charges),
                              !.left = [o \in Online |-> Remaining(o)]]
               q == [i EXCEPT !.at = "decide"]
    <3>0. p.at = "refund" /\ q.at = "decide"
      BY JobBuilt
    <3>2. Does(h, p) \/ Does(h, q)
      BY <2>1 DEF CancelRequested
    <3> HIDE DEF p, q
    <3>1. PICK j : Does(h, j) /\ j.at \in {"refund", "decide"}
      BY <3>0, <3>2
    <3> QED
      BY <1>0, <2>1, <3>1, NotEnding, RowsKept DEF CancelRequested, Quiet
  <2>2. CASE RefundAsked(h)
    <3> DEFINE Chunk(o) == Least(job[h].owed, job[h].left[o])
               J(o, a) == [[Cancelling(h) EXCEPT
                               !.left = job[h].left, !.owed = job[h].owed,
                               !.amount = Chunk(o), !.row = Len(refunds) + 1] EXCEPT !.at = a]
    <3>0. \A o, a : J(o, a).at = a
      BY JobBuilt
    <3>2. \/ Does(h, Idle)
          \/ \E o \in NextOrigin(h) : Does(h, J(o, "record")) \/ Does(h, J(o, "record_failed"))
      BY <2>2 DEF RefundAsked
    <3>3. Idle.at = "idle"
      BY JobBuilt
    <3> HIDE DEF J
    <3>1. PICK j : Does(h, j) /\ j.at \in {"record", "record_failed", "idle"}
      BY <3>0, <3>2, <3>3
    <3> QED
      BY <1>0, <1>1, <2>2, <3>1, NotEnding, RowsKept DEF RefundAsked, bill, Quiet
  <2>3. CASE RefundRecorded(h)
    <3> DEFINE p == [Cancelling(h) EXCEPT !.at = "decide"]
               q == [Cancelling(h) EXCEPT
                        !.at = "refund", !.owed = job[h].owed - job[h].amount,
                        !.left = [job[h].left EXCEPT ![refunds[job[h].row].origin] = 0]]
    <3>0. p.at = "decide" /\ q.at = "refund"
      BY JobBuilt
    <3>3. Does(h, p) \/ Does(h, q)
      BY <2>3 DEF RefundRecorded
    <3> HIDE DEF p, q
    <3>1. PICK j : Does(h, j) /\ j.at \in {"decide", "refund"}
      BY <3>0, <3>3
    <3>2. RowsFine' /\ Payouts' = Payouts
      BY <1>0, <2>3, RefundRowWritten DEF RefundRecorded
    <3> QED
      BY <1>0, <1>1, <2>3, <3>1, <3>2, NotEnding DEF RefundRecorded, bill, Quiet
  <2>4. CASE FailureRecorded(h)
    <3>1. Does(h, Idle) /\ Idle.at = "idle"
      BY <2>4, JobBuilt DEF FailureRecorded
    <3>2. RowsFine' /\ Payouts' = Payouts
      BY <1>0, <2>4, RefundRowWritten DEF FailureRecorded
    <3> QED
      BY <1>0, <1>1, <2>4, <3>1, <3>2, NotEnding DEF FailureRecorded, bill, Quiet
  <2>5. CASE CancelDecided(h) /\ MayEnd(h)
    <3>1. PICK j : Does(h, j)
      BY <2>5 DEF CancelDecided
    <3>2. DOMAIN job' = Handlers /\ \A g \in Handlers \ {h} : job'[g] = job[g]
      BY <1>0, <3>1 DEF Does
    <3>3. \A g \in Handlers \ {h} : ~Ending(g)'
      BY <2>5, <3>2 DEF MayEnd, Ending
    <3> QED
      BY <1>0, <2>5, <3>2, <3>3 DEF CancelDecided, MayEnd, EInv, bill, Payouts, RowsFine
  <2>6. CASE CancelDecided(h) /\ ~MayEnd(h)
    <3>1. Does(h, Idle) /\ Idle.at = "idle"
      BY <2>6, JobBuilt DEF CancelDecided
    <3> QED
      BY <1>0, <1>1, <2>6, <3>1, NotEnding, RowsKept DEF CancelDecided, bill, Quiet
  <2>7. CASE CancelCommitted(h)
    <3>1. Ending(h)
      BY <2>7 DEF CancelCommitted, Ending
    <3>2. DOMAIN job' = Handlers /\ \A g \in Handlers : ~Ending(g)'
      BY <1>0, <2>7, <3>1 DEF CancelCommitted, Does, EInv, Ending, Idle
    <3>3. settled = <<>> /\ Payouts = {} /\ booking' = "cancelled"
      BY <2>7, <3>1 DEF CancelCommitted, EInv
    <3>4. settled' = <<>> \/ \E n : settled' = <<n>>
      BY <2>7, <3>3 DEF CancelCommitted
    <3>5. RowsFine' /\ \A i, k \in Payouts' : i = k
      <4>1. CASE rows' = rows
        BY <1>0, <3>3, <4>1 DEF RowsFine, Payouts
      <4>2. CASE rows' # rows
        <5>1. PICK n : Written(CashRow("cancellation", n))
          BY <2>7, <4>2 DEF CancelCommitted
        <5>2. CashRow("cancellation", n) \in RowOf({"cancellation", n, "paid", FALSE, 0, 1})
          BY CashRowIsRow
        <5> QED
          BY <1>0, <3>3, <5>1, <5>2, RowAppended DEF Written, Payouts
      <4> QED
        BY <4>1, <4>2
    <3> QED
      BY <3>2, <3>3, <3>4, <3>5 DEF EInv
  <2>8. CASE NoShowDecided(h)
    <3>1. PICK j : Does(h, j)
      BY <2>8 DEF NoShowDecided
    <3>2. DOMAIN job' = Handlers /\ \A g \in Handlers \ {h} : job'[g] = job[g]
      BY <1>0, <3>1 DEF Does
    <3>3. \A g \in Handlers \ {h} : ~Ending(g)'
      BY <2>8, <3>2 DEF NoShowDecided, MayEnd, Ending
    <3> QED
      BY <1>0, <2>8, <3>2, <3>3 DEF NoShowDecided, MayEnd, EInv, bill, Payouts, RowsFine
  <2>9. CASE NoShowCommitted(h)
    <3>1. Ending(h)
      BY <2>9 DEF NoShowCommitted, Ending
    <3>2. DOMAIN job' = Handlers /\ \A g \in Handlers : ~Ending(g)'
      BY <1>0, <2>9, <3>1 DEF NoShowCommitted, Does, EInv, Ending, Idle
    <3>3. settled = <<>> /\ Payouts = {} /\ booking' = "no_show" /\ rows' = rows
      BY <2>9, <3>1 DEF NoShowCommitted, EInv
    <3>4. settled' = <<>> \/ \E n : settled' = <<n>>
      BY <2>9, <3>3 DEF NoShowCommitted
    <3> QED
      BY <1>0, <3>2, <3>3, <3>4 DEF EInv, RowsFine, Payouts
  <2> QED
    BY <1>1, <1>3, <2>1, <2>2, <2>3, <2>4, <2>5, <2>6, <2>7, <2>8, <2>9 DEF CancelStep
<1>4. ASSUME NEW i \in DOMAIN rows, PaymentVoided(i)
      PROVE  EInv'
  BY <1>0, <1>1, <1>4, RowSet, JobsKept DEF PaymentVoided, bill, Quiet
<1>5. CASE FolioOpened \/ ChargeAdded \/ ChargeVoided
  BY <1>0, <1>1, <1>5, RowsKept, JobsKept DEF FolioOpened, ChargeAdded, ChargeVoided, Quiet
<1>6. ASSUME NEW n \in DOMAIN refunds, RefundSettles(n)
      PROVE  EInv'
  BY <1>0, <1>1, <1>6, RowsKept, JobsKept DEF RefundSettles, bill, Quiet
<1>7. ASSUME NEW k \in Hooks, HookStep(k)
      PROVE  EInv'
  <2> k \in Handlers
    BY DEF Handlers
  <2>1. ASSUME NEW e \in events, HookReads(k, e)
        PROVE  Quiet
    <3>0. PICK i \in DOMAIN rows :
              \/ Does(k, [Idle EXCEPT !.at = "confirm", !.row = i])
              \/ Does(k, [Idle EXCEPT !.at = "fail", !.row = i])
      BY <2>1 DEF HookReads
    <3> DEFINE p == [Idle EXCEPT !.at = "confirm", !.row = i]
               q == [Idle EXCEPT !.at = "fail", !.row = i]
    <3>2. p.at = "confirm" /\ q.at = "fail"
      BY JobBuilt
    <3>3. Does(k, p) \/ Does(k, q)
      BY <3>0
    <3> HIDE DEF p, q
    <3>1. PICK j : Does(k, j) /\ j.at \in {"confirm", "fail"}
      BY <3>2, <3>3
    <3> QED
      BY <1>0, <2>1, <3>1, NotEnding, RowsKept DEF HookReads, bill, Quiet
  <2>2. CASE HookConfirms(k)
    <3> DEFINE j == [Idle EXCEPT !.at = "post", !.row = job[k].row]
    <3>1. Does(k, j) /\ j.at = "post"
      BY <2>2, JobBuilt DEF HookConfirms
    <3> HIDE DEF j
    <3> QED
      BY <1>0, <1>1, <2>2, <3>1, NotEnding, RowSet DEF HookConfirms, bill, Quiet
  <2>3. CASE HookPosts(k)
    <3>1. RowsFine' /\ Payouts' = Payouts
      BY <1>0, <2>3, RowsKept, RowSet DEF HookPosts
    <3>2. Does(k, Idle) /\ Idle.at = "idle"
      BY <2>3, JobBuilt DEF HookPosts
    <3> QED
      BY <1>0, <1>1, <2>3, <3>1, <3>2, NotEnding DEF HookPosts, bill, Quiet
  <2>4. CASE HookFails(k)
    <3>1. Does(k, Idle) /\ Idle.at = "idle"
      BY <2>4, JobBuilt DEF HookFails
    <3> QED
      BY <1>0, <1>1, <2>4, <3>1, NotEnding, RowSet DEF HookFails, bill, Quiet
  <2> QED
    BY <1>1, <1>7, <2>1, <2>2, <2>3, <2>4 DEF HookStep
<1>8. ASSUME NEW h \in Handlers, HandlerDies(h)
      PROVE  EInv'
  BY <1>0, <1>1, <1>8, NotEnding, RowsKept DEF HandlerDies, Idle, bill, Quiet
<1>9. CASE UNCHANGED vars
  BY <1>0, <1>1, <1>9, RowsKept, JobsKept DEF vars, bill, Quiet
<1> QED
  BY <1>2, <1>3, <1>4, <1>5, <1>6, <1>7, <1>8, <1>9 DEF Next

\* At the start the booking is confirmed and nothing was settled.
LEMMA EndInit == Init => EInv
<1> SUFFICES ASSUME Init PROVE EInv
  OBVIOUS
<1>1. rows = <<>> /\ <<>> \in Seq(RowOf({}))
  BY DEF Init
<1> QED
  BY <1>1 DEF Init, EInv, RowsFine, Ending, Payouts, Idle

\* However many cancellations and no-shows of a booking run at once, however they are lost
\* half-way, and whatever refunds were made before, one of them ends it (cancelBooking,
\* markNoShow).
THEOREM OneEnd == Spec => []SettledOnce
<1>1. Init => EInv
  BY EndInit
<1>2. EInv /\ [Next]_vars => EInv'
  BY EndStep
<1>3. EInv => SettledOnce
  <2> SUFFICES ASSUME EInv PROVE SettledOnce
    OBVIOUS
  <2>1. Len(settled) <= 1
    <3>1. CASE settled = <<>>
      BY <3>1
    <3>2. ASSUME NEW n, settled = <<n>> PROVE Len(settled) <= 1
      BY <3>2
    <3> QED
      BY <3>1, <3>2 DEF EInv
  <2> QED
    BY <2>1 DEF EInv, SettledOnce, Payouts
<1> QED
  BY <1>1, <1>2, <1>3, PTL DEF Spec

----------------------------------------------------------------------------
\* Refunds on the books and at PayMongo.

Asking(h) == job[h].at \in {"record", "record_failed"}
Confirming(h) == job[h].at = "confirm"
Plain(j) == j.at \notin {"record", "record_failed", "confirm"}

\* A refund on the books.
Real(i) ==
    /\ rows[i].refund \in DOMAIN refunds
    /\ rows[i].origin = refunds[rows[i].refund].origin
    /\ rows[i].amount = -refunds[rows[i].refund].amount
    /\ \A k \in DOMAIN rows : rows[k].refund = rows[i].refund => k = i
    /\ rows[i].origin \in QrPh /\ rows[i].status = "paid" =>
           refunds[rows[i].refund].status = "succeeded"

RowsReal ==
    \A i \in DOMAIN rows : IF rows[i].what = "refund" THEN Real(i) ELSE rows[i].refund = 0

\* A refund that was asked for and is not on the books yet.
JobsReal ==
    /\ \A h \in Handlers : Asking(h) =>
           /\ job[h].row \in DOMAIN refunds
           /\ job[h].amount = refunds[job[h].row].amount
           /\ \A i \in DOMAIN rows : rows[i].refund # job[h].row
    /\ \A g, h \in Handlers : Asking(g) /\ Asking(h) /\ job[g].row = job[h].row => g = h
    /\ \A k \in Handlers : Confirming(k) =>
           /\ job[k].row \in DOMAIN rows
           /\ rows[job[k].row].refund \in DOMAIN refunds
           /\ refunds[rows[job[k].row].refund].status = "succeeded"

EventsReal ==
    \A e \in events :
        /\ e.refund \in DOMAIN refunds /\ refunds[e.refund].status = e.status
        /\ e.status # "processing"

RInv ==
    /\ RowsFine /\ RefundsFine /\ DOMAIN job = Handlers
    /\ RowsReal /\ JobsReal /\ EventsReal

\* No request starts to ask for a refund or to confirm one.
JobsPlain == DOMAIN job' = Handlers /\ \A g \in Handlers : job'[g] = job[g] \/ Plain(job'[g])

LEMMA NowPlain ==
    ASSUME DOMAIN job = Handlers, NEW h \in Handlers, NEW j, Does(h, j), Plain(j)
    PROVE  JobsPlain
BY DEF Does, JobsPlain

LEMMA StillPlain ==
    ASSUME DOMAIN job = Handlers, UNCHANGED job
    PROVE  JobsPlain
BY DEF JobsPlain

\* Rows, refunds and events as they were.
LEMMA RealUntouched ==
    ASSUME RInv, UNCHANGED <<rows, refunds, events>>, JobsPlain
    PROVE  RInv'
<1>1. RowsReal' /\ EventsReal'
  BY DEF RInv, RowsReal, EventsReal, Real
<1>2. JobsReal'
  BY DEF RInv, JobsReal, JobsPlain, Plain, Asking, Confirming
<1> QED
  BY <1>1, <1>2 DEF RInv, RowsFine, RefundsFine, JobsPlain

\* The identifiers of refunds start at one.
LEMMA RefundNumbers ==
    ASSUME RefundsFine
    PROVE  0 \notin DOMAIN refunds /\ Len(refunds) \in Nat /\ DOMAIN refunds = 1 .. Len(refunds)
<1>1. PICK D : refunds \in Seq(RefundOf(D))
  BY DEF RefundsFine
<1> QED
  BY <1>1

\* A row of the desk is written.
LEMMA RealBesideCash ==
    ASSUME RInv, UNCHANGED <<refunds, events>>, JobsPlain,
           NEW w, NEW n, w # "refund", Written(CashRow(w, n))
    PROVE  RInv'
<1> DEFINE r == CashRow(w, n)
<1>1. r \in RowOf({w, n, "paid", FALSE, 0, 1}) /\ r.what # "refund" /\ r.refund = 0
  BY DEF CashRow, RowOf
<1>2. rows' = Append(rows, r) /\ RowsFine
  BY DEF Written, RInv
<1> HIDE DEF r
<1>3. /\ RowsFine'
      /\ DOMAIN rows' = DOMAIN rows \union {Len(rows) + 1}
      /\ Len(rows) + 1 \notin DOMAIN rows
      /\ \A i \in DOMAIN rows : rows'[i] = rows[i]
      /\ rows'[Len(rows) + 1] = r
  BY <1>1, <1>2, RowAppended
<1>4. 0 \notin DOMAIN refunds
  BY RefundNumbers DEF RInv
<1>5. RowsReal'
  BY <1>1, <1>3, <1>4 DEF RInv, RowsReal, Real
<1>6. JobsReal'
  BY <1>1, <1>3, <1>4 DEF RInv, JobsReal, JobsPlain, Plain, Asking, Confirming
<1> QED
  BY <1>3, <1>5, <1>6 DEF RInv, EventsReal, RefundsFine, JobsPlain

\* A field of a row is set, and no refund is shown as paid that was not.
LEMMA RealWhenSet ==
    ASSUME RInv, UNCHANGED <<refunds, events>>, JobsPlain, NEW i, NEW v,
           \/ rows' = [rows EXCEPT ![i].status = v]
           \/ rows' = [rows EXCEPT ![i].moved = v]
           \/ rows' = [rows EXCEPT ![i].voided = v],
           i \in DOMAIN rows =>
               \/ rows'[i].status = rows[i].status
               \/ rows'[i].status # "paid"
               \/ refunds[rows[i].refund].status = "succeeded"
    PROVE  RInv'
<1>1. /\ RowsFine'
      /\ DOMAIN rows' = DOMAIN rows
      /\ \A k \in DOMAIN rows :
             /\ rows'[k].what = rows[k].what
             /\ rows'[k].amount = rows[k].amount
             /\ rows'[k].origin = rows[k].origin
             /\ rows'[k].refund = rows[k].refund
      /\ \A k \in DOMAIN rows : k # i => rows'[k] = rows[k]
  BY RowEdited DEF RInv
<1>3. RowsReal'
  BY <1>1 DEF RInv, RowsReal, Real
<1>4. JobsReal'
  BY <1>1 DEF RInv, JobsReal, JobsPlain, Plain, Asking, Confirming
<1> QED
  BY <1>1, <1>3, <1>4 DEF RInv, EventsReal, RefundsFine, JobsPlain

\* The fields that handlers set.
LEMMA RealWhenVoided ==
    ASSUME RInv, UNCHANGED <<refunds, events>>, JobsPlain, NEW i, NEW v,
           rows' = [rows EXCEPT ![i].voided = v]
    PROVE  RInv'
<1>1. i \in DOMAIN rows => rows'[i].status = rows[i].status
  BY RowEdited DEF RInv
<1> QED
  BY <1>1, RealWhenSet

LEMMA RealWhenMoved ==
    ASSUME RInv, UNCHANGED <<refunds, events>>, JobsPlain, NEW i, NEW v,
           rows' = [rows EXCEPT ![i].moved = v]
    PROVE  RInv'
<1>1. i \in DOMAIN rows => rows'[i].status = rows[i].status
  BY RowEdited DEF RInv
<1> QED
  BY <1>1, RealWhenSet

LEMMA RealWhenPaid ==
    ASSUME RInv, UNCHANGED <<refunds, events>>, JobsPlain, NEW i,
           rows' = [rows EXCEPT ![i].status = "paid"],
           refunds[rows[i].refund].status = "succeeded"
    PROVE  RInv'
BY RealWhenSet

LEMMA RealWhenFailed ==
    ASSUME RInv, UNCHANGED <<refunds, events>>, JobsPlain, NEW i,
           rows' = [rows EXCEPT ![i].status = "failed"]
    PROVE  RInv'
<1>1. i \in DOMAIN rows => rows'[i].status = "failed"
  BY RowEdited DEF RInv
<1> QED
  BY <1>1, RealWhenSet

\* A refund event is about to confirm or to fail a row.
LEMMA RealConfirming ==
    ASSUME RInv, NEW k \in Handlers, NEW e \in events, HookReads(k, e)
    PROVE  RInv'
<1>1. PICK i \in DOMAIN rows :
          /\ rows[i].refund = e.refund
          /\ \/ /\ Confirms(e, rows[i])
                /\ Does(k, [Idle EXCEPT !.at = "confirm", !.row = i])
             \/ Does(k, [Idle EXCEPT !.at = "fail", !.row = i])
  BY DEF HookReads
<1> DEFINE p == [Idle EXCEPT !.at = "confirm", !.row = i]
           q == [Idle EXCEPT !.at = "fail", !.row = i]
<1>2. p.at = "confirm" /\ p.row = i /\ q.at = "fail"
  BY JobBuilt
<1>3. (Confirms(e, rows[i]) /\ Does(k, p)) \/ Does(k, q)
  BY <1>1
<1> HIDE DEF p, q
<1>4. UNCHANGED <<rows, refunds, events>> /\ DOMAIN job = Handlers
  BY DEF HookReads, RInv
<1>5. CASE Does(k, q)
  BY <1>2, <1>4, <1>5, NowPlain, RealUntouched DEF Plain
<1>6. CASE Confirms(e, rows[i]) /\ Does(k, p)
  <2>1. /\ DOMAIN job' = Handlers /\ job'[k] = p
        /\ \A g \in Handlers \ {k} : job'[g] = job[g]
    BY <1>4, <1>6 DEF Does
  <2>2. rows[i].refund \in DOMAIN refunds /\ refunds[rows[i].refund].status = "succeeded"
    BY <1>1, <1>6 DEF RInv, EventsReal, Confirms
  <2>3. JobsReal'
    BY <1>2, <1>4, <2>1, <2>2 DEF RInv, JobsReal, Asking, Confirming
  <2> QED
    BY <1>4, <2>1, <2>3 DEF RInv, RowsFine, RefundsFine, RowsReal, Real, EventsReal
<1> QED
  BY <1>3, <1>5, <1>6

\* The row of a refund that was asked for is written.
LEMMA RealBooked ==
    ASSUME RInv, UNCHANGED <<refunds, events>>, NEW h \in Handlers, Asking(h), JobsPlain,
           Plain(job'[h]), NEW s, NEW m, Written(RefundRow(job[h].row, job[h].amount, s, m)),
           refunds[job[h].row].origin \in QrPh => s # "paid"
    PROVE  RInv'
<1> DEFINE n == job[h].row
           a == job[h].amount
           r == RefundRow(n, a, s, m)
           D == {"refund", -a, s, FALSE, refunds[n].origin, n, m}
<1>1. /\ r \in RowOf(D)
      /\ r.what = "refund" /\ r.amount = -a /\ r.status = s
      /\ r.origin = refunds[n].origin /\ r.refund = n
  BY DEF RefundRow, RowOf
<1>2. rows' = Append(rows, r) /\ RowsFine
  BY DEF Written, RInv
<1>3. n \in DOMAIN refunds /\ a = refunds[n].amount /\ \A i \in DOMAIN rows : rows[i].refund # n
  BY DEF RInv, JobsReal
<1>7. \A g \in Handlers : Asking(g)' => Asking(g) /\ job'[g] = job[g] /\ job[g].row # n
  BY DEF RInv, JobsReal, JobsPlain, Plain, Asking
<1>8. \A g \in Handlers : Confirming(g)' => Confirming(g) /\ job'[g] = job[g]
  BY DEF JobsPlain, Plain, Confirming
<1>9. refunds[n].origin \in QrPh => s # "paid"
  OBVIOUS
<1> HIDE DEF r, D, n, a
<1>4. /\ RowsFine'
      /\ DOMAIN rows' = DOMAIN rows \union {Len(rows) + 1}
      /\ Len(rows) + 1 \notin DOMAIN rows
      /\ \A i \in DOMAIN rows : rows'[i] = rows[i]
      /\ rows'[Len(rows) + 1] = r
  BY <1>1, <1>2, RowAppended
<1>10. 0 \notin DOMAIN refunds
  BY RefundNumbers DEF RInv
<1>5. RowsReal'
  <2>1. ASSUME NEW i \in DOMAIN rows
        PROVE  IF rows'[i].what = "refund" THEN Real(i)' ELSE rows'[i].refund = 0
    BY <1>1, <1>3, <1>4 DEF RInv, RowsReal, Real
  <2>2. ASSUME NEW z, z = Len(rows) + 1
        PROVE  rows'[z].what = "refund" /\ Real(z)'
    BY <1>1, <1>3, <1>4, <1>9, <2>2 DEF Real
  <2>3. PICK z : z = Len(rows) + 1
    OBVIOUS
  <2>4. rows'[z].what = "refund" /\ Real(z)' /\ DOMAIN rows' = DOMAIN rows \union {z}
    BY <1>4, <2>2, <2>3
  <2> QED
    BY <2>1, <2>4 DEF RowsReal
<1>6. JobsReal'
  BY <1>1, <1>4, <1>7, <1>8 DEF RInv, JobsReal
<1> QED
  BY <1>4, <1>5, <1>6 DEF RInv, EventsReal, RefundsFine, JobsPlain

\* PayMongo is asked for a refund.
LEMMA RealAsked ==
    ASSUME RInv, UNCHANGED <<rows, events>>, NEW h \in Handlers, NEW o, NEW a, NEW s, NEW j,
           Asked(o, a, s), Does(h, j), j.row = Len(refunds) + 1, j.amount = a,
           j.at \in {"record", "record_failed"}
    PROVE  RInv'
<1> DEFINE n == Len(refunds) + 1
           r == [origin |-> o, amount |-> a, status |-> s]
<1>1. PICK D : refunds \in Seq(RefundOf(D))
  BY DEF RInv, RefundsFine
<1> DEFINE S == RefundOf(D \union {o, a, s})
<1>2. RefundOf(D) \subseteq S /\ r \in S
  BY DEF RefundOf
<1>3. refunds' = Append(refunds, r) /\ r.amount = a
  BY DEF Asked
<1> HIDE DEF r, S
<1>4. refunds \in Seq(S) /\ refunds' \in Seq(S)
  BY <1>1, <1>2, <1>3
<1>5. RefundsFine'
  BY <1>4 DEF RefundsFine, S
<1>6. /\ DOMAIN refunds' = DOMAIN refunds \union {n}
      /\ n \notin DOMAIN refunds /\ n # 0
      /\ \A i \in DOMAIN refunds : refunds'[i] = refunds[i]
      /\ refunds'[n] = r
  BY <1>3, <1>4
<1>7. \A i \in DOMAIN rows : rows[i].refund # n
  BY <1>6 DEF RInv, RowsReal, Real
<1>8. /\ DOMAIN job' = Handlers
      /\ job'[h] = j
      /\ \A g \in Handlers \ {h} : job'[g] = job[g]
  BY DEF RInv, Does
<1>9. Asking(h)' /\ ~Confirming(h)' /\ job'[h].row = n /\ job'[h].amount = a
  BY <1>8 DEF Asking, Confirming
<1> HIDE DEF n
<1>10. RowsReal'
  BY <1>6 DEF RInv, RowsReal, Real
<1>11. JobsReal'
  BY <1>3, <1>6, <1>7, <1>8, <1>9 DEF RInv, JobsReal, Asking, Confirming
<1>12. EventsReal'
  BY <1>6 DEF RInv, EventsReal
<1> QED
  BY <1>5, <1>8, <1>10, <1>11, <1>12 DEF RInv, RowsFine

\* PayMongo settles a refund that was under way.
LEMMA RealSettled ==
    ASSUME RInv, NEW n \in DOMAIN refunds, RefundSettles(n)
    PROVE  RInv'
<1>1. PICK s \in {"succeeded", "failed"} :
          /\ refunds' = [refunds EXCEPT ![n].status = s]
          /\ events' = events \union {[refund |-> n, status |-> s]}
  BY DEF RefundSettles
<1>2. PICK D : refunds \in Seq(RefundOf(D))
  BY DEF RInv, RefundsFine
<1> DEFINE S == RefundOf(D \union {s})
<1>3. RefundOf(D) \subseteq S
  BY DEF RefundOf
<1>4. \A r \in RefundOf(D) :
          /\ [r EXCEPT !.status = s] \in S
          /\ [r EXCEPT !.status = s].status = s
          /\ [r EXCEPT !.status = s].origin = r.origin
          /\ [r EXCEPT !.status = s].amount = r.amount
  BY DEF RefundOf
<1>5. /\ DOMAIN refunds' = DOMAIN refunds
      /\ \A i \in DOMAIN refunds : i # n => refunds'[i] = refunds[i]
      /\ refunds'[n] = [refunds[n] EXCEPT !.status = s]
      /\ refunds' = [i \in DOMAIN refunds |-> refunds'[i]]
  BY <1>1, <1>2
<1>6. refunds[n] \in RefundOf(D) /\ \A i \in DOMAIN refunds : refunds[i] \in RefundOf(D)
  BY <1>2
<1>7. /\ refunds'[n].status = s /\ refunds[n].status = "processing"
      /\ \A i \in DOMAIN refunds :
             refunds'[i].origin = refunds[i].origin /\ refunds'[i].amount = refunds[i].amount
  <2>1. refunds[n].status = "processing"
    BY DEF RefundSettles
  <2>2. /\ refunds'[n].status = s
        /\ refunds'[n].origin = refunds[n].origin /\ refunds'[n].amount = refunds[n].amount
    BY <1>4, <1>5, <1>6
  <2> QED
    BY <1>5, <2>1, <2>2
<1>8. \A i \in DOMAIN refunds : refunds'[i] \in S
  BY <1>3, <1>4, <1>5, <1>6
<1> HIDE DEF S
<1>9. Len(refunds) \in Nat /\ DOMAIN refunds = 1 .. Len(refunds)
  BY <1>2
<1>10. refunds' \in Seq(S)
  BY <1>5, <1>8, <1>9
<1>11. RefundsFine'
  BY <1>10 DEF RefundsFine, S
<1>12. rows' = rows /\ job' = job
  BY DEF RefundSettles
<1>13. RowsReal'
  BY <1>5, <1>7, <1>12 DEF RInv, RowsReal, Real
<1>14. JobsReal'
  BY <1>5, <1>7, <1>12 DEF RInv, JobsReal, Asking, Confirming
<1>15. EventsReal'
  <2>1. ASSUME NEW e \in events
        PROVE  /\ e.refund \in DOMAIN refunds' /\ refunds'[e.refund].status = e.status
               /\ e.status # "processing"
    <3>1. /\ e.refund \in DOMAIN refunds /\ refunds[e.refund].status = e.status
          /\ e.status # "processing"
      BY DEF RInv, EventsReal
    <3>2. CASE e.refund = n
      BY <1>5, <1>7, <3>1, <3>2
    <3>3. CASE e.refund # n
      BY <1>5, <3>1, <3>3
    <3> QED
      BY <3>2, <3>3
  <2> QED
    BY <1>1, <1>5, <1>7, <2>1 DEF EventsReal
<1> QED
  BY <1>11, <1>12, <1>13, <1>14, <1>15 DEF RInv, RowsFine

\* Every step keeps the books and PayMongo's refunds together.
LEMMA RealStep == RInv /\ [Next]_vars => RInv'
<1> SUFFICES ASSUME RInv, [Next]_vars
             PROVE  RInv'
  OBVIOUS
<1>0. DOMAIN job = Handlers
  BY DEF RInv
<1>10. Plain(Idle)
  BY JobBuilt DEF Plain
<1>2. ASSUME NEW h \in Staff, DeskStep(h)
      PROVE  RInv'
  <2> h \in Handlers
    BY DEF Handlers
  <2>1. ASSUME NEW n \in Amounts, PaymentRequested(h, n) \/ ReturnRequested(h, n)
        PROVE  RInv'
    <3> DEFINE p == [Idle EXCEPT !.at = "pay", !.amount = n]
               q == [Idle EXCEPT !.at = "return", !.amount = n]
    <3>1. Plain(p) /\ Plain(q)
      BY JobBuilt DEF Plain
    <3>2. Does(h, p) \/ Does(h, q)
      BY <2>1 DEF PaymentRequested, ReturnRequested
    <3> HIDE DEF p, q
    <3>3. JobsPlain
      BY <1>0, <3>1, <3>2, NowPlain
    <3> QED
      BY <2>1, <3>3, RealUntouched DEF PaymentRequested, ReturnRequested
  <2>2. CASE PaymentTaken(h)
    <3>1. JobsPlain
      BY <1>0, <1>10, <2>2, NowPlain DEF PaymentTaken
    <3> QED
      BY <2>2, <3>1, RealBesideCash DEF PaymentTaken
  <2>3. CASE Returned(h)
    <3>1. JobsPlain
      BY <1>0, <1>10, <2>3, NowPlain DEF Returned
    <3> QED
      BY <2>3, <3>1, RealBesideCash DEF Returned
  <2> QED
    BY <1>2, <2>1, <2>2, <2>3 DEF DeskStep
<1>3. ASSUME NEW h \in Staff, CancelStep(h)
      PROVE  RInv'
  <2> h \in Handlers
    BY DEF Handlers
  <2>1. ASSUME NEW fee \in Fees, NEW how \in {"desk", "paymongo"}, CancelRequested(h, fee, how)
        PROVE  RInv'
    <3> DEFINE i == [Idle EXCEPT !.how = how, !.fee = fee]
               p == [i EXCEPT !.at = "refund", !.owed = RefundDue(fee, Paid, Charges),
                              !.left = [o \in Online |-> Remaining(o)]]
               q == [i EXCEPT !.at = "decide"]
    <3>1. p.at = "refund" /\ q.at = "decide"
      BY JobBuilt
    <3>2. Does(h, p) \/ Does(h, q)
      BY <2>1 DEF CancelRequested
    <3> HIDE DEF p, q
    <3>3. JobsPlain
      BY <1>0, <3>1, <3>2, NowPlain DEF Plain
    <3> QED
      BY <2>1, <3>3, RealUntouched DEF CancelRequested
  <2>2. CASE RefundAsked(h)
    <3> DEFINE Chunk(o) == Least(job[h].owed, job[h].left[o])
               J(o, a) == [[Cancelling(h) EXCEPT
                               !.left = job[h].left, !.owed = job[h].owed,
                               !.amount = Chunk(o), !.row = Len(refunds) + 1] EXCEPT !.at = a]
    <3>1. \A o, a : J(o, a).at = a /\ J(o, a).row = Len(refunds) + 1 /\ J(o, a).amount = Chunk(o)
      BY JobBuilt
    <3>2. CASE \E o \in NextOrigin(h) :
                   \/ Asked(o, Chunk(o), "processing") /\ Does(h, J(o, "record"))
                   \/ Asked(o, Chunk(o), "failed") /\ Does(h, J(o, "record_failed"))
      <4> HIDE DEF Chunk, J
      <4>1. PICK o, s, a : /\ Asked(o, Chunk(o), s) /\ Does(h, J(o, a))
                           /\ a \in {"record", "record_failed"}
        BY <3>2
      <4>2. PICK j : /\ Does(h, j) /\ j.at \in {"record", "record_failed"}
                     /\ j.row = Len(refunds) + 1 /\ j.amount = Chunk(o)
        BY <3>1, <4>1
      <4> QED
        BY <2>2, <4>1, <4>2, RealAsked DEF RefundAsked
    <3>3. CASE Does(h, Idle) /\ UNCHANGED refunds
      <4>1. JobsPlain
        BY <1>0, <1>10, <3>3, NowPlain
      <4> QED
        BY <2>2, <3>3, <4>1, RealUntouched DEF RefundAsked
    <3> QED
      BY <2>2, <3>2, <3>3 DEF RefundAsked
  <2>3. CASE RefundRecorded(h)
    <3> DEFINE p == [Cancelling(h) EXCEPT !.at = "decide"]
               q == [Cancelling(h) EXCEPT
                        !.at = "refund", !.owed = job[h].owed - job[h].amount,
                        !.left = [job[h].left EXCEPT ![refunds[job[h].row].origin] = 0]]
    <3>1. Plain(p) /\ Plain(q)
      BY JobBuilt DEF Plain
    <3>2. Does(h, p) \/ Does(h, q)
      BY <2>3 DEF RefundRecorded
    <3> HIDE DEF p, q
    <3>3. JobsPlain /\ Plain(job'[h])
      BY <1>0, <3>1, <3>2, NowPlain DEF Does
    <3>4. Asking(h)
      BY <2>3 DEF RefundRecorded, Asking
    <3>5. PICK s, m : /\ Written(RefundRow(job[h].row, job[h].amount, s, m))
                      /\ refunds[job[h].row].origin \in QrPh => s # "paid"
      <4>1. CASE refunds[job[h].row].origin \in QrPh
        <5>1. Written(RefundRow(job[h].row, job[h].amount, "pending", 0))
          BY <2>3, <4>1 DEF RefundRecorded
        <5> QED
          BY <5>1
      <4>2. CASE refunds[job[h].row].origin \notin QrPh
        <5>1. Written(RefundRow(job[h].row, job[h].amount, "paid", 1))
          BY <2>3, <4>2 DEF RefundRecorded
        <5> QED
          BY <4>2, <5>1
      <4> QED
        BY <4>1, <4>2
    <3>6. UNCHANGED <<refunds, events>>
      BY <2>3 DEF RefundRecorded
    <3> QED
      BY <3>3, <3>4, <3>5, <3>6, RealBooked
  <2>4. CASE FailureRecorded(h)
    <3>1. JobsPlain /\ Plain(job'[h])
      BY <1>0, <1>10, <2>4, NowPlain DEF FailureRecorded, Does
    <3>2. Asking(h) /\ Written(RefundRow(job[h].row, job[h].amount, "failed", 0))
      BY <2>4 DEF FailureRecorded, Asking
    <3>3. UNCHANGED <<refunds, events>>
      BY <2>4 DEF FailureRecorded
    <3> QED
      BY <3>1, <3>2, <3>3, RealBooked
  <2>5. CASE CancelDecided(h)
    <3> DEFINE p == [Cancelling(h) EXCEPT !.at = "cancel", !.charges = Charges, !.paid = Paid]
    <3>1. Plain(p)
      BY JobBuilt DEF Plain
    <3>2. Does(h, p) \/ Does(h, Idle)
      BY <2>5 DEF CancelDecided
    <3> HIDE DEF p
    <3>3. JobsPlain
      BY <1>0, <1>10, <3>1, <3>2, NowPlain
    <3> QED
      BY <2>5, <3>3, RealUntouched DEF CancelDecided
  <2>6. CASE CancelCommitted(h)
    <3>1. JobsPlain
      BY <1>0, <1>10, <2>6, NowPlain DEF CancelCommitted
    <3>2. UNCHANGED <<refunds, events>>
      BY <2>6 DEF CancelCommitted
    <3>3. rows' = rows \/ \E n : Written(CashRow("cancellation", n))
      BY <2>6 DEF CancelCommitted
    <3> QED
      BY <3>1, <3>2, <3>3, RealUntouched, RealBesideCash
  <2>7. CASE NoShowDecided(h)
    <3> DEFINE p == [Idle EXCEPT !.at = "no_show", !.charges = Charges, !.paid = Paid]
    <3>1. Plain(p)
      BY JobBuilt DEF Plain
    <3>2. Does(h, p)
      BY <2>7 DEF NoShowDecided
    <3> HIDE DEF p
    <3>3. JobsPlain
      BY <1>0, <3>1, <3>2, NowPlain
    <3> QED
      BY <2>7, <3>3, RealUntouched DEF NoShowDecided
  <2>8. CASE NoShowCommitted(h)
    <3>1. JobsPlain
      BY <1>0, <1>10, <2>8, NowPlain DEF NoShowCommitted
    <3> QED
      BY <2>8, <3>1, RealUntouched DEF NoShowCommitted
  <2> QED
    BY <1>3, <2>1, <2>2, <2>3, <2>4, <2>5, <2>6, <2>7, <2>8 DEF CancelStep
<1>4. ASSUME NEW i \in DOMAIN rows, PaymentVoided(i)
      PROVE  RInv'
  <2>1. JobsPlain
    BY <1>0, <1>4, StillPlain DEF PaymentVoided
  <2>2. rows' = [rows EXCEPT ![i].voided = TRUE] /\ UNCHANGED <<refunds, events>>
    BY <1>4 DEF PaymentVoided
  <2> QED
    BY <2>1, <2>2, RealWhenVoided
<1>5. CASE FolioOpened \/ ChargeAdded \/ ChargeVoided
  BY <1>0, <1>5, StillPlain, RealUntouched DEF FolioOpened, ChargeAdded, ChargeVoided
<1>6. ASSUME NEW n \in DOMAIN refunds, RefundSettles(n)
      PROVE  RInv'
  BY <1>6, RealSettled
<1>7. ASSUME NEW k \in Hooks, HookStep(k)
      PROVE  RInv'
  <2> k \in Handlers
    BY DEF Handlers
  <2>1. ASSUME NEW e \in events, HookReads(k, e)
        PROVE  RInv'
    BY <2>1, RealConfirming DEF Handlers
  <2>2. CASE HookConfirms(k)
    <3> DEFINE p == [Idle EXCEPT !.at = "post", !.row = job[k].row]
    <3>1. Plain(p)
      BY JobBuilt DEF Plain
    <3>2. Does(k, p)
      BY <2>2 DEF HookConfirms
    <3> HIDE DEF p
    <3>3. JobsPlain
      BY <1>0, <3>1, <3>2, NowPlain
    <3>4. /\ job[k].row \in DOMAIN rows
          /\ refunds[rows[job[k].row].refund].status = "succeeded"
      BY <2>2 DEF HookConfirms, Confirming, RInv, JobsReal
    <3>5. /\ rows' = [rows EXCEPT ![job[k].row].status = "paid"]
          /\ UNCHANGED <<refunds, events>>
      BY <2>2 DEF HookConfirms
    <3> QED
      BY <3>3, <3>4, <3>5, RealWhenPaid
  <2>3. CASE HookPosts(k)
    <3>1. JobsPlain
      BY <1>0, <1>10, <2>3, NowPlain DEF HookPosts
    <3>2. /\ rows' = rows \/ \E v : rows' = [rows EXCEPT ![job[k].row].moved = v]
          /\ UNCHANGED <<refunds, events>>
      BY <2>3 DEF HookPosts
    <3> QED
      BY <3>1, <3>2, RealUntouched, RealWhenMoved
  <2>4. CASE HookFails(k)
    <3>1. JobsPlain
      BY <1>0, <1>10, <2>4, NowPlain DEF HookFails
    <3>2. /\ rows' = [rows EXCEPT ![job[k].row].status = "failed"]
          /\ UNCHANGED <<refunds, events>>
      BY <2>4 DEF HookFails
    <3> QED
      BY <3>1, <3>2, RealWhenFailed
  <2> QED
    BY <1>7, <2>1, <2>2, <2>3, <2>4 DEF HookStep
<1>8. ASSUME NEW h \in Handlers, HandlerDies(h)
      PROVE  RInv'
  BY <1>0, <1>8, <1>10, NowPlain, RealUntouched DEF HandlerDies
<1>9. CASE UNCHANGED vars
  BY <1>0, <1>9, StillPlain, RealUntouched DEF vars
<1> QED
  BY <1>2, <1>3, <1>4, <1>5, <1>6, <1>7, <1>8, <1>9 DEF Next

\* At the start nothing was refunded.
LEMMA RealInit == Init => RInv
<1> SUFFICES ASSUME Init PROVE RInv
  OBVIOUS
<1>1. rows = <<>> /\ <<>> \in Seq(RowOf({})) /\ refunds = <<>> /\ <<>> \in Seq(RefundOf({}))
  BY DEF Init
<1>2. \A h \in Handlers : ~Asking(h) /\ ~Confirming(h)
  BY JobBuilt DEF Init, Asking, Confirming
<1> QED
  BY <1>1, <1>2
     DEF Init, RInv, RowsFine, RefundsFine, RowsReal, JobsReal, EventsReal, Asking, Confirming

\* Whatever is lost half-way, repeated or late, the refunds on the books are refunds PayMongo
\* was asked for, one row each, and a refund the guest has to claim is paid only when PayMongo
\* says so (refundOrderViaPaymongo, the refund events of the webhook).
THEOREM BooksAreReal == Spec => []RefundsAreReal
<1>1. Init => RInv
  BY RealInit
<1>2. RInv /\ [Next]_vars => RInv'
  BY RealStep
<1>3. RInv => RefundsAreReal
  BY DEF RInv, RowsReal, Real, RefundsAreReal
<1> QED
  BY <1>1, <1>2, <1>3, PTL DEF Spec

----------------------------------------------------------------------------
\* Refunds leaving the hotel's account.

OneHook == \A k, m \in Hooks : k = m

Posting(h) == job[h].at \in {"confirm", "post"}

RowsLeft ==
    \A i \in DOMAIN rows :
        /\ rows[i].moved \in {0, 1}
        /\ rows[i].status = "pending" => rows[i].moved = 0
        /\ rows[i].what # "refund" => rows[i].origin \notin QrPh
        /\ rows[i].moved = 1 /\ rows[i].origin \in QrPh =>
               refunds[rows[i].refund].status = "succeeded"

JobsLeft ==
    \A h \in Handlers : Posting(h) =>
        /\ h \in Hooks
        /\ job[h].row \in DOMAIN rows
        /\ rows[job[h].row].moved = 0
        /\ rows[job[h].row].refund \in DOMAIN refunds
        /\ refunds[rows[job[h].row].refund].status = "succeeded"
        /\ job[h].at = "post" => rows[job[h].row].status # "pending"

LInv == RInv /\ RowsLeft /\ JobsLeft

\* No request starts to confirm or to post a refund.
JobsStill == DOMAIN job' = Handlers /\ \A g \in Handlers : job'[g] = job[g] \/ ~Posting(g)'

LEMMA NowStill ==
    ASSUME DOMAIN job = Handlers, NEW h \in Handlers, NEW j, Does(h, j),
           j.at \notin {"confirm", "post"}
    PROVE  JobsStill
BY DEF Does, JobsStill, Posting

LEMMA StillStill ==
    ASSUME DOMAIN job = Handlers, UNCHANGED job
    PROVE  JobsStill
BY DEF JobsStill

\* Rows as they were, and no refund that succeeded is lost.
LEMMA LeftUntouched ==
    ASSUME LInv, UNCHANGED rows, JobsStill,
           \A n \in DOMAIN refunds :
               /\ n \in DOMAIN refunds'
               /\ refunds[n].status = "succeeded" => refunds'[n].status = "succeeded"
    PROVE  RowsLeft' /\ JobsLeft'
<1>1. RowsLeft'
  BY DEF LInv, RInv, RowsLeft, RowsReal, Real
<1>2. JobsLeft'
  BY DEF LInv, JobsLeft, JobsStill, Posting
<1> QED
  BY <1>1, <1>2

\* A row is written.
LEMMA LeftBeside ==
    ASSUME LInv, UNCHANGED refunds, JobsStill, NEW r, NEW D, r \in RowOf(D), Written(r),
           r.moved \in {0, 1}, r.status = "pending" => r.moved = 0,
           r.what # "refund" => r.origin \notin QrPh,
           r.moved = 1 => r.origin \notin QrPh
    PROVE  RowsLeft' /\ JobsLeft'
<1>1. rows' = Append(rows, r) /\ RowsFine
  BY DEF Written, LInv, RInv
<1>2. /\ DOMAIN rows' = DOMAIN rows \union {Len(rows) + 1}
      /\ \A i \in DOMAIN rows : rows'[i] = rows[i]
      /\ rows'[Len(rows) + 1] = r
  BY <1>1, RowAppended
<1>3. RowsLeft'
  BY <1>2 DEF LInv, RowsLeft
<1>4. JobsLeft'
  BY <1>2 DEF LInv, JobsLeft, JobsStill, Posting
<1> QED
  BY <1>3, <1>4

\* The desk's own rows and those of refunds.
LEMMA LeftBesideCash ==
    ASSUME LInv, UNCHANGED refunds, JobsStill, NEW w, NEW n, w # "refund", Written(CashRow(w, n))
    PROVE  RowsLeft' /\ JobsLeft'
<1> DEFINE r == CashRow(w, n)
           D == {w, n, "paid", FALSE, 0, 1}
<1>1. r \in RowOf(D) /\ r.moved = 1 /\ r.status = "paid" /\ r.origin = 0
  BY DEF CashRow, RowOf
<1>2. 0 \notin QrPh
  BY RefundsAssumption DEF Online
<1>3. Written(r)
  OBVIOUS
<1> HIDE DEF r, D
<1> QED
  BY <1>1, <1>2, <1>3, LeftBeside

LEMMA LeftBesideRefund ==
    ASSUME LInv, UNCHANGED refunds, JobsStill, NEW n, NEW a, NEW s, NEW m \in {0, 1},
           Written(RefundRow(n, a, s, m)), s = "pending" => m = 0,
           m = 1 => refunds[n].origin \notin QrPh
    PROVE  RowsLeft' /\ JobsLeft'
<1> DEFINE r == RefundRow(n, a, s, m)
           D == {"refund", -a, s, FALSE, refunds[n].origin, n, m}
<1>1. /\ r \in RowOf(D)
      /\ r.moved = m /\ r.status = s /\ r.origin = refunds[n].origin /\ r.what = "refund"
  BY DEF RefundRow, RowOf
<1>2. Written(r)
  OBVIOUS
<1> HIDE DEF r, D
<1> QED
  BY <1>1, <1>2, LeftBeside

\* With one request at a time for refund events, every step keeps refunds leaving once.
LEMMA LeftStep == OneHook /\ LInv /\ [Next]_vars => RowsLeft' /\ JobsLeft'
<1> SUFFICES ASSUME OneHook, LInv, [Next]_vars
             PROVE  RowsLeft' /\ JobsLeft'
  OBVIOUS
<1> DEFINE Goal == RowsLeft' /\ JobsLeft'
<1>0. DOMAIN job = Handlers
  BY DEF LInv, RInv
<1>10. Idle.at \notin {"confirm", "post"}
  BY JobBuilt
<1>11. ASSUME UNCHANGED <<rows, refunds>>, JobsStill PROVE Goal
  BY <1>11, LeftUntouched
<1> HIDE DEF Goal
<1>2. ASSUME NEW h \in Staff, DeskStep(h)
      PROVE  Goal
  <2> h \in Handlers
    BY DEF Handlers
  <2>1. ASSUME NEW n \in Amounts, PaymentRequested(h, n) \/ ReturnRequested(h, n)
        PROVE  Goal
    <3> DEFINE p == [Idle EXCEPT !.at = "pay", !.amount = n]
               q == [Idle EXCEPT !.at = "return", !.amount = n]
    <3>1. p.at = "pay" /\ q.at = "return"
      BY JobBuilt
    <3>2. Does(h, p) \/ Does(h, q)
      BY <2>1 DEF PaymentRequested, ReturnRequested
    <3> HIDE DEF p, q
    <3>3. JobsStill
      BY <1>0, <3>1, <3>2, NowStill
    <3> QED
      BY <1>11, <2>1, <3>3 DEF PaymentRequested, ReturnRequested
  <2>2. CASE PaymentTaken(h)
    <3>1. JobsStill
      BY <1>0, <1>10, <2>2, NowStill DEF PaymentTaken
    <3> QED
      BY <2>2, <3>1, LeftBesideCash DEF PaymentTaken, Goal
  <2>3. CASE Returned(h)
    <3>1. JobsStill
      BY <1>0, <1>10, <2>3, NowStill DEF Returned
    <3> QED
      BY <2>3, <3>1, LeftBesideCash DEF Returned, Goal
  <2> QED
    BY <1>2, <2>1, <2>2, <2>3 DEF DeskStep
<1>3. ASSUME NEW h \in Staff, CancelStep(h)
      PROVE  Goal
  <2> h \in Handlers
    BY DEF Handlers
  <2>1. ASSUME NEW fee \in Fees, NEW how \in {"desk", "paymongo"}, CancelRequested(h, fee, how)
        PROVE  Goal
    <3> DEFINE i == [Idle EXCEPT !.how = how, !.fee = fee]
               p == [i EXCEPT !.at = "refund", !.owed = RefundDue(fee, Paid, Charges),
                              !.left = [o \in Online |-> Remaining(o)]]
               q == [i EXCEPT !.at = "decide"]
    <3>1. p.at = "refund" /\ q.at = "decide"
      BY JobBuilt
    <3>2. Does(h, p) \/ Does(h, q)
      BY <2>1 DEF CancelRequested
    <3> HIDE DEF p, q
    <3>3. JobsStill
      BY <1>0, <3>1, <3>2, NowStill
    <3> QED
      BY <1>11, <2>1, <3>3 DEF CancelRequested
  <2>2. CASE RefundAsked(h)
    <3> DEFINE Chunk(o) == Least(job[h].owed, job[h].left[o])
               J(o, a) == [[Cancelling(h) EXCEPT
                               !.left = job[h].left, !.owed = job[h].owed,
                               !.amount = Chunk(o), !.row = Len(refunds) + 1] EXCEPT !.at = a]
    <3>1. \A o, a : J(o, a).at = a
      BY JobBuilt
    <3>2. \/ Does(h, Idle)
          \/ \E o \in NextOrigin(h) : Does(h, J(o, "record")) \/ Does(h, J(o, "record_failed"))
      BY <2>2 DEF RefundAsked
    <3>3. (\E o \in NextOrigin(h) : \E s : Asked(o, Chunk(o), s)) \/ UNCHANGED refunds
      BY <2>2 DEF RefundAsked
    <3> HIDE DEF J, Chunk
    <3>4. JobsStill
      BY <1>0, <1>10, <3>1, <3>2, NowStill
    <3>5. \A n \in DOMAIN refunds : n \in DOMAIN refunds' /\ refunds'[n] = refunds[n]
      <4>1. ASSUME NEW o, NEW a, NEW s, Asked(o, a, s)
            PROVE  \A n \in DOMAIN refunds : n \in DOMAIN refunds' /\ refunds'[n] = refunds[n]
        <5> DEFINE r == [origin |-> o, amount |-> a, status |-> s]
        <5>1. refunds' = Append(refunds, r)
          BY <4>1 DEF Asked
        <5>2. PICK S : refunds \in Seq(S)
          BY DEF LInv, RInv, RefundsFine
        <5> HIDE DEF r
        <5> QED
          BY <5>1, <5>2
      <4> QED
        BY <3>3, <4>1
    <3>6. rows' = rows
      BY <2>2 DEF RefundAsked
    <3> QED
      BY <3>4, <3>5, <3>6, LeftUntouched DEF Goal
  <2>3. CASE RefundRecorded(h)
    <3> DEFINE p == [Cancelling(h) EXCEPT !.at = "decide"]
               q == [Cancelling(h) EXCEPT
                        !.at = "refund", !.owed = job[h].owed - job[h].amount,
                        !.left = [job[h].left EXCEPT ![refunds[job[h].row].origin] = 0]]
    <3>1. p.at = "decide" /\ q.at = "refund"
      BY JobBuilt
    <3>2. Does(h, p) \/ Does(h, q)
      BY <2>3 DEF RefundRecorded
    <3> HIDE DEF p, q
    <3>3. JobsStill
      BY <1>0, <3>1, <3>2, NowStill
    <3>4. refunds' = refunds
      BY <2>3 DEF RefundRecorded
    <3>5. CASE refunds[job[h].row].origin \in QrPh
      <4>1. Written(RefundRow(job[h].row, job[h].amount, "pending", 0))
        BY <2>3, <3>5 DEF RefundRecorded
      <4> QED
        BY <3>3, <3>4, <4>1, LeftBesideRefund DEF Goal
    <3>6. CASE refunds[job[h].row].origin \notin QrPh
      <4>1. Written(RefundRow(job[h].row, job[h].amount, "paid", 1))
        BY <2>3, <3>6 DEF RefundRecorded
      <4> QED
        BY <3>3, <3>4, <3>6, <4>1, LeftBesideRefund DEF Goal
    <3> QED
      BY <3>5, <3>6
  <2>4. CASE FailureRecorded(h)
    <3>1. JobsStill
      BY <1>0, <1>10, <2>4, NowStill DEF FailureRecorded
    <3>2. Written(RefundRow(job[h].row, job[h].amount, "failed", 0)) /\ refunds' = refunds
      BY <2>4 DEF FailureRecorded
    <3> QED
      BY <3>1, <3>2, LeftBesideRefund DEF Goal
  <2>5. CASE CancelDecided(h)
    <3> DEFINE p == [Cancelling(h) EXCEPT !.at = "cancel", !.charges = Charges, !.paid = Paid]
    <3>1. p.at = "cancel"
      BY JobBuilt
    <3>2. Does(h, p) \/ Does(h, Idle)
      BY <2>5 DEF CancelDecided
    <3> HIDE DEF p
    <3>3. JobsStill
      BY <1>0, <1>10, <3>1, <3>2, NowStill
    <3> QED
      BY <1>11, <2>5, <3>3 DEF CancelDecided
  <2>6. CASE CancelCommitted(h)
    <3>1. JobsStill
      BY <1>0, <1>10, <2>6, NowStill DEF CancelCommitted
    <3>2. refunds' = refunds
      BY <2>6 DEF CancelCommitted
    <3>3. rows' = rows \/ \E n : Written(CashRow("cancellation", n))
      BY <2>6 DEF CancelCommitted
    <3> QED
      BY <1>11, <3>1, <3>2, <3>3, LeftBesideCash DEF Goal
  <2>7. CASE NoShowDecided(h)
    <3> DEFINE p == [Idle EXCEPT !.at = "no_show", !.charges = Charges, !.paid = Paid]
    <3>1. p.at = "no_show"
      BY JobBuilt
    <3>2. Does(h, p)
      BY <2>7 DEF NoShowDecided
    <3> HIDE DEF p
    <3>3. JobsStill
      BY <1>0, <3>1, <3>2, NowStill
    <3> QED
      BY <1>11, <2>7, <3>3 DEF NoShowDecided
  <2>8. CASE NoShowCommitted(h)
    <3>1. JobsStill
      BY <1>0, <1>10, <2>8, NowStill DEF NoShowCommitted
    <3> QED
      BY <1>11, <2>8, <3>1 DEF NoShowCommitted
  <2> QED
    BY <1>3, <2>1, <2>2, <2>3, <2>4, <2>5, <2>6, <2>7, <2>8 DEF CancelStep
<1>4. ASSUME NEW i \in DOMAIN rows, PaymentVoided(i)
      PROVE  Goal
  <2>1. rows' = [rows EXCEPT ![i].voided = TRUE] /\ refunds' = refunds
    BY <1>4 DEF PaymentVoided
  <2>2. JobsStill
    BY <1>0, <1>4, StillStill DEF PaymentVoided
  <2>3. /\ DOMAIN rows' = DOMAIN rows
        /\ \A k \in DOMAIN rows :
               /\ rows'[k].what = rows[k].what
               /\ rows'[k].origin = rows[k].origin
               /\ rows'[k].refund = rows[k].refund
               /\ rows'[k].moved = rows[k].moved
               /\ rows'[k].status = rows[k].status
    BY <2>1, RowEdited DEF LInv, RInv
  <2>4. RowsLeft'
    BY <2>1, <2>3 DEF LInv, RowsLeft
  <2>5. JobsLeft'
    BY <2>1, <2>2, <2>3 DEF LInv, JobsLeft, JobsStill, Posting
  <2> QED
    BY <2>4, <2>5 DEF Goal
<1>5. CASE FolioOpened \/ ChargeAdded \/ ChargeVoided
  <2>1. UNCHANGED <<rows, refunds>> /\ UNCHANGED job
    BY <1>5 DEF FolioOpened, ChargeAdded, ChargeVoided
  <2>2. JobsStill
    BY <1>0, <2>1, StillStill
  <2> QED
    BY <1>11, <2>1, <2>2 DEF Goal
<1>6. ASSUME NEW n \in DOMAIN refunds, RefundSettles(n)
      PROVE  Goal
  <2>1. JobsStill /\ rows' = rows
    BY <1>0, <1>6, StillStill DEF RefundSettles
  <2>2. /\ DOMAIN refunds' = DOMAIN refunds
        /\ \A i \in DOMAIN refunds : i # n => refunds'[i] = refunds[i]
        /\ refunds[n].status = "processing"
    <3>1. PICK S : refunds \in Seq(S)
      BY DEF LInv, RInv, RefundsFine
    <3> QED
      BY <1>6, <3>1 DEF RefundSettles
  <2> QED
    BY <2>1, <2>2, LeftUntouched DEF Goal
<1>7. ASSUME NEW k \in Hooks, HookStep(k)
      PROVE  Goal
  <2> k \in Handlers
    BY DEF Handlers
  <2>0. \A h \in Handlers : Posting(h) => h = k
    BY DEF LInv, JobsLeft, OneHook
  <2>1. ASSUME NEW e \in events, HookReads(k, e)
        PROVE  Goal
    <3>1. PICK i \in DOMAIN rows :
              /\ rows[i].refund = e.refund
              /\ \/ /\ Confirms(e, rows[i])
                    /\ Does(k, [Idle EXCEPT !.at = "confirm", !.row = i])
                 \/ Does(k, [Idle EXCEPT !.at = "fail", !.row = i])
      BY <2>1 DEF HookReads
    <3> DEFINE p == [Idle EXCEPT !.at = "confirm", !.row = i]
               q == [Idle EXCEPT !.at = "fail", !.row = i]
    <3>2. p.at = "confirm" /\ p.row = i /\ q.at = "fail"
      BY JobBuilt
    <3>3. (Confirms(e, rows[i]) /\ Does(k, p)) \/ Does(k, q)
      BY <3>1
    <3> HIDE DEF p, q
    <3>4. UNCHANGED <<rows, refunds>>
      BY <2>1 DEF HookReads
    <3>5. CASE Does(k, q)
      BY <1>0, <1>11, <3>2, <3>4, <3>5, NowStill
    <3>6. CASE Confirms(e, rows[i]) /\ Does(k, p)
      <4>1. /\ DOMAIN job' = Handlers /\ job'[k] = p
            /\ \A g \in Handlers \ {k} : job'[g] = job[g]
        BY <1>0, <3>6 DEF Does
      <4>2. /\ rows[i].refund \in DOMAIN refunds
            /\ refunds[rows[i].refund].status = "succeeded"
            /\ rows[i].moved = 0
        BY <3>1, <3>6 DEF LInv, RInv, EventsReal, RowsLeft, Confirms
      <4>3. JobsLeft'
        BY <2>0, <3>2, <3>4, <4>1, <4>2 DEF JobsLeft, Posting
      <4>4. RowsLeft'
        BY <3>4 DEF LInv, RowsLeft
      <4> QED
        BY <4>3, <4>4 DEF Goal
    <3> QED
      BY <3>3, <3>5, <3>6
  <2>2. CASE HookConfirms(k)
    <3> DEFINE i == job[k].row
               p == [Idle EXCEPT !.at = "post", !.row = i]
    <3>1. p.at = "post" /\ p.row = i
      BY JobBuilt
    <3>2. Does(k, p) /\ rows' = [rows EXCEPT ![i].status = "paid"] /\ refunds' = refunds
      BY <2>2 DEF HookConfirms
    <3>3. /\ i \in DOMAIN rows /\ rows[i].moved = 0
          /\ rows[i].refund \in DOMAIN refunds
          /\ refunds[rows[i].refund].status = "succeeded"
      BY <2>2 DEF HookConfirms, LInv, JobsLeft, Posting
    <3> HIDE DEF p, i
    <3>4. /\ DOMAIN rows' = DOMAIN rows
          /\ \A n \in DOMAIN rows :
                 /\ rows'[n].what = rows[n].what
                 /\ rows'[n].origin = rows[n].origin
                 /\ rows'[n].refund = rows[n].refund
          /\ \A n \in DOMAIN rows : n # i => rows'[n] = rows[n]
          /\ rows'[i].status = "paid" /\ rows'[i].moved = rows[i].moved
      BY <3>2, <3>3, RowEdited DEF LInv, RInv
    <3>5. /\ DOMAIN job' = Handlers /\ job'[k] = p
          /\ \A g \in Handlers \ {k} : job'[g] = job[g]
      BY <1>0, <3>2 DEF Does
    <3>6. RowsLeft'
      BY <3>2, <3>3, <3>4 DEF LInv, RowsLeft
    <3>7. JobsLeft'
      BY <2>0, <3>1, <3>2, <3>3, <3>4, <3>5 DEF JobsLeft, Posting
    <3> QED
      BY <3>6, <3>7 DEF Goal
  <2>3. CASE HookPosts(k)
    <3> DEFINE i == job[k].row
    <3>1. Does(k, Idle) /\ refunds' = refunds
      BY <2>3 DEF HookPosts
    <3>2. /\ i \in DOMAIN rows /\ rows[i].moved = 0
          /\ refunds[rows[i].refund].status = "succeeded"
          /\ rows[i].status # "pending"
      BY <2>3 DEF HookPosts, LInv, JobsLeft, Posting
    <3>3. \A h \in Handlers : ~Posting(h)'
      BY <1>0, <1>10, <2>0, <3>1 DEF Does, Posting
    <3>4. JobsLeft'
      BY <3>3 DEF JobsLeft
    <3>5. CASE rows' = rows
      BY <3>1, <3>4, <3>5 DEF LInv, RowsLeft, Goal
    <3>6. CASE rows' # rows
      <4>1. rows' = [rows EXCEPT ![i].moved = @ + 1]
        BY <2>3, <3>6 DEF HookPosts
      <4>2. rows' = [rows EXCEPT ![i].moved = rows[i].moved + 1]
        BY <3>2, <4>1
      <4>3. rows[i].moved + 1 = 1
        BY <3>2
      <4>4. rows' = [rows EXCEPT ![i].moved = 1]
        BY <4>2, <4>3
      <4> HIDE DEF i
      <4>5. /\ DOMAIN rows' = DOMAIN rows
            /\ \A n \in DOMAIN rows :
                   /\ rows'[n].what = rows[n].what
                   /\ rows'[n].origin = rows[n].origin
                   /\ rows'[n].refund = rows[n].refund
            /\ \A n \in DOMAIN rows : n # i => rows'[n] = rows[n]
            /\ rows'[i].status = rows[i].status /\ rows'[i].moved = 1
        BY <3>2, <4>4, RowEdited DEF LInv, RInv
      <4>7. RowsLeft'
        BY <3>1, <3>2, <4>5 DEF LInv, RowsLeft
      <4> QED
        BY <3>4, <4>7 DEF Goal
    <3> QED
      BY <3>5, <3>6
  <2>4. CASE HookFails(k)
    <3> DEFINE i == job[k].row
    <3>1. JobsStill /\ refunds' = refunds
      BY <1>0, <1>10, <2>4, NowStill DEF HookFails
    <3>2. rows' = [rows EXCEPT ![i].status = "failed"]
      BY <2>4 DEF HookFails
    <3> HIDE DEF i
    <3>3. /\ DOMAIN rows' = DOMAIN rows
          /\ \A n \in DOMAIN rows :
                 /\ rows'[n].what = rows[n].what
                 /\ rows'[n].origin = rows[n].origin
                 /\ rows'[n].refund = rows[n].refund
          /\ \A n \in DOMAIN rows : n # i => rows'[n] = rows[n]
          /\ i \in DOMAIN rows => rows'[i].status = "failed" /\ rows'[i].moved = rows[i].moved
      BY <3>2, RowEdited DEF LInv, RInv
    <3>4. RowsLeft'
      BY <3>1, <3>3 DEF LInv, RowsLeft
    <3>5. JobsLeft'
      BY <3>1, <3>3 DEF LInv, JobsLeft, JobsStill, Posting
    <3> QED
      BY <3>4, <3>5 DEF Goal
  <2> QED
    BY <1>7, <2>1, <2>2, <2>3, <2>4 DEF HookStep
<1>8. ASSUME NEW h \in Handlers, HandlerDies(h)
      PROVE  Goal
  BY <1>0, <1>8, <1>10, <1>11, NowStill DEF HandlerDies
<1>9. CASE UNCHANGED vars
  <2>1. UNCHANGED <<rows, refunds>> /\ UNCHANGED job
    BY <1>9 DEF vars
  <2>2. JobsStill
    BY <1>0, <2>1, StillStill
  <2> QED
    BY <1>11, <2>1, <2>2 DEF Goal
<1> QED
  BY <1>2, <1>3, <1>4, <1>5, <1>6, <1>7, <1>8, <1>9 DEF Next, Goal

\* While refund events are handled one at a time, a refund leaves the hotel's account once at
\* most, and one the guest has to claim not before PayMongo reports it (webhook-handler.ts).
THEOREM RefundsLeaveOnce == ASSUME OneHook PROVE Spec => []LeavesOnce
<1>1. Init => LInv
  <2>1. Init => RowsLeft
    BY DEF Init, RowsLeft
  <2>2. Init => JobsLeft
    BY JobBuilt DEF Init, JobsLeft, Posting
  <2> QED
    BY <2>1, <2>2, RealInit DEF LInv
<1>2. LInv /\ [Next]_vars => LInv'
  BY RealStep, LeftStep DEF LInv
<1>3. LInv => LeavesOnce
  BY DEF LInv, RowsLeft, LeavesOnce
<1> QED
  BY <1>1, <1>2, <1>3, PTL DEF Spec

----------------------------------------------------------------------------
\* What the ledger comes to.

\* A total is the sum of the amounts, by the definition of the fold.
LEMMA TotalIsSum ==
    ASSUME NEW amounts
    PROVE  Total(amounts) = Sum(amounts, DOMAIN amounts)
<1> DEFINE I == DOMAIN amounts
           F(sum) == [T \in SUBSET I |-> IF T = {} THEN 0
                         ELSE amounts[CHOOSE x \in T : TRUE]
                                + sum[T \ {CHOOSE x \in T : TRUE}]]
           c == CHOOSE sum : sum = F(sum)
           d == CHOOSE sum : Adds(amounts, I, sum)
<1>1. c = d
  <2>1. \A sum : sum = F(sum) <=> Adds(amounts, I, sum)
    BY Zenon DEF Adds, Pick
  <2> HIDE DEF F
  <2> QED
    BY <2>1, Zenon
<1>2. Total(amounts) = c[I]
  BY Zenon DEF Total, MapThenSumSet, MapThenFoldSet
<1>3. Sum(amounts, I) = d[I]
  BY Zenon DEF Sum
<1> QED
  BY <1>1, <1>2, <1>3, Zenon

\* The sum of a list of amounts is an amount.
LEMMA TotalType ==
    ASSUME NEW n \in Nat, NEW amounts, DOMAIN amounts = 1 .. n,
           \A i \in 1 .. n : amounts[i] \in Int
    PROVE  Total(amounts) \in Int
<1>1. IsFiniteSet(1 .. n)
  BY FS_Interval
<1>2. Sum(amounts, 1 .. n) \in Int
  BY <1>1, SumType
<1> QED
  BY <1>2, TotalIsSum

LEMMA TotalOfNone ==
    ASSUME NEW amounts, DOMAIN amounts = {}
    PROVE  Total(amounts) = 0
BY TotalIsSum, SumEmpty

LEMMA TotalOfOne ==
    ASSUME NEW n \in Int
    PROVE  Total(<<n>>) = n
<1> DEFINE v == <<n>>
<1>1. DOMAIN v = {1} /\ v[1] = n
  OBVIOUS
<1> HIDE DEF v
<1>2. IsFiniteSet({1}) /\ {1} \ {1} = {}
  BY FS_Singleton
<1>3. Sum(v, {1}) = v[1] + Sum(v, {1} \ {1})
  <2>1. \A x \in {1} : v[x] \in Int
    BY <1>1
  <2> QED
    BY <1>2, <2>1, SumOut
<1>4. Sum(v, {1}) = n
  BY <1>1, <1>2, <1>3, SumEmpty
<1> QED
  BY <1>1, <1>4, TotalIsSum DEF v

\* One amount more.
LEMMA TotalAppended ==
    ASSUME NEW k \in Nat, NEW v, NEW w, DOMAIN v = 1 .. k, DOMAIN w = 1 .. k + 1,
           \A i \in 1 .. k : w[i] = v[i], \A i \in 1 .. k + 1 : w[i] \in Int
    PROVE  Total(w) = Total(v) + w[k + 1]
BY TotalIsSum, SumAppend

\* What the ledger adds up.
Counted == [i \in DOMAIN rows |->
               IF rows[i].status = "paid" /\ ~rows[i].voided THEN rows[i].amount ELSE 0]

LEMMA RowIsTyped ==
    ASSUME TypeOK
    PROVE  /\ Len(rows) \in Nat /\ DOMAIN rows = 1 .. Len(rows)
           /\ \A i \in 1 .. Len(rows) : rows[i] \in Row /\ rows[i].amount \in Int
<1>1. /\ Len(rows) \in Nat /\ DOMAIN rows = 1 .. Len(rows)
      /\ \A i \in 1 .. Len(rows) : rows[i] \in Row
  BY DEF TypeOK
<1> QED
  BY <1>1 DEF Row

LEMMA LedgerTyped ==
    ASSUME TypeOK
    PROVE  FolioCharges \in Int /\ Charges \in Int /\ Paid \in Int
<1>0. Price \in Nat /\ Origins \in Nat /\ Deposit \in Nat
  BY RefundsAssumption
<1>1. Total(settled) \in Int
  <2>1. /\ Len(settled) \in Nat /\ DOMAIN settled = 1 .. Len(settled)
        /\ \A i \in 1 .. Len(settled) : settled[i] \in Int
    BY DEF TypeOK
  <2> QED
    BY <2>1, TotalType
<1>2. FolioCharges \in Int
  BY <1>0, <1>1 DEF FolioCharges
<1>3. Total(Counted) \in Int
  <2>1. DOMAIN Counted = 1 .. Len(rows) /\ \A i \in 1 .. Len(rows) : Counted[i] \in Int
    BY RowIsTyped DEF Counted
  <2> QED
    BY <2>1, RowIsTyped, TotalType
<1>4. Origins * Deposit \in Int
  BY <1>0
<1>5. Paid \in Int
  BY <1>3, <1>4 DEF Paid, Counted
<1>6. Charges \in Int
  BY <1>0, <1>2 DEF Charges
<1> QED
  BY <1>2, <1>5, <1>6

LEMMA RemainingTyped ==
    ASSUME TypeOK
    PROVE  [o \in Online |-> Remaining(o)] \in [Online -> Nat]
<1> SUFFICES ASSUME NEW o \in Online
             PROVE  Remaining(o) \in Nat
  OBVIOUS
<1> DEFINE v == [i \in DOMAIN rows |->
                    IF rows[i].what = "refund" /\ rows[i].origin = o THEN -rows[i].amount ELSE 0]
<1>1. DOMAIN v = 1 .. Len(rows) /\ \A i \in 1 .. Len(rows) : v[i] \in Int
  BY RowIsTyped
<1> HIDE DEF v
<1>2. Total(v) \in Int
  BY <1>1, RowIsTyped, TotalType
<1> QED
  BY <1>2, RefundsAssumption DEF Remaining, RemainingSigned, AtLeastZero, v

LEMMA DueTyped ==
    ASSUME NEW fee \in Nat, NEW paid \in Int, NEW charges \in Int
    PROVE  /\ FeeKept(fee, paid, charges) \in Nat
           /\ RefundDue(fee, paid, charges) \in Nat
BY DEF FeeKept, RefundDue, AtLeastZero, Least

\* A request for a refund is about the refund it made, no more than it owes.
Owing(j, numbers) ==
    /\ j.at \in {"record", "record_failed"} => j.row \in numbers
    /\ j.at = "record" => j.amount <= j.owed

MoneyInv ==
    /\ TypeOK
    /\ \A h \in Handlers : Owing(job[h], DOMAIN refunds)
    /\ extra # "none" => folio # "none"

LEMMA IdleTyped == Idle \in Job /\ Idle.at = "idle" /\ Idle.amount = 0 /\ Idle.owed = 0
<1>1. [o \in Online |-> 0] \in [Online -> Nat]
  OBVIOUS
<1> QED
  BY <1>1 DEF Idle, Job

LEMMA CancellingTyped ==
    ASSUME NEW h, job[h] \in Job
    PROVE  Cancelling(h) \in Job
BY IdleTyped DEF Job, Cancelling

LEMMA JobTyped ==
    ASSUME MoneyInv, NEW h \in Handlers, NEW j \in Job, Does(h, j),
           DOMAIN refunds \subseteq DOMAIN refunds', Owing(j, DOMAIN refunds')
    PROVE  job' \in [Handlers -> Job] /\ \A g \in Handlers : Owing(job'[g], DOMAIN refunds')
<1>1. job \in [Handlers -> Job] /\ job' = [job EXCEPT ![h] = j]
  BY DEF MoneyInv, TypeOK, Does
<1>2. job' \in [Handlers -> Job]
  BY <1>1
<1>3. ASSUME NEW g \in Handlers
      PROVE  Owing(job'[g], DOMAIN refunds')
  <2>1. CASE g = h
    <3>1. job'[g] = j
      BY <1>1, <2>1
    <3> QED
      BY <3>1
  <2>2. CASE g # h
    <3>1. job'[g] = job[g] /\ Owing(job[g], DOMAIN refunds)
      BY <1>1, <2>2 DEF MoneyInv
    <3> QED
      BY <3>1 DEF Owing
  <2> QED
    BY <2>1, <2>2
<1> QED
  BY <1>2, <1>3

\* A handler's step, part by part: the folio, the rows, the refunds, its job.
LEMMA StepTyped ==
    ASSUME MoneyInv, NEW h \in Handlers, NEW j \in Job, Does(h, j),
           booking' \in {"confirmed", "cancelled", "no_show"},
           folio' \in {folio, "open", "closed"},
           UNCHANGED extra, settled' \in Seq(Int), rows' \in Seq(Row),
           refunds' \in Seq(Refund), DOMAIN refunds \subseteq DOMAIN refunds', UNCHANGED events,
           Owing(j, DOMAIN refunds')
    PROVE  MoneyInv'
<1>1. job' \in [Handlers -> Job] /\ \A g \in Handlers : Owing(job'[g], DOMAIN refunds')
  BY JobTyped
<1>2. events' \subseteq [refund : DOMAIN refunds', status : {"succeeded", "failed"}]
  BY DEF MoneyInv, TypeOK
<1>3. folio' \in {"none", "open", "closed"} /\ extra' \in {"none", "charged", "voided"}
  BY DEF MoneyInv, TypeOK
<1>4. extra' # "none" => folio' # "none"
  BY DEF MoneyInv
<1> QED
  BY <1>1, <1>2, <1>3, <1>4 DEF MoneyInv, TypeOK

\* Bill and refunds stay.
LEMMA RowStepTyped ==
    ASSUME MoneyInv, NEW h \in Handlers, NEW j \in Job, Does(h, j),
           UNCHANGED <<bill, refunds, events>>, rows' \in Seq(Row), Owing(j, DOMAIN refunds)
    PROVE  MoneyInv'
BY StepTyped DEF MoneyInv, TypeOK, bill

LEMMA IdleOwes == \A numbers : Owing(Idle, numbers)
BY IdleTyped DEF Owing

LEMMA WrittenTyped ==
    ASSUME TypeOK, NEW r \in Row, Written(r)
    PROVE  rows' \in Seq(Row)
BY DEF TypeOK, Written

LEMMA CashRowTyped ==
    ASSUME NEW what \in {"payment", "return", "cancellation"}, NEW n \in Int
    PROVE  CashRow(what, n) \in Row
BY DEF CashRow, Row

LEMMA RefundRowTyped ==
    ASSUME TypeOK, NEW n \in DOMAIN refunds, NEW amount \in Int,
           NEW status \in {"pending", "paid", "failed"}, NEW moved \in Nat
    PROVE  RefundRow(n, amount, status, moved) \in Row
<1>1. n \in Nat /\ refunds[n] \in Refund
  BY DEF TypeOK
<1>2. refunds[n].origin \in Nat /\ -amount \in Int
  BY <1>1 DEF Refund
<1> QED
  BY <1>1, <1>2 DEF RefundRow, Row

LEMMA RowEditedTyped ==
    ASSUME TypeOK, NEW i,
           \/ \E s \in {"pending", "paid", "failed"} : rows' = [rows EXCEPT ![i].status = s]
           \/ rows' = [rows EXCEPT ![i].voided = TRUE]
           \/ rows' = [rows EXCEPT ![i].moved = @ + 1]
    PROVE  rows' \in Seq(Row)
<1>1. rows \in [1 .. Len(rows) -> Row] /\ Len(rows) \in Nat
  BY DEF TypeOK
<1>2. rows' \in [1 .. Len(rows) -> Row]
  <2>1. CASE i \in 1 .. Len(rows)
    <3>1. rows[i] \in Row
      BY <1>1, <2>1
    <3>2. PICK r \in Row : rows' = [rows EXCEPT ![i] = r]
      <4>1. ASSUME NEW s \in {"pending", "paid", "failed"}, rows' = [rows EXCEPT ![i].status = s]
            PROVE  \E r \in Row : rows' = [rows EXCEPT ![i] = r]
        <5>1. [rows[i] EXCEPT !.status = s] \in Row
          BY <3>1 DEF Row
        <5> QED
          BY <4>1, <5>1
      <4>2. ASSUME rows' = [rows EXCEPT ![i].voided = TRUE]
            PROVE  \E r \in Row : rows' = [rows EXCEPT ![i] = r]
        <5>1. [rows[i] EXCEPT !.voided = TRUE] \in Row
          BY <3>1 DEF Row
        <5> QED
          BY <4>2, <5>1
      <4>3. ASSUME rows' = [rows EXCEPT ![i].moved = @ + 1]
            PROVE  \E r \in Row : rows' = [rows EXCEPT ![i] = r]
        <5> DEFINE m == rows[i].moved + 1
        <5>0. m \in Nat
          BY <3>1 DEF Row
        <5>1. rows' = [rows EXCEPT ![i] = [rows[i] EXCEPT !.moved = m]]
          BY <4>3
        <5> HIDE DEF m
        <5>2. [rows[i] EXCEPT !.moved = m] \in Row
          BY <3>1, <5>0 DEF Row
        <5> QED
          BY <5>1, <5>2
      <4> QED
        BY <4>1, <4>2, <4>3
    <3> QED
      BY <1>1, <2>1, <3>2
  <2>2. CASE i \notin 1 .. Len(rows)
    BY <1>1, <2>2
  <2> QED
    BY <2>1, <2>2
<1> QED
  BY <1>1, <1>2, SeqDef

\* The desk takes payments and gives credits back.
LEMMA DeskTyped ==
    ASSUME MoneyInv, NEW h \in Staff, DeskStep(h)
    PROVE  MoneyInv'
<1>0. /\ h \in Handlers /\ job[h] \in Job /\ TypeOK
      /\ \A n \in Amounts : n \in Int
      /\ Touched \in {folio, "open"}
  BY RefundsAssumption DEF Handlers, MoneyInv, TypeOK, Touched
<1>1. ASSUME NEW n \in Amounts, NEW w \in {"pay", "return"},
             Does(h, [Idle EXCEPT !.at = w, !.amount = n]), folio' = Touched,
             UNCHANGED <<booking, extra, settled, rows, refunds, events>>
      PROVE  MoneyInv'
  <2> DEFINE j == [Idle EXCEPT !.at = w, !.amount = n]
  <2>1. j \in Job /\ j.at = w
    BY <1>0, IdleTyped DEF Job
  <2>2. Does(h, j)
    BY <1>1
  <2> HIDE DEF j
  <2>3. Owing(j, DOMAIN refunds')
    BY <2>1 DEF Owing
  <2> QED
    BY <1>0, <1>1, <2>1, <2>2, <2>3, StepTyped DEF TypeOK
<1>2. ASSUME NEW n \in Amounts, PaymentRequested(h, n) \/ ReturnRequested(h, n)
      PROVE  MoneyInv'
  BY <1>1, <1>2 DEF PaymentRequested, ReturnRequested
<1>3. CASE PaymentTaken(h) \/ Returned(h)
  <2> DEFINE m == job[h].amount
  <2>1. m \in Int /\ -m \in Int
    BY <1>0 DEF Job
  <2>2. /\ Written(CashRow("payment", m)) \/ Written(CashRow("return", -m))
        /\ Does(h, Idle) /\ UNCHANGED <<bill, refunds, events>>
    BY <1>3 DEF PaymentTaken, Returned
  <2> HIDE DEF m
  <2>3. rows' \in Seq(Row)
    BY <1>0, <2>1, <2>2, CashRowTyped, WrittenTyped
  <2> QED
    BY <1>0, <2>2, <2>3, IdleTyped, IdleOwes, RowStepTyped
<1> QED
  BY <1>2, <1>3 DEF DeskStep

LEMMA SettledTyped ==
    ASSUME TypeOK, NEW n \in Int, settled' = settled \/ settled' = Append(settled, n)
    PROVE  settled' \in Seq(Int)
<1>1. settled \in Seq(Int)
  BY DEF TypeOK
<1>2. Append(settled, n) \in Seq(Int)
  BY <1>1
<1> QED
  BY <1>1, <1>2

\* PayMongo is asked for refunds, and the booking ends.
LEMMA CancelTyped ==
    ASSUME MoneyInv, NEW h \in Staff, CancelStep(h)
    PROVE  MoneyInv'
<1>0. /\ h \in Handlers /\ job[h] \in Job /\ TypeOK
      /\ \A n \in Fees : n \in Nat
      /\ Touched \in {folio, "open"}
      /\ Charges \in Int /\ Paid \in Int
      /\ Cancelling(h) \in Job /\ Idle \in Job
      /\ Owing(job[h], DOMAIN refunds)
  BY RefundsAssumption, LedgerTyped, CancellingTyped, IdleTyped
     DEF Handlers, MoneyInv, TypeOK, Touched
<1>1. ASSUME NEW fee \in Fees, NEW how \in {"desk", "paymongo"}, CancelRequested(h, fee, how)
      PROVE  MoneyInv'
  <2> DEFINE due == RefundDue(fee, Paid, Charges)
             l == [o \in Online |-> Remaining(o)]
             j == [[Idle EXCEPT !.how = how, !.fee = fee] EXCEPT !.at = "refund", !.owed = due, !.left = l]
             k == [[Idle EXCEPT !.how = how, !.fee = fee] EXCEPT !.at = "decide"]
  <2>1. due \in Nat /\ l \in [Online -> Nat] /\ fee \in Nat
    BY <1>0, DueTyped, RemainingTyped
  <2>2. /\ Does(h, j) \/ Does(h, k)
        /\ folio' \in {folio, Touched}
        /\ UNCHANGED <<booking, extra, settled, rows, refunds, events>>
    BY <1>1 DEF CancelRequested
  <2> HIDE DEF due, l
  <2>3. j \in Job /\ j.at = "refund" /\ k \in Job /\ k.at = "decide"
    BY <1>0, <2>1 DEF Job
  <2> HIDE DEF j, k
  <2>4. Owing(j, DOMAIN refunds') /\ Owing(k, DOMAIN refunds')
    BY <2>3 DEF Owing
  <2> QED
    BY <1>0, <2>2, <2>3, <2>4, StepTyped DEF TypeOK
<1>2. CASE RefundAsked(h)
  <2>1. ASSUME NEW o \in NextOrigin(h), NEW status \in {"processing", "failed"},
               NEW w \in {"record", "record_failed"},
               Asked(o, Least(job[h].owed, job[h].left[o]), status),
               Does(h, [[Cancelling(h) EXCEPT !.left = job[h].left, !.owed = job[h].owed,
                                              !.amount = Least(job[h].owed, job[h].left[o]),
                                              !.row = Len(refunds) + 1] EXCEPT !.at = w]),
               UNCHANGED <<bill, rows, events>>
        PROVE  MoneyInv'
    <3> DEFINE l == job[h].left
               owed == job[h].owed
               chunk == Least(owed, l[o])
               n == Len(refunds) + 1
               r == [origin |-> o, amount |-> chunk, status |-> status]
               j == [[Cancelling(h) EXCEPT !.left = l, !.owed = owed, !.amount = chunk, !.row = n]
                        EXCEPT !.at = w]
    <3>1. o \in Nat /\ l \in [Online -> Nat] /\ owed \in Nat /\ l[o] \in Nat
      <4>1. job[h].left \in [Online -> Nat] /\ job[h].owed \in Nat
        BY <1>0 DEF Job
      <4>2. o \in Online
        BY DEF NextOrigin
      <4>3. o \in Nat
        BY <4>2, RefundsAssumption DEF Online
      <4> QED
        BY <4>1, <4>2, <4>3
    <3>2. chunk \in Nat /\ chunk \in Int /\ chunk <= owed
      BY <3>1 DEF Least
    <3>3. n \in Nat
      BY <1>0 DEF TypeOK
    <3>4. refunds' = Append(refunds, r) /\ Does(h, j)
      BY <2>1 DEF Asked
    <3> HIDE DEF l, owed, chunk
    <3>5. r \in Refund
      BY <3>1, <3>2 DEF Refund
    <3>6. refunds' \in Seq(Refund) /\ DOMAIN refunds \subseteq DOMAIN refunds' /\ n \in DOMAIN refunds'
      BY <1>0, <3>4, <3>5 DEF TypeOK
    <3> HIDE DEF n, r
    <3>7. j \in Job /\ j.at = w /\ j.row = n /\ j.amount = chunk /\ j.owed = owed
      BY <1>0, <3>1, <3>2, <3>3 DEF Job
    <3> HIDE DEF j
    <3>8. Owing(j, DOMAIN refunds')
      BY <3>2, <3>6, <3>7 DEF Owing
    <3> QED
      BY <1>0, <2>1, <3>4, <3>6, <3>7, <3>8, StepTyped DEF TypeOK, bill
  <2>2. CASE Does(h, Idle) /\ UNCHANGED <<refunds, bill, rows, events>>
    BY <1>0, <2>2, IdleOwes, RowStepTyped DEF TypeOK
  <2> QED
    BY <1>2, <2>1, <2>2 DEF RefundAsked
<1>3. CASE RefundRecorded(h)
  <2> DEFINE n == job[h].row
             m == job[h].amount
             o == refunds[n].origin
             l == [job[h].left EXCEPT ![o] = 0]
             rest == job[h].owed - m
             j == [Cancelling(h) EXCEPT !.at = "decide"]
             k == [Cancelling(h) EXCEPT !.at = "refund", !.owed = rest, !.left = l]
  <2>1. n \in DOMAIN refunds /\ m \in Int /\ rest \in Nat /\ l \in [Online -> Nat]
    <3>1. job[h].owed \in Nat /\ m \in Int /\ m <= job[h].owed /\ job[h].left \in [Online -> Nat]
          /\ n \in DOMAIN refunds
      BY <1>0, <1>3 DEF Job, Owing, RefundRecorded
    <3>2. l \in [Online -> Nat]
      BY <3>1
    <3> HIDE DEF m, n, l
    <3>3. rest \in Nat
      BY <3>1
    <3> QED
      BY <3>1, <3>2, <3>3
  <2>2. /\ \/ Written(RefundRow(n, m, "pending", 0))
           \/ Written(RefundRow(n, m, "paid", 1))
        /\ Does(h, j) \/ Does(h, k)
        /\ UNCHANGED <<bill, refunds, events>>
    BY <1>3 DEF RefundRecorded
  <2> HIDE DEF n, m, l, rest
  <2>3. rows' \in Seq(Row)
    BY <1>0, <2>1, <2>2, RefundRowTyped, WrittenTyped
  <2>4. j \in Job /\ j.at = "decide" /\ k \in Job /\ k.at = "refund"
    BY <1>0, <2>1 DEF Job
  <2> HIDE DEF j, k
  <2>5. Owing(j, DOMAIN refunds) /\ Owing(k, DOMAIN refunds)
    BY <2>4 DEF Owing
  <2> QED
    BY <1>0, <2>2, <2>3, <2>4, <2>5, RowStepTyped
<1>4. CASE FailureRecorded(h)
  <2> DEFINE n == job[h].row
             m == job[h].amount
  <2>1. n \in DOMAIN refunds /\ m \in Int
    BY <1>0, <1>4 DEF Job, Owing, FailureRecorded
  <2>2. Written(RefundRow(n, m, "failed", 0)) /\ Does(h, Idle) /\ UNCHANGED <<bill, refunds, events>>
    BY <1>4 DEF FailureRecorded
  <2> HIDE DEF n, m
  <2>3. rows' \in Seq(Row)
    BY <1>0, <2>1, <2>2, RefundRowTyped, WrittenTyped
  <2> QED
    BY <1>0, <2>2, <2>3, IdleOwes, RowStepTyped
<1>5. CASE CancelDecided(h) \/ NoShowDecided(h)
  <2> DEFINE c == Charges
             p == Paid
             j == [Cancelling(h) EXCEPT !.at = "cancel", !.charges = c, !.paid = p]
             k == [Idle EXCEPT !.at = "no_show", !.charges = c, !.paid = p]
  <2>1. /\ Does(h, j) \/ Does(h, k) \/ Does(h, Idle)
        /\ UNCHANGED <<bill, rows, refunds, events>>
    BY <1>5 DEF CancelDecided, NoShowDecided
  <2>2. c \in Int /\ p \in Int
    BY <1>0
  <2> HIDE DEF c, p
  <2>3. j \in Job /\ j.at = "cancel" /\ k \in Job /\ k.at = "no_show"
    BY <1>0, <2>2 DEF Job
  <2> HIDE DEF j, k
  <2>4. Owing(j, DOMAIN refunds) /\ Owing(k, DOMAIN refunds)
    BY <2>3 DEF Owing
  <2> QED
    BY <1>0, <2>1, <2>3, <2>4, IdleOwes, RowStepTyped DEF TypeOK
<1>6. CASE CancelCommitted(h)
  <2> DEFINE c == job[h].charges
             p == job[h].paid
             fee == job[h].fee
             writeOff == c - FeeKept(fee, p, c)
             due == RefundDue(fee, p, c)
             a == -writeOff
             b == -due
  <2>1. c \in Int /\ p \in Int /\ fee \in Nat
    BY <1>0 DEF Job
  <2>2. a \in Int /\ b \in Int
    <3> HIDE DEF c, p, fee
    <3>1. FeeKept(fee, p, c) \in Nat /\ RefundDue(fee, p, c) \in Nat
      BY <2>1, DueTyped
    <3> QED
      BY <2>1, <3>1
  <2>3. /\ booking' = "cancelled"
        /\ settled' = settled \/ settled' = Append(settled, a)
        /\ rows' = rows \/ Written(CashRow("cancellation", b))
        /\ folio' \in {folio, "closed"}
        /\ Does(h, Idle) /\ UNCHANGED <<extra, refunds, events>>
    BY <1>6 DEF CancelCommitted
  <2> HIDE DEF a, b
  <2>4. rows' \in Seq(Row)
    <3>1. CashRow("cancellation", b) \in Row
      BY <2>2, CashRowTyped
    <3>2. rows \in Seq(Row)
      BY <1>0 DEF TypeOK
    <3> QED
      BY <1>0, <2>3, <3>1, <3>2, WrittenTyped
  <2>5. settled' \in Seq(Int)
    BY <1>0, <2>2, <2>3, SettledTyped
  <2> QED
    BY <1>0, <2>3, <2>4, <2>5, IdleOwes, StepTyped DEF TypeOK
<1>7. CASE NoShowCommitted(h)
  <2> DEFINE n == AtLeastZero(job[h].paid) - job[h].charges
  <2>1. n \in Int
    BY <1>0 DEF Job, AtLeastZero
  <2>2. /\ booking' = "no_show"
        /\ settled' = settled \/ settled' = Append(settled, n)
        /\ folio' \in {folio, Touched}
        /\ Does(h, Idle) /\ UNCHANGED <<extra, rows, refunds, events>>
    BY <1>7 DEF NoShowCommitted
  <2> HIDE DEF n
  <2>3. settled' \in Seq(Int)
    BY <1>0, <2>1, <2>2, SettledTyped
  <2> QED
    BY <1>0, <2>2, <2>3, IdleOwes, StepTyped DEF TypeOK
<1> QED
  BY <1>1, <1>2, <1>3, <1>4, <1>5, <1>6, <1>7 DEF CancelStep

\* The webhook's handler confirms, posts and fails refunds.
LEMMA HookTyped ==
    ASSUME MoneyInv, NEW k \in Hooks, HookStep(k)
    PROVE  MoneyInv'
<1>0. /\ k \in Handlers /\ job[k] \in Job /\ TypeOK /\ Idle \in Job
  BY IdleTyped DEF Handlers, MoneyInv, TypeOK
<1>1. ASSUME NEW w \in {"confirm", "fail", "post"}, NEW i \in Nat
      PROVE  LET j == [Idle EXCEPT !.at = w, !.row = i]
             IN j \in Job /\ Owing(j, DOMAIN refunds)
  <2> DEFINE j == [Idle EXCEPT !.at = w, !.row = i]
  <2>1. j \in Job /\ j.at = w
    BY <1>0 DEF Job
  <2> HIDE DEF j
  <2>2. Owing(j, DOMAIN refunds)
    BY <2>1 DEF Owing
  <2> QED
    BY <2>1, <2>2 DEF j
<1>2. ASSUME NEW e \in events, HookReads(k, e)
      PROVE  MoneyInv'
  <2>1. PICK i \in DOMAIN rows, w \in {"confirm", "fail"} :
            Does(k, [Idle EXCEPT !.at = w, !.row = i])
    BY <1>2 DEF HookReads
  <2> DEFINE j == [Idle EXCEPT !.at = w, !.row = i]
  <2>2. i \in Nat
    BY <1>0 DEF TypeOK
  <2>3. j \in Job /\ Owing(j, DOMAIN refunds)
    BY <1>1, <2>2
  <2>4. Does(k, j)
    BY <2>1
  <2> HIDE DEF j
  <2>5. rows' \in Seq(Row) /\ UNCHANGED <<bill, refunds, events>>
    BY <1>0, <1>2 DEF HookReads, TypeOK
  <2> QED
    BY <1>0, <2>3, <2>4, <2>5, RowStepTyped
<1>3. CASE HookConfirms(k)
  <2> DEFINE i == job[k].row
             j == [Idle EXCEPT !.at = "post", !.row = i]
  <2>1. i \in Nat
    BY <1>0 DEF Job
  <2>2. j \in Job /\ Owing(j, DOMAIN refunds)
    BY <1>1, <2>1
  <2>3. Does(k, j) /\ rows' = [rows EXCEPT ![i].status = "paid"] /\ UNCHANGED <<bill, refunds, events>>
    BY <1>3 DEF HookConfirms
  <2> HIDE DEF i, j
  <2>4. rows' \in Seq(Row)
    BY <1>0, <2>3, RowEditedTyped
  <2> QED
    BY <1>0, <2>2, <2>3, <2>4, RowStepTyped
<1>4. CASE HookPosts(k) \/ HookFails(k)
  <2>1. rows' \in Seq(Row)
    <3>1. CASE UNCHANGED rows
      BY <1>0, <3>1 DEF TypeOK
    <3>2. CASE rows' = [rows EXCEPT ![job[k].row].moved = @ + 1]
      BY <1>0, <3>2, RowEditedTyped
    <3>3. CASE rows' = [rows EXCEPT ![job[k].row].status = "failed"]
      BY <1>0, <3>3, RowEditedTyped
    <3> QED
      BY <1>4, <3>1, <3>2, <3>3 DEF HookPosts, HookFails
  <2>2. Does(k, Idle) /\ UNCHANGED <<bill, refunds, events>>
    BY <1>4 DEF HookPosts, HookFails
  <2> QED
    BY <1>0, <2>1, <2>2, IdleOwes, RowStepTyped
<1> QED
  BY <1>2, <1>3, <1>4 DEF HookStep

\* Every step keeps the types.
LEMMA MoneyStep == MoneyInv /\ [Next]_vars => MoneyInv'
<1> SUFFICES ASSUME MoneyInv, [Next]_vars
             PROVE  MoneyInv'
  OBVIOUS
<1>0. TypeOK /\ Touched \in {"open", "closed"} \union {folio} /\ Touched # "none"
  BY DEF MoneyInv, TypeOK, Touched
<1>1. ASSUME NEW h \in Staff, DeskStep(h) \/ CancelStep(h)
      PROVE  MoneyInv'
  BY <1>1, DeskTyped, CancelTyped
<1>2. ASSUME NEW i \in DOMAIN rows, PaymentVoided(i)
      PROVE  MoneyInv'
  <2>1. rows' \in Seq(Row)
    BY <1>0, <1>2, RowEditedTyped DEF PaymentVoided
  <2> QED
    BY <1>2, <2>1 DEF PaymentVoided, MoneyInv, TypeOK, bill
<1>3. CASE FolioOpened \/ ChargeAdded \/ ChargeVoided
  BY <1>0, <1>3 DEF FolioOpened, ChargeAdded, ChargeVoided, MoneyInv, TypeOK
<1>4. ASSUME NEW n \in DOMAIN refunds, RefundSettles(n)
      PROVE  MoneyInv'
  <2>1. PICK s \in {"succeeded", "failed"} :
            /\ refunds' = [refunds EXCEPT ![n].status = s]
            /\ events' = events \union {[refund |-> n, status |-> s]}
            /\ UNCHANGED <<bill, rows, job>>
    BY <1>4 DEF RefundSettles
  <2>2. refunds \in [1 .. Len(refunds) -> Refund] /\ Len(refunds) \in Nat
    BY <1>0 DEF TypeOK
  <2>3. [refunds[n] EXCEPT !.status = s] \in Refund
    BY <2>2 DEF Refund
  <2>4. refunds' \in [1 .. Len(refunds) -> Refund] /\ DOMAIN refunds' = DOMAIN refunds
    BY <2>1, <2>2, <2>3
  <2>5. refunds' \in Seq(Refund)
    BY <2>2, <2>4, SeqDef
  <2>6. events' \subseteq [refund : DOMAIN refunds', status : {"succeeded", "failed"}]
    BY <1>0, <2>1, <2>4 DEF TypeOK
  <2> QED
    BY <2>1, <2>4, <2>5, <2>6 DEF MoneyInv, TypeOK, bill
<1>5. ASSUME NEW k \in Hooks, HookStep(k)
      PROVE  MoneyInv'
  BY <1>5, HookTyped
<1>6. ASSUME NEW h \in Handlers, HandlerDies(h)
      PROVE  MoneyInv'
  BY <1>0, <1>6, IdleTyped, IdleOwes, RowStepTyped DEF HandlerDies, TypeOK
<1>7. CASE UNCHANGED vars
  BY <1>7 DEF vars, bill, MoneyInv, TypeOK
<1> QED
  BY <1>1, <1>2, <1>3, <1>4, <1>5, <1>6, <1>7 DEF Next

LEMMA MoneyInit == Init => MoneyInv
<1> SUFFICES ASSUME Init PROVE MoneyInv
  OBVIOUS
<1>1. settled \in Seq(Int) /\ rows \in Seq(Row) /\ refunds \in Seq(Refund)
  BY DEF Init
<1>2. job \in [Handlers -> Job] /\ \A h \in Handlers : Owing(job[h], DOMAIN refunds)
  BY IdleTyped, IdleOwes DEF Init
<1>3. /\ booking \in {"confirmed", "cancelled", "no_show"}
      /\ folio \in {"none", "open", "closed"}
      /\ extra \in {"none", "charged", "voided"}
      /\ events \subseteq [refund : DOMAIN refunds, status : {"succeeded", "failed"}]
      /\ extra # "none" => folio # "none"
  BY DEF Init
<1> QED
  BY <1>1, <1>2, <1>3 DEF MoneyInv, TypeOK

\* Whatever requests and webhooks interleave or die, the rows stay what their columns hold: a
\* refund never asks PayMongo for a negative amount, and an event is about a refund it made.
THEOREM MoneyTyped == Spec => []TypeOK
<1>1. MoneyInv => TypeOK
  BY DEF MoneyInv
<1> QED
  BY <1>1, MoneyInit, MoneyStep, PTL DEF Spec

----------------------------------------------------------------------------
\* The end of a booking settles its folio.

Extra == IF extra = "charged" THEN 1 ELSE 0

\* What a booking that has not ended is charged, with or without a folio.
LEMMA ChargesOpen ==
    ASSUME MoneyInv, EInv, booking = "confirmed"
    PROVE  Charges = Price + Extra /\ Charges \in Nat
<1>1. Total(settled) = 0
  <2>1. settled = <<>>
    BY DEF EInv
  <2>2. DOMAIN settled = {}
    BY <2>1
  <2> QED
    BY <2>2, TotalOfNone
<1>2. Price \in Nat /\ Extra \in Nat
  BY RefundsAssumption DEF Extra
<1>3. FolioCharges = Price + Extra
  BY <1>1, <1>2 DEF FolioCharges, Extra
<1>4. folio = "none" => Extra = 0
  BY DEF MoneyInv, Extra
<1> QED
  BY <1>2, <1>3, <1>4 DEF Charges

\* What is on the folio afterwards.
LEMMA ChargesSettled ==
    ASSUME UNCHANGED extra, folio' # "none"
    PROVE  Charges' = Price + Extra + Total(settled')
BY DEF Charges, FolioCharges, Extra

\* A refund by hand takes what it pays out off what is paid.
LEMMA PaidOut ==
    ASSUME TypeOK, NEW n \in Int, rows' = Append(rows, CashRow("cancellation", n))
    PROVE  Paid' = Paid + n
<1> DEFINE k == Len(rows)
           v == Counted
           w == Counted'
<1>1. /\ k \in Nat /\ DOMAIN rows = 1 .. k /\ DOMAIN rows' = 1 .. k + 1
      /\ \A i \in 1 .. k : rows'[i] = rows[i]
      /\ rows'[k + 1] = CashRow("cancellation", n)
      /\ \A i \in 1 .. k : rows[i] \in Row /\ rows[i].amount \in Int
  BY RowIsTyped DEF TypeOK
<1>2. DOMAIN v = 1 .. k /\ DOMAIN w = 1 .. k + 1
  BY <1>1 DEF Counted
<1>3. \A i \in 1 .. k : w[i] = v[i] /\ v[i] \in Int
  BY <1>1 DEF Counted
<1>4. w[k + 1] = n
  BY <1>1 DEF Counted, CashRow
<1>5. \A i \in 1 .. k + 1 : w[i] \in Int
  <2>1. \A i \in 1 .. k + 1 : i \in 1 .. k \/ i = k + 1
    BY <1>1
  <2> QED
    BY <1>3, <1>4, <2>1
<1>6. Total(v) \in Int
  BY <1>1, <1>2, <1>3, TotalType
<1> HIDE DEF v, w, k
<1>7. Total(w) = Total(v) + n
  BY <1>1, <1>2, <1>3, <1>4, <1>5, TotalAppended
<1>8. Origins * Deposit \in Int
  BY RefundsAssumption
<1>9. Paid = Origins * Deposit + Total(v) /\ Paid' = Origins * Deposit + Total(w)
  BY DEF Paid, Counted, v, w
<1> QED
  BY <1>6, <1>7, <1>8, <1>9

\* What is written off and paid out makes the balance zero, or the credit there was.
LEMMA FeeSettles ==
    ASSUME NEW c \in Nat, NEW p \in Int, NEW fee \in Nat
    PROVE  LET writeOff == c - FeeKept(fee, p, c)
               due == RefundDue(fee, p, c)
           IN c + (IF writeOff > 0 THEN -writeOff ELSE 0) - (p + -due) = AtLeastZero(-p)
<1> DEFINE k == FeeKept(fee, p, c)
<1>1. k \in Nat /\ k <= c /\ (p >= 0 => k <= p) /\ (p < 0 => k = 0)
  BY DEF FeeKept, AtLeastZero, Least
<1>2. RefundDue(fee, p, c) = IF p - k < 0 THEN 0 ELSE p - k
  BY DEF RefundDue, AtLeastZero
<1>3. AtLeastZero(-p) = IF p > 0 THEN 0 ELSE -p
  BY DEF AtLeastZero
<1> HIDE DEF k
<1>4. CASE p < 0
  <2>1. k = 0 /\ p - k < 0 /\ ~(p > 0)
    BY <1>1, <1>4
  <2> QED
    BY <1>1, <1>2, <1>3, <2>1 DEF k
<1>5. CASE p >= 0
  <2>1. p - k >= 0
    BY <1>1, <1>5
  <2> QED
    BY <1>1, <1>2, <1>3, <1>5, <2>1 DEF k
<1> QED
  BY <1>4, <1>5

LEMMA PaidAsBefore == ASSUME UNCHANGED rows PROVE Paid' = Paid
BY DEF Paid

LEMMA CancelSettles ==
    ASSUME MoneyInv, EInv, NEW h \in Staff, CancelCommitted(h), Ends(h), job[h].how = "desk",
           folio' # "none"
    PROVE  Balance' = AtLeastZero(-Paid)
<1> DEFINE c == job[h].charges
           p == job[h].paid
           fee == job[h].fee
           writeOff == c - FeeKept(fee, p, c)
           due == RefundDue(fee, p, c)
           a == IF writeOff > 0 THEN -writeOff ELSE 0
           b == -due
<1>0. /\ TypeOK /\ h \in Handlers /\ job[h] \in Job /\ job[h].at = "cancel"
      /\ booking = "confirmed"
  BY DEF MoneyInv, TypeOK, Handlers, CancelCommitted, EInv, Ending
<1>1. c = Charges /\ p = Paid /\ c = Price + Extra /\ c \in Nat /\ p \in Int /\ fee \in Nat
  BY <1>0, ChargesOpen, LedgerTyped DEF Ends, Job
<1>2. /\ settled' = IF writeOff > 0 THEN Append(settled, -writeOff) ELSE settled
      /\ IF due > 0 THEN rows' = Append(rows, CashRow("cancellation", -due)) ELSE rows' = rows
      /\ UNCHANGED extra
  BY DEF CancelCommitted, Written
<1>3. settled = <<>>
  BY <1>0 DEF EInv
<1> HIDE DEF c, p, fee
<1>4. FeeKept(fee, p, c) \in Nat /\ due \in Nat
  <2>1. c \in Int /\ p \in Int /\ fee \in Nat
    BY <1>1
  <2> QED
    BY <2>1, DueTyped
<1>5. a \in Int /\ b \in Int
  BY <1>1, <1>4
<1>6. Total(settled') = a
  <2>1. CASE writeOff > 0
    <3>1. settled' = <<-writeOff>> /\ a = -writeOff /\ -writeOff \in Int
      BY <1>1, <1>2, <1>3, <1>4, <2>1
    <3> HIDE DEF writeOff, a
    <3> QED
      BY <3>1, TotalOfOne
  <2>2. CASE ~(writeOff > 0)
    <3>1. settled' = <<>> /\ a = 0
      BY <1>2, <1>3, <2>2
    <3>2. DOMAIN settled' = {}
      BY <3>1
    <3> QED
      BY <3>1, <3>2, TotalOfNone
  <2> QED
    BY <2>1, <2>2
<1>7. Paid' = p + b
  <2>1. CASE due > 0
    <3>1. rows' = Append(rows, CashRow("cancellation", b))
      BY <1>2, <2>1
    <3> HIDE DEF b
    <3> QED
      BY <1>0, <1>1, <1>5, <3>1, PaidOut
  <2>2. CASE ~(due > 0)
    <3>1. rows' = rows /\ b = 0
      BY <1>2, <1>4, <2>2
    <3> HIDE DEF b
    <3> QED
      BY <1>1, <3>1, PaidAsBefore
  <2> QED
    BY <2>1, <2>2
<1>8. Charges' = c + a
  BY <1>1, <1>2, <1>6, ChargesSettled
\* The fee is kept, the rest is written off and paid out.
<1>9. c + a - (p + b) = AtLeastZero(-p)
  <2>1. c \in Nat /\ p \in Int /\ fee \in Nat
    BY <1>1
  <2> HIDE DEF c, p
  <2> QED
    BY <2>1, FeeSettles
<1> HIDE DEF a, b
<1>10. Balance' = c + a - (p + b)
  BY <1>1, <1>5, <1>7, <1>8 DEF Balance
<1>11. AtLeastZero(-p) = AtLeastZero(-Paid)
  BY <1>1
<1> QED
  BY <1>9, <1>10, <1>11

LEMMA NoShowSettles ==
    ASSUME MoneyInv, EInv, NEW h \in Staff, NoShowCommitted(h), Ends(h), folio' # "none"
    PROVE  Balance' = AtLeastZero(-Paid)
<1> DEFINE c == job[h].charges
           p == job[h].paid
           a == AtLeastZero(p) - c
<1>0. /\ TypeOK /\ h \in Handlers /\ job[h] \in Job /\ booking = "confirmed"
  BY DEF MoneyInv, TypeOK, Handlers, NoShowCommitted, EInv, Ending
<1>1. c = Charges /\ p = Paid /\ c = Price + Extra /\ c \in Nat /\ p \in Int
  BY <1>0, ChargesOpen, LedgerTyped DEF Ends
<1>2. /\ IF a = 0 THEN UNCHANGED settled ELSE settled' = Append(settled, a)
      /\ UNCHANGED <<extra, rows>>
  BY DEF NoShowCommitted
<1>3. settled = <<>>
  BY <1>0 DEF EInv
<1> HIDE DEF c, p
<1>4. a \in Int
  BY <1>1 DEF AtLeastZero
<1>5. Total(settled') = a
  <2> HIDE DEF a
  <2>1. CASE a = 0
    <3>1. DOMAIN settled' = {}
      BY <1>2, <1>3, <2>1
    <3> QED
      BY <2>1, <3>1, TotalOfNone
  <2>2. CASE a # 0
    <3>1. settled' = <<a>>
      BY <1>2, <1>3, <2>2
    <3> QED
      BY <1>4, <3>1, TotalOfOne
  <2> QED
    BY <2>1, <2>2
<1>6. Charges' = c + a /\ Paid' = p
  BY <1>1, <1>2, <1>5, ChargesSettled, PaidAsBefore
<1>7. c + a - p = AtLeastZero(-p)
  BY <1>1 DEF AtLeastZero
<1> HIDE DEF a
<1>8. Balance' = c + a - p
  BY <1>1, <1>4, <1>6 DEF Balance
<1>9. AtLeastZero(-p) = AtLeastZero(-Paid)
  BY <1>1
<1> QED
  BY <1>7, <1>8, <1>9

\* Only its end changes the status of a booking, and it is the request that ends it that moves.
LEMMA WhoEnds ==
    ASSUME MoneyInv, [Next]_vars, NEW h \in Staff, Ends(h)
    PROVE  CancelCommitted(h) \/ NoShowCommitted(h)
<1> USE DEF Ends
<1>1. ASSUME NEW g \in Handlers, NEW j, Does(g, j)
      PROVE  g = h
  <2>1. job \in [Handlers -> Job]
    BY DEF MoneyInv, TypeOK
  <2> QED
    BY <1>1, <2>1 DEF Does, Handlers
<1>2. ASSUME NEW g \in Staff, CancelStep(g)
      PROVE  CancelCommitted(h) \/ NoShowCommitted(h)
  <2>1. CancelCommitted(g) \/ NoShowCommitted(g)
    BY <1>2 DEF CancelStep, CancelRequested, RefundAsked, RefundRecorded, FailureRecorded,
                CancelDecided, NoShowDecided, bill
  <2>2. Does(g, Idle)
    BY <2>1 DEF CancelCommitted, NoShowCommitted
  <2>3. g = h
    BY <1>1, <2>2 DEF Handlers
  <2> QED
    BY <2>1, <2>3
<1>3. ASSUME NEW g \in Staff, DeskStep(g)
      PROVE  FALSE
  BY <1>3 DEF DeskStep, PaymentRequested, ReturnRequested, PaymentTaken, Returned, bill
<1>4. ASSUME NEW k \in Hooks, HookStep(k)
      PROVE  FALSE
  BY <1>4 DEF HookStep, HookReads, HookConfirms, HookPosts, HookFails, bill
<1>5. ASSUME NEW i, PaymentVoided(i) \/ RefundSettles(i) \/ HandlerDies(i)
      PROVE  FALSE
  BY <1>5 DEF PaymentVoided, RefundSettles, HandlerDies, bill
<1>6. CASE FolioOpened \/ ChargeAdded \/ ChargeVoided \/ UNCHANGED vars
  BY <1>6 DEF FolioOpened, ChargeAdded, ChargeVoided, vars, bill
<1> QED
  BY <1>2, <1>3, <1>4, <1>5, <1>6 DEF Next

\* A cancellation by hand, or a no-show, that finds the ledger as it read it leaves nothing owed
\* and no credit on the folio, whatever fee is kept and whatever was charged, voided, paid or
\* refunded before (cancelBooking, markNoShow).
THEOREM EndsSettled == Spec => EndSettlesFolio
<1>1. ASSUME MoneyInv, EInv, [Next]_vars, NEW h \in Staff, Ends(h), folio' # "none"
      PROVE  Balance' = AtLeastZero(-Paid)
  <2>1. CASE CancelCommitted(h)
    <3>1. job[h].how = "desk"
      BY <1>1, <2>1 DEF Ends, CancelCommitted
    <3> QED
      BY <1>1, <2>1, <3>1, CancelSettles
  <2>2. CASE NoShowCommitted(h)
    BY <1>1, <2>2, NoShowSettles
  <2> QED
    BY <1>1, <2>1, <2>2, WhoEnds
<1>2. MoneyInv /\ EInv /\ [Next]_vars
          => [\A h \in Staff : Ends(h) /\ folio' # "none" => Balance' = AtLeastZero(-Paid)]_vars
  BY <1>1
<1> QED
  BY <1>2, MoneyInit, MoneyStep, EndInit, EndStep, PTL DEF Spec, EndSettlesFolio
=============================================================================
