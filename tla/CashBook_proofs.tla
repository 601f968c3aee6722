--------------------------- MODULE CashBook_proofs ---------------------------
(***************************************************************************)
(* What holds of CashBook for any number of tellers, voiders, closers,      *)
(* shifts and days.                                                         *)
(***************************************************************************)
EXTENDS CashBook, Sums, FiniteSetTheorems, SequenceTheorems, TLAPS

----------------------------------------------------------------------------
\* The chain of Z-readings.

\* A computed reading continues the chain from a reading that exists, the last one at the time.
Continues(h) ==
    job[h].at = "number" =>
        \E k \in 0 .. Len(zs) :
            /\ job[h].counter = k + 1
            /\ job[h].prev = (IF k = 0 THEN 0 ELSE zs[k].new)

ZInv ==
    /\ \E S : zs \in Seq(S)
    /\ ZsChain
    /\ DOMAIN job = Handlers
    /\ \A h \in Handlers : Continues(h)

\* In a chain without gaps the reading with the highest counter is the last one.
LEMMA LatestIsLast ==
    ASSUME ZInv, zs # <<>>
    PROVE  Latest = zs[Len(zs)]
<1> PICK S : zs \in Seq(S)
  BY DEF ZInv
<1>1. Len(zs) \in Nat \ {0} /\ DOMAIN zs = 1 .. Len(zs)
  OBVIOUS
<1>2. \A i \in 1 .. Len(zs) : zs[i].counter = i
  BY <1>1 DEF ZInv, ZsChain
<1>3. ToSet(zs) = {zs[i] : i \in 1 .. Len(zs)}
  BY <1>1 DEF ToSet
<1>4. \A y \in ToSet(zs) : y.counter <= zs[Len(zs)].counter
  BY <1>1, <1>2, <1>3
<1>5. zs[Len(zs)] \in ToSet(zs)
  BY <1>1, <1>3
<1>6. ASSUME NEW z \in ToSet(zs), \A y \in ToSet(zs) : y.counter <= z.counter
      PROVE  z = zs[Len(zs)]
  <2>1. PICK i \in 1 .. Len(zs) : z = zs[i]
    BY <1>3
  <2>2. Len(zs) <= i
    BY <1>1, <1>2, <1>5, <1>6, <2>1
  <2> QED
    BY <1>1, <2>1, <2>2
<1> QED
  BY <1>4, <1>5, <1>6 DEF Latest

\* A step that leaves the readings alone and gives no handler a computed one keeps the chain.
LEMMA ChainUntouched ==
    ASSUME ZInv, UNCHANGED zs, DOMAIN job' = Handlers,
           \A h \in Handlers : job'[h] = job[h] \/ job'[h].at # "number"
    PROVE  ZInv'
BY DEF ZInv, ZsChain, Continues

\* What every new job but a computed reading looks like.
LEMMA NewJob ==
    ASSUME DOMAIN job = Handlers, NEW h \in Handlers, NEW j, Does(h, j), j.at # "number"
    PROVE  /\ DOMAIN job' = Handlers
           /\ \A g \in Handlers : job'[g] = job[g] \/ job'[g].at # "number"
BY DEF Does

\* Every step keeps the chain of readings.
LEMMA ChainStep == ZInv /\ [Next]_vars => ZInv'
<1> SUFFICES ASSUME ZInv, [Next]_vars
             PROVE  ZInv'
  OBVIOUS
<1> USE DEF Idle
<1>0. DOMAIN job = Handlers
  BY DEF ZInv
<1>1. ASSUME NEW h \in Tellers, MoneyStep(h)
      PROVE  ZInv'
  <2> h \in Handlers
    BY DEF Handlers
  <2>1. ASSUME NEW legs, Requested(h, legs)
        PROVE  ZInv'
    BY <1>0, <2>1, NewJob, ChainUntouched DEF Requested
  <2>2. CASE MovesPosted(h)
    BY <1>0, <2>2, NewJob, ChainUntouched DEF MovesPosted
  <2> QED
    BY <1>1, <2>1, <2>2 DEF MoneyStep, SaleRequested, TransferRequested, EventRequested
<1>2. ASSUME NEW h \in Tellers, ShiftStep(h)
      PROVE  ZInv'
  <2> h \in Handlers
    BY DEF Handlers
  <2>1. ASSUME NEW s \in Shifts, NEW n, OpenShift(h, s, n)
        PROVE  ZInv'
    BY <1>0, <2>1, NewJob, ChainUntouched DEF OpenShift
  <2>2. ASSUME NEW s \in Shifts, NEW n, CloseRequested(h, s, n)
        PROVE  ZInv'
    BY <1>0, <2>2, NewJob, ChainUntouched DEF CloseRequested
  <2>3. CASE FloatRequested(h)
    BY <1>0, <2>3, NewJob, ChainUntouched DEF FloatRequested
  <2>4. CASE ShiftClosed(h)
    BY <1>0, <2>4, NewJob, ChainUntouched DEF ShiftClosed
  <2>5. ASSUME NEW s \in Shifts, CollectRequested(h, s)
        PROVE  ZInv'
    BY <1>0, <2>5, NewJob, ChainUntouched DEF CollectRequested
  <2>6. CASE Collected(h)
    BY <1>0, <2>6, NewJob, ChainUntouched DEF Collected
  <2> QED
    BY <1>2, <2>1, <2>2, <2>3, <2>4, <2>5, <2>6 DEF ShiftStep
<1>3. ASSUME NEW h \in Closers, DayStep(h)
      PROVE  ZInv'
  <2> h \in Handlers
    BY DEF Handlers
  <2>1. ASSUME NEW d \in Days, DayCloseRequested(h, d) \/ ZRequested(h, d)
        PROVE  ZInv'
    BY <1>0, <2>1, NewJob, ChainUntouched DEF DayCloseRequested, ZRequested
  <2>2. CASE DayClosed(h)
    BY <1>0, <2>2, NewJob, ChainUntouched DEF DayClosed
  <2>3. CASE ZComputed(h)
    <3>1. /\ zs' = zs
          /\ job' = [job EXCEPT ![h] = job'[h]]
          /\ job'[h].counter = LastCounter + 1
          /\ job'[h].prev = GrandTotal
      BY <1>0, <2>3 DEF ZComputed, Does
    <3>2. PICK S : zs \in Seq(S)
      BY DEF ZInv
    <3>3. Continues(h)'
      <4>1. CASE zs = <<>>
        BY <3>1, <4>1 DEF Continues, LastCounter, GrandTotal
      <4>2. CASE zs # <<>>
        <5>1. Latest = zs[Len(zs)] /\ Len(zs) \in Nat \ {0}
          BY <3>2, <4>2, LatestIsLast
        <5>2. LastCounter = Len(zs) /\ GrandTotal = zs[Len(zs)].new
          BY <3>2, <4>2, <5>1 DEF LastCounter, GrandTotal, ZInv, ZsChain
        <5> QED
          BY <3>1, <5>1, <5>2 DEF Continues
      <4> QED
        BY <4>1, <4>2
    <3>4. \A g \in Handlers : Continues(g)'
      BY <1>0, <3>1, <3>3 DEF ZInv, Continues
    <3> QED
      BY <1>0, <3>1, <3>4 DEF ZInv, ZsChain
  <2>4. CASE ZIssued(h)
    <3>1. PICK S : zs \in Seq(S)
      BY DEF ZInv
    <3> Len(zs) \in Nat
      BY <3>1
    <3>2. job' = [job EXCEPT ![h] = Idle]
      BY <2>4 DEF ZIssued, Does
    <3>3. CASE zs' = zs
      BY <1>0, <2>4, <3>3, NewJob, ChainUntouched DEF ZIssued
    <3>4. CASE zs' # zs
      <4> DEFINE z == [counter |-> job[h].counter, day |-> job[h].day, net |-> job[h].net,
                       prev |-> job[h].prev, new |-> job[h].prev + job[h].net]
      <4>1. zs' = Append(zs, z) /\ ~CounterTaken(job[h].counter)
        BY <2>4, <3>4 DEF ZIssued
      <4>2. PICK k \in 0 .. Len(zs) :
                /\ job[h].counter = k + 1
                /\ job[h].prev = (IF k = 0 THEN 0 ELSE zs[k].new)
        BY <2>4 DEF ZIssued, ZInv, Continues
      <4>3. k = Len(zs)
        <5>1. ASSUME k < Len(zs)
              PROVE  FALSE
          <6>1. k + 1 \in 1 .. Len(zs) /\ zs[k + 1].counter = k + 1
            BY <3>1, <5>1 DEF ZInv, ZsChain
          <6>2. zs[k + 1] \in ToSet(zs)
            BY <3>1, <6>1 DEF ToSet
          <6> QED
            BY <4>1, <4>2, <6>1, <6>2 DEF CounterTaken
        <5> QED
          BY <5>1
      <4> HIDE DEF z
      <4>4. /\ zs' \in Seq(S \union {z})
            /\ Len(zs') = Len(zs) + 1
            /\ DOMAIN zs' = 1 .. Len(zs) + 1
            /\ \A i \in 1 .. Len(zs) : zs'[i] = zs[i]
            /\ zs'[Len(zs) + 1] = z
        <5>1. zs \in Seq(S \union {z}) /\ z \in S \union {z}
          BY <3>1
        <5> QED
          BY <4>1, <5>1
      <4>5. z.counter = Len(zs) + 1 /\ z.new = z.prev + z.net
        BY <4>2, <4>3 DEF z
      <4>6. z.prev = (IF Len(zs) = 0 THEN 0 ELSE zs[Len(zs)].new)
        BY <4>2, <4>3 DEF z
      <4>7. ZsChain'
        <5> SUFFICES ASSUME NEW i \in 1 .. Len(zs) + 1
                     PROVE  /\ zs'[i].counter = i
                            /\ zs'[i].prev = (IF i = 1 THEN 0 ELSE zs'[i - 1].new)
                            /\ zs'[i].new = zs'[i].prev + zs'[i].net
          BY <4>4 DEF ZsChain
        <5>1. CASE i \in 1 .. Len(zs)
          <6>1. zs'[i] = zs[i] /\ (i # 1 => zs'[i - 1] = zs[i - 1])
            BY <4>4, <5>1
          <6>2. i \in DOMAIN zs
            BY <3>1, <5>1
          <6> QED
            BY <6>1, <6>2 DEF ZInv, ZsChain
        <5>2. CASE i = Len(zs) + 1
          <6>1. Len(zs) # 0 => zs'[i - 1] = zs[Len(zs)]
            BY <4>4, <5>2
          <6> QED
            BY <4>4, <4>5, <4>6, <5>2, <6>1
        <5> QED
          BY <5>1, <5>2
      <4>8. \A g \in Handlers : Continues(g)'
        <5> SUFFICES ASSUME NEW g \in Handlers, job'[g].at = "number"
                     PROVE  \E n \in 0 .. Len(zs') :
                                /\ job'[g].counter = n + 1
                                /\ job'[g].prev = (IF n = 0 THEN 0 ELSE zs'[n].new)
          BY DEF Continues
        <5>1. job'[g] = job[g]
          BY <1>0, <3>2
        <5>2. PICK n \in 0 .. Len(zs) :
                  /\ job[g].counter = n + 1
                  /\ job[g].prev = (IF n = 0 THEN 0 ELSE zs[n].new)
          BY <5>1 DEF ZInv, Continues
        <5>3. n # 0 => zs'[n] = zs[n]
          BY <4>4, <5>2
        <5>4. n \in 0 .. Len(zs')
          BY <4>4, <5>2
        <5> QED
          BY <5>1, <5>2, <5>3, <5>4
      <4> QED
        BY <1>0, <3>2, <4>4, <4>7, <4>8 DEF ZInv
    <3> QED
      BY <3>3, <3>4
  <2> QED
    BY <1>3, <2>1, <2>2, <2>3, <2>4 DEF DayStep
<1>4. ASSUME NEW v \in Voiders, MoveVoided(v) \/ \E i \in DOMAIN moves : VoidRequested(v, i)
      PROVE  ZInv'
  <2> v \in Handlers
    BY DEF Handlers
  <2> QED
    BY <1>0, <1>4, NewJob, ChainUntouched DEF MoveVoided, VoidRequested
<1>10. ASSUME NEW v \in DeskVoiders,
              PaymentVoided(v) \/ \E i \in DOMAIN moves : PaymentVoidRequested(v, i)
       PROVE  ZInv'
  <2> v \in Handlers
    BY DEF Handlers
  <2> QED
    BY <1>0, <1>10, NewJob, ChainUntouched DEF PaymentVoided, PaymentVoidRequested
<1>5. ASSUME NEW s \in Shifts, WrittenOff(s) \/ \E n \in Amounts : ChargedBack(s, n)
      PROVE  ZInv'
  BY <1>0, <1>5, ChainUntouched DEF WrittenOff, ChargedBack
<1>6. ASSUME NEW d \in Days, DayReopened(d)
      PROVE  ZInv'
  BY <1>0, <1>6, ChainUntouched DEF DayReopened
<1>7. CASE NightPasses
  BY <1>0, <1>7, ChainUntouched DEF NightPasses
<1>8. ASSUME NEW h \in Handlers, HandlerDies(h)
      PROVE  ZInv'
  BY <1>0, <1>8, NewJob, ChainUntouched DEF HandlerDies
<1>9. CASE UNCHANGED vars
  BY <1>0, <1>9, ChainUntouched DEF vars, book
<1> QED
  BY <1>1, <1>2, <1>3, <1>4, <1>5, <1>6, <1>7, <1>8, <1>9, <1>10 DEF Next

\* At the start there is no reading and no job.
LEMMA ChainInit == Init => ZInv
<1> SUFFICES ASSUME Init PROVE ZInv
  OBVIOUS
<1>1. zs \in Seq({}) /\ DOMAIN zs = {}
  BY DEF Init
<1> QED
  BY <1>1 DEF Init, ZInv, ZsChain, Continues, Idle

\* However many closes, repeated closes and readings by hand run at once, on however many days,
\* the Z-readings count from one without a gap and each starts from the grand total of the one
\* before (issueZReading).
THEOREM ReadingsChain == Spec => []ZsChain
<1>1. Init => ZInv
  BY ChainInit
<1>2. ZInv /\ [Next]_vars => ZInv'
  BY ChainStep
<1>3. ZInv => ZsChain
  BY DEF ZInv
<1> QED
  BY <1>1, <1>2, <1>3, PTL DEF Spec

----------------------------------------------------------------------------
\* Shortages and their recovery.

\* Rows with fields of any value: what the sums come to is not looked at.
MoveOf(D) == [day : D, account : D, delta : D, why : D, rung : D, source : D, voided : D]
ShiftOf(D) == [status : D, day : D, float : D, expected : D, variance : D, back : D, amount : D]

Recoveries(s) == {i \in DOMAIN moves : moves[i].why = "recovery" /\ moves[i].source = s}

MovesFine == \E D : moves \in Seq(MoveOf(D))
ShiftsFine ==
    /\ \E D : shift \in [Shifts -> ShiftOf(D)]
    /\ \A s \in Shifts : shift[s].status = "none" => shift[s].back = "none"
LegsFine(legs) ==
    \E D : /\ legs \in Seq(MoveOf(D))
           /\ \A i \in DOMAIN legs : legs[i].why # "recovery"
JobsFine ==
    /\ DOMAIN job = Handlers
    /\ \A h \in Handlers :
           /\ job[h].at = "move" => LegsFine(job[h].legs)
           /\ job[h].at = "collect" => job[h].shift \in Shifts

RInv ==
    /\ MovesFine
    /\ ShiftsFine
    /\ JobsFine
    /\ \A s \in Shifts :
           IF shift[s].back = "collected" THEN \E i : Recoveries(s) = {i} ELSE Recoveries(s) = {}

\* A leg has the fields of a row.
LEMMA LegIsMove ==
    ASSUME NEW d, NEW a, NEW n, NEW w, NEW r, NEW c, NEW D
    PROVE  Leg(d, a, n, w, r, c) \in MoveOf(D \union {d, a, n, w, r, c, FALSE})
BY DEF Leg, MoveOf

\* More values, more rows.
LEMMA MoveGrows ==
    ASSUME NEW D, NEW E
    PROVE  MoveOf(D) \subseteq MoveOf(D \union E)
BY DEF MoveOf
LEMMA ShiftGrows ==
    ASSUME NEW D, NEW E
    PROVE  ShiftOf(D) \subseteq ShiftOf(D \union E)
BY DEF ShiftOf

\* One leg that is no recovery may be posted.
LEMMA OneLeg ==
    ASSUME NEW d, NEW a, NEW n, NEW w, NEW r, NEW c, w # "recovery"
    PROVE  LegsFine(<<Leg(d, a, n, w, r, c)>>)
<1> DEFINE l == Leg(d, a, n, w, r, c)
           D == {} \union {d, a, n, w, r, c, FALSE}
<1>1. l \in MoveOf(D)
  BY LegIsMove
<1>2. l.why = w
  BY DEF Leg
<1> HIDE DEF l, D
<1>3. <<l>> \in Seq(MoveOf(D)) /\ \A i \in DOMAIN <<l>> : <<l>>[i].why # "recovery"
  BY <1>1, <1>2
<1> QED
  BY <1>3 DEF LegsFine, l

\* Two lists of legs may be posted as one, and are the movements of both.
LEMMA Joined ==
    ASSUME NEW D, NEW E, NEW p \in Seq(MoveOf(D)), NEW q \in Seq(MoveOf(E))
    PROVE  /\ p \o q \in Seq(MoveOf(D \union E))
           /\ DOMAIN (p \o q) = 1 .. Len(p) + Len(q)
           /\ DOMAIN p = 1 .. Len(p) /\ DOMAIN q = 1 .. Len(q)
           /\ Len(p) \in Nat /\ Len(q) \in Nat
           /\ \A i \in 1 .. Len(p) : (p \o q)[i] = p[i]
           /\ \A i \in 1 .. Len(q) : (p \o q)[Len(p) + i] = q[i]
           /\ \A i \in DOMAIN (p \o q) :
                  i \in 1 .. Len(p) \/ \E k \in 1 .. Len(q) : i = Len(p) + k
<1> DEFINE F == MoveOf(D \union E)
<1>1. MoveOf(D) \subseteq F /\ MoveOf(E) \subseteq F
  BY MoveGrows DEF MoveOf
<1> HIDE DEF F
<1>2. p \in Seq(F) /\ q \in Seq(F)
  BY <1>1
<1>3. /\ p \o q \in Seq(F)
      /\ Len(p \o q) = Len(p) + Len(q)
      /\ Len(p) \in Nat /\ Len(q) \in Nat
      /\ DOMAIN p = 1 .. Len(p) /\ DOMAIN q = 1 .. Len(q)
      /\ DOMAIN (p \o q) = 1 .. Len(p \o q)
  BY <1>2
<1>4. \A i \in 1 .. Len(p) : (p \o q)[i] = p[i]
  BY <1>2
<1>5. \A i \in 1 .. Len(q) : (p \o q)[Len(p) + i] = q[i]
  BY <1>2, <1>3
<1>6. ASSUME NEW i \in 1 .. Len(p) + Len(q), i \notin 1 .. Len(p)
      PROVE  \E k \in 1 .. Len(q) : i = Len(p) + k
  <2>1. i - Len(p) \in 1 .. Len(q) /\ i = Len(p) + (i - Len(p))
    BY <1>3, <1>6
  <2> QED
    BY <2>1
<1> QED
  BY <1>3, <1>4, <1>5, <1>6 DEF F

LEMMA TwoLists ==
    ASSUME NEW p, NEW q, LegsFine(p), LegsFine(q)
    PROVE  LegsFine(p \o q)
<1>1. PICK D : p \in Seq(MoveOf(D)) /\ \A i \in DOMAIN p : p[i].why # "recovery"
  BY DEF LegsFine
<1>2. PICK E : q \in Seq(MoveOf(E)) /\ \A i \in DOMAIN q : q[i].why # "recovery"
  BY DEF LegsFine
<1>3. p \o q \in Seq(MoveOf(D \union E))
  BY <1>1, <1>2, Joined
<1>4. ASSUME NEW i \in DOMAIN (p \o q)
      PROVE  (p \o q)[i].why # "recovery"
  <2>1. CASE i \in 1 .. Len(p)
    BY <1>1, <1>2, <2>1, Joined
  <2>2. CASE \E k \in 1 .. Len(q) : i = Len(p) + k
    BY <1>1, <1>2, <2>2, Joined
  <2> QED
    BY <1>1, <1>2, <1>4, <2>1, <2>2, Joined
<1> QED
  BY <1>3, <1>4 DEF LegsFine

\* Posting legs that are no recoveries recovers nothing.
LEMMA NothingRecovered ==
    ASSUME MovesFine, NEW legs, LegsFine(legs), moves' = moves \o legs
    PROVE  MovesFine' /\ \A s \in Shifts : Recoveries(s)' = Recoveries(s)
<1>1. PICK D : moves \in Seq(MoveOf(D))
  BY DEF MovesFine
<1>2. PICK E : legs \in Seq(MoveOf(E)) /\ \A i \in DOMAIN legs : legs[i].why # "recovery"
  BY DEF LegsFine
<1>3. MovesFine'
  BY <1>1, <1>2, Joined DEF MovesFine
<1>4. ASSUME NEW s \in Shifts, NEW i
      PROVE  i \in Recoveries(s)' <=> i \in Recoveries(s)
  <2>1. CASE i \in DOMAIN moves
    BY <1>1, <1>2, <2>1, Joined DEF Recoveries
  <2>2. CASE i \in DOMAIN moves' /\ i \notin DOMAIN moves
    <3>1. PICK k \in 1 .. Len(legs) : i = Len(moves) + k
      <4>1. /\ DOMAIN moves = 1 .. Len(moves)
            /\ DOMAIN moves' = 1 .. Len(moves) + Len(legs)
            /\ Len(moves) \in Nat /\ Len(legs) \in Nat
        BY <1>1, <1>2, Joined
      <4>2. i - Len(moves) \in 1 .. Len(legs) /\ i = Len(moves) + (i - Len(moves))
        BY <2>2, <4>1
      <4> QED
        BY <4>2
    <3>2. moves'[i].why # "recovery"
      BY <1>1, <1>2, <3>1, Joined
    <3> QED
      BY <2>2, <3>2 DEF Recoveries
  <2>3. CASE i \notin DOMAIN moves' /\ i \notin DOMAIN moves
    BY <2>3 DEF Recoveries
  <2> QED
    BY <2>1, <2>2, <2>3
<1> QED
  BY <1>3, <1>4 DEF Recoveries

\* Posting one recovery of a shift recovers that shift's shortage and no other.
LEMMA OneRecovered ==
    ASSUME MovesFine, NEW s \in Shifts, NEW l, NEW E, l \in MoveOf(E),
           l.why = "recovery", l.source = s, moves' = moves \o <<l>>
    PROVE  /\ MovesFine'
           /\ Recoveries(s)' = Recoveries(s) \union {Len(moves) + 1}
           /\ \A t \in Shifts \ {s} : Recoveries(t)' = Recoveries(t)
<1>1. PICK D : moves \in Seq(MoveOf(D))
  BY DEF MovesFine
<1>2. <<l>> \in Seq(MoveOf(E)) /\ Len(<<l>>) = 1 /\ <<l>>[1] = l
  OBVIOUS
<1>3. MovesFine'
  BY <1>1, <1>2, Joined DEF MovesFine
<1>4. /\ Len(moves) \in Nat
      /\ DOMAIN moves = 1 .. Len(moves)
      /\ DOMAIN moves' = 1 .. Len(moves) + 1
      /\ \A i \in 1 .. Len(moves) : moves'[i] = moves[i]
  BY <1>1, <1>2, Joined
<1>5. moves'[Len(moves) + 1] = l
  BY <1>1, <1>2, Joined
<1>6. DOMAIN moves' = DOMAIN moves \union {Len(moves) + 1}
  BY <1>4
<1> QED
  BY <1>3, <1>4, <1>5, <1>6 DEF Recoveries

\* A step that recovers nothing and turns no claim into a collected one, or back, keeps RInv.
LEMMA ClaimsUntouched ==
    ASSUME RInv, MovesFine', ShiftsFine', JobsFine',
           \A s \in Shifts : Recoveries(s)' = Recoveries(s),
           \A s \in Shifts : shift'[s].back = "collected" <=> shift[s].back = "collected"
    PROVE  RInv'
BY DEF RInv

\* Unchanged movements and shifts.
LEMMA BooksUntouched ==
    ASSUME RInv, UNCHANGED <<moves, shift>>, JobsFine'
    PROVE  RInv'
BY ClaimsUntouched DEF RInv, MovesFine, ShiftsFine, Recoveries

\* A job that is not about to post legs, or whose legs are no recoveries.
LEMMA JobTaken ==
    ASSUME JobsFine, NEW h \in Handlers, NEW j, Does(h, j),
           j.at = "move" => LegsFine(j.legs),
           j.at = "collect" => j.shift \in Shifts
    PROVE  JobsFine'
BY DEF JobsFine, Does

\* A claim whose state changes to anything but collected, on a shift that was opened.
LEMMA ClaimMoved ==
    ASSUME RInv, NEW s \in Shifts, NEW b, b # "collected", NEW n,
           shift[s].status # "none", shift[s].back # "collected",
           \/ shift' = [shift EXCEPT ![s].back = b]
           \/ shift' = [shift EXCEPT ![s].back = b, ![s].amount = n],
           UNCHANGED <<moves, job>>
    PROVE  RInv'
<1>1. PICK D : shift \in [Shifts -> ShiftOf(D)]
  BY DEF RInv, ShiftsFine
<1>2. shift \in [Shifts -> ShiftOf(D \union {b, n})]
  BY <1>1, ShiftGrows
<1>3. shift' \in [Shifts -> ShiftOf(D \union {b, n})]
  BY <1>2 DEF ShiftOf
<1>4. \A t \in Shifts \ {s} : shift'[t] = shift[t]
  BY <1>2
<1>5. shift'[s].back = b /\ shift'[s].status = shift[s].status
  BY <1>1 DEF ShiftOf
<1>6. ShiftsFine'
  BY <1>3, <1>4, <1>5 DEF ShiftsFine, RInv
<1>7. JobsFine' /\ MovesFine'
  BY DEF RInv, JobsFine, MovesFine
<1> QED
  BY <1>4, <1>5, <1>6, <1>7, ClaimsUntouched DEF Recoveries

\* Every step keeps the claims and their recoveries together.
LEMMA ClaimStep == RInv /\ [Next]_vars => RInv'
<1> SUFFICES ASSUME RInv, [Next]_vars
             PROVE  RInv'
  OBVIOUS
<1>0. JobsFine
  BY DEF RInv
<1>1. ASSUME NEW h \in Tellers, MoneyStep(h)
      PROVE  RInv'
  <2> h \in Handlers
    BY DEF Handlers
  <2>1. ASSUME NEW legs, LegsFine(legs), Requested(h, legs)
        PROVE  RInv'
    <3>1. JobsFine'
      BY <1>0, <2>1, JobTaken DEF Requested, Idle
    <3> QED
      BY <2>1, <3>1, BooksUntouched DEF Requested, book
  <2>2. ASSUME NEW n \in Amounts, SaleRequested(h, n)
        PROVE  RInv'
    BY <2>1, <2>2, OneLeg DEF SaleRequested
  <2>3. ASSUME NEW n \in Amounts, NEW from \in Accounts, NEW to \in Accounts,
               TransferRequested(h, from, to, n)
        PROVE  RInv'
    <3> DEFINE p == <<Leg(today, from, -n, "transfer", NoShift, NoShift)>>
               q == <<Leg(today, to, n, "transfer", NoShift, NoShift)>>
               both == <<Leg(today, from, -n, "transfer", NoShift, NoShift),
                         Leg(today, to, n, "transfer", NoShift, NoShift)>>
    <3>1. LegsFine(p) /\ LegsFine(q)
      BY OneLeg
    <3>2. both = p \o q
      OBVIOUS
    <3>3. LegsFine(p \o q)
      BY <3>1, TwoLists
    <3>4. LegsFine(both)
      BY <3>2, <3>3
    <3> QED
      BY <2>1, <2>3, <3>4 DEF TransferRequested
  <2>4. ASSUME NEW n, NEW s \in Shifts, NEW paired \in BOOLEAN,
               EventRequested(h, s, n, paired)
        PROVE  RInv'
    <3> DEFINE p == <<Leg(shift[s].day, Drawer, n, "event", s, s)>>
               q == <<Leg(shift[s].day, Bank, -n, "event", NoShift, s)>>
               r == IF paired THEN q ELSE <<>>
    <3>1. LegsFine(p) /\ LegsFine(q)
      BY OneLeg
    <3>2. LegsFine(<<>>)
      <4>1. <<>> \in Seq(MoveOf({})) /\ DOMAIN <<>> = {}
        OBVIOUS
      <4> QED
        BY <4>1 DEF LegsFine
    <3>3. LegsFine(r)
      BY <3>1, <3>2
    <3> HIDE DEF r
    <3>4. LegsFine(p \o r)
      BY <3>1, <3>3, TwoLists
    <3> QED
      BY <2>1, <2>4, <3>4 DEF EventRequested, r
  <2>5. CASE MovesPosted(h)
    <3>1. JobsFine'
      BY <1>0, <2>5, JobTaken DEF MovesPosted, Idle
    <3>2. /\ LegsFine(job[h].legs)
          /\ moves' = moves \o job[h].legs
          /\ shift' = shift
      BY <1>0, <2>5 DEF MovesPosted, Posted, JobsFine
    <3>3. MovesFine' /\ \A s \in Shifts : Recoveries(s)' = Recoveries(s)
      BY <3>2, NothingRecovered DEF RInv
    <3> QED
      BY <3>1, <3>2, <3>3, ClaimsUntouched DEF RInv, ShiftsFine
  <2> QED
    BY <1>1, <2>2, <2>3, <2>4, <2>5 DEF MoneyStep
<1>2. ASSUME NEW h \in Tellers, ShiftStep(h)
      PROVE  RInv'
  <2> h \in Handlers
    BY DEF Handlers
  <2>1. ASSUME NEW s \in Shifts, NEW n, OpenShift(h, s, n)
        PROVE  RInv'
    <3>1. JobsFine'
      BY <1>0, <2>1, JobTaken DEF OpenShift, Idle
    <3>2. PICK D : shift \in [Shifts -> ShiftOf(D)]
      BY DEF RInv, ShiftsFine
    <3> DEFINE row == [NoShiftYet EXCEPT !.status = "open", !.day = today, !.float = n]
               E == D \union {"open", today, n, 0, "none"}
    <3>3. row \in ShiftOf(E) /\ row.back = "none"
      BY DEF NoShiftYet, ShiftOf
    <3>4. shift \in [Shifts -> ShiftOf(E)]
      BY <3>2, ShiftGrows
    <3>5. shift' = [shift EXCEPT ![s] = row] /\ moves' = moves
      BY <2>1 DEF OpenShift, book
    <3> HIDE DEF row, E
    <3>6. /\ shift' \in [Shifts -> ShiftOf(E)]
          /\ shift'[s] = row
          /\ \A t \in Shifts \ {s} : shift'[t] = shift[t]
      BY <3>3, <3>4, <3>5
    <3>7. shift[s].back = "none"
      BY <2>1 DEF OpenShift, RInv, ShiftsFine
    <3>8. ShiftsFine'
      BY <3>3, <3>6 DEF ShiftsFine, RInv
    <3>9. MovesFine' /\ \A t \in Shifts : Recoveries(t)' = Recoveries(t)
      BY <3>5 DEF RInv, MovesFine, Recoveries
    <3> QED
      BY <3>1, <3>3, <3>6, <3>7, <3>8, <3>9, ClaimsUntouched
  <2>2. ASSUME NEW s \in Shifts, NEW n, CloseRequested(h, s, n)
        PROVE  RInv'
    <3>1. JobsFine'
      BY <1>0, <2>2, JobTaken DEF CloseRequested, Idle
    <3> QED
      BY <2>2, <3>1, BooksUntouched DEF CloseRequested, book
  <2>3. CASE FloatRequested(h)
    <3> DEFINE s == job[h].shift
               short == shift[s].float - (IF balance[Drawer] > 0 THEN balance[Drawer] ELSE 0)
               p == <<Leg(shift[s].day, Bank, -short, "float", NoShift, s)>>
               q == <<Leg(shift[s].day, Drawer, short, "float", NoShift, s)>>
               both == <<Leg(shift[s].day, Bank, -short, "float", NoShift, s),
                         Leg(shift[s].day, Drawer, short, "float", NoShift, s)>>
    <3>1. LegsFine(p) /\ LegsFine(q)
      BY OneLeg
    <3>2. both = p \o q
      OBVIOUS
    <3>3. LegsFine(p \o q)
      BY <3>1, TwoLists
    <3>4. LegsFine(both)
      BY <3>2, <3>3
    <3>5. \/ Does(h, Idle)
          \/ Does(h, [Idle EXCEPT !.at = "move", !.legs = both])
      BY <2>3 DEF FloatRequested
    <3>6. JobsFine'
      BY <1>0, <3>4, <3>5, JobTaken DEF Idle
    <3> QED
      BY <2>3, <3>6, BooksUntouched DEF FloatRequested, book
  <2>4. CASE ShiftClosed(h)
    <3> DEFINE s == job[h].shift
               v == job[h].variance
               e == job[h].expected
               p == <<Leg(shift[s].day, Drawer, v, "count", s, s)>>
    <3>1. JobsFine'
      BY <1>0, <2>4, JobTaken DEF ShiftClosed, Idle
    <3>2. LegsFine(p)
      BY OneLeg
    <3>3. moves' = moves \/ moves' = moves \o p
      BY <2>4 DEF ShiftClosed, Posted, book
    <3>4. MovesFine' /\ \A t \in Shifts : Recoveries(t)' = Recoveries(t)
      <4>1. CASE moves' = moves
        BY <4>1 DEF RInv, MovesFine, Recoveries
      <4>2. CASE moves' = moves \o p
        BY <3>2, <4>2, NothingRecovered DEF RInv
      <4> QED
        BY <3>3, <4>1, <4>2
    <3>5. PICK D : shift \in [Shifts -> ShiftOf(D)]
      BY DEF RInv, ShiftsFine
    <3> DEFINE E == D \union {"closed", v, e}
    <3>6. shift \in [Shifts -> ShiftOf(E)]
      BY <3>5, ShiftGrows
    <3>7. shift' = [shift EXCEPT ![s].status = "closed", ![s].variance = v, ![s].expected = e]
      BY <2>4 DEF ShiftClosed
    <3>8. "closed" \in E /\ v \in E /\ e \in E
      OBVIOUS
    <3> HIDE DEF s, v, e, E
    <3>9. shift' \in [Shifts -> ShiftOf(E)]
      BY <3>6, <3>7, <3>8 DEF ShiftOf
    <3>10. \A t \in Shifts : shift'[t].back = shift[t].back
      BY <3>6, <3>7 DEF ShiftOf
    <3>11. \A t \in Shifts : shift'[t].status \in {shift[t].status, "closed"}
      BY <3>6, <3>7 DEF ShiftOf
    <3>12. ShiftsFine'
      BY <3>9, <3>10, <3>11 DEF ShiftsFine, RInv
    <3> QED
      BY <3>1, <3>4, <3>10, <3>12, ClaimsUntouched
  <2>5. ASSUME NEW s \in Shifts, CollectRequested(h, s)
        PROVE  RInv'
    <3>1. JobsFine'
      BY <1>0, <2>5, JobTaken DEF CollectRequested, Idle
    <3> QED
      BY <2>5, <3>1, BooksUntouched DEF CollectRequested, book
  <2>6. CASE Collected(h)
    <3>1. JobsFine'
      BY <1>0, <2>6, JobTaken DEF Collected, Idle
    <3>2. CASE ~StillOwed(job[h].shift)
      BY <2>6, <3>1, <3>2, BooksUntouched DEF Collected, book
    <3>3. ASSUME NEW s \in Shifts, s = job[h].shift, StillOwed(s)
          PROVE  RInv'
      <4> DEFINE l == Leg(job[h].day, Drawer, shift[s].amount, "recovery", NoShift, s)
                 L == {} \union {job[h].day, Drawer, shift[s].amount, "recovery", NoShift, s, FALSE}
      <4>1. l \in MoveOf(L)
        BY LegIsMove
      <4>2. l.why = "recovery" /\ l.source = s
        BY DEF Leg
      <4>3. moves' = moves \o <<l>> /\ shift' = [shift EXCEPT ![s].back = "collected"]
        BY <2>6, <3>3 DEF Collected, Posted
      <4>4. PICK D : shift \in [Shifts -> ShiftOf(D)]
        BY DEF RInv, ShiftsFine
      <4> HIDE DEF l, L
      <4>5. /\ MovesFine'
            /\ Recoveries(s)' = Recoveries(s) \union {Len(moves) + 1}
            /\ \A t \in Shifts \ {s} : Recoveries(t)' = Recoveries(t)
        BY <4>1, <4>2, <4>3, OneRecovered DEF RInv
      <4>6. Recoveries(s) = {} /\ shift[s].status # "none"
        BY <3>3 DEF StillOwed, RInv, ShiftsFine
      <4>7. shift \in [Shifts -> ShiftOf(D \union {"collected"})]
        BY <4>4, ShiftGrows
      <4>8. shift' \in [Shifts -> ShiftOf(D \union {"collected"})]
        BY <4>3, <4>7 DEF ShiftOf
      <4>9. shift'[s].back = "collected" /\ shift'[s].status = shift[s].status
        BY <4>3, <4>4 DEF ShiftOf
      <4>10. \A t \in Shifts \ {s} : shift'[t] = shift[t]
        BY <4>3, <4>4
      <4>11. ShiftsFine'
        BY <4>6, <4>8, <4>9, <4>10 DEF ShiftsFine, RInv
      <4>12. Recoveries(s)' = {Len(moves) + 1}
        BY <4>5, <4>6
      <4>13. \E i : Recoveries(s)' = {i}
        BY <4>12
      <4>14. \A t \in Shifts :
                 IF shift'[t].back = "collected" THEN \E i : Recoveries(t)' = {i}
                                                ELSE Recoveries(t)' = {}
        BY <4>5, <4>9, <4>10, <4>13 DEF RInv
      <4> QED
        BY <3>1, <4>5, <4>11, <4>14 DEF RInv
    <3>4. job[h].shift \in Shifts
      BY <1>0, <2>6 DEF JobsFine, Collected
    <3> QED
      BY <3>2, <3>3, <3>4
  <2> QED
    BY <1>2, <2>1, <2>2, <2>3, <2>4, <2>5, <2>6 DEF ShiftStep
<1>3. ASSUME NEW h \in Closers, DayStep(h)
      PROVE  RInv'
  <2> h \in Handlers
    BY DEF Handlers
  <2>1. UNCHANGED <<moves, shift>>
    BY <1>3 DEF DayStep, DayCloseRequested, ZRequested, DayClosed, ZComputed, ZIssued, book
  <2>2. JobsFine'
    <3>1. ASSUME NEW d \in Days, DayCloseRequested(h, d)
          PROVE  JobsFine'
      BY <1>0, <3>1, JobTaken DEF DayCloseRequested, Idle
    <3>2. ASSUME NEW d \in Days, ZRequested(h, d)
          PROVE  JobsFine'
      BY <1>0, <3>2, JobTaken DEF ZRequested, Idle
    <3>3. CASE DayClosed(h)
      BY <1>0, <3>3, JobTaken DEF DayClosed, Idle
    <3>4. CASE ZComputed(h)
      BY <1>0, <3>4, JobTaken DEF ZComputed, Idle
    <3>5. CASE ZIssued(h)
      BY <1>0, <3>5, JobTaken DEF ZIssued, Idle
    <3> QED
      BY <1>3, <3>1, <3>2, <3>3, <3>4, <3>5 DEF DayStep
  <2> QED
    BY <2>1, <2>2, BooksUntouched
<1>4. ASSUME NEW v \in Voiders \union DeskVoiders, MoveVoided(v) \/ PaymentVoided(v)
      PROVE  RInv'
  <2> v \in Handlers
    BY DEF Handlers
  <2>1. JobsFine'
    BY <1>0, <1>4, JobTaken DEF MoveVoided, PaymentVoided, Idle
  <2>2. PICK D : moves \in Seq(MoveOf(D))
    BY DEF RInv, MovesFine
  <2> DEFINE n == job[v].row
             E == D \union {TRUE}
  <2>3. moves' = [moves EXCEPT ![n].voided = TRUE] /\ shift' = shift
    BY <1>4 DEF MoveVoided, PaymentVoided
  <2>4. moves \in [1 .. Len(moves) -> MoveOf(E)] /\ Len(moves) \in Nat
    <3>0. MoveOf(D) \subseteq MoveOf(E)
      BY MoveGrows
    <3> DEFINE S == MoveOf(D)
               T == MoveOf(E)
    <3> HIDE DEF S, T
    <3>1. S \subseteq T /\ moves \in Seq(S) => moves \in Seq(T)
      OBVIOUS
    <3>2. moves \in Seq(MoveOf(E))
      BY <2>2, <3>0, <3>1 DEF S, T
    <3> HIDE DEF E
    <3> QED
      BY <3>2
  <2>5. TRUE \in E
    OBVIOUS
  <2> HIDE DEF n, E
  <2>6. moves' \in [1 .. Len(moves) -> MoveOf(E)]
    BY <2>3, <2>4, <2>5 DEF MoveOf
  <2>7. moves' \in Seq(MoveOf(E))
    BY <2>4, <2>6, SeqDef
  <2>8. \A i \in DOMAIN moves : moves'[i].why = moves[i].why /\ moves'[i].source = moves[i].source
    BY <2>3, <2>4 DEF MoveOf
  <2>9. DOMAIN moves' = DOMAIN moves
    BY <2>4, <2>6
  <2>10. MovesFine' /\ \A s \in Shifts : Recoveries(s)' = Recoveries(s)
    BY <2>7, <2>8, <2>9 DEF MovesFine, Recoveries
  <2> QED
    BY <2>1, <2>3, <2>10, ClaimsUntouched DEF RInv, ShiftsFine
<1>5. ASSUME NEW v \in Voiders \union DeskVoiders, NEW i \in DOMAIN moves,
             VoidRequested(v, i) \/ PaymentVoidRequested(v, i)
      PROVE  RInv'
  <2>1. JobsFine'
    BY <1>0, <1>5, JobTaken DEF VoidRequested, PaymentVoidRequested, Idle, Handlers
  <2> QED
    BY <1>5, <2>1, BooksUntouched DEF VoidRequested, PaymentVoidRequested, book
<1>6. ASSUME NEW s \in Shifts, WrittenOff(s)
      PROVE  RInv'
  BY <1>6, ClaimMoved DEF WrittenOff, book, RInv, ShiftsFine
<1>7. ASSUME NEW s \in Shifts, NEW n \in Amounts, ChargedBack(s, n)
      PROVE  RInv'
  BY <1>7, ClaimMoved DEF ChargedBack, book
<1>8. ASSUME NEW d \in Days, DayReopened(d)
      PROVE  RInv'
  BY <1>0, <1>8, BooksUntouched DEF DayReopened, book, JobsFine
<1>9. CASE NightPasses
  BY <1>0, <1>9, BooksUntouched DEF NightPasses, book, JobsFine
<1>10. ASSUME NEW h \in Handlers, HandlerDies(h)
       PROVE  RInv'
  <2>1. JobsFine'
    BY <1>0, <1>10, JobTaken DEF HandlerDies, Idle
  <2> QED
    BY <1>10, <2>1, BooksUntouched DEF HandlerDies, book
<1>11. CASE UNCHANGED vars
  BY <1>0, <1>11, BooksUntouched DEF vars, book, JobsFine
<1> QED
  BY <1>1, <1>2, <1>3, <1>4, <1>5, <1>6, <1>7, <1>8, <1>9, <1>10, <1>11 DEF Next

\* At the start no shift was opened and nothing has moved.
LEMMA ClaimInit == Init => RInv
<1> SUFFICES ASSUME Init PROVE RInv
  OBVIOUS
<1>1. MovesFine /\ DOMAIN moves = {}
  BY DEF Init, MovesFine
<1>2. NoShiftYet \in ShiftOf({"none", 1, 0})
  BY DEF NoShiftYet, ShiftOf
<1>3. shift \in [Shifts -> ShiftOf({"none", 1, 0})]
  BY <1>2 DEF Init
<1>4. \A s \in Shifts : shift[s].back = "none"
  BY DEF Init, NoShiftYet
<1>5. JobsFine
  BY DEF Init, JobsFine, Idle
<1> QED
  BY <1>1, <1>3, <1>4, <1>5 DEF RInv, ShiftsFine, Recoveries

\* A shortage charged back to a cashier is collected once however many people press the
\* button, never after it was written off, and a claim marked collected has its money
\* (collectShiftChargeback, writeOffShiftChargeback).
THEOREM ShortageRecoveredOnce == Spec => []RecoveredOnce
<1>1. Init => RInv
  BY ClaimInit
<1>2. RInv /\ [Next]_vars => RInv'
  BY ClaimStep
<1>3. RInv => RecoveredOnce
  <2> SUFFICES ASSUME RInv, NEW s \in Shifts
               PROVE  Cardinality(Recoveries(s)) = (IF shift[s].back = "collected" THEN 1 ELSE 0)
    BY DEF RecoveredOnce, Recoveries
  <2>1. CASE shift[s].back = "collected"
    BY <2>1, FS_Singleton DEF RInv
  <2>2. CASE shift[s].back # "collected"
    BY <2>2, FS_EmptySet DEF RInv
  <2> QED
    BY <2>1, <2>2
<1> QED
  BY <1>1, <1>2, <1>3, PTL DEF Spec

----------------------------------------------------------------------------
\* Sums of movements.

\* A total is the sum of the amounts, by the definition of the fold.
LEMMA TotalIsSum ==
    ASSUME NEW rows, NEW I
    PROVE  Total(rows, I) = Sum([i \in I |-> rows[i].delta], I)
<1> DEFINE v == [i \in I |-> rows[i].delta]
           F(sum) == [T \in SUBSET I |-> IF T = {} THEN 0
                         ELSE rows[CHOOSE x \in T : TRUE].delta
                                + sum[T \ {CHOOSE x \in T : TRUE}]]
<1>1. ASSUME NEW sum
      PROVE  F(sum) = [T \in SUBSET I |-> IF T = {} THEN 0
                          ELSE v[Pick(T)] + sum[T \ {Pick(T)}]]
  <2>1. ASSUME NEW T \in SUBSET I, T # {}
        PROVE  v[Pick(T)] = rows[CHOOSE x \in T : TRUE].delta
    BY <2>1, PickIn DEF Pick
  <2> QED
    BY <2>1 DEF Pick
<1> DEFINE c == CHOOSE sum : sum = F(sum)
           d == CHOOSE sum : Adds(v, I, sum)
<1>2. c = d
  <2>1. \A sum : sum = F(sum) <=> Adds(v, I, sum)
    BY <1>1, Zenon DEF Adds
  <2> HIDE DEF F, v
  <2> QED
    BY <2>1, Zenon
<1>3. Total(rows, I) = c[I]
  BY Zenon DEF Total, MapThenSumSet, MapThenFoldSet
<1>4. Sum(v, I) = d[I]
  BY Zenon DEF Sum
<1> QED
  BY <1>2, <1>3, <1>4, Zenon

LEMMA RowIsMove ==
    ASSUME NEW rows \in Seq(Move)
    PROVE  \A i \in DOMAIN rows : rows[i] \in Move /\ rows[i].delta \in Int
<1>1. \A i \in DOMAIN rows : rows[i] \in Move
  OBVIOUS
<1> QED
  BY <1>1 DEF Move

LEMMA TotalType ==
    ASSUME NEW rows \in Seq(Move), NEW I \in SUBSET DOMAIN rows
    PROVE  Total(rows, I) \in Int
<1> DEFINE v == [i \in I |-> rows[i].delta]
<1>1. IsFiniteSet(I)
  <2>1. DOMAIN rows = 1 .. Len(rows) /\ Len(rows) \in Nat
    OBVIOUS
  <2>2. IsFiniteSet(DOMAIN rows)
    BY <2>1, FS_Interval
  <2> QED
    BY <2>2, FS_Subset
<1>2. \A i \in I : v[i] \in Int
  BY RowIsMove
<1> HIDE DEF v
<1>3. Sum(v, I) \in Int
  BY <1>1, <1>2, SumType
<1> QED
  BY <1>3, TotalIsSum DEF v

\* What counts for nothing may be counted.
LEMMA TotalOfAll ==
    ASSUME NEW rows \in Seq(Move), NEW I \in SUBSET DOMAIN rows
    PROVE  Total(rows, I)
               = Sum([i \in DOMAIN rows |-> IF i \in I THEN rows[i].delta ELSE 0], 1 .. Len(rows))
<1> DEFINE v == [i \in I |-> rows[i].delta]
           w == [i \in DOMAIN rows |-> IF i \in I THEN rows[i].delta ELSE 0]
           S == 1 .. Len(rows)
<1>1. DOMAIN rows = S /\ Len(rows) \in Nat
  OBVIOUS
<1>2. IsFiniteSet(S)
  BY <1>1, FS_Interval
<1>3. \A i \in S : w[i] \in Int /\ w[i] = IF i \in I THEN v[i] ELSE 0
  BY <1>1, RowIsMove
<1>4. I \in SUBSET S
  BY <1>1
<1> HIDE DEF v, w, S
<1>5. Sum(v, I) = Sum(w, S)
  BY <1>2, <1>3, <1>4, SumPart
<1> QED
  BY <1>5, TotalIsSum DEF v, w, S

\* K selects of rows what I selects of p and then J of q.
SelectsBoth(p, I, q, J, rows, K) ==
    /\ rows = p \o q
    /\ I \in SUBSET DOMAIN p /\ J \in SUBSET DOMAIN q /\ K \in SUBSET DOMAIN rows
    /\ \A i \in DOMAIN p : i \in K <=> i \in I
    /\ \A i \in DOMAIN q : Len(p) + i \in K <=> i \in J

\* The total of two lists of movements, one after the other.
LEMMA TotalJoined ==
    ASSUME NEW p \in Seq(Move), NEW q \in Seq(Move), NEW I, NEW J, NEW rows, NEW K,
           SelectsBoth(p, I, q, J, rows, K)
    PROVE  Total(rows, K) = Total(p, I) + Total(q, J)
<1> USE DEF SelectsBoth
<1> DEFINE m == Len(p)
           k == Len(q)
           pv == [i \in DOMAIN p |-> IF i \in I THEN p[i].delta ELSE 0]
           qv == [i \in DOMAIN q |-> IF i \in J THEN q[i].delta ELSE 0]
           rv == [i \in DOMAIN rows |-> IF i \in K THEN rows[i].delta ELSE 0]
<1>1. /\ m \in Nat /\ k \in Nat
      /\ DOMAIN p = 1 .. m /\ DOMAIN q = 1 .. k
  OBVIOUS
<1>2. /\ rows \in Seq(Move)
      /\ DOMAIN rows = 1 .. m + k /\ Len(rows) = m + k
      /\ \A i \in 1 .. m : rows[i] = p[i]
      /\ \A i \in 1 .. k : rows[m + i] = q[i]
  BY <1>1
<1>3. /\ \A i \in 1 .. m : i \in K <=> i \in I
      /\ \A i \in 1 .. k : m + i \in K <=> i \in J
  BY <1>1
<1>4. \A i \in 1 .. m : rv[i] = pv[i] /\ pv[i] \in Int
  BY <1>1, <1>2, <1>3, RowIsMove
<1>5. \A i \in 1 .. k : rv[m + i] = qv[i] /\ qv[i] \in Int
  <2> TAKE i \in 1 .. k
  <2>1. m + i \in DOMAIN rows /\ rows[m + i] = q[i] /\ (m + i \in K <=> i \in J)
    BY <1>1, <1>2, <1>3
  <2>2. q[i].delta \in Int /\ i \in DOMAIN q
    BY <1>1, RowIsMove
  <2> QED
    BY <2>1, <2>2
<1>6. Total(p, I) = Sum(pv, 1 .. m) /\ Total(q, J) = Sum(qv, 1 .. k)
  BY TotalOfAll
<1>7. Total(rows, K) = Sum(rv, 1 .. m + k)
  <2>1. Total(rows, K) = Sum(rv, 1 .. Len(rows))
    BY <1>2, TotalOfAll
  <2> QED
    BY <1>2, <2>1
<1> HIDE DEF m, k, pv, qv, rv
<1>8. Sum(rv, 1 .. m + k) = Sum(pv, 1 .. m) + Sum(qv, 1 .. k)
  <2>1. m \in Nat /\ k \in Nat
    BY <1>1
  <2>2. Joins(pv, m, qv, k, rv)
    BY <1>4, <1>5 DEF Joins
  <2> QED
    BY <2>1, <2>2, SumJoined
<1> QED
  BY <1>6, <1>7, <1>8

\* One movement less.
LEMMA TotalWithout ==
    ASSUME NEW rows \in Seq(Move), NEW I \in SUBSET DOMAIN rows, NEW n \in I
    PROVE  Total(rows, I \ {n}) = Total(rows, I) - rows[n].delta
<1> DEFINE v == [i \in I |-> rows[i].delta]
           w == [i \in I \ {n} |-> rows[i].delta]
           J == I \ {n}
<1>1. IsFiniteSet(I)
  <2>1. DOMAIN rows = 1 .. Len(rows) /\ Len(rows) \in Nat
    OBVIOUS
  <2>2. IsFiniteSet(DOMAIN rows)
    BY <2>1, FS_Interval
  <2> QED
    BY <2>2, FS_Subset
<1>2. IsFiniteSet(J)
  BY <1>1, FS_Subset
<1>3. (\A i \in I : v[i] \in Int) /\ (\A i \in J : v[i] \in Int /\ v[i] = w[i]) /\ v[n] = rows[n].delta
  BY RowIsMove
<1>4. Total(rows, I) = Sum(v, I) /\ Total(rows, J) = Sum(w, J)
  BY TotalIsSum
<1> HIDE DEF v, w
<1>5. Sum(v, I) = v[n] + Sum(v, J)
  BY <1>1, <1>3, SumOut
<1>6. Sum(v, J) \in Int
  BY <1>2, <1>3, SumType
<1>7. Sum(v, J) = Sum(w, J)
  BY <1>2, <1>3, SumSame
<1>8. v[n] \in Int
  BY <1>3
<1> HIDE DEF J
<1>9. Total(rows, J) = Total(rows, I) - rows[n].delta
  BY <1>3, <1>4, <1>5, <1>6, <1>7, <1>8
<1> QED
  BY <1>9 DEF J

\* A total looks at nothing but the amounts.
LEMMA TotalSame ==
    ASSUME NEW p, NEW q \in Seq(Move), NEW I \in SUBSET DOMAIN q,
           \A i \in I : p[i].delta = q[i].delta
    PROVE  Total(p, I) = Total(q, I)
<1>1. [i \in I |-> p[i].delta] = [i \in I |-> q[i].delta]
  OBVIOUS
<1> QED
  BY <1>1, TotalIsSum

----------------------------------------------------------------------------
\* The rows and jobs are what their types say.

\* What a handler remembers is there when it comes back to it: a shift it read, a movement it
\* read, legs that nobody voided; and it voids what it was asked to void.
Sound(h, j, rows) ==
    /\ j.at \in {"float", "close", "collect"} => j.shift \in Shifts
    /\ j.at \in {"void", "desk_void"} => j.row \in rows
    /\ j.at = "void" => h \in Voiders
    /\ j.at = "desk_void" => h \in DeskVoiders
    /\ \A i \in DOMAIN j.legs : ~j.legs[i].voided

TillInv ==
    /\ TypeOK
    /\ \A h \in Handlers : Sound(h, job[h], DOMAIN moves)

\* Legs that may be posted.
Postable(legs) == legs \in Seq(Move) /\ \A i \in DOMAIN legs : ~legs[i].voided

LEMMA LegTyped ==
    ASSUME NEW d \in Days, NEW a \in Accounts, NEW n \in Int, NEW w \in Reasons,
           NEW r \in Shifts \union {NoShift}, NEW s \in Shifts \union {NoShift}
    PROVE  /\ Leg(d, a, n, w, r, s) \in Move
           /\ ~Leg(d, a, n, w, r, s).voided
           /\ Leg(d, a, n, w, r, s).account = a
           /\ Leg(d, a, n, w, r, s).delta = n
BY DEF Leg, Move

LEMMA OnePostable ==
    ASSUME NEW l \in Move, ~l.voided
    PROVE  Postable(<<l>>)
<1> USE DEF Postable
<1>1. <<l>> \in Seq(Move)
  OBVIOUS
<1>2. \A i \in DOMAIN <<l>> : <<l>>[i] = l
  OBVIOUS
<1> QED
  BY <1>1, <1>2

LEMMA TwoPostable ==
    ASSUME NEW l \in Move, ~l.voided, NEW m \in Move, ~m.voided
    PROVE  Postable(<<l, m>>)
<1>1. <<l, m>> \in Seq(Move)
  OBVIOUS
<1>2. \A i \in DOMAIN <<l, m>> : <<l, m>>[i] \in {l, m}
  OBVIOUS
<1> QED
  BY <1>1, <1>2 DEF Postable

LEMMA NonePostable == Postable(<<>>)
<1>1. <<>> \in Seq(Move) /\ DOMAIN <<>> = {}
  OBVIOUS
<1> QED
  BY <1>1 DEF Postable

LEMMA IdleTyped ==
    /\ Idle \in Job
    /\ \A h, rows : Sound(h, Idle, rows)
<1>1. <<>> \in Seq(Move) /\ DOMAIN <<>> = {}
  OBVIOUS
<1>2. 1 \in Days
  BY CashAssumption DEF Days
<1>3. Idle \in Job
  BY <1>1, <1>2 DEF Idle, Job
<1> QED
  BY <1>1, <1>3 DEF Idle, Sound

\* A job with legs about to be posted.
LEMMA MoveTyped ==
    ASSUME NEW legs, Postable(legs), NEW h, NEW rows
    PROVE  LET j == [Idle EXCEPT !.at = "move", !.legs = legs]
           IN j \in Job /\ Sound(h, j, rows)
<1> DEFINE j == [Idle EXCEPT !.at = "move", !.legs = legs]
<1>1. j \in Job
  BY IdleTyped DEF Job, Postable
<1>2. j.at = "move" /\ j.legs = legs
  BY IdleTyped DEF Job
<1> HIDE DEF j
<1>3. Sound(h, j, rows)
  BY <1>2 DEF Sound, Postable
<1> QED
  BY <1>1, <1>3 DEF j

\* A handler takes up a job, or drops one.
LEMMA JobTyped ==
    ASSUME TillInv, NEW h \in Handlers, NEW j \in Job, Does(h, j),
           DOMAIN moves \subseteq DOMAIN moves', Sound(h, j, DOMAIN moves')
    PROVE  /\ job' \in [Handlers -> Job]
           /\ \A g \in Handlers : Sound(g, job'[g], DOMAIN moves')
<1>1. job \in [Handlers -> Job]
  BY DEF TillInv, TypeOK
<1>2. job' \in [Handlers -> Job]
  BY <1>1 DEF Does
<1>3. ASSUME NEW g \in Handlers
      PROVE  Sound(g, job'[g], DOMAIN moves')
  <2>1. CASE g = h
    <3>1. job'[g] = j
      BY <1>1, <2>1 DEF Does
    <3> QED
      BY <2>1, <3>1
  <2>2. CASE g # h
    <3>1. job'[g] = job[g] /\ Sound(g, job[g], DOMAIN moves)
      BY <1>1, <2>2 DEF Does, TillInv
    <3> QED
      BY <3>1 DEF Sound
  <2> QED
    BY <2>1, <2>2
<1> QED
  BY <1>2, <1>3

\* A step of a handler that leaves the movements alone, or only adds to them.
LEMMA IdleAgain ==
    ASSUME TillInv, NEW h \in Handlers, Does(h, Idle), DOMAIN moves \subseteq DOMAIN moves'
    PROVE  /\ job' \in [Handlers -> Job]
           /\ \A g \in Handlers : Sound(g, job'[g], DOMAIN moves')
BY IdleTyped, JobTyped

\* What posting does to the books.
LEMMA PostedTyped ==
    ASSUME TypeOK, NEW legs, Postable(legs), Posted(legs)
    PROVE  /\ moves' \in Seq(Move)
           /\ DOMAIN moves \subseteq DOMAIN moves'
           /\ balance' \in [Accounts -> Int]
           /\ ledger' \in [Accounts -> Int]
<1>0. /\ moves \in Seq(Move) /\ legs \in Seq(Move)
      /\ balance \in [Accounts -> Int] /\ ledger \in [Accounts -> Int]
  BY DEF TypeOK, Postable
<1> DEFINE Effect(a) == Total(legs, {i \in DOMAIN legs : legs[i].account = a})
<1>1. \A a \in Accounts : Effect(a) \in Int
  BY <1>0, TotalType
<1>2. /\ moves' = moves \o legs
      /\ balance' = [a \in Accounts |-> balance[a] + Effect(a)]
      /\ ledger' = [a \in Accounts |-> ledger[a] + Effect(a)]
  BY DEF Posted
<1> HIDE DEF Effect
<1>3. balance' \in [Accounts -> Int] /\ ledger' \in [Accounts -> Int]
  BY <1>0, <1>1, <1>2
<1>4. moves' \in Seq(Move) /\ DOMAIN moves \subseteq DOMAIN moves'
  BY <1>0, <1>2
<1> QED
  BY <1>3, <1>4

\* Voiding a movement.
LEMMA VoidedTyped ==
    ASSUME TypeOK, NEW n \in DOMAIN moves, moves' = [moves EXCEPT ![n].voided = TRUE]
    PROVE  /\ moves' \in Seq(Move)
           /\ DOMAIN moves' = DOMAIN moves
           /\ moves[n].account \in Accounts
           /\ moves[n].delta \in Int
           /\ moves'[n].voided
           /\ moves'[n].account = moves[n].account
           /\ moves'[n].delta = moves[n].delta
           /\ \A i \in DOMAIN moves \ {n} : moves'[i] = moves[i]
<1>1. moves \in [1 .. Len(moves) -> Move] /\ Len(moves) \in Nat /\ DOMAIN moves = 1 .. Len(moves)
  BY DEF TypeOK
<1>2. moves[n] \in Move
  BY <1>1
<1> DEFINE m == [moves[n] EXCEPT !.voided = TRUE]
<1>3. m \in Move /\ m.voided /\ m.account = moves[n].account /\ m.delta = moves[n].delta
  BY <1>2 DEF Move
<1>4. moves' = [moves EXCEPT ![n] = m]
  OBVIOUS
<1> HIDE DEF m
<1>5. moves' \in [1 .. Len(moves) -> Move] /\ moves'[n] = m
  BY <1>1, <1>3, <1>4
<1>6. moves' \in Seq(Move)
  BY <1>1, <1>5, SeqDef
<1> QED
  BY <1>1, <1>2, <1>3, <1>4, <1>5, <1>6 DEF Move

LEMMA Singles ==
    ASSUME NEW l, NEW m
    PROVE  <<l>> \o <<m>> = <<l, m>> /\ <<l>> \o <<>> = <<l>>
<1> DEFINE T == {l, m}
<1>1. <<l>> \in Seq(T) /\ <<m>> \in Seq(T) /\ <<>> \in Seq(T) /\ <<l, m>> \in Seq(T)
  OBVIOUS
<1>2. <<l>> \o <<m>> \in Seq(T) /\ Len(<<l>> \o <<m>>) = 2
  BY <1>1
<1>3. (<<l>> \o <<m>>)[1] = l /\ (<<l>> \o <<m>>)[2] = m
  BY <1>1
<1>4. Len(<<l, m>>) = 2 /\ <<l, m>>[1] = l /\ <<l, m>>[2] = m
  OBVIOUS
<1>5. \A i \in 1 .. 2 : i = 1 \/ i = 2
  OBVIOUS
<1>6. \A i \in 1 .. Len(<<l>> \o <<m>>) : (<<l>> \o <<m>>)[i] = <<l, m>>[i]
  BY <1>2, <1>3, <1>4, <1>5
<1> HIDE DEF T
<1>7. <<l>> \o <<m>> = <<l, m>>
  BY <1>1, <1>2, <1>4, <1>6, SeqEqual
<1> QED
  BY <1>1, <1>7, ConcatEmptySeq

\* A sale, a transfer or an event of a shift is taken up.
LEMMA RequestTyped ==
    ASSUME TillInv, NEW h \in Handlers, NEW legs, Postable(legs), Requested(h, legs)
    PROVE  TillInv'
<1> DEFINE j == [Idle EXCEPT !.at = "move", !.legs = legs]
<1>1. UNCHANGED <<today, moves, balance, ledger, shift, closed, zs>> /\ Does(h, j)
  BY DEF Requested, book
<1>2. j \in Job /\ Sound(h, j, DOMAIN moves')
  BY MoveTyped
<1> HIDE DEF j
<1>3. job' \in [Handlers -> Job] /\ \A g \in Handlers : Sound(g, job'[g], DOMAIN moves')
  BY <1>1, <1>2, JobTyped
<1> QED
  BY <1>1, <1>3 DEF TillInv, TypeOK

\* A step of a handler that moves no money.
LEMMA QuietStep ==
    ASSUME TillInv, NEW h \in Handlers, NEW j \in Job, Does(h, j), UNCHANGED <<today, book, zs>>,
           Sound(h, j, DOMAIN moves),
           shift' \in [Shifts -> ShiftRow], closed' \in [Days -> {"never", "closed", "reopened"}]
    PROVE  TillInv'
<1>1. UNCHANGED <<today, moves, balance, ledger, zs>>
  BY DEF book
<1>2. job' \in [Handlers -> Job] /\ \A g \in Handlers : Sound(g, job'[g], DOMAIN moves')
  BY <1>1, JobTyped
<1> QED
  BY <1>1, <1>2 DEF TillInv, TypeOK

\* Money moves as a teller's request had it.
LEMMA MoneyTyped ==
    ASSUME TillInv, NEW h \in Tellers, MoneyStep(h)
    PROVE  TillInv'
<1>0. /\ h \in Handlers /\ today \in Days /\ Drawer \in Accounts /\ Bank \in Accounts
      /\ shift \in [Shifts -> ShiftRow]
      /\ \A n \in Amounts : n \in Nat /\ n \in Int /\ -n \in Int
  BY CashAssumption DEF Handlers, TillInv, TypeOK, Accounts
<1>1. ASSUME NEW n \in Amounts, SaleRequested(h, n)
      PROVE  TillInv'
  <2>1. ASSUME NEW a \in Accounts, NEW s \in Shifts \union {NoShift},
               Requested(h, <<Leg(today, a, n, "sale", s, NoShift)>>)
        PROVE  TillInv'
    <3> DEFINE l == Leg(today, a, n, "sale", s, NoShift)
    <3>1. l \in Move /\ ~l.voided
      BY <1>0, LegTyped DEF Reasons
    <3> HIDE DEF l
    <3>2. Postable(<<l>>)
      BY <3>1, OnePostable
    <3> QED
      BY <1>0, <2>1, <3>2, RequestTyped DEF l
  <2> QED
    BY <1>0, <1>1, <2>1 DEF SaleRequested, OpenShifts
<1>2. ASSUME NEW n \in Amounts, NEW from \in Accounts, NEW to \in Accounts,
             TransferRequested(h, from, to, n)
      PROVE  TillInv'
  <2> DEFINE l == Leg(today, from, -n, "transfer", NoShift, NoShift)
             m == Leg(today, to, n, "transfer", NoShift, NoShift)
  <2>1. l \in Move /\ ~l.voided /\ m \in Move /\ ~m.voided
    BY <1>0, LegTyped DEF Reasons
  <2>2. Requested(h, <<l, m>>)
    BY <1>2 DEF TransferRequested
  <2> HIDE DEF l, m
  <2>3. Postable(<<l, m>>)
    BY <2>1, TwoPostable
  <2> QED
    BY <1>0, <2>2, <2>3, RequestTyped
<1>3. ASSUME NEW n \in Int, NEW s \in Shifts, NEW paired \in BOOLEAN,
             EventRequested(h, s, n, paired)
      PROVE  TillInv'
  <2> DEFINE l == Leg(shift[s].day, Drawer, n, "event", s, s)
             m == Leg(shift[s].day, Bank, -n, "event", NoShift, s)
  <2>0. shift[s].day \in Days /\ -n \in Int
    BY <1>0 DEF ShiftRow
  <2>1. l \in Move /\ ~l.voided /\ m \in Move /\ ~m.voided
    <3>1. Drawer \in Accounts /\ Bank \in Accounts /\ "event" \in Reasons
      BY <1>0 DEF Reasons
    <3>2. s \in Shifts \union {NoShift} /\ NoShift \in Shifts \union {NoShift}
      OBVIOUS
    <3> QED
      BY <2>0, <3>1, <3>2, LegTyped
  <2>2. Requested(h, <<l>> \o (IF paired THEN <<m>> ELSE <<>>))
    BY <1>3 DEF EventRequested
  <2> HIDE DEF l, m
  <2>3. CASE paired
    <3>1. <<l>> \o <<m>> = <<l, m>>
      BY Singles
    <3>2. Requested(h, <<l, m>>)
      BY <2>2, <2>3, <3>1
    <3>3. Postable(<<l, m>>)
      BY <2>1, TwoPostable
    <3> QED
      BY <1>0, <3>2, <3>3, RequestTyped
  <2>4. CASE ~paired
    <3>1. <<l>> \o <<>> = <<l>>
      BY Singles
    <3>2. Requested(h, <<l>>)
      BY <2>2, <2>4, <3>1
    <3>3. Postable(<<l>>)
      BY <2>1, OnePostable
    <3> QED
      BY <1>0, <3>2, <3>3, RequestTyped
  <2> QED
    BY <2>3, <2>4
<1>4. CASE MovesPosted(h)
  <2>1. Postable(job[h].legs)
    <3>1. job[h] \in Job /\ Sound(h, job[h], DOMAIN moves)
      BY <1>0 DEF TillInv, TypeOK
    <3> QED
      BY <3>1 DEF Job, Sound, Postable
  <2>2. Posted(job[h].legs) /\ Does(h, Idle) /\ UNCHANGED <<today, shift, closed, zs>>
    BY <1>4 DEF MovesPosted
  <2>3. /\ moves' \in Seq(Move) /\ DOMAIN moves \subseteq DOMAIN moves'
        /\ balance' \in [Accounts -> Int] /\ ledger' \in [Accounts -> Int]
    BY <2>1, <2>2, PostedTyped DEF TillInv
  <2>4. job' \in [Handlers -> Job] /\ \A g \in Handlers : Sound(g, job'[g], DOMAIN moves')
    BY <1>0, <2>2, <2>3, IdleAgain
  <2> QED
    BY <2>2, <2>3, <2>4 DEF TillInv, TypeOK
<1> QED
  BY <1>0, <1>1, <1>2, <1>3, <1>4 DEF MoneyStep

\* What a shift is expected to hold is a number.
LEMMA ExpectedTyped ==
    ASSUME TypeOK, NEW s \in Shifts
    PROVE  Expected(s) \in Int
<1> DEFINE I == {i \in DOMAIN moves : /\ moves[i].rung = s /\ moves[i].account = Drawer
                                      /\ ~moves[i].voided}
<1>1. moves \in Seq(Move) /\ I \in SUBSET DOMAIN moves
  BY DEF TypeOK
<1> HIDE DEF I
<1>2. Total(moves, I) \in Int
  BY <1>1, TotalType
<1>3. Rung(s) \in Int
  BY <1>2 DEF Rung, I
<1>4. shift[s].float \in Nat
  BY DEF TypeOK, ShiftRow
<1> QED
  BY <1>3, <1>4 DEF Expected

\* A row of a shift changes.
LEMMA ShiftTyped ==
    ASSUME TypeOK, NEW s \in Shifts, NEW r \in ShiftRow, shift' = [shift EXCEPT ![s] = r]
    PROVE  shift' \in [Shifts -> ShiftRow]
BY DEF TypeOK

\* The movement with which a shift is closed, and the one that recovers its shortage.
LEMMA CountLeg ==
    ASSUME TillInv, NEW h \in Handlers, job[h].at = "close"
    PROVE  Postable(<<Leg(shift[job[h].shift].day, Drawer, job[h].variance, "count",
                          job[h].shift, job[h].shift)>>)
<1> DEFINE s == job[h].shift
           v == job[h].variance
           d == shift[s].day
           l == Leg(d, Drawer, v, "count", s, s)
<1>0. /\ shift \in [Shifts -> ShiftRow] /\ job[h] \in Job /\ Sound(h, job[h], DOMAIN moves)
      /\ Drawer \in Accounts /\ "count" \in Reasons
  BY DEF TillInv, TypeOK, Accounts, Reasons
<1>1. s \in Shifts /\ v \in Int
  BY <1>0 DEF Sound, Job
<1>2. d \in Days
  BY <1>0, <1>1 DEF ShiftRow
<1>3. s \in Shifts \union {NoShift}
  BY <1>1
<1> HIDE DEF s, v, d
<1>4. l \in Move /\ ~l.voided
  BY <1>0, <1>1, <1>2, <1>3, LegTyped
<1> HIDE DEF l
<1>5. Postable(<<l>>)
  BY <1>4, OnePostable
<1> QED
  BY <1>5 DEF l, d, s, v

LEMMA RecoveryLeg ==
    ASSUME TillInv, NEW h \in Handlers, job[h].at = "collect"
    PROVE  Postable(<<Leg(job[h].day, Drawer, shift[job[h].shift].amount, "recovery",
                          NoShift, job[h].shift)>>)
<1> DEFINE s == job[h].shift
           n == shift[s].amount
           d == job[h].day
           l == Leg(d, Drawer, n, "recovery", NoShift, s)
<1>0. /\ shift \in [Shifts -> ShiftRow] /\ job[h] \in Job /\ Sound(h, job[h], DOMAIN moves)
      /\ Drawer \in Accounts /\ "recovery" \in Reasons
  BY DEF TillInv, TypeOK, Accounts, Reasons
<1>1. s \in Shifts /\ d \in Days
  BY <1>0 DEF Sound, Job
<1>2. n \in Int
  BY <1>0, <1>1 DEF ShiftRow
<1>3. s \in Shifts \union {NoShift} /\ NoShift \in Shifts \union {NoShift}
  BY <1>1
<1> HIDE DEF s, n, d
<1>4. l \in Move /\ ~l.voided
  BY <1>0, <1>1, <1>2, <1>3, LegTyped
<1> HIDE DEF l
<1>5. Postable(<<l>>)
  BY <1>4, OnePostable
<1> QED
  BY <1>5 DEF l, d, s, n

\* A cashier's shift is opened, counted, closed, and its shortage collected.
LEMMA ShiftStepTyped ==
    ASSUME TillInv, NEW h \in Tellers, ShiftStep(h)
    PROVE  TillInv'
<1>0. /\ h \in Handlers /\ today \in Days /\ Drawer \in Accounts /\ Bank \in Accounts
      /\ shift \in [Shifts -> ShiftRow]
      /\ closed \in [Days -> {"never", "closed", "reopened"}]
      /\ job[h] \in Job /\ Sound(h, job[h], DOMAIN moves)
      /\ balance \in [Accounts -> Int]
      /\ Idle \in Job /\ TypeOK
      /\ \A n \in Amounts \union {0} : n \in Nat /\ n \in Int
  BY CashAssumption, IdleTyped DEF Handlers, TillInv, TypeOK, Accounts
<1>1. ASSUME NEW s \in Shifts, NEW n \in Amounts \union {0}, OpenShift(h, s, n)
      PROVE  TillInv'
  <2> DEFINE r == [NoShiftYet EXCEPT !.status = "open", !.day = today, !.float = n]
             j == IF n = 0 THEN Idle ELSE [Idle EXCEPT !.at = "float", !.shift = s]
  <2>1. r \in ShiftRow
    BY <1>0 DEF NoShiftYet, ShiftRow
  <2>2. j \in Job /\ Sound(h, j, DOMAIN moves)
    <3> DEFINE k == [Idle EXCEPT !.at = "float", !.shift = s]
    <3>1. k \in Job /\ k.at = "float" /\ k.shift = s /\ k.legs = Idle.legs
      BY <1>0 DEF Job
    <3> HIDE DEF k
    <3>2. Sound(h, k, DOMAIN moves)
      <4>1. \A i \in DOMAIN Idle.legs : ~Idle.legs[i].voided
        BY IdleTyped DEF Sound
      <4> QED
        BY <3>1, <4>1 DEF Sound
    <3> QED
      BY <1>0, <3>1, <3>2, IdleTyped DEF k
  <2>3. shift' = [shift EXCEPT ![s] = r] /\ Does(h, j) /\ UNCHANGED <<today, book, closed, zs>>
    BY <1>1 DEF OpenShift
  <2> HIDE DEF r, j
  <2>4. shift' \in [Shifts -> ShiftRow] /\ closed' \in [Days -> {"never", "closed", "reopened"}]
    BY <1>0, <2>1, <2>3, ShiftTyped
  <2> QED
    BY <1>0, <2>2, <2>3, <2>4, QuietStep
<1>2. ASSUME NEW s \in Shifts, NEW n \in Amounts \union {0}, CloseRequested(h, s, n)
      PROVE  TillInv'
  <2> DEFINE e == Expected(s)
             v == n - e
             j == [Idle EXCEPT !.at = "close", !.shift = s, !.expected = e, !.variance = v]
  <2>1. e \in Int /\ n \in Int
    BY <1>0, ExpectedTyped
  <2>2. Does(h, j) /\ UNCHANGED <<today, book, shift, closed, zs>>
    BY <1>2 DEF CloseRequested
  <2>3. j \in Job /\ j.at = "close" /\ j.shift = s /\ j.legs = Idle.legs
    <3>1. v \in Int /\ e \in Int /\ Idle \in Job
      BY <1>0, <2>1
    <3> HIDE DEF v, e
    <3> QED
      BY <3>1 DEF Job
  <2> HIDE DEF j
  <2>4. Sound(h, j, DOMAIN moves)
    <3>1. \A i \in DOMAIN Idle.legs : ~Idle.legs[i].voided
      BY IdleTyped DEF Sound
    <3> QED
      BY <2>3, <3>1 DEF Sound
  <2>5. shift' \in [Shifts -> ShiftRow] /\ closed' \in [Days -> {"never", "closed", "reopened"}]
    BY <1>0, <2>2
  <2> QED
    BY <1>0, <2>2, <2>3, <2>4, <2>5, QuietStep
<1>3. CASE FloatRequested(h)
  <2> DEFINE s == job[h].shift
             held == IF balance[Drawer] > 0 THEN balance[Drawer] ELSE 0
             short == shift[s].float - held
             l == Leg(shift[s].day, Bank, -short, "float", NoShift, s)
             m == Leg(shift[s].day, Drawer, short, "float", NoShift, s)
             j == [Idle EXCEPT !.at = "move", !.legs = <<l, m>>]
  <2>1. s \in Shifts
    BY <1>0, <1>3 DEF FloatRequested, Sound
  <2>2. short \in Int /\ -short \in Int /\ shift[s].day \in Days
    <3>1. balance[Drawer] \in Int /\ shift[s] \in ShiftRow
      BY <1>0, <2>1
    <3> QED
      BY <3>1 DEF ShiftRow
  <2>3. l \in Move /\ ~l.voided /\ m \in Move /\ ~m.voided
    <3> HIDE DEF s, short
    <3>1. Drawer \in Accounts /\ Bank \in Accounts /\ "float" \in Reasons
      BY <1>0 DEF Reasons
    <3>2. s \in Shifts \union {NoShift} /\ NoShift \in Shifts \union {NoShift}
      BY <2>1
    <3> QED
      BY <2>2, <3>1, <3>2, LegTyped
  <2>4. (Does(h, Idle) \/ Does(h, j)) /\ UNCHANGED <<today, book, shift, closed, zs>>
    BY <1>3 DEF FloatRequested
  <2> HIDE DEF l, m
  <2>5. Postable(<<l, m>>)
    BY <2>3, TwoPostable
  <2>6. j \in Job /\ Sound(h, j, DOMAIN moves)
    BY <2>5, MoveTyped
  <2> HIDE DEF j
  <2>7. shift' \in [Shifts -> ShiftRow] /\ closed' \in [Days -> {"never", "closed", "reopened"}]
    BY <1>0, <2>4
  <2>8. Sound(h, Idle, DOMAIN moves)
    BY IdleTyped
  <2> QED
    BY <1>0, <2>4, <2>6, <2>7, <2>8, QuietStep
<1>4. CASE ShiftClosed(h)
  <2> DEFINE s == job[h].shift
             v == job[h].variance
             e == job[h].expected
             l == Leg(shift[s].day, Drawer, v, "count", s, s)
             r == [shift[s] EXCEPT !.status = "closed", !.variance = v, !.expected = e]
  <2>1. s \in Shifts /\ v \in Int /\ e \in Int
    BY <1>0, <1>4 DEF ShiftClosed, Sound, Job
  <2>2. shift[s] \in ShiftRow /\ shift[s].day \in Days
    BY <1>0, <2>1 DEF ShiftRow
  <2>3. Postable(<<l>>)
    BY <1>0, <1>4, CountLeg DEF ShiftClosed
  <2>4. r \in ShiftRow
    <3> HIDE DEF s, v, e
    <3> QED
      BY <2>1, <2>2 DEF ShiftRow
  <2>5. /\ UNCHANGED book \/ Posted(<<l>>)
        /\ shift' = [shift EXCEPT ![s] = r]
        /\ Does(h, Idle) /\ UNCHANGED <<today, closed, zs>>
    BY <1>4 DEF ShiftClosed
  <2> HIDE DEF s, l, r
  <2>6. /\ moves' \in Seq(Move) /\ DOMAIN moves \subseteq DOMAIN moves'
        /\ balance' \in [Accounts -> Int] /\ ledger' \in [Accounts -> Int]
    <3>1. CASE UNCHANGED book
      BY <1>0, <3>1 DEF book, TypeOK
    <3>2. CASE Posted(<<l>>)
      BY <1>0, <2>3, <3>2, PostedTyped
    <3> QED
      BY <2>5, <3>1, <3>2
  <2>7. shift' \in [Shifts -> ShiftRow]
    BY <1>0, <2>1, <2>4, <2>5, ShiftTyped
  <2>8. job' \in [Handlers -> Job] /\ \A g \in Handlers : Sound(g, job'[g], DOMAIN moves')
    BY <1>0, <2>5, <2>6, IdleAgain
  <2> QED
    BY <2>5, <2>6, <2>7, <2>8, <1>0 DEF TillInv, TypeOK
<1>5. ASSUME NEW s \in Shifts, CollectRequested(h, s)
      PROVE  TillInv'
  <2> DEFINE j == [Idle EXCEPT !.at = "collect", !.shift = s, !.day = today]
  <2>1. Does(h, j) /\ UNCHANGED <<today, book, shift, closed, zs>>
    BY <1>5 DEF CollectRequested
  <2>2. j \in Job /\ j.at = "collect" /\ j.shift = s /\ j.legs = Idle.legs
    BY <1>0 DEF Job
  <2> HIDE DEF j
  <2>3. Sound(h, j, DOMAIN moves)
    <3>1. \A i \in DOMAIN Idle.legs : ~Idle.legs[i].voided
      BY IdleTyped DEF Sound
    <3> QED
      BY <2>2, <3>1 DEF Sound
  <2>4. shift' \in [Shifts -> ShiftRow] /\ closed' \in [Days -> {"never", "closed", "reopened"}]
    BY <1>0, <2>1
  <2> QED
    BY <1>0, <2>1, <2>2, <2>3, <2>4, QuietStep
<1>6. CASE Collected(h)
  <2> DEFINE s == job[h].shift
             l == Leg(job[h].day, Drawer, shift[s].amount, "recovery", NoShift, s)
             r == [shift[s] EXCEPT !.back = "collected"]
  <2>1. s \in Shifts /\ job[h].day \in Days
    BY <1>0, <1>6 DEF Collected, Sound, Job
  <2>2. shift[s] \in ShiftRow /\ shift[s].amount \in Int
    BY <1>0, <2>1 DEF ShiftRow
  <2>3. Postable(<<l>>)
    BY <1>0, <1>6, RecoveryLeg DEF Collected
  <2>4. r \in ShiftRow
    <3> HIDE DEF s
    <3> QED
      BY <2>1, <2>2 DEF ShiftRow
  <2>5. /\ \/ UNCHANGED <<book, shift>>
           \/ Posted(<<l>>) /\ shift' = [shift EXCEPT ![s] = r]
        /\ Does(h, Idle) /\ UNCHANGED <<today, closed, zs>>
    BY <1>6 DEF Collected
  <2> HIDE DEF s, l, r
  <2>6. /\ moves' \in Seq(Move) /\ DOMAIN moves \subseteq DOMAIN moves'
        /\ balance' \in [Accounts -> Int] /\ ledger' \in [Accounts -> Int]
        /\ shift' \in [Shifts -> ShiftRow]
    <3>1. CASE UNCHANGED <<book, shift>>
      BY <1>0, <3>1 DEF book, TypeOK
    <3>2. CASE Posted(<<l>>) /\ shift' = [shift EXCEPT ![s] = r]
      BY <1>0, <2>1, <2>3, <2>4, <3>2, PostedTyped, ShiftTyped
    <3> QED
      BY <2>5, <3>1, <3>2
  <2>7. job' \in [Handlers -> Job] /\ \A g \in Handlers : Sound(g, job'[g], DOMAIN moves')
    BY <1>0, <2>5, <2>6, IdleAgain
  <2> QED
    BY <2>5, <2>6, <2>7, <1>0 DEF TillInv, TypeOK
<1> QED
  BY <1>1, <1>2, <1>3, <1>4, <1>5, <1>6 DEF ShiftStep

\* What a Z-reading is computed from are numbers.
LEMMA ReadingTyped ==
    ASSUME TypeOK, ZInv, NEW d \in Days
    PROVE  LastCounter \in Nat /\ GrandTotal \in Int /\ NetSales(d) \in Int
<1> DEFINE I == {i \in DOMAIN moves : moves[i].day = d /\ moves[i].why = "sale" /\ ~moves[i].voided}
<1>1. moves \in Seq(Move) /\ I \in SUBSET DOMAIN moves /\ zs \in Seq(Reading)
  BY DEF TypeOK
<1> HIDE DEF I
<1>2. NetSales(d) \in Int
  BY <1>1, TotalType DEF NetSales, I
<1>3. CASE zs = <<>>
  BY <1>2, <1>3 DEF LastCounter, GrandTotal
<1>4. CASE zs # <<>>
  <2>1. Latest = zs[Len(zs)]
    BY <1>4, LatestIsLast
  <2>2. zs[Len(zs)] \in Reading
    <3>1. Len(zs) \in DOMAIN zs
      BY <1>1, <1>4
    <3> QED
      BY <1>1, <3>1
  <2> QED
    BY <1>2, <1>4, <2>1, <2>2 DEF LastCounter, GrandTotal, Reading
<1> QED
  BY <1>3, <1>4

\* Days are closed and read.
LEMMA DayStepTyped ==
    ASSUME TillInv, ZInv, NEW h \in Closers, DayStep(h)
    PROVE  TillInv'
<1>0. /\ h \in Handlers
      /\ shift \in [Shifts -> ShiftRow]
      /\ closed \in [Days -> {"never", "closed", "reopened"}]
      /\ job[h] \in Job /\ Sound(h, job[h], DOMAIN moves)
      /\ zs \in Seq(Reading)
      /\ Idle \in Job /\ Sound(h, Idle, DOMAIN moves) /\ TypeOK
  BY IdleTyped DEF Handlers, TillInv, TypeOK
<1>1. ASSUME NEW j \in Job, j.at \in {"day", "z", "number"}, j.legs = Idle.legs
      PROVE  Sound(h, j, DOMAIN moves)
  <2>1. \A i \in DOMAIN Idle.legs : ~Idle.legs[i].voided
    BY IdleTyped DEF Sound
  <2> QED
    BY <1>1, <2>1 DEF Sound
<1>2. ASSUME NEW d \in Days, DayCloseRequested(h, d)
      PROVE  TillInv'
  <2> DEFINE b == closed[d] # "never"
             j == [Idle EXCEPT !.at = "day", !.day = d, !.ever = b]
  <2>1. b \in BOOLEAN
    OBVIOUS
  <2>2. Does(h, j) /\ UNCHANGED <<today, book, shift, closed, zs>>
    BY <1>2 DEF DayCloseRequested
  <2> HIDE DEF b
  <2>3. j \in Job /\ j.at = "day" /\ j.legs = Idle.legs
    BY <1>0, <2>1 DEF Job
  <2> HIDE DEF j
  <2>4. Sound(h, j, DOMAIN moves)
    BY <1>1, <2>3
  <2>5. shift' \in [Shifts -> ShiftRow] /\ closed' \in [Days -> {"never", "closed", "reopened"}]
    BY <1>0, <2>2
  <2> QED
    BY <1>0, <2>2, <2>3, <2>4, <2>5, QuietStep
<1>3. ASSUME NEW d \in Days
      PROVE  LET j == [Idle EXCEPT !.at = "z", !.day = d]
             IN j \in Job /\ Sound(h, j, DOMAIN moves)
  <2> DEFINE j == [Idle EXCEPT !.at = "z", !.day = d]
  <2>1. j \in Job /\ j.at = "z" /\ j.legs = Idle.legs
    BY <1>0 DEF Job
  <2> HIDE DEF j
  <2>2. j \in Job /\ Sound(h, j, DOMAIN moves)
    BY <1>1, <2>1
  <2> QED
    BY <2>2 DEF j
<1>4. ASSUME NEW d \in Days, ZRequested(h, d)
      PROVE  TillInv'
  <2> DEFINE j == [Idle EXCEPT !.at = "z", !.day = d]
  <2>1. Does(h, j) /\ UNCHANGED <<today, book, shift, closed, zs>>
    BY <1>4 DEF ZRequested
  <2>2. j \in Job /\ Sound(h, j, DOMAIN moves)
    BY <1>3
  <2> HIDE DEF j
  <2>3. shift' \in [Shifts -> ShiftRow] /\ closed' \in [Days -> {"never", "closed", "reopened"}]
    BY <1>0, <2>1
  <2> QED
    BY <1>0, <2>1, <2>2, <2>3, QuietStep
<1>5. CASE DayClosed(h)
  <2> DEFINE d == job[h].day
             j == [Idle EXCEPT !.at = "z", !.day = d]
  <2>1. d \in Days
    BY <1>0 DEF Job
  <2>2. /\ UNCHANGED <<today, book, shift, zs>>
        /\ \/ Does(h, j) /\ closed' = [closed EXCEPT ![d] = "closed"]
           \/ Does(h, Idle) /\ UNCHANGED closed
    BY <1>5 DEF DayClosed
  <2>3. j \in Job /\ Sound(h, j, DOMAIN moves)
    BY <1>3, <2>1
  <2> HIDE DEF d, j
  <2>4. shift' \in [Shifts -> ShiftRow] /\ closed' \in [Days -> {"never", "closed", "reopened"}]
    BY <1>0, <2>2
  <2>5. CASE Does(h, j)
    BY <1>0, <2>2, <2>3, <2>4, <2>5, QuietStep
  <2>6. CASE Does(h, Idle)
    BY <1>0, <2>2, <2>4, <2>6, QuietStep
  <2> QED
    BY <2>2, <2>5, <2>6
<1>6. CASE ZComputed(h)
  <2> DEFINE d == job[h].day
             c == LastCounter + 1
             p == GrandTotal
             n == NetSales(d)
             j == [Idle EXCEPT !.at = "number", !.day = d, !.counter = c, !.prev = p, !.net = n]
  <2>1. d \in Days
    BY <1>0 DEF Job
  <2>2. c \in Nat /\ p \in Int /\ n \in Int
    BY <1>0, <2>1, ReadingTyped
  <2>3. Does(h, j) /\ UNCHANGED <<today, book, shift, closed, zs>>
    BY <1>6 DEF ZComputed
  <2> HIDE DEF d, c, p, n
  <2>4. j \in Job /\ j.at = "number" /\ j.legs = Idle.legs
    BY <1>0, <2>1, <2>2 DEF Job
  <2> HIDE DEF j
  <2>5. Sound(h, j, DOMAIN moves)
    BY <1>1, <2>4
  <2>6. shift' \in [Shifts -> ShiftRow] /\ closed' \in [Days -> {"never", "closed", "reopened"}]
    BY <1>0, <2>3
  <2> QED
    BY <1>0, <2>3, <2>4, <2>5, <2>6, QuietStep
<1>7. CASE ZIssued(h)
  <2> DEFINE j == job[h]
             z == [counter |-> j.counter, day |-> j.day, net |-> j.net,
                   prev |-> j.prev, new |-> j.prev + j.net]
  <2>1. z \in Reading
    <3>1. j.counter \in Nat /\ j.day \in Days /\ j.net \in Int /\ j.prev \in Int
      BY <1>0 DEF Job
    <3> HIDE DEF j
    <3> QED
      BY <3>1 DEF Reading
  <2>2. /\ zs' = zs \/ zs' = Append(zs, z)
        /\ Does(h, Idle) /\ UNCHANGED <<today, book, shift, closed>>
    BY <1>7 DEF ZIssued
  <2> HIDE DEF z
  <2>3. zs' \in Seq(Reading)
    BY <1>0, <2>1, <2>2
  <2>4. UNCHANGED <<moves, balance, ledger>>
    BY <2>2 DEF book
  <2>5. job' \in [Handlers -> Job] /\ \A g \in Handlers : Sound(g, job'[g], DOMAIN moves')
    BY <1>0, <2>2, <2>4, IdleAgain
  <2> QED
    BY <1>0, <2>2, <2>3, <2>4, <2>5 DEF TillInv, TypeOK
<1> QED
  BY <1>2, <1>4, <1>5, <1>6, <1>7 DEF DayStep

\* A movement is voided, on the finance pages or at the desk.
LEMMA VoidTyped ==
    ASSUME TillInv, NEW v \in Voiders \union DeskVoiders, MoveVoided(v) \/ PaymentVoided(v)
    PROVE  TillInv'
<1> DEFINE n == job[v].row
<1>0. /\ v \in Handlers
      /\ job[v] \in Job /\ Sound(v, job[v], DOMAIN moves)
      /\ balance \in [Accounts -> Int] /\ ledger \in [Accounts -> Int] /\ TypeOK
  BY DEF Handlers, TillInv, TypeOK
<1>1. n \in DOMAIN moves
  BY <1>0 DEF Sound, MoveVoided, PaymentVoided
<1>2. /\ moves' = [moves EXCEPT ![n].voided = TRUE]
      /\ balance' = [balance EXCEPT ![moves[n].account] = @ - moves[n].delta]
      /\ \/ ledger' = [ledger EXCEPT ![moves[n].account] = @ - moves[n].delta]
         \/ ledger' = ledger
      /\ Does(v, Idle) /\ UNCHANGED <<today, shift, closed, zs>>
  BY DEF MoveVoided, PaymentVoided
<1> HIDE DEF n
<1>3. /\ moves' \in Seq(Move) /\ DOMAIN moves' = DOMAIN moves
      /\ moves[n].account \in Accounts /\ moves[n].delta \in Int
  BY <1>0, <1>1, <1>2, VoidedTyped
<1>4. balance' \in [Accounts -> Int] /\ ledger' \in [Accounts -> Int]
  <2> DEFINE a == moves[n].account
             x == moves[n].delta
  <2>1. a \in Accounts /\ x \in Int
    BY <1>3
  <2>2. balance' = [balance EXCEPT ![a] = @ - x] /\ (ledger' = [ledger EXCEPT ![a] = @ - x] \/ ledger' = ledger)
    BY <1>2
  <2> HIDE DEF a, x
  <2> QED
    BY <1>0, <2>1, <2>2
<1>5. job' \in [Handlers -> Job] /\ \A g \in Handlers : Sound(g, job'[g], DOMAIN moves')
  BY <1>0, <1>2, <1>3, IdleAgain
<1> QED
  BY <1>2, <1>3, <1>4, <1>5 DEF TillInv, TypeOK

LEMMA VoidRequestTyped ==
    ASSUME TillInv, NEW v, NEW i \in DOMAIN moves,
           \/ v \in Voiders /\ VoidRequested(v, i)
           \/ v \in DeskVoiders /\ PaymentVoidRequested(v, i)
    PROVE  TillInv'
<1>0. /\ v \in Handlers
      /\ shift \in [Shifts -> ShiftRow]
      /\ closed \in [Days -> {"never", "closed", "reopened"}]
      /\ Idle \in Job /\ i \in Nat
  BY IdleTyped DEF Handlers, TillInv, TypeOK
<1>1. PICK w \in {"void", "desk_void"} :
          /\ Does(v, [Idle EXCEPT !.at = w, !.row = i])
          /\ w = "void" => v \in Voiders
          /\ w = "desk_void" => v \in DeskVoiders
          /\ UNCHANGED <<today, book, shift, closed, zs>>
  BY DEF VoidRequested, PaymentVoidRequested
<1> DEFINE j == [Idle EXCEPT !.at = w, !.row = i]
<1>2. j \in Job /\ j.at = w /\ j.row = i /\ j.legs = Idle.legs
  BY <1>0 DEF Job
<1>3. Does(v, j)
  BY <1>1
<1> HIDE DEF j
<1>4. Sound(v, j, DOMAIN moves)
  <2>1. \A k \in DOMAIN Idle.legs : ~Idle.legs[k].voided
    BY IdleTyped DEF Sound
  <2> QED
    BY <1>1, <1>2, <2>1 DEF Sound
<1>5. shift' \in [Shifts -> ShiftRow] /\ closed' \in [Days -> {"never", "closed", "reopened"}]
  BY <1>0, <1>1
<1> QED
  BY <1>0, <1>1, <1>2, <1>3, <1>4, <1>5, QuietStep

\* Nobody's movements or jobs change.
LEMMA ElsewhereTyped ==
    ASSUME TillInv, UNCHANGED <<book, zs, job>>, today' \in Days,
           shift' \in [Shifts -> ShiftRow], closed' \in [Days -> {"never", "closed", "reopened"}]
    PROVE  TillInv'
BY DEF TillInv, TypeOK, book

\* Every step keeps the types.
LEMMA TillStep == TillInv /\ ZInv /\ [Next]_vars => TillInv'
<1> SUFFICES ASSUME TillInv, ZInv, [Next]_vars
             PROVE  TillInv'
  OBVIOUS
<1>0. /\ today \in Days
      /\ shift \in [Shifts -> ShiftRow]
      /\ closed \in [Days -> {"never", "closed", "reopened"}]
  BY DEF TillInv, TypeOK
<1>1. ASSUME NEW h \in Tellers, MoneyStep(h) \/ ShiftStep(h)
      PROVE  TillInv'
  BY <1>1, MoneyTyped, ShiftStepTyped
<1>2. ASSUME NEW h \in Closers, DayStep(h)
      PROVE  TillInv'
  BY <1>2, DayStepTyped
<1>3. ASSUME NEW v \in Voiders \union DeskVoiders, MoveVoided(v) \/ PaymentVoided(v)
      PROVE  TillInv'
  BY <1>3, VoidTyped
<1>4. ASSUME NEW v, NEW i \in DOMAIN moves,
             \/ v \in Voiders /\ VoidRequested(v, i)
             \/ v \in DeskVoiders /\ PaymentVoidRequested(v, i)
      PROVE  TillInv'
  BY <1>4, VoidRequestTyped
<1>5. ASSUME NEW s \in Shifts, WrittenOff(s)
      PROVE  TillInv'
  <2> DEFINE r == [shift[s] EXCEPT !.back = "written_off"]
  <2>1. r \in ShiftRow
    BY <1>0 DEF ShiftRow
  <2>2. shift' = [shift EXCEPT ![s] = r] /\ UNCHANGED <<today, book, closed, zs, job>>
    BY <1>5 DEF WrittenOff
  <2> HIDE DEF r
  <2>3. shift' \in [Shifts -> ShiftRow]
    BY <2>1, <2>2, ShiftTyped DEF TillInv
  <2> QED
    BY <1>0, <2>2, <2>3, ElsewhereTyped
<1>6. ASSUME NEW s \in Shifts, NEW n \in Amounts, ChargedBack(s, n)
      PROVE  TillInv'
  <2> DEFINE r == [shift[s] EXCEPT !.back = "owed", !.amount = n]
  <2>1. r \in ShiftRow
    <3>1. n \in Nat /\ shift[s] \in ShiftRow
      BY <1>0, CashAssumption
    <3> QED
      BY <3>1 DEF ShiftRow
  <2>2. shift' = [shift EXCEPT ![s] = r] /\ UNCHANGED <<today, book, closed, zs, job>>
    BY <1>6 DEF ChargedBack
  <2> HIDE DEF r
  <2>3. shift' \in [Shifts -> ShiftRow]
    BY <2>1, <2>2, ShiftTyped DEF TillInv
  <2> QED
    BY <1>0, <2>2, <2>3, ElsewhereTyped
<1>7. ASSUME NEW d \in Days, DayReopened(d)
      PROVE  TillInv'
  <2>1. /\ UNCHANGED <<today, book, shift, zs, job>>
        /\ closed' \in [Days -> {"never", "closed", "reopened"}]
    BY <1>0, <1>7 DEF DayReopened
  <2> QED
    BY <1>0, <2>1, ElsewhereTyped
<1>8. CASE NightPasses
  BY <1>0, <1>8, ElsewhereTyped DEF NightPasses
<1>9. ASSUME NEW h \in Handlers, HandlerDies(h)
      PROVE  TillInv'
  <2>1. Does(h, Idle) /\ UNCHANGED <<today, book, shift, closed, zs>>
    BY <1>9 DEF HandlerDies
  <2>2. shift' \in [Shifts -> ShiftRow] /\ closed' \in [Days -> {"never", "closed", "reopened"}]
    BY <1>0, <2>1
  <2> QED
    BY <2>1, <2>2, IdleTyped, QuietStep
<1>10. CASE UNCHANGED vars
  BY <1>0, <1>10, ElsewhereTyped DEF vars
<1> QED
  BY <1>1, <1>2, <1>3, <1>4, <1>5, <1>6, <1>7, <1>8, <1>9, <1>10 DEF Next

LEMMA TillInit == Init => TillInv
<1> SUFFICES ASSUME Init PROVE TillInv
  OBVIOUS
<1>1. /\ 1 \in Days /\ Idle \in Job
      /\ \A h \in Handlers : Sound(h, Idle, DOMAIN moves)
  BY CashAssumption, IdleTyped DEF Days
<1>2. NoShiftYet \in ShiftRow
  BY <1>1 DEF NoShiftYet, ShiftRow
<1>3. moves \in Seq(Move) /\ zs \in Seq(Reading)
  BY DEF Init
<1>4. /\ shift \in [Shifts -> ShiftRow]
      /\ job \in [Handlers -> Job]
      /\ \A h \in Handlers : job[h] = Idle
  BY <1>1, <1>2 DEF Init
<1>5. /\ today \in Days
      /\ balance \in [Accounts -> Int] /\ ledger \in [Accounts -> Int]
      /\ closed \in [Days -> {"never", "closed", "reopened"}]
  BY <1>1 DEF Init
<1> QED
  BY <1>1, <1>3, <1>4, <1>5 DEF TillInv, TypeOK

LEMMA TillAlways == Spec => [](TillInv /\ ZInv)
<1>1. Init => TillInv /\ ZInv
  BY TillInit, ChainInit
<1>2. TillInv /\ ZInv /\ [Next]_vars => TillInv' /\ ZInv'
  BY TillStep, ChainStep
<1> QED
  BY <1>1, <1>2, PTL DEF Spec

\* Whatever tellers, voiders and closers do at once, and whatever dies half-way, movements,
\* balances, shifts and readings stay what their columns hold: a claim is never negative, a
\* movement is never voided that is not there.
THEOREM TillTyped == Spec => []TypeOK
<1>1. TillInv => TypeOK
  BY DEF TillInv
<1> QED
  BY <1>1, TillAlways, PTL

----------------------------------------------------------------------------
\* The balances.

\* Movements of an account that are in force.
InForce(a) == {i \in DOMAIN moves : moves[i].account = a /\ ~moves[i].voided}

\* Nobody is about to void a movement that is voided already.
BooksInv ==
    /\ AccountsAddUp
    /\ \A v \in Handlers : job[v].at = "void" => ~moves[job[v].row].voided

\* One person voids movements, none payments at the desk.
OneVoids == DeskVoiders = {} /\ \A v, w \in Voiders : v = w

\* Posting moves the balances by what the legs come to.
LEMMA PostedAddsUp ==
    ASSUME TypeOK, AccountsAddUp, NEW legs, Postable(legs), Posted(legs)
    PROVE  AccountsAddUp'
<1>0. /\ moves \in Seq(Move) /\ legs \in Seq(Move)
      /\ \A i \in DOMAIN legs : ~legs[i].voided
      /\ balance \in [Accounts -> Int] /\ ledger \in [Accounts -> Int]
  BY DEF TypeOK, Postable
<1> SUFFICES ASSUME NEW a \in Accounts
             PROVE  balance'[a] = Total(moves', InForce(a)') /\ ledger'[a] = balance'[a]
  BY DEF AccountsAddUp, InForce
<1> DEFINE J == {i \in DOMAIN legs : legs[i].account = a}
<1>1. /\ moves' = moves \o legs
      /\ balance'[a] = balance[a] + Total(legs, J)
      /\ ledger'[a] = ledger[a] + Total(legs, J)
  BY DEF Posted
<1>2. balance[a] = Total(moves, InForce(a)) /\ ledger[a] = balance[a]
  BY DEF AccountsAddUp, InForce
<1>3. /\ Len(moves) \in Nat /\ Len(legs) \in Nat
      /\ DOMAIN moves = 1 .. Len(moves) /\ DOMAIN legs = 1 .. Len(legs)
      /\ DOMAIN moves' = 1 .. Len(moves) + Len(legs)
      /\ \A i \in 1 .. Len(moves) : moves'[i] = moves[i]
      /\ \A i \in 1 .. Len(legs) : moves'[Len(moves) + i] = legs[i]
  BY <1>0, <1>1
<1>4. /\ InForce(a)' \in SUBSET DOMAIN moves'
      /\ \A i \in DOMAIN moves : i \in InForce(a)' <=> i \in InForce(a)
      /\ \A i \in DOMAIN legs : Len(moves) + i \in InForce(a)' <=> i \in J
  <2>1. ASSUME NEW i \in DOMAIN moves
        PROVE  i \in InForce(a)' <=> i \in InForce(a)
    BY <1>3 DEF InForce
  <2>2. ASSUME NEW i \in DOMAIN legs
        PROVE  Len(moves) + i \in InForce(a)' <=> i \in J
    <3>1. Len(moves) + i \in DOMAIN moves' /\ moves'[Len(moves) + i] = legs[i]
      BY <1>3
    <3> QED
      BY <1>0, <3>1 DEF InForce
  <2>3. InForce(a)' \in SUBSET DOMAIN moves'
    BY DEF InForce
  <2> HIDE DEF J
  <2> QED
    BY <2>1, <2>2, <2>3
<1>5. InForce(a) \in SUBSET DOMAIN moves /\ J \in SUBSET DOMAIN legs
  BY DEF InForce
<1> HIDE DEF J
<1>6. Total(moves', InForce(a)') = Total(moves, InForce(a)) + Total(legs, J)
  <2>1. SelectsBoth(moves, InForce(a), legs, J, moves', InForce(a)')
    BY <1>1, <1>4, <1>5 DEF SelectsBoth
  <2> QED
    BY <1>0, <2>1, TotalJoined
<1> QED
  BY <1>1, <1>2, <1>6

\* Voiding takes one movement off the balances.
LEMMA VoidedAddsUp ==
    ASSUME TillInv, BooksInv, NEW v \in Voiders, MoveVoided(v)
    PROVE  AccountsAddUp'
<1> DEFINE n == job[v].row
           b == moves[n].account
           x == moves[n].delta
<1>0. /\ moves \in Seq(Move) /\ TypeOK
      /\ balance \in [Accounts -> Int] /\ ledger \in [Accounts -> Int]
      /\ Sound(v, job[v], DOMAIN moves) /\ job[v].at = "void"
  BY DEF TillInv, TypeOK, Handlers, MoveVoided
<1>1. n \in DOMAIN moves /\ ~moves[n].voided
  BY <1>0 DEF Sound, BooksInv, Handlers
<1>2. /\ moves' = [moves EXCEPT ![n].voided = TRUE]
      /\ balance' = [balance EXCEPT ![b] = @ - x]
      /\ ledger' = [ledger EXCEPT ![b] = @ - x]
  BY DEF MoveVoided
<1> HIDE DEF n
<1>3. /\ moves' \in Seq(Move) /\ DOMAIN moves' = DOMAIN moves
      /\ b \in Accounts /\ x \in Int
      /\ moves'[n].voided /\ moves'[n].account = b /\ moves'[n].delta = x
      /\ \A i \in DOMAIN moves \ {n} : moves'[i] = moves[i]
  BY <1>0, <1>1, <1>2, VoidedTyped
<1> SUFFICES ASSUME NEW a \in Accounts
             PROVE  balance'[a] = Total(moves', InForce(a)') /\ ledger'[a] = balance'[a]
  BY DEF AccountsAddUp, InForce
<1>4. balance[a] = Total(moves, InForce(a)) /\ ledger[a] = balance[a]
  BY DEF BooksInv, AccountsAddUp, InForce
<1>5. InForce(a) \in SUBSET DOMAIN moves /\ InForce(a)' \in SUBSET DOMAIN moves
  BY <1>3 DEF InForce
<1>6. InForce(a)' = InForce(a) \ {n}
  BY <1>1, <1>3 DEF InForce
<1>7. \A i \in InForce(a)' : moves'[i].delta = moves[i].delta
  BY <1>3, <1>5
<1>8. Total(moves', InForce(a)') = Total(moves, InForce(a)')
  <2>1. PICK J : J = InForce(a)'
    OBVIOUS
  <2>2. J \in SUBSET DOMAIN moves /\ \A i \in J : moves'[i].delta = moves[i].delta
    BY <1>5, <1>7, <2>1
  <2>3. Total(moves', J) = Total(moves, J)
    BY <1>0, <2>2, TotalSame
  <2> QED
    BY <2>1, <2>3
<1>9. CASE a = b
  <2>1. n \in InForce(a)
    BY <1>1, <1>9 DEF InForce
  <2>2. Total(moves, InForce(a) \ {n}) = Total(moves, InForce(a)) - x
    BY <1>0, <1>5, <2>1, TotalWithout
  <2> HIDE DEF b, x
  <2>3. balance'[a] = balance[a] - x /\ ledger'[a] = ledger[a] - x
    BY <1>0, <1>2, <1>9
  <2> QED
    BY <1>4, <1>6, <1>8, <2>2, <2>3
<1>10. CASE a # b
  <2>1. InForce(a) \ {n} = InForce(a)
    BY <1>10 DEF InForce
  <2> HIDE DEF b, x
  <2>2. balance'[a] = balance[a] /\ ledger'[a] = ledger[a]
    BY <1>0, <1>2, <1>10
  <2> QED
    BY <1>4, <1>6, <1>8, <2>1, <2>2
<1> QED
  BY <1>9, <1>10

\* A step that moves no money and makes no request to void.
LEMMA BooksQuiet ==
    ASSUME TillInv, BooksInv, UNCHANGED book,
           \A g \in Handlers : job'[g] = job[g] \/ job'[g].at # "void"
    PROVE  BooksInv'
BY DEF BooksInv, AccountsAddUp, book

LEMMA OneJob ==
    ASSUME TillInv, NEW h \in Handlers, NEW j, Does(h, j)
    PROVE  \A g \in Handlers : job'[g] = job[g] \/ job'[g] = j
BY DEF TillInv, TypeOK, Does

\* A handler posts its legs and is done.
LEMMA BooksPosted ==
    ASSUME TillInv, BooksInv, NEW h \in Handlers, Does(h, Idle),
           NEW legs, Postable(legs), Posted(legs)
    PROVE  BooksInv'
<1>1. AccountsAddUp'
  BY PostedAddsUp DEF TillInv, BooksInv
<1>2. \A i \in DOMAIN moves : moves'[i] = moves[i]
  BY DEF Posted, Postable, TillInv, TypeOK
<1>3. ASSUME NEW v \in Handlers, job'[v].at = "void"
      PROVE  ~moves'[job'[v].row].voided
  <2>1. job'[v] = job[v]
    BY <1>3, OneJob DEF Idle
  <2>2. job[v].row \in DOMAIN moves /\ ~moves[job[v].row].voided
    BY <1>3, <2>1 DEF TillInv, BooksInv, Sound
  <2> QED
    BY <1>2, <2>1, <2>2
<1> QED
  BY <1>1, <1>3 DEF BooksInv

\* Every step keeps the books.
LEMMA BooksStep ==
    ASSUME OneVoids, TillInv, BooksInv, [Next]_vars
    PROVE  BooksInv'
<1>0. ASSUME NEW h \in Handlers, NEW j, Does(h, j), j.at # "void", UNCHANGED book
      PROVE  BooksInv'
  BY <1>0, OneJob, BooksQuiet
<1>1. ASSUME NEW h \in Tellers, MoneyStep(h)
      PROVE  BooksInv'
  <2> h \in Handlers
    BY DEF Handlers
  <2>1. ASSUME NEW legs, Requested(h, legs)
        PROVE  BooksInv'
    <3>1. [Idle EXCEPT !.at = "move", !.legs = legs].at = "move"
      BY DEF Idle
    <3> QED
      BY <1>0, <2>1, <3>1 DEF Requested
  <2>2. CASE MovesPosted(h)
    <3>1. Postable(job[h].legs)
      BY DEF TillInv, TypeOK, Sound, Job, Postable
    <3> QED
      BY <2>2, <3>1, BooksPosted DEF MovesPosted
  <2> QED
    BY <1>1, <2>1, <2>2 DEF MoneyStep, SaleRequested, TransferRequested, EventRequested
<1>2. ASSUME NEW h \in Tellers, ShiftStep(h)
      PROVE  BooksInv'
  <2> h \in Handlers
    BY DEF Handlers
  <2>1. CASE ShiftClosed(h)
    <3> DEFINE s == job[h].shift
               l == <<Leg(shift[s].day, Drawer, job[h].variance, "count", s, s)>>
    <3>1. Postable(l)
      BY <2>1, CountLeg DEF ShiftClosed
    <3>2. (UNCHANGED book \/ Posted(l)) /\ Does(h, Idle)
      BY <2>1 DEF ShiftClosed
    <3> HIDE DEF l
    <3>3. Idle.at # "void"
      BY DEF Idle
    <3> QED
      BY <1>0, <3>1, <3>2, <3>3, BooksPosted
  <2>2. CASE Collected(h)
    <3> DEFINE s == job[h].shift
               l == <<Leg(job[h].day, Drawer, shift[s].amount, "recovery", NoShift, s)>>
    <3>1. Postable(l)
      BY <2>2, RecoveryLeg DEF Collected
    <3>2. (UNCHANGED book \/ Posted(l)) /\ Does(h, Idle)
      BY <2>2 DEF Collected
    <3> HIDE DEF l
    <3>3. Idle.at # "void"
      BY DEF Idle
    <3> QED
      BY <1>0, <3>1, <3>2, <3>3, BooksPosted
  <2>3. ASSUME NEW j, Does(h, j), j.at # "void", UNCHANGED book
        PROVE  BooksInv'
    BY <1>0, <2>3
  <2>4. ASSUME NEW s \in Shifts, NEW n \in Amounts \union {0},
               OpenShift(h, s, n) \/ CloseRequested(h, s, n)
        PROVE  BooksInv'
    <3>1. UNCHANGED book /\ \E j : j.at # "void" /\ Does(h, j)
      BY <2>4 DEF OpenShift, CloseRequested, Idle
    <3> QED
      BY <2>3, <3>1
  <2>5. ASSUME NEW s \in Shifts, CollectRequested(h, s)
        PROVE  BooksInv'
    <3>1. UNCHANGED book /\ \E j : j.at # "void" /\ Does(h, j)
      BY <2>5 DEF CollectRequested, Idle
    <3> QED
      BY <2>3, <3>1
  <2>6. CASE FloatRequested(h)
    <3>1. UNCHANGED book /\ \E j : j.at # "void" /\ Does(h, j)
      BY <2>6 DEF FloatRequested, Idle
    <3> QED
      BY <2>3, <3>1
  <2> QED
    BY <1>2, <2>1, <2>2, <2>4, <2>5, <2>6 DEF ShiftStep
<1>3. ASSUME NEW h \in Closers, DayStep(h)
      PROVE  BooksInv'
  <2>1. UNCHANGED book /\ \E j : j.at # "void" /\ Does(h, j)
    BY <1>3 DEF DayStep, DayCloseRequested, ZRequested, DayClosed, ZComputed, ZIssued, Idle
  <2> QED
    BY <1>0, <2>1 DEF Handlers
<1>4. ASSUME NEW v \in Voiders, MoveVoided(v)
      PROVE  BooksInv'
  <2>1. AccountsAddUp'
    BY <1>4, VoidedAddsUp
  <2>2. ASSUME NEW w \in Handlers, job'[w].at = "void"
        PROVE  FALSE
    <3>1. job'[w] = job[w] /\ job'[v] = Idle
      BY <1>4, <2>2, OneJob DEF MoveVoided, Idle, Does, TillInv, TypeOK, Handlers
    <3>2. w \in Voiders
      BY <2>2, <3>1 DEF TillInv, Sound
    <3> QED
      BY <2>2, <3>1, <3>2 DEF OneVoids, Idle
  <2> QED
    BY <2>1, <2>2 DEF BooksInv
<1>5. ASSUME NEW v \in Voiders, NEW i \in DOMAIN moves, VoidRequested(v, i)
      PROVE  BooksInv'
  <2> DEFINE j == [Idle EXCEPT !.at = "void", !.row = i]
  <2>1. Does(v, j) /\ UNCHANGED book /\ ~moves[i].voided /\ v \in Handlers
    BY <1>5 DEF VoidRequested, Handlers
  <2>2. j.row = i
    BY DEF Idle
  <2>3. \A g \in Handlers : job'[g] = job[g] \/ job'[g] = j
    BY <2>1, OneJob
  <2> HIDE DEF j
  <2> QED
    BY <2>1, <2>2, <2>3 DEF BooksInv, AccountsAddUp, book
<1>6. ASSUME NEW s \in Shifts, NEW n,
             \/ WrittenOff(s) \/ ChargedBack(s, n)
      PROVE  BooksInv'
  BY <1>6, BooksQuiet DEF WrittenOff, ChargedBack
<1>7. ASSUME NEW d \in Days, DayReopened(d)
      PROVE  BooksInv'
  BY <1>7, BooksQuiet DEF DayReopened
<1>8. CASE NightPasses
  BY <1>8, BooksQuiet DEF NightPasses
<1>9. ASSUME NEW h \in Handlers, HandlerDies(h)
      PROVE  BooksInv'
  BY <1>0, <1>9 DEF HandlerDies, Idle
<1>10. CASE UNCHANGED vars
  BY <1>10, BooksQuiet DEF vars
<1> QED
  BY <1>1, <1>2, <1>3, <1>4, <1>5, <1>6, <1>7, <1>8, <1>9, <1>10 DEF Next, OneVoids

LEMMA BooksInit == Init => BooksInv
<1> SUFFICES ASSUME Init PROVE BooksInv
  OBVIOUS
<1>1. moves = <<>> /\ \A h \in Handlers : job[h].at # "void"
  BY DEF Init, Idle
<1>2. \A a \in Accounts : balance[a] = 0 /\ ledger[a] = 0
  BY DEF Init
<1>3. Total(moves, {}) = 0
  BY TotalIsSum, SumEmpty
<1>4. \A a \in Accounts : {i \in DOMAIN moves : moves[i].account = a /\ ~moves[i].voided} = {}
  BY <1>1
<1> QED
  BY <1>1, <1>2, <1>3, <1>4 DEF BooksInv, AccountsAddUp

\* As long as one person at a time voids movements and the desk voids no payments, the balance
\* kept with an account, the balance of its ledger account and the sum of its movements in force
\* agree, however many sales, transfers, events, counts and recoveries are posted at once
\* (recordCashMovement, voidCashMovement).
THEOREM CashAddsUp ==
    ASSUME OneVoids
    PROVE  Spec => []AccountsAddUp
<1>1. TillInv /\ BooksInv /\ [Next]_vars => BooksInv'
  BY BooksStep
<1>2. BooksInv => AccountsAddUp
  BY DEF BooksInv
<1> QED
  BY <1>1, <1>2, BooksInit, TillAlways, PTL DEF Spec
=============================================================================
