------------------------ MODULE RoomCapacity_proofs ------------------------
(***************************************************************************)
(* Proofs that the rooms suffice, for any rooms, carts and handlers: no    *)
(* night is sold more often than there are rooms of the type, and no room  *)
(* is given to two stays of one night.  Each theorem names what the code   *)
(* does not protect: who must be absent, or what no cart asks for.         *)
(***************************************************************************)
EXTENDS RoomInventory_proofs, Sums

MayCommit(h) == job[h].pc \in {"read", "readRooms", "readDates", "commit"}

(* A sale past its locks holds the key of every room type, and of every     *)
(* room picked by number, in its cart.                                      *)
CartsLocked ==
    \A h \in Sellers :
        /\ job[h].pc # "leave"
        /\ job[h].pc # "idle" => job[h].cart \in CartsOf(h)
        /\ job[h].pc = "lock" => job[h].locks \cup job[h].want = LocksOf(job[h].cart)
        /\ MayCommit(h) => job[h].locks = LocksOf(job[h].cart)

-----------------------------------------------------------------------------
(* What the steps of a sale do to its progress *)

LEMMA SaleOpened ==
    ASSUME TypeOK, NEW h \in Sellers, NEW cart \in CartsOf(h), SaleOpens(h, cart)
    PROVE  /\ job'[h].pc = "lock" /\ job'[h].cart = cart
           /\ job'[h].want = LocksOf(cart) /\ job'[h].locks = {}
           /\ \A g \in Sellers \ {h} : job'[g] = job[g]
<1> DEFINE r == [IdleJob EXCEPT !.pc = "lock", !.cart = cart, !.want = LocksOf(cart)]
<1>1. cart \in WebCarts \cup DeskCarts
  BY DEF CartsOf
<1>2. LocksOf(cart) \subseteq LockKeys
  BY <1>1, CartLocks
<1>3. r \in Job
  BY <1>1, <1>2, IdleJobIsJob DEF Job
<1>4. r.pc = "lock" /\ r.cart = cart /\ r.want = LocksOf(cart) /\ r.locks = {}
  BY DEF IdleJob
<1>5. Set(h, r)
  BY DEF SaleOpens
<1> HIDE DEF r
<1>6. job'[h] = r /\ \A g \in Sellers \ {h} : job'[g] = job[g]
  BY <1>3, <1>5, SetOwn DEF TypeOK, Handlers
<1> QED BY <1>4, <1>6

LEMMA LockTaken ==
    ASSUME TypeOK, LocksSound, NEW h \in Sellers, TakeLock(h)
    PROVE  /\ job[h].pc = "lock" /\ job'[h].pc \in {"lock", "read"}
           /\ job'[h].cart = job[h].cart
           /\ job'[h].locks \cup job'[h].want = job[h].locks \cup job[h].want
           /\ job'[h].pc = "read" => job'[h].want = {}
           /\ \A g \in Sellers \ {h} : job'[g] = job[g]
<1> DEFINE k == NextLock(h)
           r == [job[h] EXCEPT !.want = @ \ {k}, !.locks = @ \cup {k},
                     !.pc = IF job[h].want = {k} THEN "read" ELSE "lock"]
<1>0. job[h] \in Job /\ job \in [Handlers -> Job] /\ h \in Handlers /\ job[h].pc = "lock"
  BY DEF TypeOK, Handlers, TakeLock
<1>1. k \in job[h].want
  BY <1>0, NextLockIsFirst DEF LocksSound
<1>2. Set(h, r)
  BY DEF TakeLock
<1> HIDE DEF k
<1>3. r \in Job
  BY <1>0, <1>1 DEF Job
<1>4. /\ r.want = job[h].want \ {k} /\ r.locks = job[h].locks \cup {k}
      /\ r.cart = job[h].cart
      /\ r.pc \in {"lock", "read"} /\ (r.pc = "read" => job[h].want = {k})
  BY <1>0 DEF Job
<1> HIDE DEF r
<1>5. job'[h] = r /\ \A g \in Sellers \ {h} : job'[g] = job[g]
  BY <1>0, <1>2, <1>3, SetOwn DEF Handlers
<1> QED BY <1>0, <1>1, <1>4, <1>5

LEMMA CartPassed ==
    ASSUME TypeOK, NEW h \in Sellers, CartChecked(h)
    PROVE  /\ job[h].pc \in {"readRooms", "readDates"} /\ job'[h].pc = "commit"
           /\ job'[h].cart = job[h].cart /\ job'[h].locks = job[h].locks
           /\ \A g \in Sellers \ {h} : job'[g] = job[g]
<1>1. job[h] \in Job /\ job \in [Handlers -> Job] /\ h \in Handlers
  BY DEF TypeOK, Handlers
<1>2. job'[h] = [job[h] EXCEPT !.pc = "commit", !.seen = Unseen]
  BY <1>1 DEF CartChecked, Set
<1>3. job'[h].pc = "commit"
  BY <1>1, <1>2 DEF Job
<1> QED BY <1>3, SearchGoesOn DEF CartChecked, Handlers

(* The first statement of a search, and whose bookings it has seen.         *)
LEMMA SearchStarts ==
    ASSUME TypeOK, CartsLocked, NEW h \in Sellers, RowsRead(h)
    PROVE  /\ job[h].pc = "read" /\ job'[h].pc \in {"readRooms", "readDates"}
           /\ job'[h].cart = job[h].cart /\ job'[h].locks = job[h].locks
           /\ job'[h].pc = "readDates" => h \in Shoppers
           /\ job'[h].pc = "readRooms" => \A i \in DOMAIN job[h].cart :
                  job'[h].seen[i] = BlockingByDates(job[h].cart[i].type, job[h].cart[i])
           /\ \A g \in Sellers \ {h} : job'[g] = job[g]
           /\ UNCHANGED rows
<1> DEFINE cart == job[h].cart
           S == [i \in Lines |-> IF i \notin DOMAIN cart THEN {}
                                 ELSE BlockingByDates(cart[i].type, cart[i])]
<1>1. job[h] \in Job /\ job \in [Handlers -> Job] /\ h \in Handlers /\ job[h].pc = "read"
  BY DEF TypeOK, Handlers, RowsRead
<1>2. DOMAIN cart \subseteq Lines
  <2>1. cart \in WebCarts \cup DeskCarts
    BY <1>1 DEF CartsLocked, CartsOf
  <2> QED BY <2>1 DEF Lines
<1>3. CASE SeesDates(h)
  <2>1. job'[h] = [job[h] EXCEPT !.pc = "readRooms", !.seen = S]
    BY <1>1, <1>3 DEF SeesDates, Set
  <2> HIDE DEF S
  <2>2. job'[h].pc = "readRooms" /\ job'[h].seen = S
    BY <1>1, <2>1 DEF Job
  <2>3. \A i \in DOMAIN cart : S[i] = BlockingByDates(cart[i].type, cart[i])
    BY <1>2 DEF S
  <2> QED BY <1>1, <2>2, <2>3, SearchGoesOn DEF Handlers
<1>4. CASE h \in Shoppers /\ SeesRooms(h)
  <2> DEFINE T == [i \in Lines |-> IF i \notin DOMAIN cart THEN {}
                                   ELSE BlockingByRoom(cart[i].type, cart[i])]
  <2>1. job'[h] = [job[h] EXCEPT !.pc = "readDates", !.seen = T]
    BY <1>1, <1>4 DEF SeesRooms, Set
  <2> HIDE DEF T
  <2>2. job'[h].pc = "readDates"
    BY <1>1, <2>1 DEF Job
  <2> QED BY <1>1, <1>4, <2>2, SearchGoesOn DEF Handlers
<1> QED BY <1>3, <1>4 DEF RowsRead

(* Every other step drops what a seller was doing or leaves it alone.       *)
LEMMA SalesElsewhere ==
    ASSUME TypeOK, [Next]_vars
    PROVE  \/ \E h \in Sellers :
                 \/ \E cart \in CartsOf(h) : SaleOpens(h, cart)
                 \/ TakeLock(h) \/ RowsRead(h) \/ CartChecked(h)
           \/ \A h \in Sellers : job'[h] \in {job[h], IdleJob}
<1> DEFINE Apart == \A h \in Sellers : job'[h] \in {job[h], IdleJob}
<1> IdleJob \in Job /\ Sellers \subseteq Handlers /\ job \in [Handlers -> Job]
  BY IdleJobIsJob DEF Handlers, TypeOK
<1>1. ASSUME NEW h \in Handlers, Set(h, IdleJob) PROVE Apart
  BY <1>1, SetOwn
<1>2. ASSUME NEW h \in Handlers, h \notin Sellers, NEW r, Set(h, r) PROVE Apart
  BY <1>2 DEF Set
<1>3. ASSUME UNCHANGED job PROVE Apart
  BY <1>3
<1>4. ASSUME NEW h \in Sellers, CartRefused(h) \/ CartBooked(h) PROVE Apart
  BY <1>1, <1>4 DEF CartRefused, CartBooked
<1>5. ASSUME NEW h \in Handlers, HandlerFails(h) PROVE Apart
  BY <1>1, <1>5 DEF HandlerFails
<1>6. ASSUME NEW p \in Porters, CheckIn(p) \/ Departure(p) PROVE Apart
  <2>1. p \in Handlers /\ p \notin Sellers
    BY HandlersAssumption DEF Sellers, Handlers
  <2>2. PICK r : Set(p, r)
    BY <1>6 DEF CheckIn, Departure, CheckInReuses, CheckInPicks, CheckInCommits,
                CheckOutOpens, CheckOutCommits
  <2> QED BY <1>2, <2>1, <2>2
<1>7. ASSUME NEW m \in Movers, Move(m) PROVE Apart
  <2>1. m \in Handlers /\ m \notin Sellers
    BY HandlersAssumption DEF Sellers, Handlers
  <2>2. PICK r : Set(m, r)
    BY <1>7 DEF Move, MovePlanned, MoveCommits
  <2> QED BY <1>2, <2>1, <2>2
<1>8. ASSUME NEW o \in Overriders, Reinstate(o) PROVE Apart
  <2>1. o \in Handlers /\ o \notin Sellers
    BY HandlersAssumption DEF Sellers, Handlers
  <2>2. PICK r : Set(o, r)
    BY <1>8 DEF Reinstate, ReinstateChecked, Reinstated
  <2> QED BY <1>2, <2>1, <2>2
<1>9. ASSUME NEW b \in Bookings,
             PaymentConfirms(b) \/ HoldReleased(b) \/ CancelBooking(b) \/ MarkNoShow(b)
      PROVE  Apart
  BY <1>3, <1>9 DEF PaymentConfirms, HoldReleased, CancelBooking, MarkNoShow
<1>10. CASE NightPasses \/ UNCHANGED vars
  BY <1>3, <1>10 DEF NightPasses, vars
<1> HIDE DEF Apart
<1>11. CASE Next
  <2>1. ASSUME NEW h \in Sellers, Sale(h)
        PROVE  \/ \E cart \in CartsOf(h) : SaleOpens(h, cart)
               \/ TakeLock(h) \/ RowsRead(h) \/ CartChecked(h) \/ Apart
    BY <1>4, <2>1 DEF Sale, SaleAdvances
  <2> QED BY <1>5, <1>6, <1>7, <1>8, <1>9, <1>10, <1>11, <2>1 DEF Next, Apart
<1> QED BY <1>10, <1>11 DEF Apart

LEMMA CartsStep == TypeOK /\ LocksSound /\ CartsLocked /\ [Next]_vars => CartsLocked'
<1> SUFFICES ASSUME TypeOK, LocksSound, CartsLocked, [Next]_vars PROVE CartsLocked'
  OBVIOUS
<1>0. IdleJob.pc = "idle"
  BY DEF IdleJob
<1>1. ASSUME NEW h \in Sellers, NEW cart \in CartsOf(h), SaleOpens(h, cart)
      PROVE  CartsLocked'
  BY <1>1, SaleOpened DEF CartsLocked, MayCommit
<1>2. ASSUME NEW h \in Sellers, TakeLock(h) PROVE CartsLocked'
  BY <1>2, LockTaken DEF CartsLocked, MayCommit
<1>3. ASSUME NEW h \in Sellers, CartChecked(h) PROVE CartsLocked'
  BY <1>3, CartPassed DEF CartsLocked, MayCommit
<1>4. ASSUME NEW h \in Sellers, RowsRead(h) PROVE CartsLocked'
  BY <1>4, SearchStarts DEF CartsLocked, MayCommit
<1>5. CASE \A h \in Sellers : job'[h] \in {job[h], IdleJob}
  BY <1>0, <1>5 DEF CartsLocked, MayCommit
<1> QED BY <1>1, <1>2, <1>3, <1>4, <1>5, SalesElsewhere

(* Two sales that are past their locks sell different room types.           *)
LEMMA TypesApart ==
    ASSUME TypeOK, LocksSound, CartsLocked,
           NEW g \in Sellers, NEW h \in Sellers, g # h, MayCommit(g), MayCommit(h),
           NEW i \in DOMAIN job[g].cart, NEW j \in DOMAIN job[h].cart
    PROVE  job[g].cart[i].type # job[h].cart[j].type
<1>1. job[g].cart[i].type \in job[g].locks
  BY DEF CartsLocked, LocksOf
<1>2. job[h].cart[j].type \in job[h].locks
  BY DEF CartsLocked, LocksOf
<1> QED BY <1>1, <1>2 DEF LocksSound

-----------------------------------------------------------------------------
(* What the rooms of a cart need, and what the bookings have *)

(* Outside the sale: nobody changes dates or reinstates (both look at the   *)
(* rooms under no lock that a sale takes), a booking is not cancelled while *)
(* a check-in of it is under way (the check-in writes by id alone), and no  *)
(* booking is checked in between the two statements of a guest's search.    *)
NobodyElseBooks ==
    /\ Movers = {} /\ Overriders = {}
    /\ Porters = {} \/ (Clerks = {} /\ Shoppers = {})

(* Lines of one cart that ask for the same room type: on the site those of  *)
(* common nights have equal dates, as only such are added up; at the desk,  *)
(* where nothing is added up, they have no night in common.                 *)
CartsApart ==
    /\ \A cart \in WebCarts : \A i, j \in DOMAIN cart :
          cart[i].type = cart[j].type /\ Overlap(cart[i], cart[j]) =>
              cart[i].from = cart[j].from /\ cart[i].to = cart[j].to
    /\ \A cart \in DeskCarts : \A i, j \in DOMAIN cart :
          cart[i].type = cart[j].type /\ Overlap(cart[i], cart[j]) => i = j

Need(h, cart, i) == IF h \in Shoppers THEN Wanted(cart, i) ELSE cart[i].count

Covers(dates, night) == dates.from <= night /\ night < dates.to

SameDates(a, b) == a.from = b.from /\ a.to = b.to

(* What a sale that passed its check needs is still there when it commits.  *)
CommitsFit ==
    \A h \in Sellers : \A cart \in CartsOf(h) :
        job[h].pc = "commit" /\ job[h].cart = cart =>
            \A i \in DOMAIN cart, night \in 1 .. LastNight :
                Covers(cart[i], night) =>
                    Cardinality(InHouse(cart[i].type, night)) + Need(h, cart, i)
                        <= Cardinality(RoomsOf(cart[i].type))

BookedAsAssigned ==
    \A b \in Bookings : PreAssigned(b) => SameDates(assigned[b], stay[b])

(* What a check-in or a check-out has read is still so when it writes.      *)
PortersKnow ==
    \A p \in Porters : \A b \in job[p].on :
        /\ job[p].pc = "commit" =>
              /\ status[b] = "confirmed"
              /\ job[p].room # NoRoom => SameDates(job[p].to, stay[b])
        /\ job[p].pc = "leave" => status[b] \in {"checked_in", "checked_out"}

(* Half-way through its search a sale has seen all bookings of its types    *)
(* that are not checked in, if those were read first: nobody else sells the *)
(* types, and a booking only leaves.  Only a guest's search may have read   *)
(* the rooms first, and nobody is in them then.                             *)
SearchCovers ==
    /\ \A h \in Sellers :
          /\ job[h].pc = "readDates" => h \in Shoppers
          /\ job[h].pc = "readRooms" => \A i \in DOMAIN job[h].cart :
                BlockingByDates(job[h].cart[i].type, job[h].cart[i]) \subseteq job[h].seen[i]
    /\ Porters = {} => \A b \in Bookings : ~Assigned(b)

CapacityInv ==
    /\ CartsLocked /\ CommitsFit /\ BookedAsAssigned /\ PortersKnow
    /\ SearchCovers /\ NoOverbooking

LEMMA CartLines ==
    ASSUME NEW h \in Sellers, NEW cart \in CartsOf(h)
    PROVE  IsFiniteSet(DOMAIN cart) /\ \A i \in DOMAIN cart : cart[i] \in Line
<1>1. cart \in WebCarts \cup DeskCarts
  BY DEF CartsOf
<1> QED BY <1>1, CartsAssumption

(* The sum of the lines that Wanted adds up, as a Sum. *)
LEMMA CountsSummed ==
    ASSUME NEW cart, NEW J
    PROVE  MapThenSumSet(LAMBDA j : cart[j].count, J) = Sum([j \in J |-> cart[j].count], J)
<1> DEFINE v == [j \in J |-> cart[j].count]
           F(sum) == [T \in SUBSET J |-> IF T = {} THEN 0
                         ELSE cart[CHOOSE x \in T : TRUE].count
                                + sum[T \ {CHOOSE x \in T : TRUE}]]
<1>1. ASSUME NEW sum
      PROVE  F(sum) = [T \in SUBSET J |-> IF T = {} THEN 0
                          ELSE v[Pick(T)] + sum[T \ {Pick(T)}]]
  <2>1. ASSUME NEW T \in SUBSET J, T # {}
        PROVE  v[Pick(T)] = cart[CHOOSE x \in T : TRUE].count
    BY <2>1, PickIn DEF Pick
  <2> QED BY <2>1 DEF Pick
<1> DEFINE c == CHOOSE sum : sum = F(sum)
           d == CHOOSE sum : Adds(v, J, sum)
<1>2. c = d
  <2>1. \A sum : sum = F(sum) <=> Adds(v, J, sum)
    BY <1>1, Zenon DEF Adds
  <2> HIDE DEF F, v
  <2> QED BY <2>1, Zenon
<1>3. MapThenSumSet(LAMBDA j : cart[j].count, J) = c[J]
  BY Zenon DEF MapThenSumSet, MapThenFoldSet
<1>4. Sum(v, J) = d[J]
  BY Zenon DEF Sum
<1> QED BY <1>2, <1>3, <1>4, Zenon

LEMMA NeedIsInt ==
    ASSUME NEW h \in Sellers, NEW cart \in CartsOf(h), NEW i \in DOMAIN cart
    PROVE  Need(h, cart, i) \in Int
<1>0. IsFiniteSet(DOMAIN cart) /\ \A j \in DOMAIN cart : cart[j] \in Line
  BY CartLines
<1> DEFINE J == {j \in DOMAIN cart : /\ cart[j].type = cart[i].type
                                     /\ cart[j].from = cart[i].from
                                     /\ cart[j].to = cart[i].to}
           v == [j \in J |-> cart[j].count]
<1>1. IsFiniteSet(J)
  BY <1>0, FS_Subset
<1>2. \A j \in DOMAIN cart : cart[j].count \in Int
  BY <1>0 DEF Line
<1>3. \A j \in J : v[j] \in Int
  BY <1>2
<1>4. Wanted(cart, i) = Sum(v, J)
  <2> HIDE DEF J
  <2> QED BY CountsSummed DEF Wanted, J
<1> HIDE DEF J, v
<1>5. Sum(v, J) \in Int
  BY <1>1, <1>3, SumType
<1> QED BY <1>2, <1>4, <1>5 DEF Need

(* Carts and the rooms they ask for are no part of the state. *)
LEMMA NeedIsRigid ==
    \A h \in Sellers : \A cart \in CartsOf(h) : \A i \in DOMAIN cart :
        Need(h, cart, i)' = Need(h, cart, i)
BY Zenon DEF Need, Wanted, MapThenSumSet, MapThenFoldSet

(* As many rows are made as the lines they come from say. *)
LEMMA RowsOfLines ==
    ASSUME NEW made, IsFiniteSet(made), NEW J, IsFiniteSet(J), NEW f, NEW v,
           \A j \in J : v[j] \in Nat /\ Cardinality({b \in made : f[b] = j}) = v[j]
    PROVE  Cardinality({b \in made : f[b] \in J}) = Sum(v, J)
<1> DEFINE RowsIn(K) == {b \in made : f[b] \in K}
           C == {K \in SUBSET J : Cardinality(RowsIn(K)) # Sum(v, K)}
<1> SUFFICES ASSUME C # {} PROVE FALSE
  <2>1. J \notin C
    OBVIOUS
  <2> QED BY <2>1
<1>1. PICK K \in C : \A U \in C : U \subseteq K => U = K
  <2>1. C \in SUBSET SUBSET J
    OBVIOUS
  <2> HIDE DEF C
  <2> QED BY <2>1, SmallestSet
<1>2. K \in SUBSET J /\ Cardinality(RowsIn(K)) # Sum(v, K) /\ IsFiniteSet(K)
  BY FS_Subset
<1>3. K # {}
  <2>1. RowsIn({}) = {}
    OBVIOUS
  <2> HIDE DEF RowsIn
  <2> QED BY <1>2, <2>1, FS_EmptySet, SumEmpty
<1> DEFINE p == Pick(K)
           L == K \ {p}
<1>4. p \in K
  BY <1>3, PickIn
<1>5. Sum(v, K) = v[p] + Sum(v, L)
  BY <1>2, <1>3, SumUnfolds
<1> HIDE DEF p
<1>6. L \in SUBSET J /\ L \notin C
  BY <1>1, <1>2, <1>4
<1>7. Cardinality(RowsIn(L)) = Sum(v, L)
  BY <1>6
<1> DEFINE P == {b \in made : f[b] = p}
<1>8. RowsIn(K) = RowsIn(L) \cup P /\ RowsIn(L) \cap P = {}
  BY <1>4
<1>9. IsFiniteSet(RowsIn(L)) /\ IsFiniteSet(P)
  <2>1. RowsIn(L) \in SUBSET made /\ P \in SUBSET made
    OBVIOUS
  <2> HIDE DEF RowsIn, P
  <2> QED BY <2>1, FS_Subset
<1>10. Cardinality(P) = v[p] /\ v[p] \in Nat
  BY <1>2, <1>4
<1> HIDE DEF RowsIn, P, L, C
<1>11. Cardinality(RowsIn(K)) = Cardinality(RowsIn(L)) + Cardinality(P)
  <2>1. Cardinality(RowsIn(L) \cup P)
           = Cardinality(RowsIn(L)) + Cardinality(P) - Cardinality(RowsIn(L) \cap P)
    BY <1>9, FS_Union
  <2>2. Cardinality(RowsIn(L)) \in Nat /\ Cardinality(P) \in Nat
    BY <1>9, FS_CardinalityType
  <2>3. Cardinality(RowsIn(L) \cap P) = 0
    BY <1>8, FS_EmptySet
  <2> QED BY <1>8, <2>1, <2>2, <2>3
<1>12. Cardinality(RowsIn(L)) \in Nat
  BY <1>9, FS_CardinalityType
<1> QED BY <1>2, <1>5, <1>7, <1>10, <1>11, <1>12

LEMMA HousesFinite ==
    ASSUME NEW type, NEW night
    PROVE  /\ IsFiniteSet(InHouse(type, night)) /\ IsFiniteSet(RoomsOf(type))
           /\ Cardinality(InHouse(type, night)) \in Nat
           /\ Cardinality(RoomsOf(type)) \in Nat
<1>1. InHouse(type, night) \in SUBSET Bookings /\ RoomsOf(type) \in SUBSET Rooms
  BY DEF InHouse, RoomsOf
<1>2. IsFiniteSet(InHouse(type, night)) /\ IsFiniteSet(RoomsOf(type))
  BY <1>1, RoomsAssumption, FS_Subset
<1> QED BY <1>2, FS_CardinalityType

(* Whoever has a room on a night of the dates is found by one statement.    *)
LEMMA InHouseIsBlocking ==
    ASSUME TypeOK, NEW span \in Line, NEW night \in 1 .. LastNight, Covers(span, night),
           NEW b \in InHouse(span.type, night)
    PROVE  \/ b \in BlockingByDates(span.type, span)
           \/ b \in BlockingByRoom(span.type, span)
<1>1. span.from \in Nat /\ span.to \in Nat
  BY RoomsAssumption DEF Line, Dates
<1>2. b \in Bookings /\ stay[b].type = span.type
  BY DEF InHouse
<1>3. /\ stay[b].from \in Nat /\ stay[b].to \in Nat
      /\ assigned[b].from \in Nat /\ assigned[b].to \in Nat /\ today \in Nat
  BY <1>2, RoomsAssumption DEF TypeOK, Stay, Dates
<1>4. CASE PreAssigned(b) /\ stay[b].from <= night /\ night < stay[b].to
  BY <1>1, <1>2, <1>3, <1>4 DEF BlockingByDates, Overlap, Covers
<1>5. CASE Assigned(b) /\ assigned[b].from <= night /\ night < assigned[b].to
  BY <1>1, <1>2, <1>3, <1>5 DEF BlockingByRoom, InventoryHeldUntil, Covers
<1> QED BY <1>4, <1>5 DEF InHouse

-----------------------------------------------------------------------------
(* What a step does to the rows *)

(* All that happens to a booking once it exists.                            *)
RowMoves(b) ==
    \/ status'[b] = status[b] /\ stay'[b] = stay[b] /\ assigned'[b] = assigned[b]
    \/ /\ PreAssigned(b) /\ status'[b] \in {"confirmed", "cancelled", "no_show"}
       /\ stay'[b] = stay[b] /\ assigned'[b] = assigned[b]
    \/ /\ Porters # {} /\ status[b] = "confirmed" /\ status'[b] = "checked_in"
       /\ stay'[b] = stay[b] /\ SameDates(assigned'[b], stay[b])
    \/ /\ Assigned(b) /\ status'[b] = "checked_out" /\ stay'[b] = stay[b]
       /\ assigned'[b].from = assigned[b].from /\ assigned'[b].to <= assigned[b].to

LEMMA RowsMove ==
    ASSUME NobodyElseBooks, TypeOK, BookedAsAssigned, PortersKnow, [Next]_vars
    PROVE  \/ \E h \in Sellers : CartBooked(h)
           \/ \A b \in Bookings : RowMoves(b)
<1> DEFINE Moves == \A b \in Bookings : RowMoves(b)
<1>1. ASSUME UNCHANGED rows PROVE Moves
  BY <1>1 DEF rows, RowMoves
<1>2. ASSUME NEW b \in Bookings,
             PaymentConfirms(b) \/ HoldReleased(b) \/ CancelBooking(b) \/ MarkNoShow(b)
      PROVE  Moves
  <2> SUFFICES ASSUME NEW c \in Bookings PROVE RowMoves(c)
    OBVIOUS
  <2>1. UNCHANGED <<stay, assigned>>
    BY <1>2 DEF PaymentConfirms, HoldReleased, CancelBooking, MarkNoShow
  <2>2. \/ status'[c] = status[c]
        \/ PreAssigned(c) /\ status'[c] \in {"confirmed", "cancelled", "no_show"}
    BY <1>2 DEF PaymentConfirms, HoldReleased, CancelBooking, MarkNoShow, TypeOK, PreAssigned
  <2> QED BY <2>1, <2>2 DEF RowMoves
<1>3. ASSUME NEW p \in Porters, CheckInCommits(p) PROVE Moves
  <2> SUFFICES ASSUME NEW b \in Bookings, b \in job[p].on PROVE RowMoves(b)
    BY <1>3 DEF CheckInCommits, RowMoves
  <2>1. status[b] = "confirmed" /\ (job[p].room # NoRoom => SameDates(job[p].to, stay[b]))
    BY <1>3 DEF PortersKnow, CheckInCommits
  <2>2. SameDates(assigned[b], stay[b])
    BY <2>1 DEF BookedAsAssigned, PreAssigned
  <2>3. status'[b] = "checked_in" /\ stay'[b] = stay[b]
    BY <1>3 DEF CheckInCommits
  <2>4. SameDates(assigned'[b], stay[b])
    BY <1>3, <2>1, <2>2 DEF CheckInCommits, SameDates
  <2> QED BY <2>1, <2>3, <2>4 DEF RowMoves
<1>4. ASSUME NEW p \in Porters, CheckOutCommits(p) PROVE Moves
  <2> SUFFICES ASSUME NEW b \in Bookings, b \in job[p].on PROVE RowMoves(b)
    BY <1>4 DEF CheckOutCommits, RowMoves
  <2>1. Assigned(b)
    BY <1>4 DEF PortersKnow, CheckOutCommits, Assigned
  <2>2. status'[b] = "checked_out" /\ stay'[b] = stay[b]
    BY <1>4 DEF CheckOutCommits
  <2>3. /\ assigned[b] \in [room : Rooms \cup {NoRoom}, from : Dates, to : Dates]
        /\ assigned[b].to \in Nat /\ today \in Nat
    BY RoomsAssumption DEF TypeOK, Dates
  <2>4. assigned'[b] = assigned[b] \/ (assigned'[b] = [assigned[b] EXCEPT !.to = today]
                                         /\ today < assigned[b].to)
    BY <1>4 DEF CheckOutCommits
  <2>5. assigned'[b].from = assigned[b].from /\ assigned'[b].to <= assigned[b].to
    BY <2>3, <2>4
  <2> QED BY <2>1, <2>2, <2>5 DEF RowMoves
<1>5. ASSUME NEW p \in Porters, CheckIn(p) \/ Departure(p) PROVE Moves
  <2>1. CASE UNCHANGED rows
    BY <1>1, <2>1
  <2> QED BY <1>3, <1>4, <1>5, <2>1
       DEF CheckIn, Departure, CheckInReuses, CheckInPicks, CheckOutOpens
<1>6. ASSUME NEW h \in Sellers, Sale(h) PROVE CartBooked(h) \/ Moves
  <2>1. CartBooked(h) \/ UNCHANGED rows
    BY <1>6 DEF Sale, SaleAdvances, SaleOpens, TakeLock, RowsRead, SeesDates, SeesRooms,
                CartChecked, CartRefused
  <2> QED BY <1>1, <2>1
<1>7. ASSUME NEW h \in Handlers, HandlerFails(h) PROVE Moves
  BY <1>1, <1>7 DEF HandlerFails
<1>8. ASSUME NightPasses \/ UNCHANGED vars PROVE Moves
  <2>1. UNCHANGED rows
    BY <1>8 DEF NightPasses, vars
  <2> QED BY <1>1, <2>1
<1> HIDE DEF Moves
<1>9. CASE Next
  <2>1. Movers = {} /\ Overriders = {}
    BY DEF NobodyElseBooks
  <2>2. Moves \/ \E h \in Sellers : Sale(h)
    BY <1>2, <1>5, <1>7, <1>8, <1>9, <2>1 DEF Next
  <2>3. Moves \/ \E h \in Sellers : CartBooked(h)
    BY <1>6, <2>2
  <2> QED BY <2>3 DEF Moves
<1> QED BY <1>8, <1>9 DEF Moves

(* No booking then gets a night it did not have. *)
LEMMA HousesShrink ==
    ASSUME TypeOK, TypeOK', \A b \in Bookings : RowMoves(b), BookedAsAssigned,
           NEW type \in Types, NEW night \in 1 .. LastNight
    PROVE  InHouse(type, night)' \subseteq InHouse(type, night)
<1> SUFFICES ASSUME NEW b \in Bookings, b \in InHouse(type, night)'
             PROVE  b \in InHouse(type, night)
  BY DEF InHouse
<1>1. stay'[b] = stay[b] /\ stay[b].type = type
  BY DEF InHouse, RowMoves
<1>2. assigned[b].to \in Int /\ assigned'[b].to \in Int
  BY RoomsAssumption DEF TypeOK, Dates
<1>3. CASE status'[b] = status[b] /\ stay'[b] = stay[b] /\ assigned'[b] = assigned[b]
  BY <1>3 DEF InHouse, PreAssigned, Assigned
<1>4. CASE /\ PreAssigned(b) /\ status'[b] \in {"confirmed", "cancelled", "no_show"}
           /\ stay'[b] = stay[b] /\ assigned'[b] = assigned[b]
  BY <1>4 DEF InHouse, PreAssigned, Assigned
<1>5. CASE /\ status[b] = "confirmed" /\ status'[b] = "checked_in"
           /\ stay'[b] = stay[b] /\ SameDates(assigned'[b], stay[b])
  BY <1>1, <1>5 DEF InHouse, PreAssigned, Assigned, SameDates
<1>6. CASE /\ Assigned(b) /\ status'[b] = "checked_out" /\ stay'[b] = stay[b]
           /\ assigned'[b].from = assigned[b].from /\ assigned'[b].to <= assigned[b].to
  <2>1. assigned'[b].from <= night /\ night < assigned'[b].to
    BY <1>6 DEF InHouse, PreAssigned, Assigned
  <2>2. assigned[b].from <= night /\ night < assigned[b].to
    BY <1>2, <1>6, <2>1
  <2> QED BY <1>1, <1>6, <2>2 DEF InHouse
<1> QED BY <1>3, <1>4, <1>5, <1>6 DEF RowMoves

LEMMA CapacityKept ==
    ASSUME TypeOK, TypeOK', CartsLocked, CommitsFit, NoOverbooking, BookedAsAssigned,
           \A b \in Bookings : RowMoves(b),
           \A h \in Sellers : job'[h].pc = "commit" => job'[h] = job[h]
    PROVE  CommitsFit' /\ NoOverbooking'
<1>1. ASSUME NEW type \in Types, NEW night \in 1 .. LastNight
      PROVE  /\ Cardinality(InHouse(type, night)') <= Cardinality(InHouse(type, night))
             /\ Cardinality(InHouse(type, night)') \in Nat
             /\ Cardinality(InHouse(type, night)) \in Nat
             /\ Cardinality(RoomsOf(type)) \in Nat
  <2>1. InHouse(type, night)' \in SUBSET InHouse(type, night)
    BY HousesShrink
  <2>2. /\ IsFiniteSet(InHouse(type, night)) /\ Cardinality(InHouse(type, night)) \in Nat
        /\ Cardinality(RoomsOf(type)) \in Nat
    BY HousesFinite
  <2>3. /\ IsFiniteSet(InHouse(type, night)')
        /\ Cardinality(InHouse(type, night)') <= Cardinality(InHouse(type, night))
    BY <2>1, <2>2, FS_Subset
  <2> QED BY <2>2, <2>3, FS_CardinalityType
<1>2. NoOverbooking'
  <2> SUFFICES ASSUME NEW type \in Types, NEW night \in 1 .. LastNight
               PROVE  Cardinality(InHouse(type, night)') <= Cardinality(RoomsOf(type))
    BY DEF NoOverbooking, RoomsOf
  <2>1. Cardinality(InHouse(type, night)) <= Cardinality(RoomsOf(type))
    BY DEF NoOverbooking
  <2> QED BY <1>1, <2>1
<1>3. CommitsFit'
  <2> SUFFICES ASSUME NEW h \in Sellers, NEW cart \in CartsOf(h),
                      job'[h].pc = "commit", job'[h].cart = cart,
                      NEW i \in DOMAIN cart, NEW night \in 1 .. LastNight,
                      Covers(cart[i], night)
               PROVE  Cardinality(InHouse(cart[i].type, night)') + Need(h, cart, i)
                        <= Cardinality(RoomsOf(cart[i].type))
    BY NeedIsRigid DEF CommitsFit, CartsOf, Covers, RoomsOf
  <2> DEFINE type == cart[i].type
  <2>1. type \in Types /\ Need(h, cart, i) \in Int
    BY CartLines, NeedIsInt DEF Line
  <2>2. Cardinality(InHouse(type, night)) + Need(h, cart, i) <= Cardinality(RoomsOf(type))
    BY DEF CommitsFit
  <2> HIDE DEF type
  <2>3. /\ Cardinality(InHouse(type, night)') <= Cardinality(InHouse(type, night))
        /\ Cardinality(InHouse(type, night)') \in Nat
        /\ Cardinality(InHouse(type, night)) \in Nat
        /\ Cardinality(RoomsOf(type)) \in Nat
    BY <1>1, <2>1
  <2>4. Cardinality(InHouse(type, night)') + Need(h, cart, i) <= Cardinality(RoomsOf(type))
    BY <2>1, <2>2, <2>3
  <2> QED BY <2>4 DEF type
<1> QED BY <1>2, <1>3

LEMMA AvailableIsInt ==
    ASSUME TypeOK, CartsLocked, NEW h \in Sellers,
           job[h].pc \in {"readRooms", "readDates"}, NEW i \in DOMAIN job[h].cart
    PROVE  /\ job[h].cart[i] \in Line
           /\ IsFiniteSet(job[h].seen[i])
           /\ IsFiniteSet(RowsLast(h, job[h].cart[i].type, job[h].cart[i]))
           /\ Available(h, i) \in Int
<1> DEFINE line == job[h].cart[i]
<1>1. line \in Line /\ i \in Lines
  <2>1. job[h].cart \in CartsOf(h)
    BY DEF CartsLocked
  <2> QED BY <2>1, CartLines DEF CartsOf, Lines
<1>2. job[h].seen[i] \in SUBSET Bookings
  <2>1. job[h] \in Job
    BY DEF TypeOK, Handlers
  <2> QED BY <1>1, <2>1 DEF Job
<1>3. RowsLast(h, line.type, line) \in SUBSET Bookings
  BY DEF RowsLast, BlockingByDates, BlockingByRoom
<1>4. IsFiniteSet(job[h].seen[i]) /\ IsFiniteSet(RowsLast(h, line.type, line))
  BY <1>2, <1>3, RoomsAssumption, FS_Subset
<1>5. Cardinality(RoomsOf(line.type)) \in Nat
  BY HousesFinite
<1>6. /\ Cardinality(job[h].seen[i]) \in Nat
      /\ Cardinality(RowsLast(h, line.type, line)) \in Nat
  BY <1>4, FS_CardinalityType
<1> QED BY <1>1, <1>4, <1>5, <1>6 DEF Available

(* Whatever the order of the two statements, they count every guest.        *)
LEMMA SearchCounts ==
    ASSUME NobodyElseBooks, TypeOK, CartsLocked, SearchCovers, NEW h \in Sellers,
           job[h].pc \in {"readRooms", "readDates"}, NEW i \in DOMAIN job[h].cart,
           NEW night \in 1 .. LastNight, Covers(job[h].cart[i], night)
    PROVE  Cardinality(InHouse(job[h].cart[i].type, night)) + Available(h, i)
              <= Cardinality(RoomsOf(job[h].cart[i].type))
<1> DEFINE line == job[h].cart[i]
           first == job[h].seen[i]
           last == RowsLast(h, line.type, line)
<1>1. line \in Line /\ IsFiniteSet(first) /\ IsFiniteSet(last)
  BY AvailableIsInt
<1>4. InHouse(line.type, night) \subseteq first \cup last
  <2> SUFFICES ASSUME NEW b \in InHouse(line.type, night) PROVE b \in first \cup last
    OBVIOUS
  <2>1. \/ b \in BlockingByDates(line.type, line)
        \/ b \in BlockingByRoom(line.type, line)
    BY <1>1, InHouseIsBlocking
  <2>2. CASE job[h].pc = "readRooms"
    <3>1. BlockingByDates(line.type, line) \subseteq first
      BY <2>2 DEF SearchCovers
    <3> QED BY <2>1, <2>2, <3>1 DEF RowsLast
  <2>3. CASE job[h].pc = "readDates"
    <3>1. Porters = {}
      BY <2>3 DEF SearchCovers, NobodyElseBooks
    <3>2. b \notin BlockingByRoom(line.type, line)
      BY <3>1 DEF SearchCovers, BlockingByRoom
    <3> QED BY <2>1, <2>3, <3>2 DEF RowsLast
  <2> QED BY <2>2, <2>3
<1>5. Available(h, i) = Cardinality(RoomsOf(line.type)) - Cardinality(first) - Cardinality(last)
  BY DEF Available
<1>6. Cardinality(InHouse(line.type, night)) \in Nat /\ Cardinality(RoomsOf(line.type)) \in Nat
  BY HousesFinite
<1> HIDE DEF first, last
<1>7. /\ IsFiniteSet(first \cup last)
      /\ Cardinality(first \cup last)
           = Cardinality(first) + Cardinality(last) - Cardinality(first \cap last)
      /\ Cardinality(first) \in Nat /\ Cardinality(last) \in Nat
      /\ Cardinality(first \cap last) \in Nat /\ Cardinality(first \cup last) \in Nat
  BY <1>1, FS_Union, FS_Intersection, FS_CardinalityType
<1>8. Cardinality(InHouse(line.type, night)) <= Cardinality(first \cup last)
  BY <1>4, <1>7, FS_Subset
<1> DEFINE a == Cardinality(InHouse(line.type, night))
           c == Cardinality(RoomsOf(line.type))
<1>9. a + Available(h, i) <= c
  BY <1>5, <1>6, <1>7, <1>8
<1> QED BY <1>9

(* The check of the availability: what it lets through fits.                *)
LEMMA CheckedFits ==
    ASSUME NobodyElseBooks, TypeOK, CartsLocked, CommitsFit, SearchCovers,
           NEW h \in Sellers, CartChecked(h)
    PROVE  CommitsFit'
<1> SUFFICES ASSUME NEW g \in Sellers, NEW cart \in CartsOf(g),
                    job'[g].pc = "commit", job'[g].cart = cart,
                    NEW i \in DOMAIN cart, NEW night \in 1 .. LastNight,
                    Covers(cart[i], night)
             PROVE  Cardinality(InHouse(cart[i].type, night)') + Need(g, cart, i)
                      <= Cardinality(RoomsOf(cart[i].type))
  BY NeedIsRigid DEF CommitsFit, CartsOf, Covers, RoomsOf
<1> DEFINE type == cart[i].type
<1>1. InHouse(type, night)' = InHouse(type, night)
  BY DEF CartChecked, rows, InHouse, PreAssigned, Assigned
<1>2. CASE g # h
  <2>1. job'[g] = job[g]
    BY <1>2, CartPassed
  <2>2. Cardinality(InHouse(type, night)) + Need(g, cart, i) <= Cardinality(RoomsOf(type))
    BY <2>1 DEF CommitsFit
  <2> HIDE DEF type
  <2>3. Cardinality(InHouse(type, night)') + Need(g, cart, i) <= Cardinality(RoomsOf(type))
    BY <1>1, <2>2
  <2> QED BY <2>3 DEF type
<1>3. CASE g = h
  <2>1. job[h].cart = cart /\ job[h].pc \in {"readRooms", "readDates"}
    BY <1>3, CartPassed
  <2>2. Need(h, cart, i) \in Int /\ Available(h, i) \in Int
    <3>1. Need(h, cart, i) \in Int
      BY <1>3, NeedIsInt
    <3>2. Available(h, i) \in Int
      BY <2>1, AvailableIsInt
    <3> QED BY <3>1, <3>2
  <2>3. Need(h, cart, i) <= Available(h, i)
    <3>1. CASE h \in Shoppers
      BY <2>1, <3>1, HandlersAssumption DEF CartChecked, WebCartFits, Need
    <3>2. CASE h \notin Shoppers
      BY <2>1, <3>2 DEF CartChecked, DeskCartFits, Need
    <3> QED BY <3>1, <3>2
  <2>4. Cardinality(InHouse(type, night)) + Available(h, i) <= Cardinality(RoomsOf(type))
    BY <2>1, SearchCounts
  <2> HIDE DEF type
  <2>5. Cardinality(InHouse(type, night)) \in Nat /\ Cardinality(RoomsOf(type)) \in Nat
    BY HousesFinite
  <2>6. Cardinality(InHouse(type, night)) + Need(h, cart, i) <= Cardinality(RoomsOf(type))
    BY <2>2, <2>3, <2>4, <2>5
  <2>7. Cardinality(InHouse(type, night)') + Need(g, cart, i) <= Cardinality(RoomsOf(type))
    BY <1>1, <1>3, <2>6
  <2> QED BY <2>7 DEF type
<1> QED BY <1>2, <1>3

-----------------------------------------------------------------------------
(* The sale itself *)

(* The rows it writes: those in `made`, of the lines f says.                *)
RowsWritten(h, cart, made, f, r) ==
    /\ made \subseteq {b \in Bookings : status[b] = "none"}
    /\ f \in [made -> DOMAIN cart] /\ r \in [made -> Rooms \cup {NoRoom}]
    /\ Placement(cart, f, r)
    /\ \A b \in Bookings \ made :
          status'[b] = status[b] /\ stay'[b] = stay[b] /\ assigned'[b] = assigned[b]
    /\ \A b \in made :
          /\ status'[b] = IF h \in Shoppers THEN "pending_payment" ELSE "confirmed"
          /\ stay'[b].type = cart[f[b]].type
          /\ SameDates(stay'[b], cart[f[b]]) /\ SameDates(assigned'[b], cart[f[b]])
          /\ assigned'[b].room = r[b]

LEMMA CartWritten ==
    ASSUME TypeOK, CartsLocked, NEW h \in Sellers, CartBooked(h)
    PROVE  /\ job[h].pc = "commit" /\ job[h].cart \in CartsOf(h)
           /\ job'[h].pc = "idle" /\ \A g \in Sellers \ {h} : job'[g] = job[g]
           /\ \E made, f, r : RowsWritten(h, job[h].cart, made, f, r)
<1>1. job[h].pc = "commit" /\ job[h].cart \in CartsOf(h)
  BY DEF CartBooked, CartsLocked
<1>2. job'[h].pc = "idle" /\ \A g \in Sellers \ {h} : job'[g] = job[g]
  <2>1. Set(h, IdleJob) /\ job \in [Handlers -> Job] /\ Sellers \subseteq Handlers
    BY DEF CartBooked, TypeOK, Handlers
  <2>2. job'[h] = IdleJob /\ \A g \in Sellers \ {h} : job'[g] = job[g]
    BY <2>1, IdleJobIsJob, SetOwn
  <2> QED BY <2>2 DEF IdleJob
<1> DEFINE Written(made, f, r) ==
        LET line(b) == job[h].cart[f[b]] IN
        /\ Placement(job[h].cart, f, r)
        /\ status' = [b \in Bookings |-> IF b \notin made THEN status[b]
                        ELSE IF h \in Shoppers THEN "pending_payment" ELSE "confirmed"]
        /\ stay' = [b \in Bookings |-> IF b \notin made THEN stay[b]
                      ELSE [type |-> line(b).type, from |-> line(b).from, to |-> line(b).to]]
        /\ assigned' = [b \in Bookings |-> IF b \notin made THEN assigned[b]
                          ELSE [room |-> r[b], from |-> line(b).from, to |-> line(b).to]]
<1>3. PICK made \in SUBSET {b \in Bookings : status[b] = "none"} :
         \E f \in [made -> DOMAIN job[h].cart], r \in [made -> Rooms \cup {NoRoom}] :
            Written(made, f, r)
  BY DEF CartBooked
<1>4. PICK f \in [made -> DOMAIN job[h].cart], r \in [made -> Rooms \cup {NoRoom}] :
         Written(made, f, r)
  BY <1>3
<1>5. RowsWritten(h, job[h].cart, made, f, r)
  BY <1>4 DEF RowsWritten, SameDates
<1> QED BY <1>1, <1>2, <1>5

(* The bookings it adds to a night, and that they are no more than needed.  *)
LEMMA RoomsAdded ==
    ASSUME TypeOK, CartsApart, NEW h \in Sellers, NEW cart \in CartsOf(h),
           NEW made, NEW f, NEW r, RowsWritten(h, cart, made, f, r),
           NEW i \in DOMAIN cart, NEW night \in 1 .. LastNight, Covers(cart[i], night)
    PROVE  Cardinality(InHouse(cart[i].type, night)')
              = Cardinality(InHouse(cart[i].type, night)) + Need(h, cart, i)
<1> DEFINE type == cart[i].type
           J == {j \in DOMAIN cart : cart[j].type = type /\ Covers(cart[j], night)}
           Extra == {b \in made : f[b] \in J}
           v == [j \in J |-> cart[j].count]
<1>1. IsFiniteSet(DOMAIN cart) /\ \A j \in DOMAIN cart : cart[j] \in Line
  BY CartLines
<1>2. IsFiniteSet(made) /\ IsFiniteSet(J)
  BY <1>1, RoomsAssumption, FS_Subset DEF RowsWritten
<1>3. InHouse(type, night)' = InHouse(type, night) \cup Extra
  <2>1. ASSUME NEW b \in made
        PROVE  b \in InHouse(type, night)' <=> b \in Extra
    <3>1. status'[b] \in {"pending_payment", "confirmed"}
      BY DEF RowsWritten
    <3>2. b \in InHouse(type, night)'
            <=> stay'[b].type = type /\ stay'[b].from <= night /\ night < stay'[b].to
      BY <3>1 DEF InHouse, PreAssigned, Assigned, RowsWritten
    <3> QED BY <3>2 DEF RowsWritten, SameDates, Covers
  <2>2. ASSUME NEW b \in Bookings \ made
        PROVE  b \in InHouse(type, night)' <=> b \in InHouse(type, night)
    BY DEF RowsWritten, InHouse, PreAssigned, Assigned
  <2>3. InHouse(type, night) \cap made = {}
    BY DEF RowsWritten, InHouse, PreAssigned, Assigned
  <2>4. InHouse(type, night)' \subseteq Bookings /\ InHouse(type, night) \subseteq Bookings
    BY DEF InHouse
  <2>5. Extra \subseteq made /\ made \subseteq Bookings
    BY DEF RowsWritten
  <2> HIDE DEF Extra, type
  <2> QED BY <2>1, <2>2, <2>3, <2>4, <2>5
<1>4. InHouse(type, night) \cap Extra = {}
  BY DEF RowsWritten, InHouse, PreAssigned, Assigned
<1>5. Cardinality(Extra) = Sum(v, J)
  <2>1. \A j \in J : v[j] \in Nat /\ Cardinality({b \in made : f[b] = j}) = v[j]
    <3> SUFFICES ASSUME NEW j \in J
                 PROVE  v[j] \in Nat /\ Cardinality({b \in made : f[b] = j}) = v[j]
      OBVIOUS
    <3>1. j \in DOMAIN cart /\ v[j] = cart[j].count /\ DOMAIN f = made
      BY DEF RowsWritten
    <3>2. cart[j].count \in Nat
      BY <1>1, <3>1 DEF Line
    <3>3. Cardinality({b \in DOMAIN f : f[b] = j}) = cart[j].count
      BY <3>1 DEF RowsWritten, Placement
    <3> QED BY <3>1, <3>2, <3>3
  <2> HIDE DEF J, v
  <2> QED BY <1>2, <2>1, RowsOfLines
<1>6. Sum(v, J) = Need(h, cart, i)
  <2>1. i \in J
    OBVIOUS
  <2>2. ASSUME NEW j \in J PROVE Overlap(cart[i], cart[j])
    <3>1. /\ cart[i].from \in Int /\ cart[i].to \in Int
          /\ cart[j].from \in Int /\ cart[j].to \in Int
      BY <1>1, RoomsAssumption DEF Line, Dates
    <3> QED BY <3>1 DEF Overlap, Covers
  <2>3. CASE h \in Shoppers
    <3> DEFINE K == {j \in DOMAIN cart : /\ cart[j].type = cart[i].type
                                         /\ cart[j].from = cart[i].from
                                         /\ cart[j].to = cart[i].to}
    <3>1. cart \in WebCarts
      BY <2>3 DEF CartsOf
    <3>2. J = K
      BY <2>2, <3>1 DEF CartsApart, Covers
    <3>3. Wanted(cart, i) = Sum([j \in K |-> cart[j].count], K)
      <4> HIDE DEF K
      <4> QED BY CountsSummed DEF Wanted, K
    <3>4. Wanted(cart, i) = Sum(v, J)
      BY <3>2, <3>3
    <3> QED BY <2>3, <3>4 DEF Need
  <2>4. CASE h \notin Shoppers
    <3>1. cart \in DeskCarts
      BY <2>4 DEF CartsOf
    <3>2. J = {i}
      BY <2>1, <2>2, <3>1 DEF CartsApart
    <3>3. v[i] = cart[i].count /\ cart[i].count \in Int
      BY <1>1, <2>1 DEF Line
    <3> HIDE DEF v, J
    <3>4. Sum(v, {i}) = v[i] + Sum(v, {i} \ {i})
      <4>1. IsFiniteSet({i}) /\ \A x \in {i} : v[x] \in Int
        BY <3>3, FS_Singleton
      <4> QED BY <4>1, SumOut
    <3>5. Sum(v, {i} \ {i}) = 0
      <4>1. {i} \ {i} = {}
        OBVIOUS
      <4> QED BY <4>1, SumEmpty
    <3>6. Sum(v, J) = cart[i].count
      BY <3>2, <3>3, <3>4, <3>5
    <3> QED BY <2>4, <3>6 DEF Need
  <2> QED BY <2>3, <2>4
<1>7. Cardinality(InHouse(type, night) \cup Extra) = Cardinality(InHouse(type, night)) + Cardinality(Extra)
  <2>1. IsFiniteSet(InHouse(type, night)) /\ Cardinality(InHouse(type, night)) \in Nat
    BY HousesFinite
  <2>2. IsFiniteSet(Extra)
    BY <1>2, FS_Subset
  <2> HIDE DEF Extra, type
  <2>3. Cardinality(InHouse(type, night) \cup Extra)
           = Cardinality(InHouse(type, night)) + Cardinality(Extra)
               - Cardinality(InHouse(type, night) \cap Extra)
    BY <2>1, <2>2, FS_Union
  <2>4. Cardinality(InHouse(type, night) \cap Extra) = 0
    BY <1>4, FS_EmptySet
  <2>5. Cardinality(Extra) \in Nat
    BY <2>2, FS_CardinalityType
  <2> QED BY <2>1, <2>3, <2>4, <2>5
<1> QED BY <1>3, <1>5, <1>6, <1>7

LEMMA NoneAdded ==
    ASSUME NEW h, NEW cart, NEW made, NEW f, NEW r, RowsWritten(h, cart, made, f, r),
           NEW type, NEW night,
           \A j \in DOMAIN cart : ~(cart[j].type = type /\ Covers(cart[j], night))
    PROVE  InHouse(type, night)' = InHouse(type, night)
<1>1. ASSUME NEW b \in made
      PROVE  b \notin InHouse(type, night)' /\ b \notin InHouse(type, night)
  <2>1. status'[b] \in {"pending_payment", "confirmed"} /\ status[b] = "none"
    BY DEF RowsWritten
  <2>2. f[b] \in DOMAIN cart
    BY DEF RowsWritten
  <2>3. ~(stay'[b].type = type /\ stay'[b].from <= night /\ night < stay'[b].to)
    BY <2>2 DEF RowsWritten, SameDates, Covers
  <2> QED BY <2>1, <2>3 DEF InHouse, PreAssigned, Assigned
<1>2. ASSUME NEW b \in Bookings \ made
      PROVE  b \in InHouse(type, night)' <=> b \in InHouse(type, night)
  BY DEF RowsWritten, InHouse, PreAssigned, Assigned
<1>3. InHouse(type, night)' \subseteq Bookings /\ InHouse(type, night) \subseteq Bookings
  BY DEF InHouse
<1> QED BY <1>1, <1>2, <1>3

LEMMA SaleFits ==
    ASSUME CartsApart, TypeOK, LocksSound, CartsLocked, CommitsFit, NoOverbooking,
           BookedAsAssigned, NEW h \in Sellers, CartBooked(h)
    PROVE  CommitsFit' /\ NoOverbooking' /\ BookedAsAssigned'
<1>1. PICK cart \in CartsOf(h) : job[h].cart = cart /\ job[h].pc = "commit"
  BY CartWritten
<1>2. PICK made, f, r : RowsWritten(h, cart, made, f, r)
  BY <1>1, CartWritten
<1>3. job'[h].pc = "idle" /\ \A g \in Sellers \ {h} : job'[g] = job[g]
  BY CartWritten
<1>4. BookedAsAssigned'
  BY <1>2 DEF BookedAsAssigned, RowsWritten, PreAssigned, SameDates
<1>5. NoOverbooking'
  <2> SUFFICES ASSUME NEW type \in Types, NEW night \in 1 .. LastNight
               PROVE  Cardinality(InHouse(type, night)') <= Cardinality(RoomsOf(type))
    BY DEF NoOverbooking, RoomsOf
  <2>1. ASSUME NEW i \in DOMAIN cart, cart[i].type = type, Covers(cart[i], night)
        PROVE  Cardinality(InHouse(type, night)') <= Cardinality(RoomsOf(type))
    <3>1. Cardinality(InHouse(type, night)) + Need(h, cart, i) <= Cardinality(RoomsOf(type))
      BY <1>1, <2>1 DEF CommitsFit
    <3>2. Cardinality(InHouse(cart[i].type, night)')
             = Cardinality(InHouse(cart[i].type, night)) + Need(h, cart, i)
      BY <1>2, <2>1, RoomsAdded
    <3>3. InHouse(cart[i].type, night)' = InHouse(type, night)'
      BY <2>1 DEF InHouse
    <3> QED BY <2>1, <3>1, <3>2, <3>3
  <2>2. CASE \A j \in DOMAIN cart : ~(cart[j].type = type /\ Covers(cart[j], night))
    <3>1. InHouse(type, night)' = InHouse(type, night)
      BY <1>2, <2>2, NoneAdded
    <3> QED BY <3>1 DEF NoOverbooking
  <2> QED BY <2>1, <2>2
<1>6. CommitsFit'
  <2> SUFFICES ASSUME NEW g \in Sellers, NEW other \in CartsOf(g),
                      job'[g].pc = "commit", job'[g].cart = other,
                      NEW i \in DOMAIN other, NEW night \in 1 .. LastNight,
                      Covers(other[i], night)
               PROVE  Cardinality(InHouse(other[i].type, night)') + Need(g, other, i)
                        <= Cardinality(RoomsOf(other[i].type))
    BY NeedIsRigid DEF CommitsFit, CartsOf, Covers, RoomsOf
  <2>1. g # h /\ job[g].pc = "commit" /\ job[g].cart = other
    BY <1>3
  <2>2. \A j \in DOMAIN cart : cart[j].type # other[i].type
    BY <1>1, <2>1, TypesApart DEF MayCommit
  <2> DEFINE type == other[i].type
  <2>3. Cardinality(InHouse(type, night)) + Need(g, other, i) <= Cardinality(RoomsOf(type))
    BY <2>1 DEF CommitsFit
  <2>4. InHouse(type, night)' = InHouse(type, night)
    BY <1>2, <2>2, NoneAdded
  <2> QED BY <2>3, <2>4
<1> QED BY <1>4, <1>5, <1>6

(* Half of the search is still good after a step of somebody else.          *)
LEMMA SearchKept ==
    ASSUME TypeOK, LocksSound, CartsLocked, SearchCovers, [Next]_vars,
           (\E h \in Sellers : CartBooked(h)) \/ \A b \in Bookings : RowMoves(b)
    PROVE  SearchCovers'
<1>1. ASSUME Porters = {}, NEW b \in Bookings PROVE ~Assigned(b)'
  <2>1. ~Assigned(b)
    BY <1>1 DEF SearchCovers
  <2>2. CASE RowMoves(b)
    BY <1>1, <2>1, <2>2 DEF RowMoves, Assigned
  <2>3. ASSUME NEW h \in Sellers, CartBooked(h) PROVE ~Assigned(b)'
    <3>1. \/ status'[b] = status[b]
          \/ status'[b] \in {"pending_payment", "confirmed"}
      BY <2>3 DEF CartBooked
    <3> QED BY <2>1, <3>1 DEF Assigned
  <2> QED BY <2>2, <2>3
<1>2. ASSUME NEW h \in Sellers, RowsRead(h)
      PROVE  \A g \in Sellers : job'[g].pc \in {"readRooms", "readDates"} =>
                g = h \/ job'[g] = job[g]
  BY <1>2, SearchStarts
<1>3. ASSUME NEW g \in Sellers, job'[g].pc \in {"readRooms", "readDates"}, ~RowsRead(g)
      PROVE  job'[g] = job[g]
  <2>0. IdleJob.pc = "idle"
    BY DEF IdleJob
  <2>1. ASSUME NEW h \in Sellers, NEW cart \in CartsOf(h), SaleOpens(h, cart)
        PROVE  job'[g] = job[g]
    BY <1>3, <2>1, SaleOpened
  <2>2. ASSUME NEW h \in Sellers, TakeLock(h) PROVE job'[g] = job[g]
    BY <1>3, <2>2, LockTaken
  <2>3. ASSUME NEW h \in Sellers, CartChecked(h) PROVE job'[g] = job[g]
    BY <1>3, <2>3, CartPassed
  <2> QED BY <1>2, <1>3, <2>0, <2>1, <2>2, <2>3, SalesElsewhere
<1>4. ASSUME NEW h \in Sellers, RowsRead(h), job'[h].pc = "readRooms",
             NEW i \in DOMAIN job'[h].cart
      PROVE  BlockingByDates(job[h].cart[i].type, job[h].cart[i])' \subseteq job'[h].seen[i]
  <2>1. /\ job'[h].cart = job[h].cart /\ UNCHANGED rows
        /\ job'[h].seen[i] = BlockingByDates(job[h].cart[i].type, job[h].cart[i])
    BY <1>4, SearchStarts
  <2> QED BY <2>1 DEF BlockingByDates, PreAssigned, Overlap, rows
<1>5. ASSUME NEW g \in Sellers, job[g].pc = "readRooms", job'[g] = job[g],
             NEW i \in DOMAIN job[g].cart
      PROVE  BlockingByDates(job[g].cart[i].type, job[g].cart[i])' \subseteq job'[g].seen[i]
  <2> DEFINE line == job[g].cart[i]
  <2>0. BlockingByDates(line.type, line) \subseteq job[g].seen[i]
    BY <1>5 DEF SearchCovers
  <2>1. SUFFICES ASSUME NEW b \in Bookings, b \in BlockingByDates(line.type, line)'
                 PROVE  b \in BlockingByDates(line.type, line)
    BY <1>5, <2>0 DEF BlockingByDates
  <2>2. stay'[b].type = line.type /\ PreAssigned(b)' /\ Overlap(stay'[b], line)
    BY <1>5, <2>1 DEF BlockingByDates, Overlap
  <2>3. CASE RowMoves(b)
    <3>1. stay'[b] = stay[b] /\ PreAssigned(b)
      BY <2>2, <2>3 DEF RowMoves, PreAssigned, Assigned
    <3> QED BY <2>2, <3>1 DEF BlockingByDates
  <2>4. ASSUME NEW h \in Sellers, CartBooked(h)
        PROVE  b \in BlockingByDates(line.type, line)
    <3>1. PICK cart \in CartsOf(h) : job[h].cart = cart /\ job[h].pc = "commit"
      BY <2>4, CartWritten
    <3>2. PICK made, f, r : RowsWritten(h, cart, made, f, r)
      BY <2>4, <3>1, CartWritten
    <3>3. g # h
      BY <1>5, <3>1
    <3>4. \A j \in DOMAIN cart : cart[j].type # line.type
      BY <1>5, <3>1, <3>3, TypesApart DEF MayCommit
    <3>5. b \notin made
      BY <2>2, <3>2, <3>4 DEF RowsWritten
    <3>6. stay'[b] = stay[b] /\ status'[b] = status[b]
      BY <3>2, <3>5 DEF RowsWritten
    <3> QED BY <2>2, <3>6 DEF BlockingByDates, PreAssigned
  <2> QED BY <2>3, <2>4
<1>6. ASSUME NEW g \in Sellers
      PROVE  /\ job'[g].pc = "readDates" => g \in Shoppers
             /\ job'[g].pc = "readRooms" => \A i \in DOMAIN job'[g].cart :
                   BlockingByDates(job[g].cart[i].type, job[g].cart[i])' \subseteq job'[g].seen[i]
  <2>1. CASE RowsRead(g)
    BY <1>4, <2>1, SearchStarts
  <2>2. CASE ~RowsRead(g)
    <3>1. job'[g].pc = "readDates" => g \in Shoppers
      BY <1>3, <2>2 DEF SearchCovers
    <3>2. ASSUME job'[g].pc = "readRooms", NEW i \in DOMAIN job'[g].cart
          PROVE  BlockingByDates(job[g].cart[i].type, job[g].cart[i])' \subseteq job'[g].seen[i]
      <4>1. job'[g] = job[g]
        BY <1>3, <2>2, <3>2
      <4> QED BY <1>5, <3>2, <4>1
    <3> QED BY <3>1, <3>2
  <2> QED BY <2>1, <2>2
<1> QED BY <1>1, <1>6 DEF SearchCovers

-----------------------------------------------------------------------------
(* The front desk *)

LEMMA PortersKnowStep ==
    ASSUME NobodyElseBooks, TypeOK, PortersSound, BookedAsAssigned, PortersKnow, [Next]_vars
    PROVE  PortersKnow'
<1> job \in [Handlers -> Job] /\ Porters \subseteq Handlers /\ IdleJob \in Job
  BY IdleJobIsJob DEF TypeOK, Handlers
<1>0. IdleJob.on = {}
  BY DEF IdleJob
<1> DEFINE Knows(p) ==
        \A b \in job'[p].on :
            /\ job'[p].pc = "commit" =>
                  /\ status'[b] = "confirmed"
                  /\ job'[p].room # NoRoom => SameDates(job'[p].to, stay'[b])
            /\ job'[p].pc = "leave" => status'[b] \in {"checked_in", "checked_out"}
           Kept(b) ==
              /\ status[b] = "confirmed" => status'[b] = "confirmed" /\ stay'[b] = stay[b]
              /\ status[b] \in {"checked_in", "checked_out"}
                    => status'[b] \in {"checked_in", "checked_out"}
<1>1. ASSUME NEW p \in Porters, job'[p] = job[p], \A b \in job[p].on : Kept(b)
      PROVE  Knows(p)
  BY <1>1 DEF PortersKnow
<1>2. ASSUME NEW p \in Porters, job'[p] = IdleJob PROVE Knows(p)
  BY <1>0, <1>2
<1>3. \A p \in Porters : job[p].on \subseteq Bookings
  BY DEF Job
(* A step of somebody else *)
<1>4. ASSUME \A p \in Porters : job'[p] \in {job[p], IdleJob}, \A b \in Bookings : Kept(b)
      PROVE  PortersKnow'
  <2>1. ASSUME NEW p \in Porters PROVE Knows(p)
    BY <1>1, <1>2, <1>3, <1>4
  <2> QED BY <2>1 DEF PortersKnow, SameDates
<1>5. ASSUME NEW h \in Handlers, h \notin Porters, NEW x, Set(h, x)
      PROVE  \A p \in Porters : job'[p] = job[p]
  BY <1>5 DEF Set
<1>6. ASSUME NEW h \in Sellers, Sale(h) PROVE PortersKnow'
  <2>1. h \in Handlers /\ h \notin Porters
    BY HandlersAssumption DEF Sellers, Handlers
  <2>2. PICK x : Set(h, x)
    BY <1>6 DEF Sale, SaleAdvances, SaleOpens, TakeLock, RowsRead, SeesDates, SeesRooms,
                CartChecked, CartRefused, CartBooked
  <2>3. \A b \in Bookings : Kept(b)
    BY <1>6 DEF Sale, SaleAdvances, SaleOpens, TakeLock, RowsRead, SeesDates, SeesRooms,
                CartChecked, CartRefused, CartBooked, rows
  <2> QED BY <1>4, <1>5, <2>1, <2>2, <2>3
<1>7. ASSUME NEW h \in Handlers, HandlerFails(h) PROVE PortersKnow'
  <2>1. \A p \in Porters : job'[p] \in {job[p], IdleJob}
    BY <1>7, SetOwn DEF HandlerFails
  <2>2. \A b \in Bookings : Kept(b)
    BY <1>7 DEF HandlerFails, rows
  <2> QED BY <1>4, <2>1, <2>2
<1>8. ASSUME NEW b \in Bookings, PaymentConfirms(b) \/ HoldReleased(b) PROVE PortersKnow'
  <2>1. UNCHANGED job /\ \A c \in Bookings : Kept(c)
    BY <1>8 DEF PaymentConfirms, HoldReleased, TypeOK
  <2> QED BY <1>4, <2>1
<1>9. CASE NightPasses \/ UNCHANGED vars
  <2>1. UNCHANGED job /\ \A c \in Bookings : Kept(c)
    BY <1>9 DEF NightPasses, vars, rows
  <2> QED BY <1>4, <2>1
<1>10. ASSUME NEW p \in Porters, CheckIn(p) \/ Departure(p) PROVE PortersKnow'
  <2> p \in Handlers
    OBVIOUS
  <2> SUFFICES ASSUME NEW q \in Porters PROVE Knows(q)
    BY DEF PortersKnow, SameDates
  <2>1. ASSUME NEW x \in Job, Set(p, x), q # p PROVE job'[q] = job[q]
    BY <2>1, SetOwn
  <2>2. ASSUME NEW b \in Bookings, CheckInReuses(p, b) PROVE Knows(q)
    <3> DEFINE x == [IdleJob EXCEPT !.pc = "commit", !.on = {b}]
    <3>1. x \in Job /\ x.pc = "commit" /\ x.on = {b} /\ x.room = NoRoom
      BY DEF Job, IdleJob
    <3>2. Set(p, x) /\ UNCHANGED rows /\ status[b] = "confirmed"
      BY <2>2 DEF CheckInReuses
    <3> HIDE DEF x
    <3>3. CASE q = p
      <4>1. job'[q] = x
        BY <3>1, <3>2, <3>3, SetOwn
      <4> QED BY <3>1, <3>2, <4>1 DEF rows
    <3>4. CASE q # p
      <4>1. job'[q] = job[q] /\ \A c \in Bookings : Kept(c)
        BY <2>1, <3>1, <3>2, <3>4 DEF rows
      <4> QED BY <1>1, <1>3, <4>1
    <3> QED BY <3>3, <3>4
  <2>3. ASSUME NEW b \in Bookings, NEW room \in Rooms, CheckInPicks(p, b, room)
        PROVE  Knows(q)
    <3> DEFINE x == [IdleJob EXCEPT !.pc = "commit", !.on = {b}, !.room = room, !.to = stay[b]]
    <3>1. x \in Job /\ x.pc = "commit" /\ x.on = {b} /\ x.to = stay[b]
      BY DEF Job, IdleJob, TypeOK
    <3>2. Set(p, x) /\ UNCHANGED rows /\ status[b] = "confirmed"
      BY <2>3 DEF CheckInPicks
    <3> HIDE DEF x
    <3>3. CASE q = p
      <4>1. job'[q] = x
        BY <3>1, <3>2, <3>3, SetOwn
      <4> QED BY <3>1, <3>2, <4>1 DEF rows, SameDates
    <3>4. CASE q # p
      <4>1. job'[q] = job[q] /\ \A c \in Bookings : Kept(c)
        BY <2>1, <3>1, <3>2, <3>4 DEF rows
      <4> QED BY <1>1, <1>3, <4>1
    <3> QED BY <3>3, <3>4
  <2>4. ASSUME NEW b \in Bookings, CheckOutOpens(p, b) PROVE Knows(q)
    <3> DEFINE x == [IdleJob EXCEPT !.pc = "leave", !.on = {b}, !.to = stay[b]]
    <3>1. x \in Job /\ x.pc = "leave" /\ x.on = {b}
      BY DEF Job, IdleJob, TypeOK
    <3>2. Set(p, x) /\ UNCHANGED rows /\ status[b] = "checked_in"
      BY <2>4 DEF CheckOutOpens
    <3> HIDE DEF x
    <3>3. CASE q = p
      <4>1. job'[q] = x
        BY <3>1, <3>2, <3>3, SetOwn
      <4> QED BY <3>1, <3>2, <4>1 DEF rows
    <3>4. CASE q # p
      <4>1. job'[q] = job[q] /\ \A c \in Bookings : Kept(c)
        BY <2>1, <3>1, <3>2, <3>4 DEF rows
      <4> QED BY <1>1, <1>3, <4>1
    <3> QED BY <3>3, <3>4
  <2>5. CASE CheckInCommits(p)
    <3>1. CASE q = p
      BY <1>2, <2>5, <3>1, SetOwn DEF CheckInCommits
    <3>2. CASE q # p
      <4>1. job'[q] = job[q]
        BY <2>1, <2>5, <3>2 DEF CheckInCommits
      <4>2. job[p].pc = "commit" /\ \A b \in job[p].on : status[b] = "confirmed"
        BY <2>5 DEF CheckInCommits, PortersKnow
      <4>3. \A b \in Bookings \ job[p].on : Kept(b)
        BY <2>5 DEF CheckInCommits
      <4>4. CASE job[q].pc = "commit"
        <5>1. job[q].on \cap job[p].on = {}
          BY <3>2, <4>2, <4>4 DEF PortersSound
        <5> QED BY <1>1, <1>3, <4>1, <4>3, <5>1
      <4>5. CASE job[q].pc = "leave"
        <5>1. \A b \in job[q].on : status[b] \in {"checked_in", "checked_out"}
          BY <4>5 DEF PortersKnow
        <5>2. \A b \in job[q].on : b \notin job[p].on
          BY <4>2, <5>1
        <5> QED BY <1>1, <1>3, <4>1, <4>3, <5>2
      <4> QED BY <4>1, <4>4, <4>5
    <3> QED BY <3>1, <3>2
  <2>6. CASE CheckOutCommits(p)
    <3>1. CASE q = p
      BY <1>2, <2>6, <3>1, SetOwn DEF CheckOutCommits
    <3>2. CASE q # p
      <4>1. job'[q] = job[q]
        BY <2>1, <2>6, <3>2 DEF CheckOutCommits
      <4>2. \A b \in job[p].on : status[b] \in {"checked_in", "checked_out"}
        BY <2>6 DEF CheckOutCommits, PortersKnow
      <4>3. \A b \in Bookings : Kept(b)
        BY <2>6, <4>2 DEF CheckOutCommits
      <4> QED BY <1>1, <1>3, <4>1, <4>3
    <3> QED BY <3>1, <3>2
  <2> QED BY <1>10, <2>2, <2>3, <2>4, <2>5, <2>6 DEF CheckIn, Departure
<1>11. CASE Next
  <2>1. CASE Porters = {}
    BY <2>1 DEF PortersKnow
  <2>2. CASE Porters # {}
    <3>1. Movers = {} /\ Overriders = {} /\ Clerks = {}
      BY <2>2 DEF NobodyElseBooks
    <3> QED BY <1>6, <1>7, <1>8, <1>9, <1>10, <1>11, <3>1 DEF Next
  <2> QED BY <2>1, <2>2
<1> QED BY <1>9, <1>11

-----------------------------------------------------------------------------
(* The capacity of the hotel *)

LEMMA CapacityStep ==
    ASSUME NobodyElseBooks, CartsApart, IInv, IInv', CapacityInv, [Next]_vars
    PROVE  CapacityInv'
<1> USE DEF IInv
<1>1. CartsLocked'
  BY CartsStep DEF CapacityInv
<1>2. PortersKnow'
  BY PortersKnowStep DEF CapacityInv
<1>3. ASSUME NEW h \in Sellers, CartBooked(h)
      PROVE  CommitsFit' /\ NoOverbooking' /\ BookedAsAssigned'
  BY <1>3, SaleFits DEF CapacityInv
<1>4. ASSUME \A b \in Bookings : RowMoves(b)
      PROVE  CommitsFit' /\ NoOverbooking' /\ BookedAsAssigned'
  <2>1. BookedAsAssigned'
    BY <1>4 DEF CapacityInv, BookedAsAssigned, RowMoves, PreAssigned, Assigned, SameDates
  <2>2. CASE \A h \in Sellers : job'[h].pc = "commit" => job'[h] = job[h]
    BY <1>4, <2>1, <2>2, CapacityKept DEF CapacityInv
  <2>3. ASSUME NEW h \in Sellers, CartChecked(h) PROVE CommitsFit' /\ NoOverbooking'
    <3>1. CommitsFit'
      BY <2>3, CheckedFits DEF CapacityInv
    <3>2. NoOverbooking'
      BY <2>3 DEF CapacityInv, CartChecked, rows, NoOverbooking, InHouse, PreAssigned,
                  Assigned, RoomsOf
    <3> QED BY <3>1, <3>2
  <2>4. (\E h \in Sellers : CartChecked(h))
          \/ \A h \in Sellers : job'[h].pc = "commit" => job'[h] = job[h]
    <3>1. IdleJob.pc = "idle"
      BY DEF IdleJob
    <3>2. ASSUME NEW h \in Sellers, NEW cart \in CartsOf(h), SaleOpens(h, cart)
          PROVE  \A g \in Sellers : job'[g].pc = "commit" => job'[g] = job[g]
      BY <3>2, SaleOpened
    <3>3. ASSUME NEW h \in Sellers, TakeLock(h)
          PROVE  \A g \in Sellers : job'[g].pc = "commit" => job'[g] = job[g]
      BY <3>3, LockTaken
    <3>4. ASSUME NEW h \in Sellers, RowsRead(h)
          PROVE  \A g \in Sellers : job'[g].pc = "commit" => job'[g] = job[g]
      BY <3>4, SearchStarts DEF CapacityInv
    <3> QED BY <3>1, <3>2, <3>3, <3>4, SalesElsewhere
  <2> QED BY <2>1, <2>2, <2>3, <2>4
<1>5. (\E h \in Sellers : CartBooked(h)) \/ \A b \in Bookings : RowMoves(b)
  BY RowsMove DEF CapacityInv
<1>6. CommitsFit' /\ NoOverbooking' /\ BookedAsAssigned'
  BY <1>3, <1>4, <1>5
<1>7. SearchCovers'
  BY <1>5, SearchKept DEF CapacityInv
<1> QED BY <1>1, <1>2, <1>6, <1>7 DEF CapacityInv

LEMMA CapacityInit == Init => CapacityInv
<1> SUFFICES ASSUME Init PROVE CapacityInv
  OBVIOUS
<1>1. \A h \in Handlers : job[h].pc = "idle" /\ job[h].on = {}
  BY DEF Init, IdleJob
<1>2. Sellers \subseteq Handlers /\ Porters \subseteq Handlers
  BY DEF Handlers
<1>3. CartsLocked /\ CommitsFit /\ PortersKnow /\ SearchCovers
  <2>1. \A b \in Bookings : ~Assigned(b)
    BY DEF Init, Assigned
  <2> QED BY <1>1, <1>2, <2>1
       DEF CartsLocked, MayCommit, CommitsFit, PortersKnow, SearchCovers
<1>4. BookedAsAssigned
  BY DEF Init, BookedAsAssigned, PreAssigned
<1>5. NoOverbooking
  <2> SUFFICES ASSUME NEW type \in Types, NEW night \in 1 .. LastNight
               PROVE  Cardinality(InHouse(type, night)) <= Cardinality(RoomsOf(type))
    BY DEF NoOverbooking
  <2>1. InHouse(type, night) = {}
    BY DEF Init, InHouse, PreAssigned, Assigned
  <2>2. Cardinality(RoomsOf(type)) \in Nat
    BY HousesFinite
  <2> QED BY <2>1, <2>2, FS_EmptySet
<1> QED BY <1>3, <1>4, <1>5 DEF CapacityInv

(* No night is sold more often than there are rooms of the type, however     *)
(* many sales of the site and of the desk, payments, releases and            *)
(* cancellations run at once, or, where only the desk sells, sales, payments,*)
(* check-ins and check-outs: the advisory locks of details/+page.server.ts:171*)
(* and front-desk.ts:944 do what they are for although each search is two    *)
(* statements with a snapshot each (availability.ts:292-318).                *)
THEOREM RoomsNeverOverbooked ==
    ASSUME NobodyElseBooks, CartsApart
    PROVE  Spec => []NoOverbooking
<1>1. IInv /\ IInv' /\ CapacityInv /\ [Next]_vars => CapacityInv'
  BY NobodyElseBooks, CartsApart, CapacityStep
<1>2. CapacityInv => NoOverbooking
  BY DEF CapacityInv
<1> QED BY Invariance, CapacityInit, <1>1, <1>2, PTL DEF Spec

-----------------------------------------------------------------------------
(* Rooms given at check-in *)

(* Rooms are chosen at check-in alone: no cart picks one by number.         *)
NobodyPicks == \A cart \in WebCarts \cup DeskCarts : \A i \in DOMAIN cart : cart[i].picked = {}

InOrOut(b) == status[b] \in {"checked_in", "checked_out"}

(* Only guests who came have a room.  The room a check-in is about to give  *)
(* is free for its dates, and no other check-in is about to give it.        *)
RoomsAtCheckIn ==
    /\ \A b \in Bookings : assigned[b].room # NoRoom => InOrOut(b)
    /\ \A p \in Porters : job[p].pc = "commit" =>
          /\ job[p].room # NoRoom
          /\ \A b, c \in job[p].on : b = c
          /\ \A b \in job[p].on, c \in Bookings :
                b # c /\ assigned[c].room = job[p].room => ~Overlap(assigned[c], job[p].to)
          /\ \A q \in Porters : q # p /\ job[q].pc = "commit" => job[q].room # job[p].room

(* A booking that has no room afterwards, or keeps part of what it had.     *)
KeepsAtMost(b) ==
    \/ assigned'[b].room = NoRoom
    \/ /\ assigned'[b].room = assigned[b].room
       /\ assigned'[b].from = assigned[b].from /\ assigned'[b].to <= assigned[b].to
       /\ InOrOut(b) /\ InOrOut(b)'

(* Dates that were apart stay apart when a stay ends earlier.               *)
LEMMA Shorter ==
    ASSUME NEW a, NEW b, NEW c, NEW d,
           a.to \in Int, b.to \in Int, c.to \in Int, d.to \in Int,
           a.from \in Int, b.from \in Int,
           c.from = a.from, c.to <= a.to, d.from = b.from, d.to <= b.to, ~Overlap(a, b)
    PROVE  ~Overlap(c, d)
BY DEF Overlap

LEMMA DatesAreInts ==
    ASSUME TypeOK
    PROVE  /\ \A b \in Bookings : /\ assigned[b].from \in Int /\ assigned[b].to \in Int
                                  /\ stay[b].from \in Int /\ stay[b].to \in Int
           /\ \A h \in Handlers : job[h].to.from \in Int /\ job[h].to.to \in Int
           /\ today \in Int
<1>1. Dates \subseteq Int
  BY RoomsAssumption DEF Dates
<1> QED BY <1>1 DEF TypeOK, Stay, Job

LEMMA RoomsLeft ==
    ASSUME TypeOK, TypeOK', RoomsAtCheckIn, RoomTakenOnce,
           \A p \in Porters : job'[p].pc = "commit" => job'[p] = job[p],
           \A b \in Bookings : KeepsAtMost(b)
    PROVE  RoomsAtCheckIn' /\ RoomTakenOnce'
<1>1. \A b \in Bookings : assigned'[b].room # NoRoom =>
          /\ assigned'[b].room = assigned[b].room
          /\ assigned'[b].from = assigned[b].from /\ assigned'[b].to <= assigned[b].to
          /\ InOrOut(b) /\ InOrOut(b)'
  BY DEF KeepsAtMost
<1>2. \A b \in Bookings : /\ assigned[b].from \in Int /\ assigned[b].to \in Int
                          /\ assigned'[b].from \in Int /\ assigned'[b].to \in Int
  BY RoomsAssumption DEF TypeOK, Dates
<1>3. RoomTakenOnce'
  <2> SUFFICES ASSUME NEW b \in Bookings, NEW c \in Bookings, b # c,
                      assigned'[b].room = assigned'[c].room, assigned'[b].room # NoRoom
               PROVE  ~Overlap(assigned'[b], assigned'[c])
    BY DEF RoomTakenOnce, Overlap
  <2>1. ~Overlap(assigned[b], assigned[c])
    BY <1>1 DEF RoomTakenOnce, InOrOut, ACTIVE_BOOKING_STATUSES
  <2> QED BY <1>1, <1>2, <2>1, Shorter
<1>4. RoomsAtCheckIn'
  <2>1. \A b \in Bookings : assigned'[b].room # NoRoom => InOrOut(b)'
    BY <1>1
  <2>2. ASSUME NEW p \in Porters, job'[p].pc = "commit"
        PROVE  /\ job'[p] = job[p] /\ job'[p].room # NoRoom
               /\ \A b, c \in job'[p].on : b = c
               /\ \A b \in job'[p].on, c \in Bookings :
                     b # c /\ assigned'[c].room = job'[p].room
                        => ~Overlap(assigned'[c], job'[p].to)
    <3>1. job'[p] = job[p]
      BY <2>2
    <3>2. job[p].room # NoRoom /\ \A b, c \in job[p].on : b = c
      BY <2>2, <3>1 DEF RoomsAtCheckIn
    <3>3. ASSUME NEW b \in job[p].on, NEW c \in Bookings, b # c,
                 assigned'[c].room = job[p].room
          PROVE  ~Overlap(assigned'[c], job[p].to)
      <4>1. assigned[c].room = job[p].room
        BY <1>1, <3>2, <3>3
      <4>2. ~Overlap(assigned[c], job[p].to)
        BY <2>2, <3>1, <3>3, <4>1 DEF RoomsAtCheckIn
      <4>3. job[p].to.from \in Int /\ job[p].to.to \in Int
        BY DatesAreInts DEF Handlers
      <4>4. /\ assigned'[c].from = assigned[c].from /\ assigned'[c].to <= assigned[c].to
        BY <1>1, <3>2, <3>3
      <4> QED BY <1>2, <4>2, <4>3, <4>4 DEF Overlap
    <3> QED BY <3>1, <3>2, <3>3
  <2>3. \A p, q \in Porters :
           q # p /\ job'[p].pc = "commit" /\ job'[q].pc = "commit" => job'[q].room # job'[p].room
    BY <2>2 DEF RoomsAtCheckIn
  <2> QED BY <2>1, <2>2, <2>3 DEF RoomsAtCheckIn, Overlap
<1> QED BY <1>3, <1>4

(* A room that is not taken for some dates is nobody's on them.             *)
LEMMA NotTaken ==
    ASSUME TypeOK, NEW room, NEW span, span.from \in Int, span.to \in Int, NEW except,
           ~Taken(room, span, except),
           NEW c \in Bookings \ except, assigned[c].room = room,
           status[c] \in ACTIVE_BOOKING_STATUSES
    PROVE  ~Overlap(assigned[c], span)
<1>1. ~(assigned[c].from < span.to /\ span.from < RoomHeldUntil(c))
  BY DEF Taken
<1>2. assigned[c].from \in Int /\ assigned[c].to \in Int /\ today \in Int
  BY DatesAreInts
<1> QED BY <1>1, <1>2 DEF Overlap, RoomHeldUntil

LEMMA CheckInStep ==
    ASSUME TypeOK, TypeOK', RoomsAtCheckIn, RoomTakenOnce, NEW p \in Porters, CheckIn(p)
    PROVE  RoomsAtCheckIn' /\ RoomTakenOnce'
<1> job \in [Handlers -> Job] /\ Porters \subseteq Handlers /\ IdleJob \in Job
  BY IdleJobIsJob DEF TypeOK, Handlers
<1>1. ASSUME NEW b \in Bookings, CheckInReuses(p, b) PROVE FALSE
  BY <1>1 DEF CheckInReuses, RoomsAtCheckIn, InOrOut
<1>2. ASSUME NEW b \in Bookings, NEW room \in Rooms, CheckInPicks(p, b, room)
      PROVE  RoomsAtCheckIn' /\ RoomTakenOnce'
  <2> DEFINE x == [IdleJob EXCEPT !.pc = "commit", !.on = {b}, !.room = room, !.to = stay[b]]
  <2>1. x \in Job /\ x.pc = "commit" /\ x.on = {b} /\ x.room = room /\ x.to = stay[b]
    BY DEF Job, IdleJob, TypeOK
  <2>2. Set(p, x) /\ status' = status /\ stay' = stay /\ assigned' = assigned
    BY <1>2 DEF CheckInPicks, rows
  <2> HIDE DEF x
  <2>3. job'[p] = x /\ \A q \in Porters \ {p} : job'[q] = job[q]
    BY <2>1, <2>2, SetOwn
  <2>4. room # NoRoom
    BY RoomsAssumption
  <2>5. \A q \in Porters \ {p} : job[q].pc = "commit" => job[q].room # room
    BY <1>2, <2>4 DEF CheckInPicks, CheckInLockFree
  <2>6. \A c \in Bookings : c # b /\ assigned[c].room = room => ~Overlap(assigned[c], stay[b])
    <3> SUFFICES ASSUME NEW c \in Bookings, c # b, assigned[c].room = room
                 PROVE  ~Overlap(assigned[c], stay[b])
      OBVIOUS
    <3>1. status[c] \in ACTIVE_BOOKING_STATUSES
      BY <2>4 DEF RoomsAtCheckIn, InOrOut, ACTIVE_BOOKING_STATUSES
    <3>2. ~Taken(room, stay[b], {b})
      BY <1>2 DEF CheckInPicks
    <3>3. stay[b].from \in Int /\ stay[b].to \in Int
      BY DatesAreInts
    <3> QED BY <3>1, <3>2, <3>3, NotTaken
  <2>7. RoomTakenOnce'
    BY <2>2 DEF RoomTakenOnce
  <2>8. \A c \in Bookings : assigned'[c].room # NoRoom => InOrOut(c)'
    BY <2>2 DEF RoomsAtCheckIn, InOrOut
  <2>9. \A q \in Porters : job'[q].pc = "commit" =>
          /\ job'[q].room # NoRoom
          /\ \A c, d \in job'[q].on : c = d
          /\ \A c \in job'[q].on, d \in Bookings :
                c # d /\ assigned'[d].room = job'[q].room => ~Overlap(assigned'[d], job'[q].to)
    <3>1. ASSUME NEW q \in Porters, q # p, job'[q].pc = "commit"
          PROVE  /\ job'[q].room # NoRoom
                 /\ \A c, d \in job'[q].on : c = d
                 /\ \A c \in job'[q].on, d \in Bookings :
                       c # d /\ assigned'[d].room = job'[q].room
                          => ~Overlap(assigned'[d], job'[q].to)
      BY <2>2, <2>3, <3>1 DEF RoomsAtCheckIn
    <3> QED BY <2>1, <2>2, <2>3, <2>4, <2>6, <3>1
  <2>10. \A q, o \in Porters :
           o # q /\ job'[q].pc = "commit" /\ job'[o].pc = "commit" => job'[o].room # job'[q].room
    BY <2>1, <2>3, <2>5 DEF RoomsAtCheckIn
  <2> QED BY <2>7, <2>8, <2>9, <2>10 DEF RoomsAtCheckIn, Overlap
<1>3. CASE CheckInCommits(p)
  <2> DEFINE room == job[p].room
             to == job[p].to
  <2>0. job'[p] = IdleJob /\ \A q \in Porters \ {p} : job'[q] = job[q]
    BY <1>3, SetOwn DEF CheckInCommits
  <2>1. /\ job[p].pc = "commit" /\ room # NoRoom /\ \A b, c \in job[p].on : b = c
        /\ \A b \in job[p].on, c \in Bookings :
              b # c /\ assigned[c].room = room => ~Overlap(assigned[c], to)
        /\ \A q \in Porters \ {p} : job[q].pc = "commit" => job[q].room # room
    BY <1>3 DEF CheckInCommits, RoomsAtCheckIn
  <2>2. \A b \in Bookings : b \in job[p].on =>
           /\ status'[b] = "checked_in" /\ assigned'[b].room = room
           /\ assigned'[b].from = to.from /\ assigned'[b].to = to.to
    BY <1>3, <2>1 DEF CheckInCommits
  <2>3. \A b \in Bookings : b \notin job[p].on =>
           status'[b] = status[b] /\ assigned'[b] = assigned[b]
    BY <1>3 DEF CheckInCommits
  <2>4. RoomTakenOnce'
    <3> SUFFICES ASSUME NEW b \in Bookings, NEW c \in Bookings, b # c,
                        assigned'[b].room = assigned'[c].room, assigned'[b].room # NoRoom,
                        status'[b] \in ACTIVE_BOOKING_STATUSES,
                        status'[c] \in ACTIVE_BOOKING_STATUSES
                 PROVE  ~Overlap(assigned'[b], assigned'[c])
      BY DEF RoomTakenOnce, Overlap
    <3>1. CASE b \in job[p].on /\ c \notin job[p].on
      <4>1. assigned[c].room = room
        BY <2>2, <2>3, <3>1
      <4>2. ~Overlap(assigned[c], to)
        BY <2>1, <3>1, <4>1
      <4> HIDE DEF room, to
      <4> QED BY <2>2, <2>3, <3>1, <4>2 DEF Overlap
    <3>2. CASE b \notin job[p].on /\ c \in job[p].on
      <4>1. assigned[b].room = room
        BY <2>2, <2>3, <3>2
      <4>2. ~Overlap(assigned[b], to)
        BY <2>1, <3>2, <4>1
      <4> HIDE DEF room, to
      <4> QED BY <2>2, <2>3, <3>2, <4>2 DEF Overlap
    <3>3. CASE b \notin job[p].on /\ c \notin job[p].on
      BY <2>3, <3>3 DEF RoomTakenOnce
    <3> QED BY <2>1, <3>1, <3>2, <3>3
  <2>5. \A b \in Bookings : assigned'[b].room # NoRoom => InOrOut(b)'
    BY <2>2, <2>3 DEF RoomsAtCheckIn, InOrOut
  <2>6. ASSUME NEW q \in Porters, job'[q].pc = "commit"
        PROVE  /\ q # p /\ job'[q] = job[q] /\ job'[q].room # NoRoom
               /\ \A c, d \in job'[q].on : c = d
               /\ \A c \in job'[q].on, d \in Bookings :
                     c # d /\ assigned'[d].room = job'[q].room
                        => ~Overlap(assigned'[d], job'[q].to)
    <3>1. q # p /\ job'[q] = job[q]
      BY <2>0, <2>6 DEF IdleJob
    <3>2. job[q].room # NoRoom /\ \A c, d \in job[q].on : c = d
      BY <2>6, <3>1 DEF RoomsAtCheckIn
    <3>3. ASSUME NEW c \in job[q].on, NEW d \in Bookings, c # d,
                 assigned'[d].room = job[q].room
          PROVE  ~Overlap(assigned'[d], job[q].to)
      <4>1. d \notin job[p].on
        BY <2>1, <2>2, <2>6, <3>1, <3>3
      <4> QED BY <2>3, <2>6, <3>1, <3>3, <4>1 DEF RoomsAtCheckIn
    <3> QED BY <3>1, <3>2, <3>3
  <2>7. \A q, o \in Porters :
           o # q /\ job'[q].pc = "commit" /\ job'[o].pc = "commit" => job'[o].room # job'[q].room
    BY <2>6 DEF RoomsAtCheckIn
  <2> QED BY <2>4, <2>5, <2>6, <2>7 DEF RoomsAtCheckIn, Overlap
<1> QED BY <1>1, <1>2, <1>3 DEF CheckIn

LEMMA RoomsStep ==
    ASSUME NobodyPicks, Movers = {}, TypeOK, TypeOK', CartsLocked, OverridersSound,
           RoomsAtCheckIn, RoomTakenOnce, [Next]_vars
    PROVE  RoomsAtCheckIn' /\ RoomTakenOnce'
<1> DEFINE Done == RoomsAtCheckIn' /\ RoomTakenOnce'
           Quiet == \A p \in Porters : job'[p].pc = "commit" => job'[p] = job[p]
<1> job \in [Handlers -> Job] /\ Porters \subseteq Handlers /\ IdleJob \in Job
  BY IdleJobIsJob DEF TypeOK, Handlers
<1>0. IdleJob.pc = "idle"
  BY DEF IdleJob
<1>1. ASSUME NEW b \in Bookings,
             \/ status'[b] = status[b] /\ assigned'[b] = assigned[b]
             \/ ~InOrOut(b) /\ assigned'[b] = assigned[b]
      PROVE  KeepsAtMost(b)
  <2>1. assigned[b].to <= assigned[b].to
    BY DatesAreInts
  <2>2. CASE assigned[b].room = NoRoom
    BY <1>1, <2>2 DEF KeepsAtMost
  <2>3. CASE assigned[b].room # NoRoom
    <3>1. InOrOut(b)
      BY <2>3 DEF RoomsAtCheckIn
    <3> QED BY <1>1, <2>1, <3>1 DEF KeepsAtMost, InOrOut
  <2> QED BY <2>2, <2>3
<1>2. ASSUME NEW h \in Handlers, h \notin Porters, NEW x, Set(h, x) PROVE Quiet
  BY <1>2 DEF Set
<1>3. ASSUME UNCHANGED rows PROVE \A b \in Bookings : KeepsAtMost(b)
  BY <1>1, <1>3 DEF rows
<1>4. ASSUME NEW h \in Sellers, Sale(h) PROVE Done
  <2>1. Quiet
    <3>1. h \in Handlers /\ h \notin Porters
      BY HandlersAssumption DEF Sellers, Handlers
    <3>2. PICK x : Set(h, x)
      BY <1>4 DEF Sale, SaleAdvances, SaleOpens, TakeLock, RowsRead, SeesDates, SeesRooms,
                  CartChecked, CartRefused, CartBooked
    <3> QED BY <1>2, <3>1, <3>2
  <2>2. CASE UNCHANGED rows
    BY <1>3, <2>1, <2>2, RoomsLeft
  <2>3. CASE CartBooked(h)
    <3>1. PICK cart \in CartsOf(h) : job[h].cart = cart
      BY <2>3, CartWritten
    <3>2. PICK made, f, r : RowsWritten(h, cart, made, f, r)
      BY <2>3, <3>1, CartWritten
    <3>3. \A i \in DOMAIN cart : cart[i].picked = {}
      BY DEF NobodyPicks, CartsOf
    <3>4. ASSUME NEW b \in made PROVE assigned'[b].room = NoRoom
      <4>1. f[b] \in DOMAIN cart /\ b \in DOMAIN f
        BY <3>2 DEF RowsWritten
      <4>2. r[b] = NoRoom
        BY <3>2, <3>3, <4>1 DEF RowsWritten, Placement
      <4> QED BY <3>2, <4>2 DEF RowsWritten
    <3>5. \A b \in Bookings : KeepsAtMost(b)
      BY <1>1, <3>2, <3>4 DEF RowsWritten, KeepsAtMost
    <3> QED BY <2>1, <3>5, RoomsLeft
  <2> QED BY <1>4, <2>2, <2>3
       DEF Sale, SaleAdvances, SaleOpens, TakeLock, RowsRead, SeesDates, SeesRooms,
           CartChecked, CartRefused
<1>5. ASSUME NEW h \in Handlers, HandlerFails(h) PROVE Done
  <2>1. Quiet
    BY <1>0, <1>5, SetOwn DEF HandlerFails
  <2>2. \A b \in Bookings : KeepsAtMost(b)
    BY <1>3, <1>5 DEF HandlerFails
  <2> QED BY <2>1, <2>2, RoomsLeft
<1>6. ASSUME NEW b \in Bookings,
             PaymentConfirms(b) \/ HoldReleased(b) \/ CancelBooking(b) \/ MarkNoShow(b)
      PROVE  Done
  <2>1. Quiet
    BY <1>6 DEF PaymentConfirms, HoldReleased, CancelBooking, MarkNoShow
  <2>2. \A c \in Bookings : /\ assigned'[c] = assigned[c]
                            /\ status'[c] = status[c] \/ ~InOrOut(c)
    BY <1>6 DEF PaymentConfirms, HoldReleased, CancelBooking, MarkNoShow, TypeOK, InOrOut
  <2>3. \A c \in Bookings : KeepsAtMost(c)
    BY <1>1, <2>2
  <2> QED BY <2>1, <2>3, RoomsLeft
<1>7. ASSUME NEW p \in Porters, CheckIn(p) PROVE Done
  BY <1>7, CheckInStep
<1>8. ASSUME NEW p \in Porters, Departure(p) PROVE Done
  <2>1. ASSUME NEW b \in Bookings, CheckOutOpens(p, b) PROVE Done
    <3> DEFINE x == [IdleJob EXCEPT !.pc = "leave", !.on = {b}, !.to = stay[b]]
    <3>1. x \in Job /\ x.pc = "leave"
      BY DEF Job, IdleJob, TypeOK
    <3>2. Set(p, x) /\ UNCHANGED rows
      BY <2>1 DEF CheckOutOpens
    <3> HIDE DEF x
    <3>3. Quiet
      BY <3>1, <3>2, SetOwn
    <3> QED BY <1>3, <3>2, <3>3, RoomsLeft
  <2>2. CASE CheckOutCommits(p)
    <3>1. Quiet
      BY <1>0, <2>2, SetOwn DEF CheckOutCommits
    <3>2. ASSUME NEW b \in Bookings PROVE KeepsAtMost(b)
      <4>1. CASE b \notin job[p].on
        BY <1>1, <2>2, <4>1 DEF CheckOutCommits
      <4>2. CASE b \in job[p].on
        <5>1. status'[b] = "checked_out"
          BY <2>2, <4>2 DEF CheckOutCommits
        <5>2. assigned'[b] = assigned[b] \/ (assigned'[b] = [assigned[b] EXCEPT !.to = today]
                                               /\ today < assigned[b].to)
          BY <2>2 DEF CheckOutCommits
        <5>3. /\ assigned[b] \in [room : Rooms \cup {NoRoom}, from : Dates, to : Dates]
              /\ assigned[b].to \in Int /\ today \in Int
          BY DatesAreInts DEF TypeOK
        <5>4. /\ assigned'[b].room = assigned[b].room
              /\ assigned'[b].from = assigned[b].from /\ assigned'[b].to <= assigned[b].to
          BY <5>2, <5>3
        <5>5. assigned[b].room # NoRoom => InOrOut(b)
          BY DEF RoomsAtCheckIn
        <5> QED BY <5>1, <5>4, <5>5 DEF KeepsAtMost, InOrOut
      <4> QED BY <4>1, <4>2
    <3> QED BY <3>1, <3>2, RoomsLeft
  <2> QED BY <1>8, <2>1, <2>2 DEF Departure
<1>9. ASSUME NEW o \in Overriders, Reinstate(o) PROVE Done
  <2>1. Quiet
    <3>1. o \in Handlers /\ o \notin Porters
      BY HandlersAssumption DEF Handlers
    <3>2. PICK x : Set(o, x)
      BY <1>9 DEF Reinstate, ReinstateChecked, Reinstated
    <3> QED BY <1>2, <3>1, <3>2
  <2>2. CASE UNCHANGED rows
    BY <1>3, <2>1, <2>2, RoomsLeft
  <2>3. CASE Reinstated(o)
    <3>1. \A b \in job[o].on : status[b] \in {"cancelled", "no_show"}
      BY <2>3 DEF Reinstated, OverridersSound
    <3>2. \A b \in Bookings : /\ assigned'[b] = assigned[b]
                              /\ status'[b] = status[b] \/ ~InOrOut(b)
      BY <2>3, <3>1 DEF Reinstated, InOrOut
    <3>3. \A b \in Bookings : KeepsAtMost(b)
      BY <1>1, <3>2
    <3> QED BY <2>1, <3>3, RoomsLeft
  <2> QED BY <1>9, <2>2, <2>3 DEF Reinstate, ReinstateChecked
<1>10. ASSUME NightPasses \/ UNCHANGED vars PROVE Done
  <2>1. Quiet /\ UNCHANGED rows
    BY <1>10 DEF NightPasses, vars
  <2> QED BY <1>3, <2>1, RoomsLeft
<1> HIDE DEF Done
<1>11. CASE Next
  BY <1>4, <1>5, <1>6, <1>7, <1>8, <1>9, <1>10, <1>11 DEF Next, Done
<1> QED BY <1>10, <1>11 DEF Done

LEMMA RoomsInit == Init => RoomsAtCheckIn /\ RoomTakenOnce
<1> SUFFICES ASSUME Init PROVE RoomsAtCheckIn /\ RoomTakenOnce
  OBVIOUS
<1>1. \A p \in Porters : job[p].pc = "idle"
  BY DEF Init, IdleJob, Handlers
<1>2. \A b \in Bookings : assigned[b].room = NoRoom
  BY DEF Init
<1> QED BY <1>1, <1>2 DEF RoomsAtCheckIn, RoomTakenOnce

LEMMA CartsInit == Init => CartsLocked
<1>1. Init => \A h \in Handlers : job[h].pc = "idle"
  BY DEF Init, IdleJob
<1> QED BY <1>1 DEF CartsLocked, MayCommit, Handlers

(* Two desks that check in, and whoever sells, cancels, reinstates or checks *)
(* out meanwhile, never give one room to two stays of one night, as long as  *)
(* rooms are chosen at check-in (front-desk.ts:212, the lock `room:<room>`). *)
THEOREM CheckInsShareNoRoom ==
    ASSUME NobodyPicks, Movers = {}
    PROVE  Spec => []RoomTakenOnce
<1>1. TypeOK /\ TypeOK' /\ CartsLocked /\ OverridersSound /\ RoomsAtCheckIn /\ RoomTakenOnce
        /\ [Next]_vars => RoomsAtCheckIn' /\ RoomTakenOnce'
  BY RoomsStep
<1>2. Init => OverridersSound
  BY DEF Init, OverridersSound, IdleJob, Handlers
<1>3. Spec => []IInv
  BY Invariance
<1>4. IInv => TypeOK /\ LocksSound
  BY DEF IInv
<1>5. Spec => [](CartsLocked /\ OverridersSound)
  BY <1>2, <1>3, <1>4, CartsInit, CartsStep, OverridersStep, PTL DEF Spec
<1> QED BY <1>1, <1>3, <1>4, <1>5, RoomsInit, PTL DEF Spec

-----------------------------------------------------------------------------
(* Rooms picked at the desk *)

(* Rooms are given when a booking is made at the desk, and nowhere else:    *)
(* check-in looks under `room:<room>`, which is no key a sale takes.        *)
OnlyDeskPicks ==
    /\ \A cart \in WebCarts : \A i \in DOMAIN cart : cart[i].picked = {}
    /\ Porters = {} /\ Movers = {} /\ Overriders = {}

Active(b) == status[b] \in ACTIVE_BOOKING_STATUSES

(* The rooms picked for a sale about to commit are free for its dates.      *)
PicksFree ==
    \A h \in Sellers : \A cart \in CartsOf(h) :
        job[h].pc = "commit" /\ job[h].cart = cart =>
            \A i \in DOMAIN cart : \A room \in cart[i].picked :
                /\ TypeOf[room] = cart[i].type
                /\ Cardinality(cart[i].picked) = cart[i].count
                /\ \A b \in Bookings :
                      assigned[b].room = room /\ Active(b) => ~Overlap(assigned[b], cart[i])

(* Bookings keep their rooms or stop counting.                              *)
LEMMA PicksKept ==
    ASSUME PicksFree, RoomTakenOnce, assigned' = assigned,
           \A b \in Bookings : Active(b)' => Active(b),
           \A h \in Sellers : job'[h].pc = "commit" => job'[h] = job[h]
    PROVE  PicksFree' /\ RoomTakenOnce'
<1>1. RoomTakenOnce'
  BY DEF RoomTakenOnce, Active
<1>2. PicksFree'
  <2> SUFFICES ASSUME NEW h \in Sellers, NEW cart \in CartsOf(h),
                      job'[h].pc = "commit", job'[h].cart = cart,
                      NEW i \in DOMAIN cart, NEW room \in cart[i].picked
               PROVE  /\ TypeOf[room] = cart[i].type
                      /\ Cardinality(cart[i].picked) = cart[i].count
                      /\ \A b \in Bookings :
                            assigned'[b].room = room /\ Active(b)'
                                => ~Overlap(assigned'[b], cart[i])
    BY DEF PicksFree, CartsOf, Overlap
  <2>1. job[h].pc = "commit" /\ job[h].cart = cart
    OBVIOUS
  <2> QED BY <2>1 DEF PicksFree
<1> QED BY <1>1, <1>2

LEMMA PicksChecked ==
    ASSUME OnlyDeskPicks, TypeOK, PicksFree, NEW h \in Sellers, CartChecked(h)
    PROVE  PicksFree'
<1> SUFFICES ASSUME NEW g \in Sellers, NEW cart \in CartsOf(g),
                    job'[g].pc = "commit", job'[g].cart = cart,
                    NEW i \in DOMAIN cart, NEW room \in cart[i].picked
             PROVE  /\ TypeOf[room] = cart[i].type
                    /\ Cardinality(cart[i].picked) = cart[i].count
                    /\ \A b \in Bookings :
                          assigned[b].room = room /\ Active(b)
                              => ~Overlap(assigned[b], cart[i])
  BY DEF PicksFree, CartsOf, CartChecked, rows, Active, Overlap
<1>1. CASE g # h
  <2>1. job'[g] = job[g]
    BY <1>1, CartPassed
  <2> QED BY <2>1 DEF PicksFree
<1>2. CASE g = h
  <2>1. job[h].cart = cart
    BY <1>2, CartPassed
  <2>2. h \notin Shoppers /\ DeskCartFits(h)
    BY <1>2, <2>1 DEF OnlyDeskPicks, CartsOf, CartChecked
  <2>3. /\ TypeOf[room] = cart[i].type /\ Cardinality(cart[i].picked) = cart[i].count
        /\ ~Taken(room, cart[i], {})
    BY <2>1, <2>2 DEF DeskCartFits
  <2>4. cart[i].from \in Int /\ cart[i].to \in Int
    <3>1. cart[i] \in Line
      BY CartLines
    <3> QED BY <3>1, RoomsAssumption DEF Line, Dates
  <2>5. \A b \in Bookings : assigned[b].room = room /\ Active(b) => ~Overlap(assigned[b], cart[i])
    <3> SUFFICES ASSUME NEW b \in Bookings, assigned[b].room = room, Active(b)
                 PROVE  ~Overlap(assigned[b], cart[i])
      OBVIOUS
    <3>1. b \in Bookings \ {}
      OBVIOUS
    <3> QED BY <2>3, <2>4, <3>1, NotTaken DEF Active
  <2> QED BY <2>3, <2>5
<1> QED BY <1>1, <1>2

(* Rows of one line are given different rooms. *)
LEMMA LineRoomsDiffer ==
    ASSUME NEW h \in Sellers, NEW cart \in CartsOf(h),
           NEW made, NEW f, NEW r, RowsWritten(h, cart, made, f, r),
           NEW i \in DOMAIN cart, cart[i].picked # {},
           Cardinality(cart[i].picked) = cart[i].count,
           NEW b \in made, NEW c \in made, f[b] = i, f[c] = i, r[b] = r[c]
    PROVE  b = c
<1> DEFINE mine == {d \in made : f[d] = i}
           given == [d \in mine |-> r[d]]
<1>1. DOMAIN f = made /\ IsFiniteSet(made)
  BY RoomsAssumption, FS_Subset DEF RowsWritten
<1>2. Cardinality(mine) = cart[i].count /\ {r[d] : d \in mine} = cart[i].picked
  BY <1>1 DEF RowsWritten, Placement
<1>3. IsFiniteSet(mine)
  BY <1>1, FS_Subset
<1>4. given \in Surjection(mine, cart[i].picked)
  <2>1. given \in [mine -> cart[i].picked]
    BY <1>2
  <2>2. \A t \in cart[i].picked : \E d \in mine : given[d] = t
    BY <1>2
  <2> QED BY <2>1, <2>2 DEF Surjection
<1>5. b \in mine /\ c \in mine /\ given[b] = given[c]
  OBVIOUS
<1> HIDE DEF mine, given
<1>6. given \in Injection(mine, cart[i].picked)
  BY <1>2, <1>3, <1>4, FS_SurjSameCardinalityImpliesInj
<1> QED BY <1>5, <1>6 DEF Injection, IsInjective

LEMMA PicksBooked ==
    ASSUME OnlyDeskPicks, CartsApart, TypeOK, LocksSound, CartsLocked, PicksFree,
           RoomTakenOnce, NEW h \in Sellers, CartBooked(h)
    PROVE  PicksFree' /\ RoomTakenOnce'
<1>1. PICK cart \in CartsOf(h) : job[h].cart = cart /\ job[h].pc = "commit"
  BY CartWritten
<1>2. PICK made, f, r : RowsWritten(h, cart, made, f, r)
  BY <1>1, CartWritten
<1>3. job'[h].pc = "idle" /\ \A g \in Sellers \ {h} : job'[g] = job[g]
  BY CartWritten
(* What a new row with a room is. *)
<1>4. ASSUME NEW b \in made, assigned'[b].room # NoRoom
      PROVE  /\ f[b] \in DOMAIN cart /\ assigned'[b].room = r[b]
             /\ r[b] \in cart[f[b]].picked /\ TypeOf[r[b]] = cart[f[b]].type
             /\ Cardinality(cart[f[b]].picked) = cart[f[b]].count
             /\ SameDates(assigned'[b], cart[f[b]])
  <2>1. /\ f[b] \in DOMAIN cart /\ assigned'[b].room = r[b] /\ DOMAIN f = made
        /\ SameDates(assigned'[b], cart[f[b]])
    BY <1>2 DEF RowsWritten
  <2>2. r[b] \in cart[f[b]].picked
    <3> DEFINE mine == {d \in made : f[d] = f[b]}
    <3>1. IF cart[f[b]].picked = {} THEN \A d \in mine : r[d] = NoRoom
          ELSE {r[d] : d \in mine} = cart[f[b]].picked
      BY <1>2, <2>1 DEF RowsWritten, Placement
    <3>2. b \in mine /\ r[b] # NoRoom
      BY <1>4, <2>1
    <3> HIDE DEF mine
    <3> QED BY <3>1, <3>2
  <2> QED BY <1>1, <2>1, <2>2 DEF PicksFree
<1>5. ASSUME NEW b \in made, assigned'[b].room # NoRoom,
             NEW c \in Bookings \ made, Active(c)', assigned'[c].room = assigned'[b].room
      PROVE  ~Overlap(assigned'[c], assigned'[b])
  <2>1. Active(c) /\ assigned'[c] = assigned[c]
    BY <1>2, <1>5 DEF RowsWritten, Active
  <2>2. ~Overlap(assigned[c], cart[f[b]])
    BY <1>1, <1>4, <1>5, <2>1 DEF PicksFree
  <2> QED BY <1>4, <1>5, <2>1, <2>2 DEF Overlap, SameDates
<1>6. ASSUME NEW b \in made, NEW c \in made, b # c, assigned'[b].room # NoRoom,
             assigned'[b].room = assigned'[c].room
      PROVE  ~Overlap(assigned'[b], assigned'[c])
  <2>1. f[b] # f[c]
    BY <1>2, <1>4, <1>6, LineRoomsDiffer
  <2>2. cart \in DeskCarts
    BY <1>4, <1>6 DEF OnlyDeskPicks, CartsOf
  <2>3. ~Overlap(cart[f[b]], cart[f[c]])
    BY <1>4, <1>6, <2>1, <2>2 DEF CartsApart
  <2> QED BY <1>4, <1>6, <2>3 DEF Overlap, SameDates
<1>7. RoomTakenOnce'
  <2> SUFFICES ASSUME NEW b \in Bookings, NEW c \in Bookings, b # c,
                      assigned'[b].room = assigned'[c].room, assigned'[b].room # NoRoom,
                      Active(b)', Active(c)'
               PROVE  ~Overlap(assigned'[b], assigned'[c])
    BY DEF RoomTakenOnce, Overlap, Active
  <2>1. CASE b \in made /\ c \in made
    BY <1>6, <2>1
  <2>2. CASE b \in made /\ c \notin made
    BY <1>5, <2>2 DEF Overlap
  <2>3. CASE b \notin made /\ c \in made
    BY <1>5, <2>3 DEF Overlap
  <2>4. CASE b \notin made /\ c \notin made
    BY <1>2, <2>4 DEF RowsWritten, RoomTakenOnce, Active
  <2> QED BY <2>1, <2>2, <2>3, <2>4
<1>8. PicksFree'
  <2> SUFFICES ASSUME NEW g \in Sellers, NEW other \in CartsOf(g),
                      job'[g].pc = "commit", job'[g].cart = other,
                      NEW i \in DOMAIN other, NEW room \in other[i].picked
               PROVE  /\ TypeOf[room] = other[i].type
                      /\ Cardinality(other[i].picked) = other[i].count
                      /\ \A b \in Bookings :
                            assigned'[b].room = room /\ Active(b)'
                                => ~Overlap(assigned'[b], other[i])
    BY DEF PicksFree, CartsOf, Overlap
  <2>1. g # h /\ job[g].pc = "commit" /\ job[g].cart = other
    BY <1>3
  <2>2. room # NoRoom
    <3>1. other[i] \in Line
      BY CartLines
    <3> QED BY <3>1, RoomsAssumption DEF Line
  <2>3. room \in job[g].locks
    BY <2>1 DEF CartsLocked, MayCommit, LocksOf
  <2>4. \A b \in made : assigned'[b].room # room
    <3> SUFFICES ASSUME NEW b \in made, assigned'[b].room = room PROVE FALSE
      OBVIOUS
    <3>1. f[b] \in DOMAIN cart /\ room \in cart[f[b]].picked
      BY <1>4, <2>2
    <3>2. room \in LocksOf(cart)
      BY <3>1 DEF LocksOf
    <3>3. room \in job[h].locks
      BY <1>1, <3>2 DEF CartsLocked, MayCommit
    <3> QED BY <2>1, <2>3, <3>3 DEF LocksSound
  <2>5. /\ TypeOf[room] = other[i].type /\ Cardinality(other[i].picked) = other[i].count
        /\ \A b \in Bookings :
              assigned[b].room = room /\ Active(b) => ~Overlap(assigned[b], other[i])
    BY <2>1 DEF PicksFree
  <2>6. \A b \in Bookings \ made : assigned'[b] = assigned[b] /\ (Active(b)' => Active(b))
    BY <1>2 DEF RowsWritten, Active
  <2> QED BY <2>4, <2>5, <2>6
<1> QED BY <1>7, <1>8

LEMMA PicksStep ==
    ASSUME OnlyDeskPicks, CartsApart, TypeOK, LocksSound, CartsLocked, PicksFree,
           RoomTakenOnce, [Next]_vars
    PROVE  PicksFree' /\ RoomTakenOnce'
<1> DEFINE Done == PicksFree' /\ RoomTakenOnce'
<1>0. IdleJob.pc = "idle"
  BY DEF IdleJob
<1>1. ASSUME NEW h \in Sellers, CartBooked(h) PROVE Done
  BY <1>1, PicksBooked
<1>2. ASSUME NEW h \in Sellers, CartChecked(h) PROVE Done
  <2>1. RoomTakenOnce'
    BY <1>2 DEF CartChecked, rows, RoomTakenOnce
  <2> QED BY <1>2, <2>1, PicksChecked
<1>3. ASSUME ~ \E h \in Sellers : CartBooked(h)
      PROVE  assigned' = assigned /\ \A b \in Bookings : Active(b)' => Active(b)
  <2> DEFINE Kept == assigned' = assigned /\ \A b \in Bookings : Active(b)' => Active(b)
  <2>1. ASSUME UNCHANGED rows PROVE Kept
    BY <2>1 DEF rows, Active
  <2>2. ASSUME NEW h \in Sellers, Sale(h) PROVE UNCHANGED rows
    BY <1>3, <2>2 DEF Sale, SaleAdvances, SaleOpens, TakeLock, RowsRead, SeesDates, SeesRooms,
                      CartChecked, CartRefused
  <2>3. ASSUME NEW h \in Handlers, HandlerFails(h) PROVE UNCHANGED rows
    BY <2>3 DEF HandlerFails
  <2>4. ASSUME NEW b \in Bookings,
               PaymentConfirms(b) \/ HoldReleased(b) \/ CancelBooking(b) \/ MarkNoShow(b)
        PROVE  Kept
    BY <2>4 DEF PaymentConfirms, HoldReleased, CancelBooking, MarkNoShow, TypeOK, Active,
                ACTIVE_BOOKING_STATUSES
  <2>5. ASSUME NightPasses \/ UNCHANGED vars PROVE UNCHANGED rows
    BY <2>5 DEF NightPasses, vars
  <2> HIDE DEF Kept
  <2>6. CASE Next
    <3>1. Porters = {} /\ Movers = {} /\ Overriders = {}
      BY DEF OnlyDeskPicks
    <3>2. UNCHANGED rows \/ Kept
      BY <2>2, <2>3, <2>4, <2>5, <2>6, <3>1 DEF Next
    <3> QED BY <2>1, <3>2 DEF Kept
  <2>7. CASE UNCHANGED vars
    BY <2>1, <2>5, <2>7 DEF Kept
  <2> QED BY <2>6, <2>7
<1>4. (\E h \in Sellers : CartChecked(h))
        \/ \A h \in Sellers : job'[h].pc = "commit" => job'[h] = job[h]
  <2>1. ASSUME NEW h \in Sellers, NEW cart \in CartsOf(h), SaleOpens(h, cart)
        PROVE  \A g \in Sellers : job'[g].pc = "commit" => job'[g] = job[g]
    BY <2>1, SaleOpened
  <2>2. ASSUME NEW h \in Sellers, TakeLock(h)
        PROVE  \A g \in Sellers : job'[g].pc = "commit" => job'[g] = job[g]
    BY <2>2, LockTaken
  <2>3. ASSUME NEW h \in Sellers, RowsRead(h)
        PROVE  \A g \in Sellers : job'[g].pc = "commit" => job'[g] = job[g]
    BY <2>3, SearchStarts
  <2> QED BY <1>0, <2>1, <2>2, <2>3, SalesElsewhere
<1> QED BY <1>1, <1>2, <1>3, <1>4, PicksKept

(* Two agents that book rooms by number, beside the sales of the site, never *)
(* give one room to two stays of one night (front-desk.ts:944, the key       *)
(* `room-id:<room>`).                                                        *)
THEOREM PicksShareNoRoom ==
    ASSUME OnlyDeskPicks, CartsApart
    PROVE  Spec => []RoomTakenOnce
<1>1. IInv /\ CartsLocked /\ PicksFree /\ RoomTakenOnce /\ [Next]_vars
        => CartsLocked' /\ PicksFree' /\ RoomTakenOnce'
  BY PicksStep, CartsStep DEF IInv
<1>2. Init => CartsLocked /\ PicksFree /\ RoomTakenOnce
  <2>1. Init => \A h \in Handlers : job[h].pc = "idle"
    BY DEF Init, IdleJob
  <2>2. Init => PicksFree
    BY <2>1 DEF PicksFree, Handlers
  <2> QED BY <2>2, CartsInit, RoomsInit
<1> QED BY <1>1, <1>2, Invariance, PTL DEF Spec
=============================================================================
