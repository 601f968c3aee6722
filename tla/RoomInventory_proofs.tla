------------------------ MODULE RoomInventory_proofs ------------------------
(***************************************************************************)
(* Proofs about RoomInventory, for any rooms, carts and handlers: the      *)
(* advisory locks of concurrent sales have one holder each and cannot      *)
(* deadlock, a guest in the house keeps the room, and a cancelled stay its *)
(* dates.                                                                  *)
(***************************************************************************)
EXTENDS RoomInventory, FiniteSetTheorems, WellFoundedInduction, TLAPS

(* An advisory lock has one holder, and the keys still to be taken sort     *)
(* after those already held.                                                *)
LocksSound ==
    \A h \in Sellers :
        /\ job[h].pc = "idle" => job[h].locks = {}
        /\ job[h].pc = "lock" => job[h].want # {}
        /\ \A k \in job[h].locks, l \in job[h].want : Rank[k] < Rank[l]
        /\ \A g \in Sellers : g # h => job[g].locks \cap job[h].locks = {}

(* A check-in about to commit works on a booking that is not in the house   *)
(* and that no other check-in holds (lock `checkin:<booking>`).             *)
PortersSound ==
    /\ \A p \in Porters : job[p].pc = "commit" =>
          \A b \in job[p].on : status[b] # "checked_in"
    /\ \A p, q \in Porters :
          p # q /\ job[p].pc = "commit" /\ job[q].pc = "commit" =>
              job[p].on \cap job[q].on = {}

IInv == TypeOK /\ LocksSound /\ PortersSound

-----------------------------------------------------------------------------
(* Constants and small facts *)

LEMMA NoStayIsStay == NoStay \in Stay
<1>1. PICK t \in Types : TRUE
  BY RoomsAssumption
<1>2. 1 \in Dates /\ 2 \in Dates
  BY RoomsAssumption DEF Dates
<1>3. [type |-> t, from |-> 1, to |-> 2] \in Stay
  BY <1>1, <1>2 DEF Stay
<1> QED BY <1>3 DEF NoStay

LEMMA IdleJobIsJob == IdleJob \in Job
BY NoStayIsStay DEF IdleJob, Job, Status, Unseen

(* Every step of a handler writes one record, its own. *)
LEMMA SetOwn ==
    ASSUME job \in [Handlers -> Job], NEW h \in Handlers, NEW r \in Job, Set(h, r)
    PROVE  /\ job' \in [Handlers -> Job]
           /\ job'[h] = r
           /\ \A g \in Handlers \ {h} : job'[g] = job[g]
BY DEF Set

LEMMA FiniteLockKeys == IsFiniteSet(LockKeys)
BY RoomsAssumption, FS_Union DEF LockKeys

(* In a family of subsets of a finite set one has no other strictly inside. *)
LEMMA MinimalSet ==
    ASSUME NEW S, IsFiniteSet(S), NEW I, I # {}, NEW F \in [I -> SUBSET S]
    PROVE  \E i \in I : \A j \in I : F[j] \subseteq F[i] => F[j] = F[i]
<1>1. IsWellFoundedOn(StrictSubsetOrdering(S), SUBSET S)
  BY FS_StrictSubsetOrderingWellFounded, FS_FiniteSubsetsOfFinite
<1>2. DEFINE T == {F[i] : i \in I}
<1>3. T \subseteq SUBSET S /\ T # {}
  OBVIOUS
<1>4. PICK x \in T : \A y \in T : <<y, x>> \notin StrictSubsetOrdering(S)
  <2> HIDE DEF T
  <2> QED BY <1>1, <1>3, WFMin
<1>5. PICK i \in I : x = F[i]
  OBVIOUS
<1>6. ASSUME NEW j \in I, F[j] \subseteq F[i], F[j] # F[i] PROVE FALSE
  <2>1. <<F[j], F[i]>> \in StrictSubsetOrdering(S)
    BY <1>6 DEF StrictSubsetOrdering
  <2> QED BY <2>1, <1>4, <1>5
<1> QED BY <1>6

(* The sort order of lockKeysFor picks one of the keys, the first. *)
LEMMA NextLockIsFirst ==
    ASSUME NEW h \in Handlers, job \in [Handlers -> Job], job[h].want # {}
    PROVE  /\ NextLock(h) \in job[h].want
           /\ \A l \in job[h].want : Rank[NextLock(h)] <= Rank[l]
<1>1. job[h].want \subseteq LockKeys
  BY DEF Job
<1>2. DEFINE F == [k \in job[h].want |-> {l \in LockKeys : Rank[l] < Rank[k]}]
<1>3. PICK k \in job[h].want : \A l \in job[h].want : F[l] \subseteq F[k] => F[l] = F[k]
  <2>1. F \in [job[h].want -> SUBSET LockKeys]
    OBVIOUS
  <2> HIDE DEF F
  <2> QED BY <2>1, FiniteLockKeys, MinimalSet
<1>4. ASSUME NEW l \in job[h].want PROVE Rank[k] <= Rank[l]
  <2>1. SUFFICES ASSUME Rank[l] < Rank[k] PROVE FALSE
    BY <1>1, RankAssumption
  <2>2. F[l] \subseteq F[k] /\ l \in F[k] /\ l \notin F[l]
    BY <1>1, <2>1, RankAssumption
  <2> QED BY <1>3, <2>2
<1> QED BY <1>4 DEF NextLock

(* A cart locks at least one key: lockKeysFor of a cart of one line or more. *)
LEMMA CartLocks ==
    ASSUME NEW cart \in WebCarts \cup DeskCarts
    PROVE  LocksOf(cart) \subseteq LockKeys /\ LocksOf(cart) # {}
<1>1. LocksOf(cart) \subseteq LockKeys
  BY CartsAssumption DEF LocksOf, Line, LockKeys
<1>2. PICK i \in DOMAIN cart : TRUE
  BY CartsAssumption
<1>3. cart[i].type \in LocksOf(cart)
  BY <1>2 DEF LocksOf
<1> QED BY <1>1, <1>3

(* A search goes on: the seller keeps cart and locks, nothing is written. *)
LEMMA SearchGoesOn ==
    ASSUME TypeOK, NEW h \in Sellers, RowsRead(h) \/ CartChecked(h)
    PROVE  /\ job' \in [Handlers -> Job]
           /\ job[h].pc \in {"read", "readRooms", "readDates"}
           /\ job'[h].pc \in {"readRooms", "readDates", "commit"}
           /\ job'[h].cart = job[h].cart
           /\ job'[h].want = job[h].want /\ job'[h].locks = job[h].locks
           /\ \A g \in Handlers \ {h} : job'[g] = job[g]
           /\ UNCHANGED <<rows, today>>
<1>0. h \in Handlers /\ job[h] \in Job /\ job \in [Handlers -> Job]
  BY DEF TypeOK, Handlers
<1>1. PICK pc \in {"readRooms", "readDates", "commit"}, s \in [Lines -> SUBSET Bookings] :
         Set(h, [job[h] EXCEPT !.pc = pc, !.seen = s])
  <2>1. CASE RowsRead(h)
    BY <2>1 DEF RowsRead, SeesDates, SeesRooms, BlockingByDates, BlockingByRoom
  <2>2. CASE CartChecked(h)
    BY <2>2 DEF CartChecked, Unseen
  <2> QED BY <2>1, <2>2
<1> DEFINE r == [job[h] EXCEPT !.pc = pc, !.seen = s]
<1>2. /\ r \in Job /\ r.pc = pc /\ r.cart = job[h].cart
      /\ r.want = job[h].want /\ r.locks = job[h].locks
  BY <1>0 DEF Job
<1> HIDE DEF r
<1>3. /\ job' \in [Handlers -> Job] /\ job'[h] = r
      /\ \A g \in Handlers \ {h} : job'[g] = job[g]
  BY <1>0, <1>1, <1>2, SetOwn DEF r
<1>4. job[h].pc \in {"read", "readRooms", "readDates"} /\ UNCHANGED <<rows, today>>
  BY DEF RowsRead, CartChecked
<1> QED BY <1>2, <1>3, <1>4

-----------------------------------------------------------------------------
(* Types *)

LEMMA SaleTypes ==
    ASSUME TypeOK, LocksSound, NEW h \in Sellers, Sale(h)
    PROVE  TypeOK'
<1> h \in Handlers
  BY DEF Handlers
<1>0. job[h] \in Job /\ IdleJob \in Job
  BY IdleJobIsJob DEF TypeOK
<1>1. ASSUME NEW cart \in CartsOf(h), SaleOpens(h, cart) PROVE TypeOK'
  <2>1. cart \in WebCarts \cup DeskCarts
    BY DEF CartsOf
  <2>2. LocksOf(cart) \subseteq LockKeys
    BY <2>1, CartLocks
  <2>3. [IdleJob EXCEPT !.pc = "lock", !.cart = cart, !.want = LocksOf(cart)] \in Job
    BY <2>1, <2>2, <1>0 DEF Job
  <2>4. job' \in [Handlers -> Job]
    BY <1>1, <2>3, SetOwn DEF SaleOpens, TypeOK
  <2> QED BY <1>1, <2>4 DEF TypeOK, SaleOpens, rows
<1>2. CASE TakeLock(h)
  <2> DEFINE k == NextLock(h)
             r == [job[h] EXCEPT !.want = @ \ {k}, !.locks = @ \cup {k},
                       !.pc = IF job[h].want = {k} THEN "read" ELSE "lock"]
  <2>1. k \in LockKeys
    BY <1>0, <1>2, NextLockIsFirst DEF TakeLock, LocksSound, TypeOK, Job
  <2> HIDE DEF k
  <2>2. r \in Job
    BY <1>0, <2>1 DEF Job
  <2>3. Set(h, r)
    BY <1>2 DEF TakeLock, k
  <2>4. job' \in [Handlers -> Job]
    BY <2>2, <2>3, SetOwn DEF TypeOK
  <2> QED BY <1>2, <2>4 DEF TypeOK, TakeLock, rows
<1>3. CASE RowsRead(h) \/ CartChecked(h)
  BY <1>3, SearchGoesOn DEF TypeOK, rows
<1>4. CASE CartRefused(h)
  <2>1. job' \in [Handlers -> Job]
    BY <1>0, <1>4, SetOwn DEF CartRefused, TypeOK
  <2> QED BY <1>4, <2>1 DEF TypeOK, CartRefused, rows
<1>5. CASE CartBooked(h)
  <2> DEFINE cart == job[h].cart
  <2>1. job' \in [Handlers -> Job]
    BY <1>0, <1>5, SetOwn DEF CartBooked, TypeOK
  <2>2. \A i \in DOMAIN cart : cart[i] \in Line
    <3>1. CASE cart = NoCart
      BY <3>1 DEF NoCart
    <3>2. CASE cart \in WebCarts \cup DeskCarts
      BY <3>2, CartsAssumption
    <3> QED BY <1>0, <3>1, <3>2 DEF Job
  <2> DEFINE Rows(made, f, r) ==
          LET line(b) == cart[f[b]] IN
          /\ status' = [b \in Bookings |-> IF b \notin made THEN status[b]
                          ELSE IF h \in Shoppers THEN "pending_payment" ELSE "confirmed"]
          /\ stay' = [b \in Bookings |-> IF b \notin made THEN stay[b]
                        ELSE [type |-> line(b).type, from |-> line(b).from, to |-> line(b).to]]
          /\ assigned' = [b \in Bookings |-> IF b \notin made THEN assigned[b]
                            ELSE [room |-> r[b], from |-> line(b).from, to |-> line(b).to]]
  <2>3a. PICK made \in SUBSET {b \in Bookings : status[b] = "none"} :
            \E f \in [made -> DOMAIN cart], r \in [made -> Rooms \cup {NoRoom}] :
               Rows(made, f, r)
    BY <1>5 DEF CartBooked
  <2>3. PICK f \in [made -> DOMAIN cart], r \in [made -> Rooms \cup {NoRoom}] :
            Rows(made, f, r)
    BY <2>3a
  <2> HIDE DEF cart
  <2>4. status' \in [Bookings -> Status]
    BY <2>3 DEF TypeOK, Status
  <2>5. \A b \in made : cart[f[b]] \in Line
    BY <2>2, <2>3
  <2>6. stay' \in [Bookings -> Stay]
    BY <2>3, <2>5 DEF TypeOK, Line, Stay
  <2>7. assigned' \in [Bookings -> [room : Rooms \cup {NoRoom}, from : Dates, to : Dates]]
    BY <2>3, <2>5 DEF TypeOK, Line
  <2> QED BY <1>5, <2>1, <2>4, <2>6, <2>7 DEF TypeOK, CartBooked
<1> QED BY <1>1, <1>2, <1>3, <1>4, <1>5 DEF Sale, SaleAdvances

LEMMA FrontDeskTypes ==
    ASSUME TypeOK, NEW p \in Porters, CheckIn(p) \/ Departure(p)
    PROVE  TypeOK'
<1> p \in Handlers
  BY DEF Handlers
<1>0. job[p] \in Job /\ IdleJob \in Job
  BY IdleJobIsJob DEF TypeOK
<1>1. ASSUME NEW b \in Bookings, CheckInReuses(p, b) PROVE TypeOK'
  <2>1. [IdleJob EXCEPT !.pc = "commit", !.on = {b}] \in Job
    BY <1>0 DEF Job
  <2>2. job' \in [Handlers -> Job]
    BY <1>1, <2>1, SetOwn DEF CheckInReuses, TypeOK
  <2> QED BY <1>1, <2>2 DEF TypeOK, CheckInReuses, rows
<1>2. ASSUME NEW b \in Bookings, NEW r \in Rooms, CheckInPicks(p, b, r) PROVE TypeOK'
  <2>1. [IdleJob EXCEPT !.pc = "commit", !.on = {b}, !.room = r, !.to = stay[b]] \in Job
    BY <1>0 DEF Job, TypeOK
  <2>2. job' \in [Handlers -> Job]
    BY <1>2, <2>1, SetOwn DEF CheckInPicks, TypeOK
  <2> QED BY <1>2, <2>2 DEF TypeOK, CheckInPicks, rows
<1>3. CASE CheckInCommits(p)
  <2>1. job' \in [Handlers -> Job]
    BY <1>0, <1>3, SetOwn DEF CheckInCommits, TypeOK
  <2>2. status' \in [Bookings -> Status]
    BY <1>3 DEF CheckInCommits, TypeOK, Status
  <2>3. assigned' \in [Bookings -> [room : Rooms \cup {NoRoom}, from : Dates, to : Dates]]
    BY <1>0, <1>3 DEF CheckInCommits, TypeOK, Job, Stay
  <2> QED BY <1>3, <2>1, <2>2, <2>3 DEF TypeOK, CheckInCommits
<1>4. ASSUME NEW b \in Bookings, CheckOutOpens(p, b) PROVE TypeOK'
  <2>1. [IdleJob EXCEPT !.pc = "leave", !.on = {b}, !.to = stay[b]] \in Job
    BY <1>0 DEF Job, TypeOK
  <2>2. job' \in [Handlers -> Job]
    BY <1>4, <2>1, SetOwn DEF CheckOutOpens, TypeOK
  <2> QED BY <1>4, <2>2 DEF TypeOK, CheckOutOpens, rows
<1>5. CASE CheckOutCommits(p)
  <2>1. job' \in [Handlers -> Job]
    BY <1>0, <1>5, SetOwn DEF CheckOutCommits, TypeOK
  <2>2. status' \in [Bookings -> Status]
    BY <1>5 DEF CheckOutCommits, TypeOK, Status
  <2>3. assigned' \in [Bookings -> [room : Rooms \cup {NoRoom}, from : Dates, to : Dates]]
    BY <1>5 DEF CheckOutCommits, TypeOK
  <2> QED BY <1>5, <2>1, <2>2, <2>3 DEF TypeOK, CheckOutCommits
<1> QED BY <1>1, <1>2, <1>3, <1>4, <1>5 DEF CheckIn, Departure

LEMMA StaffTypes ==
    ASSUME TypeOK, NEW h \in Movers \cup Overriders,
           (h \in Movers /\ Move(h)) \/ (h \in Overriders /\ Reinstate(h))
    PROVE  TypeOK'
<1> h \in Handlers
  BY DEF Handlers
<1>0. job[h] \in Job /\ IdleJob \in Job
  BY IdleJobIsJob DEF TypeOK
<1>1. ASSUME NEW b \in Bookings, NEW new \in Stay, NEW replan \in BOOLEAN,
             MovePlanned(h, b, new, replan)
      PROVE  TypeOK'
  <2>1. [IdleJob EXCEPT !.pc = "commit", !.on = {b}, !.to = new, !.was = status[b]] \in Job
    BY <1>0 DEF Job, TypeOK
  <2>2. job' \in [Handlers -> Job]
    BY <1>1, <2>1, SetOwn DEF MovePlanned, TypeOK
  <2> QED BY <1>1, <2>2 DEF TypeOK, MovePlanned, rows
<1>2. CASE MoveCommits(h)
  <2>1. job' \in [Handlers -> Job]
    BY <1>0, <1>2, SetOwn DEF MoveCommits, TypeOK
  <2>2. stay' \in [Bookings -> Stay]
    BY <1>0, <1>2 DEF MoveCommits, TypeOK, Job
  <2>3. job[h].to.to \in Dates
    BY <1>0 DEF Job, Stay
  <2>4. assigned' \in [Bookings -> [room : Rooms \cup {NoRoom}, from : Dates, to : Dates]]
    BY <1>2, <2>3 DEF MoveCommits, TypeOK
  <2> QED BY <1>2, <2>1, <2>2, <2>4 DEF TypeOK, MoveCommits
<1>3. ASSUME NEW b \in Bookings, ReinstateChecked(h, b) PROVE TypeOK'
  <2>1. [IdleJob EXCEPT !.pc = "commit", !.on = {b}, !.was = status[b]] \in Job
    BY <1>0 DEF Job, TypeOK
  <2>2. job' \in [Handlers -> Job]
    BY <1>3, <2>1, SetOwn DEF ReinstateChecked, TypeOK
  <2> QED BY <1>3, <2>2 DEF TypeOK, ReinstateChecked, rows
<1>4. CASE Reinstated(h)
  <2>1. job' \in [Handlers -> Job]
    BY <1>0, <1>4, SetOwn DEF Reinstated, TypeOK
  <2>2. status' \in [Bookings -> Status]
    BY <1>4 DEF Reinstated, TypeOK, Status
  <2> QED BY <1>4, <2>1, <2>2 DEF TypeOK, Reinstated
<1> QED BY <1>1, <1>2, <1>3, <1>4 DEF Move, Reinstate

LEMMA TypeStep == TypeOK /\ LocksSound /\ [Next]_vars => TypeOK'
<1> SUFFICES ASSUME TypeOK, LocksSound, [Next]_vars PROVE TypeOK'
  OBVIOUS
<1>1. ASSUME NEW h \in Handlers, HandlerFails(h) PROVE TypeOK'
  <2>1. job' \in [Handlers -> Job]
    BY <1>1, IdleJobIsJob, SetOwn DEF HandlerFails, TypeOK
  <2> QED BY <1>1, <2>1 DEF TypeOK, HandlerFails, rows
<1>2. ASSUME NEW b \in Bookings,
             PaymentConfirms(b) \/ HoldReleased(b) \/ CancelBooking(b) \/ MarkNoShow(b)
      PROVE  TypeOK'
  BY <1>2 DEF TypeOK, Status, PaymentConfirms, HoldReleased, CancelBooking, MarkNoShow
<1>3. CASE NightPasses
  <2>1. today' \in Dates
    BY <1>3, RoomsAssumption DEF NightPasses, TypeOK, Dates
  <2> QED BY <1>3, <2>1 DEF TypeOK, NightPasses, rows
<1>4. CASE UNCHANGED vars
  BY <1>4 DEF TypeOK, vars, rows
<1>5. ASSUME NEW h \in Sellers, Sale(h) PROVE TypeOK'
  BY <1>5, SaleTypes
<1>6. ASSUME NEW p \in Porters, CheckIn(p) \/ Departure(p) PROVE TypeOK'
  BY <1>6, FrontDeskTypes
<1>7. ASSUME NEW m \in Movers, Move(m) PROVE TypeOK'
  <2>1. m \in Movers \cup Overriders
    OBVIOUS
  <2> QED BY <1>7, <2>1, StaffTypes
<1>8. ASSUME NEW o \in Overriders, Reinstate(o) PROVE TypeOK'
  BY <1>8, StaffTypes
<1> QED BY <1>1, <1>2, <1>3, <1>4, <1>5, <1>6, <1>7, <1>8 DEF Next

-----------------------------------------------------------------------------
(* Locks *)

(* Steps of anybody but a seller leave the sellers' progress alone. *)
LEMMA SellersUntouched ==
    ASSUME LocksSound, \A h \in Sellers : job'[h] = job[h]
    PROVE  LocksSound'
BY DEF LocksSound

LEMMA LocksStep == TypeOK /\ LocksSound /\ [Next]_vars => LocksSound'
<1> SUFFICES ASSUME TypeOK, LocksSound, [Next]_vars PROVE LocksSound'
  OBVIOUS
<1> IdleJob \in Job /\ Sellers \subseteq Handlers
  BY IdleJobIsJob DEF Handlers
(* A seller that lets go of everything. *)
<1>0. ASSUME NEW h \in Sellers, Set(h, IdleJob) PROVE LocksSound'
  <2>1. job'[h] = IdleJob /\ \A g \in Sellers \ {h} : job'[g] = job[g]
    BY <1>0, SetOwn DEF TypeOK
  <2> QED BY <2>1 DEF LocksSound, IdleJob
<1>1. ASSUME NEW h \in Sellers, NEW cart \in CartsOf(h), SaleOpens(h, cart)
      PROVE  LocksSound'
  <2> DEFINE r == [IdleJob EXCEPT !.pc = "lock", !.cart = cart, !.want = LocksOf(cart)]
  <2>1. cart \in WebCarts \cup DeskCarts
    BY DEF CartsOf
  <2>2. LocksOf(cart) \subseteq LockKeys /\ LocksOf(cart) # {}
    BY <2>1, CartLocks
  <2>3. r \in Job
    BY <2>1, <2>2 DEF Job
  <2>4. r.pc = "lock" /\ r.want # {} /\ r.locks = {}
    BY <2>2 DEF IdleJob
  <2>5. Set(h, r)
    BY <1>1 DEF SaleOpens
  <2> HIDE DEF r
  <2>6. job'[h] = r /\ \A g \in Sellers \ {h} : job'[g] = job[g]
    BY <2>3, <2>5, SetOwn DEF TypeOK
  <2> QED BY <2>4, <2>6 DEF LocksSound
<1>2. ASSUME NEW h \in Sellers, TakeLock(h) PROVE LocksSound'
  <2> DEFINE k == NextLock(h)
             r == [job[h] EXCEPT !.want = @ \ {k}, !.locks = @ \cup {k},
                       !.pc = IF job[h].want = {k} THEN "read" ELSE "lock"]
  <2>0. job[h] \in Job /\ job \in [Handlers -> Job]
    BY DEF TypeOK
  <2>1. k \in job[h].want /\ \A l \in job[h].want : Rank[k] <= Rank[l]
    BY <1>2, <2>0, NextLockIsFirst DEF TakeLock, LocksSound
  <2>2. \A g \in Sellers \ {h} : k \notin job[g].locks
    BY <1>2 DEF TakeLock, LockFree
  <2>3. Set(h, r)
    BY <1>2 DEF TakeLock
  <2> HIDE DEF k
  <2>4. r \in Job
    BY <2>0, <2>1 DEF Job
  <2>5. /\ r.want = job[h].want \ {k} /\ r.locks = job[h].locks \cup {k}
        /\ r.pc \in {"read", "lock"} /\ (r.pc = "lock" => job[h].want # {k})
    BY <2>0 DEF Job
  <2> HIDE DEF r
  <2>6. job'[h] = r /\ \A g \in Sellers \ {h} : job'[g] = job[g]
    BY <2>0, <2>3, <2>4, SetOwn
  <2>7. \A i \in r.locks, l \in r.want : Rank[i] < Rank[l]
    <3>1. job[h].want \subseteq LockKeys
      BY <2>0 DEF Job
    <3>2. ASSUME NEW l \in job[h].want \ {k} PROVE Rank[k] < Rank[l]
      <4>1. Rank[k] \in Nat /\ Rank[l] \in Nat /\ Rank[k] # Rank[l]
        BY <2>1, <3>1, RankAssumption
      <4> QED BY <2>1, <4>1
    <3> QED BY <2>5, <3>2 DEF LocksSound
  <2>8. \A g \in Sellers \ {h} : job[g].locks \cap r.locks = {}
    BY <2>2, <2>5 DEF LocksSound
  <2> QED BY <2>1, <2>5, <2>6, <2>7, <2>8 DEF LocksSound
<1>3. ASSUME NEW h \in Sellers, RowsRead(h) \/ CartChecked(h) PROVE LocksSound'
  <2>1. /\ job[h].pc # "idle" /\ job'[h].pc \notin {"idle", "lock"}
        /\ job'[h].want = job[h].want /\ job'[h].locks = job[h].locks
        /\ \A g \in Sellers \ {h} : job'[g] = job[g]
    BY <1>3, SearchGoesOn
  <2>2. \A g \in Sellers :
           /\ job'[g].locks = job[g].locks /\ job'[g].want = job[g].want
           /\ job'[g].pc = job[g].pc \/ job'[g].pc \notin {"idle", "lock"}
    BY <2>1
  <2> QED BY <2>2 DEF LocksSound
<1>4. ASSUME NEW h \in Sellers, CartRefused(h) \/ CartBooked(h) PROVE LocksSound'
  BY <1>0, <1>4 DEF CartRefused, CartBooked
<1>5. ASSUME NEW h \in Handlers, HandlerFails(h) PROVE LocksSound'
  <2>1. CASE h \in Sellers
    BY <1>0, <1>5, <2>1 DEF HandlerFails
  <2>2. CASE h \notin Sellers
    BY <1>5, <2>2, SellersUntouched DEF HandlerFails, Set, TypeOK
  <2> QED BY <2>1, <2>2
<1>6. ASSUME NEW p \in Porters, CheckIn(p) \/ Departure(p) PROVE LocksSound'
  <2>1. p \notin Sellers
    BY HandlersAssumption DEF Sellers
  <2>2. PICK r : Set(p, r)
    BY <1>6 DEF CheckIn, Departure, CheckInReuses, CheckInPicks, CheckInCommits,
                CheckOutOpens, CheckOutCommits
  <2> QED BY <2>1, <2>2, SellersUntouched DEF Set, TypeOK
<1>7. ASSUME NEW m \in Movers, Move(m) PROVE LocksSound'
  <2>1. m \notin Sellers
    BY HandlersAssumption DEF Sellers
  <2>2. PICK r : Set(m, r)
    BY <1>7 DEF Move, MovePlanned, MoveCommits
  <2> QED BY <2>1, <2>2, SellersUntouched DEF Set, TypeOK
<1>8. ASSUME NEW o \in Overriders, Reinstate(o) PROVE LocksSound'
  <2>1. o \notin Sellers
    BY HandlersAssumption DEF Sellers
  <2>2. PICK r : Set(o, r)
    BY <1>8 DEF Reinstate, ReinstateChecked, Reinstated
  <2> QED BY <2>1, <2>2, SellersUntouched DEF Set, TypeOK
<1>9. ASSUME UNCHANGED job PROVE LocksSound'
  BY <1>9, SellersUntouched
<1>10. ASSUME NEW b \in Bookings,
              PaymentConfirms(b) \/ HoldReleased(b) \/ CancelBooking(b) \/ MarkNoShow(b)
       PROVE  LocksSound'
  BY <1>9, <1>10 DEF PaymentConfirms, HoldReleased, CancelBooking, MarkNoShow
<1>11. CASE NightPasses \/ UNCHANGED vars
  BY <1>9, <1>11 DEF NightPasses, vars
<1> QED BY <1>1, <1>2, <1>3, <1>4, <1>5, <1>6, <1>7, <1>8, <1>10, <1>11
        DEF Next, Sale, SaleAdvances

-----------------------------------------------------------------------------
(* Check-in *)

(* A step that leaves the porters alone and puts nobody in the house. *)
LEMMA PortersUntouched ==
    ASSUME PortersSound, TypeOK, \A p \in Porters : job'[p] = job[p],
           \A b \in Bookings : status'[b] = "checked_in" => status[b] = "checked_in"
    PROVE  PortersSound'
<1>1. \A p \in Porters : job[p].on \subseteq Bookings
  BY DEF TypeOK, Job, Handlers
<1> QED BY <1>1 DEF PortersSound

(* A porter that is done with a booking or opens a check-out. *)
LEMMA PorterLeaves ==
    ASSUME PortersSound, TypeOK, NEW p \in Porters, NEW r \in Job, Set(p, r),
           r.pc # "commit",
           \A q \in Porters \ {p} : job[q].pc = "commit" =>
              \A b \in job[q].on : status'[b] = "checked_in" => status[b] = "checked_in"
    PROVE  PortersSound'
<1>1. job'[p] = r /\ \A q \in Porters \ {p} : job'[q] = job[q]
  BY SetOwn DEF TypeOK, Handlers
<1> QED BY <1>1 DEF PortersSound

(* A porter that opens a check-in, under the booking's lock. *)
LEMMA PorterEnters ==
    ASSUME PortersSound, TypeOK, NEW p \in Porters, NEW r \in Job, Set(p, r),
           UNCHANGED status, NEW b \in Bookings, r.on = {b}, status[b] = "confirmed",
           \A q \in Porters \ {p} : job[q].pc = "commit" => b \notin job[q].on
    PROVE  PortersSound'
<1>1. job'[p] = r /\ \A q \in Porters \ {p} : job'[q] = job[q]
  BY SetOwn DEF TypeOK, Handlers
<1> QED BY <1>1 DEF PortersSound

LEMMA PortersStep == TypeOK /\ PortersSound /\ [Next]_vars => PortersSound'
<1> SUFFICES ASSUME TypeOK, PortersSound, [Next]_vars PROVE PortersSound'
  OBVIOUS
<1> IdleJob \in Job /\ Porters \subseteq Handlers
  BY IdleJobIsJob DEF Handlers
<1> IdleJob.pc = "idle"
  BY DEF IdleJob
<1>1. ASSUME NEW p \in Porters, NEW b \in Bookings, CheckInReuses(p, b)
      PROVE  PortersSound'
  <2> DEFINE r == [IdleJob EXCEPT !.pc = "commit", !.on = {b}]
  <2>1. r \in Job /\ r.on = {b}
    BY DEF Job, IdleJob
  <2>2. Set(p, r) /\ UNCHANGED status
    BY <1>1 DEF CheckInReuses, rows
  <2> HIDE DEF r
  <2> QED BY <1>1, <2>1, <2>2, PorterEnters DEF CheckInReuses, CheckInLockFree
<1>2. ASSUME NEW p \in Porters, NEW b \in Bookings, NEW room \in Rooms,
             CheckInPicks(p, b, room)
      PROVE  PortersSound'
  <2> DEFINE r == [IdleJob EXCEPT !.pc = "commit", !.on = {b}, !.room = room, !.to = stay[b]]
  <2>1. r \in Job /\ r.on = {b}
    BY DEF Job, IdleJob, TypeOK
  <2>2. Set(p, r) /\ UNCHANGED status
    BY <1>2 DEF CheckInPicks, rows
  <2> HIDE DEF r
  <2> QED BY <1>2, <2>1, <2>2, PorterEnters DEF CheckInPicks, CheckInLockFree
<1>3. ASSUME NEW p \in Porters, CheckInCommits(p) PROVE PortersSound'
  <2>1. ASSUME NEW q \in Porters \ {p}, job[q].pc = "commit", NEW b \in job[q].on,
               status'[b] = "checked_in"
        PROVE  status[b] = "checked_in"
    <3>1. b \in Bookings /\ b \notin job[p].on
      BY <1>3, <2>1 DEF TypeOK, Job, PortersSound, CheckInCommits
    <3> QED BY <1>3, <2>1, <3>1 DEF CheckInCommits
  <2> QED BY <1>3, <2>1, PorterLeaves DEF CheckInCommits
<1>4. ASSUME NEW p \in Porters, NEW b \in Bookings, CheckOutOpens(p, b)
      PROVE  PortersSound'
  <2> DEFINE r == [IdleJob EXCEPT !.pc = "leave", !.on = {b}, !.to = stay[b]]
  <2>1. r \in Job /\ r.pc = "leave"
    BY DEF Job, IdleJob, TypeOK
  <2>2. Set(p, r) /\ UNCHANGED status
    BY <1>4 DEF CheckOutOpens, rows
  <2> HIDE DEF r
  <2> QED BY <2>1, <2>2, PorterLeaves
<1>5. ASSUME NEW p \in Porters, CheckOutCommits(p) PROVE PortersSound'
  <2>1. \A q \in Porters : job[q].on \subseteq Bookings
    BY DEF TypeOK, Job
  <2>2. \A b \in Bookings : status'[b] = "checked_in" => status[b] = "checked_in"
    BY <1>5 DEF CheckOutCommits
  <2> QED BY <1>5, <2>1, <2>2, PorterLeaves DEF CheckOutCommits
<1>6. ASSUME NEW h \in Handlers, HandlerFails(h) PROVE PortersSound'
  <2>1. CASE h \in Porters
    BY <1>6, <2>1, PorterLeaves DEF HandlerFails, rows
  <2>2. CASE h \notin Porters
    BY <1>6, <2>2, PortersUntouched DEF HandlerFails, Set, TypeOK, rows
  <2> QED BY <2>1, <2>2
<1>7. ASSUME NEW h \in Sellers, Sale(h) PROVE PortersSound'
  <2>1. h \notin Porters
    BY HandlersAssumption DEF Sellers
  <2>2. PICK r : Set(h, r)
    BY <1>7 DEF Sale, SaleAdvances, SaleOpens, TakeLock, RowsRead, SeesDates, SeesRooms,
                CartChecked, CartRefused, CartBooked
  <2>3. \A b \in Bookings : status'[b] = "checked_in" => status[b] = "checked_in"
    BY <1>7 DEF Sale, SaleAdvances, SaleOpens, TakeLock, RowsRead, SeesDates, SeesRooms,
                CartChecked, CartRefused, CartBooked, rows
  <2> QED BY <2>1, <2>2, <2>3, PortersUntouched DEF Set, TypeOK
<1>8. ASSUME NEW m \in Movers, Move(m) PROVE PortersSound'
  <2>1. m \notin Porters
    BY HandlersAssumption
  <2>2. PICK r : Set(m, r)
    BY <1>8 DEF Move, MovePlanned, MoveCommits
  <2>3. UNCHANGED status
    BY <1>8 DEF Move, MovePlanned, MoveCommits, rows
  <2> QED BY <2>1, <2>2, <2>3, PortersUntouched DEF Set, TypeOK
<1>9. ASSUME NEW o \in Overriders, Reinstate(o) PROVE PortersSound'
  <2>1. o \notin Porters
    BY HandlersAssumption
  <2>2. PICK r : Set(o, r)
    BY <1>9 DEF Reinstate, ReinstateChecked, Reinstated
  <2>3. \A b \in Bookings : status'[b] = "checked_in" => status[b] = "checked_in"
    BY <1>9 DEF Reinstate, ReinstateChecked, Reinstated, rows
  <2> QED BY <2>1, <2>2, <2>3, PortersUntouched DEF Set, TypeOK
<1>10. ASSUME NEW c \in Bookings,
              PaymentConfirms(c) \/ HoldReleased(c) \/ CancelBooking(c) \/ MarkNoShow(c)
       PROVE  PortersSound'
  <2>1. UNCHANGED job
    BY <1>10 DEF PaymentConfirms, HoldReleased, CancelBooking, MarkNoShow
  <2>2. \A b \in Bookings : status'[b] = "checked_in" => status[b] = "checked_in"
    BY <1>10 DEF PaymentConfirms, HoldReleased, CancelBooking, MarkNoShow, TypeOK
  <2> QED BY <2>1, <2>2, PortersUntouched
<1>11. CASE NightPasses \/ UNCHANGED vars
  BY <1>11, PortersUntouched DEF NightPasses, vars, rows
<1> QED BY <1>1, <1>2, <1>3, <1>4, <1>5, <1>6, <1>7, <1>8, <1>9, <1>10, <1>11
        DEF Next, CheckIn, Departure

-----------------------------------------------------------------------------
(* Theorems *)

LEMMA InitInv == Init => IInv
<1> SUFFICES ASSUME Init PROVE IInv
  OBVIOUS
<1>1. TypeOK
  <2>1. 1 \in Dates /\ 2 \in Dates
    BY RoomsAssumption DEF Dates
  <2> QED BY <2>1, NoStayIsStay, IdleJobIsJob DEF Init, TypeOK, Status
<1>2. \A h \in Handlers : job[h].pc = "idle" /\ job[h].locks = {}
  BY DEF Init, IdleJob
<1>3. LocksSound
  BY <1>2 DEF LocksSound, Handlers
<1>4. PortersSound
  BY <1>2 DEF PortersSound, Handlers
<1> QED BY <1>1, <1>3, <1>4 DEF IInv

(* The inductive invariant: types, the advisory locks of sales, and what a   *)
(* check-in knows of its booking, whichever handlers interleave.             *)
THEOREM Invariance == Spec => []IInv
<1>1. IInv /\ [Next]_vars => IInv'
  BY TypeStep, LocksStep, PortersStep DEF IInv
<1> QED BY InitInv, <1>1, PTL DEF Spec

(* Every reachable state is well typed. *)
THEOREM TypeCorrect == Spec => []TypeOK
<1>1. IInv => TypeOK
  BY DEF IInv
<1> QED BY Invariance, <1>1, PTL

(* No step takes a guest in the house out of the room they were given: the   *)
(* lock of checkInBooking serves its purpose with any number of desks.       *)
THEOREM GuestsKeepTheirRooms == Spec => GuestKeepsRoom
<1> DEFINE Kept == \A b \in Bookings :
                      status[b] = "checked_in" => assigned'[b].room = assigned[b].room
<1>1. IInv /\ [Next]_vars => Kept
  <2> SUFFICES ASSUME IInv, [Next]_vars, NEW b \in Bookings, status[b] = "checked_in"
               PROVE  assigned'[b].room = assigned[b].room
    OBVIOUS
  <2>0. assigned[b] \in [room : Rooms \cup {NoRoom}, from : Dates, to : Dates]
    BY DEF IInv, TypeOK
  <2>1. ASSUME UNCHANGED assigned PROVE assigned'[b].room = assigned[b].room
    BY <2>1
  <2>2. ASSUME NEW h \in Sellers, Sale(h) PROVE assigned'[b].room = assigned[b].room
    <3>1. CASE CartBooked(h)
      BY <3>1 DEF CartBooked
    <3> QED BY <2>1, <2>2, <3>1
         DEF Sale, SaleAdvances, SaleOpens, TakeLock, RowsRead, SeesDates, SeesRooms,
             CartChecked, CartRefused, rows
  <2>3. ASSUME NEW p \in Porters, CheckInCommits(p)
        PROVE  assigned'[b].room = assigned[b].room
    BY <2>3 DEF CheckInCommits, IInv, PortersSound
  <2>4. ASSUME NEW p \in Porters, CheckIn(p) PROVE assigned'[b].room = assigned[b].room
    BY <2>1, <2>3, <2>4 DEF CheckIn, CheckInReuses, CheckInPicks, rows
  <2>5. ASSUME NEW p \in Porters, Departure(p) PROVE assigned'[b].room = assigned[b].room
    <3>1. CASE CheckOutCommits(p)
      BY <2>0, <3>1 DEF CheckOutCommits
    <3> QED BY <2>1, <2>5, <3>1 DEF Departure, CheckOutOpens, rows
  <2>6. ASSUME NEW m \in Movers, Move(m) PROVE assigned'[b].room = assigned[b].room
    <3>1. CASE MoveCommits(m)
      BY <2>0, <3>1 DEF MoveCommits
    <3> QED BY <2>1, <2>6, <3>1 DEF Move, MovePlanned, rows
  <2>7. ASSUME NEW o \in Overriders, Reinstate(o) PROVE assigned'[b].room = assigned[b].room
    BY <2>1, <2>7 DEF Reinstate, ReinstateChecked, Reinstated, rows
  <2>8. ASSUME NEW h \in Handlers, HandlerFails(h) PROVE assigned'[b].room = assigned[b].room
    BY <2>1, <2>8 DEF HandlerFails, rows
  <2>9. ASSUME NEW c \in Bookings,
               PaymentConfirms(c) \/ HoldReleased(c) \/ CancelBooking(c) \/ MarkNoShow(c)
        PROVE  assigned'[b].room = assigned[b].room
    BY <2>1, <2>9 DEF PaymentConfirms, HoldReleased, CancelBooking, MarkNoShow
  <2>10. CASE NightPasses \/ UNCHANGED vars
    BY <2>1, <2>10 DEF NightPasses, vars, rows
  <2> QED BY <2>2, <2>4, <2>5, <2>6, <2>7, <2>8, <2>9, <2>10 DEF Next
<1>2. IInv /\ [Next]_vars => [Kept]_vars
  BY <1>1
<1> QED BY Invariance, <1>2, PTL DEF Spec, GuestKeepsRoom

(* A connection for every seller and mover. *)
EnoughConnections ==
    IsFiniteSet(Sellers \cup Movers) /\ Cardinality(Sellers \cup Movers) < PoolSize

(* With a connection for everybody, sellers never all wait for each other:   *)
(* follow the holder of the awaited lock and the awaited key grows.          *)
LEMMA LocksOrdered == EnoughConnections /\ IInv => SomebodyMoves
<1> DEFINE busy == {h \in Sellers : job[h].pc # "idle"}
<1> SUFFICES ASSUME EnoughConnections, IInv, busy # {}, \A h \in busy : Waiting(h)
             PROVE  FALSE
  BY DEF SomebodyMoves
<1> job \in [Handlers -> Job] /\ Sellers \subseteq Handlers
  BY DEF IInv, TypeOK, Handlers
<1>1. CanConnect
  <2>1. Connected \in SUBSET (Sellers \cup Movers)
    BY DEF Connected
  <2>2. Cardinality(Connected) <= Cardinality(Sellers \cup Movers)
    BY <2>1, FS_Subset DEF EnoughConnections
  <2>3. Cardinality(Connected) \in Nat /\ Cardinality(Sellers \cup Movers) \in Nat
    BY <2>1, FS_Subset, FS_CardinalityType DEF EnoughConnections
  <2> QED BY <2>2, <2>3, RoomsAssumption DEF CanConnect, EnoughConnections
<1>2. \A h \in busy : job[h].pc = "lock" /\ ~LockFree(h, NextLock(h))
  BY <1>1 DEF Waiting
<1>3. \A h \in busy : job[h].want # {} /\ NextLock(h) \in job[h].want /\ NextLock(h) \in LockKeys
  BY <1>2, NextLockIsFirst DEF IInv, LocksSound, Job
<1>4. ASSUME NEW h \in busy
      PROVE  \E g \in busy : Rank[NextLock(h)] < Rank[NextLock(g)]
  <2>1. PICK g \in Sellers \ {h} : NextLock(h) \in job[g].locks
    BY <1>2 DEF LockFree
  <2>2. g \in busy
    BY <2>1 DEF IInv, LocksSound
  <2> QED BY <1>3, <2>1, <2>2 DEF IInv, LocksSound
<1> HIDE DEF busy
<1>5. DEFINE F == [h \in busy |-> {k \in LockKeys : Rank[NextLock(h)] < Rank[k]}]
<1>6. PICK h \in busy : \A g \in busy : F[g] \subseteq F[h] => F[g] = F[h]
  <2>1. F \in [busy -> SUBSET LockKeys]
    OBVIOUS
  <2> HIDE DEF F
  <2> QED BY <2>1, FiniteLockKeys, MinimalSet
<1>7. PICK g \in busy : Rank[NextLock(h)] < Rank[NextLock(g)]
  BY <1>4
<1>8. F[g] \subseteq F[h] /\ NextLock(g) \in F[h] /\ NextLock(g) \notin F[g]
  BY <1>3, <1>7, RankAssumption
<1> QED BY <1>6, <1>8

(* Whatever the carts and however many sellers, the sorted keys of           *)
(* lockKeysFor never leave all of them waiting, given the connections.       *)
THEOREM SalesNeverStuck ==
    ASSUME EnoughConnections
    PROVE  Spec => []SomebodyMoves
<1>1. IInv => SomebodyMoves
  BY EnoughConnections, LocksOrdered
<1> QED BY Invariance, <1>1, PTL

-----------------------------------------------------------------------------
(* Changes of dates *)

(* A booking whose dates are about to change is open or has checked out.     *)
MoversSound ==
    \A m \in Movers : job[m].pc # "idle" =>
        \A b \in job[m].on : status[b] \in {"confirmed", "checked_in", "checked_out"}

(* What a reinstatement brings back was cancelled or missed.                 *)
OverridersSound ==
    \A o \in Overriders : job[o].pc = "commit" => job[o].was \in {"cancelled", "no_show"}

LEMMA OverridersStep == TypeOK /\ OverridersSound /\ [Next]_vars => OverridersSound'
<1> SUFFICES ASSUME TypeOK, OverridersSound, [Next]_vars PROVE OverridersSound'
  OBVIOUS
<1> job \in [Handlers -> Job] /\ Overriders \subseteq Handlers /\ IdleJob \in Job
  BY IdleJobIsJob DEF TypeOK, Handlers
<1>0. IdleJob.pc = "idle"
  BY DEF IdleJob
<1>1. ASSUME NEW h \in Handlers, h \notin Overriders, NEW r, Set(h, r)
      PROVE  OverridersSound'
  BY <1>1 DEF Set, OverridersSound
<1>2. ASSUME UNCHANGED job PROVE OverridersSound'
  BY <1>2 DEF OverridersSound
<1>3. ASSUME NEW h \in Handlers, Set(h, IdleJob) PROVE OverridersSound'
  BY <1>0, <1>3, SetOwn DEF OverridersSound
<1>4. ASSUME NEW h \in Sellers, Sale(h) PROVE OverridersSound'
  <2>1. h \in Handlers /\ h \notin Overriders
    BY HandlersAssumption DEF Sellers, Handlers
  <2>2. PICK r : Set(h, r)
    BY <1>4 DEF Sale, SaleAdvances, SaleOpens, TakeLock, RowsRead, SeesDates, SeesRooms,
                CartChecked, CartRefused, CartBooked
  <2> QED BY <1>1, <2>1, <2>2
<1>5. ASSUME NEW p \in Porters, CheckIn(p) \/ Departure(p) PROVE OverridersSound'
  <2>1. p \in Handlers /\ p \notin Overriders
    BY HandlersAssumption DEF Handlers
  <2>2. PICK r : Set(p, r)
    BY <1>5 DEF CheckIn, Departure, CheckInReuses, CheckInPicks, CheckInCommits,
                CheckOutOpens, CheckOutCommits
  <2> QED BY <1>1, <2>1, <2>2
<1>6. ASSUME NEW m \in Movers, Move(m) PROVE OverridersSound'
  <2>1. m \in Handlers /\ m \notin Overriders
    BY HandlersAssumption DEF Handlers
  <2>2. PICK r : Set(m, r)
    BY <1>6 DEF Move, MovePlanned, MoveCommits
  <2> QED BY <1>1, <2>1, <2>2
<1>7. ASSUME NEW o \in Overriders, NEW b \in Bookings, ReinstateChecked(o, b)
      PROVE  OverridersSound'
  <2> DEFINE r == [IdleJob EXCEPT !.pc = "commit", !.on = {b}, !.was = status[b]]
  <2>1. r \in Job /\ r.was = status[b]
    BY DEF Job, IdleJob, TypeOK
  <2>2. Set(o, r) /\ status[b] \in {"cancelled", "no_show"}
    BY <1>7 DEF ReinstateChecked
  <2> HIDE DEF r
  <2>3. job'[o] = r /\ \A g \in Overriders \ {o} : job'[g] = job[g]
    BY <2>1, <2>2, SetOwn
  <2> QED BY <2>1, <2>2, <2>3 DEF OverridersSound
<1>8. ASSUME NEW o \in Overriders, Reinstate(o) PROVE OverridersSound'
  BY <1>3, <1>7, <1>8 DEF Reinstate, Reinstated
<1>9. ASSUME NEW h \in Handlers, HandlerFails(h) PROVE OverridersSound'
  BY <1>3, <1>9 DEF HandlerFails
<1>10. ASSUME NEW b \in Bookings,
              PaymentConfirms(b) \/ HoldReleased(b) \/ CancelBooking(b) \/ MarkNoShow(b)
       PROVE  OverridersSound'
  BY <1>2, <1>10 DEF PaymentConfirms, HoldReleased, CancelBooking, MarkNoShow
<1>11. CASE NightPasses \/ UNCHANGED vars
  BY <1>2, <1>11 DEF NightPasses, vars
<1> QED BY <1>4, <1>5, <1>6, <1>8, <1>9, <1>10, <1>11 DEF Next

(* A step that leaves the movers alone and cancels nothing they work on.     *)
LEMMA MoversUntouched ==
    ASSUME MoversSound, TypeOK, \A m \in Movers : job'[m] = job[m],
           \A b \in Bookings :
               \/ status'[b] = status[b]
               \/ status'[b] \in {"confirmed", "checked_in", "checked_out"}
               \/ status[b] \notin {"confirmed", "checked_in", "checked_out"}
               \/ BookingLockFree(b)
    PROVE  MoversSound'
<1>1. \A m \in Movers : job[m].on \subseteq Bookings
  BY DEF TypeOK, Job, Handlers
<1> QED BY <1>1 DEF MoversSound, BookingLockFree

LEMMA MoversStep == TypeOK /\ OverridersSound /\ MoversSound /\ [Next]_vars => MoversSound'
<1> SUFFICES ASSUME TypeOK, OverridersSound, MoversSound, [Next]_vars PROVE MoversSound'
  OBVIOUS
<1> IdleJob \in Job /\ Movers \subseteq Handlers
  BY IdleJobIsJob DEF Handlers
<1>0. IdleJob.pc = "idle"
  BY DEF IdleJob
<1>1. ASSUME NEW h \in Sellers, Sale(h) PROVE MoversSound'
  <2>1. h \notin Movers
    BY HandlersAssumption DEF Sellers
  <2>2. PICK r : Set(h, r)
    BY <1>1 DEF Sale, SaleAdvances, SaleOpens, TakeLock, RowsRead, SeesDates, SeesRooms,
                CartChecked, CartRefused, CartBooked
  <2>3. \A b \in Bookings : status'[b] = status[b] \/ status[b] = "none"
    BY <1>1 DEF Sale, SaleAdvances, SaleOpens, TakeLock, RowsRead, SeesDates, SeesRooms,
                CartChecked, CartRefused, CartBooked, rows
  <2> QED BY <2>1, <2>2, <2>3, MoversUntouched DEF Set, TypeOK
<1>2. ASSUME NEW h \in Handlers, HandlerFails(h) PROVE MoversSound'
  <2>1. CASE h \in Movers
    <3>1. job'[h] = IdleJob /\ \A g \in Movers \ {h} : job'[g] = job[g]
      BY <1>2, <2>1, SetOwn DEF HandlerFails, TypeOK
    <3> QED BY <1>0, <1>2, <3>1 DEF MoversSound, HandlerFails, rows
  <2>2. CASE h \notin Movers
    BY <1>2, <2>2, MoversUntouched DEF HandlerFails, Set, TypeOK, rows
  <2> QED BY <2>1, <2>2
<1>3. ASSUME NEW b \in Bookings,
             PaymentConfirms(b) \/ HoldReleased(b) \/ CancelBooking(b) \/ MarkNoShow(b)
      PROVE  MoversSound'
  <2>1. UNCHANGED job
    BY <1>3 DEF PaymentConfirms, HoldReleased, CancelBooking, MarkNoShow
  <2>2. \A c \in Bookings :
           \/ status'[c] = status[c] \/ status'[c] = "confirmed"
           \/ status[c] = "pending_payment" \/ BookingLockFree(c)
    BY <1>3 DEF PaymentConfirms, HoldReleased, CancelBooking, MarkNoShow, TypeOK
  <2> QED BY <2>1, <2>2, MoversUntouched
<1>4. ASSUME NEW p \in Porters, CheckIn(p) \/ Departure(p) PROVE MoversSound'
  <2>1. p \notin Movers
    BY HandlersAssumption
  <2>2. PICK r : Set(p, r)
    BY <1>4 DEF CheckIn, Departure, CheckInReuses, CheckInPicks, CheckInCommits,
                CheckOutOpens, CheckOutCommits
  <2>3. \A b \in Bookings :
           status'[b] = status[b] \/ status'[b] \in {"checked_in", "checked_out"}
    BY <1>4 DEF CheckIn, Departure, CheckInReuses, CheckInPicks, CheckInCommits,
                CheckOutOpens, CheckOutCommits, rows
  <2> QED BY <2>1, <2>2, <2>3, MoversUntouched DEF Set, TypeOK
<1>5. ASSUME NEW m \in Movers, NEW b \in Bookings, NEW new \in Stay, NEW replan \in BOOLEAN,
             MovePlanned(m, b, new, replan)
      PROVE  MoversSound'
  <2> DEFINE r == [IdleJob EXCEPT !.pc = "commit", !.on = {b}, !.to = new, !.was = status[b]]
  <2>1. r \in Job /\ r.on = {b}
    BY DEF Job, IdleJob, TypeOK
  <2>2. Set(m, r) /\ UNCHANGED status
    BY <1>5 DEF MovePlanned, rows
  <2> HIDE DEF r
  <2>3. job'[m] = r /\ \A n \in Movers \ {m} : job'[n] = job[n]
    BY <2>1, <2>2, SetOwn DEF TypeOK
  <2> QED BY <1>5, <2>1, <2>2, <2>3 DEF MovePlanned, MoversSound
<1>6. ASSUME NEW m \in Movers, MoveCommits(m) PROVE MoversSound'
  <2>1. job'[m] = IdleJob /\ \A n \in Movers \ {m} : job'[n] = job[n]
    BY <1>6, SetOwn DEF MoveCommits, TypeOK
  <2> QED BY <1>0, <1>6, <2>1 DEF MoversSound, MoveCommits
<1>7. ASSUME NEW o \in Overriders, Reinstate(o) PROVE MoversSound'
  <2>1. o \notin Movers
    BY HandlersAssumption
  <2>2. PICK r : Set(o, r)
    BY <1>7 DEF Reinstate, ReinstateChecked, Reinstated
  <2>3. o \in Handlers /\ job[o].on \subseteq Bookings
    BY DEF Handlers, TypeOK, Job
  <2>4. CASE UNCHANGED status
    BY <2>1, <2>2, <2>4, MoversUntouched DEF Set, TypeOK
  <2>5. CASE Reinstated(o)
    <3>1. \A b \in Bookings : status'[b] = status[b] \/ b \in job[o].on
      BY <2>5 DEF Reinstated
    <3>2. \A b \in job[o].on : status[b] \in {"cancelled", "no_show"}
      BY <2>5 DEF Reinstated, OverridersSound
    <3> QED BY <2>1, <2>2, <3>1, <3>2, MoversUntouched DEF Set, TypeOK
  <2> QED BY <1>7, <2>4, <2>5 DEF Reinstate, ReinstateChecked, rows
<1>8. CASE NightPasses \/ UNCHANGED vars
  BY <1>8, MoversUntouched DEF NightPasses, vars, rows
<1> QED BY <1>1, <1>2, <1>3, <1>4, <1>5, <1>6, <1>7, <1>8 DEF Next, Move

(* A stay that was cancelled or missed keeps its dates, however many changes *)
(* of dates run: the booking lock keeps it out of their way.                 *)
THEOREM ClosedStaysKeepTheirDates == Spec => ClosedStayKeepsDates
<1> DEFINE Kept == \A b \in Bookings :
                      status[b] \in {"cancelled", "no_show"} => stay'[b] = stay[b]
<1>1. Init => MoversSound /\ OverridersSound
  BY DEF Init, MoversSound, OverridersSound, IdleJob, Handlers
<1>2. TypeOK /\ MoversSound /\ [Next]_vars => Kept
  <2> SUFFICES ASSUME MoversSound, [Next]_vars, NEW b \in Bookings,
                      status[b] \in {"cancelled", "no_show"}
               PROVE  stay'[b] = stay[b]
    OBVIOUS
  <2>1. ASSUME NEW h \in Sellers, Sale(h) PROVE stay'[b] = stay[b]
    BY <2>1 DEF Sale, SaleAdvances, SaleOpens, TakeLock, RowsRead, SeesDates, SeesRooms,
                CartChecked, CartRefused, CartBooked, rows
  <2>2. ASSUME NEW m \in Movers, Move(m) PROVE stay'[b] = stay[b]
    <3>1. CASE MoveCommits(m)
      BY <3>1 DEF MoveCommits, MoversSound
    <3> QED BY <2>2, <3>1 DEF Move, MovePlanned, rows
  <2>3. ASSUME NEW p \in Porters, CheckIn(p) \/ Departure(p) PROVE stay'[b] = stay[b]
    BY <2>3 DEF CheckIn, Departure, CheckInReuses, CheckInPicks, CheckInCommits,
                CheckOutOpens, CheckOutCommits, rows
  <2>4. ASSUME NEW o \in Overriders, Reinstate(o) PROVE stay'[b] = stay[b]
    BY <2>4 DEF Reinstate, ReinstateChecked, Reinstated, rows
  <2>5. ASSUME NEW h \in Handlers, HandlerFails(h) PROVE stay'[b] = stay[b]
    BY <2>5 DEF HandlerFails, rows
  <2>6. ASSUME NEW c \in Bookings,
               PaymentConfirms(c) \/ HoldReleased(c) \/ CancelBooking(c) \/ MarkNoShow(c)
        PROVE  stay'[b] = stay[b]
    BY <2>6 DEF PaymentConfirms, HoldReleased, CancelBooking, MarkNoShow
  <2>7. CASE NightPasses \/ UNCHANGED vars
    BY <2>7 DEF NightPasses, vars, rows
  <2> QED BY <2>1, <2>2, <2>3, <2>4, <2>5, <2>6, <2>7 DEF Next
<1>3. TypeOK /\ MoversSound /\ [Next]_vars => [Kept]_vars
  BY <1>2
<1>4. Spec => [](MoversSound /\ OverridersSound)
  BY <1>1, TypeCorrect, MoversStep, OverridersStep, PTL DEF Spec
<1> QED BY <1>3, <1>4, TypeCorrect, PTL DEF Spec, ClosedStayKeepsDates
=============================================================================
