--------------------------- MODULE RoomInventory ---------------------------
(***************************************************************************)
(* A hotel's rooms by type and night, and everything that sells, moves,    *)
(* revives or occupies them at the same time.                              *)
(*                                                                         *)
(*   shopper    createOrder of the guest's details page                    *)
(*   agent      createWalkInBooking (front-desk.ts)                        *)
(*   porter     checkInBooking and checkOutBooking (front-desk.ts)         *)
(*   mover      modifyBookingStay (booking-modify.ts)                      *)
(*   overrider  reinstateBooking (status-override.ts)                      *)
(*   clerk      cancelBooking, markNoShow, the sweep's release             *)
(*                                                                         *)
(* A booking row is one room for one stay.  As in OnlinePayment a          *)
(* transaction is the step that reads and the step that commits; advisory  *)
(* locks are taken before the first and dropped with the second.           *)
(***************************************************************************)
EXTENDS Integers, FiniteSets, FiniteSetsExt

CONSTANTS
    Types,                \* room types
    Rooms,                \* active rooms
    TypeOf,               \* rooms.room_type_id
    NoRoom,
    Bookings,             \* booking rows that may come to exist
    LastNight,            \* bound: stays fall within nights 1..LastNight
    WebCarts, DeskCarts,  \* the carts shoppers and agents may submit
    Shoppers, Agents, Porters, Movers, Overriders, Clerks,
    PoolSize,             \* connections of the shared database pool
    Rank                  \* sort order of the advisory lock keys

Dates == 1 .. LastNight + 1
Span  == {s \in [from : Dates, to : Dates] : s.from < s.to}
Stay  == {s \in [type : Types, from : Dates, to : Dates] : s.from < s.to}

Sellers  == Shoppers \cup Agents
Handlers == Sellers \cup Porters \cup Movers \cup Overriders

(* A line of a cart: a number of rooms of one type, some picked by number. *)
Line == {l \in [type : Types, from : Dates, to : Dates, count : Nat \ {0},
                picked : SUBSET Rooms] : l.from < l.to}

Lines == UNION {DOMAIN cart : cart \in WebCarts \cup DeskCarts}

(* `room:<type>` and `room-id:<room>` *)
LockKeys == Types \cup Rooms

ASSUME RoomsAssumption ==
    /\ IsFiniteSet(Types) /\ IsFiniteSet(Rooms) /\ IsFiniteSet(Bookings)
    /\ TypeOf \in [Rooms -> Types]
    /\ NoRoom \notin Rooms
    /\ Types # {} /\ Types \cap Rooms = {}
    /\ LastNight \in Nat \ {0} /\ PoolSize \in Nat

ASSUME CartsAssumption ==
    \A cart \in WebCarts \cup DeskCarts :
        /\ IsFiniteSet(DOMAIN cart) /\ DOMAIN cart # {}
        /\ \A i \in DOMAIN cart : cart[i] \in Line

ASSUME RankAssumption ==
    /\ Rank \in [LockKeys -> Nat]
    /\ \A k, l \in LockKeys : Rank[k] = Rank[l] => k = l

ASSUME HandlersAssumption ==
    /\ Shoppers \cap (Agents \cup Porters \cup Movers \cup Overriders) = {}
    /\ Agents \cap (Porters \cup Movers \cup Overriders) = {}
    /\ Porters \cap (Movers \cup Overriders) = {}
    /\ Movers \cap Overriders = {}

VARIABLES
    status,   \* bookings.status, "none" before the row exists
    stay,     \* room type and dates of each booking
    assigned, \* room_assignments: the room and the dates it is held for
    today,    \* the hotel's business date
    job       \* progress of every handler

rows == <<status, stay, assigned>>
vars == <<rows, today, job>>

Status == {"none", "pending_payment", "confirmed", "checked_in",
           "checked_out", "cancelled", "no_show"}
ACTIVE_BOOKING_STATUSES ==
    {"pending_payment", "confirmed", "checked_in", "checked_out"}

NoStay == CHOOSE s \in Stay : TRUE
NoCart == <<>>

(* One record for all handlers: a seller uses cart, want, locks and, for the *)
(* lines of the cart, the bookings a search has seen so far; a porter on, to *)
(* and room; a mover on, to and was; an overrider on and was.                *)
Job == [pc : {"idle", "lock", "read", "readRooms", "readDates", "commit", "leave"},
        cart : {NoCart} \cup WebCarts \cup DeskCarts,
        want : SUBSET LockKeys, locks : SUBSET LockKeys,
        seen : [Lines -> SUBSET Bookings],
        on : SUBSET Bookings, to : Stay, room : Rooms \cup {NoRoom}, was : Status]

Unseen == [i \in Lines |-> {}]

IdleJob == [pc |-> "idle", cart |-> NoCart, want |-> {}, locks |-> {}, seen |-> Unseen,
            on |-> {}, to |-> NoStay, room |-> NoRoom, was |-> "none"]

Init ==
    /\ status = [b \in Bookings |-> "none"]
    /\ stay = [b \in Bookings |-> NoStay]
    /\ assigned = [b \in Bookings |-> [room |-> NoRoom, from |-> 1, to |-> 2]]
    /\ today = 1
    /\ job = [h \in Handlers |-> IdleJob]

Set(h, r) == job' = [job EXCEPT ![h] = r]

-----------------------------------------------------------------------------
(* Counting rooms *)

Overlap(a, b) == a.from < b.to /\ b.from < a.to

(* Mutant: an unpaid hold does not count. *)
PreAssignedIfPaid(b) == status[b] = "confirmed"

PreAssigned(b) == status[b] \in {"pending_payment", "confirmed"}
Assigned(b)    == status[b] \in {"checked_in", "checked_out"}

(* An overdue stay, past its date and not checked out, still has tonight. *)
InventoryHeldUntil(b) ==
    IF status[b] = "checked_in" /\ assigned[b].to < today
    THEN today + 1 ELSE assigned[b].to

(* A guest in the house has the room through tonight. *)
RoomHeldUntil(b) ==
    IF status[b] = "checked_in" /\ assigned[b].to < today + 1
    THEN today + 1 ELSE assigned[b].to

(* The two statements of a search.  Not checked in yet: the booking's own    *)
(* dates.  Checked in or out: the dates of the room assignment.              *)
BlockingByDates(type, span) ==
    {b \in Bookings : stay[b].type = type /\ PreAssigned(b) /\ Overlap(stay[b], span)}

BlockingByRoom(type, span) ==
    {b \in Bookings :
        /\ stay[b].type = type /\ Assigned(b)
        /\ assigned[b].from < span.to /\ span.from < InventoryHeldUntil(b)}

RoomsOf(type) == {r \in Rooms : TypeOf[r] = type}

(* Both statements at once, for a mover or an overrider: they hold no lock    *)
(* that a sale takes, and overbook the hotel without any help from a check-in *)
(* between the two, which is left out.                                       *)
Free(type, span) ==
    Cardinality(RoomsOf(type))
        - Cardinality(BlockingByDates(type, span)) - Cardinality(BlockingByRoom(type, span))

(* Room r is assigned to an active booking other than those in `except`. *)
Taken(r, span, except) ==
    \E b \in Bookings \ except :
        /\ assigned[b].room = r
        /\ status[b] \in ACTIVE_BOOKING_STATUSES
        /\ assigned[b].from < span.to /\ span.from < RoomHeldUntil(b)

-----------------------------------------------------------------------------
(* Database connections: a transaction keeps one of the pool; a read outside *)
(* it, on `db`, needs another while it runs.                                 *)

Connected == {h \in Sellers \cup Movers : job[h].pc # "idle"}
CanConnect == Cardinality(Connected) < PoolSize

-----------------------------------------------------------------------------
(* Selling: createOrder and createWalkInBooking *)

CartsOf(h) == IF h \in Shoppers THEN WebCarts ELSE DeskCarts

Size(cart) == MapThenSumSet(LAMBDA i : cart[i].count, DOMAIN cart)

(* bound: rows left for the carts already being processed *)
RowsLeft ==
    Cardinality({b \in Bookings : status[b] = "none"})
        - MapThenSumSet(LAMBDA h : Size(job[h].cart), Sellers)

(* Mutant: one key per line of the cart instead of one per room type. *)
LocksPerLine(cart) == DOMAIN cart

(* Rooms picked on the front-desk grid are locked one by one as well. *)
LocksOf(cart) ==
    {cart[i].type : i \in DOMAIN cart} \cup UNION {cart[i].picked : i \in DOMAIN cart}

SaleOpens(h, cart) ==
    /\ job[h].pc = "idle"
    /\ CanConnect
    /\ Size(cart) <= RowsLeft
    /\ Set(h, [IdleJob EXCEPT !.pc = "lock", !.cart = cart, !.want = LocksOf(cart)])
    /\ UNCHANGED <<rows, today>>

LockFree(h, k) == \A g \in Sellers \ {h} : k \notin job[g].locks

(* Mutant: the keys are taken in the order of the cart. *)
TakeAnyLock(h) ==
    /\ job[h].pc = "lock"
    /\ \E k \in job[h].want :
          /\ LockFree(h, k)
          /\ Set(h, [job[h] EXCEPT !.want = @ \ {k}, !.locks = @ \cup {k},
                       !.pc = IF job[h].want = {k} THEN "read" ELSE "lock"])
    /\ UNCHANGED <<rows, today>>

NextLock(h) == CHOOSE k \in job[h].want : \A l \in job[h].want : Rank[k] <= Rank[l]

TakeLock(h) ==
    /\ job[h].pc = "lock"
    /\ LockFree(h, NextLock(h))
    /\ Set(h, [job[h] EXCEPT !.want = @ \ {NextLock(h)},
                 !.locks = @ \cup {NextLock(h)},
                 !.pc = IF job[h].want = {NextLock(h)} THEN "read" ELSE "lock"])
    /\ UNCHANGED <<rows, today>>

(* Lines of one cart are added up when type and both dates are equal. *)
Wanted(cart, i) ==
    MapThenSumSet(LAMBDA j : cart[j].count,
        {j \in DOMAIN cart : /\ cart[j].type = cart[i].type
                             /\ cart[j].from = cart[i].from
                             /\ cart[j].to = cart[i].to})

SeesDates(h) ==
    LET cart == job[h].cart
    IN Set(h, [job[h] EXCEPT !.pc = "readRooms", !.seen =
                 [i \in Lines |-> IF i \notin DOMAIN cart THEN {}
                                  ELSE BlockingByDates(cart[i].type, cart[i])]])

SeesRooms(h) ==
    LET cart == job[h].cart
    IN Set(h, [job[h] EXCEPT !.pc = "readDates", !.seen =
                 [i \in Lines |-> IF i \notin DOMAIN cart THEN {}
                                  ELSE BlockingByRoom(cart[i].type, cart[i])]])

(* Mutant: the rooms that are assigned are read before those that are not.   *)
RoomsReadFirst(h) ==
    /\ job[h].pc = "read"
    /\ h \in Shoppers => CanConnect
    /\ SeesRooms(h)
    /\ UNCHANGED <<rows, today>>

(* The first of a search's two statements is answered.  createOrder sends    *)
(* them on `db`, on two connections of which either may be faster;           *)
(* createWalkInBooking on its transaction, in the order written.             *)
RowsRead(h) ==
    /\ job[h].pc = "read"
    /\ h \in Shoppers => CanConnect
    /\ SeesDates(h) \/ (h \in Shoppers /\ SeesRooms(h))
    /\ UNCHANGED <<rows, today>>

(* What the second statement returns, in a snapshot of its own.              *)
RowsLast(h, type, span) ==
    IF job[h].pc = "readRooms" THEN BlockingByRoom(type, span) ELSE BlockingByDates(type, span)

Available(h, i) ==
    LET line == job[h].cart[i]
    IN Cardinality(RoomsOf(line.type))
           - Cardinality(job[h].seen[i]) - Cardinality(RowsLast(h, line.type, line))

WebCartFits(h) ==
    \A i \in DOMAIN job[h].cart : Wanted(job[h].cart, i) <= Available(h, i)

DeskCartFits(h) ==
    LET cart == job[h].cart
    IN \A i \in DOMAIN cart :
        /\ cart[i].count <= Available(h, i)
        /\ cart[i].picked # {} => Cardinality(cart[i].picked) = cart[i].count
        /\ \A r \in cart[i].picked :
              TypeOf[r] = cart[i].type /\ ~Taken(r, cart[i], {})

CartChecked(h) ==
    /\ job[h].pc \in {"readRooms", "readDates"}
    /\ \/ h \in Shoppers /\ CanConnect /\ WebCartFits(h)
       \/ h \in Agents /\ DeskCartFits(h)
    /\ Set(h, [job[h] EXCEPT !.pc = "commit", !.seen = Unseen])
    /\ UNCHANGED <<rows, today>>

CartRefused(h) ==
    /\ job[h].pc \in {"readRooms", "readDates"}
    /\ \/ h \in Shoppers /\ CanConnect /\ ~WebCartFits(h)
       \/ h \in Agents /\ ~DeskCartFits(h)
    /\ Set(h, IdleJob)
    /\ UNCHANGED <<rows, today>>

(* A booking row of its own per room; f says which line a row comes from,    *)
(* r which room it is given if the line has picked ones.                     *)
Placement(cart, f, r) ==
    \A i \in DOMAIN cart :
        LET mine == {b \in DOMAIN f : f[b] = i} IN
        /\ Cardinality(mine) = cart[i].count
        /\ IF cart[i].picked = {} THEN \A b \in mine : r[b] = NoRoom
           ELSE {r[b] : b \in mine} = cart[i].picked

CartBooked(h) ==
    /\ job[h].pc = "commit"
    /\ \E new \in SUBSET {b \in Bookings : status[b] = "none"} :
       \E f \in [new -> DOMAIN job[h].cart], r \in [new -> Rooms \cup {NoRoom}] :
          LET line(b) == job[h].cart[f[b]] IN
          /\ Placement(job[h].cart, f, r)
          /\ status' = [b \in Bookings |-> IF b \notin new THEN status[b]
                          ELSE IF h \in Shoppers THEN "pending_payment" ELSE "confirmed"]
          /\ stay' = [b \in Bookings |-> IF b \notin new THEN stay[b]
                        ELSE [type |-> line(b).type, from |-> line(b).from, to |-> line(b).to]]
          /\ assigned' = [b \in Bookings |-> IF b \notin new THEN assigned[b]
                            ELSE [room |-> r[b], from |-> line(b).from, to |-> line(b).to]]
    /\ Set(h, IdleJob)
    /\ UNCHANGED today

(* Any other refusal, an exception or a restart: nothing was written. *)
HandlerFails(h) ==
    /\ job[h].pc # "idle"
    /\ Set(h, IdleJob)
    /\ UNCHANGED <<rows, today>>

-----------------------------------------------------------------------------
(* The life of a booking outside the inventory: payment, release, no-show *)

PaymentConfirms(b) ==
    /\ status[b] = "pending_payment"
    /\ status' = [status EXCEPT ![b] = "confirmed"]
    /\ UNCHANGED <<stay, assigned, today, job>>

HoldReleased(b) ==
    /\ status[b] = "pending_payment"
    /\ status' = [status EXCEPT ![b] = "cancelled"]
    /\ UNCHANGED <<stay, assigned, today, job>>

(* Mutant: the lock is the order's, which other staff actions do not take. *)
BookingRowExists(b) == status[b] # "none"

(* `booking:<id>`, shared with modifyBookingStay but not with check-in. *)
BookingLockFree(b) ==
    \A m \in Movers : job[m].pc # "idle" => b \notin job[m].on

CancelBooking(b) ==
    /\ status[b] \in {"pending_payment", "confirmed"}
    /\ BookingLockFree(b)
    /\ status' = [status EXCEPT ![b] = "cancelled"]
    /\ UNCHANGED <<stay, assigned, today, job>>

MarkNoShow(b) ==
    /\ status[b] = "confirmed"
    /\ BookingLockFree(b)
    /\ status' = [status EXCEPT ![b] = "no_show"]
    /\ UNCHANGED <<stay, assigned, today, job>>

NightPasses ==
    /\ today <= LastNight
    /\ today' = today + 1
    /\ UNCHANGED <<rows, job>>

-----------------------------------------------------------------------------
(* checkInBooking, under `checkin:<booking>` and `room:<room>` *)

(* Mutant: only the rooms are locked, not the booking. *)
CheckInRoomLockFree(p, b, r) ==
    \A q \in Porters \ {p} : job[q].pc = "commit" => r = NoRoom \/ r # job[q].room

CheckInLockFree(p, b, r) ==
    \A q \in Porters \ {p} :
        job[q].pc = "commit" => b \notin job[q].on /\ (r = NoRoom \/ r # job[q].room)

(* The room was picked when the booking was made: nothing left to verify. *)
CheckInReuses(p, b) ==
    /\ job[p].pc = "idle"
    /\ CheckInLockFree(p, b, NoRoom)
    /\ status[b] = "confirmed"
    /\ assigned[b].room # NoRoom
    /\ Set(p, [IdleJob EXCEPT !.pc = "commit", !.on = {b}])
    /\ UNCHANGED <<rows, today>>

(* Mutant: only guests already in the house are looked at. *)
CheckInPicksUnchecked(p, b, r) ==
    /\ job[p].pc = "idle"
    /\ CheckInLockFree(p, b, r)
    /\ status[b] = "confirmed"
    /\ assigned[b].room = NoRoom
    /\ TypeOf[r] = stay[b].type
    /\ \A c \in Bookings \ {b} : assigned[c].room = r => status[c] # "checked_in"
    /\ Set(p, [IdleJob EXCEPT !.pc = "commit", !.on = {b}, !.room = r, !.to = stay[b]])
    /\ UNCHANGED <<rows, today>>

CheckInPicks(p, b, r) ==
    /\ job[p].pc = "idle"
    /\ CheckInLockFree(p, b, r)
    /\ status[b] = "confirmed"
    /\ assigned[b].room = NoRoom
    /\ TypeOf[r] = stay[b].type
    /\ ~Taken(r, stay[b], {b})
    /\ Set(p, [IdleJob EXCEPT !.pc = "commit", !.on = {b}, !.room = r, !.to = stay[b]])
    /\ UNCHANGED <<rows, today>>

(* The booking is updated by id alone. *)
CheckInCommits(p) ==
    /\ job[p].pc = "commit"
    /\ status' = [b \in Bookings |-> IF b \in job[p].on THEN "checked_in" ELSE status[b]]
    /\ assigned' = [b \in Bookings |->
                      IF b \in job[p].on /\ job[p].room # NoRoom
                      THEN [room |-> job[p].room, from |-> job[p].to.from, to |-> job[p].to.to]
                      ELSE assigned[b]]
    /\ Set(p, IdleJob)
    /\ UNCHANGED <<stay, today>>

(* checkOutBooking, under no lock: an early departure gives the nights back. *)
CheckOutOpens(p, b) ==
    /\ job[p].pc = "idle"
    /\ status[b] = "checked_in"
    /\ Set(p, [IdleJob EXCEPT !.pc = "leave", !.on = {b}, !.to = stay[b]])
    /\ UNCHANGED <<rows, today>>

CheckOutCommits(p) ==
    /\ job[p].pc = "leave"
    /\ status' = [b \in Bookings |-> IF b \in job[p].on THEN "checked_out" ELSE status[b]]
    /\ assigned' = [b \in Bookings |->
                      IF b \in job[p].on /\ today < job[p].to.to /\ today < assigned[b].to
                      THEN [assigned[b] EXCEPT !.to = today] ELSE assigned[b]]
    /\ Set(p, IdleJob)
    /\ UNCHANGED <<stay, today>>

-----------------------------------------------------------------------------
(* modifyBookingStay, under `booking:<booking>` *)

(* The nights a change of dates adds at either end. *)
Added(old, new) ==
    {seg \in {[from |-> new.from, to |-> old.from], [from |-> old.to, to |-> new.to]} :
        seg.from < seg.to}

(* planModification.  With another rate plan the dates are not looked at     *)
(* unless the room type changes too; a guest in the house is only checked    *)
(* for the room, not for the type.                                           *)
PlanAllows(b, new, replan) ==
    IF new.type # stay[b].type THEN status[b] = "confirmed" /\ Free(new.type, new) >= 1
    ELSE replan \/ \A seg \in Added(stay[b], new) :
                      IF status[b] = "checked_in"
                      THEN ~Taken(assigned[b].room, seg, {b})
                      ELSE Free(stay[b].type, seg) >= 1

MovePlanned(m, b, new, replan) ==
    /\ job[m].pc = "idle"
    /\ BookingLockFree(b)
    /\ Cardinality(Connected) + 1 < PoolSize
    /\ status[b] \in {"confirmed", "checked_in"}
    /\ status[b] = "checked_in" => new.from = stay[b].from
    /\ new # stay[b] \/ replan
    /\ PlanAllows(b, new, replan)
    /\ Set(m, [IdleJob EXCEPT !.pc = "commit", !.on = {b}, !.to = new, !.was = status[b]])
    /\ UNCHANGED <<rows, today>>

(* The room assignment follows only a guest who was in the house. *)
MoveCommits(m) ==
    /\ job[m].pc = "commit"
    /\ stay' = [b \in Bookings |-> IF b \in job[m].on THEN job[m].to ELSE stay[b]]
    /\ assigned' = [b \in Bookings |->
                      IF b \in job[m].on /\ job[m].was = "checked_in"
                      THEN [assigned[b] EXCEPT !.to =
                              IF job[m].to.to # stay[b].to THEN job[m].to.to ELSE @]
                      ELSE assigned[b]]
    /\ Set(m, IdleJob)
    /\ UNCHANGED <<status, today>>

-----------------------------------------------------------------------------
(* reinstateBooking: the check is made before, and outside, the transaction *)

ReinstateChecked(o, b) ==
    /\ job[o].pc = "idle"
    /\ status[b] \in {"cancelled", "no_show"}
    /\ Free(stay[b].type, stay[b]) >= 1
    /\ Set(o, [IdleJob EXCEPT !.pc = "commit", !.on = {b}, !.was = status[b]])
    /\ UNCHANGED <<rows, today>>

(* Back to confirmed if the order was ever paid, else to pending_payment. *)
Reinstated(o) ==
    /\ job[o].pc = "commit"
    /\ \A b \in job[o].on : status[b] = job[o].was
    /\ \E revived \in {"confirmed", "pending_payment"} :
          status' = [b \in Bookings |-> IF b \in job[o].on THEN revived ELSE status[b]]
    /\ Set(o, IdleJob)
    /\ UNCHANGED <<stay, assigned, today>>

-----------------------------------------------------------------------------
SaleAdvances(h) ==
    TakeLock(h) \/ RowsRead(h) \/ CartChecked(h) \/ CartRefused(h) \/ CartBooked(h)

Sale(h) == SaleAdvances(h) \/ \E cart \in CartsOf(h) : SaleOpens(h, cart)

CheckIn(p) ==
    \/ \E b \in Bookings : CheckInReuses(p, b) \/ \E r \in Rooms : CheckInPicks(p, b, r)
    \/ CheckInCommits(p)

Departure(p) == CheckOutCommits(p) \/ \E b \in Bookings : CheckOutOpens(p, b)

Move(m) ==
    \/ \E b \in Bookings, new \in Stay, replan \in BOOLEAN : MovePlanned(m, b, new, replan)
    \/ MoveCommits(m)

Reinstate(o) == Reinstated(o) \/ \E b \in Bookings : ReinstateChecked(o, b)

Next ==
    \/ \E h \in Sellers : Sale(h)
    \/ \E h \in Handlers : HandlerFails(h)
    \/ \E b \in Bookings : PaymentConfirms(b) \/ HoldReleased(b)
    \/ \E c \in Clerks, b \in Bookings : CancelBooking(b) \/ MarkNoShow(b)
    \/ \E p \in Porters : CheckIn(p) \/ Departure(p)
    \/ \E m \in Movers : Move(m)
    \/ \E o \in Overriders : Reinstate(o)
    \/ NightPasses

Spec == Init /\ [][Next]_vars

(* Lock queues of PostgreSQL and the pool's queue are first come, first      *)
(* served, and a handler that waits in neither runs on.                      *)
SaleFairness == \A h \in Sellers : SF_vars(SaleAdvances(h))

FairSpec == Spec /\ SaleFairness

-----------------------------------------------------------------------------
(* What must hold *)

(* The shape of the rows and of what each handler keeps between its steps.   *)
TypeOK ==
    /\ status \in [Bookings -> Status]
    /\ stay \in [Bookings -> Stay]
    /\ assigned \in [Bookings -> [room : Rooms \cup {NoRoom}, from : Dates, to : Dates]]
    /\ today \in Dates
    /\ job \in [Handlers -> Job]

(* The bookings that have a room of the type on the night: by their own      *)
(* dates before check-in, by the room's assignment afterwards.               *)
InHouse(type, night) ==
    {b \in Bookings :
        /\ stay[b].type = type
        /\ \/ PreAssigned(b) /\ stay[b].from <= night /\ night < stay[b].to
           \/ Assigned(b) /\ assigned[b].from <= night /\ night < assigned[b].to}

(* No night has more bookings of a room type than the hotel has rooms of it, *)
(* whichever sales, payments and releases interleave, each search being two  *)
(* statements with a snapshot each: the purpose of the advisory locks        *)
(* (details/+page.server.ts:171, front-desk.ts:944).  At the desk check-ins  *)
(* may interleave as well; one between the two statements of a guest's       *)
(* search may hide a booking from both (availability.ts:292).                *)
NoOverbooking ==
    \A type \in Types, night \in 1 .. LastNight :
        Cardinality(InHouse(type, night)) <= Cardinality(RoomsOf(type))

(* No two active bookings have the same physical room on the same night      *)
(* (front-desk.ts:212, "just taken - pick again").                           *)
RoomTakenOnce ==
    \A b, c \in Bookings :
        (/\ b # c
         /\ assigned[b].room = assigned[c].room /\ assigned[b].room # NoRoom
         /\ status[b] \in ACTIVE_BOOKING_STATUSES
         /\ status[c] \in ACTIVE_BOOKING_STATUSES)
        => ~Overlap(assigned[b], assigned[c])

(* A guest in the house is never given another room, whatever two desks, a   *)
(* change of dates or an override do meanwhile (front-desk.ts:134-138).      *)
GuestKeepsRoom ==
    [][ \A b \in Bookings :
          status[b] = "checked_in" => assigned'[b].room = assigned[b].room ]_vars

(* Whoever changes dates, cancels, marks no-shows and reinstates at once, a   *)
(* stay that was cancelled or missed keeps the dates it had: its nights were *)
(* given back and are free for others (booking-modify.ts:276, the lock at    *)
(* 650).                                                                     *)
ClosedStayKeepsDates ==
    [][ \A b \in Bookings :
          status[b] \in {"cancelled", "no_show"} => stay'[b] = stay[b] ]_vars

(* A seller waits for a lock somebody else holds, or for a connection.       *)
Waiting(h) ==
    \/ job[h].pc = "lock" /\ ~LockFree(h, NextLock(h))
    \/ job[h].pc \in {"read", "readRooms", "readDates"} /\ h \in Shoppers /\ ~CanConnect

(* Sorted lock keys and enough connections: sellers never all wait for each  *)
(* other (details/+page.server.ts:69-71).                                    *)
SomebodyMoves ==
    LET busy == {h \in Sellers : job[h].pc # "idle"}
    IN busy # {} => \E h \in busy : ~Waiting(h)

(* Every sale comes to an end: booked, refused or failed.                    *)
SaleEnds == \A h \in Sellers : job[h].pc # "idle" ~> job[h].pc = "idle"

-----------------------------------------------------------------------------
(* What the repository says of itself and the code does not keep *)

(* "Only a confirmed booking can be checked in." (front-desk.ts:151)         *)
OnlyConfirmedCheckIn ==
    [][ \A b \in Bookings :
          status'[b] = "checked_in" /\ status[b] # "checked_in" => status[b] = "confirmed" ]_vars

(* A room assignment carries its booking's dates: they are "denormalized     *)
(* from the parent booking at assignment time (booking dates aren't editable *)
(* today)" (schema/room-assignments.ts:12-13).                               *)
AssignmentFollowsBooking ==
    \A b \in Bookings :
        status[b] = "confirmed" /\ assigned[b].room # NoRoom =>
            assigned[b].from = stay[b].from /\ assigned[b].to = stay[b].to
=============================================================================
