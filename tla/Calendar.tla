------------------------------- MODULE Calendar -------------------------------
(***************************************************************************)
(* One listing with its room types, its blocks and the reservations that   *)
(* ask for its rooms: the partner's side of api/listings.py against the    *)
(* guests' side of services/reservation_service.py and                     *)
(* services/payment_service.py.  Every handler runs without interference;  *)
(* of the payment only what decides about the room is kept (Booking has    *)
(* the rest).  The database is SQLite, as in development, in the tests and *)
(* in CI: it hands out the ids of deleted rows again.                      *)
(***************************************************************************)
EXTENDS Lifecycle, RoomInventory

CONSTANTS
    Days,           \* the calendar
    Reservations,   \* reservation ids
    Ask,            \* Ask[r]: type, from and to of reservation r
    Types,          \* room type ids, which are ordered
    RoomTypeRows,   \* the rows a partner may write: total, active, order
    SeedTypes,      \* the rows of _seed_room_type_payloads
    Blocks,         \* block ids
    Ranges,         \* the <<from, to>> a partner may block
    Amounts,        \* the blocked_inventory a partner may ask for
    NoRow,          \* there is no row with this id
    NoOne           \* exclude_reservation_id is None

RoomType == [ total : Nat, active : BOOLEAN, order : Nat ]
BlockRow == [ type : Types \cup {NoType}, from : Nat, to : Nat, amount : Nat ]

ASSUME CalendarAssumption ==
    /\ Days \subseteq Nat /\ IsFiniteSet(Days)
    /\ Types \subseteq Nat
    /\ IsFiniteSet(Reservations) /\ IsFiniteSet(Types) /\ IsFiniteSet(Blocks)
    /\ Amounts \subseteq Nat \ {0}
    /\ NoOne \notin Reservations
    /\ NoType \notin Types
ASSUME RowAssumption ==
    /\ Ask \in [ Reservations ->
                   [ type : Types \cup {NoType}, from : Nat, to : Nat ] ]
    /\ \A r \in Reservations :   \* validate_booking_window
         /\ Ask[r].from < Ask[r].to
         /\ Ask[r].from .. Ask[r].to - 1 \subseteq Days
    /\ RoomTypeRows \subseteq RoomType
    /\ SeedTypes \in [ Types -> RoomType ]
    /\ NoRow \notin RoomType \cup BlockRow
    /\ Ranges \subseteq Nat \X Nat

VARIABLES
    live,       \* the listing exists
    rooms,      \* rooms[t]: the row of room type t
    blocks,     \* blocks[b]: the row of block b
    status,     \* status[r]: Reservation.status, "none" before the INSERT
    payment,    \* payment[r]: "none", "unpaid" or "paid" (or refunded)
    unchecked   \* auxiliary: holds taken without looking at availability

vars == << live, rooms, blocks, status, payment, unchecked >>

----------------------------------------------------------------------------
\* What is taken, and the answers of the inventory

Exists(r) == status[r] # "none"
Typed(r) == Ask[r].type # NoType
Holds == { r \in Reservations : status[r] \in Blocking }
RoomTypeIds == { t \in Types : rooms[t] # NoRow }
BlockIds == { b \in Blocks : blocks[b] # NoRow }

\* list_room_types(...)[0], or the type that is asked about.
Primary(t) ==
    LET active == { u \in RoomTypeIds : rooms[u].active }
        Before(u, v) == \/ rooms[u].order < rooms[v].order
                        \/ rooms[u].order = rooms[v].order /\ u <= v
    IN  IF active = {} THEN t
        ELSE CHOOSE u \in active : \A v \in active : Before(u, v)

\* The rooms of type t that are taken on day d: by guests, except r ...
Guests(t, d, r) ==
    { q \in Holds \ {r} : Applies(Ask[q], t, Primary(t)) /\ Covers(Ask[q], d) }

\* ... and by blocks of this type, room by room.
BlockedRooms(t, d) ==
    UNION { {b} \X (1 .. blocks[b].amount) :
              b \in { c \in BlockIds : blocks[c].type = t /\ Covers(blocks[c], d) } }

\* The house is closed on day d.
Closed(d) == \E b \in BlockIds : blocks[b].type = NoType /\ Covers(blocks[b], d)

Stay(row) == { d \in Days : Covers(row, d) }

\* room_type_available_count(..., exclude_reservation_id = r) >= n, for n > 0:
\* every day of the stay has n rooms left.  AvailabilityExact says that this
\* is what the tables and windows of RoomInventory come to.
HasRooms(t, row, n, r) ==
    \A d \in Stay(row) :
        /\ ~Closed(d)
        /\ Cardinality(Guests(t, d, r)) + Cardinality(BlockedRooms(t, d)) + n
             <= rooms[t].total

Overlap(x, y) == x.from < y.to /\ y.from < x.to

\* Mutant: reservations without type are compared with typed ones only.
HasConflictTyped(r) ==
    \/ \E q \in Holds \ {r} : Typed(q) /\ Overlap(Ask[q], Ask[r])
    \/ \E b \in BlockIds : blocks[b].type = NoType /\ Overlap(blocks[b], Ask[r])

\* has_conflict: reservations and blocks without a room type.
HasConflict(r) ==
    \/ \E q \in Holds \ {r} : ~Typed(q) /\ Overlap(Ask[q], Ask[r])
    \/ \E b \in BlockIds : blocks[b].type = NoType /\ Overlap(blocks[b], Ask[r])

KeepUnchecked(U) == unchecked' = { r \in U : status'[r] \in Blocking }

----------------------------------------------------------------------------
Init ==
    /\ live = TRUE
    /\ rooms = [ t \in Types |-> NoRow ]
    /\ blocks = [ b \in Blocks |-> NoRow ]
    /\ status = [ r \in Reservations |-> "none" ]
    /\ payment = [ r \in Reservations |-> "none" ]
    /\ unchecked = {}

----------------------------------------------------------------------------
\* Guests

\* The status of r becomes s.
Becomes(r, s) ==
    /\ status' = [ status EXCEPT ![r] = s ]
    /\ UNCHANGED << live, rooms, blocks >>

\* create_reservation, for the request Ask[r] and a listing that takes guests;
\* the row gets the id r.  A payment row that is there already is kept.
CreateReservation(r) ==
    LET t == Ask[r].type
    IN  /\ live
        /\ ~Exists(r)
        /\ Typed(r) => /\ t \in RoomTypeIds
                       /\ rooms[t].active
                       /\ HasRooms(t, Ask[r], 1, NoOne)
        /\ Becomes(r, "draft")
        /\ payment' = [ payment EXCEPT ![r] = IF @ = "none" THEN "unpaid" ELSE @ ]
        /\ UNCHANGED unchecked

\* _ensure_payment_start_allowed.  The type may have been deactivated.
StartBlocked(r) ==
    IF Typed(r)
    THEN ~( /\ Ask[r].type \in RoomTypeIds
            /\ HasRooms(Ask[r].type, Ask[r], 1, NoOne) )
    ELSE HasConflict(r)

StartUnavailable(r) ==
    /\ status[r] = "draft"
    /\ StartBlocked(r)
    /\ Becomes(r, "expired")
    /\ UNCHANGED << payment, unchecked >>

StartPayment(r) ==
    /\ status[r] = "draft"
    /\ ~StartBlocked(r)
    /\ Becomes(r, "pending_payment")
    /\ payment' = [ payment EXCEPT ![r] = "unpaid" ]
    /\ UNCHANGED unchecked

\* The payment of a hold is settled, by the finalizer or by the webhook.
SettlePaid(r) ==
    /\ status[r] = "pending_payment"
    /\ Becomes(r, "confirmed")
    /\ payment' = [ payment EXCEPT ![r] = "paid" ]
    /\ UNCHANGED unchecked

SettleFailed(r) ==
    /\ status[r] = "pending_payment"
    /\ Becomes(r, "draft")
    /\ payment' = [ payment EXCEPT ![r] = "unpaid" ]
    /\ KeepUnchecked(unchecked)

\* A webhook finds a draft, and does not look at the availability.
WebhookPaidDraft(r) ==
    /\ status[r] = "draft"
    /\ Becomes(r, "confirmed")
    /\ payment' = [ payment EXCEPT ![r] = "paid" ]
    /\ unchecked' = unchecked \cup {r}

WebhookPendingDraft(r) ==
    /\ status[r] = "draft"
    /\ payment[r] # "paid"
    /\ Becomes(r, "pending_payment")
    /\ unchecked' = unchecked \cup {r}
    /\ UNCHANGED payment

\* A sweep finds r overdue.  There is no clock: every sweep of a handler or of
\* the worker is a number of these steps.
Expire(r) ==
    /\ status[r] = "pending_payment"
    /\ Becomes(r, "expired")
    /\ KeepUnchecked(unchecked)
    /\ UNCHANGED payment

Cancel(r) ==
    /\ Exists(r)
    /\ status[r] # "cancelled"
    /\ CanMove(status[r], "cancelled")
    /\ Becomes(r, "cancelled")
    /\ KeepUnchecked(unchecked)
    /\ UNCHANGED payment

\* partner_confirm_reservation: the room type must be active.
PartnerConfirm(r) ==
    LET t == Ask[r].type
    IN  /\ status[r] \in { "draft", "pending_payment", "cancelled", "expired" }
        /\ IF Typed(r)
           THEN /\ t \in RoomTypeIds
                /\ rooms[t].active
                /\ HasRooms(t, Ask[r], 1, r)
           ELSE ~HasConflict(r)
        /\ Becomes(r, "confirmed")
        /\ unchecked' = unchecked \ {r}
        /\ UNCHANGED payment

----------------------------------------------------------------------------
\* The partner's calendar

\* Mutant: only reservations without type stand in the way, as in has_conflict.
HouseTakenUntyped(row) ==
    \/ \E r \in Holds : ~Typed(r) /\ Overlap(Ask[r], row)
    \/ \E b \in BlockIds : Overlap(blocks[b], row)

\* What a block of the whole house may not overlap.
HouseTaken(row) ==
    \/ \E r \in Holds : Overlap(Ask[r], row)
    \/ \E b \in BlockIds : Overlap(blocks[b], row)

NewBlock(t, range, n) ==
    [ type |-> t, from |-> range[1], to |-> range[2], amount |-> n ]

\* Mutant: nobody looks whether the listing still exists.
AddBlockUnlisted(b, row) ==
    /\ blocks[b] = NoRow
    /\ row.from < row.to
    /\ blocks' = [ blocks EXCEPT ![b] = row ]
    /\ UNCHANGED << live, rooms, status, payment, unchecked >>

AddBlock(b, row) ==
    /\ live
    /\ blocks[b] = NoRow
    /\ row.from < row.to
    /\ blocks' = [ blocks EXCEPT ![b] = row ]
    /\ UNCHANGED << live, rooms, status, payment, unchecked >>

\* create_block without a room type.
CloseHouse(b, range) ==
    LET row == NewBlock(NoType, range, 0)
    IN  ~HouseTaken(row) /\ AddBlock(b, row)

\* Mutant: the block is only compared with the number of rooms.
BlockFitsTotal(t, row) == row.amount <= rooms[t].total

BlockFits(t, row) ==
    row.amount <= rooms[t].total /\ HasRooms(t, row, row.amount, NoOne)

\* create_block with one.
BlockRooms(b, t, range, n) ==
    LET row == NewBlock(t, range, n)
    IN  /\ t \in RoomTypeIds
        /\ BlockFits(t, row)
        /\ AddBlock(b, row)

DeleteBlock(b) ==
    /\ b \in BlockIds
    /\ blocks' = [ blocks EXCEPT ![b] = NoRow ]
    /\ UNCHANGED << live, rooms, status, payment, unchecked >>

----------------------------------------------------------------------------
\* Room types

WriteRooms(f) ==
    /\ live
    /\ rooms' = f
    /\ UNCHANGED << live, blocks, status, payment, unchecked >>

\* ensure_room_types_for_listing, by way of list_my_room_types.  The handlers
\* that look at the types have found one before they come to it.
SeedRoomTypes ==
    RoomTypeIds = {} /\ WriteRooms(SeedTypes)

CreateRoomType(t, row) ==
    t \notin RoomTypeIds /\ WriteRooms([ rooms EXCEPT ![t] = row ])

\* The partner may lower total_inventory below what is taken.
UpdateRoomType(t, row) ==
    /\ t \in RoomTypeIds
    /\ row # rooms[t]
    /\ WriteRooms([ rooms EXCEPT ![t] = row ])

\* Mutant: only reservations that hold a room keep their type.
HasReservationsHeld(t) == \E r \in Holds : Ask[r].type = t

HasReservations(t) == \E r \in Reservations : Exists(r) /\ Ask[r].type = t

DeleteRoomType(t) ==
    /\ t \in RoomTypeIds
    /\ ~HasReservations(t)
    /\ WriteRooms([ rooms EXCEPT ![t] = NoRow ])

\* delete_listing removes the blocks, the reservations and the room types, and
\* leaves the payments.
DeleteListing ==
    /\ live
    /\ live' = FALSE
    /\ rooms' = [ t \in Types |-> NoRow ]
    /\ blocks' = [ b \in Blocks |-> NoRow ]
    /\ status' = [ r \in Reservations |-> "none" ]
    /\ unchecked' = {}
    /\ UNCHANGED payment

\* create_listing: the next listing, which is given the old id.
CreateListing ==
    /\ ~live
    /\ live' = TRUE
    /\ UNCHANGED << rooms, blocks, status, payment, unchecked >>

----------------------------------------------------------------------------
Guest(r) ==
    \/ CreateReservation(r)
    \/ StartUnavailable(r)
    \/ StartPayment(r)
    \/ SettlePaid(r)
    \/ SettleFailed(r)
    \/ WebhookPaidDraft(r)
    \/ WebhookPendingDraft(r)
    \/ Expire(r)
    \/ Cancel(r)
    \/ PartnerConfirm(r)

PartnerBlocks ==
    \E b \in Blocks :
        \/ \E range \in Ranges :
             \/ CloseHouse(b, range)
             \/ \E t \in Types, n \in Amounts : BlockRooms(b, t, range, n)
        \/ DeleteBlock(b)

PartnerRooms ==
    \/ SeedRoomTypes
    \/ \E t \in Types :
         \/ DeleteRoomType(t)
         \/ \E row \in RoomTypeRows :
              CreateRoomType(t, row) \/ UpdateRoomType(t, row)

Next ==
    \/ \E r \in Reservations : Guest(r)
    \/ PartnerBlocks
    \/ PartnerRooms
    \/ DeleteListing
    \/ CreateListing

Spec == Init /\ [][Next]_vars

----------------------------------------------------------------------------
\* Properties

\* The tables hold rows, only holds are unchecked, and nothing belongs to a
\* listing that is gone.
TypeOK ==
    /\ live \in BOOLEAN
    /\ rooms \in [ Types -> RoomType \cup {NoRow} ]
    /\ blocks \in [ Blocks -> BlockRow \cup {NoRow} ]
    /\ \A b \in BlockIds : blocks[b].from < blocks[b].to
    /\ status \in [ Reservations -> ReservationStatus \cup {"none"} ]
    /\ payment \in [ Reservations -> { "none", "unpaid", "paid" } ]
    /\ unchecked \in SUBSET Holds
    /\ ~live => RoomTypeIds = {} /\ BlockIds = {}
                /\ \A r \in Reservations : ~Exists(r)

CheckedHolds == Holds \ unchecked

\* A guest who was admitted never finds the house closed, whichever of the
\* block and the reservation came first and whatever was swept, reopened,
\* reordered or deleted in between.
ClosedMeansEmpty ==
    \A r \in CheckedHolds, b \in BlockIds :
        blocks[b].type = NoType => ~Overlap(Ask[r], blocks[b])

\* A reservation without a room type takes the house for itself: two of them
\* are never admitted for the same night (has_conflict).
UntypedAlone ==
    \A q, r \in CheckedHolds :
        q # r /\ ~Typed(q) /\ ~Typed(r) => ~Overlap(Ask[q], Ask[r])

\* A reservation always has its room type (delete_room_type: "Room type has
\* reservations. Disable it instead of deleting.").
NoDanglingType ==
    \A r \in Reservations : Exists(r) /\ Typed(r) => Ask[r].type \in RoomTypeIds

\* The rooms of t that were given away on day d by someone who looked.
Given(t, d) ==
    Cardinality({ r \in CheckedHolds : Ask[r].type = t /\ Covers(Ask[r], d) })
        + Cardinality(BlockedRooms(t, d))

\* A partner may lower the number of rooms below what is given away; but as
\* long as it is, nobody gives away another one.
AdmissionStep ==
    \A t \in RoomTypeIds', d \in Days :
        Given(t, d)' > Given(t, d) => Given(t, d)' <= rooms'[t].total
AdmissionFits == [][AdmissionStep]_vars

\* The tables and windows of RoomInventory, for the rows of this state.
AvailableOn(t, r) ==
    LET held == [ q \in Holds \ {r} |-> Ask[q] ]
        blocked == [ b \in BlockIds |-> blocks[b] ]
    IN  [ d \in Days |->
            DayAvailable(d, t, rooms[t].total, Primary(t), blocked, held) ]

\* The count that the handlers are given for a stay is the number of rooms
\* that nobody has taken on its fullest day.
CountsExact ==
    \A t \in RoomTypeIds, r \in Holds \cup {NoOne} :
        LET free == AvailableOn(t, r)
            Count(range) == AvailableCount(Windows(free, range[1], range[2]),
                                           range[1], range[2])
        IN  \A range \in Ranges :
                LET row == [ from |-> range[1], to |-> range[2] ]
                    n == Count(range)
                IN  /\ n > 0 => HasRooms(t, row, n, r)
                    /\ ~HasRooms(t, row, n + 1, r)

\* What guests are shown: the windows of a range are its longest runs of free
\* days, in order, each with the rooms of its fullest day.
WindowsExact ==
    \A t \in RoomTypeIds :
        LET free == AvailableOn(t, NoOne)
            Exact(windows, from, to) ==
              LET Inside(i) == { d \in Days : Covers(windows[i], d) }
              IN  /\ \A i \in DOMAIN windows :
                       /\ windows[i].count = Min({ free[d] : d \in Inside(i) })
                       /\ i > 1 => windows[i - 1].to < windows[i].from
                  /\ { d \in from .. to - 1 : free[d] > 0 }
                       = UNION { Inside(i) : i \in DOMAIN windows }
        IN  \A range \in Ranges :
                Exact(Windows(free, range[1], range[2]), range[1], range[2])

\* The tables and windows of the inventory count exactly, for the handlers that book
\* and for the guests who look, whatever rooms, blocks and guests there are.
AvailabilityExact == CountsExact /\ WindowsExact

\* "Hard-delete dependent booking records to prevent stale conflicts when ids
\* are reused in SQLite" (delete_listing): a draft that was just created, or
\* reopened, is not paid for.
DraftIsUnpaid ==
    \A r \in Reservations : status[r] = "draft" => payment[r] # "paid"

=============================================================================
