-------------------------------- MODULE InStay --------------------------------
(***************************************************************************)
(* The in-stay services of the backend, app/api/instay.py: the catalogue   *)
(* of dishes and restaurants, the room-service orders, and the table       *)
(* bookings with the history of their statuses.  A handler that reads and  *)
(* then writes is two steps; nothing else is locked.                       *)
(***************************************************************************)
EXTENDS Integers, Sequences, FiniteSets

CONSTANTS
    Tables,     \* ids the backend may give to table bookings
    Orders,     \* ids the backend may give to room-service orders
    Slots,      \* a restaurant, a day and a time
    Dishes,     \* ids the backend may give to menu items
    Origins,    \* where a request of the guest comes from: the key of an action
    NoKey,      \* of the chat, or none
    NoRow       \* an id that is not given yet

OrderStatus == { "submitted", "accepted", "preparing", "delivered", "closed",
                 "cancelled" }
TableStatus == { "submitted", "confirmed", "seated", "completed", "cancelled" }
ActiveTable == { "submitted", "confirmed", "seated" }
CatalogueState == { "none", "active", "hidden" }

\* history: the status that the newest event of the booking announces; been: the
\* statuses that its events announce.
Table == [ slot : Slots, status : TableStatus, history : TableStatus,
           been : SUBSET TableStatus, from : Origins ]
Order == [ status : OrderStatus, from : Origins ]

\* A PATCH of a table's status that has read the booking, and who sent it.
Patch == [ by : Nat, table : Tables, read : TableStatus, to : TableStatus ]

ASSUME InStayAssumption ==
    /\ Tables \subseteq Nat /\ Orders \subseteq Nat
    /\ NoKey \in Origins
    /\ NoRow \notin Table /\ NoRow \notin Order

VARIABLES
    tables,     \* tables[t]: the booking t, or NoRow
    orders,     \* orders[o]: the order o, or NoRow
    patches,    \* the PATCH handlers that have read and not yet committed
    menu,       \* menu[d]: the dish d of the catalogue
    open        \* the listing has an active restaurant

inStayVars == << tables, orders, patches, menu, open >>

InStayTypeOK ==
    /\ tables \in [ Tables -> Table \cup {NoRow} ]
    /\ orders \in [ Orders -> Order \cup {NoRow} ]
    /\ patches \subseteq Patch
    /\ menu \in [ Dishes -> CatalogueState ]
    /\ open \in BOOLEAN

----------------------------------------------------------------------------
\* create_restaurant_booking: the slot is looked at, then the row is inserted
\* with its first event

Booked(t) == tables[t] # NoRow
Ordered(o) == orders[o] # NoRow

\* One active booking of the guest in a slot; another guest's is no obstacle.
SlotFree(slot) ==
    ~ \E t \in Tables : Booked(t) /\ tables[t].slot = slot
                          /\ tables[t].status \in ActiveTable

\* Ids are given in their order.
InsertTable(t, slot, from) ==
    /\ ~Booked(t) /\ \A u \in Tables : u < t => Booked(u)
    /\ tables' = [ tables EXCEPT ![t] =
         [ slot |-> slot, status |-> "submitted", history |-> "submitted",
           been |-> { "submitted" }, from |-> from ] ]

\* create_room_service_order: every dish must be on the menu.
OnMenu(dishes) == \A d \in dishes : menu[d] = "active"
InsertOrder(o, from) ==
    /\ ~Ordered(o) /\ \A p \in Orders : p < o => Ordered(p)
    /\ orders' = [ orders EXCEPT ![o] = [ status |-> "submitted", from |-> from ] ]

----------------------------------------------------------------------------
\* The partner's updates: any status may follow any other

\* update_order_status.
SetOrder(o, to) ==
    /\ Ordered(o)
    /\ orders' = [ orders EXCEPT ![o].status = to ]

\* update_restaurant_booking_status, up to the comparison.
BeginPatch(by, t, to) ==
    /\ Booked(t)
    /\ \A p \in patches : p.by # by
    /\ patches' = patches \cup
         { [ by |-> by, table |-> t, read |-> tables[t].status, to |-> to ] }

\* Mutant: the event is announced only if the row still has the status read.
PatchedIfFresh(row, p) ==
    [ row EXCEPT !.status = p.to, !.been = @ \cup {p.to},
                 !.history = IF row.status = p.read THEN p.to ELSE @ ]

\* Its commit: the row and its event are written together, and neither is when
\* the handler read the status it was asked for.
Patched(row, p) ==
    IF p.read = p.to THEN row
    ELSE [ row EXCEPT !.status = p.to, !.history = p.to, !.been = @ \cup {p.to} ]

CommitPatch(p) ==
    /\ p \in patches
    /\ patches' = patches \ {p}
    /\ tables' = [ tables EXCEPT ![p.table] = Patched(@, p) ]

\* create_menu_item; update_menu_item writes the whole row it is given.
InsertDish(d) == menu[d] = "none" /\ menu' = [ menu EXCEPT ![d] = "active" ]
SetDish(d, active) ==
    /\ menu[d] # "none"
    /\ menu' = [ menu EXCEPT ![d] = IF active THEN "active" ELSE "hidden" ]

----------------------------------------------------------------------------
InStayInit ==
    /\ tables = [ t \in Tables |-> NoRow ]
    /\ orders = [ o \in Orders |-> NoRow ]
    /\ patches = {}
    /\ menu \in [ Dishes -> { "none", "active" } ]
    /\ open \in BOOLEAN

=============================================================================
