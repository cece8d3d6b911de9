------------------------------ MODULE ServiceDesk ------------------------------
(***************************************************************************)
(* The partner's console of the in-stay services:                          *)
(* components/manager/ManagerInStaySection.tsx with its handlers in        *)
(* app/manager/page.tsx.  It offers the next step of every request it      *)
(* shows, which may be older than what the backend has, and no button      *)
(* waits for an update that is in flight.                                  *)
(***************************************************************************)
EXTENDS InStay

CONSTANTS
    Tasks,      \* bound: the updates that are under way at once
    NoTask,
    NoEdit      \* no dish is edited

\* What a handler of the console awaits: the backend before and in the update,
\* its answer, or the list that is loaded then, with the filter of the press.
Task == [ op : { "table", "order", "dish", "new", "list" }, id : Nat,
          to : TableStatus \cup OrderStatus \cup CatalogueState,
          filter : TableStatus \cup {"all"},
          step : { "send", "update", "answer", "reload" } ]

\* A dish in the edit form, with the box of its copy.
Edit == [ dish : Dishes, active : BOOLEAN ]

ASSUME ServiceDeskAssumption ==
    /\ Tasks \subseteq Nat /\ Dishes \subseteq Nat
    /\ NoTask \notin Task /\ NoEdit \notin Edit

VARIABLES
    tasks,          \* tasks[k]: what the handler k awaits
    shownTables,    \* inStayRestaurantBookings: the statuses that are shown
    shownOrders,    \* inStayOrders
    shownMenu,      \* inStayMenuItems
    tableFilter,    \* inStayTableBookingStatusFilter
    edit            \* editingMenuId and menuEditDraft

shownVars == << shownTables, shownOrders, shownMenu, tableFilter, edit >>
deskVars == << tasks, shownVars >>

ServiceDeskTypeOK ==
    /\ tasks \in [ Tasks -> Task \cup {NoTask} ]
    /\ shownTables \in [ Tables -> TableStatus \cup {"none"} ]
    /\ shownOrders \in [ Orders -> OrderStatus \cup {"none"} ]
    /\ shownMenu \in [ Dishes -> CatalogueState ]
    /\ tableFilter \in TableStatus \cup {"all"}
    /\ edit \in Edit \cup {NoEdit}

----------------------------------------------------------------------------
\* What the console offers for a row that it shows

\* Mutant: the guest is seated at once.
NextSkipping(status) ==
    { pair[2] : pair \in { p \in { << "submitted", "seated" >>,
        << "confirmed", "seated" >>, << "seated", "completed" >> } : p[1] = status } }

\* nextBookingAction.
NextBooking(status) ==
    { pair[2] : pair \in { p \in { << "submitted", "confirmed" >>,
        << "confirmed", "seated" >>, << "seated", "completed" >> } : p[1] = status } }

\* nextRoomServiceAction.
NextOrder(status) ==
    { pair[2] : pair \in { p \in { << "submitted", "accepted" >>,
        << "accepted", "preparing" >>, << "preparing", "delivered" >>,
        << "delivered", "closed" >> } : p[1] = status } }

\* canCancelBooking; the console does not cancel orders.
CanCancelBooking(status) == status \in ActiveTable
TableActions(status) ==
    NextBooking(status) \cup (IF CanCancelBooking(status) THEN {"cancelled"} ELSE {})

\* The queues: the requests that have a next step.
OrderQueue == { o \in Orders : NextOrder(shownOrders[o]) # {} }

\* menuDraftDuplicate looks at the list that is shown: the dish of the form is
\* new to it.
CanCreate(d) == shownMenu[d] = "none"

----------------------------------------------------------------------------
\* The handlers

FreeTask(k) == tasks[k] = NoTask /\ \A j \in Tasks : j < k => tasks[j] # NoTask
NewTask(op, id, to, step) ==
    [ op |-> op, id |-> id, to |-> to, filter |-> tableFilter, step |-> step ]
At(k, op, step) == tasks[k] # NoTask /\ tasks[k].op = op /\ tasks[k].step = step
Begins(k, op, id, to, step) ==
    /\ FreeTask(k)
    /\ tasks' = [ tasks EXCEPT ![k] = NewTask(op, id, to, step) ]
    /\ UNCHANGED inStayVars
Moves(k, step) == tasks' = [ tasks EXCEPT ![k].step = step ]

\* onUpdateInStayRestaurantBookingStatus and onUpdateInStayOrderStatus.
PressStep(k, t) ==
    /\ \E to \in TableActions(shownTables[t]) : Begins(k, "table", t, to, "send")
    /\ UNCHANGED shownVars

PressOrderStep(k, o) ==
    /\ o \in OrderQueue
    /\ \E to \in NextOrder(shownOrders[o]) : Begins(k, "order", o, to, "send")
    /\ UNCHANGED shownVars

\* onToggleInStayMenuItem sends the whole row as it is shown, flipped.
PressToggle(k, d) ==
    /\ shownMenu[d] # "none"
    /\ Begins(k, "dish", d, IF shownMenu[d] = "active" THEN "hidden" ELSE "active",
              "send")
    /\ UNCHANGED shownVars

PressCreate(k, d) ==
    /\ CanCreate(d)
    /\ Begins(k, "new", d, "active", "send")
    /\ UNCHANGED shownVars

\* The edit form keeps the copy that it was opened with.
BeginEdit(d) ==
    /\ shownMenu[d] # "none"
    /\ edit' = [ dish |-> d, active |-> shownMenu[d] = "active" ]
    /\ UNCHANGED << inStayVars, tasks, shownTables, shownOrders, shownMenu,
                    tableFilter >>

ChangeEdit ==
    /\ edit # NoEdit
    /\ edit' \in { [ edit EXCEPT !.active = ~@ ], NoEdit }
    /\ UNCHANGED << inStayVars, tasks, shownTables, shownOrders, shownMenu,
                    tableFilter >>

SaveEdit(k) ==
    /\ edit # NoEdit
    /\ Begins(k, "dish", edit.dish, IF edit.active THEN "active" ELSE "hidden",
              "send")
    /\ edit' = NoEdit
    /\ UNCHANGED << shownTables, shownOrders, shownMenu, tableFilter >>

PressReload(k) ==
    /\ Begins(k, "list", 0, "none", "reload")
    /\ UNCHANGED shownVars

\* The effect of the filter loads the list anew; earlier loads go on with theirs.
SetFilter(k, filter) ==
    /\ tableFilter # filter
    /\ FreeTask(k)
    /\ tableFilter' = filter
    /\ tasks' = [ tasks EXCEPT ![k] =
                    [ NewTask("list", 0, "none", "reload") EXCEPT !.filter = filter ] ]
    /\ UNCHANGED << inStayVars, shownTables, shownOrders, shownMenu, edit >>

----------------------------------------------------------------------------
\* The backend

ServeRead(k) ==
    /\ At(k, "table", "send")
    /\ BeginPatch(k, tasks[k].id, tasks[k].to)
    /\ Moves(k, "update")
    /\ UNCHANGED << tables, orders, menu, open, shownVars >>

ServeWrite(k) ==
    /\ At(k, "table", "update")
    /\ \E p \in patches : p.by = k /\ CommitPatch(p)
    /\ Moves(k, "answer")
    /\ UNCHANGED << orders, menu, open, shownVars >>

ServeOrder(k) ==
    /\ At(k, "order", "send")
    /\ SetOrder(tasks[k].id, tasks[k].to)
    /\ Moves(k, "answer")
    /\ UNCHANGED << tables, patches, menu, open, shownVars >>

ServeDish(k) ==
    /\ \/ At(k, "dish", "send") /\ SetDish(tasks[k].id, tasks[k].to = "active")
       \/ At(k, "new", "send") /\ InsertDish(tasks[k].id)
    /\ Moves(k, "answer")
    /\ UNCHANGED << tables, orders, patches, open, shownVars >>

----------------------------------------------------------------------------
\* The console gets its answers, which tell what the backend has by then

TableNow(t) == IF Booked(t) THEN tables[t].status ELSE "none"
OrderNow(o) == IF Ordered(o) THEN orders[o].status ELSE "none"

\* The row is replaced where it is shown.
Answered(k) ==
    /\ tasks[k] # NoTask /\ tasks[k].step = "answer"
    /\ Moves(k, "reload")
    /\ shownTables' = IF tasks[k].op = "table" /\ shownTables[tasks[k].id] # "none"
                      THEN [ shownTables EXCEPT ![tasks[k].id] = TableNow(tasks[k].id) ]
                      ELSE shownTables
    /\ shownOrders' = IF tasks[k].op = "order"
                      THEN [ shownOrders EXCEPT ![tasks[k].id] = OrderNow(tasks[k].id) ]
                      ELSE shownOrders
    /\ UNCHANGED << inStayVars, shownMenu, tableFilter, edit >>

Finishes(k) == tasks' = [ tasks EXCEPT ![k] = NoTask ]

\* Refused or lost: the rows stay as they are, and nothing is loaded.
TaskFails(k) ==
    /\ tasks[k] # NoTask /\ tasks[k].step \in { "send", "answer", "reload" }
    /\ Finishes(k)
    /\ UNCHANGED << inStayVars, shownVars >>

\* loadInStayRestaurantBookings, loadInStayOrders and loadInStayMenu; onRefresh
\* calls all of them.
ReloadArrives(k) ==
    /\ tasks[k] # NoTask /\ tasks[k].step = "reload"
    /\ Finishes(k)
    /\ shownTables' =
         IF tasks[k].op \in { "table", "list" }
         THEN [ t \in Tables |-> IF tasks[k].filter \in { "all", TableNow(t) }
                                 THEN TableNow(t) ELSE "none" ]
         ELSE shownTables
    /\ shownOrders' = IF tasks[k].op \in { "order", "list" }
                      THEN [ o \in Orders |-> OrderNow(o) ] ELSE shownOrders
    /\ shownMenu' = IF tasks[k].op \in { "dish", "new", "list" } THEN menu
                    ELSE shownMenu
    /\ UNCHANGED << inStayVars, tableFilter, edit >>

----------------------------------------------------------------------------
\* The guests

GuestBooks ==
    /\ \E t \in Tables, slot \in Slots : InsertTable(t, slot, NoKey)
    /\ UNCHANGED << orders, patches, menu, open, deskVars >>

GuestOrders ==
    /\ OnMenu(Dishes)
    /\ \E o \in Orders : InsertOrder(o, NoKey)
    /\ UNCHANGED << tables, patches, menu, open, deskVars >>

ServiceDeskInit ==
    /\ tasks = [ k \in Tasks |-> NoTask ]
    /\ shownTables = [ t \in Tables |-> "none" ]
    /\ shownOrders = [ o \in Orders |-> "none" ]
    /\ shownMenu = [ d \in Dishes |-> "none" ]
    /\ tableFilter = "all"
    /\ edit = NoEdit

Answers(k) == Answered(k) \/ TaskFails(k) \/ ReloadArrives(k)

\* The tables, and the room service: they share nothing but the bound on tasks.
DiningNext ==
    \/ \E k \in Tasks :
         \/ \E t \in Tables : PressStep(k, t)
         \/ \E filter \in { "all", "submitted" } : SetFilter(k, filter)
         \/ PressReload(k) \/ ServeRead(k) \/ ServeWrite(k) \/ Answers(k)
    \/ GuestBooks

KitchenNext ==
    \/ \E k \in Tasks :
         \/ \E o \in Orders : PressOrderStep(k, o)
         \/ \E d \in Dishes : PressToggle(k, d) \/ PressCreate(k, d)
         \/ SaveEdit(k) \/ PressReload(k)
         \/ ServeOrder(k) \/ ServeDish(k) \/ Answers(k)
    \/ \E d \in Dishes : BeginEdit(d)
    \/ ChangeEdit
    \/ GuestOrders

----------------------------------------------------------------------------
\* Properties

\* The history that the guest and the partner are shown is true: it ends at the
\* status of the booking, however the updates of several consoles interleave, and
\* no stage is left out, although a console goes by rows that may be old and the
\* backend accepts any status: a guest who is seated was confirmed, and a visit
\* that is completed had the guest seated.
HistoryIsTrue ==
    \A t \in Tables : Booked(t) =>
        /\ tables[t].history = tables[t].status
        /\ "seated" \in tables[t].been => "confirmed" \in tables[t].been
        /\ "completed" \in tables[t].been => "seated" \in tables[t].been

=============================================================================
