------------------------------- MODULE Concierge -------------------------------
(***************************************************************************)
(* The guest's in-stay page, components/InStayConcierge.tsx: the refresh   *)
(* of its lists, the order form, the table form with its retry, and the    *)
(* chat that offers actions.  Whatever is awaited is a flow; only the chat *)
(* keeps a second flow of its own from starting.  The page stays mounted.  *)
(***************************************************************************)
EXTENDS InStay

CONSTANTS
    Flows,      \* bound: the flows that are under way at once
    Idle,       \* no flow
    MaxOffers,  \* bound: the actions that the messages offer
    MaxStrays,  \* bound: the requests that go on without the page
    StaffSets,  \* bound: the statuses that the partner sets meanwhile, of those that
                \* a console offers for any row (ServiceDesk has the others)
    NoSlot      \* no slot is told of

\* The actions of the chat; a restaurant or a table is of a slot.
Offers == [ act : { "order", "draft", "add" }, slot : {NoSlot} ]
            \cup [ act : { "table", "pick" }, slot : Slots ]

\* The key of a draft names what is in it.
Keys == [ act : { "order", "draft", "table" }, slot : Slots \cup {NoSlot},
          draft : {0, 1} ]

\* What is awaited: the backend (before it looks, before it inserts, after it
\* has), the list of bookings after a failure, or the lists of a refresh.
Steps == { "create", "insert", "made", "checkLost", "checkRefused", "lists" }
Flow == [ op : { "refresh", "order", "table", "chat" },
          key : Keys \cup {NoKey}, slot : Slots, attempt : {1, 2}, step : Steps ]

\* A request that the page has given up.
Stray == [ table : BOOLEAN, slot : Slots, from : Keys \cup {NoKey},
           step : { "create", "insert" } ]

ASSUME ConciergeAssumption ==
    /\ NoSlot \notin Slots
    /\ Idle \notin Flow /\ NoKey \notin Keys
    /\ Origins = Keys \cup {NoKey}
    /\ Flows \subseteq Nat
    /\ MaxOffers \in Nat /\ MaxStrays \in Nat
    /\ StaffSets \subseteq { "confirmed", "cancelled" }

VARIABLES
    flows,      \* flows[f]: what the page awaits
    strays,     \* the requests that the page has given up and the backend has not
    loading, asking, \* loading; chatLoading
    onPage,     \* the dish is in the menu that was loaded
    draft,      \* quantityByItem of the dish
    slot,       \* the restaurant, day and time of the form
    offered,    \* the actions of the messages
    busy,       \* busyActionKey of a final action
    completed,  \* completedActionKeys
    said        \* the slot that the last notice "table booked" was about

pageVars == << onPage, draft, slot, offered, completed >>
conciergeVars == << flows, strays, loading, asking, busy, said, pageVars >>

ConciergeTypeOK ==
    /\ flows \in [ Flows -> Flow \cup {Idle} ]
    /\ strays \subseteq Stray
    /\ << loading, asking, onPage >> \in BOOLEAN \X BOOLEAN \X BOOLEAN
    /\ draft \in {0, 1} /\ slot \in Slots
    /\ offered \subseteq Offers
    /\ busy \in Keys \cup {NoKey}
    /\ completed \subseteq Keys
    /\ said \in Slots \cup {NoSlot}

----------------------------------------------------------------------------
\* What the page shows

\* selectedItems: what the guest has put together of the menu on the page.
Selected == IF onPage THEN draft ELSE 0

\* actionKey.
KeyOf(offer) == [ act |-> offer.act, slot |-> offer.slot,
                  draft |-> IF offer.act = "draft" THEN Selected ELSE 0 ]
Final(offer) == offer.act \in { "order", "draft", "table" }

\* handleConciergeAction returns at once, and the button is disabled.
ActionEnabled(offer) ==
    /\ offer \in offered /\ busy = NoKey
    /\ Final(offer) => KeyOf(offer) \notin completed

AskEnabled == ~asking /\ ~loading /\ busy = NoKey

\* runLocalConciergeMessage, the answer when the backend gives none.
LocalOffers ==
    { offer \in Offers :
        /\ offer.act = "draft" => Selected > 0
        /\ offer.act \in { "add", "order" } => onPage
        /\ offer.slot # NoSlot => open }

\* The concierge of the backend knows its catalogue, not what the page shows.
BackendOffers ==
    { offer \in Offers :
        IF offer.slot # NoSlot THEN open ELSE \E d \in Dishes : menu[d] # "none" }

----------------------------------------------------------------------------
\* Flows

Free(f) == flows[f] = Idle /\ \A g \in Flows : g < f => flows[g] # Idle
Runs(f, step) == flows[f] # Idle /\ flows[f].step = step
NewFlow(op, step) ==
    [ op |-> op, key |-> NoKey, slot |-> slot, attempt |-> 1, step |-> step ]
StepTo(f, step) == flows' = [ flows EXCEPT ![f].step = step ]
Ends(f) == flows' = [ flows EXCEPT ![f] = Idle ]
MakesTable(f) ==
    flows[f].op = "table"
      \/ (flows[f].op = "chat" /\ flows[f].key.act = "table")

\* The mount effect and the button.
PressRefresh(f) ==
    /\ Free(f) /\ ~loading
    /\ flows' = [ flows EXCEPT ![f] = NewFlow("refresh", "lists") ]
    /\ loading' = TRUE
    /\ said' = NoSlot
    /\ UNCHANGED << inStayVars, strays, asking, busy, pageVars >>

\* onCreateRoomOrder and onCreateTableBooking: the buttons stay enabled while
\* a request is in flight.
PressOrder(f) ==
    /\ Free(f) /\ Selected > 0
    /\ flows' = [ flows EXCEPT ![f] = NewFlow("order", "create") ]
    /\ said' = NoSlot
    /\ UNCHANGED << inStayVars, strays, loading, asking, busy, pageVars >>

PressTable(f) ==
    /\ Free(f) /\ open
    /\ flows' = [ flows EXCEPT ![f] = NewFlow("table", "create") ]
    /\ said' = NoSlot
    /\ UNCHANGED << inStayVars, strays, loading, asking, busy, pageVars >>

SetDraft(n) ==
    /\ onPage /\ draft # n
    /\ draft' = n
    /\ UNCHANGED << inStayVars, flows, strays, loading, asking, busy, said,
                    onPage, slot, offered, completed >>

SetSlot(s) ==
    /\ slot # s
    /\ slot' = s
    /\ UNCHANGED << inStayVars, flows, strays, loading, asking, busy, said,
                    onPage, draft, offered, completed >>

----------------------------------------------------------------------------
\* The chat

Ask ==
    /\ AskEnabled
    /\ asking' = TRUE
    /\ UNCHANGED << inStayVars, flows, strays, loading, busy, said, pageVars >>

\* The backend may offer any action, or none; without its answer the page makes
\* one up.  A restaurant or a table is previewed in the form.
Reply(answered) ==
    /\ asking
    /\ asking' = FALSE
    /\ \/ UNCHANGED << offered, slot >>
       \/ \E offer \in (IF answered THEN BackendOffers ELSE LocalOffers) :
            /\ Cardinality(offered \cup {offer}) <= MaxOffers
            /\ offered' = offered \cup {offer}
            /\ slot' = IF offer.slot # NoSlot THEN offer.slot ELSE slot
    /\ UNCHANGED << inStayVars, flows, strays, loading, busy, said, onPage,
                    draft, completed >>

\* Actions that send nothing end at once.
ClickLocal(offer) ==
    /\ ~Final(offer) /\ ActionEnabled(offer)
    /\ draft' = IF offer.act = "add" THEN 1 ELSE draft
    /\ slot' = IF offer.act = "pick" THEN offer.slot ELSE slot
    /\ UNCHANGED << inStayVars, flows, strays, loading, asking, busy, said,
                    onPage, offered, completed >>

\* An empty draft, or a dish that the page does not have, is not sent, but its
\* key counts as completed.
Sendable(offer) ==
    /\ offer.act = "order" => onPage
    /\ offer.act = "draft" => Selected > 0

ClickEmpty(offer) ==
    /\ Final(offer) /\ ActionEnabled(offer) /\ ~Sendable(offer)
    /\ completed' = completed \cup {KeyOf(offer)}
    /\ UNCHANGED << inStayVars, flows, strays, loading, asking, busy, said,
                    onPage, draft, slot, offered >>

ClickFinal(f, offer) ==
    /\ Free(f) /\ Final(offer) /\ ActionEnabled(offer) /\ Sendable(offer)
    /\ flows' = [ flows EXCEPT ![f] =
         [ op |-> "chat", key |-> KeyOf(offer), attempt |-> 1, step |-> "create",
           slot |-> IF offer.act = "table" THEN offer.slot ELSE slot ] ]
    /\ busy' = KeyOf(offer)
    /\ said' = NoSlot
    /\ UNCHANGED << inStayVars, strays, loading, asking, pageVars >>

\* Mutant: a request that failed is offered again.
CompletedBy(f, ok) == IF flows[f].op = "chat" /\ ok
                      THEN completed \cup {flows[f].key} ELSE completed

\* The helpers catch their errors: the key is completed either way.
Completed(f, ok) == IF flows[f].op = "chat"
                    THEN completed \cup {flows[f].key} ELSE completed

\* Mutant: the key is freed on success only.
BusyIfFailed(f, ok) == IF flows[f].op = "chat" /\ ok THEN NoKey ELSE busy

\* The finally of handleConciergeAction.
BusyThen(f, ok) == IF flows[f].op = "chat" THEN NoKey ELSE busy

----------------------------------------------------------------------------
\* The backend handles the requests

HandleOrder(f, o) ==
    /\ Runs(f, "create") /\ ~MakesTable(f)
    /\ OnMenu(Dishes)
    /\ InsertOrder(o, flows[f].key)
    /\ StepTo(f, "made")
    /\ UNCHANGED << tables, patches, menu, open, strays, loading, asking, busy, said,
                    pageVars >>

LookAtSlot(f) ==
    /\ Runs(f, "create") /\ MakesTable(f) /\ open
    /\ SlotFree(flows[f].slot)
    /\ StepTo(f, "insert")
    /\ UNCHANGED << inStayVars, strays, loading, asking, busy, said, pageVars >>

HandleTable(f, t) ==
    /\ Runs(f, "insert")
    /\ InsertTable(t, flows[f].slot, flows[f].key)
    /\ StepTo(f, "made")
    /\ UNCHANGED << orders, patches, menu, open, strays, loading, asking, busy, said,
                    pageVars >>

\* A request whose connection broke goes on, or is refused.
HandleStray(s) ==
    /\ s \in strays
    /\ \/ /\ s.table /\ s.step = "create" /\ SlotFree(s.slot)
          /\ strays' = (strays \ {s}) \cup { [ s EXCEPT !.step = "insert" ] }
          /\ UNCHANGED << tables, orders >>
       \/ /\ s.table /\ s.step = "insert"
          /\ \E t \in Tables : InsertTable(t, s.slot, s.from)
          /\ strays' = strays \ {s}
          /\ UNCHANGED orders
       \/ /\ ~s.table /\ OnMenu(Dishes)
          /\ \E o \in Orders : InsertOrder(o, s.from)
          /\ strays' = strays \ {s}
          /\ UNCHANGED tables
       \/ /\ strays' = strays \ {s}
          /\ UNCHANGED << tables, orders >>
    /\ UNCHANGED << patches, menu, open, flows, loading, asking, busy, said, pageVars >>

----------------------------------------------------------------------------
\* The page gets its answers

\* An order empties the draft, whatever was added to it in between.
Made(f) ==
    /\ Runs(f, "made")
    /\ StepTo(f, "lists")
    /\ draft' = IF flows[f].op = "order" \/ (flows[f].op = "chat" /\ flows[f].key.act = "draft")
                THEN 0 ELSE draft
    /\ slot' = IF flows[f].op = "chat" /\ MakesTable(f) THEN flows[f].slot ELSE slot
    /\ loading' = TRUE
    /\ said' = NoSlot
    /\ UNCHANGED << inStayVars, strays, asking, busy, onPage, offered, completed >>

\* The end of a request that failed: only the table form looks whether the
\* booking was made all the same.
GivenUp(f, check) ==
    /\ IF flows[f].op = "table"
       THEN StepTo(f, check) /\ UNCHANGED << busy, completed, said >>
       ELSE /\ Ends(f)
            /\ busy' = BusyThen(f, FALSE)
            /\ completed' = Completed(f, FALSE)
            /\ said' = NoSlot
    /\ UNCHANGED << inStayVars, loading, asking, onPage, draft, slot, offered >>

Refused(f) ==
    /\ Runs(f, "create") \/ Runs(f, "insert")
    /\ GivenUp(f, "checkRefused")
    /\ UNCHANGED strays

\* The connection broke: the backend has not seen the request, it is still at
\* work on it, or its answer was lost.
Lost(f, reached) ==
    /\ Runs(f, "create") \/ Runs(f, "insert") \/ Runs(f, "made")
    /\ reached => ~Runs(f, "made") /\ Cardinality(strays) < MaxStrays
    /\ strays' = IF reached
                 THEN strays \cup
                        { [ table |-> MakesTable(f), slot |-> flows[f].slot,
                            from |-> flows[f].key, step |-> flows[f].step ] }
                 ELSE strays
    /\ GivenUp(f, "checkLost")

\* Mutant: a booking that could not be sent is taken for made.
FoundAlways(s) == TRUE

\* maybeCreatedDespiteNetworkError.
Found(s) == ~SlotFree(s)

Checks(f) == Runs(f, "checkLost") \/ Runs(f, "checkRefused")

CheckFound(f) ==
    /\ Checks(f) /\ Found(flows[f].slot)
    /\ Ends(f)
    /\ said' = flows[f].slot
    /\ UNCHANGED << inStayVars, strays, loading, asking, busy, pageVars >>

\* The list has none, or was not to be had: after a pause a network error is
\* tried again, once.
CheckMissed(f) ==
    /\ Checks(f)
    /\ IF Runs(f, "checkLost") /\ flows[f].attempt = 1
       THEN /\ flows' = [ flows EXCEPT ![f].step = "create", ![f].attempt = 2 ]
            /\ UNCHANGED said
       ELSE Ends(f) /\ said' = NoSlot
    /\ UNCHANGED << inStayVars, strays, loading, asking, busy, pageVars >>

\* refresh: the catalogue and the lists of the guest, any of which may fail.
ListsArrive(f) ==
    /\ Runs(f, "lists")
    /\ Ends(f)
    /\ onPage' \in { onPage, OnMenu(Dishes) }
    /\ loading' = FALSE
    /\ said' \in (IF MakesTable(f) THEN { flows[f].slot }
                 ELSE IF flows[f].op = "refresh" THEN { said, NoSlot }
                 ELSE { NoSlot })
    /\ busy' = BusyThen(f, TRUE)
    /\ completed' = Completed(f, TRUE)
    /\ UNCHANGED << inStayVars, strays, asking, draft, slot, offered >>

----------------------------------------------------------------------------
\* The partner at work, as far as this page can tell

Staff ==
    /\ \/ \E t \in Tables, to \in StaffSets \cap TableStatus : BeginPatch(0, t, to)
            /\ UNCHANGED << tables, orders, menu, open >>
       \/ \E p \in patches : CommitPatch(p) /\ UNCHANGED << orders, menu, open >>
       \/ \E d \in Dishes, active \in BOOLEAN : SetDish(d, active)
            /\ UNCHANGED << tables, orders, patches, open >>
    /\ UNCHANGED conciergeVars

ConciergeInit ==
    /\ flows = [ f \in Flows |-> Idle ]
    /\ strays = {}
    /\ loading = FALSE /\ asking = FALSE
    /\ onPage = FALSE /\ draft = 0 /\ slot \in Slots
    /\ offered = {} /\ busy = NoKey /\ completed = {}
    /\ said = NoSlot

\* What the page waits for comes, or fails to.
FlowAnswers(f) ==
    \/ \E o \in Orders : HandleOrder(f, o)
    \/ LookAtSlot(f)
    \/ \E t \in Tables : HandleTable(f, t)
    \/ Made(f) \/ Refused(f) \/ \E reached \in BOOLEAN : Lost(f, reached)
    \/ CheckFound(f) \/ CheckMissed(f) \/ ListsArrive(f)

Replies == \E answered \in BOOLEAN : Reply(answered)

ConciergeNext ==
    \/ \E f \in Flows :
         \/ PressRefresh(f) \/ PressOrder(f) \/ PressTable(f)
         \/ \E offer \in Offers : ClickFinal(f, offer)
         \/ FlowAnswers(f)
    \/ Ask \/ Replies
    \/ \E offer \in Offers : ClickLocal(offer) \/ ClickEmpty(offer)
    \/ \E n \in {0, 1} : SetDraft(n)
    \/ \E s \in Slots : SetSlot(s)
    \/ \E s \in strays : HandleStray(s)
    \/ Staff

ConciergeFairness ==
    \A f \in Flows : WF_<< inStayVars, conciergeVars >>(FlowAnswers(f))

----------------------------------------------------------------------------
\* Properties

\* "Table booked" is never said of a slot in which no booking was made, whatever
\* was lost, refused and tried again.
ReportedTableIsMade ==
    said # NoSlot => \E t \in Tables : Booked(t) /\ tables[t].slot = said

\* What the chat offered is asked for once, even when its answer was lost: no
\* two orders, and no two bookings, come from the same offer.
OfferIsTakenOnce ==
    /\ \A o, p \in Orders :
         Ordered(o) /\ Ordered(p) /\ o # p /\ orders[o].from # NoKey
           => orders[o].from # orders[p].from
    /\ \A t, u \in Tables :
         Booked(t) /\ Booked(u) /\ t # u /\ tables[t].from # NoKey
           => tables[t].from # tables[u].from

=============================================================================
