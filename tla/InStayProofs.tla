------------------------------ MODULE InStayProofs ------------------------------
(***************************************************************************)
(* Theorems about the in-stay services in Consoles: the guest's page, the  *)
(* partner's service desk and the backend's rows between them, for any     *)
(* number of rows, requests, handlers and consoles.                        *)
(***************************************************************************)
EXTENDS Consoles, TLAPS

\* A step of Consoles, as the services see it.
LEMMA ServiceSteps ==
    ASSUME [ConsolesNext]_consoleVars
    PROVE  \/ ConciergeNext /\ UNCHANGED deskVars
           \/ (DiningNext \/ KitchenNext) /\ UNCHANGED conciergeVars
           \/ UNCHANGED serviceVars
  BY DEF ConsolesNext, consoleVars, serviceVars

----------------------------------------------------------------------------
\* Types

\* What the types of the pages leave open: only the chat asks with a key, and an
\* update is of a row of its kind.
KeyedByChat ==
    \A f \in Flows : flows[f] # Idle =>
        (flows[f].key # NoKey <=> flows[f].op = "chat")

TasksOfKind ==
    \A k \in Tasks : tasks[k] # NoTask =>
        /\ tasks[k].op = "table" => tasks[k].id \in Tables /\ tasks[k].to \in TableStatus
        /\ tasks[k].op = "order" => tasks[k].id \in Orders /\ tasks[k].to \in OrderStatus

FlowsTyped == flows \in [ Flows -> Flow \cup {Idle} ] /\ KeyedByChat
PageTyped ==
    /\ << loading, asking, onPage >> \in BOOLEAN \X BOOLEAN \X BOOLEAN
    /\ draft \in {0, 1} /\ slot \in Slots
    /\ offered \subseteq Offers
    /\ busy \in Keys \cup {NoKey}
    /\ completed \subseteq Keys
    /\ said \in Slots \cup {NoSlot}
GuestTyped == FlowsTyped /\ strays \subseteq Stray /\ PageTyped
DeskTyped == ServiceDeskTypeOK /\ TasksOfKind

\* A PATCH has read its row.
PatchesBooked == \A p \in patches : Booked(p.table)

ServicesTyped == InStayTypeOK /\ PatchesBooked /\ GuestTyped /\ DeskTyped

\* The rows of the backend.  They are never taken back, and neither is what was
\* announced of them.
TablesGrow ==
    \A t \in Tables : Booked(t) =>
        /\ tables'[t] # NoRow
        /\ tables'[t].slot = tables[t].slot
        /\ tables'[t].from = tables[t].from
        /\ tables[t].been \subseteq tables'[t].been

OrdersKept ==
    \A o \in Orders : Ordered(o) =>
        orders'[o] # NoRow /\ orders'[o].from = orders[o].from

RowsKept == TablesGrow /\ OrdersKept

LEMMA RowsSame ==
    ASSUME UNCHANGED << tables, orders >>
    PROVE  RowsKept
  BY DEF RowsKept, TablesGrow, OrdersKept, Booked, Ordered

LEMMA InStaySame ==
    ASSUME InStayTypeOK, UNCHANGED inStayVars
    PROVE  InStayTypeOK' /\ RowsKept /\ UNCHANGED patches
  BY RowsSame DEF InStayTypeOK, inStayVars

LEMMA TableInserted ==
    ASSUME InStayTypeOK, NEW t \in Tables, NEW s \in Slots, NEW from \in Origins,
           InsertTable(t, s, from)
    PROVE  /\ tables' \in [ Tables -> Table \cup {NoRow} ]
           /\ TablesGrow
           /\ tables[t] = NoRow
           /\ tables'[t] = [ slot |-> s, status |-> "submitted", history |-> "submitted",
                             been |-> { "submitted" }, from |-> from ]
           /\ tables'[t] # NoRow /\ tables'[t].slot = s /\ tables'[t].from = from
           /\ \A u \in Tables \ {t} : tables'[u] = tables[u]
<1> DEFINE row == [ slot |-> s, status |-> "submitted", history |-> "submitted",
                    been |-> { "submitted" }, from |-> from ]
<1>1. row \in Table
  BY DEF Table, TableStatus
<1>2. row # NoRow
  BY <1>1, InStayAssumption
<1>3. tables[t] = NoRow /\ tables' = [ tables EXCEPT ![t] = row ]
  BY DEF InsertTable, Booked
<1> HIDE DEF row
<1>4. /\ tables' \in [ Tables -> Table \cup {NoRow} ]
      /\ tables'[t] = row
      /\ \A u \in Tables \ {t} : tables'[u] = tables[u]
  BY <1>1, <1>3 DEF InStayTypeOK
<1> QED
  BY <1>2, <1>3, <1>4 DEF row, TablesGrow, Booked

LEMMA OrderInserted ==
    ASSUME InStayTypeOK, NEW o \in Orders, NEW from \in Origins, InsertOrder(o, from)
    PROVE  /\ orders' \in [ Orders -> Order \cup {NoRow} ]
           /\ OrdersKept
           /\ orders[o] = NoRow
           /\ orders'[o] # NoRow /\ orders'[o].from = from
           /\ \A p \in Orders \ {o} : orders'[p] = orders[p]
<1> DEFINE row == [ status |-> "submitted", from |-> from ]
<1>1. row \in Order
  BY DEF Order, OrderStatus
<1>2. row # NoRow
  BY <1>1, InStayAssumption
<1>3. orders[o] = NoRow /\ orders' = [ orders EXCEPT ![o] = row ]
  BY DEF InsertOrder, Ordered
<1> HIDE DEF row
<1>4. /\ orders' \in [ Orders -> Order \cup {NoRow} ]
      /\ orders'[o] = row
      /\ \A p \in Orders \ {o} : orders'[p] = orders[p]
  BY <1>1, <1>3 DEF InStayTypeOK
<1> QED
  BY <1>2, <1>3, <1>4 DEF row, OrdersKept, Ordered

LEMMA OrderSet ==
    ASSUME InStayTypeOK, NEW o \in Orders, NEW to \in OrderStatus, SetOrder(o, to)
    PROVE  /\ orders' \in [ Orders -> Order \cup {NoRow} ]
           /\ OrdersKept
           /\ \A p \in Orders : orders'[p] # NoRow => Ordered(p)
<1> DEFINE row == [ orders[o] EXCEPT !.status = to ]
<1>1. orders[o] \in Order
  BY DEF SetOrder, Ordered, InStayTypeOK
<1>2. row \in Order /\ row.from = orders[o].from
  BY <1>1 DEF Order
<1>3. row # NoRow
  BY <1>2, InStayAssumption
<1>4. orders[o] # NoRow /\ orders' = [ orders EXCEPT ![o] = row ]
  BY DEF SetOrder, Ordered
<1> HIDE DEF row
<1>5. /\ orders' \in [ Orders -> Order \cup {NoRow} ]
      /\ orders'[o] = row
      /\ \A p \in Orders \ {o} : orders'[p] = orders[p]
  BY <1>2, <1>4 DEF InStayTypeOK
<1> QED
  BY <1>2, <1>3, <1>4, <1>5 DEF OrdersKept, Ordered

\* The commit of a PATCH writes one row; the row itself, or its status and its
\* event together.
LEMMA PatchCommitted ==
    ASSUME InStayTypeOK, NEW p, CommitPatch(p), tables[p.table] # NoRow
    PROVE  /\ tables' \in [ Tables -> Table \cup {NoRow} ]
           /\ TablesGrow
           /\ \A t \in Tables : tables'[t] # NoRow => Booked(t)
           /\ p \in Patch /\ p \in patches /\ patches' = patches \ {p}
           /\ \/ tables' = tables
              \/ /\ tables'[p.table].status = p.to
                 /\ tables'[p.table].history = p.to
                 /\ tables'[p.table].been = tables[p.table].been \cup {p.to}
                 /\ \A t \in Tables \ {p.table} : tables'[t] = tables[t]
<1> DEFINE row == Patched(tables[p.table], p)
<1>1. /\ p \in Patch /\ p \in patches /\ patches' = patches \ {p}
      /\ tables' = [ tables EXCEPT ![p.table] = row ]
  BY DEF CommitPatch, InStayTypeOK
<1>2. p.table \in Tables /\ p.to \in TableStatus
  BY <1>1 DEF Patch
<1>3. tables[p.table] \in Table
  BY <1>2 DEF InStayTypeOK
<1>4. /\ row \in Table
      /\ row.slot = tables[p.table].slot /\ row.from = tables[p.table].from
      /\ tables[p.table].been \subseteq row.been
      /\ \/ row = tables[p.table]
         \/ row.status = p.to /\ row.history = p.to
              /\ row.been = tables[p.table].been \cup {p.to}
  BY <1>2, <1>3 DEF Patched, Table
<1>5. row # NoRow
  BY <1>4, InStayAssumption
<1> HIDE DEF row
<1>6. /\ tables' \in [ Tables -> Table \cup {NoRow} ]
      /\ tables'[p.table] = row
      /\ \A t \in Tables \ {p.table} : tables'[t] = tables[t]
      /\ row = tables[p.table] => tables' = tables
  BY <1>1, <1>2, <1>4 DEF InStayTypeOK
<1> QED
  BY <1>1, <1>2, <1>4, <1>5, <1>6 DEF TablesGrow, Booked

LEMMA PatchBegun ==
    ASSUME InStayTypeOK, NEW by \in Nat, NEW t \in Tables, NEW to \in TableStatus,
           BeginPatch(by, t, to)
    PROVE  patches' \subseteq Patch
<1>1. tables[t] \in Table
  BY DEF BeginPatch, Booked, InStayTypeOK
<1> QED
  BY <1>1 DEF BeginPatch, InStayTypeOK, Patch, Table

----------------------------------------------------------------------------
\* The flows of the guest's page

LEMMA Stepped ==
    ASSUME FlowsTyped, NEW f \in Flows, flows[f] # Idle, NEW step \in Steps,
           StepTo(f, step)
    PROVE  /\ FlowsTyped'
           /\ flows'[f] # Idle /\ flows'[f].step = step
           /\ flows'[f].op = flows[f].op /\ flows'[f].key = flows[f].key
           /\ flows'[f].slot = flows[f].slot
           /\ \A g \in Flows \ {f} : flows'[g] = flows[g]
<1> DEFINE flow == [ flows[f] EXCEPT !.step = step ]
<1>1. flows[f] \in Flow
  BY DEF FlowsTyped
<1>2. /\ flow \in Flow /\ flow.step = step
      /\ flow.op = flows[f].op /\ flow.key = flows[f].key /\ flow.slot = flows[f].slot
  BY <1>1 DEF Flow
<1>3. flow # Idle
  BY <1>2, ConciergeAssumption
<1>4. flows' = [ flows EXCEPT ![f] = flow ]
  BY DEF StepTo
<1> HIDE DEF flow
<1>5. /\ flows' \in [ Flows -> Flow \cup {Idle} ]
      /\ flows'[f] = flow
      /\ \A g \in Flows \ {f} : flows'[g] = flows[g]
  BY <1>2, <1>4 DEF FlowsTyped
<1> QED
  BY <1>2, <1>3, <1>5 DEF FlowsTyped, KeyedByChat

LEMMA Ended ==
    ASSUME FlowsTyped, NEW f \in Flows, Ends(f)
    PROVE  /\ FlowsTyped'
           /\ flows'[f] = Idle
           /\ \A g \in Flows \ {f} : flows'[g] = flows[g]
  BY DEF FlowsTyped, KeyedByChat, Ends

LEMMA Started ==
    ASSUME FlowsTyped, NEW f \in Flows, Free(f), NEW flow \in Flow,
           flow.key # NoKey <=> flow.op = "chat",
           flows' = [ flows EXCEPT ![f] = flow ]
    PROVE  /\ FlowsTyped'
           /\ flows[f] = Idle /\ flows'[f] = flow /\ flow # Idle
           /\ \A g \in Flows \ {f} : flows'[g] = flows[g]
<1>1. flow # Idle
  BY ConciergeAssumption
<1> QED
  BY <1>1 DEF FlowsTyped, KeyedByChat, Free

\* A key that a chat flow completes.
LEMMA KeyCompleted ==
    ASSUME GuestTyped, NEW f \in Flows, flows[f] # Idle, NEW ok
    PROVE  /\ Completed(f, ok) \subseteq Keys
           /\ BusyThen(f, ok) \in Keys \cup {NoKey}
<1>1. flows[f] \in Flow
  BY DEF GuestTyped, FlowsTyped
<1>2. flows[f].op = "chat" => flows[f].key \in Keys
  BY <1>1 DEF GuestTyped, FlowsTyped, KeyedByChat, Flow
<1> QED
  BY <1>2 DEF GuestTyped, PageTyped, Completed, BusyThen

\* An offer's key, and the flow that a press starts.
LEMMA KeyTyped ==
    ASSUME GuestTyped, NEW offer \in Offers
    PROVE  /\ KeyOf(offer).act = offer.act
           /\ offer.slot \in Slots \cup {NoSlot}
           /\ offer.act \in { "table", "pick" } <=> offer.slot # NoSlot
           /\ Final(offer) => KeyOf(offer) \in Keys /\ KeyOf(offer) # NoKey
<1>1. /\ offer.slot \in Slots \cup {NoSlot}
      /\ offer.act \in { "table", "pick" } <=> offer.slot # NoSlot
  BY ConciergeAssumption DEF Offers
<1>2. Selected \in {0, 1}
  BY DEF GuestTyped, PageTyped, Selected
<1>3. Final(offer) => KeyOf(offer) \in Keys
  BY <1>1, <1>2 DEF Final, KeyOf, Keys
<1> QED
  BY <1>1, <1>3, ConciergeAssumption DEF KeyOf

LEMMA PressTyped ==
    ASSUME GuestTyped, NEW f \in Flows,
           \/ PressRefresh(f) \/ PressOrder(f) \/ PressTable(f)
           \/ \E offer \in Offers : ClickFinal(f, offer)
    PROVE  /\ GuestTyped' /\ UNCHANGED << inStayVars, strays >>
           /\ flows[f] = Idle /\ flows'[f] # Idle
           /\ flows'[f].step = "create" \/ flows'[f].op = "refresh"
           /\ \A g \in Flows \ {f} : flows'[g] = flows[g]
           /\ said' = NoSlot
<1>1. CASE PressRefresh(f) \/ PressOrder(f) \/ PressTable(f)
  <2>1. PICK op \in { "refresh", "order", "table" }, step \in { "create", "lists" } :
          /\ Free(f)
          /\ flows' = [ flows EXCEPT ![f] = NewFlow(op, step) ]
          /\ step = "create" \/ op = "refresh"
    BY <1>1 DEF PressRefresh, PressOrder, PressTable
  <2>2. NewFlow(op, step) \in Flow /\ NewFlow(op, step).key = NoKey
          /\ NewFlow(op, step).op = op /\ NewFlow(op, step).step = step
    BY DEF NewFlow, Flow, Steps, GuestTyped, PageTyped
  <2>3. FlowsTyped' /\ flows[f] = Idle /\ flows'[f] = NewFlow(op, step)
          /\ NewFlow(op, step) # Idle /\ \A g \in Flows \ {f} : flows'[g] = flows[g]
    BY <2>1, <2>2, Started DEF GuestTyped
  <2>4. /\ UNCHANGED << inStayVars, strays, asking, busy, pageVars >>
        /\ loading' \in BOOLEAN /\ said' = NoSlot
    BY <1>1 DEF PressRefresh, PressOrder, PressTable, GuestTyped, PageTyped
  <2> QED
    BY <2>1, <2>2, <2>3, <2>4 DEF GuestTyped, PageTyped, pageVars
<1>2. ASSUME NEW offer \in Offers, ClickFinal(f, offer) PROVE
        /\ GuestTyped' /\ UNCHANGED << inStayVars, strays >>
        /\ flows[f] = Idle /\ flows'[f] # Idle
        /\ flows'[f].step = "create"
        /\ \A g \in Flows \ {f} : flows'[g] = flows[g]
        /\ said' = NoSlot
  <2> DEFINE flow == [ op |-> "chat", key |-> KeyOf(offer), attempt |-> 1,
                step |-> "create",
                slot |-> IF offer.act = "table" THEN offer.slot ELSE slot ]
  <2>1. Final(offer) /\ Free(f) /\ flows' = [ flows EXCEPT ![f] = flow ]
    BY <1>2 DEF ClickFinal
  <2>2. KeyOf(offer) \in Keys /\ KeyOf(offer) # NoKey
    BY <2>1, KeyTyped
  <2>3. flow.slot \in Slots
    BY KeyTyped DEF GuestTyped, PageTyped
  <2>4. flow \in Flow /\ flow.key # NoKey /\ flow.op = "chat" /\ flow.step = "create"
    BY <2>2, <2>3 DEF Flow, Steps
  <2> HIDE DEF flow
  <2>5. FlowsTyped' /\ flows[f] = Idle /\ flows'[f] = flow
          /\ flow # Idle /\ \A g \in Flows \ {f} : flows'[g] = flows[g]
    BY <2>1, <2>4, Started DEF GuestTyped
  <2>6. /\ UNCHANGED << inStayVars, strays, loading, asking, pageVars >>
        /\ busy' = KeyOf(offer) /\ said' = NoSlot
    BY <1>2 DEF ClickFinal
  <2> QED
    BY <2>2, <2>4, <2>5, <2>6 DEF GuestTyped, PageTyped, pageVars
<1> QED
  BY <1>1, <1>2

LEMMA GivenUpTyped ==
    ASSUME GuestTyped, NEW f \in Flows, flows[f] # Idle,
           NEW check \in { "checkLost", "checkRefused" }, GivenUp(f, check),
           strays' \subseteq Stray
    PROVE  GuestTyped'
<1>1. FlowsTyped'
  BY Stepped, Ended DEF GivenUp, GuestTyped, Steps
<1>2. PageTyped'
  BY KeyCompleted DEF GivenUp, GuestTyped, PageTyped
<1> QED
  BY <1>1, <1>2 DEF GuestTyped

\* What the backend and the page do for one flow.
LEMMA ServedTyped ==
    ASSUME InStayTypeOK, GuestTyped, NEW f \in Flows,
           \/ \E o \in Orders : HandleOrder(f, o)
           \/ LookAtSlot(f)
           \/ \E t \in Tables : HandleTable(f, t)
    PROVE  InStayTypeOK' /\ GuestTyped' /\ RowsKept /\ UNCHANGED patches
<1>1. flows[f] # Idle /\ flows[f] \in Flow
  BY DEF HandleOrder, LookAtSlot, HandleTable, Runs, GuestTyped, FlowsTyped
<1>2. flows[f].slot \in Slots /\ flows[f].key \in Origins
  BY <1>1, ConciergeAssumption DEF Flow
<1>3. FlowsTyped'
  BY <1>1, Stepped DEF HandleOrder, LookAtSlot, HandleTable, GuestTyped, Steps
<1>4. GuestTyped'
  BY <1>3 DEF HandleOrder, LookAtSlot, HandleTable, GuestTyped, PageTyped, pageVars
<1>5. ASSUME NEW o \in Orders, HandleOrder(f, o)
      PROVE  InStayTypeOK' /\ RowsKept /\ UNCHANGED patches
  BY <1>2, <1>5, OrderInserted
  DEF HandleOrder, InStayTypeOK, RowsKept, TablesGrow, Booked
<1>6. ASSUME NEW t \in Tables, HandleTable(f, t)
      PROVE  InStayTypeOK' /\ RowsKept /\ UNCHANGED patches
  BY <1>2, <1>6, TableInserted
  DEF HandleTable, InStayTypeOK, RowsKept, OrdersKept, Ordered
<1>7. CASE LookAtSlot(f)
  BY <1>4, <1>7, InStaySame DEF LookAtSlot
<1> QED
  BY <1>4, <1>5, <1>6, <1>7

LEMMA AnsweredTyped ==
    ASSUME GuestTyped, NEW f \in Flows,
           \/ Made(f) \/ Refused(f) \/ \E reached \in BOOLEAN : Lost(f, reached)
           \/ CheckFound(f) \/ CheckMissed(f) \/ ListsArrive(f)
    PROVE  GuestTyped' /\ UNCHANGED inStayVars
<1>1. flows[f] # Idle /\ flows[f] \in Flow
  BY DEF Made, Refused, Lost, CheckFound, CheckMissed, ListsArrive, Checks, Runs,
         GuestTyped, FlowsTyped
<1>2. flows[f].slot \in Slots /\ flows[f].key \in Keys \cup {NoKey}
  BY <1>1 DEF Flow
<1>3. CASE Made(f)
  BY <1>1, <1>2, <1>3, Stepped DEF Made, GuestTyped, PageTyped, Steps
<1>4. CASE Refused(f)
  BY <1>1, <1>4, GivenUpTyped DEF Refused, GuestTyped, GivenUp
<1>5. ASSUME NEW reached \in BOOLEAN, Lost(f, reached) PROVE GuestTyped' /\ UNCHANGED inStayVars
  <2>1. strays' \subseteq Stray
    <3> DEFINE stray == [ table |-> MakesTable(f), slot |-> flows[f].slot,
                          from |-> flows[f].key, step |-> flows[f].step ]
    <3>1. CASE reached
      <4>1. flows[f].step \in { "create", "insert" }
        BY <1>5, <3>1 DEF Lost, Runs
      <4>2. stray \in Stray
        BY <1>2, <4>1 DEF Stray, MakesTable
      <4> QED
        BY <1>5, <3>1, <4>2 DEF Lost, GuestTyped
    <3>2. CASE ~reached
      BY <1>5, <3>2 DEF Lost, GuestTyped
    <3> QED
      BY <3>1, <3>2
  <2> QED
    BY <1>1, <1>5, <2>1, GivenUpTyped DEF Lost, GivenUp
<1>6. CASE CheckFound(f)
  BY <1>2, <1>6, Ended DEF CheckFound, GuestTyped, PageTyped, pageVars
<1>7. CASE CheckMissed(f)
  <2>1. CASE Runs(f, "checkLost") /\ flows[f].attempt = 1
    <3> DEFINE flow == [ flows[f] EXCEPT !.step = "create", !.attempt = 2 ]
    <3>1. flow \in Flow /\ flow.key = flows[f].key /\ flow.op = flows[f].op
      BY <1>1 DEF Flow, Steps
    <3>2. flows' = [ flows EXCEPT ![f] = flow ]
      BY <1>1, <1>7, <2>1 DEF CheckMissed, GuestTyped, FlowsTyped
    <3> HIDE DEF flow
    <3>3. FlowsTyped'
      BY <1>1, <3>1, <3>2, ConciergeAssumption DEF GuestTyped, FlowsTyped, KeyedByChat
    <3> QED
      BY <1>7, <2>1, <3>3 DEF CheckMissed, GuestTyped, PageTyped, pageVars
  <2>2. CASE ~(Runs(f, "checkLost") /\ flows[f].attempt = 1)
    BY <1>7, <2>2, Ended DEF CheckMissed, GuestTyped, PageTyped, pageVars
  <2> QED
    BY <2>1, <2>2
<1>8. CASE ListsArrive(f)
  <2>1. FlowsTyped' /\ busy' \in Keys \cup {NoKey} /\ completed' \subseteq Keys
    BY <1>1, <1>8, Ended, KeyCompleted DEF ListsArrive, GuestTyped
  <2>2. onPage' \in BOOLEAN /\ loading' = FALSE /\ said' \in Slots \cup {NoSlot}
    BY <1>2, <1>8 DEF ListsArrive, GuestTyped, PageTyped, OnMenu
  <2> QED
    BY <1>8, <2>1, <2>2 DEF ListsArrive, GuestTyped, PageTyped
<1> QED
  BY <1>3, <1>4, <1>5, <1>6, <1>7, <1>8

LEMMA AloneTyped ==
    ASSUME GuestTyped,
           \/ Ask \/ Replies
           \/ \E offer \in Offers : ClickLocal(offer) \/ ClickEmpty(offer)
           \/ \E n \in {0, 1} : SetDraft(n)
           \/ \E s \in Slots : SetSlot(s)
    PROVE  GuestTyped' /\ UNCHANGED << inStayVars, flows, strays, said >>
<1>1. CASE Ask
  BY <1>1 DEF Ask, GuestTyped, FlowsTyped, KeyedByChat, PageTyped, pageVars
<1>2. CASE Replies
  <2>1. PICK answered \in BOOLEAN : Reply(answered)
    BY <1>2 DEF Replies
  <2>2. offered' \subseteq Offers /\ slot' \in Slots
    BY <2>1, KeyTyped DEF Reply, BackendOffers, LocalOffers, GuestTyped, PageTyped
  <2> QED
    BY <2>1, <2>2 DEF Reply, GuestTyped, FlowsTyped, KeyedByChat, PageTyped
<1>3. ASSUME NEW offer \in Offers, ClickLocal(offer)
      PROVE  GuestTyped' /\ UNCHANGED << inStayVars, flows, strays, said >>
  <2>1. draft' \in {0, 1} /\ slot' \in Slots
    BY <1>3, KeyTyped DEF ClickLocal, GuestTyped, PageTyped
  <2> QED
    BY <1>3, <2>1 DEF ClickLocal, GuestTyped, FlowsTyped, KeyedByChat, PageTyped
<1>4. ASSUME NEW offer \in Offers, ClickEmpty(offer)
      PROVE  GuestTyped' /\ UNCHANGED << inStayVars, flows, strays, said >>
  <2>1. completed' \subseteq Keys
    BY <1>4, KeyTyped DEF ClickEmpty, GuestTyped, PageTyped
  <2> QED
    BY <1>4, <2>1 DEF ClickEmpty, GuestTyped, FlowsTyped, KeyedByChat, PageTyped
<1>5. CASE \/ \E n \in {0, 1} : SetDraft(n)
           \/ \E s \in Slots : SetSlot(s)
  BY <1>5 DEF SetDraft, SetSlot, GuestTyped, FlowsTyped, KeyedByChat, PageTyped
<1> QED
  BY <1>1, <1>2, <1>3, <1>4, <1>5

\* A request that goes on without the page: it looks, it inserts, or it ends.
LEMMA StrayKinds ==
    ASSUME InStayTypeOK, GuestTyped, NEW s \in strays, HandleStray(s)
    PROVE  /\ s \in Stray /\ s.slot \in Slots /\ s.from \in Origins
           /\ \/ /\ strays' = (strays \ {s}) \cup { [ s EXCEPT !.step = "insert" ] }
                 /\ UNCHANGED << tables, orders >>
              \/ /\ \E t \in Tables : InsertTable(t, s.slot, s.from)
                 /\ strays' = strays \ {s} /\ UNCHANGED orders
              \/ /\ \E o \in Orders : InsertOrder(o, s.from)
                 /\ strays' = strays \ {s} /\ UNCHANGED tables
              \/ strays' = strays \ {s} /\ UNCHANGED << tables, orders >>
           /\ UNCHANGED << patches, menu, open, flows, loading, asking, busy, said,
                           pageVars >>
<1>1. s \in Stray
  BY DEF GuestTyped
<1> QED
  BY <1>1, ConciergeAssumption DEF HandleStray, Stray

LEMMA StrayTyped ==
    ASSUME InStayTypeOK, GuestTyped, NEW s \in strays, HandleStray(s)
    PROVE  InStayTypeOK' /\ GuestTyped' /\ RowsKept /\ UNCHANGED patches
<1>1. [ s EXCEPT !.step = "insert" ] \in Stray
  BY StrayKinds DEF Stray
<1>2. strays' \subseteq Stray
  BY <1>1, StrayKinds DEF GuestTyped
<1>3. GuestTyped'
  BY <1>2, StrayKinds DEF GuestTyped, FlowsTyped, KeyedByChat, PageTyped, pageVars
<1>4. UNCHANGED << patches, menu, open >> /\ s.slot \in Slots /\ s.from \in Origins
  BY StrayKinds
<1>5. ASSUME NEW t \in Tables, InsertTable(t, s.slot, s.from), UNCHANGED orders
      PROVE  InStayTypeOK' /\ RowsKept
  BY <1>4, <1>5, TableInserted DEF InStayTypeOK, RowsKept, OrdersKept, Ordered
<1>6. ASSUME NEW o \in Orders, InsertOrder(o, s.from), UNCHANGED tables
      PROVE  InStayTypeOK' /\ RowsKept
  BY <1>4, <1>6, OrderInserted DEF InStayTypeOK, RowsKept, TablesGrow, Booked
<1>7. ASSUME UNCHANGED << tables, orders >> PROVE InStayTypeOK' /\ RowsKept
  BY <1>4, <1>7, RowsSame DEF InStayTypeOK
<1> QED
  BY <1>3, <1>4, <1>5, <1>6, <1>7, StrayKinds

LEMMA PatchesStay ==
    ASSUME PatchesBooked, InStayTypeOK, TablesGrow, patches' \subseteq patches
    PROVE  PatchesBooked'
  BY DEF PatchesBooked, InStayTypeOK, Patch, TablesGrow, Booked

LEMMA BegunTyped ==
    ASSUME InStayTypeOK, PatchesBooked, NEW by \in Nat, NEW t \in Tables,
           NEW to \in TableStatus, BeginPatch(by, t, to),
           UNCHANGED << tables, orders, menu, open >>
    PROVE  InStayTypeOK' /\ PatchesBooked' /\ RowsKept
<1>1. InStayTypeOK' /\ RowsKept
  BY PatchBegun, RowsSame DEF InStayTypeOK
<1>2. PatchesBooked'
  BY DEF PatchesBooked, BeginPatch, Booked
<1> QED
  BY <1>1, <1>2

LEMMA CommittedTyped ==
    ASSUME InStayTypeOK, PatchesBooked, NEW p \in patches, CommitPatch(p),
           UNCHANGED << orders, menu, open >>
    PROVE  InStayTypeOK' /\ PatchesBooked' /\ RowsKept
<1>1. tables[p.table] # NoRow
  BY DEF PatchesBooked, Booked
<1>2. InStayTypeOK' /\ TablesGrow /\ patches' \subseteq patches
  BY <1>1, PatchCommitted DEF InStayTypeOK
<1>3. OrdersKept
  BY DEF OrdersKept, Ordered
<1> QED
  BY <1>2, <1>3, PatchesStay DEF RowsKept

LEMMA DishSet ==
    ASSUME InStayTypeOK, NEW d, NEW active, SetDish(d, active) \/ InsertDish(d),
           UNCHANGED << tables, orders, patches, open >>
    PROVE  InStayTypeOK' /\ RowsKept
<1>1. menu' \in [ Dishes -> CatalogueState ]
  BY DEF SetDish, InsertDish, InStayTypeOK, CatalogueState
<1> QED
  BY <1>1, RowsSame DEF InStayTypeOK

LEMMA StaffTyped ==
    ASSUME InStayTypeOK, PatchesBooked, Staff
    PROVE  InStayTypeOK' /\ PatchesBooked' /\ RowsKept
<1>1. ASSUME NEW t \in Tables, NEW to \in TableStatus, BeginPatch(0, t, to),
             UNCHANGED << tables, orders, menu, open >>
      PROVE  InStayTypeOK' /\ PatchesBooked' /\ RowsKept
  BY <1>1, BegunTyped
<1>2. ASSUME NEW p \in patches, CommitPatch(p), UNCHANGED << orders, menu, open >>
      PROVE  InStayTypeOK' /\ PatchesBooked' /\ RowsKept
  BY <1>2, CommittedTyped
<1>3. ASSUME NEW d \in Dishes, NEW active, SetDish(d, active),
             UNCHANGED << tables, orders, patches, open >>
      PROVE  InStayTypeOK' /\ PatchesBooked' /\ RowsKept
  BY <1>3, DishSet, PatchesStay DEF RowsKept
<1> QED
  BY <1>1, <1>2, <1>3 DEF Staff

LEMMA ConciergeTyped ==
    ASSUME InStayTypeOK, PatchesBooked, GuestTyped, ConciergeNext
    PROVE  InStayTypeOK' /\ PatchesBooked' /\ GuestTyped' /\ RowsKept
<1>1. ASSUME NEW f \in Flows,
             \/ PressRefresh(f) \/ PressOrder(f) \/ PressTable(f)
             \/ \E offer \in Offers : ClickFinal(f, offer)
      PROVE  GuestTyped' /\ UNCHANGED inStayVars
  BY <1>1, PressTyped
<1>2. ASSUME NEW f \in Flows,
             \/ \E o \in Orders : HandleOrder(f, o)
             \/ LookAtSlot(f)
             \/ \E t \in Tables : HandleTable(f, t)
      PROVE  InStayTypeOK' /\ GuestTyped' /\ RowsKept /\ UNCHANGED patches
  BY <1>2, ServedTyped
<1>3. ASSUME NEW f \in Flows,
             \/ Made(f) \/ Refused(f) \/ \E reached \in BOOLEAN : Lost(f, reached)
             \/ CheckFound(f) \/ CheckMissed(f) \/ ListsArrive(f)
      PROVE  GuestTyped' /\ UNCHANGED inStayVars
  BY <1>3, AnsweredTyped
<1>4. ASSUME \/ Ask \/ Replies
             \/ \E offer \in Offers : ClickLocal(offer) \/ ClickEmpty(offer)
             \/ \E n \in {0, 1} : SetDraft(n)
             \/ \E s \in Slots : SetSlot(s)
      PROVE  GuestTyped' /\ UNCHANGED inStayVars
  BY <1>4, AloneTyped
<1>5. ASSUME NEW s \in strays, HandleStray(s)
      PROVE  InStayTypeOK' /\ GuestTyped' /\ RowsKept /\ UNCHANGED patches
  BY <1>5, StrayTyped
<1>6. CASE Staff
  <2>1. GuestTyped'
    BY <1>6 DEF Staff, conciergeVars, pageVars, GuestTyped, FlowsTyped, KeyedByChat,
                PageTyped
  <2> QED
    BY <1>6, <2>1, StaffTyped
<1>7. ASSUME InStayTypeOK', RowsKept, UNCHANGED patches PROVE PatchesBooked'
  BY <1>7, PatchesStay DEF RowsKept
<1>8. ASSUME UNCHANGED inStayVars PROVE InStayTypeOK' /\ PatchesBooked' /\ RowsKept
  BY <1>7, <1>8, InStaySame
<1> QED
  BY <1>1, <1>2, <1>3, <1>4, <1>5, <1>6, <1>7, <1>8 DEF ConciergeNext, FlowAnswers

----------------------------------------------------------------------------
\* The handlers of the partner's service desk

TasksTyped == tasks \in [ Tasks -> Task \cup {NoTask} ] /\ TasksOfKind

LEMMA TaskBegun ==
    ASSUME DeskTyped, NEW k \in Tasks, NEW task \in Task, FreeTask(k),
           task.op = "table" => task.id \in Tables /\ task.to \in TableStatus,
           task.op = "order" => task.id \in Orders /\ task.to \in OrderStatus,
           tasks' = [ tasks EXCEPT ![k] = task ]
    PROVE  /\ TasksTyped' /\ tasks'[k] = task
           /\ \A j \in Tasks \ {k} : tasks'[j] = tasks[j]
<1>1. task # NoTask
  BY ServiceDeskAssumption
<1> QED
  BY <1>1 DEF DeskTyped, ServiceDeskTypeOK, TasksOfKind, TasksTyped

LEMMA TaskMoved ==
    ASSUME DeskTyped, NEW k \in Tasks, tasks[k] # NoTask,
           NEW step \in { "send", "update", "answer", "reload" }, Moves(k, step)
    PROVE  /\ TasksTyped' /\ tasks'[k] # NoTask
           /\ tasks'[k].step = step
           /\ \A j \in Tasks \ {k} : tasks'[j] = tasks[j]
<1> DEFINE task == [ tasks[k] EXCEPT !.step = step ]
<1>1. tasks[k] \in Task
  BY DEF DeskTyped, ServiceDeskTypeOK
<1>2. /\ task \in Task /\ task.op = tasks[k].op /\ task.id = tasks[k].id
      /\ task.to = tasks[k].to /\ task.step = step
  BY <1>1 DEF Task
<1>3. task # NoTask
  BY <1>2, ServiceDeskAssumption
<1>4. tasks' = [ tasks EXCEPT ![k] = task ]
  BY DEF Moves
<1> HIDE DEF task
<1>5. /\ tasks' \in [ Tasks -> Task \cup {NoTask} ] /\ tasks'[k] = task
      /\ \A j \in Tasks \ {k} : tasks'[j] = tasks[j]
  BY <1>2, <1>4 DEF DeskTyped, ServiceDeskTypeOK
<1> QED
  BY <1>2, <1>3, <1>5 DEF DeskTyped, TasksOfKind, TasksTyped

LEMMA TaskEnded ==
    ASSUME DeskTyped, NEW k \in Tasks, Finishes(k)
    PROVE  /\ TasksTyped' /\ tasks'[k] = NoTask
           /\ \A j \in Tasks \ {k} : tasks'[j] = tasks[j]
  BY DEF DeskTyped, ServiceDeskTypeOK, TasksOfKind, TasksTyped, Finishes

\* A handler that a press starts, with what it sends.
LEMMA PressedTyped ==
    ASSUME DeskTyped, NEW k \in Tasks,
           NEW op \in { "table", "order", "dish", "new", "list" }, NEW id \in Nat,
           NEW to \in TableStatus \cup OrderStatus \cup CatalogueState,
           NEW step \in { "send", "reload" }, Begins(k, op, id, to, step),
           op = "table" => id \in Tables /\ to \in TableStatus,
           op = "order" => id \in Orders /\ to \in OrderStatus
    PROVE  /\ TasksTyped' /\ UNCHANGED inStayVars
           /\ tasks'[k] = [ op |-> op, id |-> id, to |-> to, filter |-> tableFilter,
                             step |-> step ]
           /\ \A j \in Tasks \ {k} : tasks'[j] = tasks[j]
<1>1. NewTask(op, id, to, step) \in Task
  BY DEF NewTask, Task, DeskTyped, ServiceDeskTypeOK
<1>2. /\ NewTask(op, id, to, step).op = op /\ NewTask(op, id, to, step).id = id
      /\ NewTask(op, id, to, step).to = to
  BY DEF NewTask
<1>3. FreeTask(k) /\ tasks' = [ tasks EXCEPT ![k] = NewTask(op, id, to, step) ]
        /\ UNCHANGED inStayVars
  BY DEF Begins
<1> QED
  BY <1>1, <1>2, <1>3, TaskBegun DEF NewTask

LEMMA NextTyped ==
    ASSUME NEW status, NEW to
    PROVE  /\ to \in TableActions(status) => to \in TableStatus
           /\ to \in NextOrder(status) => to \in OrderStatus
  BY DEF TableActions, NextBooking, NextOrder, CanCancelBooking, TableStatus, OrderStatus

LEMMA DeskPressTyped ==
    ASSUME DeskTyped, NEW k \in Tasks,
           \/ \E t \in Tables : PressStep(k, t)
           \/ \E filter \in { "all", "submitted" } : SetFilter(k, filter)
           \/ PressReload(k)
           \/ \E o \in Orders : PressOrderStep(k, o)
           \/ \E d \in Dishes : PressToggle(k, d) \/ PressCreate(k, d)
           \/ SaveEdit(k)
    PROVE  DeskTyped' /\ UNCHANGED inStayVars
<1>1. ASSUME NEW t \in Tables, PressStep(k, t) PROVE DeskTyped' /\ UNCHANGED inStayVars
  <2>1. PICK to \in TableActions(shownTables[t]) : Begins(k, "table", t, to, "send")
    BY <1>1 DEF PressStep
  <2>2. to \in TableStatus /\ t \in Nat
    BY NextTyped, InStayAssumption
  <2>3. TasksTyped' /\ UNCHANGED inStayVars
    BY <2>1, <2>2, PressedTyped
  <2> QED
    BY <1>1, <2>3 DEF PressStep, DeskTyped, TasksTyped, ServiceDeskTypeOK, shownVars
<1>2. ASSUME NEW filter \in { "all", "submitted" }, SetFilter(k, filter)
      PROVE  DeskTyped' /\ UNCHANGED inStayVars
  <2> DEFINE task == [ NewTask("list", 0, "none", "reload") EXCEPT !.filter = filter ]
  <2>1. task \in Task /\ task.op = "list"
    BY DEF NewTask, Task, CatalogueState, TableStatus
  <2>2. FreeTask(k) /\ tasks' = [ tasks EXCEPT ![k] = task ]
    BY <1>2 DEF SetFilter
  <2> HIDE DEF task
  <2>3. TasksTyped'
    BY <2>1, <2>2, TaskBegun
  <2> QED
    BY <1>2, <2>3 DEF SetFilter, DeskTyped, TasksTyped, ServiceDeskTypeOK, TableStatus
<1>3. CASE PressReload(k)
  <2>1. TasksTyped' /\ UNCHANGED inStayVars
    BY <1>3, PressedTyped DEF PressReload, CatalogueState
  <2> QED
    BY <1>3, <2>1 DEF PressReload, DeskTyped, TasksTyped, ServiceDeskTypeOK, shownVars
<1>4. ASSUME NEW o \in Orders, PressOrderStep(k, o)
      PROVE  DeskTyped' /\ UNCHANGED inStayVars
  <2>1. PICK to \in NextOrder(shownOrders[o]) : Begins(k, "order", o, to, "send")
    BY <1>4 DEF PressOrderStep
  <2>2. to \in OrderStatus /\ o \in Nat
    BY NextTyped, InStayAssumption
  <2>3. TasksTyped' /\ UNCHANGED inStayVars
    BY <2>1, <2>2, PressedTyped
  <2> QED
    BY <1>4, <2>3 DEF PressOrderStep, DeskTyped, TasksTyped, ServiceDeskTypeOK, shownVars
<1>5. ASSUME NEW d \in Dishes, PressToggle(k, d) \/ PressCreate(k, d)
      PROVE  DeskTyped' /\ UNCHANGED inStayVars
  <2>1. PICK op \in { "dish", "new" }, to \in { "active", "hidden" } :
          Begins(k, op, d, to, "send")
    BY <1>5 DEF PressToggle, PressCreate
  <2>2. to \in CatalogueState /\ d \in Nat
    BY ServiceDeskAssumption DEF CatalogueState
  <2>3. TasksTyped' /\ UNCHANGED inStayVars
    BY <2>1, <2>2, PressedTyped
  <2> QED
    BY <1>5, <2>3
    DEF PressToggle, PressCreate, DeskTyped, TasksTyped, ServiceDeskTypeOK, shownVars
<1>6. CASE SaveEdit(k)
  <2>1. edit \in Edit
    BY <1>6 DEF SaveEdit, DeskTyped, ServiceDeskTypeOK
  <2>2. PICK to \in { "active", "hidden" } : Begins(k, "dish", edit.dish, to, "send")
    BY <1>6 DEF SaveEdit
  <2>3. to \in CatalogueState /\ edit.dish \in Nat
    BY <2>1, ServiceDeskAssumption DEF CatalogueState, Edit
  <2>4. TasksTyped' /\ UNCHANGED inStayVars
    BY <2>2, <2>3, PressedTyped
  <2> QED
    BY <1>6, <2>4 DEF SaveEdit, DeskTyped, TasksTyped, ServiceDeskTypeOK
<1> QED
  BY <1>1, <1>2, <1>3, <1>4, <1>5, <1>6

LEMMA DeskAnswersTyped ==
    ASSUME InStayTypeOK, DeskTyped, NEW k \in Tasks, Answers(k)
    PROVE  DeskTyped' /\ UNCHANGED inStayVars
<1>1. /\ \A t \in Tables : TableNow(t) \in TableStatus \cup {"none"}
      /\ \A o \in Orders : OrderNow(o) \in OrderStatus \cup {"none"}
  BY DEF TableNow, OrderNow, Booked, Ordered, InStayTypeOK, Table, Order
<1>2. CASE Answered(k)
  <2>1. tasks[k] # NoTask /\ Moves(k, "reload")
    BY <1>2 DEF Answered
  <2>2. TasksTyped'
    BY <2>1, TaskMoved
  <2>3. /\ tasks[k].op = "table" => tasks[k].id \in Tables
        /\ tasks[k].op = "order" => tasks[k].id \in Orders
    BY <2>1 DEF DeskTyped, TasksOfKind
  <2>4. /\ shownTables' \in [ Tables -> TableStatus \cup {"none"} ]
        /\ shownOrders' \in [ Orders -> OrderStatus \cup {"none"} ]
    BY <1>1, <1>2, <2>3 DEF Answered, DeskTyped, ServiceDeskTypeOK
  <2> QED
    BY <1>2, <2>2, <2>4 DEF Answered, DeskTyped, TasksTyped, ServiceDeskTypeOK
<1>3. CASE TaskFails(k)
  <2>1. TasksTyped'
    BY <1>3, TaskEnded DEF TaskFails
  <2> QED
    BY <1>3, <2>1 DEF TaskFails, DeskTyped, TasksTyped, ServiceDeskTypeOK, shownVars
<1>4. CASE ReloadArrives(k)
  <2>1. TasksTyped'
    BY <1>4, TaskEnded DEF ReloadArrives
  <2>2. /\ shownTables' \in [ Tables -> TableStatus \cup {"none"} ]
        /\ shownOrders' \in [ Orders -> OrderStatus \cup {"none"} ]
        /\ shownMenu' \in [ Dishes -> CatalogueState ]
    BY <1>1, <1>4 DEF ReloadArrives, DeskTyped, ServiceDeskTypeOK, InStayTypeOK
  <2> QED
    BY <1>4, <2>1, <2>2 DEF ReloadArrives, DeskTyped, TasksTyped, ServiceDeskTypeOK
<1> QED
  BY <1>2, <1>3, <1>4 DEF Answers

\* The edit form.
LEMMA EditTyped ==
    ASSUME DeskTyped, (\E d \in Dishes : BeginEdit(d)) \/ ChangeEdit
    PROVE  DeskTyped' /\ UNCHANGED << inStayVars, tasks, shownTables >>
<1>1. edit' \in Edit \cup {NoEdit}
  <2>1. ASSUME NEW d \in Dishes, BeginEdit(d) PROVE edit' \in Edit
    BY <2>1 DEF BeginEdit, Edit
  <2>2. CASE ChangeEdit
    <3>1. edit \in Edit /\ edit' \in { [ edit EXCEPT !.active = ~@ ], NoEdit }
      BY <2>2 DEF ChangeEdit, DeskTyped, ServiceDeskTypeOK
    <3>2. PICK d \in Dishes, a \in BOOLEAN : edit = [ dish |-> d, active |-> a ]
      BY <3>1 DEF Edit
    <3>3. [ edit EXCEPT !.active = ~@ ] = [ dish |-> d, active |-> ~a ]
      BY <3>2
    <3>4. [ edit EXCEPT !.active = ~@ ] \in Edit
      BY <3>3 DEF Edit
    <3> QED
      BY <3>1, <3>4
  <2> QED
    BY <2>1, <2>2
<1> QED
  BY <1>1 DEF BeginEdit, ChangeEdit, DeskTyped, ServiceDeskTypeOK, TasksOfKind

\* The backend at work for the desk.
LEMMA DeskServedTyped ==
    ASSUME InStayTypeOK, PatchesBooked, DeskTyped, NEW k \in Tasks,
           ServeRead(k) \/ ServeWrite(k) \/ ServeOrder(k) \/ ServeDish(k)
    PROVE  InStayTypeOK' /\ PatchesBooked' /\ DeskTyped' /\ RowsKept
<1>1. tasks[k] # NoTask /\ (Moves(k, "update") \/ Moves(k, "answer"))
  BY DEF ServeRead, ServeWrite, ServeOrder, ServeDish, At
<1>2. TasksTyped'
  BY <1>1, TaskMoved
<1>3. UNCHANGED shownVars
  BY DEF ServeRead, ServeWrite, ServeOrder, ServeDish
<1>4. DeskTyped'
  BY <1>2, <1>3 DEF shownVars, DeskTyped, TasksTyped, ServiceDeskTypeOK
<1>5. CASE ServeRead(k)
  <2>1. tasks[k].id \in Tables /\ tasks[k].to \in TableStatus /\ k \in Nat
    BY <1>1, <1>5, ServiceDeskAssumption DEF ServeRead, At, DeskTyped, TasksOfKind
  <2> QED
    BY <1>4, <1>5, <2>1, BegunTyped DEF ServeRead
<1>6. CASE ServeWrite(k)
  BY <1>4, <1>6, CommittedTyped DEF ServeWrite
<1>7. CASE ServeOrder(k)
  <2>1. tasks[k].id \in Orders /\ tasks[k].to \in OrderStatus
    BY <1>1, <1>7 DEF ServeOrder, At, DeskTyped, TasksOfKind
  <2>2. InStayTypeOK' /\ RowsKept /\ UNCHANGED patches
    BY <1>7, <2>1, OrderSet
    DEF ServeOrder, InStayTypeOK, RowsKept, TablesGrow, Booked
  <2> QED
    BY <1>4, <2>2, PatchesStay DEF RowsKept
<1>8. CASE ServeDish(k)
  <2>1. SetDish(tasks[k].id, tasks[k].to = "active") \/ InsertDish(tasks[k].id)
    BY <1>8 DEF ServeDish
  <2>2. InStayTypeOK' /\ RowsKept /\ UNCHANGED patches
    BY <1>8, <2>1, DishSet DEF ServeDish
  <2> QED
    BY <1>4, <2>2, PatchesStay DEF RowsKept
<1> QED
  BY <1>5, <1>6, <1>7, <1>8

LEMMA GuestsTyped ==
    ASSUME InStayTypeOK, PatchesBooked, GuestBooks \/ GuestOrders
    PROVE  InStayTypeOK' /\ PatchesBooked' /\ RowsKept
<1>1. NoKey \in Origins
  BY InStayAssumption
<1>2. CASE GuestBooks
  BY <1>1, <1>2, TableInserted
  DEF GuestBooks, InStayTypeOK, RowsKept, OrdersKept, Ordered, PatchesBooked,
      TablesGrow, Booked, Patch
<1>3. CASE GuestOrders
  BY <1>1, <1>3, OrderInserted
  DEF GuestOrders, InStayTypeOK, RowsKept, TablesGrow, Booked, PatchesBooked
<1> QED
  BY <1>2, <1>3

LEMMA ServiceDeskTyped ==
    ASSUME InStayTypeOK, PatchesBooked, DeskTyped, DiningNext \/ KitchenNext
    PROVE  InStayTypeOK' /\ PatchesBooked' /\ DeskTyped' /\ RowsKept
<1>1. ASSUME UNCHANGED inStayVars PROVE InStayTypeOK' /\ PatchesBooked' /\ RowsKept
  BY <1>1, InStaySame, PatchesStay DEF RowsKept
<1>2. ASSUME NEW k \in Tasks,
             \/ \E t \in Tables : PressStep(k, t)
             \/ \E filter \in { "all", "submitted" } : SetFilter(k, filter)
             \/ PressReload(k)
             \/ \E o \in Orders : PressOrderStep(k, o)
             \/ \E d \in Dishes : PressToggle(k, d) \/ PressCreate(k, d)
             \/ SaveEdit(k)
      PROVE  DeskTyped' /\ UNCHANGED inStayVars
  BY <1>2, DeskPressTyped
<1>3. ASSUME NEW k \in Tasks, Answers(k) PROVE DeskTyped' /\ UNCHANGED inStayVars
  BY <1>3, DeskAnswersTyped
<1>4. ASSUME NEW k \in Tasks,
             ServeRead(k) \/ ServeWrite(k) \/ ServeOrder(k) \/ ServeDish(k)
      PROVE  InStayTypeOK' /\ PatchesBooked' /\ DeskTyped' /\ RowsKept
  BY <1>4, DeskServedTyped
<1>5. ASSUME (\E d \in Dishes : BeginEdit(d)) \/ ChangeEdit
      PROVE  DeskTyped' /\ UNCHANGED inStayVars
  BY <1>5, EditTyped
<1>6. ASSUME GuestBooks \/ GuestOrders
      PROVE  InStayTypeOK' /\ PatchesBooked' /\ DeskTyped' /\ RowsKept
  <2>1. UNCHANGED deskVars
    BY <1>6 DEF GuestBooks, GuestOrders
  <2>2. DeskTyped'
    BY <2>1 DEF deskVars, shownVars, DeskTyped, ServiceDeskTypeOK, TasksOfKind
  <2> QED
    BY <1>6, <2>2, GuestsTyped
<1>7. CASE DiningNext
  BY <1>1, <1>2, <1>3, <1>4, <1>6, <1>7 DEF DiningNext
<1>8. CASE KitchenNext
  BY <1>1, <1>2, <1>3, <1>4, <1>5, <1>6, <1>8 DEF KitchenNext
<1> QED
  BY <1>7, <1>8

LEMMA ServicesTypedStep ==
    ASSUME ServicesTyped, [ConsolesNext]_consoleVars
    PROVE  ServicesTyped' /\ RowsKept
<1>1. CASE ConciergeNext /\ UNCHANGED deskVars
  <2>1. DeskTyped'
    BY <1>1
    DEF ServicesTyped, deskVars, shownVars, DeskTyped, ServiceDeskTypeOK, TasksOfKind
  <2> QED
    BY <1>1, <2>1, ConciergeTyped DEF ServicesTyped
<1>2. CASE (DiningNext \/ KitchenNext) /\ UNCHANGED conciergeVars
  <2>1. GuestTyped'
    BY <1>2
    DEF ServicesTyped, conciergeVars, pageVars, GuestTyped, FlowsTyped, KeyedByChat,
        PageTyped
  <2> QED
    BY <1>2, <2>1, ServiceDeskTyped DEF ServicesTyped
<1>3. CASE UNCHANGED serviceVars
  <2>1. UNCHANGED inStayVars
    BY <1>3 DEF serviceVars
  <2>2. InStayTypeOK' /\ PatchesBooked' /\ RowsKept
    BY <2>1, InStaySame, PatchesStay DEF ServicesTyped, RowsKept
  <2>3. GuestTyped'
    BY <1>3
    DEF ServicesTyped, serviceVars, conciergeVars, pageVars, GuestTyped, FlowsTyped,
        KeyedByChat, PageTyped
  <2>4. DeskTyped'
    BY <1>3
    DEF ServicesTyped, serviceVars, deskVars, shownVars, DeskTyped, ServiceDeskTypeOK,
        TasksOfKind
  <2> QED
    BY <2>2, <2>3, <2>4 DEF ServicesTyped
<1> QED
  BY <1>1, <1>2, <1>3, ServiceSteps

LEMMA ServicesAtFirst == ConsolesInit => ServicesTyped
<1> SUFFICES ASSUME InStayInit, ConciergeInit, ServiceDeskInit PROVE ServicesTyped
  BY DEF ConsolesInit
<1>1. InStayTypeOK /\ PatchesBooked
  BY DEF InStayInit, InStayTypeOK, PatchesBooked, CatalogueState
<1>2. GuestTyped
  BY DEF ConciergeInit, GuestTyped, FlowsTyped, KeyedByChat, PageTyped
<1>3. DeskTyped
  BY DEF ServiceDeskInit, DeskTyped, ServiceDeskTypeOK, TasksOfKind, CatalogueState
<1> QED
  BY <1>1, <1>2, <1>3 DEF ServicesTyped

LEMMA ServicesAlwaysTyped == ConsolesSpec => []ServicesTyped
<1>1. ServicesTyped /\ [ConsolesNext]_consoleVars => ServicesTyped'
  BY ServicesTypedStep
<1> QED
  BY <1>1, ServicesAtFirst, PTL DEF ConsolesSpec

\* The state of the in-stay page, of the service desk and of the backend behind
\* them is well formed: no answer, however late, brings one of them into a state
\* that its code does not expect.
THEOREM ServicesAreTyped ==
    ConsolesSpec => [](InStayTypeOK /\ ConciergeTypeOK /\ ServiceDeskTypeOK)
<1>1. ServicesTyped => InStayTypeOK /\ ConciergeTypeOK /\ ServiceDeskTypeOK
  BY DEF ServicesTyped, GuestTyped, FlowsTyped, PageTyped, DeskTyped, ConciergeTypeOK
<1> QED
  BY <1>1, ServicesAlwaysTyped, PTL

----------------------------------------------------------------------------
\* The notice "table booked"

SlotMade(s) == \E t \in Tables : Booked(t) /\ tables[t].slot = s

\* A flow that has its answer, or that loads the lists after it, has its booking.
ReportInv ==
    /\ \A f \in Flows :
         flows[f] # Idle /\ flows[f].step \in { "made", "lists" } /\ MakesTable(f)
           => SlotMade(flows[f].slot)
    /\ said # NoSlot => SlotMade(said)

LEMMA SlotsKept ==
    ASSUME TablesGrow, NEW s, SlotMade(s)
    PROVE  SlotMade(s)'
  BY DEF TablesGrow, SlotMade, Booked

LEMMA ReportSame ==
    ASSUME ReportInv, TablesGrow, UNCHANGED << flows, said >>
    PROVE  ReportInv'
  BY SlotsKept DEF ReportInv, MakesTable

\* One flow moves, to a step that promises nothing or with its promise kept.
LEMMA ReportMoved ==
    ASSUME ReportInv, TablesGrow, NEW f \in Flows,
           \A g \in Flows \ {f} : flows'[g] = flows[g],
           flows'[f] # Idle /\ flows'[f].step \in { "made", "lists" } /\ MakesTable(f)'
             => SlotMade(flows[f].slot)',
           said' \in { said, NoSlot } \/ SlotMade(said)'
    PROVE  ReportInv'
<1>1. ASSUME NEW g \in Flows, flows'[g] # Idle, flows'[g].step \in { "made", "lists" },
             MakesTable(g)'
      PROVE  SlotMade(flows[g].slot)'
  <2>1. CASE g = f
    BY <1>1, <2>1
  <2>2. CASE g # f
    <3>1. flows'[g] = flows[g]
      BY <2>2
    <3>2. SlotMade(flows[g].slot)
      BY <1>1, <3>1 DEF ReportInv, MakesTable
    <3> QED
      BY <3>1, <3>2 DEF SlotMade, TablesGrow, Booked
  <2> QED
    BY <2>1, <2>2
<1>2. said' # NoSlot => SlotMade(said)'
  BY DEF ReportInv, SlotMade, TablesGrow, Booked
<1> QED
  BY <1>1, <1>2 DEF ReportInv

LEMMA ReportStep ==
    ASSUME ServicesTyped, ReportInv, ConciergeNext, TablesGrow
    PROVE  ReportInv'
<1> USE DEF ServicesTyped
<1>1. ASSUME NEW f \in Flows,
             \/ PressRefresh(f) \/ PressOrder(f) \/ PressTable(f)
             \/ \E offer \in Offers : ClickFinal(f, offer)
      PROVE  ReportInv'
  <2>1. /\ \A g \in Flows \ {f} : flows'[g] = flows[g]
        /\ flows'[f].step = "create" \/ flows'[f].op = "refresh"
        /\ said' = NoSlot
    BY <1>1, PressTyped
  <2> QED
    BY <2>1, ReportMoved DEF MakesTable
<1>2. ASSUME NEW f \in Flows, NEW o \in Orders, HandleOrder(f, o) PROVE ReportInv'
  <2>1. /\ \A g \in Flows \ {f} : flows'[g] = flows[g]
        /\ ~MakesTable(f)'
    BY <1>2, Stepped DEF HandleOrder, Runs, GuestTyped, Steps, MakesTable
  <2> QED
    BY <1>2, <2>1, ReportMoved DEF HandleOrder
<1>3. ASSUME NEW f \in Flows, LookAtSlot(f) PROVE ReportInv'
  <2>1. /\ \A g \in Flows \ {f} : flows'[g] = flows[g]
        /\ flows'[f].step = "insert"
    BY <1>3, Stepped DEF LookAtSlot, Runs, GuestTyped, Steps
  <2> QED
    BY <1>3, <2>1, ReportMoved DEF LookAtSlot
<1>4. ASSUME NEW f \in Flows, NEW t \in Tables, HandleTable(f, t) PROVE ReportInv'
  <2>1. /\ \A g \in Flows \ {f} : flows'[g] = flows[g]
        /\ flows'[f].slot = flows[f].slot
    BY <1>4, Stepped DEF HandleTable, Runs, GuestTyped, Steps
  <2>2. flows[f].slot \in Slots /\ flows[f].key \in Origins
    BY <1>4, ConciergeAssumption DEF HandleTable, Runs, GuestTyped, FlowsTyped, Flow
  <2>3. tables'[t] # NoRow /\ tables'[t].slot = flows[f].slot
    BY <1>4, <2>2, TableInserted DEF HandleTable
  <2>4. SlotMade(flows[f].slot)'
    BY <2>1, <2>3 DEF SlotMade, Booked
  <2> QED
    BY <1>4, <2>1, <2>4, ReportMoved DEF HandleTable
<1>5. ASSUME NEW f \in Flows, Made(f) PROVE ReportInv'
  <2>1. /\ \A g \in Flows \ {f} : flows'[g] = flows[g]
        /\ flows'[f].op = flows[f].op /\ flows'[f].key = flows[f].key
        /\ flows'[f].slot = flows[f].slot
    BY <1>5, Stepped DEF Made, Runs, GuestTyped, Steps
  <2>2. MakesTable(f)' => SlotMade(flows[f].slot)
    BY <1>5, <2>1 DEF Made, Runs, ReportInv, MakesTable
  <2>3. MakesTable(f)' => SlotMade(flows[f].slot)'
    BY <2>1, <2>2 DEF SlotMade, TablesGrow, Booked
  <2> QED
    BY <1>5, <2>1, <2>3, ReportMoved DEF Made
<1>6. ASSUME NEW f \in Flows, NEW check \in { "checkLost", "checkRefused" },
             flows[f] # Idle, GivenUp(f, check)
      PROVE  ReportInv'
  <2>1. /\ \A g \in Flows \ {f} : flows'[g] = flows[g]
        /\ flows'[f] = Idle \/ flows'[f].step = check
    BY <1>6, Stepped, Ended DEF GivenUp, GuestTyped, Steps
  <2>2. said' \in { said, NoSlot }
    BY <1>6 DEF GivenUp
  <2> QED
    BY <2>1, <2>2, ReportMoved
<1>7. ASSUME NEW f \in Flows, Refused(f) \/ \E reached \in BOOLEAN : Lost(f, reached)
      PROVE  ReportInv'
  BY <1>6, <1>7 DEF Refused, Lost, Runs
<1>8. ASSUME NEW f \in Flows, CheckFound(f) PROVE ReportInv'
  <2>1. /\ \A g \in Flows \ {f} : flows'[g] = flows[g]
        /\ flows'[f] = Idle
    BY <1>8, Ended DEF CheckFound, GuestTyped
  <2>2. SlotMade(flows[f].slot) /\ said' = flows[f].slot
    BY <1>8 DEF CheckFound, Found, SlotFree, SlotMade
  <2>3. SlotMade(said)'
    BY <2>2 DEF SlotMade, TablesGrow, Booked
  <2> QED
    BY <2>1, <2>3, ReportMoved
<1>9. ASSUME NEW f \in Flows, CheckMissed(f) PROVE ReportInv'
  <2>1. /\ \A g \in Flows \ {f} : flows'[g] = flows[g]
        /\ flows'[f] = Idle \/ flows'[f].step = "create"
    <3>1. CASE flows' = [ flows EXCEPT ![f].step = "create", ![f].attempt = 2 ]
      <4>1. flows[f] \in Flow /\ DOMAIN flows = Flows
        BY <1>9 DEF CheckMissed, Checks, Runs, GuestTyped, FlowsTyped
      <4>2. flows' = [ flows EXCEPT ![f] = [ flows[f] EXCEPT !.step = "create",
                                                           !.attempt = 2 ] ]
        BY <3>1, <4>1
      <4>3. [ flows[f] EXCEPT !.step = "create", !.attempt = 2 ].step = "create"
        BY <4>1 DEF Flow
      <4> QED
        BY <4>1, <4>2, <4>3
    <3>2. CASE Ends(f)
      BY <3>2, Ended DEF GuestTyped
    <3> QED
      BY <1>9, <3>1, <3>2 DEF CheckMissed
  <2>2. said' \in { said, NoSlot }
    BY <1>9 DEF CheckMissed
  <2> QED
    BY <2>1, <2>2, ReportMoved
<1>10. ASSUME NEW f \in Flows, ListsArrive(f) PROVE ReportInv'
  <2>1. /\ \A g \in Flows \ {f} : flows'[g] = flows[g]
        /\ flows'[f] = Idle
    BY <1>10, Ended DEF ListsArrive, GuestTyped
  <2>2. CASE MakesTable(f)
    <3>1. SlotMade(flows[f].slot) /\ said' = flows[f].slot
      BY <1>10, <2>2 DEF ListsArrive, Runs, ReportInv
    <3>2. SlotMade(said)'
      BY <3>1 DEF SlotMade, TablesGrow, Booked
    <3> QED
      BY <2>1, <3>2, ReportMoved
  <2>3. CASE ~MakesTable(f)
    <3>1. said' \in { said, NoSlot }
      BY <1>10, <2>3 DEF ListsArrive
    <3> QED
      BY <2>1, <3>1, ReportMoved
  <2> QED
    BY <2>2, <2>3
<1>11. ASSUME \/ Ask \/ Replies
              \/ \E offer \in Offers : ClickLocal(offer) \/ ClickEmpty(offer)
              \/ \E n \in {0, 1} : SetDraft(n)
              \/ \E s \in Slots : SetSlot(s)
       PROVE  ReportInv'
  BY <1>11, AloneTyped, ReportSame
<1>12. ASSUME NEW s \in strays, HandleStray(s) PROVE ReportInv'
  BY <1>12, StrayKinds, ReportSame
<1>13. CASE Staff
  BY <1>13, ReportSame DEF Staff, conciergeVars
<1> QED
  BY <1>1, <1>2, <1>3, <1>4, <1>5, <1>7, <1>8, <1>9, <1>10, <1>11, <1>12, <1>13
  DEF ConciergeNext, FlowAnswers

\* Whatever is lost, refused and tried again, the page says "table booked" of a
\* slot only if the backend has a booking in it (onCreateTableBooking with
\* maybeCreatedDespiteNetworkError, and the chat, of InStayConcierge.tsx).
THEOREM ReportedTableIsAlwaysMade == ConsolesSpec => []ReportedTableIsMade
<1>1. ConsolesInit => ReportInv
  BY DEF ConsolesInit, ConciergeInit, ReportInv
<1>2. ServicesTyped /\ ReportInv /\ [ConsolesNext]_consoleVars => ReportInv'
  <2> SUFFICES ASSUME ServicesTyped, ReportInv, [ConsolesNext]_consoleVars
               PROVE  ReportInv'
    OBVIOUS
  <2>1. TablesGrow
    BY ServicesTypedStep DEF RowsKept
  <2>2. CASE UNCHANGED conciergeVars
    BY <2>1, <2>2, ReportSame DEF conciergeVars
  <2> QED
    BY <2>1, <2>2, ServiceSteps, ReportStep DEF serviceVars
<1>3. ReportInv => ReportedTableIsMade
  BY DEF ReportInv, ReportedTableIsMade, SlotMade
<1> QED
  BY <1>1, <1>2, <1>3, ServicesAlwaysTyped, PTL DEF ConsolesSpec

----------------------------------------------------------------------------
\* The history of a table booking

\* A status may be announced of a booking of which these were.
Justified(been, to) ==
    /\ to = "seated" => "confirmed" \in been
    /\ to = "completed" => "seated" \in been

RowsTrue ==
    \A t \in Tables : Booked(t) =>
        /\ tables[t].history = tables[t].status
        /\ tables[t].status \in tables[t].been
        /\ \A status \in tables[t].been : Justified(tables[t].been, status)

\* So are the statuses that are on their way: in a PATCH that has read the row, and
\* in a handler of the console that has not been served.
PatchesTrue == \A p \in patches : Justified(tables[p.table].been, p.to)
Sending(k) == tasks[k] # NoTask /\ tasks[k].op = "table" /\ tasks[k].step = "send"
TasksTrue ==
    \A k \in Tasks : Sending(k) =>
        Booked(tasks[k].id) /\ Justified(tables[tasks[k].id].been, tasks[k].to)

\* What the console shows may be old, but the booking had it.
ShownTrue ==
    \A t \in Tables : shownTables[t] # "none" =>
        Booked(t) /\ shownTables[t] \in tables[t].been

BackendTrue == RowsTrue /\ PatchesTrue
DeskTrue == TasksTrue /\ ShownTrue

LEMMA JustifiedStays ==
    ASSUME NEW been, NEW more, been \subseteq more, NEW to, Justified(been, to)
    PROVE  Justified(more, to)
  BY DEF Justified

LEMMA RowsTrueInserted ==
    ASSUME InStayTypeOK, RowsTrue, NEW t \in Tables, NEW s \in Slots,
           NEW from \in Origins, InsertTable(t, s, from)
    PROVE  RowsTrue'
<1> DEFINE row == [ slot |-> s, status |-> "submitted", history |-> "submitted",
                    been |-> { "submitted" }, from |-> from ]
<1>1. tables'[t] = row /\ \A u \in Tables \ {t} : tables'[u] = tables[u]
  BY TableInserted
<1>2. /\ row.history = row.status /\ row.status \in row.been
      /\ \A status \in row.been : Justified(row.been, status)
  BY DEF Justified
<1> HIDE DEF row
<1> QED
  BY <1>1, <1>2 DEF RowsTrue, Booked

LEMMA RowsTrueCommitted ==
    ASSUME InStayTypeOK, PatchesBooked, BackendTrue, NEW p, CommitPatch(p)
    PROVE  RowsTrue'
<1>1. p \in patches /\ p \in Patch /\ tables[p.table] # NoRow
  BY DEF CommitPatch, PatchesBooked, InStayTypeOK, Booked
<1>2. CASE tables' = tables
  BY <1>2 DEF BackendTrue, RowsTrue, Booked
<1>3. CASE /\ tables'[p.table].status = p.to
           /\ tables'[p.table].history = p.to
           /\ tables'[p.table].been = tables[p.table].been \cup {p.to}
           /\ \A t \in Tables \ {p.table} : tables'[t] = tables[t]
  <2>1. \A status \in tables'[p.table].been : Justified(tables'[p.table].been, status)
    <3>1. p.table \in Tables
      BY <1>1 DEF Patch
    <3>2. \A status \in tables'[p.table].been : Justified(tables[p.table].been, status)
      BY <1>1, <1>3, <3>1 DEF BackendTrue, RowsTrue, PatchesTrue, Booked
    <3> QED
      BY <1>3, <3>2 DEF Justified
  <2> QED
    BY <1>3, <2>1 DEF BackendTrue, RowsTrue, Booked
<1> QED
  BY <1>1, <1>2, <1>3, PatchCommitted

LEMMA PatchesTrueStay ==
    ASSUME InStayTypeOK, PatchesBooked, PatchesTrue, TablesGrow, patches' \subseteq patches
    PROVE  PatchesTrue'
<1> SUFFICES ASSUME NEW p \in patches' PROVE Justified(tables'[p.table].been, p.to)
  BY DEF PatchesTrue
<1>1. p \in patches /\ p.table \in Tables /\ Booked(p.table)
  BY DEF PatchesBooked, InStayTypeOK, Patch
<1> QED
  BY <1>1, JustifiedStays DEF PatchesTrue, TablesGrow

LEMMA DeskTrueStays ==
    ASSUME DeskTyped, DeskTrue, TablesGrow, UNCHANGED << tasks, shownTables >>
    PROVE  DeskTrue'
<1>1. TasksTrue'
  <2> SUFFICES ASSUME NEW k \in Tasks, Sending(k)
               PROVE  /\ tables'[tasks[k].id] # NoRow
                      /\ Justified(tables'[tasks[k].id].been, tasks[k].to)
    BY DEF TasksTrue, Sending, Booked
  <2>1. tasks[k].id \in Tables /\ Booked(tasks[k].id)
    BY DEF DeskTyped, TasksOfKind, Sending, DeskTrue, TasksTrue
  <2> QED
    BY <2>1, JustifiedStays DEF DeskTrue, TasksTrue, TablesGrow
<1>2. ShownTrue'
  BY DEF DeskTrue, ShownTrue, TablesGrow, Booked
<1> QED
  BY <1>1, <1>2 DEF DeskTrue

\* A PATCH begins, with a status that is justified.
LEMMA BackendBegun ==
    ASSUME BackendTrue, NEW by, NEW t \in Tables, NEW to, BeginPatch(by, t, to),
           Justified(tables[t].been, to), UNCHANGED tables
    PROVE  BackendTrue'
<1>1. RowsTrue'
  BY DEF BackendTrue, RowsTrue, Booked
<1>2. PatchesTrue'
  BY DEF BackendTrue, PatchesTrue, BeginPatch
<1> QED
  BY <1>1, <1>2 DEF BackendTrue

LEMMA BackendInserts ==
    ASSUME InStayTypeOK, PatchesBooked, BackendTrue, TablesGrow, UNCHANGED patches,
           \/ UNCHANGED tables
           \/ \E t \in Tables, s \in Slots, from \in Origins : InsertTable(t, s, from)
    PROVE  BackendTrue'
<1>1. RowsTrue'
  BY RowsTrueInserted DEF BackendTrue, RowsTrue, Booked
<1> QED
  BY <1>1, PatchesTrueStay DEF BackendTrue

LEMMA BackendCommits ==
    ASSUME InStayTypeOK, PatchesBooked, BackendTrue, TablesGrow, NEW p, CommitPatch(p)
    PROVE  BackendTrue'
  BY RowsTrueCommitted, PatchesTrueStay DEF BackendTrue, CommitPatch

LEMMA HistoryOfPage ==
    ASSUME ServicesTyped, BackendTrue, TablesGrow, ConciergeNext
    PROVE  BackendTrue'
<1> USE DEF ServicesTyped
<1>1. ASSUME UNCHANGED << tables, patches >> PROVE BackendTrue'
  BY <1>1, BackendInserts
<1>2. ASSUME NEW f \in Flows,
             \/ PressRefresh(f) \/ PressOrder(f) \/ PressTable(f)
             \/ \E offer \in Offers : ClickFinal(f, offer)
      PROVE  BackendTrue'
  BY <1>1, <1>2, PressTyped DEF inStayVars
<1>3. ASSUME NEW f \in Flows,
             (\E o \in Orders : HandleOrder(f, o)) \/ LookAtSlot(f)
      PROVE  BackendTrue'
  BY <1>1, <1>3 DEF HandleOrder, LookAtSlot, inStayVars
<1>4. ASSUME NEW f \in Flows, NEW t \in Tables, HandleTable(f, t) PROVE BackendTrue'
  <2>1. flows[f].slot \in Slots /\ flows[f].key \in Origins
    BY <1>4, ConciergeAssumption DEF HandleTable, Runs, GuestTyped, FlowsTyped, Flow
  <2> QED
    BY <1>4, <2>1, BackendInserts DEF HandleTable
<1>5. ASSUME NEW f \in Flows,
             \/ Made(f) \/ Refused(f) \/ \E reached \in BOOLEAN : Lost(f, reached)
             \/ CheckFound(f) \/ CheckMissed(f) \/ ListsArrive(f)
      PROVE  BackendTrue'
  BY <1>1, <1>5, AnsweredTyped DEF inStayVars
<1>6. ASSUME \/ Ask \/ Replies
             \/ \E offer \in Offers : ClickLocal(offer) \/ ClickEmpty(offer)
             \/ \E n \in {0, 1} : SetDraft(n)
             \/ \E s \in Slots : SetSlot(s)
      PROVE  BackendTrue'
  BY <1>1, <1>6, AloneTyped DEF inStayVars
<1>7. ASSUME NEW s \in strays, HandleStray(s) PROVE BackendTrue'
  BY <1>7, StrayKinds, BackendInserts
<1>8. CASE Staff
  <2>1. ASSUME NEW t \in Tables, NEW to \in StaffSets, BeginPatch(0, t, to),
               UNCHANGED tables
        PROVE  BackendTrue'
    BY <2>1, BackendBegun, ConciergeAssumption DEF Justified
  <2>2. ASSUME NEW p, CommitPatch(p) PROVE BackendTrue'
    BY <2>2, BackendCommits
  <2> QED
    BY <1>1, <1>8, <2>1, <2>2 DEF Staff
<1> QED
  BY <1>2, <1>3, <1>4, <1>5, <1>6, <1>7, <1>8 DEF ConciergeNext, FlowAnswers

LEMMA HistoryOfDesk ==
    ASSUME ServicesTyped, BackendTrue, DeskTrue, TablesGrow, DiningNext \/ KitchenNext
    PROVE  BackendTrue' /\ DeskTrue'
<1> USE DEF ServicesTyped
<1>1. ASSUME UNCHANGED << tables, patches >> PROVE BackendTrue'
  BY <1>1, BackendInserts
<1>2. ASSUME UNCHANGED << tasks, shownTables >> PROVE DeskTrue'
  BY <1>2, DeskTrueStays
\* What a press sends was offered for a row that the booking had.
<1>3. ASSUME NEW k \in Tasks, NEW t \in Tables, PressStep(k, t)
      PROVE  BackendTrue' /\ DeskTrue'
  <2>1. PICK to \in TableActions(shownTables[t]) : Begins(k, "table", t, to, "send")
    BY <1>3 DEF PressStep
  <2>2. /\ Booked(t) /\ shownTables[t] \in tables[t].been
        /\ Justified(tables[t].been, to)
    <3>1. shownTables[t] \in ActiveTable
      BY <2>1 DEF TableActions, NextBooking, CanCancelBooking, ActiveTable
    <3>2. Booked(t) /\ shownTables[t] \in tables[t].been
      BY <3>1 DEF ActiveTable, DeskTrue, ShownTrue
    <3>3. \/ to = "cancelled"
          \/ to = "confirmed"
          \/ to = "seated" /\ shownTables[t] = "confirmed"
          \/ to = "completed" /\ shownTables[t] = "seated"
      BY <2>1 DEF TableActions, NextBooking, CanCancelBooking
    <3> QED
      BY <3>2, <3>3 DEF Justified
  <2>3. to \in TableStatus /\ t \in Nat
    BY NextTyped, InStayAssumption
  <2>4. /\ UNCHANGED inStayVars
        /\ tasks'[k] = [ op |-> "table", id |-> t, to |-> to, filter |-> tableFilter,
                          step |-> "send" ]
        /\ \A j \in Tasks \ {k} : tasks'[j] = tasks[j]
    BY <2>1, <2>3, PressedTyped
  <2>5. UNCHANGED << tables, patches, shownTables >>
    BY <1>3, <2>4 DEF PressStep, inStayVars, shownVars
  <2>6. TasksTrue'
    BY <2>2, <2>4, <2>5 DEF DeskTrue, TasksTrue, Sending, Booked
  <2>7. ShownTrue'
    BY <2>5 DEF DeskTrue, ShownTrue, Booked
  <2> QED
    BY <1>1, <2>5, <2>6, <2>7 DEF DeskTrue
\* Another handler begins, or moves on: it does not send a status of a table.
<1>4. ASSUME NEW k \in Tasks, \A j \in Tasks \ {k} : tasks'[j] = tasks[j],
             ~Sending(k)', UNCHANGED shownTables
      PROVE  DeskTrue'
  <2>1. TasksTrue'
    <3> SUFFICES ASSUME NEW j \in Tasks, Sending(j)'
                 PROVE  /\ tables'[tasks'[j].id] # NoRow
                        /\ Justified(tables'[tasks'[j].id].been, tasks'[j].to)
      BY DEF TasksTrue, Booked
    <3>1. j # k /\ tasks'[j] = tasks[j]
      BY <1>4
    <3>2. Sending(j) /\ tasks[j].id \in Tables
      BY <3>1 DEF Sending, DeskTyped, TasksOfKind
    <3> QED
      BY <3>1, <3>2, JustifiedStays DEF DeskTrue, TasksTrue, TablesGrow
  <2>2. ShownTrue'
    BY <1>4 DEF DeskTrue, ShownTrue, TablesGrow, Booked
  <2> QED
    BY <2>1, <2>2 DEF DeskTrue
<1>5. ASSUME NEW k \in Tasks,
             \/ \E filter \in { "all", "submitted" } : SetFilter(k, filter)
             \/ PressReload(k)
             \/ \E o \in Orders : PressOrderStep(k, o)
             \/ \E d \in Dishes : PressToggle(k, d) \/ PressCreate(k, d)
             \/ SaveEdit(k)
      PROVE  BackendTrue' /\ DeskTrue'
  <2>1. UNCHANGED inStayVars /\ UNCHANGED shownTables
    BY <1>5, DeskPressTyped
    DEF SetFilter, PressReload, PressOrderStep, PressToggle, PressCreate, SaveEdit,
        shownVars
  <2>2. PICK task : task.op # "table" /\ tasks' = [ tasks EXCEPT ![k] = task ]
    <3>1. ASSUME NEW filter, SetFilter(k, filter)
          PROVE  \E task : task.op # "table" /\ tasks' = [ tasks EXCEPT ![k] = task ]
      <4> DEFINE task == [ NewTask("list", 0, "none", "reload") EXCEPT !.filter = filter ]
      <4>1. task.op = "list" /\ tasks' = [ tasks EXCEPT ![k] = task ]
        BY <3>1 DEF SetFilter, NewTask
      <4> HIDE DEF task
      <4> QED
        BY <4>1
    <3>2. ASSUME NEW op \in { "order", "dish", "new", "list" }, NEW id, NEW to, NEW step,
                 Begins(k, op, id, to, step)
          PROVE  \E task : task.op # "table" /\ tasks' = [ tasks EXCEPT ![k] = task ]
      <4>1. NewTask(op, id, to, step).op = op
        BY DEF NewTask
      <4> QED
        BY <3>2, <4>1 DEF Begins
    <3>3. PICK op \in { "order", "dish", "new", "list" } :
            (\E filter : SetFilter(k, filter)) \/ \E id, to, step : Begins(k, op, id, to, step)
      BY <1>5 DEF PressReload, PressOrderStep, PressToggle, PressCreate, SaveEdit
    <3> QED
      BY <3>1, <3>2, <3>3
  <2>3. /\ \A j \in Tasks \ {k} : tasks'[j] = tasks[j]
        /\ ~Sending(k)'
    BY <2>2 DEF Sending, DeskTyped, ServiceDeskTypeOK
  <2> QED
    BY <1>1, <1>4, <2>1, <2>3 DEF inStayVars
<1>6. ASSUME NEW k \in Tasks, ServeRead(k) PROVE BackendTrue' /\ DeskTrue'
  <2>1. /\ Sending(k) /\ Moves(k, "update")
        /\ BeginPatch(k, tasks[k].id, tasks[k].to)
        /\ UNCHANGED << tables, shownTables >>
    BY <1>6 DEF ServeRead, At, Sending, shownVars
  <2>2. tasks[k].id \in Tables /\ Justified(tables[tasks[k].id].been, tasks[k].to)
    BY <2>1 DEF DeskTyped, TasksOfKind, Sending, DeskTrue, TasksTrue
  <2>3. \A j \in Tasks \ {k} : tasks'[j] = tasks[j]
    BY <2>1, TaskMoved DEF Sending
  <2>4. ~Sending(k)'
    BY <2>1, TaskMoved DEF Sending
  <2> QED
    BY <1>4, <2>1, <2>2, <2>3, <2>4, BackendBegun
<1>7. ASSUME NEW k \in Tasks, ServeWrite(k) \/ ServeOrder(k) \/ ServeDish(k)
      PROVE  BackendTrue' /\ DeskTrue'
  <2>1. tasks[k] # NoTask /\ Moves(k, "answer") /\ UNCHANGED shownTables
    BY <1>7 DEF ServeWrite, ServeOrder, ServeDish, At, shownVars
  <2>2. DeskTrue'
    BY <1>4, <2>1, TaskMoved DEF Sending
  <2>3. BackendTrue'
    BY <1>1, <1>7, BackendCommits DEF ServeWrite, ServeOrder, ServeDish
  <2> QED
    BY <2>2, <2>3
\* What the console is told by an answer is the status of the row.
<1>8. ASSUME NEW k \in Tasks, Answers(k) PROVE BackendTrue' /\ DeskTrue'
  <2>1. UNCHANGED inStayVars
    BY <1>8, DeskAnswersTyped
  <2>2. \A t \in Tables : TableNow(t) # "none" => Booked(t) /\ TableNow(t) \in tables[t].been
    BY DEF TableNow, BackendTrue, RowsTrue
  <2>3. \A t \in Tables : shownTables'[t] # "none" =>
          Booked(t) /\ shownTables'[t] \in tables[t].been
    BY <1>8, <2>2
    DEF Answers, Answered, TaskFails, ReloadArrives, shownVars, DeskTrue, ShownTrue,
        DeskTyped, ServiceDeskTypeOK
  <2>4. ShownTrue'
    BY <2>1, <2>3 DEF ShownTrue, Booked, inStayVars
  <2>5. /\ \A j \in Tasks \ {k} : tasks'[j] = tasks[j]
        /\ ~Sending(k)'
    BY <1>8, TaskMoved, TaskEnded DEF Answers, Answered, TaskFails, ReloadArrives, Sending
  <2>6. TasksTrue'
    <3> SUFFICES ASSUME NEW j \in Tasks, Sending(j)'
                 PROVE  /\ tables'[tasks'[j].id] # NoRow
                        /\ Justified(tables'[tasks'[j].id].been, tasks'[j].to)
      BY DEF TasksTrue, Booked
    <3>1. tasks'[j] = tasks[j] /\ Sending(j)
      BY <2>5 DEF Sending
    <3> QED
      BY <2>1, <3>1 DEF DeskTrue, TasksTrue, Booked, inStayVars
  <2> QED
    BY <1>1, <2>1, <2>4, <2>6 DEF DeskTrue, inStayVars
<1>9. ASSUME (\E d \in Dishes : BeginEdit(d)) \/ ChangeEdit PROVE BackendTrue' /\ DeskTrue'
  BY <1>1, <1>2, <1>9, EditTyped DEF inStayVars
<1>10. CASE GuestBooks \/ GuestOrders
  <2>1. UNCHANGED << tasks, shownTables, patches >>
    BY <1>10 DEF GuestBooks, GuestOrders, deskVars, shownVars
  <2>2. BackendTrue'
    BY <1>10, <2>1, BackendInserts, InStayAssumption DEF GuestBooks, GuestOrders
  <2> QED
    BY <1>2, <2>1, <2>2
<1>11. CASE DiningNext
  BY <1>3, <1>5, <1>6, <1>7, <1>8, <1>10, <1>11 DEF DiningNext
<1>12. CASE KitchenNext
  BY <1>3, <1>5, <1>6, <1>7, <1>8, <1>9, <1>10, <1>12 DEF KitchenNext
<1> QED
  BY <1>11, <1>12

\* The history of every booking ends at its status and leaves no stage out, for any
\* number of consoles with rows of any age and handlers that interleave, as long as
\* other staff sets what a console offers for every row
\* (update_restaurant_booking_status of api/instay.py, nextBookingAction of
\* ManagerInStaySection.tsx).
THEOREM HistoryIsAlwaysTrue == ConsolesSpec => []HistoryIsTrue
<1> DEFINE Inv == BackendTrue /\ DeskTrue
<1>1. ConsolesInit => Inv
  BY DEF ConsolesInit, InStayInit, ServiceDeskInit, BackendTrue, RowsTrue, PatchesTrue,
         DeskTrue, TasksTrue, ShownTrue, Sending, Booked
<1>2. ServicesTyped /\ Inv /\ [ConsolesNext]_consoleVars => Inv'
  <2> SUFFICES ASSUME ServicesTyped, BackendTrue, DeskTrue, [ConsolesNext]_consoleVars
               PROVE  BackendTrue' /\ DeskTrue'
    OBVIOUS
  <2>1. TablesGrow
    BY ServicesTypedStep DEF RowsKept
  <2>2. CASE ConciergeNext /\ UNCHANGED deskVars
    <3>1. BackendTrue'
      BY <2>1, <2>2, HistoryOfPage
    <3>2. DeskTrue'
      BY <2>1, <2>2, DeskTrueStays DEF ServicesTyped, deskVars, shownVars
    <3> QED
      BY <3>1, <3>2
  <2>3. CASE DiningNext \/ KitchenNext
    BY <2>1, <2>3, HistoryOfDesk
  <2>4. CASE UNCHANGED serviceVars
    <3>1. UNCHANGED << tables, patches, tasks, shownTables >>
      BY <2>4 DEF serviceVars, inStayVars, deskVars, shownVars
    <3> QED
      BY <2>1, <3>1, BackendInserts, DeskTrueStays DEF ServicesTyped
  <2> QED
    BY <2>2, <2>3, <2>4, ServiceSteps
<1>3. Inv => HistoryIsTrue
  BY DEF BackendTrue, RowsTrue, Justified, HistoryIsTrue
<1> HIDE DEF Inv
<1> QED
  BY <1>1, <1>2, <1>3, ServicesAlwaysTyped, PTL DEF ConsolesSpec

----------------------------------------------------------------------------
\* What the chat offered

Awaits(f, key) == flows[f] # Idle /\ flows[f].key = key
\* The backend has answered the request of this flow.
Served(f, key) == Awaits(f, key) /\ flows[f].step \in { "made", "lists" }

\* The chat awaits one action, and it was not completed before.
OneAction ==
    \A f \in Flows : flows[f] # Idle /\ flows[f].op = "chat" =>
        /\ flows[f].key = busy /\ busy # NoKey /\ busy \notin completed
        /\ \A g \in Flows : Awaits(g, busy) => g = f

\* What came of an action is of one that was completed, or that was served.
Taken(key) == key \in completed \/ \E f \in Flows : Served(f, key)
OrderFrom(o, key) == Ordered(o) /\ orders[o].from = key
TableFrom(t, key) == Booked(t) /\ tables[t].from = key
OrdersTaken == \A o \in Orders : Ordered(o) /\ orders[o].from # NoKey => Taken(orders[o].from)
TablesTaken == \A t \in Tables : Booked(t) /\ tables[t].from # NoKey => Taken(tables[t].from)

\* A request that the page has given up is the only one of its action.
StraysAlone ==
    \A s \in strays : s.from # NoKey =>
        /\ s.from \in completed
        /\ \A o \in Orders : ~OrderFrom(o, s.from)
        /\ \A t \in Tables : ~TableFrom(t, s.from)
        /\ \A r \in strays : r.from = s.from => r = s

RowsOnce == OrdersTaken /\ TablesTaken /\ StraysAlone /\ OfferIsTakenOnce
OnceInv == OneAction /\ RowsOnce

\* What was served or completed stays so.
TakenKept ==
    /\ completed \subseteq completed'
    /\ \A f \in Flows, key \in Keys :
         Served(f, key) => Served(f, key)' \/ key \in completed'

NoNewOrder == \A o \in Orders : orders'[o] # NoRow => Ordered(o)
NoNewTable == \A t \in Tables : tables'[t] # NoRow => Booked(t)

LEMMA RowTyped ==
    ASSUME InStayTypeOK
    PROVE  /\ \A o \in Orders : Ordered(o) => orders[o].from \in Keys \cup {NoKey}
           /\ \A t \in Tables : Booked(t) => tables[t].from \in Keys \cup {NoKey}
  BY ConciergeAssumption DEF InStayTypeOK, Ordered, Booked, Order, Table

LEMMA TakenStays ==
    ASSUME TakenKept, NEW key \in Keys, Taken(key)
    PROVE  Taken(key)'
  BY DEF TakenKept, Taken

LEMMA OnceOfOrders ==
    ASSUME InStayTypeOK, OrdersTaken, OfferIsTakenOnce, TakenKept, OrdersKept, NoNewOrder
    PROVE  /\ OrdersTaken'
           /\ \A o, p \in Orders :
                orders'[o] # NoRow /\ orders'[p] # NoRow /\ o # p
                  /\ orders'[o].from # NoKey => orders'[o].from # orders'[p].from
           /\ \A o \in Orders, key \in Keys : OrderFrom(o, key)' => OrderFrom(o, key)
<1>1. \A o \in Orders : orders'[o] # NoRow =>
        Ordered(o) /\ orders'[o].from = orders[o].from
  BY DEF NoNewOrder, OrdersKept
<1>2. OrdersTaken'
  BY <1>1, RowTyped, TakenStays DEF OrdersTaken, Ordered
<1> QED
  BY <1>1, <1>2 DEF OfferIsTakenOnce, Ordered, OrderFrom

LEMMA OnceOfTables ==
    ASSUME InStayTypeOK, TablesTaken, OfferIsTakenOnce, TakenKept, TablesGrow, NoNewTable
    PROVE  /\ TablesTaken'
           /\ \A t, u \in Tables :
                tables'[t] # NoRow /\ tables'[u] # NoRow /\ t # u
                  /\ tables'[t].from # NoKey => tables'[t].from # tables'[u].from
           /\ \A t \in Tables, key \in Keys : TableFrom(t, key)' => TableFrom(t, key)
<1>1. \A t \in Tables : tables'[t] # NoRow =>
        Booked(t) /\ tables'[t].from = tables[t].from
  BY DEF NoNewTable, TablesGrow
<1>2. TablesTaken'
  BY <1>1, RowTyped, TakenStays DEF TablesTaken, Booked
<1> QED
  BY <1>1, <1>2 DEF OfferIsTakenOnce, Booked, TableFrom

LEMMA StrayKey ==
    ASSUME GuestTyped, NEW s \in strays
    PROVE  s.from \in Keys \cup {NoKey}
  BY DEF GuestTyped, Stray

\* A step without a new row and without a new request on its own.
LEMMA OnceKept ==
    ASSUME InStayTypeOK, GuestTyped, RowsOnce, TakenKept, RowsKept, NoNewOrder,
           NoNewTable, strays' \subseteq strays
    PROVE  RowsOnce'
<1>1. StraysAlone'
  <2> SUFFICES ASSUME NEW s \in strays', s.from # NoKey
               PROVE  /\ s.from \in completed'
                      /\ \A o \in Orders : ~OrderFrom(o, s.from)'
                      /\ \A t \in Tables : ~TableFrom(t, s.from)'
                      /\ \A r \in strays' : r.from = s.from => r = s
    BY DEF StraysAlone, OrderFrom, TableFrom, Ordered, Booked
  <2>1. s \in strays /\ s.from \in Keys
    BY StrayKey
  <2> QED
    BY <2>1, OnceOfOrders, OnceOfTables DEF RowsOnce, RowsKept, StraysAlone, TakenKept
<1> QED
  BY <1>1, OnceOfOrders, OnceOfTables DEF RowsOnce, RowsKept, OfferIsTakenOnce, Ordered, Booked

\* A new row, the first of its action.
LEMMA OrderOnce ==
    ASSUME InStayTypeOK, GuestTyped, RowsOnce, TakenKept, NEW o \in Orders,
           NEW key \in Origins, InsertOrder(o, key), UNCHANGED tables,
           strays' \subseteq strays, \A s \in strays' : s.from # key \/ key = NoKey,
           key # NoKey => Taken(key)' /\ \A p \in Orders : ~OrderFrom(p, key)
    PROVE  RowsOnce'
<1>1. /\ orders'[o] # NoRow /\ orders'[o].from = key
      /\ \A p \in Orders \ {o} : orders'[p] = orders[p]
  BY OrderInserted
<1>2. OrdersTaken'
  <2>1. ASSUME NEW p \in Orders, orders'[p] # NoRow, orders'[p].from # NoKey
        PROVE  Taken(orders[p].from)'
    <3>1. CASE p = o
      BY <1>1, <2>1, <3>1 DEF Taken, Served, Awaits
    <3>2. CASE p # o
      <4>1. orders'[p] = orders[p] /\ Taken(orders[p].from) /\ orders[p].from \in Keys
        BY <1>1, <2>1, <3>2, RowTyped DEF RowsOnce, OrdersTaken, Ordered
      <4>2. PICK k \in Keys : k = orders[p].from
        BY <4>1
      <4>3. Taken(k)'
        BY <4>1, <4>2, TakenStays
      <4> QED
        BY <4>1, <4>2, <4>3
    <3> QED
      BY <3>1, <3>2
  <2> QED
    BY <2>1 DEF OrdersTaken, Ordered
<1>3. NoNewTable /\ TablesGrow
  BY DEF NoNewTable, TablesGrow, Booked
<1>4. /\ TablesTaken'
      /\ \A t, u \in Tables :
           tables'[t] # NoRow /\ tables'[u] # NoRow /\ t # u /\ tables'[t].from # NoKey
             => tables'[t].from # tables'[u].from
      /\ \A t \in Tables, k \in Keys : TableFrom(t, k)' => TableFrom(t, k)
  BY <1>3, OnceOfTables DEF RowsOnce
<1>5. StraysAlone'
  <2> SUFFICES ASSUME NEW s \in strays', s.from # NoKey
               PROVE  /\ s.from \in completed'
                      /\ \A p \in Orders : ~OrderFrom(p, s.from)'
                      /\ \A t \in Tables : ~TableFrom(t, s.from)'
                      /\ \A r \in strays' : r.from = s.from => r = s
    BY DEF StraysAlone, OrderFrom, TableFrom, Ordered, Booked
  <2>1. s \in strays /\ s.from \in Keys /\ s.from # key
    BY StrayKey
  <2>2. \A p \in Orders : ~OrderFrom(p, s.from)'
    BY <1>1, <2>1 DEF RowsOnce, StraysAlone, OrderFrom, Ordered
  <2> QED
    BY <1>4, <2>1, <2>2 DEF RowsOnce, StraysAlone, TakenKept
<1>6. \A p, q \in Orders :
        orders'[p] # NoRow /\ orders'[q] # NoRow /\ p # q /\ orders'[p].from # NoKey
          => orders'[p].from # orders'[q].from
  BY <1>1 DEF RowsOnce, OfferIsTakenOnce, OrderFrom, Ordered
<1> QED
  BY <1>2, <1>4, <1>5, <1>6 DEF RowsOnce, OfferIsTakenOnce, Ordered, Booked

LEMMA TableOnce ==
    ASSUME InStayTypeOK, GuestTyped, RowsOnce, TakenKept, NEW t \in Tables,
           NEW at \in Slots, NEW key \in Origins, InsertTable(t, at, key),
           UNCHANGED orders, strays' \subseteq strays,
           \A s \in strays' : s.from # key \/ key = NoKey,
           key # NoKey => Taken(key)' /\ \A u \in Tables : ~TableFrom(u, key)
    PROVE  RowsOnce'
<1>1. /\ tables'[t] # NoRow /\ tables'[t].from = key
      /\ \A u \in Tables \ {t} : tables'[u] = tables[u]
  BY TableInserted
<1>2. TablesTaken'
  <2>1. ASSUME NEW u \in Tables, tables'[u] # NoRow, tables'[u].from # NoKey
        PROVE  Taken(tables[u].from)'
    <3>1. CASE u = t
      BY <1>1, <2>1, <3>1 DEF Taken, Served, Awaits
    <3>2. CASE u # t
      <4>1. tables'[u] = tables[u] /\ Taken(tables[u].from) /\ tables[u].from \in Keys
        BY <1>1, <2>1, <3>2, RowTyped DEF RowsOnce, TablesTaken, Booked
      <4>2. PICK k \in Keys : k = tables[u].from
        BY <4>1
      <4>3. Taken(k)'
        BY <4>1, <4>2, TakenStays
      <4> QED
        BY <4>1, <4>2, <4>3
    <3> QED
      BY <3>1, <3>2
  <2> QED
    BY <2>1 DEF TablesTaken, Booked
<1>3. NoNewOrder /\ OrdersKept
  BY DEF NoNewOrder, OrdersKept, Ordered
<1>4. /\ OrdersTaken'
      /\ \A p, q \in Orders :
           orders'[p] # NoRow /\ orders'[q] # NoRow /\ p # q /\ orders'[p].from # NoKey
             => orders'[p].from # orders'[q].from
      /\ \A p \in Orders, k \in Keys : OrderFrom(p, k)' => OrderFrom(p, k)
  BY <1>3, OnceOfOrders DEF RowsOnce
<1>5. StraysAlone'
  <2> SUFFICES ASSUME NEW s \in strays', s.from # NoKey
               PROVE  /\ s.from \in completed'
                      /\ \A p \in Orders : ~OrderFrom(p, s.from)'
                      /\ \A u \in Tables : ~TableFrom(u, s.from)'
                      /\ \A r \in strays' : r.from = s.from => r = s
    BY DEF StraysAlone, OrderFrom, TableFrom, Ordered, Booked
  <2>1. s \in strays /\ s.from \in Keys /\ s.from # key
    BY StrayKey
  <2>2. \A u \in Tables : ~TableFrom(u, s.from)'
    BY <1>1, <2>1 DEF RowsOnce, StraysAlone, TableFrom, Booked
  <2> QED
    BY <1>4, <2>1, <2>2 DEF RowsOnce, StraysAlone, TakenKept
<1>6. \A u, v \in Tables :
        tables'[u] # NoRow /\ tables'[v] # NoRow /\ u # v /\ tables'[u].from # NoKey
          => tables'[u].from # tables'[v].from
  BY <1>1 DEF RowsOnce, OfferIsTakenOnce, TableFrom, Booked
<1> QED
  BY <1>2, <1>4, <1>5, <1>6 DEF RowsOnce, OfferIsTakenOnce, Ordered, Booked

\* One flow moves on, or ends.
Others(f) == \A g \in Flows \ {f} : flows'[g] = flows[g]
Promises(f) == flows[f].step \in { "made", "lists" } /\ flows[f].key \in Keys

LEMMA OnceMoved ==
    ASSUME GuestTyped, OneAction, NEW f \in Flows, flows[f] # Idle, flows'[f] # Idle,
           Others(f), flows'[f].op = flows[f].op, flows'[f].key = flows[f].key,
           Promises(f) => flows'[f].step \in { "made", "lists" },
           UNCHANGED << busy, completed >>
    PROVE  OneAction' /\ TakenKept
<1>1. OneAction'
  <2> SUFFICES ASSUME NEW h \in Flows, flows'[h] # Idle, flows'[h].op = "chat"
               PROVE  /\ flows'[h].key = busy /\ busy # NoKey /\ busy \notin completed
                      /\ \A g \in Flows : flows'[g] # Idle /\ flows'[g].key = busy => g = h
    BY DEF OneAction, Awaits
  <2>1. \A g \in Flows : (flows'[g] # Idle <=> flows[g] # Idle)
                           /\ flows'[g].key = flows[g].key /\ flows'[g].op = flows[g].op
    BY DEF Others
  <2> QED
    BY <2>1 DEF OneAction, Awaits
<1>2. TakenKept
  BY DEF TakenKept, Served, Awaits, Others, Promises
<1> QED
  BY <1>1, <1>2

LEMMA OnceEnded ==
    ASSUME GuestTyped, OneAction, NEW f \in Flows, flows[f] # Idle, flows'[f] = Idle,
           Others(f),
           \/ UNCHANGED << busy, completed >> /\ ~Promises(f)
           \/ \E ok : busy' = BusyThen(f, ok) /\ completed' = Completed(f, ok)
    PROVE  OneAction' /\ TakenKept
<1>1. flows[f].key \in Keys => flows[f].op = "chat"
  BY ConciergeAssumption DEF GuestTyped, FlowsTyped, KeyedByChat
<1>2. TakenKept
  <2>1. completed \subseteq completed' /\ (Promises(f) => flows[f].key \in completed')
    BY <1>1 DEF Promises, Completed
  <2> QED
    BY <2>1 DEF TakenKept, Served, Awaits, Others, Promises
<1>3. ASSUME UNCHANGED << busy, completed >> PROVE OneAction'
  BY <1>3 DEF OneAction, Awaits, Others
<1>4. CASE flows[f].op = "chat"
  <2>1. \A g \in Flows \ {f} : ~(flows[g] # Idle /\ flows[g].op = "chat")
    BY <1>4 DEF OneAction, Awaits
  <2> QED
    BY <1>2, <2>1 DEF OneAction, Others
<1>5. CASE flows[f].op # "chat"
  BY <1>2, <1>3, <1>5 DEF BusyThen, Completed
<1> QED
  BY <1>4, <1>5

\* A press starts a flow; the chat has none.
LEMMA OncePressed ==
    ASSUME GuestTyped, OneAction, NEW f \in Flows,
           \/ PressRefresh(f) \/ PressOrder(f) \/ PressTable(f)
           \/ \E offer \in Offers : ClickFinal(f, offer)
    PROVE  OneAction' /\ TakenKept
<1>1. flows[f] = Idle /\ flows'[f] # Idle /\ Others(f) /\ GuestTyped'
  BY PressTyped DEF Others
<1>2. completed' = completed
  BY DEF PressRefresh, PressOrder, PressTable, ClickFinal, pageVars
<1>3. TakenKept
  BY <1>1, <1>2 DEF TakenKept, Served, Awaits, Others
<1>4. CASE PressRefresh(f) \/ PressOrder(f) \/ PressTable(f)
  <2>1. busy' = busy /\ flows'[f].op # "chat"
    <3>1. PICK op, step :
            /\ op \in { "refresh", "order", "table" }
            /\ flows' = [ flows EXCEPT ![f] = NewFlow(op, step) ]
      BY <1>4 DEF PressRefresh, PressOrder, PressTable
    <3>2. NewFlow(op, step).op = op /\ flows'[f] = NewFlow(op, step)
      BY <3>1 DEF NewFlow, GuestTyped, FlowsTyped
    <3> QED
      BY <1>4, <3>1, <3>2 DEF PressRefresh, PressOrder, PressTable
  <2>2. flows'[f].key = NoKey
    BY <1>1, <2>1 DEF GuestTyped, FlowsTyped, KeyedByChat
  <2> QED
    BY <1>1, <1>2, <1>3, <2>1, <2>2 DEF OneAction, Awaits, Others
<1>5. ASSUME NEW offer \in Offers, ClickFinal(f, offer) PROVE OneAction'
  <2>1. busy = NoKey /\ busy' = KeyOf(offer) /\ KeyOf(offer) \notin completed
        /\ Final(offer)
    BY <1>5 DEF ClickFinal, ActionEnabled
  <2>2. KeyOf(offer) \in Keys /\ KeyOf(offer) # NoKey
    BY <2>1, KeyTyped
  <2>3. flows'[f].key = busy'
    <3> DEFINE flow == [ op |-> "chat", key |-> KeyOf(offer), attempt |-> 1,
                  step |-> "create",
                  slot |-> IF offer.act = "table" THEN offer.slot ELSE slot ]
    <3>1. flows' = [ flows EXCEPT ![f] = flow ] /\ flow.key = KeyOf(offer)
      BY <1>5 DEF ClickFinal
    <3> HIDE DEF flow
    <3> QED
      BY <2>1, <3>1 DEF GuestTyped, FlowsTyped
  <2>4. \A g \in Flows : flows[g] # Idle => flows[g].op # "chat" /\ flows[g].key = NoKey
    BY <2>1 DEF OneAction, GuestTyped, FlowsTyped, KeyedByChat
  <2> QED
    BY <1>1, <1>2, <2>1, <2>2, <2>3, <2>4 DEF OneAction, Awaits, Others
<1> QED
  BY <1>3, <1>4, <1>5

\* Nothing has come of the action of a flow that is not served.
LEMMA NothingYet ==
    ASSUME GuestTyped, OnceInv, NEW f \in Flows, flows[f] # Idle, flows[f].key # NoKey,
           flows[f].step \notin { "made", "lists" }
    PROVE  /\ flows[f].op = "chat"
           /\ \A o \in Orders : ~OrderFrom(o, flows[f].key)
           /\ \A t \in Tables : ~TableFrom(t, flows[f].key)
           /\ \A s \in strays : s.from # flows[f].key
<1>1. flows[f].op = "chat"
  BY DEF GuestTyped, FlowsTyped, KeyedByChat
<1>2. /\ flows[f].key \notin completed
      /\ \A g \in Flows : Awaits(g, flows[f].key) => g = f
  BY <1>1 DEF OnceInv, OneAction
<1>3. ~Taken(flows[f].key)
  BY <1>2 DEF Taken, Served
<1> QED
  BY <1>1, <1>2, <1>3
  DEF OnceInv, RowsOnce, OrdersTaken, TablesTaken, StraysAlone, OrderFrom, TableFrom

LEMMA NothingNew ==
    ASSUME UNCHANGED << tables, orders >>
    PROVE  NoNewOrder /\ NoNewTable /\ RowsKept
  BY RowsSame DEF NoNewOrder, NoNewTable, Ordered, Booked

LEMMA OnceServed ==
    ASSUME ServicesTyped, OnceInv, RowsKept, NEW f \in Flows,
           \/ \E o \in Orders : HandleOrder(f, o)
           \/ LookAtSlot(f)
           \/ \E t \in Tables : HandleTable(f, t)
    PROVE  OnceInv'
<1> USE DEF ServicesTyped
<1>1. PICK step \in { "made", "insert" } :
        /\ flows[f] # Idle /\ flows[f].step \in { "create", "insert" }
        /\ StepTo(f, step)
        /\ LookAtSlot(f) \/ step = "made"
  BY DEF HandleOrder, LookAtSlot, HandleTable, Runs
<1>2. /\ flows'[f] # Idle /\ flows'[f].step = step /\ flows'[f].op = flows[f].op
      /\ flows'[f].key = flows[f].key /\ Others(f)
  BY <1>1, Stepped DEF GuestTyped, Steps, Others
<1>3. UNCHANGED << busy, completed, strays >>
  BY DEF HandleOrder, LookAtSlot, HandleTable, pageVars
<1>4. OneAction' /\ TakenKept
  BY <1>1, <1>2, <1>3, OnceMoved DEF OnceInv, Promises
<1>5. flows[f].key \in Origins
  BY <1>1, ConciergeAssumption DEF GuestTyped, FlowsTyped, Flow
<1>6. ASSUME NEW o \in Orders, HandleOrder(f, o) PROVE OnceInv'
  <2>1. InsertOrder(o, flows[f].key) /\ UNCHANGED tables /\ step = "made"
    BY <1>1, <1>6 DEF HandleOrder, LookAtSlot
  <2>2. PICK key \in Origins : key = flows[f].key
    BY <1>5
  <2>3. key # NoKey => Taken(key)'
    BY <1>2, <2>1, <2>2 DEF Taken, Served, Awaits
  <2> QED
    BY <1>1, <1>3, <1>4, <2>1, <2>2, <2>3, NothingYet, OrderOnce DEF OnceInv
<1>7. ASSUME NEW t \in Tables, HandleTable(f, t) PROVE OnceInv'
  <2>1. InsertTable(t, flows[f].slot, flows[f].key) /\ UNCHANGED orders
    BY <1>7 DEF HandleTable
  <2>2. step = "made"
    BY <1>1, <1>7 DEF HandleTable, LookAtSlot, Runs
  <2>3. PICK key \in Origins : key = flows[f].key
    BY <1>5
  <2>4. key # NoKey => Taken(key)'
    BY <1>2, <2>2, <2>3 DEF Taken, Served, Awaits
  <2>5. PICK at \in Slots : at = flows[f].slot
    BY <1>1 DEF GuestTyped, FlowsTyped, Flow
  <2> QED
    BY <1>1, <1>3, <1>4, <2>1, <2>3, <2>4, <2>5, NothingYet, TableOnce DEF OnceInv
<1>8. CASE LookAtSlot(f)
  <2>1. NoNewOrder /\ NoNewTable
    BY <1>8, NothingNew DEF LookAtSlot, inStayVars
  <2> QED
    BY <1>3, <1>4, <2>1, OnceKept DEF OnceInv
<1> QED
  BY <1>6, <1>7, <1>8

\* A request fails; the backend may go on with it.
LEMMA OnceGivenUp ==
    ASSUME ServicesTyped, OnceInv, RowsKept, NEW f \in Flows,
           Refused(f) \/ \E reached \in BOOLEAN : Lost(f, reached)
    PROVE  OnceInv'
<1> USE DEF ServicesTyped
<1>1. PICK check \in { "checkLost", "checkRefused" } : GivenUp(f, check)
  BY DEF Refused, Lost
<1>2. flows[f] # Idle /\ flows[f].step \in { "create", "insert", "made" }
  BY DEF Refused, Lost, Runs
<1>3. flows[f].key # NoKey <=> flows[f].op = "chat"
  BY <1>2 DEF GuestTyped, FlowsTyped, KeyedByChat
<1>4. OneAction' /\ TakenKept
  <2>1. CASE flows[f].op = "table"
    <3>1. StepTo(f, check) /\ UNCHANGED << busy, completed >>
      BY <1>1, <2>1 DEF GivenUp
    <3>2. ~Promises(f)
      BY <1>3, <2>1, ConciergeAssumption DEF Promises
    <3> QED
      BY <1>2, <3>1, <3>2, Stepped, OnceMoved DEF OnceInv, GuestTyped, Steps, Others
  <2>2. CASE flows[f].op # "table"
    <3>1. /\ Ends(f)
          /\ busy' = BusyThen(f, FALSE) /\ completed' = Completed(f, FALSE)
      BY <1>1, <2>2 DEF GivenUp
    <3> QED
      BY <1>2, <3>1, Ended, OnceEnded DEF OnceInv, GuestTyped, Others
  <2> QED
    BY <2>1, <2>2
<1>5. NoNewOrder /\ NoNewTable
  BY <1>1, NothingNew DEF GivenUp, inStayVars
<1>6. CASE strays' \subseteq strays
  BY <1>4, <1>5, <1>6, OnceKept DEF OnceInv
<1>7. ASSUME NEW stray, strays' = strays \cup {stray}, stray.from = flows[f].key,
             flows[f].step \in { "create", "insert" }
      PROVE  OnceInv'
  <2>1. OrdersTaken' /\ TablesTaken' /\ OfferIsTakenOnce'
    BY <1>4, <1>5, OnceOfOrders, OnceOfTables
    DEF OnceInv, RowsOnce, RowsKept, OfferIsTakenOnce, Ordered, Booked
  <2>2. StraysAlone'
    <3> SUFFICES ASSUME NEW s \in strays', s.from # NoKey
                 PROVE  /\ s.from \in completed'
                        /\ \A o \in Orders : ~OrderFrom(o, s.from)'
                        /\ \A t \in Tables : ~TableFrom(t, s.from)'
                        /\ \A r \in strays' : r.from = s.from => r = s
      BY DEF StraysAlone, OrderFrom, TableFrom, Ordered, Booked
    <3>1. UNCHANGED << orders, tables >>
      BY <1>1 DEF GivenUp, inStayVars
    <3>2. flows[f].key # NoKey =>
            /\ flows[f].key \in completed'
            /\ \A o \in Orders : ~OrderFrom(o, flows[f].key)
            /\ \A t \in Tables : ~TableFrom(t, flows[f].key)
            /\ \A r \in strays : r.from # flows[f].key
      BY <1>1, <1>2, <1>3, <1>7, NothingYet DEF GivenUp, Completed
    <3>3. CASE s = stray
      BY <1>7, <3>1, <3>2, <3>3 DEF OrderFrom, TableFrom, Ordered, Booked
    <3>4. CASE s # stray
      <4>1. s \in strays /\ s.from # flows[f].key
        BY <1>7, <3>2, <3>4
      <4> QED
        BY <1>4, <1>7, <3>1, <4>1
        DEF OnceInv, RowsOnce, StraysAlone, TakenKept, OrderFrom, TableFrom, Ordered, Booked
    <3> QED
      BY <3>3, <3>4
  <2> QED
    BY <1>4, <2>1, <2>2 DEF OnceInv, RowsOnce
<1>8. CASE Refused(f)
  BY <1>6, <1>8 DEF Refused
<1>9. ASSUME NEW reached \in BOOLEAN, Lost(f, reached) PROVE OnceInv'
  <2>1. CASE reached
    <3> DEFINE stray == [ table |-> MakesTable(f), slot |-> flows[f].slot,
                          from |-> flows[f].key, step |-> flows[f].step ]
    <3>1. strays' = strays \cup {stray} /\ flows[f].step \in { "create", "insert" }
      BY <1>9, <2>1 DEF Lost, Runs
    <3>2. stray.from = flows[f].key
      OBVIOUS
    <3> HIDE DEF stray
    <3> QED
      BY <1>7, <3>1, <3>2
  <2>2. CASE ~reached
    BY <1>6, <1>9, <2>2 DEF Lost
  <2> QED
    BY <2>1, <2>2
<1> QED
  BY <1>8, <1>9

\* An answer or the end of a flow: the rows and the requests are as they were.
LEMMA OnceAnswered ==
    ASSUME ServicesTyped, OnceInv, NEW f \in Flows,
           Made(f) \/ CheckFound(f) \/ CheckMissed(f) \/ ListsArrive(f)
    PROVE  OnceInv'
<1> USE DEF ServicesTyped
<1>1. flows[f] # Idle /\ flows[f] \in Flow /\ DOMAIN flows = Flows
  BY DEF Made, CheckFound, CheckMissed, ListsArrive, Checks, Runs, GuestTyped, FlowsTyped
<1>2. CASE Made(f)
  <2>1. StepTo(f, "lists") /\ UNCHANGED << busy, completed >>
    BY <1>2 DEF Made
  <2>2. OneAction' /\ TakenKept
    BY <1>1, <2>1, Stepped, OnceMoved DEF OnceInv, GuestTyped, Steps, Others
  <2> QED
    BY <1>2, <2>2, NothingNew, OnceKept DEF OnceInv, Made, inStayVars
<1>3. CASE CheckFound(f) \/ CheckMissed(f)
  <2>1. ~Promises(f) /\ UNCHANGED << busy, completed, strays, tables, orders >>
    BY <1>3 DEF CheckFound, CheckMissed, Checks, Runs, Promises, pageVars, inStayVars
  <2>2. CASE Ends(f)
    <3>1. OneAction' /\ TakenKept
      BY <1>1, <2>1, <2>2, Ended, OnceEnded DEF OnceInv, GuestTyped, Others
    <3> QED
      BY <2>1, <3>1, NothingNew, OnceKept DEF OnceInv
  <2>3. CASE flows' = [ flows EXCEPT ![f].step = "create", ![f].attempt = 2 ]
    <3> DEFINE flow == [ flows[f] EXCEPT !.step = "create", !.attempt = 2 ]
    <3>1. flow \in Flow /\ flow.key = flows[f].key /\ flow.op = flows[f].op
      BY <1>1 DEF Flow, Steps
    <3>2. flows' = [ flows EXCEPT ![f] = flow ] /\ flow # Idle
      BY <1>1, <2>3, <3>1, ConciergeAssumption
    <3> HIDE DEF flow
    <3>3. OneAction' /\ TakenKept
      BY <1>1, <2>1, <3>1, <3>2, OnceMoved DEF OnceInv, Others
    <3> QED
      BY <2>1, <3>3, NothingNew, OnceKept DEF OnceInv
  <2> QED
    BY <1>3, <2>2, <2>3 DEF CheckFound, CheckMissed
<1>4. CASE ListsArrive(f)
  <2>1. Ends(f) /\ busy' = BusyThen(f, TRUE) /\ completed' = Completed(f, TRUE)
    BY <1>4 DEF ListsArrive
  <2>2. OneAction' /\ TakenKept
    BY <1>1, <2>1, Ended, OnceEnded DEF OnceInv, GuestTyped, Others
  <2> QED
    BY <1>4, <2>2, NothingNew, OnceKept DEF OnceInv, ListsArrive, inStayVars
<1> QED
  BY <1>2, <1>3, <1>4

LEMMA OnceAlone ==
    ASSUME OneAction, UNCHANGED << flows, busy, completed >>
    PROVE  OneAction' /\ TakenKept
  BY DEF OneAction, TakenKept, Awaits, Served

\* The request that goes on without the page.
LEMMA OnceStray ==
    ASSUME ServicesTyped, OnceInv, NEW s \in strays, HandleStray(s)
    PROVE  OnceInv'
<1> USE DEF ServicesTyped
<1>1. s \in Stray /\ s.slot \in Slots /\ s.from \in Origins
        /\ UNCHANGED << flows, busy, completed >>
  BY StrayKinds DEF pageVars
<1>2. OneAction' /\ TakenKept
  BY <1>1, OnceAlone DEF OnceInv
<1>3. s.from # NoKey =>
        /\ s.from \in completed
        /\ \A o \in Orders : ~OrderFrom(o, s.from)
        /\ \A t \in Tables : ~TableFrom(t, s.from)
        /\ \A r \in strays \ {s} : r.from # s.from
  BY DEF OnceInv, RowsOnce, StraysAlone
<1>4. PICK key \in Origins : key = s.from
  BY <1>1
<1>5. key # NoKey => Taken(key)'
  BY <1>1, <1>3, <1>4 DEF Taken
<1>6. ASSUME NEW t \in Tables, InsertTable(t, s.slot, s.from), strays' = strays \ {s},
             UNCHANGED orders
      PROVE  OnceInv'
  BY <1>1, <1>2, <1>3, <1>4, <1>5, <1>6, TableOnce DEF OnceInv
<1>7. ASSUME NEW o \in Orders, InsertOrder(o, s.from), strays' = strays \ {s},
             UNCHANGED tables
      PROVE  OnceInv'
  BY <1>1, <1>2, <1>3, <1>4, <1>5, <1>7, OrderOnce DEF OnceInv
<1>8. ASSUME strays' \subseteq strays, UNCHANGED << tables, orders >> PROVE OnceInv'
  BY <1>2, <1>8, NothingNew, OnceKept DEF OnceInv
<1>9. ASSUME strays' = (strays \ {s}) \cup { [ s EXCEPT !.step = "insert" ] },
             UNCHANGED << tables, orders >>
      PROVE  OnceInv'
  <2> DEFINE next == [ s EXCEPT !.step = "insert" ]
  <2>1. next.from = s.from
    BY <1>1 DEF Stray
  <2>2. strays' = (strays \ {s}) \cup {next}
    BY <1>9
  <2> HIDE DEF next
  <2>3. OrdersTaken' /\ TablesTaken' /\ OfferIsTakenOnce'
    BY <1>2, <1>9, NothingNew, OnceOfOrders, OnceOfTables
    DEF OnceInv, RowsOnce, RowsKept, OfferIsTakenOnce, Ordered, Booked
  <2>4. StraysAlone'
    BY <1>1, <1>3, <1>9, <2>1, <2>2
    DEF OnceInv, RowsOnce, StraysAlone, OrderFrom, TableFrom, Ordered, Booked
  <2> QED
    BY <1>2, <2>3, <2>4 DEF OnceInv, RowsOnce
<1> QED
  BY <1>6, <1>7, <1>8, <1>9, StrayKinds

LEMMA OnceOfPage ==
    ASSUME ServicesTyped, OnceInv, RowsKept, ConciergeNext
    PROVE  OnceInv'
<1> USE DEF ServicesTyped
<1>1. ASSUME OneAction', TakenKept, UNCHANGED << tables, orders, strays >> PROVE OnceInv'
  BY <1>1, NothingNew, OnceKept DEF OnceInv
<1>2. ASSUME NEW f \in Flows,
             \/ PressRefresh(f) \/ PressOrder(f) \/ PressTable(f)
             \/ \E offer \in Offers : ClickFinal(f, offer)
      PROVE  OnceInv'
  BY <1>1, <1>2, OncePressed, PressTyped DEF OnceInv, inStayVars
<1>3. ASSUME NEW offer \in Offers, ClickEmpty(offer) PROVE OnceInv'
  <2>1. busy = NoKey /\ busy' = busy /\ completed \subseteq completed'
          /\ UNCHANGED << flows, tables, orders, strays >>
    BY <1>3 DEF ClickEmpty, ActionEnabled, inStayVars
  <2>2. OneAction' /\ TakenKept
    BY <2>1 DEF OnceInv, OneAction, TakenKept, Awaits, Served
  <2> QED
    BY <1>1, <2>1, <2>2
<1>4. ASSUME \/ Ask \/ Replies
             \/ \E offer \in Offers : ClickLocal(offer)
             \/ \E n \in {0, 1} : SetDraft(n)
             \/ \E s \in Slots : SetSlot(s)
      PROVE  OnceInv'
  <2>1. UNCHANGED << flows, busy, completed, tables, orders, strays >>
    BY <1>4
    DEF Ask, Replies, Reply, ClickLocal, SetDraft, SetSlot, inStayVars, pageVars
  <2> QED
    BY <1>1, <2>1, OnceAlone DEF OnceInv
<1>5. CASE Staff
  <2>1. UNCHANGED << flows, busy, completed, strays, orders >>
    BY <1>5 DEF Staff, conciergeVars, pageVars
  <2>2. NoNewTable /\ NoNewOrder
    <3>1. tables' = tables \/ \E p \in patches : CommitPatch(p)
      BY <1>5 DEF Staff
    <3>2. NoNewTable
      BY <3>1, PatchCommitted DEF NoNewTable, PatchesBooked, Booked
    <3> QED
      BY <2>1, <3>2 DEF NoNewOrder, Ordered
  <2> QED
    BY <2>1, <2>2, OnceAlone, OnceKept DEF OnceInv
<1> QED
  BY <1>2, <1>3, <1>4, <1>5, OnceServed, OnceGivenUp, OnceAnswered, OnceStray
  DEF ConciergeNext, FlowAnswers

\* The desk changes statuses, and other guests ask for themselves.
LEMMA OnceOfDesk ==
    ASSUME ServicesTyped, OnceInv, RowsKept, DiningNext \/ KitchenNext,
           UNCHANGED conciergeVars
    PROVE  OnceInv'
<1> USE DEF ServicesTyped
<1>1. UNCHANGED << flows, busy, completed, strays >>
  BY DEF conciergeVars, pageVars
<1>2. OneAction' /\ TakenKept
  BY <1>1, OnceAlone DEF OnceInv
<1>3. ASSUME NoNewOrder, NoNewTable PROVE OnceInv'
  BY <1>1, <1>2, <1>3, OnceKept DEF OnceInv
<1>4. ASSUME UNCHANGED << tables, orders >> PROVE OnceInv'
  BY <1>3, <1>4, NothingNew
<1>5. ASSUME NEW k \in Tasks,
             \/ \E t \in Tables : PressStep(k, t)
             \/ \E filter \in { "all", "submitted" } : SetFilter(k, filter)
             \/ PressReload(k)
             \/ \E o \in Orders : PressOrderStep(k, o)
             \/ \E d \in Dishes : PressToggle(k, d) \/ PressCreate(k, d)
             \/ SaveEdit(k)
      PROVE  OnceInv'
  BY <1>4, <1>5, DeskPressTyped DEF inStayVars
<1>6. ASSUME NEW k \in Tasks, Answers(k) PROVE OnceInv'
  BY <1>4, <1>6, DeskAnswersTyped DEF inStayVars
<1>7. ASSUME (\E d \in Dishes : BeginEdit(d)) \/ ChangeEdit PROVE OnceInv'
  BY <1>4, <1>7, EditTyped DEF inStayVars
<1>8. ASSUME NEW k \in Tasks, ServeRead(k) \/ ServeDish(k) PROVE OnceInv'
  BY <1>4, <1>8 DEF ServeRead, ServeDish
<1>9. ASSUME NEW k \in Tasks, ServeWrite(k) PROVE OnceInv'
  <2>1. PICK p \in patches : CommitPatch(p)
    BY <1>9 DEF ServeWrite
  <2>2. NoNewTable
    BY <2>1, PatchCommitted DEF NoNewTable, PatchesBooked, Booked
  <2>3. NoNewOrder
    BY <1>9 DEF ServeWrite, NoNewOrder, Ordered
  <2> QED
    BY <1>3, <2>2, <2>3
<1>10. ASSUME NEW k \in Tasks, ServeOrder(k) PROVE OnceInv'
  <2>1. tasks[k].id \in Orders /\ tasks[k].to \in OrderStatus
    BY <1>10 DEF ServeOrder, At, DeskTyped, TasksOfKind
  <2>2. NoNewOrder
    BY <1>10, <2>1, OrderSet DEF ServeOrder, NoNewOrder
  <2>3. NoNewTable
    BY <1>10 DEF ServeOrder, NoNewTable, Booked
  <2> QED
    BY <1>3, <2>2, <2>3
<1>11. CASE GuestBooks
  BY <1>1, <1>2, <1>11, InStayAssumption, TableOnce DEF GuestBooks, OnceInv
<1>12. CASE GuestOrders
  BY <1>1, <1>2, <1>12, InStayAssumption, OrderOnce DEF GuestOrders, OnceInv
<1> QED
  BY <1>5, <1>6, <1>7, <1>8, <1>9, <1>10, <1>11, <1>12 DEF DiningNext, KitchenNext

\* What the chat of the in-stay page offered is asked for once, however often it is
\* pressed, whatever is lost, and although the backend may go on with a request that
\* the page has given up (handleConciergeAction of InStayConcierge.tsx with its
\* busyActionKey and completedActionKeys).
THEOREM OfferIsAlwaysTakenOnce == ConsolesSpec => []OfferIsTakenOnce
<1>1. ConsolesInit => OnceInv
  BY DEF ConsolesInit, InStayInit, ConciergeInit, OnceInv, OneAction, RowsOnce,
         OrdersTaken, TablesTaken, StraysAlone, OfferIsTakenOnce, Ordered, Booked
<1>2. ServicesTyped /\ OnceInv /\ [ConsolesNext]_consoleVars => OnceInv'
  <2> SUFFICES ASSUME ServicesTyped, OnceInv, [ConsolesNext]_consoleVars PROVE OnceInv'
    OBVIOUS
  <2>1. RowsKept
    BY ServicesTypedStep
  <2>2. CASE UNCHANGED serviceVars
    <3>1. UNCHANGED << tables, orders, flows, strays, busy, completed >>
      BY <2>2 DEF serviceVars, inStayVars, conciergeVars, pageVars
    <3> QED
      BY <3>1, NothingNew, OnceAlone, OnceKept DEF OnceInv, ServicesTyped
  <2> QED
    BY <2>1, <2>2, ServiceSteps, OnceOfPage, OnceOfDesk
<1>3. OnceInv => OfferIsTakenOnce
  BY DEF OnceInv, RowsOnce
<1> QED
  BY <1>1, <1>2, <1>3, ServicesAlwaysTyped, PTL DEF ConsolesSpec

=============================================================================
