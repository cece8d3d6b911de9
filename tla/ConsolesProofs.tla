---------------------------- MODULE ConsolesProofs ----------------------------
(***************************************************************************)
(* Theorems about Consoles, for any number of rows, listings, rooms, and   *)
(* of flows, handlers and turns that are under way at once.  A step of     *)
(* Consoles is a step of one page; what is proved of a page rests on its   *)
(* own steps only.  The last part is the types of the editor, of the chat, *)
(* of the search and of the desk.                                          *)
(***************************************************************************)
EXTENDS InStayProofs

\* A step of Consoles, as a page sees it.
LEMMA ChatSteps ==
    ASSUME [ConsolesNext]_consoleVars
    PROVE  ChatNext \/ UNCHANGED chatVars
  BY DEF ConsolesNext, consoleVars

LEMMA EditorSteps ==
    ASSUME [ConsolesNext]_consoleVars
    PROVE  ListingsNext \/ CalendarNext \/ UNCHANGED editorVars
  BY DEF ConsolesNext, consoleVars

LEMMA SearchSteps ==
    ASSUME [ConsolesNext]_consoleVars
    PROVE  StaySearchNext \/ UNCHANGED searchVars
  BY DEF ConsolesNext, consoleVars

----------------------------------------------------------------------------
\* The chat that books

\* A target is of a room that is offered.
IsTarget(t) == t = NoTarget \/ t.offer \in Rooms

\* A payment is of a reservation that was made for its room.
IsMade(p) == p = NoPay \/ (p.id \in Bookings /\ p.offer \in Rooms /\ made[p.id] = p.offer)

TargetsKnown ==
    /\ IsTarget(bookingDraft) /\ IsTarget(pending) /\ IsTarget(session)
    /\ other # NoMemory =>
         IsTarget(other.draft) /\ IsTarget(other.pending) /\ IsTarget(other.session)
    /\ DOMAIN turns = Turns
    /\ \A k \in Turns : turns[k] # NoTurn => IsTarget(turns[k].draft)
    /\ creating # NoPay => creating.draft.offer \in Rooms

PaymentsMade ==
    /\ IsMade(pay) /\ IsMade(redirect)
    /\ other # NoMemory => IsMade(other.pay)
    /\ creating # NoPay =>
         /\ IsMade(creating.pay)
         /\ creating.pay # NoPay => creating.pay.offer = creating.draft.offer

ChatInv ==
    /\ made \in [ Bookings -> Rooms \cup {NoTarget} ]
    /\ TargetsKnown /\ PaymentsMade

LEMMA Collected ==
    ASSUME TargetsKnown, NEW offer \in Rooms, NEW has, Collects(offer, has)
    PROVE  IsTarget(bookingDraft)' /\ IsTarget(pending)'
  BY DEF TargetsKnown, IsTarget, Collects

LEMMA ChatAtFirst == ChatInit => ChatInv
  BY DEF ChatInit, ChatInv, TargetsKnown, PaymentsMade, IsTarget, IsMade

\* What is collected and drafted.
LEMMA CollectStep ==
    ASSUME ChatInv,
           \/ \E offer \in Rooms, has \in SUBSET Needed : PressBook(offer, has)
           \/ PickDates
           \/ \E has \in SUBSET Needed : WriteMissing(has)
           \/ \E offer \in Rooms : BookByWords(offer)
    PROVE  ChatInv'
<1>1. IsTarget(bookingDraft)' /\ IsTarget(pending)'
  BY Collected
  DEF ChatInv, TargetsKnown, IsTarget, PressBook, PickDates, DatesAreAsked,
      WriteMissing, BookByWords
<1>2. UNCHANGED << pay, redirect, creating, turns, backVars, other >>
  BY DEF PressBook, PickDates, WriteMissing, BookByWords, waitVars
<1> QED
  BY <1>1, <1>2
  DEF ChatInv, TargetsKnown, PaymentsMade, IsTarget, IsMade, backVars

\* The turns.
LEMMA TurnStep ==
    ASSUME ChatInv, NEW k \in Turns, Write(k) \/ PressChip(k) \/ TurnSteps(k)
    PROVE  ChatInv'
<1>1. IsTarget(Effective(k)) \/ turns[k] = NoTurn
  BY DEF ChatInv, TargetsKnown, IsTarget, Effective
<1>2. CASE Write(k) \/ PressChip(k)
  <2>1. turns' = [ turns EXCEPT ![k] =
          [ draft |-> bookingDraft, pay |-> pay, step |-> turns'[k].step ] ]
    BY <1>2 DEF Write, PressChip, Sends, ChatInv, TargetsKnown
  <2>2. UNCHANGED << knownVars, redirect, creating, backVars, other >>
    BY <1>2 DEF Write, PressChip
  <2> QED
    BY <2>1, <2>2
    DEF ChatInv, TargetsKnown, PaymentsMade, IsTarget, IsMade, backVars, knownVars
<1>3. CASE (\E r \in ChatReply : Handled(k, r)) \/ OrdersService(k) \/ HandlingFails(k)
  <2>1. turns' = [ turns EXCEPT ![k] = NoTurn ]
    BY <1>3 DEF Handled, OrdersService, HandlingFails, TurnOver
  <2>2. UNCHANGED << bookingDraft, pending, pay, redirect, creating, session, made, other >>
    BY <1>3 DEF Handled, OrdersService, HandlingFails, backVars, knownVars
  <2> QED
    BY <2>1, <2>2 DEF ChatInv, TargetsKnown, PaymentsMade, IsTarget, IsMade
<1>4. CASE AsksServer(k)
  <2>1. /\ turns[k] # NoTurn
        /\ turns' = [ turns EXCEPT ![k].step = "ask" ]
        /\ UNCHANGED << bookingDraft, pending, pay, redirect, creating, session, made,
                        other >>
    BY <1>4 DEF AsksServer, Has, backVars, knownVars
  <2>2. IsTarget(turns[k].draft) /\ DOMAIN turns = Turns
    BY <2>1 DEF ChatInv, TargetsKnown
  <2>3. DOMAIN turns' = Turns /\ turns'[k].draft \in { turns[k].draft }
    BY <2>1, <2>2
  <2> QED
    BY <2>1, <2>2, <2>3
    DEF ChatInv, TargetsKnown, PaymentsMade, IsTarget, IsMade
<1>5. CASE \E ok \in BOOLEAN, r \in ChatReply : TurnEnds(k, ok, r)
  <2>1. /\ turns[k] # NoTurn /\ turns' = [ turns EXCEPT ![k] = NoTurn ]
        /\ bookingDraft' \in { bookingDraft, Effective(k) }
        /\ session' \in { session, Effective(k) }
        /\ UNCHANGED << pending, pay, redirect, creating, made, other >>
    BY <1>5 DEF TurnEnds, Has, TurnOver, SessionAnswers, Offline
  <2> QED
    BY <1>1, <2>1 DEF ChatInv, TargetsKnown, PaymentsMade, IsTarget, IsMade
<1> QED
  BY <1>2, <1>3, <1>4, <1>5 DEF TurnSteps

\* The reservation.
LEMMA CreateStep ==
    ASSUME ChatInv, PressCreateBooking \/ CreateSteps
    PROVE  ChatInv'
<1>1. CASE PressCreateBooking
  BY <1>1
  DEF PressCreateBooking, ChatInv, TargetsKnown, PaymentsMade, IsTarget, IsMade,
      knownVars, backVars
<1>2. ASSUME NEW id \in Bookings, MakeReservation(id) PROVE ChatInv'
  <2> DEFINE room == creating.draft.offer
  <2>1. /\ room \in Rooms /\ made[id] = NoTarget /\ creating # NoPay
        /\ made' = [ made EXCEPT ![id] = room ]
        /\ creating' = [ creating EXCEPT !.pay = [ id |-> id, offer |-> room ] ]
        /\ UNCHANGED << bookingDraft, pending, pay, redirect, turns, session, other >>
    BY <1>2 DEF MakeReservation, Waiting, ChatInv, TargetsKnown, knownVars
  <2>2. /\ made' \in [ Bookings -> Rooms \cup {NoTarget} ] /\ made'[id] = room
        /\ \A i \in Bookings : made[i] # NoTarget => made'[i] = made[i]
    BY <2>1 DEF ChatInv
  <2> QED
    BY <2>1, <2>2, ChatAssumption
    DEF ChatInv, TargetsKnown, PaymentsMade, IsTarget, IsMade
<1>3. CASE Created
  <2> DEFINE p == [ id |-> creating.pay.id, offer |-> creating.draft.offer ]
  <2>1. /\ pay' = p /\ redirect' = p /\ creating' = NoPay /\ bookingDraft' = NoTarget
        /\ UNCHANGED << pending, turns, session, made, other >>
    BY <1>3 DEF Created, PaidAsPressed, backVars
  <2>2. p.id \in Bookings /\ p.offer \in Rooms /\ made[p.id] = p.offer
    BY <1>3 DEF Created, Waiting, ChatInv, TargetsKnown, PaymentsMade, IsMade
  <2> HIDE DEF p
  <2> QED
    BY <2>1, <2>2 DEF ChatInv, TargetsKnown, PaymentsMade, IsTarget, IsMade
<1>4. CASE CreateFails
  BY <1>4
  DEF CreateFails, ChatInv, TargetsKnown, PaymentsMade, IsTarget, IsMade, knownVars,
      backVars
<1> QED
  BY <1>1, <1>2, <1>3, <1>4 DEF CreateSteps

LEMMA ChatStep ==
    ASSUME ChatInv, ChatNext \/ UNCHANGED chatVars
    PROVE  ChatInv'
<1>1. CASE WriteField \/ TypeField \/ \E has \in SUBSET Needed : PressNext(has)
  <2>1. UNCHANGED << knownVars, waitVars, backVars, other >>
    BY <1>1 DEF WriteField, TypeField, PressNext
  <2> QED
    BY <2>1
    DEF ChatInv, TargetsKnown, PaymentsMade, IsTarget, IsMade, knownVars, waitVars,
        backVars
<1>5. CASE StayInChat
  BY <1>5
  DEF StayInChat, ChatInv, TargetsKnown, PaymentsMade, IsTarget, IsMade, knownVars,
      backVars
<1>6. CASE StartAnew
  BY <1>6
  DEF StartAnew, ChatInv, TargetsKnown, PaymentsMade, IsTarget, IsMade, waitVars
<1>2. ASSUME NEW has \in SUBSET Needed, Reopen(has) PROVE ChatInv'
  BY <1>2
  DEF Reopen, ChatInv, TargetsKnown, PaymentsMade, IsTarget, IsMade, knownVars, backVars
<1>3. CASE SwitchLanguage
  BY <1>3
  DEF SwitchLanguage, Saved, ChatInv, TargetsKnown, PaymentsMade, IsTarget, IsMade,
      knownVars, waitVars
<1>4. CASE UNCHANGED chatVars
  BY <1>4
  DEF ChatInv, TargetsKnown, PaymentsMade, IsTarget, IsMade, chatVars, knownVars,
      waitVars, backVars
<1> QED
  BY <1>1, <1>2, <1>3, <1>4, <1>5, <1>6, CollectStep, TurnStep, CreateStep DEF ChatNext

\* Whatever is drafted, forgotten, answered late or remembered in another
\* language while a reservation is being made: the payment that the chat shows,
\* goes to or remembers is of the room that its reservation was made for
\* (onCreateBooking of components/AIConcierge.tsx).
THEOREM PaymentIsAlwaysOfRoom == ConsolesSpec => []PaymentIsOfRoom
<1>1. ConsolesInit => ChatInv
  BY ChatAtFirst DEF ConsolesInit
<1>2. ChatInv /\ [ConsolesNext]_consoleVars => ChatInv'
  BY ChatSteps, ChatStep
<1>3. ChatInv => PaymentIsOfRoom
  BY DEF ChatInv, PaymentsMade, IsMade, PaymentIsOfRoom
<1> QED
  BY <1>1, <1>2, <1>3, PTL DEF ConsolesSpec

----------------------------------------------------------------------------
\* The partner's listings and their calendar

Choices == selectedIds \subseteq items /\ inStayListingId \in items \cup {0}

\* What is asked about is what is shown, and an answer counts nights it was asked for.
Counts ==
    /\ \A q \in asked : q.listing = Shown(editingId, items) /\ q.nights = dates
    /\ availability # NoAnswer =>
         /\ \A window \in availability.windows : window \subseteq availability.nights
         /\ ~waiting => availability.listing = Shown(editingId, items)
                          /\ availability.nights = dates

EditorInv == Choices /\ Counts
countVars == << editingId, items, dates, availability, waiting, asked >>

\* The effect of the section, run anew for the listing and the nights of the form.
LEMMA AskedAnew ==
    ASSUME Counts, NEW id, NEW nights, Asks(id, nights),
           id = Shown(editingId', items'), dates' = nights
    PROVE  Counts'
  BY DEF Counts, Asks, Cancelled, Shown

LEMMA Shut ==
    ASSUME Closed, editingId' = 0
    PROVE  Counts'
  BY DEF Counts, Closed, Cancelled

LEMMA Followed ==
    ASSUME Counts, NEW edited, NEW list, SectionFollows(edited, list),
           editingId' = edited, items' = list
    PROVE  Counts'
<1>1. CASE edited = 0
  BY <1>1, Shut DEF SectionFollows
<1>2. CASE edited # 0 /\ Shown(edited, list) = Shown(editingId, items)
  BY <1>2 DEF SectionFollows, Counts, Shown
<1>3. CASE edited # 0 /\ Shown(edited, list) # Shown(editingId, items)
  <2>1. Asks(Shown(edited, list), dates) /\ dates' = dates
    BY <1>3 DEF SectionFollows
  <2>2. Shown(edited, list) = Shown(editingId', items')
    OBVIOUS
  <2> QED
    BY <2>1, <2>2, AskedAnew
<1> QED
  BY <1>1, <1>2, <1>3

LEMMA CountsSame == Counts /\ UNCHANGED countVars => Counts'
  BY DEF Counts, countVars, Shown

LEMMA ChoicesSame == Choices /\ UNCHANGED listVars => Choices'
  BY DEF Choices, listVars

LEMMA FormStep ==
    ASSUME EditorInv, FormNext
    PROVE  EditorInv'
<1>1. ASSUME NEW id \in Listings, StartEdit(id) PROVE EditorInv'
  <2>1. editingId' = id /\ items' = items /\ SectionFollows(id, items)
    BY <1>1 DEF StartEdit, listVars
  <2> QED
    BY <1>1, <2>1, Followed, ChoicesSame DEF StartEdit, EditorInv
<1>2. CASE CancelEdit
  BY <1>2, Shut, ChoicesSame DEF CancelEdit, Reset, EditorInv
<1>3. ASSUME NEW id \in Listings, TypesArrive(id) \/ BlocksArrive(id) PROVE EditorInv'
  BY <1>3, CountsSame, ChoicesSame
  DEF TypesArrive, BlocksArrive, EditorInv, countVars, listVars, sectionVars
<1>4. ASSUME NEW q \in asked, NEW ok \in BOOLEAN, AvailabilityArrives(q, ok)
      PROVE  EditorInv'
  <2>1. /\ UNCHANGED << editingId, dates, items >> /\ asked' \subseteq asked
        /\ q.listing = Shown(editingId, items) /\ q.nights = dates
    BY <1>4 DEF AvailabilityArrives, EditorInv, Counts, listVars
  <2>2. \/ availability' = NoAnswer
        \/ \E window \in SUBSET q.nights :
             availability' = [ listing |-> q.listing, nights |-> q.nights,
                               windows |-> {window} ]
    BY <1>4 DEF AvailabilityArrives
  <2>3. Counts'
    BY <2>1, <2>2 DEF EditorInv, Counts, Shown
  <2> QED
    BY <1>4, <2>3, ChoicesSame DEF AvailabilityArrives, EditorInv
<1>5. ASSUME NEW j \in EditorJobs, Reload(j) \/ ServeList(j) \/ JobFails(j)
      PROVE  EditorInv'
  BY <1>5, CountsSame, ChoicesSame
  DEF Reload, Starts, ServeList, JobFails, EditorInv, countVars, listVars, sectionVars
<1>6. ASSUME NEW j \in EditorJobs, ListArrives(j) PROVE EditorInv'
  <2> DEFINE list == jobs[j].list
  <2>1. /\ items' = list /\ selectedIds' = selectedIds \cap list
        /\ inStayListingId' \in list \cup {0}
        /\ editingId' = editingId /\ SectionFollows(editingId, list)
    BY <1>6 DEF ListArrives, Kept
  <2> HIDE DEF list
  <2>2. Choices'
    BY <2>1 DEF Choices
  <2>3. Counts'
    BY <2>1, Followed DEF EditorInv
  <2> QED
    BY <2>2, <2>3 DEF EditorInv
<1> QED
  BY <1>1, <1>2, <1>3, <1>4, <1>5, <1>6 DEF FormNext

LEMMA ListingsStep ==
    ASSUME EditorInv, ListingsNext
    PROVE  EditorInv'
<1>1. ASSUME NEW id \in Listings, ToggleSelect(id) \/ PickInStay(id) PROVE EditorInv'
  BY <1>1, CountsSame
  DEF ToggleSelect, PickInStay, EditorInv, Choices, countVars, sectionVars
<1>2. ASSUME NEW filtered \in SUBSET Listings, SelectAll(filtered) PROVE EditorInv'
  BY <1>2, CountsSame DEF SelectAll, EditorInv, Choices, countVars, sectionVars
<1>3. ASSUME NEW j \in EditorJobs,
             \/ Submit(j) \/ Bulk(j) \/ \E id \in Listings : Delete(j, id)
             \/ Serve(j)
      PROVE  EditorInv'
  BY <1>3, CountsSame, ChoicesSame
  DEF Submit, Bulk, Delete, Serve, Starts, EditorInv, countVars, listVars, sectionVars
<1>4. ASSUME NEW j \in EditorJobs, EndList(j) PROVE EditorInv'
  <2>1. UNCHANGED listVars
    BY <1>4 DEF EndList
  <2>2. Reset \/ UNCHANGED << editingId, sectionVars >>
    BY <1>4 DEF EndList
  <2>3. Counts'
    BY <2>1, <2>2, Shut, CountsSame
    DEF Reset, EditorInv, countVars, listVars, sectionVars
  <2> QED
    BY <2>1, <2>3, ChoicesSame DEF EditorInv
<1> QED
  BY <1>1, <1>2, <1>3, <1>4, FormStep DEF ListingsNext

LEMMA CalendarStep ==
    ASSUME EditorInv, CalendarNext
    PROVE  EditorInv'
<1>1. ASSUME NEW nights \in Ranges, SetDates(nights) PROVE EditorInv'
  <2>1. /\ Asks(Shown(editingId, items), nights) /\ dates' = nights
        /\ Shown(editingId, items) = Shown(editingId', items')
    BY <1>1 DEF SetDates, listVars
  <2> QED
    BY <1>1, <2>1, AskedAnew, ChoicesSame DEF SetDates, EditorInv
<1>2. CASE RefreshCounts
  <2>1. /\ Asks(editingId, dates) /\ dates' = dates
        /\ editingId = Shown(editingId', items')
    BY <1>2 DEF RefreshCounts, Shown, listVars
  <2> QED
    BY <1>2, <2>1, AskedAnew, ChoicesSame DEF RefreshCounts, EditorInv
<1>3. ASSUME NEW choice, Choose(choice) PROVE EditorInv'
  BY <1>3, CountsSame, ChoicesSame DEF Choose, EditorInv, countVars, listVars
<1>4. ASSUME NEW j \in EditorJobs,
             \/ CreateBlock(j) \/ (\E b \in Blocks : DeleteBlock(j, b)) \/ CreateType(j)
             \/ \E op \in { "change", "drop" }, t \in Types : ChangeType(j, op, t)
             \/ ServeRow(j)
      PROVE  EditorInv'
  BY <1>4, CountsSame, ChoicesSame
  DEF CreateBlock, DeleteBlock, CreateType, ChangeType, ServeRow, Starts, EditorInv,
      countVars, listVars, sectionVars
<1>5. ASSUME NEW j \in EditorJobs, EndBlock(j) PROVE EditorInv'
  <2>1. /\ UNCHANGED << listVars, editingId, dates >>
        /\ \/ Asks(Shown(editingId, items), dates)
           \/ UNCHANGED << asked, availability, waiting >>
    BY <1>5 DEF EndBlock
  <2>2. Shown(editingId, items) = Shown(editingId', items')
    BY <2>1 DEF listVars
  <2>3. Counts'
    BY <2>1, <2>2, AskedAnew, CountsSame DEF EditorInv, countVars, listVars
  <2> QED
    BY <2>1, <2>3, ChoicesSame DEF EditorInv
<1>6. ASSUME NEW j \in EditorJobs, EndType(j) PROVE EditorInv'
  BY <1>6, CountsSame, ChoicesSame DEF EndType, EditorInv, countVars, listVars
<1> QED
  BY <1>1, <1>2, <1>3, <1>4, <1>5, <1>6, FormStep DEF CalendarNext

LEMMA EditorAlways == ConsolesSpec => []EditorInv
<1>1. ConsolesInit => EditorInv
  BY DEF ConsolesInit, ManagerEditorInit, EditorInv, Choices, Counts
<1>2. EditorInv /\ [ConsolesNext]_consoleVars => EditorInv'
  <2> SUFFICES ASSUME EditorInv, [ConsolesNext]_consoleVars PROVE EditorInv'
    OBVIOUS
  <2>1. CASE UNCHANGED editorVars
    BY <2>1, CountsSame, ChoicesSame
    DEF EditorInv, editorVars, countVars, listVars, sectionVars
  <2> QED
    BY <2>1, EditorSteps, ListingsStep, CalendarStep
<1> QED
  BY <1>1, <1>2, PTL DEF ConsolesSpec

\* However many loads of the list overlap with deletions and with each other,
\* what is selected for a bulk update, and what the service desk works on, is in
\* the list that the partner sees (loadListings of app/manager/page.tsx).
THEOREM ChoiceIsAlwaysListed == ConsolesSpec => []ChoiceIsListed
<1>1. EditorInv => ChoiceIsListed
  BY DEF EditorInv, Choices, ChoiceIsListed
<1> QED
  BY <1>1, EditorAlways, PTL

\* In whatever order counts are asked for and answered while the partner changes
\* the dates and the listing: at rest they are those of the form, and a block of
\* rooms is offered only on a count of all its nights
\* (ManagerAvailabilitySection.tsx).
THEOREM CountsAreAlwaysOfShown == ConsolesSpec => []CountsAreOfShown
<1>1. EditorInv => CountsAreOfShown
  BY DEF EditorInv, Counts, CountsAreOfShown, CanCreateBlock, CountShown, Fits
<1> QED
  BY <1>1, EditorAlways, PTL

----------------------------------------------------------------------------
\* The search for a stay

Places ==
    /\ place \in { "home", "stay", "missing" }
    /\ trip # NoTrip => trip.to \in { "home", "stay" }

LEMMA InputChanged ==
    ASSUME UntouchedIsSearch, UNCHANGED << place, search, party >>,
           touched' = touched \cup {"range"}
    PROVE  UntouchedIsSearch'
  BY DEF UntouchedIsSearch

LEMMA InputSame ==
    ASSUME UntouchedIsSearch, UNCHANGED << place, search, range, party, touched >>
    PROVE  UntouchedIsSearch'
  BY DEF UntouchedIsSearch

\* The page arrives: in place of another one it is filled, else it is filled anew
\* when what its address says has changed.
LEMMA ArrivalStep ==
    ASSUME Places, UntouchedIsSearch, NEW free, PageArrives(free)
    PROVE  UntouchedIsSearch'
<1>1. /\ place' = trip.to /\ search' = trip.search
  BY DEF PageArrives
<1>2. CASE ~SamePage(trip)
  <2>1. range' = PageRange(trip.to, trip.search) /\ party' = PageGuests(trip.to, trip.search)
    BY <1>2 DEF PageArrives
  <2>2. UntouchedIsSearch' = (place' # "missing" =>
          /\ "range" \notin touched' => range' = PageRange(place', search')
          /\ "guests" \notin touched' => party' = PageGuests(place', search'))
    BY DEF UntouchedIsSearch
  <2> QED
    BY <1>1, <2>1, <2>2
<1>3. CASE SamePage(trip) /\ Refilled(trip)
  <2>1. range' = PageRange(place, trip.search) /\ trip.to = place
    BY <1>3 DEF PageArrives, SamePage
  <2>2. party' = PageGuests(place, trip.search) \/ "guests" \in touched'
    BY <1>3, <2>1 DEF PageArrives, GuestsShown
  <2> QED
    BY <1>1, <2>1, <2>2 DEF UntouchedIsSearch
<1>4. CASE SamePage(trip) /\ ~Refilled(trip)
  <2>1. range' = range /\ touched' = touched /\ trip.to = place
    BY <1>4 DEF PageArrives, SamePage
  <2>2. PageRange(place, trip.search) = PageRange(place, search)
    BY <1>4 DEF Refilled
  <2>3. "guests" \notin touched /\ place # "missing" => party' = PageGuests(place, trip.search)
    <3>1. CASE place = "home"
      BY <1>4, <3>1 DEF PageArrives, GuestsShown
    <3>2. CASE place = "stay"
      BY <1>4, <3>2 DEF PageArrives, GuestsShown, Refilled, UntouchedIsSearch
    <3> QED
      BY <2>1, <3>1, <3>2 DEF Places, PageArrives
  <2> QED
    BY <1>1, <2>1, <2>2, <2>3 DEF UntouchedIsSearch
<1> QED
  BY <1>2, <1>3, <1>4

\* What the guest does to the dates and the guests.
LEMMA InputStep ==
    ASSUME Places, UntouchedIsSearch,
           \/ PickerNext
           \/ \E in \in Today + 1..LastDay - 1, nights \in { 2, 7 } : Shortcut(in, nights)
           \/ ClearCard
           \/ \E n \in 1..MaxGuests + 1 : SetGuests(n)
    PROVE  UntouchedIsSearch' /\ Places'
<1>1. ASSUME NEW r, Commits(r) PROVE UntouchedIsSearch' /\ Places'
  <2>1. UNCHANGED << place, search, party, trip >> /\ touched' = touched \cup {"range"}
    BY <1>1 DEF Commits
  <2> QED
    BY <2>1, InputChanged DEF Places
<1>2. ASSUME CloseCalendar \/ \E f : OpenCalendar(f) PROVE UntouchedIsSearch' /\ Places'
  <2>1. UNCHANGED << place, search, range, party, touched, trip >>
    BY <1>2 DEF CloseCalendar, OpenCalendar
  <2> QED
    BY <2>1, InputSame DEF Places
<1>3. CASE PickerNext
  BY <1>1, <1>2, <1>3 DEF PickerNext, PickDay, TypeDay, EraseDay, ClearDates, ApplyToday
<1>4. ASSUME NEW n, SetGuests(n) PROVE UntouchedIsSearch' /\ Places'
  BY <1>4 DEF SetGuests, UntouchedIsSearch, Places
<1> QED
  BY <1>1, <1>3, <1>4 DEF Shortcut, ClearCard

\* What starts a navigation leaves the input alone.
LEMMA DepartureStep ==
    ASSUME Places, UntouchedIsSearch,
           \E to \in { "home", "stay" } : \E s, soft : Goes(to, s, soft)
    PROVE  UntouchedIsSearch' /\ Places'
<1>1. PICK to \in { "home", "stay" } : \E s, soft : Goes(to, s, soft)
  OBVIOUS
<1>2. PICK s, soft : Goes(to, s, soft)
  BY <1>1
<1>3. UNCHANGED << place, search, range, party, touched >> /\ trip'.to = to
  BY <1>2 DEF Goes, inputVars
<1> QED
  BY <1>3, InputSame DEF Places

LEMMA SearchStep ==
    ASSUME Places, UntouchedIsSearch, StaySearchNext
    PROVE  UntouchedIsSearch' /\ Places'
<1>1. ASSUME \/ ShowRooms \/ SearchHome \/ OpenStay \/ GoHome
             \/ \E s \in Filtered : Filter(s)
             \/ \E to \in { "home", "stay" }, s \in Urls, soft \in BOOLEAN : Visit(to, s, soft)
      PROVE  UntouchedIsSearch' /\ Places'
  <2>1. \E to \in { "home", "stay" } : \E s, soft : Goes(to, s, soft)
    BY <1>1 DEF ShowRooms, SearchHome, OpenStay, GoHome, Filter, Visit
  <2> QED
    BY <2>1, DepartureStep
<1>2. ASSUME NEW free, PageArrives(free) PROVE UntouchedIsSearch' /\ Places'
  <2>1. Places'
    BY <1>2 DEF Places, PageArrives
  <2> QED
    BY <1>2, <2>1, ArrivalStep
<1>3. CASE NotFound
  BY <1>3 DEF NotFound, UntouchedIsSearch, Places
<1> QED
  BY <1>1, <1>2, <1>3, InputStep DEF StaySearchNext

\* However a page is reached, typed over and replaced, what the guest did not
\* change is what its address says (the effects of StayBookingCard.tsx and of
\* app/page.tsx that fill the input anew).
THEOREM UntouchedIsAlwaysSearch == ConsolesSpec => []UntouchedIsSearch
<1>1. ConsolesInit => UntouchedIsSearch /\ Places
  BY DEF ConsolesInit, StaySearchInit, UntouchedIsSearch, Places, PageRange, PageGuests
<1>2. UntouchedIsSearch /\ Places /\ [ConsolesNext]_consoleVars
        => UntouchedIsSearch' /\ Places'
  <2> SUFFICES ASSUME UntouchedIsSearch, Places, [ConsolesNext]_consoleVars
               PROVE  UntouchedIsSearch' /\ Places'
    OBVIOUS
  <2>1. CASE UNCHANGED searchVars
    BY <2>1, InputSame DEF searchVars, inputVars, Places
  <2> QED
    BY <2>1, SearchSteps, SearchStep
<1> QED
  BY <1>1, <1>2, PTL DEF ConsolesSpec

----------------------------------------------------------------------------
\* The scan for free rooms, as the page of a stay uses it
RoomFacts == INSTANCE RoomInventoryProofs WITH NoType <- NoTrip

----------------------------------------------------------------------------
\* The search: types, and the rooms that are offered

LEMMA RangesTyped ==
    ASSUME NEW s \in Search
    PROVE  /\ HeroRange(s) \in Range /\ HeroGuests(s) \in Nat /\ CardGuests(s) \in Nat
           /\ \A p : PageRange(p, s) \in Range /\ PageGuests(p, s) \in Nat
  BY SearchAssumption
  DEF Search, Range, HeroRange, HeroGuests, CardGuests, AtLeast, AtMost, Dates, Today,
      NoDay, PageRange, PageGuests

LEMMA SearchTypesAtFirst == StaySearchInit => SearchTypeOK
<1> SUFFICES ASSUME StaySearchInit PROVE SearchTypeOK
  OBVIOUS
<1>1. search \in Search
  BY SearchAssumption DEF StaySearchInit
<1>2. range \in Range /\ party \in Nat
  BY <1>1, RangesTyped DEF StaySearchInit
<1> QED
  BY <1>1, <1>2 DEF StaySearchInit, SearchTypeOK

\* The dates of the picker.
LEMMA CommitTyped ==
    ASSUME SearchTypeOK, NEW r \in Range, Commits(r),
           field' \in { "none", "checkIn", "checkOut" }
    PROVE  SearchTypeOK'
  BY DEF SearchTypeOK, Commits

LEMMA PickedDates ==
    ASSUME SearchTypeOK, NEW d \in Nat
    PROVE  /\ AutoOut(d) \in Nat
           /\ \A f : AppliedDate(f, d) \in Range
  BY SearchAssumption
  DEF SearchTypeOK, Range, AutoOut, AppliedDate, Dates, AutoNights, NoDay

LEMMA InputTyped ==
    ASSUME SearchTypeOK,
           \/ PickerNext \/ ClearCard
           \/ \E in \in Today + 1..LastDay - 1, nights \in { 2, 7 } : Shortcut(in, nights)
           \/ \E n \in 1..MaxGuests + 1 : SetGuests(n)
    PROVE  SearchTypeOK'
<1>1. ASSUME NEW f \in { "checkIn", "checkOut" }, NEW d \in Today..LastDay,
             TypeDay(f, d) \/ PickDay(d)
      PROVE  SearchTypeOK'
  <2>1. PICK g \in { f, field } : Commits(AppliedDate(g, d))
    BY <1>1 DEF TypeDay, PickDay
  <2>2. AppliedDate(g, d) \in Range
    BY PickedDates, SearchAssumption DEF Today
  <2>3. field' \in { "none", "checkIn", "checkOut" }
    BY <1>1 DEF TypeDay, PickDay, SearchTypeOK
  <2> QED
    BY <2>1, <2>2, <2>3, CommitTyped
<1>2. ASSUME NEW f \in { "checkIn", "checkOut" }, OpenCalendar(f) \/ CloseCalendar
      PROVE  SearchTypeOK'
  BY <1>2 DEF OpenCalendar, CloseCalendar, SearchTypeOK
<1>3. ASSUME NEW f \in { "checkIn", "checkOut" }, EraseDay(f) PROVE SearchTypeOK'
  <2>1. Dates(IF f = "checkIn" THEN NoDay ELSE range.in, NoDay) \in Range
    BY DEF Dates, Range, SearchTypeOK, NoDay
  <2> QED
    BY <1>3, <2>1, CommitTyped DEF EraseDay, SearchTypeOK
<1>4. CASE ClearDates \/ ClearCard
  <2>1. Dates(NoDay, NoDay) \in Range
    BY DEF Dates, Range, NoDay
  <2> QED
    BY <1>4, <2>1, CommitTyped DEF ClearDates, ClearCard, SearchTypeOK
<1>5. CASE ApplyToday
  <2>1. Dates(Today, AutoOut(Today)) \in Range
    BY PickedDates DEF Dates, Range, Today
  <2> QED
    BY <1>5, <2>1, CommitTyped DEF ApplyToday
<1>6. ASSUME NEW in \in Today + 1..LastDay - 1, NEW nights \in { 2, 7 }, Shortcut(in, nights)
      PROVE  SearchTypeOK'
  <2>1. Dates(in, AtMost(in + AtMost(MaxNights, nights), LastDay)) \in Range
    BY SearchAssumption DEF Dates, Range, AtMost, Today
  <2> QED
    BY <1>6, <2>1, CommitTyped DEF Shortcut, SearchTypeOK
<1>7. ASSUME NEW n \in 1..MaxGuests + 1, SetGuests(n) PROVE SearchTypeOK'
  BY <1>7, SearchAssumption DEF SetGuests, SearchTypeOK
<1> QED
  BY <1>1, <1>2, <1>3, <1>4, <1>5, <1>6, <1>7 DEF PickerNext

LEMMA GoesTyped ==
    ASSUME SearchTypeOK, NEW to \in { "home", "stay" }, NEW s \in Search,
           NEW soft \in BOOLEAN, Goes(to, s, soft), applying' \in BOOLEAN
    PROVE  SearchTypeOK'
<1>1. trip' = [ to |-> to, search |-> s, soft |-> soft ]
  BY DEF Goes
<1>2. trip' \in Trip
  BY <1>1 DEF Trip
<1>3. UNCHANGED << place, search, seen, inputVars >>
  BY DEF Goes
<1> QED
  BY <1>2, <1>3 DEF SearchTypeOK, inputVars

LEMMA DepartureTyped ==
    ASSUME SearchTypeOK,
           \/ ShowRooms \/ SearchHome \/ OpenStay \/ GoHome
           \/ \E s \in Filtered : Filter(s)
           \/ \E to \in { "home", "stay" }, s \in Urls, soft \in BOOLEAN : Visit(to, s, soft)
    PROVE  SearchTypeOK'
<1>1. FormSearch \in Search /\ Empty \in Search /\ Filtered \subseteq Search
  <2>1. FormSearch \in Search
    BY DEF FormSearch, Search, Range, SearchTypeOK
  <2>2. Empty \in Search
    BY DEF Empty, Search, NoDay
  <2>3. /\ search \in Search /\ [ search EXCEPT !.guests = 0 ] \in Search
        /\ [ search EXCEPT !.in = NoDay, !.out = NoDay ] \in Search
    BY DEF Search, SearchTypeOK, NoDay
  <2> QED
    BY <2>1, <2>2, <2>3 DEF Filtered
<1>2. [ in |-> HeroRange(search).in, out |-> HeroRange(search).out,
        guests |-> HeroGuests(search) ] \in Search
  BY RangesTyped DEF SearchTypeOK, Search, Range
<1>3. applying' \in BOOLEAN
  BY DEF SearchTypeOK, ShowRooms, SearchHome, OpenStay, GoHome, Filter, Visit
<1>4. \E to \in { "home", "stay" }, s \in Search, soft \in BOOLEAN : Goes(to, s, soft)
  BY <1>1, <1>2, SearchAssumption
  DEF ShowRooms, SearchHome, OpenStay, GoHome, Filter, Visit
<1> QED
  BY <1>3, <1>4, GoesTyped

LEMMA ArrivalTyped ==
    ASSUME SearchTypeOK, NotFound \/ \E free \in SUBSET (Today..LastDay) : PageArrives(free)
    PROVE  SearchTypeOK'
<1>1. CASE NotFound
  BY <1>1 DEF NotFound, SearchTypeOK, Empty, Search, Range, Dates, NoDay
<1>2. ASSUME NEW free \in SUBSET (Today..LastDay), PageArrives(free) PROVE SearchTypeOK'
  <2>1. trip \in Trip /\ trip.to \in { "home", "stay" } /\ trip.search \in Search
    BY <1>2 DEF PageArrives, SearchTypeOK, Trip
  <2>2. \A p : PageRange(p, trip.search) \in Range /\ PageGuests(p, trip.search) \in Nat
    BY <2>1, RangesTyped
  <2>3. /\ place' = trip.to /\ search' = trip.search /\ trip' = NoTrip
        /\ seen' \subseteq 1..LastDay + 1
    BY <1>2, SearchAssumption DEF PageArrives, Today
  <2>4. /\ range' \in Range /\ party' \in Nat
        /\ field' \in { "none", "checkIn", "checkOut" } /\ applying' \in BOOLEAN
        /\ touched' \subseteq { "range", "guests" }
    BY <1>2, <2>2 DEF PageArrives, SearchTypeOK
  <2> QED
    BY <2>1, <2>3, <2>4 DEF SearchTypeOK
<1> QED
  BY <1>1, <1>2

LEMMA SearchAlwaysTyped == ConsolesSpec => []SearchTypeOK
<1>1. SearchTypeOK /\ [ConsolesNext]_consoleVars => SearchTypeOK'
  <2> SUFFICES ASSUME SearchTypeOK, [ConsolesNext]_consoleVars PROVE SearchTypeOK'
    OBVIOUS
  <2>1. CASE UNCHANGED searchVars
    BY <2>1 DEF searchVars, inputVars, SearchTypeOK
  <2>2. CASE StaySearchNext
    BY <2>2, InputTyped, DepartureTyped, ArrivalTyped DEF StaySearchNext
  <2> QED
    BY <2>1, <2>2, SearchSteps
<1>2. ConsolesInit => SearchTypeOK
  BY SearchTypesAtFirst DEF ConsolesInit
<1> QED
  BY <1>1, <1>2, PTL DEF ConsolesSpec

\* The windows of a room: they lie within the days that are asked for, and every night of
\* one of them is free (RoomInventoryProofs!WindowsAre, for a single room).
LEMMA RoomWindowsAreFree ==
    ASSUME NEW free, NEW from \in Nat \ {0}, NEW to \in Nat, from <= to,
           NEW i \in DOMAIN RoomWindows(from, to, free)
    PROVE  LET found == RoomWindows(from, to, free)[i]
           IN  /\ found.from \in from .. to - 1
               /\ found.to \in found.from + 1 .. to
               /\ found.from .. found.to - 1 \subseteq free
<1> DEFINE a == [ d \in from .. to - 1 |-> IF d \in free THEN 1 ELSE 0 ]
           found == RoomWindows(from, to, free)
           windows == RoomFacts!Windows(a, from, to)
<1>1. \A e \in from .. to - 1 : a[e] \in Nat
  OBVIOUS
<1>2. \A k \in DOMAIN windows : RoomFacts!IsRun(windows[k], a, from, to)
  <2> HIDE DEF a
  <2> QED
    BY <1>1, RoomFacts!WindowsAre
<1>3. windows = found
  BY DEF RoomWindows, RoomFacts!Windows, Inventory!Windows, RoomFacts!Scan, Inventory!Scan,
         RoomFacts!NoDay, Inventory!NoDay, RoomFacts!Window, Inventory!Window,
         RoomFacts!NextCount, Inventory!NextCount
<1>4. i \in DOMAIN windows =>
        /\ windows[i].from \in from .. to - 1
        /\ windows[i].to \in windows[i].from + 1 .. to
  <2> HIDE DEF a, windows
  <2> QED
    BY <1>2 DEF RoomFacts!IsRun
<1>5. ASSUME i \in DOMAIN windows, NEW d \in windows[i].from .. windows[i].to - 1
      PROVE  d \in free
  <2>1. d \in from .. to - 1 /\ a[d] > 0
    <3> HIDE DEF a, windows
    <3> QED
      BY <1>2, <1>5 DEF RoomFacts!IsRun
  <2> QED
    BY <2>1
<1> HIDE DEF windows
<1> QED
  BY <1>3, <1>4, <1>5

\* Whatever the guest searched and however the page was reached, every room of the page of
\* a stay is free on all the nights of its link, as far as the page knew when it was made
\* (roomOptions and availabilityRoomHref of app/stays/[id]/page.tsx).
THEOREM OfferedIsAlwaysFree == ConsolesSpec => []OfferedIsFree
<1>1. SearchTypeOK => OfferedIsFree
  <2> SUFFICES ASSUME SearchTypeOK, NEW r \in Offered(search, seen)
               PROVE  r.in .. r.out - 1 \subseteq seen
    BY DEF OfferedIsFree
  <2>0. search.in \in Nat /\ search.out \in Nat
    BY DEF SearchTypeOK, Search
  <2>1. CASE SelectedRange(search)
    <3> DEFINE found == RoomWindows(search.in, search.out, seen)
    <3>1. PICK i \in DOMAIN found : CoversStay(found[i], search)
      BY <2>1 DEF Offered
    <3>2. r = Dates(search.in, search.out)
      BY <2>1 DEF Offered
    <3>3. /\ found[i].from \in search.in .. search.out - 1
          /\ found[i].to \in found[i].from + 1 .. search.out
          /\ found[i].from .. found[i].to - 1 \subseteq seen
      <4>1. search.in \in Nat \ {0} /\ search.in <= search.out
        BY <2>0, <2>1 DEF SelectedRange, Today
      <4> HIDE DEF found
      <4> QED
        BY <2>0, <4>1, RoomWindowsAreFree DEF found
    <3> HIDE DEF found
    <3> QED
      BY <2>0, <3>1, <3>2, <3>3 DEF CoversStay, Dates
  <2>2. CASE ~SelectedRange(search)
    <3> DEFINE found == RoomWindows(Today, Today + PreviewNights, seen)
    <3>1. PICK i \in DOMAIN found :
            r = Dates(found[i].from,
                      found[i].from + AtMost(AtLeast(found[i].to - found[i].from, 1), 2))
      BY <2>2 DEF Offered
    <3>2. /\ found[i].from \in Today .. Today + PreviewNights - 1
          /\ found[i].to \in found[i].from + 1 .. Today + PreviewNights
          /\ found[i].from .. found[i].to - 1 \subseteq seen
      <4>1. Today \in Nat \ {0} /\ Today + PreviewNights \in Nat
            /\ Today <= Today + PreviewNights
        BY SearchAssumption DEF Today
      <4>2. PICK from \in Nat \ {0}, to \in Nat :
              from = Today /\ to = Today + PreviewNights /\ from <= to
        BY <4>1
      <4> DEFINE windows == RoomWindows(from, to, seen)
      <4>3. found = windows
        BY <4>2
      <4>4. i \in DOMAIN windows =>
              /\ windows[i].from \in from .. to - 1
              /\ windows[i].to \in windows[i].from + 1 .. to
              /\ windows[i].from .. windows[i].to - 1 \subseteq seen
        BY <4>2, RoomWindowsAreFree
      <4> HIDE DEF found, windows
      <4>5. /\ found[i].from \in from .. to - 1
            /\ found[i].to \in found[i].from + 1 .. to
            /\ found[i].from .. found[i].to - 1 \subseteq seen
        BY <3>1, <4>3, <4>4
      <4> QED
        BY <4>2, <4>5, SearchAssumption
    <3> HIDE DEF found
    <3>3. /\ r.in = found[i].from
          /\ r.out = found[i].from + AtMost(AtLeast(found[i].to - found[i].from, 1), 2)
      BY <3>1 DEF Dates
    <3>4. r.in = found[i].from /\ r.out <= found[i].to /\ found[i].to \in Int /\ r.out \in Int
      BY <3>2, <3>3, SearchAssumption DEF AtMost, AtLeast, Today
    <3> QED
      BY <3>2, <3>4
  <2> QED
    BY <2>1, <2>2
<1> QED
  BY <1>1, SearchAlwaysTyped, PTL

----------------------------------------------------------------------------
\* The chat that books: types

\* What is collected and what is drafted, here or in the other language.
OneAtATime(drafted, collected) ==
    /\ drafted \in { t \in Target : t.has = Needed } \cup {NoTarget}
    /\ collected \in { t \in Target : t.has # Needed } \cup {NoTarget}
    /\ collected = NoTarget \/ drafted = NoTarget

\* No message is sent while something is drafted, so that no session holds a draft.
NoDraftIsSent ==
    /\ session = NoTarget
    /\ other # NoMemory => other.session = NoTarget
    /\ \A k \in Turns : turns[k] # NoTurn => turns[k].draft = NoTarget

BookingTyped ==
    /\ OneAtATime(bookingDraft, pending)
    /\ pay \in Pay \cup {NoPay} /\ redirect \in Pay \cup {NoPay}
    /\ creating \in Create \cup {NoPay}
    /\ made \in [ Bookings -> Rooms \cup {NoTarget} ]
TalkTyped ==
    /\ reply \in ChatReply \cup {NoReply} /\ url \subseteq Needed
    /\ turns \in [ Turns -> Turn \cup {NoTurn} ]
    /\ services \subseteq Bookings
    /\ NoDraftIsSent
FlagsTyped ==
    filled \in BOOLEAN /\ chatLoading \in BOOLEAN /\ typing \in BOOLEAN /\ booking \in BOOLEAN
MemoryTyped ==
    /\ other \in Memory \cup {NoMemory}
    /\ other # NoMemory => OneAtATime(other.draft, other.pending)

ChatTyped == BookingTyped /\ TalkTyped /\ FlagsTyped /\ MemoryTyped

LEMMA ChatTypesAtFirst == ChatInit => ChatTyped
<1> SUFFICES ASSUME ChatInit PROVE BookingTyped /\ TalkTyped /\ FlagsTyped /\ MemoryTyped
  BY DEF ChatTyped
<1>1. BookingTyped
  BY DEF ChatInit, BookingTyped, OneAtATime
<1>2. TalkTyped
  BY DEF ChatInit, TalkTyped, NoDraftIsSent
<1> QED
  BY <1>1, <1>2 DEF ChatInit, FlagsTyped, MemoryTyped

LEMMA CollectedTyped ==
    ASSUME ChatTyped, bookingDraft = NoTarget, NEW offer \in Rooms,
           NEW has \in SUBSET Needed, Collects(offer, has)
    PROVE  OneAtATime(bookingDraft, pending)'
<1> DEFINE known == [ offer |-> offer, has |-> has \cup Filters \cup url ]
<1>1. Filters \subseteq Needed /\ url \subseteq Needed
  BY DEF ChatTyped, TalkTyped, Filters, ChatReply
<1>2. known \in Target
  BY <1>1 DEF Target
<1>3. \/ known.has = Needed /\ bookingDraft' = known /\ pending' = NoTarget
      \/ known.has # Needed /\ pending' = known /\ bookingDraft' = NoTarget
  BY DEF Collects, Complete
<1> QED
  BY <1>2, <1>3 DEF OneAtATime

\* A step that keeps the turns, the reservation that is made, and the flags of the waiting.
LEMMA CollectTyped ==
    ASSUME ChatTyped,
           \/ \E offer \in Rooms, has \in SUBSET Needed : PressBook(offer, has)
           \/ PickDates
           \/ \E has \in SUBSET Needed : WriteMissing(has)
           \/ \E offer \in Rooms : BookByWords(offer)
    PROVE  ChatTyped'
<1>1. \E offer \in Rooms, has \in SUBSET Needed :
        bookingDraft = NoTarget /\ Collects(offer, has)
  <2>1. pending # NoTarget => pending.offer \in Rooms /\ pending.has \in SUBSET Needed
    BY DEF ChatTyped, BookingTyped, OneAtATime, Target
  <2>2. reply # NoReply => reply.has \in SUBSET Needed
    BY DEF ChatTyped, TalkTyped, ChatReply
  <2>3. pending # NoTarget => \A has \in SUBSET Needed : pending.has \cup has \in SUBSET Needed
    BY <2>1
  <2>4. "dates" \in Needed
    BY DEF Needed
  <2> QED
    BY <2>1, <2>2, <2>3, <2>4
    DEF PressBook, PickDates, DatesAreAsked, WriteMissing, BookByWords, MayPress
<1>2. OneAtATime(bookingDraft, pending)'
  BY <1>1, CollectedTyped
<1>3. /\ UNCHANGED << pay, reply, chatLoading, booking, turns, creating, redirect, backVars,
                      filled, url, other >>
      /\ typing' \in { typing, FALSE }
  BY DEF PressBook, PickDates, WriteMissing, BookByWords, waitVars
<1> QED
  BY <1>2, <1>3
  DEF ChatTyped, BookingTyped, TalkTyped, FlagsTyped, MemoryTyped, NoDraftIsSent, backVars

\* The message field, the address, and what is sent.
LEMMA FieldTyped ==
    ASSUME ChatTyped,
           \/ StartAnew \/ WriteField \/ TypeField \/ StayInChat
           \/ \E has \in SUBSET Needed : PressNext(has) \/ Reopen(has)
    PROVE  ChatTyped'
<1>1. BookingTyped /\ TalkTyped /\ FlagsTyped /\ MemoryTyped
  BY DEF ChatTyped
<1>2. BookingTyped'
  BY <1>1
  DEF StartAnew, WriteField, TypeField, StayInChat, PressNext, Reopen, BookingTyped,
      OneAtATime, knownVars, waitVars, backVars
<1>3. TalkTyped'
  BY <1>1
  DEF StartAnew, WriteField, TypeField, StayInChat, PressNext, Reopen, TalkTyped, Synced,
      NoDraftIsSent, knownVars, waitVars, backVars
<1>4. FlagsTyped' /\ MemoryTyped'
  BY <1>1
  DEF StartAnew, WriteField, TypeField, StayInChat, PressNext, Reopen, FlagsTyped,
      MemoryTyped, knownVars, waitVars, backVars
<1> QED
  BY <1>2, <1>3, <1>4 DEF ChatTyped

LEMMA TurnTyped ==
    ASSUME ChatTyped, NEW k \in Turns, Write(k) \/ PressChip(k) \/ TurnSteps(k)
    PROVE  ChatTyped'
<1>0. BookingTyped /\ TalkTyped /\ FlagsTyped /\ MemoryTyped
  BY DEF ChatTyped
<1>1. turns[k] # NoTurn => turns[k] \in Turn /\ turns[k].draft = NoTarget
  BY <1>0 DEF TalkTyped, NoDraftIsSent
<1>2. Effective(k) = NoTarget \/ turns[k] = NoTurn
  BY <1>0, <1>1 DEF Effective, TalkTyped, NoDraftIsSent
<1>3. CASE Write(k) \/ PressChip(k)
  <2>1. PICK step \in { "here", "quick" } : Sends(k, step)
    BY <1>3 DEF Write, PressChip
  <2>2. bookingDraft = NoTarget
    BY <1>3 DEF Write, PressChip, Chips, MayPress
  <2> DEFINE sent == [ draft |-> bookingDraft, pay |-> pay, step |-> step ]
  <2>3. sent \in Turn /\ sent.draft = NoTarget
    BY <1>0, <2>2 DEF BookingTyped, Turn
  <2>4. turns' = [ turns EXCEPT ![k] = sent ]
    BY <2>1 DEF Sends
  <2>5. /\ UNCHANGED << knownVars, chatLoading, booking, creating, redirect, backVars, filled,
                        url, other >>
        /\ typing' \in { typing, TRUE }
    BY <1>3 DEF Write, PressChip
  <2> HIDE DEF sent
  <2>6. TalkTyped'
    BY <1>0, <2>3, <2>4, <2>5 DEF TalkTyped, NoDraftIsSent, knownVars, backVars
  <2> QED
    BY <1>0, <2>5, <2>6
    DEF ChatTyped, BookingTyped, FlagsTyped, MemoryTyped, knownVars, backVars
<1>4. CASE (\E r \in ChatReply : Handled(k, r)) \/ OrdersService(k) \/ HandlingFails(k)
  <2>1. /\ turns' = [ turns EXCEPT ![k] = NoTurn ]
        /\ typing' \in { typing, FALSE }
        /\ UNCHANGED << bookingDraft, pending, pay, chatLoading, booking, creating, redirect,
                        session, made, filled, url, other >>
    BY <1>4 DEF Handled, OrdersService, HandlingFails, TurnOver, backVars, knownVars
  <2>2. reply' \in ChatReply \cup {reply}
    BY <1>4 DEF Handled, OrdersService, HandlingFails, knownVars
  <2>3. services' \subseteq Bookings
    BY <1>0, <1>1, <1>4
    DEF Handled, OrdersService, HandlingFails, backVars, TalkTyped, Has, Turn, Pay
  <2>4. TalkTyped'
    BY <1>0, <2>1, <2>2, <2>3 DEF TalkTyped, NoDraftIsSent
  <2> QED
    BY <1>0, <2>1, <2>4 DEF ChatTyped, BookingTyped, FlagsTyped, MemoryTyped
<1>5. CASE AsksServer(k)
  <2>1. /\ turns[k] # NoTurn
        /\ turns' = [ turns EXCEPT ![k] = [ turns[k] EXCEPT !.step = "ask" ] ]
        /\ chatLoading' = TRUE /\ typing' = TRUE
        /\ UNCHANGED << knownVars, booking, creating, redirect, backVars, filled, url,
                        other >>
    BY <1>5 DEF AsksServer, Has
  <2> DEFINE asks == [ turns[k] EXCEPT !.step = "ask" ]
  <2>2. asks \in Turn /\ asks.draft = NoTarget
    BY <1>1, <2>1 DEF Turn
  <2> HIDE DEF asks
  <2>3. TalkTyped'
    BY <1>0, <2>1, <2>2 DEF asks, TalkTyped, NoDraftIsSent, knownVars, backVars
  <2> QED
    BY <1>0, <2>1, <2>3
    DEF ChatTyped, BookingTyped, FlagsTyped, MemoryTyped, knownVars, backVars
<1>6. ASSUME NEW ok \in BOOLEAN, NEW r \in ChatReply, TurnEnds(k, ok, r) PROVE ChatTyped'
  <2>1. /\ turns' = [ turns EXCEPT ![k] = NoTurn ]
        /\ chatLoading' = FALSE /\ typing' = FALSE
        /\ reply' \in { reply, r } /\ url' \in { url, url \cup r.has }
        /\ session' \in { session, Effective(k) }
        /\ bookingDraft' = bookingDraft
        /\ UNCHANGED << pending, pay, booking, creating, redirect, made, services, filled,
                        other >>
    BY <1>2, <1>6 DEF TurnEnds, Has, TurnOver, SessionAnswers, Offline, Waits, Synced
  <2>2. session' = NoTarget
    BY <1>0, <1>2, <1>6, <2>1 DEF TurnEnds, Has, TalkTyped, NoDraftIsSent
  <2>3. r.has \subseteq Needed
    BY DEF ChatReply
  <2>4. TalkTyped'
    BY <1>0, <2>1, <2>2, <2>3 DEF TalkTyped, NoDraftIsSent
  <2> QED
    BY <1>0, <2>1, <2>4 DEF ChatTyped, BookingTyped, FlagsTyped, MemoryTyped
<1> QED
  BY <1>3, <1>4, <1>5, <1>6 DEF TurnSteps

LEMMA CreateTyped ==
    ASSUME ChatTyped, PressCreateBooking \/ CreateSteps
    PROVE  ChatTyped'
<1>0. BookingTyped /\ TalkTyped /\ FlagsTyped /\ MemoryTyped
  BY DEF ChatTyped
<1>1. creating # NoPay =>
        /\ creating \in Create /\ creating.draft.offer \in Rooms
        /\ creating.pay # NoPay => creating.pay.id \in Bookings
  BY <1>0 DEF BookingTyped, Create, Target, Pay
<1>2. CASE PressCreateBooking
  <2>1. [ draft |-> bookingDraft, pay |-> NoPay ] \in Create
    BY <1>0, <1>2 DEF PressCreateBooking, BookingTyped, OneAtATime, Create
  <2> QED
    BY <1>0, <1>2, <2>1
    DEF ChatTyped, PressCreateBooking, BookingTyped, TalkTyped, FlagsTyped, MemoryTyped, NoDraftIsSent,
        knownVars, backVars
<1>3. ASSUME NEW id \in Bookings, MakeReservation(id) PROVE ChatTyped'
  <2> DEFINE p == [ id |-> id, offer |-> creating.draft.offer ]
             made2 == [ made EXCEPT ![id] = creating.draft.offer ]
             creating2 == [ creating EXCEPT !.pay = p ]
  <2>1. p \in Pay /\ creating # NoPay
    BY <1>1, <1>3 DEF MakeReservation, Waiting, Pay
  <2>2. creating2 \in Create
    BY <1>1, <2>1 DEF Create
  <2>3. made2 \in [ Bookings -> Rooms \cup {NoTarget} ]
    BY <1>0, <1>1, <2>1 DEF BookingTyped
  <2>4. /\ made' = made2 /\ creating' = creating2
        /\ UNCHANGED << knownVars, chatLoading, typing, booking, turns, redirect, session,
                        services, filled, url, other >>
    BY <1>3 DEF MakeReservation
  <2> HIDE DEF p, made2, creating2
  <2> QED
    BY <1>0, <2>2, <2>3, <2>4
    DEF ChatTyped, BookingTyped, TalkTyped, FlagsTyped, MemoryTyped, NoDraftIsSent, knownVars
<1>4. CASE Created
  <2>1. creating # NoPay /\ creating.pay # NoPay
    BY <1>4 DEF Created, Waiting
  <2>2. PaidAsPressed(creating.pay.id) \in Pay
    BY <1>1, <2>1 DEF PaidAsPressed, Pay
  <2> QED
    BY <1>0, <1>4, <2>2
    DEF ChatTyped, Created, BookingTyped, TalkTyped, FlagsTyped, MemoryTyped, NoDraftIsSent, OneAtATime,
        backVars
<1>5. CASE CreateFails
  BY <1>0, <1>5
  DEF ChatTyped, CreateFails, BookingTyped, TalkTyped, FlagsTyped, MemoryTyped, NoDraftIsSent, knownVars,
      backVars
<1> QED
  BY <1>2, <1>3, <1>4, <1>5 DEF CreateSteps

LEMMA LanguageTyped ==
    ASSUME ChatTyped, SwitchLanguage
    PROVE  ChatTyped'
<1>0. BookingTyped /\ TalkTyped /\ FlagsTyped /\ MemoryTyped
  BY DEF ChatTyped
<1>1. /\ Saved \in Memory /\ Saved.session = NoTarget
      /\ OneAtATime(Saved.draft, Saved.pending)
  BY <1>0 DEF Saved, Memory, BookingTyped, TalkTyped, NoDraftIsSent, OneAtATime
<1>2. other' = Saved /\ UNCHANGED << waitVars, made, services, filled, url >>
  BY DEF SwitchLanguage
<1>3. CASE other = NoMemory
  <2>1. UNCHANGED << knownVars, session >>
    BY <1>3 DEF SwitchLanguage
  <2> QED
    BY <1>0, <1>1, <1>2, <2>1
    DEF ChatTyped, BookingTyped, TalkTyped, FlagsTyped, MemoryTyped, NoDraftIsSent, waitVars, knownVars
<1>4. CASE other # NoMemory
  <2>1. /\ bookingDraft' = other.draft /\ pending' = other.pending
        /\ pay' = other.pay /\ reply' = other.reply /\ session' = other.session
    BY <1>4 DEF SwitchLanguage
  <2>2. /\ OneAtATime(bookingDraft, pending)' /\ pay' \in Pay \cup {NoPay}
        /\ reply' \in ChatReply \cup {NoReply} /\ session' = NoTarget
    BY <1>0, <1>4, <2>1 DEF MemoryTyped, Memory, TalkTyped, NoDraftIsSent, OneAtATime
  <2> QED
    BY <1>0, <1>1, <1>2, <2>2
    DEF ChatTyped, BookingTyped, TalkTyped, FlagsTyped, MemoryTyped, NoDraftIsSent, waitVars
<1> QED
  BY <1>3, <1>4

LEMMA ChatAlwaysTyped == ConsolesSpec => []ChatTyped
<1>1. ChatTyped /\ [ConsolesNext]_consoleVars => ChatTyped'
  <2> SUFFICES ASSUME ChatTyped, [ConsolesNext]_consoleVars PROVE ChatTyped'
    OBVIOUS
  <2>1. CASE UNCHANGED chatVars
    BY <2>1
    DEF ChatTyped, chatVars, knownVars, waitVars, backVars, BookingTyped, TalkTyped, FlagsTyped,
        MemoryTyped, NoDraftIsSent
  <2>2. CASE ChatNext
    BY <2>2, CollectTyped, FieldTyped, TurnTyped, CreateTyped, LanguageTyped DEF ChatNext
  <2> QED
    BY <2>1, <2>2, ChatSteps
<1>2. ConsolesInit => ChatTyped
  BY ChatTypesAtFirst DEF ConsolesInit
<1> QED
  BY <1>1, <1>2, PTL DEF ConsolesSpec

----------------------------------------------------------------------------
\* The listings and their editor: types

\* Only a handler of the listings loads the list, and a block that is made has its id.
JobsOfKind ==
    \A j \in EditorJobs : jobs[j] # NoJob =>
        /\ jobs[j].step \in { "list", "rows" } =>
             jobs[j].op \in { "load", "save", "bulk", "delete" }
        /\ jobs[j].op = "block" /\ jobs[j].step = "end" => jobs[j].id \in Blocks

BackendTyped ==
    /\ listing \in [ Listings -> ListingState ]
    /\ roomType \in [ Types -> TypeState ]
    /\ block \in [ Blocks -> BOOLEAN ]
ListTyped ==
    /\ items \subseteq Listings /\ selectedIds \subseteq Listings
    /\ inStayListingId \in Listings \cup {0}
FormTyped ==
    /\ editingId \in Listings \cup {0}
    /\ shownTypes \in [ Types -> TypeState ]
    /\ shownBlocks \subseteq Blocks
    /\ opened \subseteq Listings
JobsTyped == jobs \in [ EditorJobs -> Job \cup {NoJob} ] /\ JobsOfKind
CountsTyped ==
    /\ availability \in Availability \cup {NoAnswer} /\ waiting \in BOOLEAN
    /\ asked \subseteq Asked
SectionTyped ==
    dates \in Ranges /\ chosen \in Types \cup { 0, Whole } /\ CountsTyped

EditorTyped == BackendTyped /\ ListTyped /\ FormTyped /\ JobsTyped /\ SectionTyped

LEMMA NightsAreRange == Nights \in Ranges
  BY EditorAssumption DEF Ranges

LEMMA EditorTypesAtFirst ==
    ASSUME ManagerEditorInit, ListInit \/ CalendarInit
    PROVE  EditorTyped
<1>1. BackendTyped /\ ListTyped
  BY DEF ManagerEditorInit, ListInit, CalendarInit, BackendTyped, ListTyped, ListingState,
         TypeState
<1>2. FormTyped /\ JobsTyped
  BY DEF ManagerEditorInit, FormTyped, JobsTyped, JobsOfKind, TypeState
<1>3. SectionTyped
  BY NightsAreRange DEF ManagerEditorInit, SectionTyped, CountsTyped
<1> QED
  BY <1>1, <1>2, <1>3 DEF EditorTyped

LEMMA ShownTyped ==
    ASSUME NEW list, list \subseteq Listings, NEW id
    PROVE  Shown(id, list) \in Listings \cup {0}
  BY DEF Shown

LEMMA AsksTyped ==
    ASSUME CountsTyped, NEW id \in Listings \cup {0}, NEW nights \in Ranges, Asks(id, nights)
    PROVE  CountsTyped'
<1>1. CASE id = 0 \/ nights = {}
  BY <1>1 DEF CountsTyped, Asks, Cancelled
<1>2. CASE ~(id = 0 \/ nights = {})
  <2>1. [ listing |-> id, nights |-> nights ] \in Asked
    BY <1>2 DEF Asked
  <2>2. /\ asked' = {[ listing |-> id, nights |-> nights ]}
        /\ availability' = availability /\ waiting' = TRUE
    BY <1>2 DEF Asks, Cancelled
  <2> QED
    BY <2>1, <2>2 DEF CountsTyped
<1> QED
  BY <1>1, <1>2

LEMMA ClosedTyped ==
    ASSUME SectionTyped, Closed
    PROVE  SectionTyped'
  BY NightsAreRange DEF SectionTyped, CountsTyped, Closed, Cancelled

LEMMA FollowsTyped ==
    ASSUME SectionTyped, NEW id, NEW list, list \subseteq Listings, SectionFollows(id, list)
    PROVE  SectionTyped'
<1>1. CASE id = 0
  BY <1>1, ClosedTyped DEF SectionFollows
<1>2. CASE id # 0
  <2>1. UNCHANGED << dates, chosen >>
    BY <1>2 DEF SectionFollows
  <2>2. CountsTyped'
    BY <1>2, AsksTyped, ShownTyped DEF SectionFollows, SectionTyped, CountsTyped
  <2> QED
    BY <2>1, <2>2 DEF SectionTyped
<1> QED
  BY <1>1, <1>2

\* The first of the active types is one of them.
LEMMA ChosenTyped ==
    ASSUME NEW choice \in Types \cup { 0, Whole }, NEW types
    PROVE  Chosen(choice, types) \in Types \cup { 0, Whole }
<1>1. CASE ActiveTypes(types) = {} \/ choice \in ActiveTypes(types) \cup {Whole}
  BY <1>1 DEF Chosen
<1>2. CASE ~(ActiveTypes(types) = {} \/ choice \in ActiveTypes(types) \cup {Whole})
  <2>1. ActiveTypes(types) \subseteq Types /\ ActiveTypes(types) \subseteq Nat
    BY EditorAssumption DEF ActiveTypes
  <2>2. \E t \in ActiveTypes(types) : \A u \in ActiveTypes(types) : t <= u
    BY <1>2, <2>1, RoomFacts!LeastNat
  <2>3. Chosen(choice, types) \in ActiveTypes(types)
    BY <1>2, <2>2 DEF Chosen
  <2> QED
    BY <2>1, <2>3
<1> QED
  BY <1>1, <1>2

\* A handler goes on, and nothing else changes.
LEMMA StartsTyped ==
    ASSUME EditorTyped, NEW j \in EditorJobs,
           NEW op \in { "load", "save", "bulk", "delete", "block", "unblock", "type",
                        "change", "drop" },
           NEW id \in Nat, NEW section \in { "none", "types", "blocks" },
           Starts(j, op, id, section)
    PROVE  EditorTyped'
<1> DEFINE job ==
         [ op |-> op, id |-> id, section |-> section, list |-> {},
           edited |-> IF op \in { "load", "save", "bulk" } THEN 0 ELSE editingId,
           picked |-> IF op = "bulk" THEN selectedIds ELSE {},
           types |-> IF section = "types" THEN shownTypes ELSE [ t \in Types |-> "none" ],
           blocks |-> IF section = "blocks" THEN shownBlocks ELSE {},
           step |-> IF op = "load" THEN "list" ELSE "send" ]
<1>1. [ t \in Types |-> "none" ] \in [ Types -> TypeState ]
  BY DEF TypeState
<1>2. job \in Job
  BY <1>1 DEF Job, EditorTyped, ListTyped, FormTyped
<1>3. /\ job.step \in { "list", "rows" } => job.op = "load"
      /\ job.step # "end"
  OBVIOUS
<1>4. /\ jobs' = [ jobs EXCEPT ![j] = job ]
      /\ UNCHANGED << backendVars, listVars, editingId, rowVars, sectionVars >>
  BY DEF Starts
<1> HIDE DEF job
<1>5. JobsTyped'
  BY <1>2, <1>3, <1>4 DEF EditorTyped, JobsTyped, JobsOfKind
<1> QED
  BY <1>4, <1>5
  DEF EditorTyped, BackendTyped, ListTyped, FormTyped, SectionTyped, CountsTyped,
      backendVars, listVars, rowVars, sectionVars

\* A handler that goes on, or stops.
LEMMA JobTyped ==
    ASSUME EditorTyped, NEW j \in EditorJobs, NEW job \in Job \cup {NoJob},
           job # NoJob =>
             /\ job.step \in { "list", "rows" } =>
                  job.op \in { "load", "save", "bulk", "delete" }
             /\ job.op = "block" /\ job.step = "end" => job.id \in Blocks,
           jobs' = [ jobs EXCEPT ![j] = job ]
    PROVE  JobsTyped'
  BY DEF EditorTyped, JobsTyped, JobsOfKind

LEMMA OrphanedTyped ==
    ASSUME EditorTyped
    PROVE  /\ Orphaned \in [ EditorJobs -> Job \cup {NoJob} ]
           /\ \A j \in EditorJobs : Orphaned[j] # NoJob =>
                /\ Orphaned[j].step \in { "list", "rows" } =>
                     Orphaned[j].op \in { "load", "save", "bulk", "delete" }
                /\ Orphaned[j].op = "block" /\ Orphaned[j].step = "end" =>
                     Orphaned[j].id \in Blocks
<1>1. ASSUME NEW j \in EditorJobs, jobs[j] # NoJob
      PROVE  /\ Orphaned[j] = [ jobs[j] EXCEPT !.section = "none" ]
             /\ jobs[j] \in Job /\ Orphaned[j] \in Job
             /\ Orphaned[j].step = jobs[j].step /\ Orphaned[j].op = jobs[j].op
             /\ Orphaned[j].id = jobs[j].id
  <2>1. jobs[j] \in Job /\ Orphaned[j] = [ jobs[j] EXCEPT !.section = "none" ]
    BY <1>1 DEF EditorTyped, JobsTyped, Orphaned
  <2> QED
    BY <2>1 DEF Job
<1>2. \A j \in EditorJobs : jobs[j] = NoJob => Orphaned[j] = NoJob
  BY DEF Orphaned
<1>3. Orphaned = [ j \in EditorJobs |-> Orphaned[j] ]
  BY DEF Orphaned
<1>4. \A j \in EditorJobs : Orphaned[j] \in Job \cup {NoJob}
  BY <1>1, <1>2
<1> HIDE DEF Orphaned
<1> QED
  BY <1>1, <1>2, <1>3, <1>4 DEF EditorTyped, JobsTyped, JobsOfKind


\* The steps of the form, with the answers that come for it.
LEMMA FormStepTyped ==
    ASSUME EditorTyped,
           \/ \E id \in Listings : StartEdit(id) \/ TypesArrive(id) \/ BlocksArrive(id)
           \/ CancelEdit
           \/ \E q \in asked, ok \in BOOLEAN : AvailabilityArrives(q, ok)
    PROVE  EditorTyped'
<1>0. BackendTyped /\ ListTyped /\ FormTyped /\ JobsTyped /\ SectionTyped
  BY DEF EditorTyped
<1>1. [ t \in Types |-> "none" ] \in [ Types -> TypeState ]
  BY DEF TypeState
<1>2. ASSUME NEW id \in Listings, StartEdit(id) PROVE EditorTyped'
  <2>1. SectionTyped'
    BY <1>0, <1>2, FollowsTyped DEF StartEdit, ListTyped
  <2>2. FormTyped'
    BY <1>0, <1>1, <1>2 DEF StartEdit, FormTyped
  <2> QED
    BY <1>0, <1>2, <2>1, <2>2
    DEF StartEdit, EditorTyped, BackendTyped, ListTyped, JobsTyped, JobsOfKind, backendVars,
        listVars
<1>3. CASE CancelEdit
  <2>1. SectionTyped'
    BY <1>0, <1>3, ClosedTyped DEF CancelEdit, Reset
  <2>2. FormTyped'
    BY <1>0, <1>1, <1>3 DEF CancelEdit, Reset, FormTyped
  <2>3. JobsTyped'
    <3>1. jobs' = Orphaned
      BY <1>3 DEF CancelEdit
    <3> HIDE DEF Orphaned
    <3> QED
      BY <3>1, OrphanedTyped DEF JobsTyped, JobsOfKind
  <2> QED
    BY <1>0, <1>3, <2>1, <2>2, <2>3
    DEF CancelEdit, EditorTyped, BackendTyped, ListTyped, backendVars, listVars
<1>4. ASSUME NEW id \in Listings, TypesArrive(id) PROVE EditorTyped'
  <2>1. shownTypes' \in [ Types -> TypeState ]
    BY <1>0, <1>4 DEF TypesArrive, BackendTyped, TypeState
  <2>2. chosen' \in Types \cup { 0, Whole }
    BY <1>0, <1>4, ChosenTyped DEF TypesArrive, SectionTyped
  <2> QED
    BY <1>0, <1>4, <2>1, <2>2
    DEF TypesArrive, EditorTyped, BackendTyped, ListTyped, FormTyped, JobsTyped, JobsOfKind,
        SectionTyped, CountsTyped, backendVars, listVars
<1>5. ASSUME NEW id \in Listings, BlocksArrive(id) PROVE EditorTyped'
  BY <1>0, <1>5
  DEF BlocksArrive, EditorTyped, BackendTyped, ListTyped, FormTyped, JobsTyped, JobsOfKind,
      SectionTyped, CountsTyped, backendVars, listVars, sectionVars
<1>6. ASSUME NEW q \in asked, NEW ok \in BOOLEAN, AvailabilityArrives(q, ok)
      PROVE  EditorTyped'
  <2>1. q \in Asked
    BY <1>0, <1>6 DEF SectionTyped, CountsTyped
  <2>2. availability' \in Availability \cup {NoAnswer}
    BY <1>6, <2>1 DEF AvailabilityArrives, Availability, Asked
  <2>3. /\ asked' = asked \ {q} /\ waiting' = FALSE
        /\ UNCHANGED << backendVars, listVars, editingId, rowVars, jobs, dates, chosen >>
    BY <1>6 DEF AvailabilityArrives
  <2> QED
    BY <1>0, <2>2, <2>3
    DEF EditorTyped, BackendTyped, ListTyped, FormTyped, JobsTyped, JobsOfKind,
        SectionTyped, CountsTyped, backendVars, listVars, rowVars
<1> QED
  BY <1>2, <1>3, <1>4, <1>5, <1>6

\* What the partner chooses and presses.
LEMMA EditorPressTyped ==
    ASSUME EditorTyped,
           \/ \E id \in Listings : ToggleSelect(id) \/ PickInStay(id)
           \/ \E filtered \in SUBSET Listings : SelectAll(filtered)
           \/ \E nights \in Ranges : SetDates(nights)
           \/ RefreshCounts
           \/ \E choice \in Types \cup {Whole} : Choose(choice)
    PROVE  EditorTyped'
<1>0. BackendTyped /\ ListTyped /\ FormTyped /\ JobsTyped /\ SectionTyped
  BY DEF EditorTyped
<1>1. CASE \/ \E id \in Listings : ToggleSelect(id) \/ PickInStay(id)
           \/ \E filtered \in SUBSET Listings : SelectAll(filtered)
  <2>1. ListTyped'
    BY <1>0, <1>1 DEF ToggleSelect, PickInStay, SelectAll, ListTyped
  <2>2. UNCHANGED << backendVars, editingId, rowVars, jobs, sectionVars >>
    BY <1>1 DEF ToggleSelect, PickInStay, SelectAll
  <2> QED
    BY <1>0, <2>1, <2>2
    DEF EditorTyped, BackendTyped, FormTyped, JobsTyped, JobsOfKind, SectionTyped,
        CountsTyped, backendVars, rowVars, sectionVars
<1>2. ASSUME NEW nights \in Ranges, SetDates(nights) PROVE EditorTyped'
  BY <1>0, <1>2, AsksTyped, ShownTyped
  DEF SetDates, SectionTyped, ListTyped, EditorTyped, BackendTyped, FormTyped, JobsTyped,
      JobsOfKind, backendVars, listVars, rowVars
<1>3. CASE RefreshCounts
  BY <1>0, <1>3, AsksTyped
  DEF RefreshCounts, Shown, SectionTyped, ListTyped, EditorTyped, BackendTyped, FormTyped,
      JobsTyped, JobsOfKind, backendVars, listVars, rowVars
<1>4. ASSUME NEW choice \in Types \cup {Whole}, Choose(choice) PROVE EditorTyped'
  BY <1>0, <1>4
  DEF Choose, SectionTyped, CountsTyped, ListTyped, EditorTyped, BackendTyped, FormTyped,
      JobsTyped, JobsOfKind, backendVars, listVars, rowVars
<1> QED
  BY <1>1, <1>2, <1>3, <1>4

\* What starts a handler.
LEMMA StartTyped ==
    ASSUME EditorTyped, NEW j \in EditorJobs,
           \/ Reload(j) \/ Submit(j) \/ Bulk(j) \/ \E id \in Listings : Delete(j, id)
           \/ CreateBlock(j) \/ \E b \in Blocks : DeleteBlock(j, b)
           \/ CreateType(j)
           \/ \E op \in { "change", "drop" }, t \in Types : ChangeType(j, op, t)
    PROVE  EditorTyped'
<1>1. /\ editingId \in Nat /\ 0 \in Nat /\ Listings \subseteq Nat
      /\ Types \subseteq Nat /\ Blocks \subseteq Nat
      /\ chosen # Whole => chosen \in Nat
  BY EditorAssumption DEF EditorTyped, FormTyped, SectionTyped
<1>2. CASE Reload(j) \/ Submit(j) \/ Bulk(j) \/ \E id \in Listings : Delete(j, id)
  BY <1>1, <1>2, StartsTyped DEF Reload, Submit, Bulk, Delete
<1>3. CASE CreateBlock(j) \/ \E b \in Blocks : DeleteBlock(j, b)
  BY <1>1, <1>3, StartsTyped DEF CreateBlock, DeleteBlock
<1>4. CASE CreateType(j) \/ \E op \in { "change", "drop" }, t \in Types : ChangeType(j, op, t)
  BY <1>1, <1>4, StartsTyped DEF CreateType, ChangeType
<1> QED
  BY <1>2, <1>3, <1>4

\* What a handler is answered.
LEMMA ServesTyped ==
    ASSUME EditorTyped, NEW j \in EditorJobs, Serve(j) \/ ServeList(j) \/ JobFails(j)
    PROVE  EditorTyped'
<1>0. BackendTyped /\ ListTyped /\ FormTyped /\ JobsTyped /\ SectionTyped
  BY DEF EditorTyped
<1>1. jobs[j] # NoJob /\ jobs[j] \in Job
  BY <1>0 DEF Serve, ServeList, JobFails, Does, JobsTyped
<1>2. UNCHANGED << roomType, block, listVars, editingId, rowVars, sectionVars >>
  BY DEF Serve, ServeList, JobFails, backendVars
<1>3. ASSUME listing' \in [ Listings -> ListingState ], JobsTyped' PROVE EditorTyped'
  BY <1>0, <1>2, <1>3
  DEF EditorTyped, BackendTyped, ListTyped, FormTyped, SectionTyped, CountsTyped, listVars,
      rowVars, sectionVars
<1>4. CASE Serve(j)
  <2> DEFINE job == [ jobs[j] EXCEPT !.step = "list", !.picked = {},
                                     !.id = IF jobs[j].op = "delete" THEN @ ELSE 0 ]
  <2>1. listing' \in [ Listings -> ListingState ]
    BY <1>0, <1>4 DEF Serve, BackendTyped, ListingState
  <2>2. jobs[j].op \in { "save", "bulk", "delete" }
    BY <1>4 DEF Serve, Does
  <2>3. job \in Job /\ job.op = jobs[j].op /\ job.step = "list"
    BY <1>1 DEF Job
  <2>4. jobs' = [ jobs EXCEPT ![j] = job ]
    BY <1>4 DEF Serve
  <2> HIDE DEF job
  <2>5. JobsTyped'
    BY <2>2, <2>3, <2>4, JobTyped
  <2> QED
    BY <1>3, <2>1, <2>5
<1>5. CASE ServeList(j)
  <2> DEFINE job == [ jobs[j] EXCEPT !.step = "rows", !.list = { id \in Listings : Owned(id) } ]
  <2>1. jobs[j].step = "list" /\ jobs[j].op \in { "load", "save", "bulk", "delete" }
    BY <1>0, <1>1, <1>5 DEF ServeList, JobsTyped, JobsOfKind
  <2>2. job \in Job /\ job.op = jobs[j].op /\ job.step = "rows"
    BY <1>1 DEF Job
  <2>3. jobs' = [ jobs EXCEPT ![j] = job ] /\ UNCHANGED listing
    BY <1>5 DEF ServeList, backendVars
  <2> HIDE DEF job
  <2>4. JobsTyped'
    BY <2>1, <2>2, <2>3, JobTyped
  <2> QED
    BY <1>0, <1>3, <2>3, <2>4 DEF BackendTyped
<1>6. CASE JobFails(j)
  <2> DEFINE job == [ jobs[j] EXCEPT !.step = "end", !.list = {} ]
  <2>1. job \in Job /\ job.op = jobs[j].op /\ job.step = "end"
    BY <1>1 DEF Job
  <2>2. \/ jobs' = [ jobs EXCEPT ![j] = NoJob ]
        \/ /\ jobs[j].step \in { "list", "rows" }
           /\ jobs' = [ jobs EXCEPT ![j] = job ]
    BY <1>6 DEF JobFails, Stops
  <2>3. jobs[j].step \in { "list", "rows" } => jobs[j].op # "block"
    BY <1>0, <1>1 DEF JobsTyped, JobsOfKind
  <2> HIDE DEF job
  <2>4. JobsTyped'
    BY <2>1, <2>2, <2>3, JobTyped
  <2>5. UNCHANGED listing
    BY <1>6 DEF JobFails, backendVars
  <2> QED
    BY <1>0, <1>3, <2>4, <2>5 DEF BackendTyped
<1> QED
  BY <1>4, <1>5, <1>6

LEMMA ListArrivalTyped ==
    ASSUME EditorTyped, NEW j \in EditorJobs, ListArrives(j)
    PROVE  EditorTyped'
<1>0. BackendTyped /\ ListTyped /\ FormTyped /\ JobsTyped /\ SectionTyped
  BY DEF EditorTyped
<1> DEFINE job == [ jobs[j] EXCEPT !.step = "end", !.list = {} ]
           list == jobs[j].list
<1>1. jobs[j] # NoJob /\ jobs[j] \in Job /\ jobs[j].step = "rows"
  BY <1>0 DEF ListArrives, JobsTyped
<1>2. list \subseteq Listings
  BY <1>1 DEF Job
<1>3. job \in Job /\ job.op = jobs[j].op /\ job.step = "end"
  BY <1>1 DEF Job
<1>4. jobs[j].op # "block"
  BY <1>0, <1>1 DEF JobsTyped, JobsOfKind
<1>5. /\ items' = list /\ selectedIds' = Kept(selectedIds, list)
      /\ inStayListingId' \in (IF list = {} THEN {0}
                              ELSE IF inStayListingId \in list THEN {inStayListingId} ELSE list)
      /\ SectionFollows(editingId, list)
      /\ UNCHANGED << backendVars, editingId, rowVars >>
  BY DEF ListArrives
<1>6. \/ jobs' = [ jobs EXCEPT ![j] = NoJob ]
      \/ jobs' = [ jobs EXCEPT ![j] = job ]
  BY DEF ListArrives
<1> HIDE DEF job, list
<1>7. JobsTyped'
  BY <1>3, <1>4, <1>6, JobTyped
<1>8. ListTyped'
  BY <1>0, <1>2, <1>5 DEF ListTyped, Kept
<1>9. SectionTyped'
  BY <1>0, <1>2, <1>5, FollowsTyped
<1> QED
  BY <1>0, <1>5, <1>7, <1>8, <1>9
  DEF EditorTyped, BackendTyped, FormTyped, backendVars, rowVars

LEMMA EndListTyped ==
    ASSUME EditorTyped, NEW j \in EditorJobs, EndList(j)
    PROVE  EditorTyped'
<1>0. BackendTyped /\ ListTyped /\ FormTyped /\ JobsTyped /\ SectionTyped
  BY DEF EditorTyped
<1>1. UNCHANGED << backendVars, listVars >>
  BY DEF EndList
<1>2. CASE Stops(j) /\ UNCHANGED << editingId, rowVars, sectionVars >>
  <2>1. JobsTyped'
    BY <1>2, JobTyped DEF Stops
  <2> QED
    BY <1>0, <1>1, <1>2, <2>1
    DEF EditorTyped, BackendTyped, ListTyped, FormTyped, SectionTyped, CountsTyped,
        backendVars, listVars, rowVars, sectionVars
<1>3. CASE Reset /\ jobs' = [ Orphaned EXCEPT ![j] = NoJob ] /\ UNCHANGED opened
  <2>1. SectionTyped'
    BY <1>0, <1>3, ClosedTyped DEF Reset
  <2>2. [ t \in Types |-> "none" ] \in [ Types -> TypeState ]
    BY DEF TypeState
  <2>3. FormTyped'
    BY <1>0, <1>3, <2>2 DEF Reset, FormTyped
  <2>4. JobsTyped'
    <3> HIDE DEF Orphaned
    <3> QED
      BY <1>3, OrphanedTyped DEF JobsTyped, JobsOfKind
  <2> QED
    BY <1>0, <1>1, <2>1, <2>3, <2>4
    DEF EditorTyped, BackendTyped, ListTyped, backendVars, listVars
<1> QED
  BY <1>2, <1>3 DEF EndList

\* The rows of the sections.
LEMMA ServeRowTyped ==
    ASSUME EditorTyped, NEW j \in EditorJobs, ServeRow(j)
    PROVE  EditorTyped'
<1>0. BackendTyped /\ ListTyped /\ FormTyped /\ JobsTyped /\ SectionTyped
  BY DEF EditorTyped
<1>1. PICK id \in Types \cup Blocks :
        /\ jobs[j].op = "block" => id \in Blocks
        /\ jobs' = [ jobs EXCEPT ![j] = [ jobs[j] EXCEPT !.step = "end", !.id = id ] ]
  BY DEF ServeRow
<1> DEFINE job == [ jobs[j] EXCEPT !.step = "end", !.id = id ]
<1>2. jobs[j] \in Job /\ id \in Nat
  BY <1>0, EditorAssumption DEF ServeRow, JobsTyped
<1>3. job \in Job /\ job.op = jobs[j].op /\ job.step = "end" /\ job.id = id
  BY <1>2 DEF Job
<1>4. jobs' = [ jobs EXCEPT ![j] = job ]
  BY <1>1
<1> HIDE DEF job
<1>5. JobsTyped'
  BY <1>1, <1>3, <1>4, JobTyped
<1>6. roomType' \in [ Types -> TypeState ] /\ block' \in [ Blocks -> BOOLEAN ]
  BY <1>0 DEF ServeRow, BackendTyped, TypeState
<1>7. UNCHANGED << listing, listVars, editingId, rowVars, sectionVars >>
  BY DEF ServeRow
<1> QED
  BY <1>0, <1>5, <1>6, <1>7
  DEF EditorTyped, BackendTyped, ListTyped, FormTyped, SectionTyped, CountsTyped, listVars,
      rowVars, sectionVars

LEMMA EndRowTyped ==
    ASSUME EditorTyped, NEW j \in EditorJobs, EndBlock(j) \/ EndType(j)
    PROVE  EditorTyped'
<1>0. BackendTyped /\ ListTyped /\ FormTyped /\ JobsTyped /\ SectionTyped
  BY DEF EditorTyped
<1>1. jobs[j] # NoJob /\ jobs[j] \in Job
  BY <1>0 DEF EndBlock, EndType, Does, JobsTyped
<1>2. JobsTyped'
  BY JobTyped DEF EndBlock, EndType, Stops
<1>3. UNCHANGED << backendVars, listVars, editingId, opened >>
  BY DEF EndBlock, EndType
<1>4. CASE EndBlock(j)
  <2>1. shownBlocks' \subseteq Blocks
    BY <1>0, <1>1, <1>4 DEF EndBlock, Does, JobsTyped, JobsOfKind, Job
  <2>2. CountsTyped'
    BY <1>0, <1>4, AsksTyped, ShownTyped
    DEF EndBlock, SectionTyped, CountsTyped, ListTyped
  <2>3. UNCHANGED << shownTypes, dates, chosen >>
    BY <1>4 DEF EndBlock
  <2> QED
    BY <1>0, <1>2, <1>3, <2>1, <2>2, <2>3
    DEF EditorTyped, BackendTyped, ListTyped, FormTyped, SectionTyped, backendVars, listVars
<1>5. CASE EndType(j)
  <2>1. shownTypes' \in [ Types -> TypeState ]
    <3>1. jobs[j].types \in [ Types -> TypeState ]
      BY <1>1 DEF Job
    <3>2. \A t \in Types : (IF jobs[j].op = "drop" THEN "none" ELSE roomType[t]) \in TypeState
      BY <1>0 DEF BackendTyped, TypeState
    <3> QED
      BY <1>5, <3>1, <3>2 DEF EndType
  <2>2. chosen' \in Types \cup { 0, Whole }
    BY <1>0, <1>5, ChosenTyped DEF EndType, SectionTyped
  <2>3. UNCHANGED << shownBlocks, dates, availability, waiting, asked >>
    BY <1>5 DEF EndType
  <2> QED
    BY <1>0, <1>2, <1>3, <2>1, <2>2, <2>3
    DEF EditorTyped, BackendTyped, ListTyped, FormTyped, SectionTyped, CountsTyped,
        backendVars, listVars
<1> QED
  BY <1>4, <1>5

LEMMA EditorAlwaysTyped == ConsolesSpec => []EditorTyped
<1>1. EditorTyped /\ [ConsolesNext]_consoleVars => EditorTyped'
  <2> SUFFICES ASSUME EditorTyped, [ConsolesNext]_consoleVars PROVE EditorTyped'
    OBVIOUS
  <2>1. CASE UNCHANGED editorVars
    BY <2>1
    DEF EditorTyped, BackendTyped, ListTyped, FormTyped, JobsTyped, JobsOfKind, SectionTyped,
        CountsTyped, editorVars, backendVars, listVars, rowVars, sectionVars
  <2>2. CASE FormNext
    BY <2>2, FormStepTyped, StartTyped, ServesTyped, ListArrivalTyped DEF FormNext
  <2>3. CASE ListingsNext
    BY <2>2, <2>3, EditorPressTyped, StartTyped, ServesTyped, EndListTyped DEF ListingsNext
  <2>4. CASE CalendarNext
    BY <2>2, <2>4, EditorPressTyped, StartTyped, ServeRowTyped, EndRowTyped DEF CalendarNext
  <2> QED
    BY <2>1, <2>3, <2>4, EditorSteps
<1>2. ConsolesInit => EditorTyped
  BY EditorTypesAtFirst DEF ConsolesInit
<1> QED
  BY <1>1, <1>2, PTL DEF ConsolesSpec

----------------------------------------------------------------------------
\* The partner's reservations, messages and notices: types

LEMMA ManagerDeskSteps ==
    ASSUME [ConsolesNext]_consoleVars
    PROVE  BookingsNext \/ LogNext \/ NoticesNext \/ UNCHANGED managerDeskVars
  BY DEF ConsolesNext, consoleVars

\* A handler is of a row of its kind, and a ticket gets a status of tickets.
WorkOfKind(work) ==
    /\ work.op \in { "cancel", "confirm" } => work.id \in Stays
    /\ work.op = "ticket" => work.id \in Tickets /\ work.arg \in TicketStatus

WorksTyped ==
    /\ works \in [ Works -> Work \cup {NoWork} ]
    /\ \A w \in Works : works[w] # NoWork => WorkOfKind(works[w])
StaysTyped ==
    /\ stays \in [ Stays -> ReservationStatus ]
    /\ stayRows \in [ Stays -> ReservationStatus \cup {"none"} ]
    /\ stayFilter \in ReservationStatus \cup {"all"}
    /\ terms \subseteq Stays
LogTyped ==
    /\ refreshState \in { "idle", "scheduled", "loading" }
    /\ timer \in BOOLEAN /\ owed \in BOOLEAN
    /\ logLoads \in 0..MaxLoads
NoticesTyped ==
    /\ read \subseteq Notices /\ readShown \subseteq Notices
    /\ tickets \in [ Tickets -> TicketStatus ]
    /\ ticketRows \in [ Tickets -> TicketStatus ]

ManagerTyped == WorksTyped /\ StaysTyped /\ LogTyped /\ NoticesTyped

LEMMA ManagerTypesAtFirst == ManagerDeskInit => ManagerTyped
<1> SUFFICES ASSUME ManagerDeskInit PROVE ManagerTyped
  OBVIOUS
<1>1. WorksTyped
  BY DEF ManagerDeskInit, WorksTyped
<1>2. StaysTyped
  BY DEF ManagerDeskInit, StaysTyped, ReservationStatus
<1>3. LogTyped
  <2>1. 0 \in 0..MaxLoads
    BY DeskAssumption
  <2> QED
    BY <2>1 DEF ManagerDeskInit, LogTyped
<1>4. NoticesTyped
  BY DEF ManagerDeskInit, NoticesTyped, TicketStatus
<1> QED
  BY <1>1, <1>2, <1>3, <1>4 DEF ManagerTyped

LEMMA NewWorkTyped ==
    ASSUME ManagerTyped, NEW id \in Nat,
           NEW op \in { "cancel", "confirm", "rows", "retry", "mark", "ticket", "lists" },
           NEW step \in { "terms", "ask", "send", "answer", "reload" }
    PROVE  /\ NewWork(op, id, step) \in Work
           /\ NewWork(op, id, step).op = op /\ NewWork(op, id, step).id = id
  BY DEF NewWork, Work, ManagerTyped, StaysTyped

LEMMA PutsTyped ==
    ASSUME ManagerTyped, NEW w \in Works, NEW work \in Work \cup {NoWork},
           work # NoWork => WorkOfKind(work), works' = [ works EXCEPT ![w] = work ]
    PROVE  WorksTyped'
  BY DEF ManagerTyped, WorksTyped, WorkOfKind

\* A handler that goes on is of its kind still.
LEMMA PassesTyped ==
    ASSUME ManagerTyped, NEW w \in Works, works[w] # NoWork,
           NEW step \in { "terms", "ask", "send", "answer", "reload" }, Passes(w, step)
    PROVE  WorksTyped'
<1> DEFINE work == [ works[w] EXCEPT !.step = step ]
<1>1. works[w] \in Work /\ WorkOfKind(works[w])
  BY DEF ManagerTyped, WorksTyped
<1>2. /\ work \in Work /\ work.op = works[w].op /\ work.id = works[w].id
      /\ work.arg = works[w].arg
  BY <1>1 DEF Work
<1>3. works' = [ works EXCEPT ![w] = work ]
  BY DEF Passes
<1> HIDE DEF work
<1>4. WorkOfKind(work)
  BY <1>1, <1>2 DEF WorkOfKind
<1> QED
  BY <1>2, <1>3, <1>4, PutsTyped

LEMMA LeavesTyped ==
    ASSUME ManagerTyped, NEW w \in Works, Leaves(w)
    PROVE  WorksTyped'
  BY PutsTyped DEF Leaves

\* The handlers that are started.
LEMMA ManagerPressTyped ==
    ASSUME ManagerTyped, NEW w \in Works,
           \/ \E filter \in { "all", "confirmed" } : SetStayFilter(w, filter)
           \/ \E r \in Stays : PressCancel(w, r) \/ PressConfirm(w, r)
           \/ PressRetry(w) \/ LoadNotices(w)
           \/ \E marked \in SUBSET Notices : PressRead(w, marked)
           \/ \E t \in Tickets : PressTicket(w, t)
    PROVE  ManagerTyped'
<1>0. WorksTyped /\ StaysTyped /\ LogTyped /\ NoticesTyped
  BY DEF ManagerTyped
<1>1. Stays \subseteq Nat /\ Tickets \subseteq Nat /\ 0 \in Nat
  BY DeskAssumption
<1>2. ASSUME NEW filter \in { "all", "confirmed" }, SetStayFilter(w, filter)
      PROVE  ManagerTyped'
  <2> DEFINE work == [ NewWork("rows", 0, "reload") EXCEPT !.arg = filter ]
  <2>1. filter \in ReservationStatus \cup {"all"}
    BY DEF ReservationStatus
  <2>2. work \in Work /\ work.op = "rows"
    BY <1>0, <2>1 DEF NewWork, Work, StaysTyped
  <2>3. WorksTyped'
    <3>1. works' = [ works EXCEPT ![w] = work ]
      BY <1>2 DEF SetStayFilter, Puts
    <3> HIDE DEF work
    <3> QED
      BY <2>2, <3>1, PutsTyped DEF WorkOfKind
  <2> QED
    BY <1>0, <1>2, <2>1, <2>3
    DEF SetStayFilter, ManagerTyped, StaysTyped, LogTyped, NoticesTyped, logVars, noticeVars
<1>3. ASSUME NEW r \in Stays, PressCancel(w, r) \/ PressConfirm(w, r) PROVE ManagerTyped'
  <2>1. \E op \in { "cancel", "confirm" }, step \in { "terms", "ask", "send" } :
          works' = [ works EXCEPT ![w] = NewWork(op, r, step) ]
    BY <1>3 DEF PressCancel, PressConfirm, Puts
  <2>2. WorksTyped'
    <3>1. PICK op \in { "cancel", "confirm" }, step \in { "terms", "ask", "send" } :
            works' = [ works EXCEPT ![w] = NewWork(op, r, step) ]
      BY <2>1
    <3>2. /\ NewWork(op, r, step) \in Work
          /\ NewWork(op, r, step).op = op /\ NewWork(op, r, step).id = r
      BY <1>1, NewWorkTyped
    <3> QED
      BY <3>1, <3>2, PutsTyped DEF WorkOfKind
  <2> QED
    BY <1>0, <1>3, <2>2
    DEF PressCancel, PressConfirm, ManagerTyped, StaysTyped, LogTyped, NoticesTyped,
        stayVars, logVars, noticeVars
<1>4. CASE PressRetry(w) \/ LoadNotices(w)
  <2>1. \E op \in { "retry", "lists" }, step \in { "send", "reload" } :
          works' = [ works EXCEPT ![w] = NewWork(op, 0, step) ]
    BY <1>4 DEF PressRetry, LoadNotices, Puts
  <2>2. WorksTyped'
    <3>1. PICK op \in { "retry", "lists" }, step \in { "send", "reload" } :
            works' = [ works EXCEPT ![w] = NewWork(op, 0, step) ]
      BY <2>1
    <3>2. /\ NewWork(op, 0, step) \in Work
          /\ NewWork(op, 0, step).op = op /\ NewWork(op, 0, step).id = 0
      BY <1>1, NewWorkTyped
    <3> QED
      BY <3>1, <3>2, PutsTyped DEF WorkOfKind
  <2> QED
    BY <1>0, <1>4, <2>2
    DEF PressRetry, LoadNotices, ManagerTyped, StaysTyped, LogTyped, NoticesTyped,
        stayVars, logVars, noticeVars
<1>5. ASSUME NEW marked \in SUBSET Notices, PressRead(w, marked) PROVE ManagerTyped'
  <2> DEFINE work == [ NewWork("mark", 0, "send") EXCEPT !.marked = marked, !.prev = readShown ]
  <2>1. work \in Work /\ work.op = "mark"
    BY <1>0 DEF NewWork, Work, StaysTyped, NoticesTyped
  <2>2. WorksTyped'
    <3>1. works' = [ works EXCEPT ![w] = work ]
      BY <1>5 DEF PressRead, Puts
    <3> HIDE DEF work
    <3> QED
      BY <2>1, <3>1, PutsTyped DEF WorkOfKind
  <2> QED
    BY <1>0, <1>5, <2>2
    DEF PressRead, ManagerTyped, StaysTyped, LogTyped, NoticesTyped, stayVars, logVars
<1>6. ASSUME NEW t \in Tickets, PressTicket(w, t) PROVE ManagerTyped'
  <2> DEFINE next == NextTicket[ticketRows[t]]
             work == [ NewWork("ticket", t, "send") EXCEPT !.arg = next ]
  <2>1. next \in TicketStatus
    BY <1>0 DEF NoticesTyped, NextTicket, TicketStatus
  <2> HIDE DEF next
  <2>2. /\ work \in Work /\ work.op = "ticket" /\ work.id = t /\ work.arg = next
    BY <1>0, <1>1, <2>1 DEF NewWork, Work, StaysTyped
  <2>3. WorksTyped'
    <3>1. works' = [ works EXCEPT ![w] = work ]
      BY <1>6 DEF PressTicket, Puts, next
    <3> HIDE DEF work
    <3> QED
      BY <2>1, <2>2, <3>1, PutsTyped DEF WorkOfKind
  <2> QED
    BY <1>0, <1>6, <2>3
    DEF PressTicket, ManagerTyped, StaysTyped, LogTyped, NoticesTyped, stayVars, logVars,
        noticeVars
<1> QED
  BY <1>2, <1>3, <1>4, <1>5, <1>6

\* The reservations.
LEMMA StayStepTyped ==
    ASSUME ManagerTyped,
           \/ \E w \in Works :
                \/ \E ok \in BOOLEAN : TermsArrive(w, ok) \/ AskCancel(w, ok)
                \/ ServeCancel(w) \/ CancelAnswered(w) \/ ServeConfirm(w)
                \/ StayRowsArrive(w)
           \/ \E r \in Stays, s \in ReservationStatus : StayMoves(r, s)
    PROVE  ManagerTyped'
<1>0. WorksTyped /\ StaysTyped /\ LogTyped /\ NoticesTyped
  BY DEF ManagerTyped
<1>1. ASSUME NEW w \in Works,
             \/ \E ok \in BOOLEAN : TermsArrive(w, ok) \/ AskCancel(w, ok)
             \/ ServeCancel(w) \/ CancelAnswered(w) \/ ServeConfirm(w)
             \/ StayRowsArrive(w)
      PROVE  ManagerTyped'
  <2>1. WorksTyped'
    BY <1>1, PassesTyped, LeavesTyped
    DEF TermsArrive, AskCancel, ServeCancel, CancelAnswered, ServeConfirm, StayRowsArrive, On
  <2>2. works[w] # NoWork /\ works[w].op \in { "cancel", "confirm" } => works[w].id \in Stays
    BY <1>0 DEF WorksTyped, WorkOfKind
  <2>3. StaysTyped'
    BY <1>0, <1>1, <2>2
    DEF TermsArrive, AskCancel, ServeCancel, CancelAnswered, ServeConfirm, StayRowsArrive, On,
        StaysTyped, ReservationStatus, stayVars
  <2>4. UNCHANGED << logVars, noticeVars >>
    BY <1>1
    DEF TermsArrive, AskCancel, ServeCancel, CancelAnswered, ServeConfirm, StayRowsArrive
  <2> QED
    BY <1>0, <2>1, <2>3, <2>4 DEF ManagerTyped, LogTyped, NoticesTyped, logVars, noticeVars
<1>2. ASSUME NEW r \in Stays, NEW s \in ReservationStatus, StayMoves(r, s) PROVE ManagerTyped'
  BY <1>0, <1>2
  DEF StayMoves, ManagerTyped, WorksTyped, StaysTyped, LogTyped, NoticesTyped, logVars,
      noticeVars
<1> QED
  BY <1>1, <1>2

\* The log.
LEMMA LogStepTyped ==
    ASSUME ManagerTyped,
           \/ \E w \in Works : Retried(w)
           \/ Fires \/ LoadLog
           \/ \E ok \in BOOLEAN : LogArrives(ok)
    PROVE  ManagerTyped'
<1>0. WorksTyped /\ StaysTyped /\ LogTyped /\ NoticesTyped
  BY DEF ManagerTyped
<1>1. ASSUME NEW w \in Works, Retried(w) PROVE ManagerTyped'
  BY <1>0, <1>1, LeavesTyped
  DEF Retried, Armed, ManagerTyped, StaysTyped, LogTyped, NoticesTyped, stayVars, noticeVars
<1>2. CASE Fires \/ LoadLog \/ \E ok \in BOOLEAN : LogArrives(ok)
  <2>1. LogTyped'
    <3>1. MaxLoads \in Nat /\ logLoads \in 0..MaxLoads
      BY <1>0, DeskAssumption DEF LogTyped
    <3>2. logLoads' \in 0..MaxLoads
      BY <1>2, <3>1 DEF Fires, LoadLog, SendsLoad, LogArrives
    <3> QED
      BY <1>0, <1>2, <3>2 DEF Fires, LoadLog, SendsLoad, LogArrives, Refreshed, LogTyped
  <2>2. UNCHANGED << works, stayVars, noticeVars >>
    BY <1>2 DEF Fires, LoadLog, LogArrives
  <2> QED
    BY <1>0, <2>1, <2>2
    DEF ManagerTyped, WorksTyped, StaysTyped, NoticesTyped, stayVars, noticeVars
<1> QED
  BY <1>1, <1>2

\* The notices and the tickets; what fails restores what its handler saw.
LEMMA NoticeStepTyped ==
    ASSUME ManagerTyped, NEW w \in Works,
           MarkRead(w) \/ SetTicket(w) \/ NoticesArrive(w) \/ WorkFails(w)
    PROVE  ManagerTyped'
<1>0. WorksTyped /\ StaysTyped /\ LogTyped /\ NoticesTyped
  BY DEF ManagerTyped
<1>1. /\ works[w] \in Work /\ works[w].marked \subseteq Notices /\ works[w].prev \subseteq Notices
      /\ works[w].op = "ticket" => works[w].arg \in TicketStatus
  BY <1>0 DEF MarkRead, SetTicket, NoticesArrive, WorkFails, On, WorksTyped, WorkOfKind, Work
<1>2. WorksTyped'
  BY PassesTyped, LeavesTyped DEF MarkRead, SetTicket, NoticesArrive, WorkFails, On
<1>3. NoticesTyped'
  BY <1>0, <1>1 DEF MarkRead, SetTicket, NoticesArrive, WorkFails, On, NoticesTyped
<1>4. UNCHANGED << stayVars, logVars >>
  BY DEF MarkRead, SetTicket, NoticesArrive, WorkFails
<1> QED
  BY <1>0, <1>2, <1>3, <1>4 DEF ManagerTyped, StaysTyped, LogTyped, stayVars, logVars

LEMMA ManagerAlwaysTyped == ConsolesSpec => []ManagerTyped
<1>1. ManagerTyped /\ [ConsolesNext]_consoleVars => ManagerTyped'
  <2> SUFFICES ASSUME ManagerTyped, [ConsolesNext]_consoleVars PROVE ManagerTyped'
    OBVIOUS
  <2>1. CASE UNCHANGED managerDeskVars
    BY <2>1
    DEF ManagerTyped, WorksTyped, StaysTyped, LogTyped, NoticesTyped, managerDeskVars,
        stayVars, logVars, noticeVars
  <2>2. CASE BookingsNext
    BY <2>2, ManagerPressTyped, StayStepTyped, NoticeStepTyped DEF BookingsNext
  <2>3. CASE LogNext
    BY <2>3, ManagerPressTyped, LogStepTyped, NoticeStepTyped DEF LogNext
  <2>4. CASE NoticesNext
    BY <2>4, ManagerPressTyped, NoticeStepTyped DEF NoticesNext
  <2> QED
    BY <2>1, <2>2, <2>3, <2>4, ManagerDeskSteps
<1>2. ConsolesInit => ManagerTyped
  BY ManagerTypesAtFirst DEF ConsolesInit
<1> QED
  BY <1>1, <1>2, PTL DEF ConsolesSpec

----------------------------------------------------------------------------
\* All of the pages

\* Whatever is answered late, lost or overlaps, every page is in a state that its code
\* expects: the chat collects one booking at a time and drafts only what is complete, a
\* handler of the console ends on a row of its kind (AIConcierge.tsx, InStayConcierge.tsx,
\* app/page.tsx, app/stays/[id]/page.tsx, app/manager/page.tsx and its sections).
THEOREM TypeCorrect == ConsolesSpec => []TypeOK
<1>1. ConsolesInit => part \in Parts
  BY DEF ConsolesInit
<1>2. part \in Parts /\ [ConsolesNext]_consoleVars => (part \in Parts)'
  BY DEF ConsolesNext, consoleVars
<1>3. ChatTyped => ChatTypeOK
  <2> SUFFICES ASSUME ChatTyped PROVE ChatTypeOK
    OBVIOUS
  <2>1. << filled, chatLoading, typing, booking >> \in BOOLEAN \X BOOLEAN \X BOOLEAN \X BOOLEAN
    BY DEF ChatTyped, FlagsTyped
  <2>2. /\ bookingDraft \in { t \in Target : t.has = Needed } \cup {NoTarget}
        /\ pending \in { t \in Target : t.has # Needed } \cup {NoTarget}
        /\ pending = NoTarget \/ bookingDraft = NoTarget
        /\ pay \in Pay \cup {NoPay} /\ redirect \in Pay \cup {NoPay}
        /\ creating \in Create \cup {NoPay}
        /\ made \in [ Bookings -> Rooms \cup {NoTarget} ]
    BY DEF ChatTyped, BookingTyped, OneAtATime
  <2>3. /\ reply \in ChatReply \cup {NoReply} /\ url \subseteq Needed
        /\ turns \in [ Turns -> Turn \cup {NoTurn} ]
        /\ services \subseteq Bookings /\ session = NoTarget
        /\ other \in Memory \cup {NoMemory}
    BY DEF ChatTyped, TalkTyped, NoDraftIsSent, MemoryTyped
  <2> QED
    BY <2>1, <2>2, <2>3 DEF ChatTypeOK
<1>4. EditorTyped => ManagerEditorTypeOK
  BY DEF EditorTyped, ManagerEditorTypeOK, BackendTyped, ListTyped, FormTyped, JobsTyped,
         SectionTyped, CountsTyped
<1>5. ManagerTyped => ManagerDeskTypeOK
  <2> SUFFICES ASSUME ManagerTyped PROVE ManagerDeskTypeOK
    OBVIOUS
  <2>1. << timer, owed >> \in BOOLEAN \X BOOLEAN
    BY DEF ManagerTyped, LogTyped
  <2> QED
    BY <2>1 DEF ManagerTyped, ManagerDeskTypeOK, WorksTyped, StaysTyped, LogTyped, NoticesTyped
<1>6. (part \in Parts /\ InStayTypeOK /\ ConciergeTypeOK /\ ServiceDeskTypeOK /\ SearchTypeOK
         /\ ChatTyped /\ EditorTyped /\ ManagerTyped) => TypeOK
  BY <1>3, <1>4, <1>5 DEF TypeOK
<1>7. ConsolesSpec => [](part \in Parts)
  BY <1>1, <1>2, PTL DEF ConsolesSpec
<1> QED
  BY <1>6, <1>7, ServicesAreTyped, SearchAlwaysTyped, ChatAlwaysTyped, EditorAlwaysTyped,
     ManagerAlwaysTyped, PTL

=============================================================================
