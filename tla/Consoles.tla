-------------------------------- MODULE Consoles --------------------------------
(***************************************************************************)
(* The pages that people work with before the checkout and while guests    *)
(* stay: the search for a stay and the chat that books, the guest's        *)
(* in-stay page, and the partner's console with its listings, its          *)
(* services, its reservations and its messages.  They keep their state     *)
(* apart from one another, and they are examined one by one: part says     *)
(* which one is at work, and the others stay as they are opened.           *)
(***************************************************************************)
EXTENDS Concierge, ServiceDesk, ManagerEditor, ManagerDesk,
        StaySearch, ChatBooking

Parts == { "concierge", "dining", "kitchen", "listings", "calendar",
           "bookings", "log", "notices", "search", "chat" }

VARIABLE part

serviceVars == << inStayVars, conciergeVars, deskVars >>
consoleVars == << part, serviceVars, editorVars, managerDeskVars, searchVars, chatVars >>

ConsolesInit ==
    /\ part \in Parts
    /\ InStayInit /\ ConciergeInit /\ ServiceDeskInit
    /\ ManagerEditorInit /\ ManagerDeskInit /\ StaySearchInit /\ ChatInit
    /\ IF part = "calendar" THEN CalendarInit ELSE ListInit

ConsolesNext ==
    \/ /\ part = "concierge" /\ ConciergeNext
       /\ UNCHANGED << part, deskVars, editorVars, managerDeskVars, searchVars, chatVars >>
    \/ /\ \/ part = "dining" /\ DiningNext
          \/ part = "kitchen" /\ KitchenNext
       /\ UNCHANGED << part, conciergeVars, editorVars, managerDeskVars, searchVars,
                       chatVars >>
    \/ /\ \/ part = "listings" /\ ListingsNext
          \/ part = "calendar" /\ CalendarNext
       /\ UNCHANGED << part, serviceVars, managerDeskVars, searchVars, chatVars >>
    \/ /\ \/ part = "bookings" /\ BookingsNext
          \/ part = "log" /\ LogNext
          \/ part = "notices" /\ NoticesNext
       /\ UNCHANGED << part, serviceVars, editorVars, searchVars, chatVars >>
    \/ /\ part = "search" /\ StaySearchNext
       /\ UNCHANGED << part, serviceVars, editorVars, managerDeskVars, chatVars >>
    \/ /\ part = "chat" /\ ChatNext
       /\ UNCHANGED << part, serviceVars, editorVars, managerDeskVars, searchVars >>

\* The fairness of the parts; the others do not have the state for their steps.
ConsolesFairness == ConciergeFairness /\ DeskFairness /\ ChatFairness

ConsolesSpec == ConsolesInit /\ [][ConsolesNext]_consoleVars /\ ConsolesFairness

----------------------------------------------------------------------------
\* Properties

\* Every page is in a state that its code expects, whatever answers come late, are lost
\* or overlap: what is awaited, shown and kept is of its kind.
TypeOK ==
    /\ part \in Parts
    /\ InStayTypeOK /\ ConciergeTypeOK /\ ServiceDeskTypeOK
    /\ ManagerEditorTypeOK /\ ManagerDeskTypeOK
    /\ SearchTypeOK /\ ChatTypeOK

\* No page waits for ever: the actions of the in-stay chat become usable again, and
\* so do the message and the booking button of the chat that books, whatever
\* fails, is lost or overlaps.
WaitsEnd == []<>(busy = NoKey) /\ []<>~chatLoading /\ []<>~booking

=============================================================================
