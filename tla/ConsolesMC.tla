------------------------------- MODULE ConsolesMC -------------------------------
(***************************************************************************)
(* The pages at work on small instances, part by part.                     *)
(***************************************************************************)
EXTENDS Consoles

CONSTANT s1

MCOrigins == Keys \cup {NoKey}
MCOfListing == [ id \in Types \cup Blocks |-> 1 ]

\* Addresses with no dates, with dates in order and not, and with one that passed.
MCUrl(in, out, guests) == [ in |-> in, out |-> out, guests |-> guests ]
MCUrls == { Empty, MCUrl(3, 5, 1), MCUrl(5, 3, 3), MCUrl(1, 4, 0) }

\* A part that is not at work starts in one state; the services of the hotel are
\* a menu or a restaurant.
MCInit ==
    /\ ConsolesInit
    /\ open <=> menu[1] = "none"
    /\ part \notin { "concierge", "kitchen" } => open
    /\ part = "kitchen" => ~open
    /\ part # "listings" => listing[1] = "active"
    /\ part = "calendar" => listing[2] = "gone"
    /\ part # "bookings" => \A r \in Stays : stays[r] = "draft"
    /\ part # "search" => search = Empty

\* The console looks at one request of the guests, the guest's page at two.  The
\* second handler of the editor loads the list only, and only in the list.
MCConsolesBounded ==
    /\ part = "concierge" => Cardinality(patches') <= 1 /\ (patches' # {} => flows'[2] = Idle)
    /\ part \in { "dining", "kitchen" } => tables'[2] = NoRow /\ orders'[2] = NoRow
    /\ part = "listings" => availability' = NoAnswer
    /\ part = "calendar" => dates' # {2}
    /\ jobs'[2] # NoJob =>
         part = "listings" /\ jobs'[2].op = "load" /\ editingId' = 0

\* While a page is loaded the calendar is closed, and the guest takes dates out or
\* sets the guests to one.  The dates are changed on the pages of the addresses.
MCSearchBounded ==
    /\ trip' # NoTrip => field' = "none"
    /\ (trip # NoTrip /\ trip' = trip) => range'.out \in { range.out, NoDay }
    /\ trip' = trip => party' \in { party, 1 }
    /\ seen' \in { {}, {3}, {3, 4} }
    /\ search' \notin Urls => "range" \notin touched'

\* An answer knows the dates, the address the guests.  The other language comes into
\* play while no message is answered, and the second turn before the chat has
\* ordered services or made a second reservation.
MCChatBounded ==
    /\ url' \subseteq {"guests"}
    /\ reply' \in { NoReply, [ has |-> {"dates"} ] }
    /\ (creating' # NoPay \/ pending' # NoTarget) => url' = {}
    /\ other' # NoMemory => \A k \in Turns : turns'[k] = NoTurn
    /\ turns'[2] # NoTurn => services' = {} /\ made'[2] = NoTarget

MCBounded ==
    /\ MCConsolesBounded
    /\ part = "search" => MCSearchBounded
    /\ part = "chat" => MCChatBounded

MCNext == ConsolesNext /\ MCBounded

Spec == MCInit /\ [][MCNext]_consoleVars /\ ConsolesFairness

=============================================================================
