------------------------------ MODULE StaySearch ------------------------------
(***************************************************************************)
(* How a guest searches dates: the search of the home page (app/page.tsx), *)
(* the page of a stay with the rooms it offers (app/stays/[id]/page.tsx)   *)
(* and its booking card (components/StayBookingCard.tsx), and the picker   *)
(* that both use (components/DateRangePicker.tsx).  A search travels in    *)
(* the address; a page keeps its input when only the address changes, so   *)
(* that what is typed and what is shown may differ.                        *)
(*                                                                         *)
(* Days are numbers and NoDay comes before all of them, as "" does.        *)
(***************************************************************************)
EXTENDS Integers

CONSTANTS
    LastDay,        \* maxBookDate: today and the booking horizon
    MaxNights,      \* MAX_STAY_NIGHTS
    PreviewNights,  \* the nights that a page without dates looks at
    MaxGuests,      \* max_guests of the listing
    Urls,           \* the searches of addresses from outside
    NoTrip          \* nothing is loaded

NoDay == 0
Today == 2          \* day 1 is yesterday
AutoNights == 2     \* AUTO_NIGHTS

Inventory == INSTANCE RoomInventory WITH NoType <- NoTrip

\* A search of an address; guests may be left out (0).
Range == [ in : Nat, out : Nat ]
Search == [ in : Nat, out : Nat, guests : Nat ]
Empty == [ in |-> NoDay, out |-> NoDay, guests |-> 0 ]

\* A page that is loaded, in place of the page that is open if it is soft.
Trip == [ to : { "home", "stay" }, search : Search, soft : BOOLEAN ]

ASSUME SearchAssumption ==
    /\ LastDay \in Nat /\ LastDay >= Today + 3
    /\ MaxNights \in Nat \ {0} /\ PreviewNights \in Nat \ {0}
    /\ MaxGuests \in Nat \ {0}
    /\ Urls \subseteq Search
    /\ NoTrip \notin Trip

VARIABLES
    place,      \* the page that is open
    search,     \* its search
    seen,       \* the nights with a free room when the page was made
    range,      \* the dates in the picker: innerRange, or those of the card
    party,      \* the number in the field of the guests
    field,      \* activeField, while the calendar is open
    applying,   \* isApplyingSearch
    touched,    \* what the guest has changed since it was filled
    trip        \* what is loaded

inputVars == << range, party, field, touched >>
searchVars == << place, search, seen, applying, trip, inputVars >>

SearchTypeOK ==
    /\ place \in { "home", "stay", "missing" }
    /\ search \in Search /\ range \in Range /\ party \in Nat
    /\ seen \subseteq 1..LastDay + 1
    /\ field \in { "none", "checkIn", "checkOut" }
    /\ applying \in BOOLEAN
    /\ touched \subseteq { "range", "guests" }
    /\ trip \in Trip \cup {NoTrip}

AtMost(a, b) == IF a <= b THEN a ELSE b
AtLeast(a, b) == IF a >= b THEN a ELSE b
Dates(in, out) == [ in |-> in, out |-> out ]

----------------------------------------------------------------------------
\* What a page makes of its search

\* heroCheckIn and heroCheckOut: the dates of an address that make sense, or a
\* short trip from tomorrow.
HeroRange(s) ==
    IF s.in = NoDay THEN Dates(Today + 1, Today + 3)
    ELSE Dates(s.in, IF s.out > s.in THEN s.out ELSE s.in + 2)

\* normalizeGuests: at most twelve; the default of two is for what is no number,
\* and "" is one.
HeroGuests(s) == AtMost(12, AtLeast(1, s.guests))

\* normalizedInitialGuests.
CardGuests(s) ==
    IF s.guests = 0 THEN AtMost(2, MaxGuests)
    ELSE AtMost(MaxGuests, AtLeast(1, s.guests))

PageRange(p, s) == IF p = "home" THEN HeroRange(s) ELSE Dates(s.in, s.out)
PageGuests(p, s) == IF p = "home" THEN HeroGuests(s) ELSE CardGuests(s)

\* selectedRangeValid.
SelectedRange(s) == s.in # NoDay /\ s.out > s.in /\ s.in >= Today

\* Mutant: a window that begins early enough will do.
CoversStart(w, s) == w.from <= s.in

\* The window of a room that the selected dates fit in.
CoversStay(w, s) == w.from <= s.in /\ w.to >= s.out

RoomWindows(from, to, free) ==
    Inventory!Windows([ d \in from..to - 1 |-> IF d \in free THEN 1 ELSE 0 ], from, to)

\* roomOptions, with the dates of availabilityRoomHref: the dates that are
\* selected, or the beginnings of the first two windows.
Offered(s, free) ==
    IF SelectedRange(s)
    THEN LET found == RoomWindows(s.in, s.out, free)
         IN  { Dates(s.in, s.out) :
                 i \in { j \in DOMAIN found : CoversStay(found[j], s) } }
    ELSE LET found == RoomWindows(Today, Today + PreviewNights, free)
         IN  { Dates(found[i].from,
                     found[i].from + AtMost(AtLeast(found[i].to - found[i].from, 1), 2)) :
                 i \in { j \in DOMAIN found : j <= 2 } }

----------------------------------------------------------------------------
\* The picker

InBounds(d) == d \in Today..LastDay

\* A check-out after the check-in, or none if the horizon ends before.
AutoOut(in) == IF in + AutoNights <= LastDay THEN in + AutoNights ELSE NoDay

\* A check-out that is not after the check-in begins a new range.
StartsOver(d) == range.in = NoDay \/ d <= range.in

\* applyDate.
AppliedDate(f, d) ==
    IF f = "checkIn" THEN Dates(d, IF range.out > d THEN range.out ELSE AutoOut(d))
    ELSE IF StartsOver(d) THEN Dates(d, AutoOut(d))
    ELSE Dates(range.in, d)
Completes(f, d) == f = "checkOut" /\ ~StartsOver(d)

\* commitRange, in the home page or with the card as its owner.
Commits(r) ==
    /\ range' = r
    /\ touched' = touched \cup {"range"}
    /\ UNCHANGED << place, search, seen, party, applying, trip >>

OpenCalendar(f) ==
    /\ place # "missing"
    /\ field' = IF f = "checkOut" /\ range.in = NoDay THEN "checkIn" ELSE f
    /\ UNCHANGED << place, search, seen, range, party, applying, touched, trip >>

CloseCalendar ==
    /\ field # "none" /\ field' = "none"
    /\ UNCHANGED << place, search, seen, range, party, applying, touched, trip >>

PickDay(d) ==
    /\ field # "none" /\ InBounds(d)
    /\ Commits(AppliedDate(field, d))
    /\ field' = IF Completes(field, d) THEN "none" ELSE "checkOut"

\* onDateInput with a day; anything else stays in the field and changes nothing.
TypeDay(f, d) ==
    /\ place # "missing" /\ InBounds(d)
    /\ Commits(AppliedDate(f, d))
    /\ field' = IF field = "none" \/ Completes(f, d) THEN field ELSE "checkOut"

\* onDateInput with nothing left.
EraseDay(f) ==
    /\ place # "missing"
    /\ Commits(Dates(IF f = "checkIn" THEN NoDay ELSE range.in, NoDay))
    /\ UNCHANGED field

ClearDates ==
    /\ field # "none"
    /\ Commits(Dates(NoDay, NoDay))
    /\ field' = "checkIn"

ApplyToday ==
    /\ field # "none"
    /\ Commits(Dates(Today, AutoOut(Today)))
    /\ field' = "checkOut"

----------------------------------------------------------------------------
\* The card and the search of the home page

\* applyDateRange: tomorrow, the nearest Saturday or next week.
Shortcut(in, nights) ==
    /\ place = "stay"
    /\ in > Today
    /\ Commits(Dates(in, AtMost(in + AtMost(MaxNights, nights), LastDay)))
    /\ UNCHANGED field

ClearCard ==
    /\ place = "stay"
    /\ Commits(Dates(NoDay, NoDay))
    /\ UNCHANGED field

SetGuests(n) ==
    /\ place # "missing"
    /\ place = "stay" => n <= MaxGuests
    /\ party' = n
    /\ touched' = touched \cup {"guests"}
    /\ UNCHANGED << place, search, seen, range, field, applying, trip >>

\* formValid.  A check-in that has passed is not looked for.
FormValid ==
    /\ range.in # NoDay /\ range.in <= LastDay
    /\ range.out > range.in /\ range.out - range.in <= MaxNights
    /\ party \in 1..MaxGuests

FormSearch == [ in |-> range.in, out |-> range.out, guests |-> party ]

\* A navigation takes the place of the one before, if the page is not left.
Goes(to, s, soft) ==
    /\ trip # NoTrip => trip.soft
    /\ trip' = [ to |-> to, search |-> s, soft |-> soft ]
    /\ UNCHANGED << place, search, seen, inputVars >>

\* onSubmit; the button never comes back.
ShowRooms ==
    /\ place = "stay" /\ ~applying /\ FormValid
    /\ applying' = TRUE
    /\ Goes("stay", FormSearch, TRUE)

\* The form of the home page loads the page anew.
SearchHome ==
    /\ place = "home"
    /\ Goes("home", FormSearch, FALSE)
    /\ UNCHANGED applying

\* stayDetailsHref: the dates of the page, not those of the picker.
OpenStay ==
    /\ place = "home"
    /\ LET r == HeroRange(search)
       IN  Goes("stay", [ in |-> r.in, out |-> r.out, guests |-> HeroGuests(search) ], TRUE)
    /\ UNCHANGED applying

\* quickFilterLink and resetFiltersLink: the search of the page, with the dates or
\* the guests taken out, or both.
Filtered ==
    { search, [ search EXCEPT !.guests = 0 ],
      [ search EXCEPT !.in = NoDay, !.out = NoDay ], Empty }

Filter(s) ==
    /\ place = "home"
    /\ s \in Filtered
    /\ Goes("home", s, TRUE)
    /\ UNCHANGED applying

GoHome ==
    /\ place = "stay"
    /\ Goes("home", Empty, TRUE)
    /\ UNCHANGED applying

\* An address from outside, in a new page, or an earlier one of the history.
Visit(to, s, soft) ==
    /\ s \in Urls
    /\ soft => place = to
    /\ Goes(to, s, soft)
    /\ UNCHANGED applying

----------------------------------------------------------------------------
\* The page is made and shown

SamePage(t) == t.soft /\ t.to = place

\* Mutant: the guests are not among what the effect goes by.
RefilledByDates(t) == PageRange(place, t.search) # PageRange(place, search)

\* The effects that fill the input anew when what the page says has changed.
Refilled(t) ==
    \/ PageRange(place, t.search) # PageRange(place, search)
    \/ place = "stay" /\ PageGuests(place, t.search) # PageGuests(place, search)

\* The field of the home page shows a new default until the guest writes in it.
GuestsShown(t) ==
    IF place = "home" THEN "guests" \notin touched ELSE Refilled(t)

\* The same page with another search keeps its input, else it is filled.
PageArrives(free) ==
    /\ trip # NoTrip /\ trip' = NoTrip
    /\ place' = trip.to /\ search' = trip.search
    /\ seen' = IF trip.to = "stay" THEN free ELSE {}
    /\ IF SamePage(trip)
       THEN /\ range' = IF Refilled(trip) THEN PageRange(place, trip.search) ELSE range
            /\ party' = IF GuestsShown(trip) THEN PageGuests(place, trip.search) ELSE party
            /\ touched' = IF ~Refilled(trip) THEN touched
                          ELSE IF place = "stay" THEN {} ELSE touched \ {"range"}
            /\ UNCHANGED << field, applying >>
       ELSE /\ range' = PageRange(trip.to, trip.search)
            /\ party' = PageGuests(trip.to, trip.search)
            /\ touched' = {} /\ field' = "none" /\ applying' = FALSE

\* Any request that fails makes a page of a stay that is not found.
NotFound ==
    /\ trip # NoTrip /\ trip.to = "stay" /\ trip' = NoTrip
    /\ place' = "missing" /\ search' = Empty /\ seen' = {}
    /\ range' = Dates(NoDay, NoDay) /\ party' = 0
    /\ touched' = {} /\ field' = "none" /\ applying' = FALSE

StaySearchInit ==
    /\ place = "home" /\ search \in Urls /\ seen = {}
    /\ range = HeroRange(search) /\ party = HeroGuests(search)
    /\ field = "none" /\ applying = FALSE /\ touched = {} /\ trip = NoTrip

PickerNext ==
    \/ \E f \in { "checkIn", "checkOut" } :
         \/ OpenCalendar(f) \/ EraseDay(f)
         \/ \E d \in Today..LastDay : TypeDay(f, d)
    \/ \E d \in Today..LastDay : PickDay(d)
    \/ CloseCalendar \/ ClearDates \/ ApplyToday

StaySearchNext ==
    \/ PickerNext
    \/ \E in \in Today + 1..LastDay - 1, nights \in { 2, 7 } : Shortcut(in, nights)
    \/ ClearCard
    \/ \E n \in 1..MaxGuests + 1 : SetGuests(n)
    \/ ShowRooms \/ SearchHome \/ OpenStay \/ GoHome
    \/ \E s \in Filtered : Filter(s)
    \/ \E to \in { "home", "stay" }, s \in Urls, soft \in BOOLEAN : Visit(to, s, soft)
    \/ \E free \in SUBSET (Today..LastDay) : PageArrives(free)
    \/ NotFound

----------------------------------------------------------------------------
\* Properties

\* Every room that a page offers, on the dates of its link, is free for all of
\* these nights in what the page was made from: the window that the link comes
\* from spans them, whether the guest chose the dates or the page did.
OfferedIsFree ==
    place = "stay" => \A r \in Offered(search, seen) : r.in..r.out - 1 \subseteq seen

\* What the guest has not changed is what the page's address says, however the
\* page was reached: a search that arrives while the old one is shown fills the
\* dates and the guests anew.
UntouchedIsSearch ==
    place # "missing" =>
        /\ "range" \notin touched => range = PageRange(place, search)
        /\ "guests" \notin touched => party = PageGuests(place, search)

=============================================================================
