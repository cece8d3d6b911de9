------------------------------ MODULE RoomLedger ------------------------------
(***************************************************************************)
(* What a booking system owes its guests, without payments, clocks or      *)
(* retries: a ledger of the reservations that hold a room.  A reservation  *)
(* enters the ledger only when a room is left on every night of its stay,  *)
(* and leaves it at any time.  Booking implements this ledger with the     *)
(* holds that were checked against the calendar.                           *)
(***************************************************************************)
EXTENDS Naturals

CONSTANTS
    Reservations,   \* the reservations that may ask for a room
    Nights,         \* the calendar
    Stay,           \* Stay[r]: the nights of r
    Inventory,      \* the number of rooms
    Size(_)         \* the number of elements of a set of reservations

VARIABLE held   \* the reservations that hold a room

\* The reservations of H that sleep in the house on night n.
Occupants(H, n) == { q \in H : n \in Stay[q] }

\* One more room is left on every night of r.
Admissible(H, r) ==
    \A n \in Stay[r] : Size(Occupants(H, n)) < Inventory

Init == held = {}

Release ==
    \E S \in SUBSET held : held' = held \ S

\* Taking a room may come with the release of others (the sweep runs first).
Acquire(r) ==
    \E S \in SUBSET held :
        /\ Admissible((held \ S) \ {r}, r)
        /\ held' = (held \ S) \cup {r}

Next == Release \/ \E r \in Reservations : Acquire(r)

Spec == Init /\ [][Next]_held

\* No night ever has more occupants than rooms.
Fits == \A n \in Nights : Size(Occupants(held, n)) <= Inventory

=============================================================================
