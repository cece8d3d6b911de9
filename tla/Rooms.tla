-------------------------------- MODULE Rooms --------------------------------
(***************************************************************************)
(* The rooms of one room type and the stays that compete for them: what    *)
(* services/room_inventory_service.py answers to the handlers that take a  *)
(* room.  How it counts is the subject of RoomInventory.                   *)
(***************************************************************************)
EXTENDS Lifecycle, Naturals, FiniteSets

CONSTANTS
    Reservations,      \* reservation ids the database may hand out
    Nights,            \* the calendar
    Stay,              \* Stay[r]: the nights from check_in to check_out of r
    Inventory          \* RoomType.total_inventory

ASSUME StayAssumption == Stay \in [Reservations -> SUBSET Nights]
ASSUME FiniteAssumption == IsFiniteSet(Reservations)
ASSUME InventoryAssumption == Inventory \in Nat

\* Mutant: one guest too many.
RoomFreeOffByOne(st, r) ==
    \A n \in Stay[r] :
        Cardinality({ q \in Reservations \ {r} :
                        st[q] \in Blocking /\ n \in Stay[q] }) <= Inventory

\* room_type_available_count > 0 for the stay of r, given the statuses st.
\* r itself is not counted: it holds nothing yet, or is excluded by id.
RoomFree(st, r) ==
    \A n \in Stay[r] :
        Cardinality({ q \in Reservations \ {r} :
                        st[q] \in Blocking /\ n \in Stay[q] }) < Inventory

=============================================================================
