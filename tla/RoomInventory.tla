---------------------------- MODULE RoomInventory ----------------------------
(***************************************************************************)
(* How services/room_inventory_service.py finds the free rooms of one room *)
(* type: a table of the free rooms per day, and a scan that joins the days *)
(* with free rooms to windows.  Pure definitions; Calendar checks what     *)
(* they return against the number of rooms that are taken.                 *)
(*                                                                         *)
(* Days are numbers.  A row (of a block or of a reservation) covers the    *)
(* days from row.from to row.to - 1: the night before row.to is the last.  *)
(***************************************************************************)
EXTENDS Integers, Sequences, FiniteSetsExt

CONSTANT NoType   \* room_type_id is NULL

\* No window is open.  Days begin with 1.
NoDay == 0

\* d is one of the days of _date_range, after _clamp_range has cut the row to
\* the days that are asked for.
Covers(row, d) == row.from <= d /\ d < row.to

\* max(0, x - y)
Cut(x, y) == IF x > y THEN x - y ELSE 0

\* What a block takes from type t: a block without type takes every room.
BlockAmount(block, t, total) ==
    IF block.type = NoType THEN total
    ELSE IF block.type = t THEN block.amount
    ELSE 0

\* A reservation without type takes a room of the primary type.
Applies(res, t, primary) ==
    res.type = t \/ (res.type = NoType /\ t = primary)

\* day_available[d], from the rows of the blocks and of the reservations that
\* hold a room (functions from ids to rows).
DayAvailable(d, t, total, primary, blocks, holds) ==
    LET blocked == { b \in DOMAIN blocks : Covers(blocks[b], d) }
        taken == { r \in DOMAIN holds :
                     Applies(holds[r], t, primary) /\ Covers(holds[r], d) }
        open == FoldSet(LAMBDA b, n : Cut(n, BlockAmount(blocks[b], t, total)),
                        total, blocked)
    IN  FoldSet(LAMBDA r, n : Cut(n, 1), open, taken)

Window(start, end, count) == [ from |-> start, to |-> end, count |-> count ]

\* Mutant: the count of a window is that of its last day.
LaterCount(count, available) == available

\* current_count, when a window goes on for another day.
NextCount(count, available) == IF available < count THEN available ELSE count

\* The scan after the days from .. d - 1.
Scan(available, from, to) ==
    LET scan[d \in from .. to] ==
          IF d = from
          THEN [ start |-> NoDay, count |-> 0, windows |-> << >> ]
          ELSE LET s == scan[d - 1]
                   a == available[d - 1]
               IN  IF a > 0 /\ s.start = NoDay
                   THEN [ s EXCEPT !.start = d - 1, !.count = a ]
                   ELSE IF a > 0
                   THEN [ s EXCEPT !.count = NextCount(@, a) ]
                   ELSE IF s.start # NoDay
                   THEN [ start |-> NoDay, count |-> 0,
                          windows |-> Append(s.windows,
                                             Window(s.start, d - 1, s.count)) ]
                   ELSE s
    IN  scan[to]

\* Mutant: a window that is still open at the end is lost.
WindowsClosed(available, from, to) == Scan(available, from, to).windows

\* _room_type_windows: the last window ends with the days that are asked for.
Windows(available, from, to) ==
    LET last == Scan(available, from, to)
    IN  IF last.start = NoDay
        THEN last.windows
        ELSE Append(last.windows, Window(last.start, to, last.count))

\* room_type_available_count: one window must span the stay.
AvailableCount(windows, from, to) ==
    IF windows # << >> /\ windows[1].from = from /\ windows[1].to = to
    THEN windows[1].count
    ELSE 0

=============================================================================
