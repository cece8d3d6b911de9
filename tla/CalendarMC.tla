------------------------------ MODULE CalendarMC ------------------------------
(***************************************************************************)
(* Instances of Calendar: three days, a guest who wants a room of type 1   *)
(* and two who do not care about the type; all of them meet on day 2.      *)
(***************************************************************************)
EXTENDS Calendar, TLC

CONSTANTS r1, r2, r3, b1

MCDays == 1 .. 3
MCAsk == r1 :> [ type |-> 1, from |-> 1, to |-> 3 ]
      @@ r2 :> [ type |-> NoType, from |-> 2, to |-> 4 ]
      @@ r3 :> [ type |-> NoType, from |-> 2, to |-> 3 ]
MCRows == { [ total |-> 1, active |-> TRUE, order |-> 1 ],
            [ total |-> 2, active |-> FALSE, order |-> 0 ] }
MCSeed == 1 :> [ total |-> 2, active |-> TRUE, order |-> 0 ]
       @@ 2 :> [ total |-> 1, active |-> TRUE, order |-> 1 ]
MCRanges == { << 1, 2 >>, << 2, 4 >>, << 1, 4 >> }

=============================================================================
