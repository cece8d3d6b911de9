---------------------------- MODULE PaymentGamesMC ----------------------------
(***************************************************************************)
(* Three games of mock mode in one run: one is chosen at the start, so     *)
(* that the states of their instances add up and do not multiply.          *)
(***************************************************************************)
EXTENDS PaymentRacesMC

VARIABLE game    \* which reservations are played with, and how

\* One reservation that is paid with two keys, before and after a restart, by
\* every call; two that compete by the calls that take a room; three that start.
Game(n, keys, calls, crashes) ==
    [ rows : { S \in SUBSET Reservations : Cardinality(S) = n },
      keys : { keys }, calls : { calls }, restarts : { crashes } ]

MCGames ==
    Game(1, Keys, Calls, MaxRestarts)
        \cup Game(2, {"k1"}, {"start", "confirm"}, 0)
        \cup Game(3, {"k1"}, {"start"}, 0)

\* Nobody calls for the other reservations, and time does not pass for them.
MCPlayed ==
    /\ \A r \in Reservations \ game.rows : stamp'[r] = stamp[r]
    /\ \A p \in Procs : at'[p] = "opened" =>
         /\ req'[p].r \in game.rows
         /\ req'[p].key \in game.keys \cup {None}
         /\ req'[p].op \in game.calls
    /\ restarts' <= game.restarts

MCNext == Next /\ MCPlayed /\ UNCHANGED game

MCSpec == Init /\ game \in MCGames /\ [][MCNext]_<< vars, game >>

=============================================================================
