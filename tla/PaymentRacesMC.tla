---------------------------- MODULE PaymentRacesMC ----------------------------
(***************************************************************************)
(* Instances of PaymentRaces: up to three reservations that want the last  *)
(* room of the same night.                                                 *)
(***************************************************************************)
EXTENDS PaymentRaces, TLC

CONSTANTS r1, r2, r3, w1, w2, loop, e1, e2

MCNights == {1}
MCStay == [ r \in Reservations |-> {1} ]

\* Threads, events and (every stay being the same) reservations are
\* interchangeable.
MCSymmetry ==
    Permutations(Workers) \cup Permutations(Events)
        \cup Permutations(Reservations)

=============================================================================
