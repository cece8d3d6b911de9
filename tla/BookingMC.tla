------------------------------ MODULE BookingMC ------------------------------
(***************************************************************************)
(* Instances of Booking.  r1 and r3 each stay one night, r2 both, and      *)
(* there is one room: every pair of neighbours competes, r1 and r3         *)
(* together shut r2 out, and r2 shuts out both.                            *)
(***************************************************************************)
EXTENDS Booking, TLC

CONSTANTS r1, r2, r3, n1, n2, e1, e2, e3, k1, k2

MCStay == r1 :> {n1} @@ r2 :> {n1, n2} @@ r3 :> {n2}

\* The stays of the instance with two reservations, which share a night.
MCStay2 == r1 :> {n1} @@ r2 :> {n1, n2}

\* Event ids and idempotency keys are interchangeable: nothing but equality is
\* asked of them.
MCSymmetry == Permutations(Events) \cup Permutations(Keys)

\* So are r1 and r3 when the nights change places with them.
Mirror == { r1 :> r3 @@ r3 :> r1 @@ n1 :> n2 @@ n2 :> n1 }
MCMirror == MCSymmetry \cup Mirror

=============================================================================
