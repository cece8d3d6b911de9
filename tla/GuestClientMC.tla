---------------------------- MODULE GuestClientMC ----------------------------
(***************************************************************************)
(* Instances of GuestClient.  GuestClient.cfg: one reservation to make,    *)
(* and one of another address that this browser remembers.                 *)
(* GuestTokens.cfg: two to make beside the one that is remembered, all of  *)
(* one address, with places for two tokens, so that searches and rows      *)
(* overlap and the list of tokens is filled past its bound.                *)
(***************************************************************************)
EXTENDS GuestClient, TLC

CONSTANTS e1, e2

MCEmailOf == 0 :> e2 @@ 1 :> e1
MCOneEmail == [ r \in Ids |-> e1 ]

\* Ids are given in order.  Two searches, or two requests of rows, are under way
\* while two reservations exist; with the third one there is one of each.
TokensBounded ==
    /\ Bounded
    /\ Exists(2)' => Exists(1)' /\ Len(loads') <= 1 /\ Len(rowCalls') <= 1

\* Bookings that are made, looked up, confirmed and cancelled by anybody while
\* the guest never presses Pay: no token is kept or dropped on account of money.
TokensNext ==
    \/ \E page \in Pages : Arrive(page) /\ TokensBounded
    \/ Book
    \/ CheckoutNext /\ UNCHANGED << payVars, accountVars >> /\ TokensBounded
    \/ ServerNext /\ UNCHANGED << checkoutVars, payVars, accountVars >>
    \/ LeavePayment /\ UNCHANGED << checkoutVars, accountVars >>
    \/ AccountNext /\ UNCHANGED << checkoutVars, payVars >> /\ TokensBounded

TokensSpec == Init /\ [][TokensNext]_vars

=============================================================================
