----------------------------- MODULE GuestClient -----------------------------
(***************************************************************************)
(* One tab of a guest's browser: the checkout, the payment and the account *)
(* page, one of them mounted at a time, with the backend behind them and   *)
(* the router between them.                                                *)
(***************************************************************************)
EXTENDS Checkout, PaymentStep, GuestAccount

CONSTANT MaxInFlight    \* bound: requests of all the pages in flight

ASSUME ClientAssumption == MaxInFlight \in Nat

vars == << guestVars, checkoutVars, payVars, accountVars >>

\* A navigation ends: the old page is unmounted, the new one mounted.
Arrive(page) ==
    /\ Land(page)
    /\ CheckoutArrives(page)
    /\ PaymentArrives(page)
    /\ AccountArrives(page)
    /\ UNCHANGED server

\* The stay page leads to the checkout of the dates that were chosen there.
Book ==
    /\ at.page = "stay"
    /\ Go("checkout", EmptyUrl)
    /\ UNCHANGED << server, store, at, checkoutVars, payVars, accountVars >>

Init ==
    /\ GuestInit
    /\ CheckoutInit
    /\ PaymentInit
    /\ AccountInit

InFlight ==
    Len(requests) + Len(loads) + Len(rowCalls) + Cardinality(orphans)
      + (IF call = NoCall THEN 0 ELSE 1)

Bounded == InFlight' <= MaxInFlight

Next ==
    \/ \E page \in Pages : Arrive(page) /\ Bounded
    \/ Book
    \/ ServerNext /\ UNCHANGED << checkoutVars, payVars, accountVars >>
    \/ CheckoutNext /\ UNCHANGED << payVars, accountVars >>
         /\ Bounded
    \/ PaymentNext /\ UNCHANGED << checkoutVars, accountVars >>
         /\ Bounded
    \/ AccountNext /\ UNCHANGED << checkoutVars, payVars >>
         /\ Bounded

Spec == Init /\ [][Next]_vars /\ CheckoutFairness /\ PaymentFairness

TypeOK == GuestTypeOK /\ CheckoutTypeOK /\ PaymentTypeOK /\ AccountTypeOK

\* No form stays locked.  A submit ends, with the draft or with an error, and a
\* press of Pay ends, although the outcome may stay pending for ever: the polls of
\* waitForFinalPayment are bounded and errors are caught.
PressesEnd == []<>~isSubmitting /\ []<>~processing

=============================================================================
