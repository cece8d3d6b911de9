------------------------------ MODULE Lifecycle ------------------------------
(***************************************************************************)
(* The reservation life cycle of services/reservation_lifecycle.py: the    *)
(* statuses, the table of allowed moves and the classes of statuses the    *)
(* other services decide with.  Pure definitions; no state.                *)
(***************************************************************************)

\* Reservation.status: a handler writes no other value.
ReservationStatus ==
    { "draft", "pending_payment", "confirmed", "checked_in", "checked_out",
      "cancelled", "expired" }

\* ReservationPayment.payment_status and ReservationPaymentAttempt.status.
PaymentStatus == { "pending", "paid", "failed", "refunded" }
AttemptStatus == { "pending", "paid", "failed" }

\* BLOCKING_RESERVATION_STATUSES: a reservation that occupies a room.
Blocking == { "pending_payment", "confirmed", "checked_in" }

\* RESERVATION_TRANSITIONS.
Transitions ==
    [ draft           |-> { "pending_payment", "cancelled", "expired" },
      pending_payment |-> { "draft", "confirmed", "cancelled", "expired" },
      confirmed       |-> { "checked_in", "cancelled" },
      checked_in      |-> { "checked_out", "cancelled" },
      checked_out     |-> {},
      cancelled       |-> { "draft" },
      expired         |-> { "draft" } ]

\* transition_reservation_status returns (a move to the same status is a
\* no-op); otherwise it raises 409 and the caller's transaction is dropped.
CanMove(from, to) == from = to \/ to \in Transitions[from]

=============================================================================
