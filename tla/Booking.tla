------------------------------- MODULE Booking -------------------------------
(***************************************************************************)
(* Reservations of one room type and their payments, with every handler    *)
(* run from its first read to its last commit without interference: what   *)
(* services/reservation_service.py, services/payment_service.py and        *)
(* services/reservation_lifecycle.py promise before any race is            *)
(* considered.  PaymentRaces splits the same handlers at the commits.      *)
(*                                                                         *)
(* A guest creates a draft (no room is taken), starts a payment (the       *)
(* reservation becomes pending_payment and takes a room), and is confirmed *)
(* by the mock finalizer, by the provider's webhook or by the partner.     *)
(* Holds whose payment is not settled within the TTL are expired by a      *)
(* sweep that the worker and most handlers run.                            *)
(*                                                                         *)
(* A call that is refused (404, 409) commits nothing but the sweep it      *)
(* began with, which is the action ExpireStale; only refusals that write   *)
(* (StartUnavailable, WebhookRejected) are actions of their own.           *)
(***************************************************************************)
EXTENDS Rooms, Sequences

CONSTANTS
    Keys,              \* idempotency keys of payment attempts
    NoKey,             \* a webhook without idempotency_key
    Events,            \* provider event ids; bounds the webhooks processed
    MockProvider,      \* settings.normalized_payment_provider = "mock"
    WebhookStatuses,   \* statuses the provider posts; {} when there is none
    LegacyCalls,       \* attempt_mock_payment is called
    AlwaysRefundable   \* reservations whose tariff never keeps the full price

ASSUME KeyAssumption == NoKey \notin Keys
ASSUME ProviderAssumption ==
    /\ MockProvider \in BOOLEAN
    /\ LegacyCalls \in BOOLEAN
    /\ WebhookStatuses \subseteq { "paid", "failed", "pending" }
    /\ AlwaysRefundable \subseteq Reservations

VARIABLES
    status,      \* status[r]: Reservation.status, "none" before the INSERT
    payment,     \* payment[r]: ReservationPayment.payment_status, or "none"
    stamp,       \* stamp[r]: what the sweep compares with its cutoff
    attempts,    \* attempts[r]: the rows of r in id order
    finalizers,  \* <<r, i>>: background task for the i-th attempt of r
    seen,        \* event ids of payment_webhook_events
    unchecked    \* auxiliary: holds taken without looking at availability

vars == << status, payment, stamp, attempts, finalizers, seen, unchecked >>

----------------------------------------------------------------------------
\* Helpers

\* coalesce(attempted_at, created_at) against now - 15 minutes.
Stamps == { "created", "created_stale", "attempted", "attempted_stale" }

Attempt == [ key : Keys, fails : BOOLEAN, status : AttemptStatus ]

Exists(r) == status[r] # "none"

\* The rows expire_stale_pending_reservations selects, and its two updates.
Overdue(r) ==
    /\ status[r] = "pending_payment"
    /\ stamp[r] \in { "created_stale", "attempted_stale" }

SweptStatus ==
    [ r \in Reservations |-> IF Overdue(r) THEN "expired" ELSE status[r] ]

SweptPayment ==
    [ r \in Reservations |->
        IF Overdue(r) /\ payment[r] = "pending" THEN "failed" ELSE payment[r] ]

\* ensure_reservation_payment: the row is created when it is missing.
Ensured(p) == IF p = "none" THEN "pending" ELSE p

KeyUsed(r, k) == \E i \in DOMAIN attempts[r] : attempts[r][i].key = k

\* _latest_payment_attempt(...).status = "pending".
LatestPending(r) ==
    /\ attempts[r] # << >>
    /\ attempts[r][Len(attempts[r])].status = "pending"

\* Mutant: the task is queued for the row before the new one.
NextAttemptEarly(r) == Len(attempts[r])

\* The row the INSERT of an attempt creates.
NextAttempt(r) == Len(attempts[r]) + 1

NewAttempt(k, fails) == [ key |-> k, fails |-> fails, status |-> "pending" ]

\* The attempts of r after _find_or_create_webhook_attempt.
FoundAttempts(r, k) ==
    IF k = NoKey \/ KeyUsed(r, k)
    THEN attempts[r]
    ELSE Append(attempts[r], NewAttempt(k, FALSE))

\* ... and after the handler has set the status of the row it was given: the
\* row of the key, or the latest row when the webhook names none.
MarkedAttempts(r, k, s) ==
    LET rows == FoundAttempts(r, k)
        Hit(i) == IF k = NoKey THEN i = Len(rows) ELSE rows[i].key = k
    IN  [ i \in DOMAIN rows |->
            IF Hit(i) THEN [ rows[i] EXCEPT !.status = s ] ELSE rows[i] ]

\* payment.attempted_at is only set when it is still NULL.
FirstAttempted(s) ==
    IF s \in { "created", "created_stale" } THEN "attempted" ELSE s

\* Holds that stay unchecked: those that are still holds.
KeepUnchecked(U) == unchecked' = { q \in U : status'[q] \in Blocking }

----------------------------------------------------------------------------
\* Initial state: an empty reservations table.

Init ==
    /\ status = [ r \in Reservations |-> "none" ]
    /\ payment = [ r \in Reservations |-> "none" ]
    /\ stamp = [ r \in Reservations |-> "created" ]
    /\ attempts = [ r \in Reservations |-> << >> ]
    /\ finalizers = {}
    /\ seen = {}
    /\ unchecked = {}

----------------------------------------------------------------------------
\* Time and the sweep

\* RESERVATION_PAYMENT_TTL_MINUTES pass for r.
Elapse(r) ==
    /\ stamp[r] \in { "created", "attempted" }
    /\ Exists(r)
    /\ stamp' = [ stamp EXCEPT ![r] =
                    IF stamp[r] = "created" THEN "created_stale"
                                            ELSE "attempted_stale" ]
    /\ UNCHANGED << status, payment, attempts, finalizers, seen, unchecked >>

\* expire_stale_pending_reservations, as the worker runs it and as every
\* handler that refuses its caller leaves it.
ExpireStale ==
    /\ \E r \in Reservations : Overdue(r)
    /\ status' = SweptStatus
    /\ payment' = SweptPayment
    /\ KeepUnchecked(unchecked)
    /\ UNCHANGED << stamp, attempts, finalizers, seen >>

----------------------------------------------------------------------------
\* Creation

\* create_reservation up to its first commit: the draft row.  A retry inside
\* the five-minute window returns the existing row and changes nothing; a
\* later one inserts again, which is another element of Reservations.
CreateReservation(r) ==
    /\ ~Exists(r)
    /\ RoomFree(SweptStatus, r)
    /\ status' = [ SweptStatus EXCEPT ![r] = "draft" ]
    /\ payment' = SweptPayment
    /\ stamp' = [ stamp EXCEPT ![r] = "created" ]
    /\ KeepUnchecked(unchecked)
    /\ UNCHANGED << attempts, finalizers, seen >>

\* The second commit of create_reservation.  When the process dies between
\* the two, the row is created by the next ensure_reservation_payment.
InsertPayment(r) ==
    /\ Exists(r)
    /\ payment[r] = "none"
    /\ payment' = [ payment EXCEPT ![r] = "pending" ]
    /\ UNCHANGED << status, stamp, attempts, finalizers, seen, unchecked >>

----------------------------------------------------------------------------
\* Starting a payment

StartAllowed(r) == SweptStatus[r] \in { "draft", "pending_payment" }

\* Mutant: a new key always starts a new attempt.
ReusesAttemptOfKey(r, k) == KeyUsed(r, k)

\* The attempt of the key, or the attempt in flight, is returned again.
ReusesAttempt(r, k) ==
    \/ KeyUsed(r, k)
    \/ SweptStatus[r] = "pending_payment" /\ LatestPending(r)

\* Mutant: the dates were checked at creation, and are not checked again.
StartBlockedNever(r) == FALSE

\* _ensure_payment_start_allowed: only a draft has its dates checked.
StartBlocked(r) == SweptStatus[r] = "draft" /\ ~RoomFree(SweptStatus, r)

StartReused(r, k) ==
    /\ StartAllowed(r)
    /\ ReusesAttempt(r, k)
    /\ status' = SweptStatus
    /\ payment' = [ SweptPayment EXCEPT ![r] = Ensured(@) ]
    /\ KeepUnchecked(unchecked)
    /\ UNCHANGED << stamp, attempts, finalizers, seen >>

StartUnavailable(r, k) ==
    /\ StartAllowed(r)
    /\ ~ReusesAttempt(r, k)
    /\ StartBlocked(r)
    /\ status' = [ SweptStatus EXCEPT ![r] = "expired" ]
    /\ payment' = [ SweptPayment EXCEPT ![r] = Ensured(@) ]
    /\ KeepUnchecked(unchecked)
    /\ UNCHANGED << stamp, attempts, finalizers, seen >>

\* The attempt is recorded and the room taken in one commit; in mock mode the
\* response leaves a finalizer behind.
StartAttempt(r, k, fails) ==
    /\ StartAllowed(r)
    /\ ~ReusesAttempt(r, k)
    /\ ~StartBlocked(r)
    /\ fails => MockProvider
    /\ status' = [ SweptStatus EXCEPT ![r] = "pending_payment" ]
    /\ payment' = [ SweptPayment EXCEPT ![r] = "pending" ]
    /\ stamp' = [ stamp EXCEPT ![r] = "attempted" ]
    /\ attempts' = [ attempts EXCEPT ![r] = Append(@, NewAttempt(k, fails)) ]
    /\ finalizers' = IF MockProvider
                     THEN finalizers \cup { << r, NextAttempt(r) >> }
                     ELSE finalizers
    /\ KeepUnchecked(unchecked)
    /\ UNCHANGED seen

\* attempt_mock_payment: the old synchronous call, settled at once and
\* without an attempt row.
LegacyUnavailable(r) ==
    /\ LegacyCalls
    /\ StartAllowed(r)
    /\ StartBlocked(r)
    /\ status' = [ SweptStatus EXCEPT ![r] = "expired" ]
    /\ payment' = [ SweptPayment EXCEPT ![r] = Ensured(@) ]
    /\ KeepUnchecked(unchecked)
    /\ UNCHANGED << stamp, attempts, finalizers, seen >>

LegacyPayment(r, fails) ==
    /\ LegacyCalls
    /\ StartAllowed(r)
    /\ ~StartBlocked(r)
    /\ status' = [ SweptStatus EXCEPT ![r] =
                     IF fails THEN "draft" ELSE "confirmed" ]
    /\ payment' = [ SweptPayment EXCEPT ![r] =
                      IF fails THEN "failed" ELSE "paid" ]
    /\ stamp' = [ stamp EXCEPT ![r] = "attempted" ]
    /\ KeepUnchecked(unchecked)
    /\ UNCHANGED << attempts, finalizers, seen >>

----------------------------------------------------------------------------
\* finalize_mock_payment_attempt(attempt), the background task of mock mode

FinalStatus(a) == IF a.fails THEN "failed" ELSE "paid"

\* Where the finalizer moves the reservation once the attempt is settled.
FinalTarget(a) == IF a.fails THEN "draft" ELSE "confirmed"

\* Mutant: the payment row is not updated with its attempt.
SettleAttemptOnly(r, i, s) ==
    /\ attempts' = [ attempts EXCEPT ![r][i].status = s ]
    /\ UNCHANGED payment

Settle(r, i, s) ==
    /\ attempts' = [ attempts EXCEPT ![r][i].status = s ]
    /\ payment' = [ payment EXCEPT ![r] = s ]

Unsettled(r, i) == attempts[r][i].status = "pending" /\ payment[r] # "none"

\* The reservation was given up while the attempt was in flight.
FinalizeClosed(r, i) ==
    /\ << r, i >> \in finalizers
    /\ Unsettled(r, i)
    /\ status[r] \in { "expired", "cancelled" }
    /\ Settle(r, i, "failed")
    /\ finalizers' = finalizers \ { << r, i >> }
    /\ UNCHANGED << status, stamp, seen, unchecked >>

FinalizeSettled(r, i) ==
    LET a == attempts[r][i]
    IN  /\ << r, i >> \in finalizers
        /\ Unsettled(r, i)
        /\ status[r] \notin { "expired", "cancelled" }
        /\ CanMove(status[r], FinalTarget(a))
        /\ Settle(r, i, FinalStatus(a))
        /\ status' = [ status EXCEPT ![r] = FinalTarget(a) ]
        /\ finalizers' = finalizers \ { << r, i >> }
        /\ KeepUnchecked(unchecked)
        /\ UNCHANGED << stamp, seen >>

\* It returns early, or the transition raises and nothing is committed.
FinalizeDropped(r, i) ==
    LET a == attempts[r][i]
    IN  /\ << r, i >> \in finalizers
        /\ \/ ~Unsettled(r, i)
           \/ /\ status[r] \notin { "expired", "cancelled" }
              /\ ~CanMove(status[r], FinalTarget(a))
        /\ finalizers' = finalizers \ { << r, i >> }
        /\ UNCHANGED << status, payment, stamp, attempts, seen, unchecked >>

\* The process restarts: BackgroundTasks live in memory only.
Restart ==
    /\ finalizers # {}
    /\ finalizers' = {}
    /\ UNCHANGED << status, payment, stamp, attempts, seen, unchecked >>

----------------------------------------------------------------------------
\* process_payment_webhook for an event id that was not seen before.  A known
\* event id is answered from the tables and changes nothing.

\* Mutant: a refunded payment is treated as open.
TerminalPaidOnly(r) == payment[r] = "paid"

TerminalPaid(r) == payment[r] \in { "paid", "refunded" }

\* Mutant: a draft is not confirmed by the money.
AfterPaidHeld(s) == IF s = "pending_payment" THEN "confirmed" ELSE s

\* The status of the reservation after a paid, a failed and a pending event.
AfterPaid(s) == IF s \in { "draft", "pending_payment" } THEN "confirmed" ELSE s

\* Mutant: a failed event takes the room of a confirmed guest.
AfterFailedAny(s, terminal) ==
    IF s \in Blocking /\ ~terminal THEN "draft" ELSE s

AfterFailed(s, terminal) ==
    IF s = "pending_payment" /\ ~terminal THEN "draft" ELSE s

AfterPending(s, terminal) ==
    IF s = "draft" /\ ~terminal THEN "pending_payment" ELSE s

Accept(e, r, k, s) ==
    /\ s \in WebhookStatuses
    /\ e \notin seen
    /\ Exists(r)
    /\ seen' = seen \cup {e}
    /\ attempts' = [ attempts EXCEPT ![r] = MarkedAttempts(r, k, s) ]
    /\ stamp' = [ stamp EXCEPT ![r] = FirstAttempted(@) ]
    /\ UNCHANGED finalizers

\* Draft and pending reservations are confirmed; the money is recorded even
\* when the reservation is closed.  Availability is not looked at.
WebhookPaid(e, r, k) ==
    /\ Accept(e, r, k, "paid")
    /\ payment' = [ payment EXCEPT ![r] = "paid" ]
    /\ status' = [ status EXCEPT ![r] = AfterPaid(@) ]
    /\ KeepUnchecked(unchecked \cup
                     (IF status[r] = "draft" THEN {r} ELSE {}))

WebhookFailed(e, r, k) ==
    /\ Accept(e, r, k, "failed")
    /\ payment' = [ payment EXCEPT ![r] =
                      IF TerminalPaid(r) THEN @ ELSE "failed" ]
    /\ status' = [ status EXCEPT ![r] = AfterFailed(@, TerminalPaid(r)) ]
    /\ KeepUnchecked(unchecked)

WebhookPending(e, r, k) ==
    /\ Accept(e, r, k, "pending")
    /\ payment' = [ payment EXCEPT ![r] =
                      IF TerminalPaid(r) THEN @ ELSE "pending" ]
    /\ status' = [ status EXCEPT ![r] = AfterPending(@, TerminalPaid(r)) ]
    /\ KeepUnchecked(unchecked \cup
                     (IF status[r] = "draft" THEN {r} ELSE {}))

\* Unknown reservation, or an amount or currency that does not match: only
\* the rejected event (and a missing payment row) is stored.
WebhookRejected(e, r) ==
    /\ WebhookStatuses # {}
    /\ e \notin seen
    /\ seen' = seen \cup {e}
    /\ payment' = IF Exists(r) THEN [ payment EXCEPT ![r] = Ensured(@) ]
                               ELSE payment
    /\ UNCHANGED << status, stamp, attempts, finalizers, unchecked >>

----------------------------------------------------------------------------
\* Cancelling and confirming by hand

\* Mutant: the refund condition is inverted.
RefundedWhenNothingLeft(p, refundable) ==
    IF p = "paid" /\ ~refundable THEN "refunded" ELSE p

\* _mark_refund_if_eligible.
Refunded(p, refundable) ==
    IF p = "paid" /\ refundable THEN "refunded" ELSE p

\* cancel_reservation_by_guest_email and partner_cancel_reservation.  Whether
\* the tariff leaves something to refund depends on today's date; for the
\* reservations of AlwaysRefundable it always does.
Cancel(r, refundable) ==
    /\ SweptStatus[r] # "cancelled"
    /\ Exists(r)
    /\ CanMove(SweptStatus[r], "cancelled")
    /\ r \in AlwaysRefundable => refundable
    /\ status' = [ SweptStatus EXCEPT ![r] = "cancelled" ]
    /\ payment' = [ SweptPayment EXCEPT ![r] =
                      Refunded(@, refundable) ]
    /\ KeepUnchecked(unchecked)
    /\ UNCHANGED << stamp, attempts, finalizers, seen >>

\* partner_confirm_reservation: reopens closed reservations, checks that the
\* others leave a room, and does not touch the payment.
PartnerConfirm(r) ==
    /\ SweptStatus[r] \in { "draft", "pending_payment", "cancelled", "expired" }
    /\ RoomFree(SweptStatus, r)
    /\ status' = [ SweptStatus EXCEPT ![r] = "confirmed" ]
    /\ payment' = SweptPayment
    /\ KeepUnchecked(unchecked \ {r})
    /\ UNCHANGED << stamp, attempts, finalizers, seen >>

----------------------------------------------------------------------------
Guest(r) ==
    \/ CreateReservation(r)
    \/ InsertPayment(r)
    \/ \E k \in Keys :
         \/ StartReused(r, k)
         \/ StartUnavailable(r, k)
         \/ \E fails \in BOOLEAN : StartAttempt(r, k, fails)
    \/ LegacyUnavailable(r)
    \/ \E fails \in BOOLEAN : LegacyPayment(r, fails)
    \/ \E refundable \in BOOLEAN : Cancel(r, refundable)

Finalizer(r) ==
    \E i \in DOMAIN attempts[r] :
        \/ FinalizeClosed(r, i)
        \/ FinalizeSettled(r, i)
        \/ FinalizeDropped(r, i)

Provider(r) ==
    \E e \in Events :
        \/ WebhookRejected(e, r)
        \/ \E k \in Keys \cup {NoKey} :
             \/ WebhookPaid(e, r, k)
             \/ WebhookFailed(e, r, k)
             \/ WebhookPending(e, r, k)

Next ==
    \/ \E r \in Reservations :
         \/ Guest(r)
         \/ Finalizer(r)
         \/ Provider(r)
         \/ PartnerConfirm(r)
         \/ Elapse(r)
    \/ ExpireStale
    \/ Restart

\* Safety only: PaymentRaces states when a hold is resolved.
Spec == Init /\ [][Next]_vars

----------------------------------------------------------------------------
\* Properties

\* Every row has one of the values its column may hold, a payment belongs to
\* a reservation, and a background task finds the attempt it was queued for.
TypeOK ==
    /\ status \in [ Reservations -> ReservationStatus \cup {"none"} ]
    /\ payment \in [ Reservations -> PaymentStatus \cup {"none"} ]
    /\ \A r \in Reservations : payment[r] # "none" => Exists(r)
    /\ stamp \in [ Reservations -> Stamps ]
    /\ attempts \in [ Reservations -> Seq(Attempt) ]
    /\ finalizers \in SUBSET (Reservations \X Nat)
    /\ \A t \in finalizers : t[2] \in DOMAIN attempts[t[1]]
    /\ seen \in SUBSET Events
    /\ unchecked \in SUBSET { r \in Reservations : status[r] \in Blocking }

Holds == { r \in Reservations : status[r] \in Blocking }

\* The holds that some handler admitted after looking at the calendar.
CheckedHolds == Holds \ unchecked

\* No night has more guests than rooms.  Promised by every handler that looks
\* at room_type_available_count, and kept as long as no webhook takes a room
\* without looking (mock mode).
RoomsNotOversold ==
    \A n \in Nights :
        Cardinality({ r \in Holds : n \in Stay[r] }) <= Inventory

\* With webhooks, a draft may be confirmed on a full night; the reservations
\* that were admitted by a check still fit among themselves, whatever was
\* swept, reopened, released and taken again in between.
CheckedHoldsFit ==
    \A n \in Nights :
        Cardinality({ r \in CheckedHolds : n \in Stay[r] }) <= Inventory

\* The checked holds behave as the ledger of RoomLedger.
Ledger == INSTANCE RoomLedger WITH held <- CheckedHolds, Size <- Cardinality
LedgerSpec == Ledger!Spec

\* _start_pending_payment_attempt takes draft and pending reservations only.
\* So a guest who has paid (or was refunded) must never be in one of these
\* statuses again, or would be asked, and charged, a second time.
PaidIsNotOpen ==
    \A r \in Reservations :
        payment[r] \in { "paid", "refunded" } =>
            status[r] \notin { "draft", "pending_payment" }

\* Money that was received is never forgotten: a paid or refunded payment
\* stays paid or refunded through sweeps, restarts of the payment, late
\* finalizers and webhooks in any order.
MoneyStep ==
    \A r \in Reservations :
        payment[r] \in { "paid", "refunded" } =>
            payment'[r] \in { "paid", "refunded" }
MoneyNeverForgotten == [][MoneyStep]_vars

\* The guest of a confirmed reservation loses the room by cancellation only:
\* not by a late failure of an attempt, by the sweep or by a restart.
KeptStep ==
    \A r \in Reservations :
        status[r] = "confirmed" =>
            status'[r] \in { "confirmed", "checked_in", "cancelled" }
ConfirmedIsKept == [][KeptStep]_vars

\* Whatever made a reservation pending, its payment has an attempted_at: the
\* TTL of the sweep runs from the payment and not from the creation.
HeldHasDeadline ==
    \A r \in Reservations :
        status[r] = "pending_payment" =>
            stamp[r] \in { "attempted", "attempted_stale" }

PendingAttempts(r) ==
    { i \in DOMAIN attempts[r] : attempts[r][i].status = "pending" }

\* In mock mode the payment and its attempts tell one story: "while a reservation
\* is pending payment, we keep a single pending attempt and reuse it"
\* (_start_pending_payment_attempt), money was received exactly when one attempt
\* is paid, and then none is in flight that could charge again.
AttemptsMatchMoney ==
    \A r \in Reservations :
        /\ status[r] = "pending_payment" => Cardinality(PendingAttempts(r)) <= 1
        /\ payment[r] \in { "paid", "refunded" } <=>
              \E i \in DOMAIN attempts[r] : attempts[r][i].status = "paid"
        /\ payment[r] \in { "paid", "refunded" } => PendingAttempts(r) = {}

\* In mock mode a cancelled reservation keeps the guest's money only under a
\* tariff that says so, however the cancellation and the payment interleave.
CancelledIsRefunded ==
    \A r \in AlwaysRefundable :
        status[r] = "cancelled" => payment[r] # "paid"

=============================================================================
