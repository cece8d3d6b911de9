----------------------------- MODULE PaymentRaces -----------------------------
(***************************************************************************)
(* The handlers of Booking as they really run: request handlers and        *)
(* background tasks on the threads of a pool, the webhook endpoint and     *)
(* the expiry worker on the event loop, all on one database that locks no  *)
(* row.  A handler reads, decides, sends its notifications (seconds of     *)
(* network) and then commits what it decided, so other commits fall        *)
(* between.  Two facts of SQLAlchemy matter: the reservation a route has   *)
(* loaded is not read again before the next commit of its session, and an  *)
(* UPDATE names only the columns whose value the handler changed.          *)
(*                                                                         *)
(* The queries that a handler makes in a row, with no network between      *)
(* them, are one step.                                                     *)
(***************************************************************************)
EXTENDS Rooms, Sequences

CONSTANTS
    Keys,              \* idempotency keys of payment attempts
    Calls,             \* the calls clients make; bounds the instances
    Workers,           \* threads of the pool
    Loop,              \* the event loop: one webhook or one sweep at a time
    Events,            \* provider event ids; bounds the webhooks processed
    WebhookStatuses,   \* statuses the provider posts; {} when there is none
    MockProvider,      \* settings.normalized_payment_provider = "mock"
    MaxRestarts,       \* bounds the restarts of the process
    None               \* no request, no plan, no snapshot

ASSUME ProcessAssumption ==
    /\ IsFiniteSet(Workers)
    /\ Workers # {}
    /\ Loop \notin Workers
ASSUME ModeAssumption ==
    /\ MockProvider \in BOOLEAN
    /\ WebhookStatuses \subseteq { "paid", "failed", "pending" }
    /\ MaxRestarts \in Nat
    /\ Calls \subseteq { "start", "cancel", "confirm" }

VARIABLES
    status,      \* status[r]: Reservation.status, as committed
    payment,     \* payment[r]: ReservationPayment.payment_status
    stamp,       \* stamp[r]: what the sweep compares with its cutoff
    attempts,    \* attempts[r]: the rows of r in id order
    seen,        \* event ids of payment_webhook_events
    finalizers,  \* <<r, i>>: background tasks that no thread has taken yet
    at,          \* at[p]: how far process p is
    req,         \* req[p]: the request p works on
    saw,         \* saw[p]: the status in p's session, None when it must load
    sel,         \* sel[p]: the rows p's sweep selected
    plan,        \* plan[p]: the columns p is about to write
    restarts,    \* restarts so far
    unchecked,   \* auxiliary: holds taken without looking at availability
    contended    \* auxiliary: reservations written behind another's back

rows == << status, payment, stamp, attempts, seen, finalizers >>
local == << at, req, saw, sel, plan >>
vars == << rows, local, restarts, unchecked, contended >>

----------------------------------------------------------------------------
Procs == Workers \cup {Loop}

Stamps == { "created", "created_stale", "attempted", "attempted_stale" }

Attempt == [ key : Keys, status : AttemptStatus ]

Request == [ op  : { "start", "finalize", "cancel", "confirm", "webhook" },
             r   : Reservations,
             key : Keys \cup {None},
             row : Nat,
             event : Events \cup {None} ]

\* "same": the column is not part of the UPDATE.
Plan == [ status  : ReservationStatus \cup {"same"},
          payment : PaymentStatus \cup {"same"},
          outcome : AttemptStatus \cup {"same"},
          row     : Nat,
          insert  : BOOLEAN,
          touch   : BOOLEAN,
          checked : BOOLEAN ]

ASSUME NoneAssumption == None \notin Request \cup Plan

Changed(old, new) == IF old = new THEN "same" ELSE new
Written(new, old) == IF new = "same" THEN old ELSE new

KeyUsed(r, k) == \E i \in DOMAIN attempts[r] : attempts[r][i].key = k
RowOfKey(r, k) == CHOOSE i \in DOMAIN attempts[r] : attempts[r][i].key = k

\* Mutant: the task is queued for the row before the new one.
NewRowEarly(r) == Len(attempts[r])

\* The row the INSERT of an attempt creates.
NewRow(r) == Len(attempts[r]) + 1

\* _latest_payment_attempt(...).status = "pending".
LatestPending(r) ==
    /\ attempts[r] # << >>
    /\ attempts[r][Len(attempts[r])].status = "pending"

\* Mutant: a refunded payment is treated as open.
TerminalPaidOnly(r) == payment[r] = "paid"

TerminalPaid(r) == payment[r] \in { "paid", "refunded" }

\* The reservations a process has loaded and may still write.
InHand(p) ==
    sel[p] \cup (IF req[p] = None THEN {} ELSE { req[p].r })

\* p writes the rows of S: a reservation that another process has in hand by
\* then counts as contended, since that process goes on with what it has read.
NoteContention(p, S) ==
    contended' = contended \cup
        { r \in S : \E q \in Procs \ {p} : r \in InHand(q) }

\* p has finished and forgets its session.
Done(p) ==
    /\ at' = [ at EXCEPT ![p] = "idle" ]
    /\ req' = [ req EXCEPT ![p] = None ]
    /\ saw' = [ saw EXCEPT ![p] = None ]
    /\ sel' = [ sel EXCEPT ![p] = {} ]
    /\ plan' = [ plan EXCEPT ![p] = None ]

----------------------------------------------------------------------------
\* Every reservation is a draft with its payment row, as create_reservation
\* leaves them: drafts hold no room.

Init ==
    /\ status = [ r \in Reservations |-> "draft" ]
    /\ payment = [ r \in Reservations |-> "pending" ]
    /\ stamp = [ r \in Reservations |-> "created" ]
    /\ attempts = [ r \in Reservations |-> << >> ]
    /\ seen = {}
    /\ finalizers = {}
    /\ at = [ p \in Procs |-> "idle" ]
    /\ req = [ p \in Procs |-> None ]
    /\ saw = [ p \in Procs |-> None ]
    /\ sel = [ p \in Procs |-> {} ]
    /\ plan = [ p \in Procs |-> None ]
    /\ restarts = 0
    /\ unchecked = {}
    /\ contended = {}

\* RESERVATION_PAYMENT_TTL_MINUTES pass for r.
Elapse(r) ==
    /\ stamp[r] \in { "created", "attempted" }
    /\ stamp' = [ stamp EXCEPT ![r] =
                    IF stamp[r] = "created" THEN "created_stale"
                                            ELSE "attempted_stale" ]
    /\ UNCHANGED << status, payment, attempts, seen, finalizers, local,
                    restarts, unchecked, contended >>

----------------------------------------------------------------------------
\* The sweep

\* Mutant: the sweep forgets the payments that were started.
OverdueUnstarted(r) ==
    status[r] = "pending_payment" /\ stamp[r] = "created_stale"

\* Mutant: the sweep expires every hold that is old enough.
OverdueAnyHold(r) ==
    status[r] \in Blocking /\ stamp[r] \in { "created_stale", "attempted_stale" }

Overdue(r) ==
    /\ status[r] = "pending_payment"
    /\ stamp[r] \in { "created_stale", "attempted_stale" }

AllOverdue == { r \in Reservations : Overdue(r) }

\* The SELECT; the notifications of every selected row follow.  The worker
\* on the loop begins with it, a handler after its route's first read.
SweepSelect(p) ==
    /\ \/ p = Loop /\ at[p] = "idle"
       \/ at[p] = "opened"
    /\ AllOverdue # {}
    /\ at' = [ at EXCEPT ![p] = "sweeping" ]
    /\ sel' = [ sel EXCEPT ![p] = AllOverdue ]
    /\ UNCHANGED << rows, req, saw, plan, restarts, unchecked, contended >>

\* The payments are read after the notifications, and the commit makes the
\* session load everything again.
SweepCommit(p) ==
    /\ at[p] = "sweeping"
    /\ status' = [ r \in Reservations |->
                     IF r \in sel[p] THEN "expired" ELSE status[r] ]
    /\ payment' = [ r \in Reservations |->
                      IF r \in sel[p] /\ payment[r] = "pending"
                      THEN "failed" ELSE payment[r] ]
    /\ at' = [ at EXCEPT ![p] = IF req[p] = None THEN "idle" ELSE "swept" ]
    /\ saw' = [ saw EXCEPT ![p] = None ]
    /\ sel' = [ sel EXCEPT ![p] = {} ]
    /\ unchecked' = unchecked \ sel[p]
    /\ NoteContention(p, sel[p])
    /\ UNCHANGED << stamp, attempts, seen, finalizers, req, plan, restarts >>

----------------------------------------------------------------------------
\* A request of a guest or of the partner

\* The route loads the reservation; partner_confirm alone does not.
Open(p, op, r, k) ==
    /\ p \in Workers
    /\ op \in Calls
    /\ at[p] = "idle"
    /\ at' = [ at EXCEPT ![p] = "opened" ]
    /\ req' = [ req EXCEPT ![p] = [ op |-> op, r |-> r, key |-> k, row |-> 0,
                                    event |-> None ] ]
    /\ saw' = [ saw EXCEPT ![p] = IF op = "confirm" THEN None ELSE status[r] ]
    /\ UNCHANGED << rows, sel, plan, restarts, unchecked, contended >>

\* The sweep is behind p, or had nothing to do.
Ready(p) == at[p] = "swept" \/ (at[p] = "opened" /\ AllOverdue = {})

\* The status that p's session holds.
Loaded(p) == IF saw[p] = None THEN status[req[p].r] ELSE saw[p]

\* p decides what to write, and sends its notifications.
Decide(p, pl) ==
    /\ at' = [ at EXCEPT ![p] = "decided" ]
    /\ plan' = [ plan EXCEPT ![p] = pl ]
    /\ UNCHANGED << rows, req, saw, sel, restarts, unchecked, contended >>

\* Mutant: a start, too, keeps the attempted_at that is there.
SetsAttemptedAtOnce(op, s) == s \in { "created", "created_stale" }

\* A start always sets payment.attempted_at, a webhook only when it is NULL.
SetsAttemptedAt(op, s) == op = "start" \/ s \in { "created", "created_stale" }

\* p refuses the request, or answers it from what is there.
Refuse(p) ==
    /\ Done(p)
    /\ UNCHANGED << rows, restarts, unchecked, contended >>

IsRequest(p, op) == Ready(p) /\ req[p] # None /\ req[p].op = op

----------------------------------------------------------------------------
\* _start_pending_payment_attempt

\* The attempt of the key, or the attempt in flight, is returned again.
ReusesAttempt(p) ==
    LET r == req[p].r
    IN  \/ KeyUsed(r, req[p].key)
        \/ Loaded(p) = "pending_payment" /\ LatestPending(r)

\* Mutant: the dates were checked at creation, and are not checked again.
StartBlockedNever(p) == FALSE

StartBlocked(p) == Loaded(p) = "draft" /\ ~RoomFree(status, req[p].r)

StartRefused(p) ==
    /\ IsRequest(p, "start")
    /\ \/ Loaded(p) \notin { "draft", "pending_payment" }
       \/ ReusesAttempt(p)
    /\ Refuse(p)

\* The draft is expired at once: nothing is sent before this commit.
StartUnavailable(p) ==
    LET r == req[p].r
    IN  /\ IsRequest(p, "start")
        /\ Loaded(p) \in { "draft", "pending_payment" }
        /\ ~ReusesAttempt(p)
        /\ StartBlocked(p)
        /\ status' = [ status EXCEPT ![r] = "expired" ]
        /\ unchecked' = unchecked \ {r}
        /\ NoteContention(p, {r})
        /\ Done(p)
        /\ UNCHANGED << payment, stamp, attempts, seen, finalizers, restarts >>

StartDecided(p) ==
    LET r == req[p].r
    IN  /\ IsRequest(p, "start")
        /\ Loaded(p) \in { "draft", "pending_payment" }
        /\ ~ReusesAttempt(p)
        /\ ~StartBlocked(p)
        /\ Decide(p, [ status  |-> Changed(Loaded(p), "pending_payment"),
                       payment |-> Changed(payment[r], "pending"),
                       outcome |-> "pending",
                       row     |-> 0,
                       insert  |-> TRUE,
                       touch   |-> SetsAttemptedAt("start", stamp[r]),
                       checked |-> TRUE ])

----------------------------------------------------------------------------
\* Cancelling and confirming by hand

\* The plan of a handler that settles no attempt and starts no TTL.
ManualPlan(st, pay, checked) ==
    [ status |-> st, payment |-> pay, outcome |-> "same", row |-> 0,
      insert |-> FALSE, touch |-> FALSE, checked |-> checked ]

CancelRefused(p) ==
    /\ IsRequest(p, "cancel")
    /\ Loaded(p) = "cancelled" \/ ~CanMove(Loaded(p), "cancelled")
    /\ Refuse(p)

\* Mutant: whoever cancels a confirmed stay is given money back.
RefundDueConfirmed(r) == status[r] = "confirmed"

\* _mark_refund_if_eligible: there is money to give back.
RefundDue(r) == payment[r] = "paid"

CancelDecided(p, refundable) ==
    LET r == req[p].r
    IN  /\ IsRequest(p, "cancel")
        /\ Loaded(p) # "cancelled"
        /\ CanMove(Loaded(p), "cancelled")
        /\ Decide(p, ManualPlan("cancelled",
                                IF RefundDue(r) /\ refundable
                                THEN "refunded" ELSE "same",
                                FALSE))

\* What partner_confirm takes through pending_payment first; the partner and
\* the guest are told of it before the rooms are counted.
Reopened == { "draft", "cancelled", "expired" }
Confirmable == Reopened \cup { "pending_payment" }

ConfirmReopens(p) ==
    /\ IsRequest(p, "confirm")
    /\ saw[p] = None
    /\ Loaded(p) \in Reopened
    /\ at' = [ at EXCEPT ![p] = "swept" ]
    /\ saw' = [ saw EXCEPT ![p] = Loaded(p) ]
    /\ UNCHANGED << rows, req, sel, plan, restarts, unchecked, contended >>

\* The announcement is out, or there was none to make.
Announced(p) == saw[p] # None \/ Loaded(p) \notin Reopened

ConfirmRefused(p) ==
    /\ IsRequest(p, "confirm")
    /\ Announced(p)
    /\ Loaded(p) \notin Confirmable \/ ~RoomFree(status, req[p].r)
    /\ Refuse(p)

ConfirmDecided(p) ==
    /\ IsRequest(p, "confirm")
    /\ Announced(p)
    /\ Loaded(p) \in Confirmable
    /\ RoomFree(status, req[p].r)
    /\ Decide(p, ManualPlan("confirmed", "same", TRUE))

----------------------------------------------------------------------------
\* finalize_mock_payment_attempt: a thread takes a background task

\* Mutant: a paid hold is left to the partner to confirm.
FinalTargetHeld(s) == IF s = "paid" THEN "pending_payment" ELSE "draft"

FinalTarget(s) == IF s = "paid" THEN "confirmed" ELSE "draft"

\* The reservation was given up, or may still be settled.
Closed(r) == status[r] \in { "expired", "cancelled" }

\* The attempt is still pending.
Unsettled(t) == attempts[t[1]][t[2]].status = "pending"

FinalizeDecided(p, t, s) ==
    LET r == t[1]
        final == IF Closed(r) THEN "failed" ELSE s
    IN  /\ p \in Workers
        /\ at[p] = "idle"
        /\ t \in finalizers
        /\ Unsettled(t)
        /\ Closed(r) \/ CanMove(status[r], FinalTarget(s))
        /\ finalizers' = finalizers \ {t}
        /\ at' = [ at EXCEPT ![p] = "decided" ]
        /\ req' = [ req EXCEPT ![p] =
                      [ op |-> "finalize", r |-> r, key |-> None,
                        row |-> t[2], event |-> None ] ]
        /\ plan' = [ plan EXCEPT ![p] =
                       [ status  |-> IF Closed(r) THEN "same"
                                     ELSE Changed(status[r], FinalTarget(s)),
                         payment |-> Changed(payment[r], final),
                         outcome |-> final,
                         row     |-> t[2],
                         insert  |-> FALSE,
                         touch   |-> FALSE,
                         checked |-> r \notin unchecked ] ]
        /\ UNCHANGED << status, payment, stamp, attempts, seen, saw, sel,
                        restarts, unchecked, contended >>

\* It returns early, or the transition raises.
FinalizeDropped(p, t, s) ==
    /\ p \in Workers
    /\ at[p] = "idle"
    /\ t \in finalizers
    /\ ~Unsettled(t) \/ (~Closed(t[1]) /\ ~CanMove(status[t[1]], FinalTarget(s)))
    /\ finalizers' = finalizers \ {t}
    /\ UNCHANGED << status, payment, stamp, attempts, seen, local, restarts,
                    unchecked, contended >>

----------------------------------------------------------------------------
\* process_payment_webhook, on the event loop

\* Mutant: a draft is not confirmed by the money.
AfterPaidHeld(s) == IF s = "pending_payment" THEN "confirmed" ELSE s

\* Mutant: a failed event takes the room of a confirmed guest.
AfterFailedAny(s) == IF s \in Blocking THEN "draft" ELSE s

AfterPaid(s) == IF s \in { "draft", "pending_payment" } THEN "confirmed" ELSE s
AfterFailed(s) == IF s = "pending_payment" THEN "draft" ELSE s
AfterPending(s) == IF s = "draft" THEN "pending_payment" ELSE s

\* What an event makes of the status and of the payment of r.
AfterEvent(r, s) ==
    IF s = "paid" THEN AfterPaid(status[r])
    ELSE IF TerminalPaid(r) THEN status[r]
    ELSE IF s = "failed" THEN AfterFailed(status[r])
    ELSE AfterPending(status[r])

PaymentAfterEvent(r, s) ==
    IF s # "paid" /\ TerminalPaid(r) THEN payment[r] ELSE s

\* The attempt the event is about: the row of its key, a new row, or the
\* latest row when it names none (0 when there is none).
EventRow(r, k) ==
    IF k = None THEN Len(attempts[r])
    ELSE IF KeyUsed(r, k) THEN RowOfKey(r, k)
    ELSE 0

WebhookDecided(e, r, k, s) ==
    /\ at[Loop] = "idle"
    /\ s \in WebhookStatuses
    /\ e \notin seen
    /\ at' = [ at EXCEPT ![Loop] = "decided" ]
    /\ req' = [ req EXCEPT ![Loop] =
                  [ op |-> "webhook", r |-> r, key |-> k,
                    row |-> EventRow(r, k), event |-> e ] ]
    /\ plan' = [ plan EXCEPT ![Loop] =
                   [ status  |-> Changed(status[r], AfterEvent(r, s)),
                     payment |-> Changed(payment[r], PaymentAfterEvent(r, s)),
                     outcome |-> s,
                     row     |-> EventRow(r, k),
                     insert  |-> k # None /\ ~KeyUsed(r, k),
                     touch   |-> SetsAttemptedAt("webhook", stamp[r]),
                     checked |-> status[r] # "draft" /\ r \notin unchecked ] ]
    /\ UNCHANGED << rows, saw, sel, restarts, unchecked, contended >>

----------------------------------------------------------------------------
\* The commits

\* The INSERT of the attempt meets the unique constraint: everything is
\* rolled back.
Conflicts(p) == plan[p].insert /\ KeyUsed(req[p].r, req[p].key)

CommitLost(p) ==
    /\ at[p] = "decided"
    /\ Conflicts(p)
    /\ Done(p)
    /\ UNCHANGED << rows, restarts, unchecked, contended >>

\* What the commit leaves of the attempts of req[p].r.
AttemptsWritten(p) ==
    LET old == attempts[req[p].r]
    IN  IF plan[p].insert
        THEN Append(old, [ key |-> req[p].key, status |-> plan[p].outcome ])
        ELSE IF plan[p].row > 0
        THEN [ old EXCEPT ![plan[p].row].status = plan[p].outcome ]
        ELSE old

\* A hold that a handler took after a check is checked; a webhook that takes
\* a room, or an unchecked hold that is written once more, is not.
UncheckedAfter(p) ==
    LET r == req[p].r
        gained == IF /\ plan[p].status \in Blocking /\ ~plan[p].checked
                     /\ status[r] \notin Blocking
                  THEN {r} ELSE {}
        lost == IF plan[p].status \in Blocking /\ plan[p].checked
                THEN {r} ELSE {}
    IN  { q \in (unchecked \cup gained) \ lost : status'[q] \in Blocking }

Commit(p) ==
    LET r == req[p].r
    IN  /\ at[p] = "decided"
        /\ ~Conflicts(p)
        /\ status' = [ status EXCEPT ![r] = Written(plan[p].status, @) ]
        /\ payment' = [ payment EXCEPT ![r] = Written(plan[p].payment, @) ]
        /\ stamp' = [ stamp EXCEPT ![r] =
                        IF plan[p].touch THEN "attempted" ELSE @ ]
        /\ attempts' = [ attempts EXCEPT ![r] = AttemptsWritten(p) ]
        /\ seen' = IF req[p].op = "webhook" THEN seen \cup { req[p].event }
                                            ELSE seen
        /\ finalizers' = IF req[p].op = "start" /\ MockProvider
                         THEN finalizers \cup { << r, NewRow(r) >> }
                         ELSE finalizers
        /\ unchecked' = UncheckedAfter(p)
        /\ NoteContention(p, {r})
        /\ Done(p)
        /\ UNCHANGED restarts

\* The process restarts: sessions are rolled back, background tasks are lost.
Restart ==
    /\ restarts < MaxRestarts
    /\ finalizers # {} \/ \E p \in Procs : at[p] # "idle"
    /\ restarts' = restarts + 1
    /\ finalizers' = {}
    /\ at' = [ p \in Procs |-> "idle" ]
    /\ req' = [ p \in Procs |-> None ]
    /\ saw' = [ p \in Procs |-> None ]
    /\ sel' = [ p \in Procs |-> {} ]
    /\ plan' = [ p \in Procs |-> None ]
    /\ UNCHANGED << status, payment, stamp, attempts, seen, unchecked,
                    contended >>

----------------------------------------------------------------------------
Requests(p) ==
    \E r \in Reservations :
        \/ \E k \in Keys : Open(p, "start", r, k)
        \/ Open(p, "cancel", r, None)
        \/ Open(p, "confirm", r, None)

Tasks(p) ==
    \E t \in finalizers, s \in { "paid", "failed" } :
        FinalizeDecided(p, t, s) \/ FinalizeDropped(p, t, s)

Webhooks ==
    \E e \in Events, r \in Reservations, k \in Keys \cup {None},
       s \in WebhookStatuses :
        WebhookDecided(e, r, k, s)

\* The steps of a process that has begun something.
Proceed(p) ==
    \/ SweepCommit(p)
    \/ StartRefused(p)
    \/ StartUnavailable(p)
    \/ StartDecided(p)
    \/ CancelRefused(p)
    \/ \E refundable \in BOOLEAN : CancelDecided(p, refundable)
    \/ ConfirmReopens(p)
    \/ ConfirmRefused(p)
    \/ ConfirmDecided(p)
    \/ CommitLost(p)
    \/ Commit(p)

Next ==
    \/ \E p \in Procs :
         SweepSelect(p) \/ Requests(p) \/ Tasks(p) \/ Proceed(p)
    \/ Webhooks
    \/ \E r \in Reservations : Elapse(r)
    \/ Restart

\* Time passes, every handler goes on (its network calls time out), and the
\* worker scans for ever.
Fairness ==
    /\ \A r \in Reservations : WF_vars(Elapse(r))
    /\ \A p \in Procs : WF_vars(Proceed(p))
    /\ WF_vars(SweepSelect(Loop))

Spec == Init /\ [][Next]_vars /\ Fairness

----------------------------------------------------------------------------
\* Properties

Steps == { "idle", "opened", "sweeping", "swept", "decided" }

RowsOK ==
    /\ status \in [ Reservations -> ReservationStatus ]
    /\ payment \in [ Reservations -> PaymentStatus ]
    /\ stamp \in [ Reservations -> Stamps ]
    /\ attempts \in [ Reservations -> Seq(Attempt) ]
    /\ seen \in SUBSET Events
    /\ finalizers \in SUBSET (Reservations \X Nat)
    /\ \A t \in finalizers : t[2] \in DOMAIN attempts[t[1]]
    /\ restarts \in 0 .. MaxRestarts
    /\ unchecked \in SUBSET { r \in Reservations : status[r] \in Blocking }
    /\ contended \in SUBSET Reservations

\* What p is about to write is there to be written.
PlanOK(p) ==
    /\ req[p] # None /\ plan[p] # None
    /\ plan[p].insert => req[p].key \in Keys
    /\ plan[p].insert \/ plan[p].row > 0 => plan[p].outcome \in AttemptStatus
    /\ req[p].op = "start" => plan[p].insert
    /\ req[p].op = "webhook" => req[p].event \in Events

SessionsOK ==
    /\ at \in [ Procs -> Steps ]
    /\ req \in [ Procs -> Request \cup {None} ]
    /\ saw \in [ Procs -> ReservationStatus \cup {None} ]
    /\ sel \in [ Procs -> SUBSET Reservations ]
    /\ plan \in [ Procs -> Plan \cup {None} ]
    /\ \A p \in Procs :
         /\ at[p] = "decided" => PlanOK(p)
         /\ at[p] \in { "opened", "swept" } => req[p] # None
         /\ req[p] # None /\ req[p].op = "start" => req[p].key \in Keys

\* Rows and sessions are well formed: a process that has decided has a plan
\* that its request can write, and a queued task has a row to settle.
TypeOK == RowsOK /\ SessionsOK

Holds == { r \in Reservations : status[r] \in Blocking }
CheckedHolds == Holds \ unchecked

\* "We only lock calendar slots when payment starts"
\* (_ensure_payment_start_allowed): a slot that is locked for one guest is
\* locked for all others.
RoomsNotOversold ==
    \A n \in Nights :
        Cardinality({ r \in Holds : n \in Stay[r] }) <= Inventory

\* The processes that may take a room at the same time.
Takers == IF WebhookStatuses = {} THEN Workers ELSE Workers \cup {Loop}

\* The slot is not locked between the check and the commit, and a task that
\* read a hold writes it back after the sweep has given the room away.  But
\* each of these mistakes needs a process that has decided and not yet
\* committed, so however long the system runs a night is never oversold by
\* more than the number of processes minus one.
OversellBounded ==
    \A n \in Nights :
        Cardinality({ r \in CheckedHolds : n \in Stay[r] })
            <= Inventory + Cardinality(Takers) - 1

\* Each start buys the guest a whole TTL.  A hold that a start takes is measured
\* from the commit of that start, whatever older attempts have left in
\* attempted_at; and unless another process wrote the row while the sweep or a
\* handler was at it, the hold is given up to time only when its TTL is over.
\* (A pending event that makes a hold of a draft may inherit the attempted_at
\* of an older attempt, payment_service.py:543: such holds are unchecked.)
TermStep ==
    \A r \in Reservations :
        /\ (r \notin Holds /\ r \in CheckedHolds' /\ status'[r] = "pending_payment")
             => stamp'[r] = "attempted"
        /\ (r \notin contended /\ status[r] = "pending_payment"
              /\ status'[r] = "expired") => stamp[r] = "attempted_stale"
HoldsRunFullTerm == [][TermStep]_vars

\* What is lost is lost to a process that went on with a row another one had
\* written meanwhile: for all other reservations, whatever happens to them and
\* to others at the same time, a guest who has paid is not asked to pay again,
\* money that was received stays received, and a confirmed guest loses the
\* room by cancellation only.
QuietPaidIsNotOpen ==
    \A r \in Reservations \ contended :
        payment[r] \in { "paid", "refunded" } =>
            status[r] \notin { "draft", "pending_payment" }
QuietStep ==
    \A r \in Reservations \ contended :
        /\ payment[r] \in { "paid", "refunded" } =>
             payment'[r] \in { "paid", "refunded" }
        /\ status[r] = "confirmed" =>
             status'[r] \in { "confirmed", "checked_in", "cancelled" }
QuietGuestsKeep == [][QuietPaidIsNotOpen' /\ QuietStep]_vars

\* What no race can do in mock mode, also to rows that were written behind a
\* handler's back: put money on record, or give money back, that no attempt
\* brought in, or settle an attempt a second time.
PaidBy(r) == { i \in DOMAIN attempts[r] : attempts[r][i].status = "paid" }
MoneyHasAttempt ==
    \A r \in Reservations :
        payment[r] \in { "paid", "refunded" } => PaidBy(r) # {}
SettleStep ==
    \A r \in Reservations : \A i \in DOMAIN attempts[r] :
        attempts[r][i].status # "pending" => attempts'[r][i] = attempts[r][i]
MoneyIsFromAttempts == [][MoneyHasAttempt' /\ SettleStep]_vars

\* "Prevent duplicate in-flight payment attempts created with different
\* idempotency keys" (_start_pending_payment_attempt).
PendingAttempts(r) ==
    { i \in DOMAIN attempts[r] : attempts[r][i].status = "pending" }
SinglePendingAttempt ==
    \A r \in Reservations :
        status[r] = "pending_payment" => Cardinality(PendingAttempts(r)) <= 1

\* Races, lost tasks and restarts never leave a room held for ever.
HoldIsResolved ==
    \A r \in Reservations :
        status[r] = "pending_payment" ~> status[r] # "pending_payment"

=============================================================================
