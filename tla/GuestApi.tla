------------------------------- MODULE GuestApi -------------------------------
(***************************************************************************)
(* What the pages of a guest's browser tab share: the reservations that    *)
(* the backend keeps and the answers it gives (Booking is the detailed     *)
(* model of it), the access tokens in localStorage (lib/guestAccess.ts),   *)
(* and the page that is mounted, with the router's pending navigation.     *)
(* A token is known by the id of its reservation.                          *)
(***************************************************************************)
EXTENDS Lifecycle, Integers, Sequences, SequencesExt, FiniteSets

CONSTANTS
    Reservations,   \* ids the backend may give to new reservations
    Others,         \* ids of earlier reservations of this browser
    Emails,         \* the e-mail addresses the guest uses
    EmailOf,        \* EmailOf[r]: guest_email of reservation r
    MaxStored,      \* the 50 of writeAll
    NoId,           \* no reservation is named
    NoRow,          \* the backend has no such reservation
    NoPage,         \* the router has no pending navigation
    NoAnswer        \* a request is on its way

Ids == Reservations \cup Others
Pages == { "home", "stay", "checkout", "unavailable", "payment", "success",
           "account" }
Row == [ status : ReservationStatus, money : PaymentStatus, trying : BOOLEAN ]

\* The query of the address bar, as far as the pages act on it.
Url == [ id : Ids \cup {NoId}, token : BOOLEAN,
         money : PaymentStatus \cup {"none"} ]
EmptyUrl == [ id |-> NoId, token |-> FALSE, money |-> "none" ]
Location == [ page : Pages, url : Url ]

ASSUME GuestAssumption ==
    /\ Reservations \cap Others = {} /\ Ids \subseteq Nat
    /\ NoId \notin Ids
    /\ NoRow \notin Row /\ NoPage \notin Location
    /\ EmailOf \in [ Ids -> Emails ]
    /\ MaxStored \in Nat \ {0}
    /\ IsFiniteSet(Others) /\ Cardinality(Others) <= MaxStored

VARIABLES
    server,     \* server[r]: the row of reservation r and of its payment
    store,      \* findapart_reservation_access: ids whose token is stored
    at,         \* the mounted page and its query
    nav         \* the navigation that router.push or a link started

guestVars == << server, store, at, nav >>

GuestTypeOK ==
    /\ server \in [ Ids -> Row \cup {NoRow} ]
    /\ store \in Seq(Ids) /\ Len(store) <= MaxStored /\ IsInjective(store)
    /\ at \in Location
    /\ nav \in Location \cup {NoPage}

----------------------------------------------------------------------------
\* lib/guestAccess.ts

\* slice(-50): the newest entries are kept.
Newest(s) == IF Len(s) <= MaxStored THEN s
             ELSE SubSeq(s, Len(s) - MaxStored + 1, Len(s))

\* Mutant: the older entry of the reservation stays in the list.
RememberTwice(s, id) == Newest(Append(s, id))

\* rememberReservationAccess: the entry of the reservation is renewed; the list
\* holds no second one (GuestTypeOK) that the filter could drop with it.
Remember(s, id) == Newest(Append(RemoveFirst(s, id), id))

RememberAll(s, ids) == FoldLeft(Remember, s, ids)

HasToken(s, id) == id \in Range(s)
TokensFor(s, email) == { id \in Range(s) : EmailOf[id] = email }

----------------------------------------------------------------------------
\* The backend, one handler at a time

Exists(r) == server[r] # NoRow
Settled(row) == row.money \in { "paid", "refunded" }

\* create_reservation: an equal request of the same guest gets its draft back.
Open(r) == Exists(r)
             /\ server[r].status \in { "draft", "pending_payment", "confirmed" }
NewRow == [ status |-> "draft", money |-> "pending", trying |-> FALSE ]

\* start_configured_payment_attempt: refused, given the attempt in flight,
\* or started (the room may be gone: then the draft expires).
CanStart(row) == row.status \in { "draft", "pending_payment" }
Started(row) ==
    IF row.trying THEN { row }
    ELSE { [ row EXCEPT !.status = "pending_payment", !.money = "pending",
                        !.trying = TRUE ] }

\* cancel_reservation_by_guest_email; whether money is due depends on the terms.
CanCancel(row) == row.status # "cancelled" /\ CanMove(row.status, "cancelled")
Cancelled(row) ==
    { [ row EXCEPT !.status = "cancelled", !.money = m ] :
        m \in { row.money } \cup (IF row.money = "paid" THEN {"refunded"} ELSE {}) }

\* finalize_mock_payment_attempt, which no page waits for.
SettlePayment(r, paid) ==
    /\ Exists(r) /\ server[r].trying
    /\ LET row  == server[r]
           open == row.status \notin { "expired", "cancelled" }
           to   == IF paid THEN "confirmed" ELSE "draft"
       IN  server' = [ server EXCEPT ![r] =
             IF ~open THEN [ row EXCEPT !.money = "failed", !.trying = FALSE ]
             ELSE IF ~CanMove(row.status, to)
                  THEN [ row EXCEPT !.trying = FALSE ]
                  ELSE [ row EXCEPT !.status = to, !.trying = FALSE,
                           !.money = IF paid THEN "paid" ELSE "failed" ] ]
    /\ UNCHANGED << store, at, nav >>

\* expire_stale_pending_reservations.
ExpireHold(r) ==
    /\ Exists(r) /\ server[r].status = "pending_payment"
    /\ server' = [ server EXCEPT ![r].status = "expired",
                                 ![r].money = IF @ = "pending" THEN "failed"
                                              ELSE @ ]
    /\ UNCHANGED << store, at, nav >>

\* partner_confirm_reservation and the partner's cancellation.
PartnerDecides(r, confirm) ==
    /\ Exists(r)
    /\ IF confirm
       THEN /\ server[r].status \in { "draft", "pending_payment", "cancelled", "expired" }
            /\ server' = [ server EXCEPT ![r].status = "confirmed" ]
       ELSE /\ CanCancel(server[r])
            /\ \E row \in Cancelled(server[r]) :
                   server' = [ server EXCEPT ![r] = row ]
    /\ UNCHANGED << store, at, nav >>

ServerNext ==
    \E r \in Reservations :
        \/ \E paid \in BOOLEAN : SettlePayment(r, paid)
        \/ ExpireHold(r)
        \/ \E confirm \in BOOLEAN : PartnerDecides(r, confirm)

----------------------------------------------------------------------------
\* The router: the last call wins, and the page changes when it has loaded

Go(page, url) == nav' = [ page |-> page, url |-> url ]

\* Where a navigation ends: the checkout goes home when the listing is gone or
\* the query names no stay, and shows a notice when no price can be had; the
\* payment pages go home when the query names no reservation.
Landings(to) ==
    IF to.page = "checkout" THEN { "checkout", "unavailable", "home" }
    ELSE IF to.page \in { "payment", "success" } /\ to.url.id = NoId THEN {"home"}
    ELSE { to.page }

\* On the page that is mounted already only the query changes: components
\* keep their state.  On any other page all of them are mounted anew.  The
\* query matters to the pages of the payment as long as they are mounted.
Land(page) ==
    /\ nav # NoPage
    /\ page \in Landings(nav)
    /\ at' = [ page |-> page,
                url |-> IF page \in { "payment", "success" } THEN nav.url
                        ELSE EmptyUrl ]
    /\ nav' = NoPage

\* The guest has been here before, or somebody else has on this machine.
PastRow == [ status |-> "checked_out", money |-> "paid", trying |-> FALSE ]

GuestInit ==
    /\ server = [ r \in Ids |-> IF r \in Others THEN PastRow ELSE NoRow ]
    /\ store = SetToSeq(Others)
    /\ at = [ page |-> "stay", url |-> EmptyUrl ]
    /\ nav = NoPage

=============================================================================
