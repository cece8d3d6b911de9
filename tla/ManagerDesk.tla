------------------------------ MODULE ManagerDesk ------------------------------
(***************************************************************************)
(* The partner's reservations, messages and notices in                     *)
(* app/manager/page.tsx and its sections: the list of reservations with    *)
(* cancelling and confirming, the log of communications with its retries   *)
(* and its delayed reload, the notifications that are marked before the    *)
(* backend has answered, and the support tickets.                          *)
(***************************************************************************)
EXTENDS Integers, FiniteSets, Lifecycle

CONSTANTS
    Stays,      \* the reservations of the partner's listings
    Notices,    \* the notifications
    Tickets,    \* the support tickets
    Works,      \* bound: the handlers that are under way at once
    MaxLoads,   \* bound: the loads of the log that are under way at once
    NoWork

TicketStatus == { "open", "in_progress", "resolved" }

\* What a handler awaits: the terms of a cancellation, the partner's word, the
\* backend, its answer, or the list that it loads then.  arg is the filter, or the
\* status of the ticket; marked and prev are the notifications that it marks and
\* those that it would restore.
Work == [ op : { "cancel", "confirm", "rows", "retry", "mark", "ticket", "lists" },
          id : Nat, arg : ReservationStatus \cup TicketStatus \cup {"all"},
          marked : SUBSET Notices, prev : SUBSET Notices,
          step : { "terms", "ask", "send", "answer", "reload" } ]

ASSUME DeskAssumption ==
    /\ Stays \subseteq Nat /\ Tickets \subseteq Nat /\ Notices \subseteq Nat
    /\ Works \subseteq Nat /\ MaxLoads \in Nat \ {0}
    /\ NoWork \notin Work

VARIABLES
    stays,          \* the status of each reservation
    works,          \* works[w]: the handler that w runs
    stayRows,       \* reservations: the statuses that are shown
    stayFilter,     \* reservationStatusFilter
    terms,          \* the reservations with cancellation terms in the cache
    refreshState,   \* communicationRefreshState
    timer,          \* communicationRefreshTimerRef
    logLoads,       \* the loads of the log in flight
    owed,           \* a retry has been made that no load was sent after
    read,           \* the notifications that the backend knows as read
    readShown,      \* readNotificationIds
    tickets, ticketRows     \* the tickets, and those that are shown

stayVars == << stays, stayRows, stayFilter, terms >>
logVars == << refreshState, timer, logLoads, owed >>
noticeVars == << read, readShown, tickets, ticketRows >>
managerDeskVars == << works, stayVars, logVars, noticeVars >>

ManagerDeskTypeOK ==
    /\ works \in [ Works -> Work \cup {NoWork} ]
    /\ stays \in [ Stays -> ReservationStatus ]
    /\ stayRows \in [ Stays -> ReservationStatus \cup {"none"} ]
    /\ stayFilter \in ReservationStatus \cup {"all"}
    /\ terms \subseteq Stays
    /\ refreshState \in { "idle", "scheduled", "loading" }
    /\ << timer, owed >> \in BOOLEAN \X BOOLEAN
    /\ logLoads \in 0..MaxLoads
    /\ read \subseteq Notices /\ readShown \subseteq Notices
    /\ tickets \in [ Tickets -> TicketStatus ]
    /\ ticketRows \in [ Tickets -> TicketStatus ]

Vacant(w) == works[w] = NoWork /\ \A v \in Works : v < w => works[v] # NoWork
On(w, op, step) == works[w] # NoWork /\ works[w].op = op /\ works[w].step = step
NewWork(op, id, step) ==
    [ op |-> op, id |-> id, arg |-> stayFilter, marked |-> {}, prev |-> {},
      step |-> step ]
Puts(w, work) == Vacant(w) /\ works' = [ works EXCEPT ![w] = work ]
Passes(w, step) == works' = [ works EXCEPT ![w].step = step ]
Leaves(w) == works' = [ works EXCEPT ![w] = NoWork ]

----------------------------------------------------------------------------
\* Reservations

\* cancellableStatuses and reopenableStatuses, of the status that is shown.
Cancellable == { "draft", "pending_payment", "confirmed", "checked_in" }
Reopenable == { "cancelled", "expired" }

\* The filters, the queues and "apply" load the list; earlier loads go on.
SetStayFilter(w, filter) ==
    /\ stayFilter' = filter
    /\ Puts(w, [ NewWork("rows", 0, "reload") EXCEPT !.arg = filter ])
    /\ UNCHANGED << stays, stayRows, terms, logVars, noticeVars >>

\* onPartnerCancelReservation looks in the cache for the terms first.
PressCancel(w, r) ==
    /\ stayRows[r] \in Cancellable
    /\ Puts(w, NewWork("cancel", r, IF r \in terms THEN "ask" ELSE "terms"))
    /\ UNCHANGED << stayVars, logVars, noticeVars >>

\* Without the terms the partner is asked all the same.
TermsArrive(w, ok) ==
    /\ On(w, "cancel", "terms")
    /\ terms' = IF ok THEN terms \cup {works[w].id} ELSE terms
    /\ Passes(w, "ask")
    /\ UNCHANGED << stays, stayRows, stayFilter, logVars, noticeVars >>

AskCancel(w, yes) ==
    /\ On(w, "cancel", "ask")
    /\ IF yes THEN Passes(w, "send") ELSE Leaves(w)
    /\ UNCHANGED << stayVars, logVars, noticeVars >>

\* partner_cancel_reservation.
ServeCancel(w) ==
    /\ On(w, "cancel", "send")
    /\ CanMove(stays[works[w].id], "cancelled")
    /\ stays' = [ stays EXCEPT ![works[w].id] = "cancelled" ]
    /\ Passes(w, "answer")
    /\ UNCHANGED << stayRows, stayFilter, terms, logVars, noticeVars >>

\* The answer holds the terms that were applied.
CancelAnswered(w) ==
    /\ On(w, "cancel", "answer")
    /\ terms' = terms \cup {works[w].id}
    /\ Passes(w, "reload")
    /\ UNCHANGED << stays, stayRows, stayFilter, logVars, noticeVars >>

PressConfirm(w, r) ==
    /\ stayRows[r] \in Reopenable
    /\ Puts(w, NewWork("confirm", r, "send"))
    /\ UNCHANGED << stayVars, logVars, noticeVars >>

\* partner_confirm_reservation takes a closed reservation, and any other one that
\* is not with the guest yet.
ServeConfirm(w) ==
    /\ On(w, "confirm", "send")
    /\ stays[works[w].id] \in Reopenable \cup { "draft", "pending_payment", "confirmed" }
    /\ stays' = [ stays EXCEPT ![works[w].id] = "confirmed" ]
    /\ Passes(w, "reload")
    /\ UNCHANGED << stayRows, stayFilter, terms, logVars, noticeVars >>

\* loadReservations; the cache keeps the terms of the rows that are shown, stale
\* or not.
StayRowsArrive(w) ==
    /\ On(w, "cancel", "reload") \/ On(w, "confirm", "reload") \/ On(w, "rows", "reload")
    /\ stayRows' = [ r \in Stays |->
                       IF works[w].arg \in { "all", stays[r] } THEN stays[r] ELSE "none" ]
    /\ terms' = { r \in terms : stayRows'[r] # "none" }
    /\ Leaves(w)
    /\ UNCHANGED << stays, stayFilter, logVars, noticeVars >>

\* The guest, the desk and the clock.
StayMoves(r, s) ==
    /\ s \in Transitions[stays[r]]
    /\ stays' = [ stays EXCEPT ![r] = s ]
    /\ UNCHANGED << works, stayRows, stayFilter, terms, logVars, noticeVars >>

----------------------------------------------------------------------------
\* Communications

\* onRetryCommunicationEvent and the two batches.
PressRetry(w) ==
    /\ Puts(w, NewWork("retry", 0, "send"))
    /\ UNCHANGED << stayVars, logVars, noticeVars >>

\* Mutant: the old timer is cleared, and a new one is set only if there was none.
ArmedOnce(armed) == ~armed

\* scheduleCommunicationEventsReload: a new timer in the place of the old one.
Armed(armed) == TRUE

Retried(w) ==
    /\ On(w, "retry", "send")
    /\ Leaves(w)
    /\ timer' = Armed(timer)
    /\ refreshState' = "scheduled"
    /\ owed' = TRUE
    /\ UNCHANGED << logLoads, stayVars, noticeVars >>

SendsLoad ==
    /\ logLoads < MaxLoads
    /\ logLoads' = logLoads + 1
    /\ refreshState' = "loading"
    /\ owed' = FALSE

Fires ==
    /\ timer /\ timer' = FALSE
    /\ SendsLoad
    /\ UNCHANGED << works, stayVars, noticeVars >>

\* The button, or the effect of a filter of the log.
LoadLog ==
    /\ SendsLoad
    /\ UNCHANGED << works, timer, stayVars, noticeVars >>

\* The finally of loadCommunicationEvents, whatever else is under way.
Refreshed(ok) == "idle"

LogArrives(ok) ==
    /\ logLoads > 0
    /\ logLoads' = logLoads - 1
    /\ refreshState' = Refreshed(ok)
    /\ UNCHANGED << works, timer, owed, stayVars, noticeVars >>

----------------------------------------------------------------------------
\* Notifications and tickets

\* markNotificationRead of a notice that is not read yet, and
\* markAllNotificationsRead: they are shown as read at once.
PressRead(w, marked) ==
    /\ marked = Notices \/ (Cardinality(marked) = 1 /\ marked \cap readShown = {})
    /\ Puts(w, [ NewWork("mark", 0, "send") EXCEPT !.marked = marked, !.prev = readShown ])
    /\ readShown' = readShown \cup marked
    /\ UNCHANGED << stayVars, logVars, read, tickets, ticketRows >>

MarkRead(w) ==
    /\ On(w, "mark", "send")
    /\ read' = read \cup works[w].marked
    /\ Passes(w, "reload")
    /\ UNCHANGED << readShown, tickets, ticketRows, stayVars, logVars >>

\* nextSupportAction of the status that is shown; the backend accepts any.
NextTicket == [ open |-> "in_progress", in_progress |-> "resolved", resolved |-> "open" ]

PressTicket(w, t) ==
    /\ Puts(w, [ NewWork("ticket", t, "send") EXCEPT !.arg = NextTicket[ticketRows[t]] ])
    /\ UNCHANGED << stayVars, logVars, noticeVars >>

SetTicket(w) ==
    /\ On(w, "ticket", "send")
    /\ tickets' = [ tickets EXCEPT ![works[w].id] = works[w].arg ]
    /\ Passes(w, "reload")
    /\ UNCHANGED << read, readShown, ticketRows, stayVars, logVars >>

\* The effect of the filters loads both lists.
LoadNotices(w) ==
    /\ Puts(w, NewWork("lists", 0, "reload"))
    /\ UNCHANGED << stayVars, logVars, noticeVars >>

\* loadNotifications and loadSupportTickets.
NoticesArrive(w) ==
    /\ On(w, "mark", "reload") \/ On(w, "ticket", "reload") \/ On(w, "lists", "reload")
    /\ readShown' = IF works[w].op = "ticket" THEN readShown ELSE read
    /\ ticketRows' = IF works[w].op = "mark" THEN ticketRows ELSE tickets
    /\ Leaves(w)
    /\ UNCHANGED << read, tickets, stayVars, logVars >>

\* Refused or lost, before the backend has acted or after it: what was shown when
\* the mark was pressed comes back, unless only the list failed.
WorkFails(w) ==
    /\ works[w] # NoWork /\ works[w].step \in { "send", "answer", "reload" }
    /\ readShown' \in (IF works[w].op # "mark" THEN {readShown}
                       ELSE IF works[w].step = "send" THEN {works[w].prev}
                       ELSE { works[w].prev, readShown })
    /\ Leaves(w)
    /\ UNCHANGED << read, tickets, ticketRows, stayVars, logVars >>

----------------------------------------------------------------------------
ManagerDeskInit ==
    /\ works = [ w \in Works |-> NoWork ]
    /\ stays \in [ Stays -> { "draft", "confirmed" } ]
    /\ stayRows = [ r \in Stays |-> "none" ] /\ stayFilter = "all" /\ terms = {}
    /\ refreshState = "idle" /\ timer = FALSE /\ logLoads = 0 /\ owed = FALSE
    /\ read = {} /\ readShown = {}
    /\ tickets = [ t \in Tickets |-> "open" ] /\ ticketRows = tickets

\* The three parts share nothing but the bound on the handlers.
BookingsNext ==
    \/ \E w \in Works :
         \/ \E filter \in { "all", "confirmed" } : SetStayFilter(w, filter)
         \/ \E r \in Stays : PressCancel(w, r) \/ PressConfirm(w, r)
         \/ \E ok \in BOOLEAN : TermsArrive(w, ok) \/ AskCancel(w, ok)
         \/ ServeCancel(w) \/ CancelAnswered(w) \/ ServeConfirm(w)
         \/ StayRowsArrive(w) \/ WorkFails(w)
    \/ \E r \in Stays, s \in ReservationStatus : StayMoves(r, s)

LogNext ==
    \/ \E w \in Works : PressRetry(w) \/ Retried(w) \/ WorkFails(w)
    \/ Fires \/ LoadLog
    \/ \E ok \in BOOLEAN : LogArrives(ok)

NoticesNext ==
    \E w \in Works :
      \/ \E marked \in SUBSET Notices : PressRead(w, marked)
      \/ \E t \in Tickets : PressTicket(w, t)
      \/ LoadNotices(w) \/ MarkRead(w) \/ SetTicket(w) \/ NoticesArrive(w) \/ WorkFails(w)

\* The browser's timers fire, and a request is answered or fails.
DeskFairness ==
    /\ WF_managerDeskVars(Fires)
    /\ WF_managerDeskVars(\E ok \in BOOLEAN : LogArrives(ok))

----------------------------------------------------------------------------
\* Properties

\* After a retry that succeeded the log is asked for anew: no retry in between
\* clears the timer for good.
RetriedIsReloaded == []<>~owed

=============================================================================
